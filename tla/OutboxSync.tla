----------------------------- MODULE OutboxSync -----------------------------
(***************************************************************************)
(* The outbox (C7) end to end: what a scout records on a device with no    *)
(* signal, how it reaches the Pi, how the Pi's change log brings it back,  *)
(* and what becomes of an entry the Pi refuses (C10).                      *)
(*                                                                         *)
(*   device   tt-client/src/{outbox,sync,observations}.rs                  *)
(*   Pi       tt-web/src/{push,sync,refused,review,scouting}.rs over       *)
(*            tt-repo-sqlite/src/{observations,refused}.rs                 *)
(*                                                                         *)
(* A slot is one robot in one match; the answers on a form are reduced to  *)
(* whether they fit the Pi's form.  Record ids are unordered: the id order *)
(* in which a device sends its queue is left open.                         *)
(***************************************************************************)
EXTENDS Naturals, FiniteSets, Sequences

CONSTANTS
    Device,      \* tablets with an outbox
    Record,      \* client_record_ids, each made once, by one form
    Scout,       \* accounts that may sign in
    Slot,        \* (match, team) pairs an observation may be about
    Web,         \* the scouting page on the Pi itself
    Maker,       \* where each record is made: a device, or Web
    Unfit,       \* records whose answers do not fit the Pi's form
    Scope,       \* the slots of the events each device subscribes to (S3)
    Editable,    \* bound: the slots whose match the schedule may still change
    PageSize,    \* CHANGES_PER_PULL
    MaxPerPush,  \* MAX_PER_PUSH
    MaxLate,     \* bound: pushed entries still under way after their device gave up
    MaxLeads,    \* bound: refusals open on lead scouts' pages at a time
    ReuseIds,    \* may a form be saved again under an id already refused?
    None

VARIABLES
    observations, \* device tables, in memory
    outbox,       \* device outboxes, in memory
    cursor,       \* sync_state, in memory: how far into the Pi's change log
    disk,         \* the file of each device, as last saved: all three of them
    session,      \* who is signed in on each device
    sync,         \* where each device's sync is
    pushed,       \* pushed entries on the wire or in the Pi's handlers
    pi,           \* the Pi's observations
    changes,      \* the Pi's change log
    refused,      \* refused_entries on the Pi
    schedule,     \* the slots on the Pi's schedule
    lead          \* lead scouts part-way through recording a refusal

deviceVars == <<observations, outbox, cursor>>
piVars     == <<pi, changes, refused>>
vars == <<observations, outbox, cursor, disk, session, sync, pushed,
          pi, changes, refused, schedule, lead>>

-----------------------------------------------------------------------------
(* The data. *)

Row      == [slot : Slot, by : Scout, state : {"pending", "approved", "declined"}]
Entry    == [slot : Slot, refused : BOOLEAN]
Change   == [rec : Record, row : Row]
Refusal  == [by : Scout, resolution : {"open", "recorded", "dismissed"}]
\* A pushed entry the Pi has yet to answer.  "check": record_as is to come;
\* "keep": record_as said no, and keep_refusal is to come.  live: the device
\* still waits for the reply.
Delivery == [rec : Record, slot : Slot, by : Scout, stage : {"check", "keep"}, live : BOOLEAN]
LeadJob  == [rec : Record, slot : Slot, stage : {"record", "resolve"}]
Sync     == [at : {"idle", "push", "turn", "pull", "page"}, sent : SUBSET Record,
             refusals : SUBSET Record, next : {"turn", "pull"}, upto : Nat]

ASSUME ConstantsAssumption ==
    /\ Web \notin Device
    /\ Maker \in [Record -> Device \cup {Web}]
    /\ Unfit \subseteq Record
    /\ Scope \in [Device -> SUBSET Slot]
    /\ Editable \subseteq Slot
    /\ PageSize \in Nat \ {0}
    /\ MaxPerPush \in Nat \ {0}
    /\ MaxLate \in Nat /\ MaxLeads \in Nat
    /\ ReuseIds \in BOOLEAN
    /\ None \notin Row \cup Entry \cup Refusal

Live(row)    == row # None /\ row.state # "declined"
Waiting(e)   == e # None /\ ~e.refused
Refused(e)   == e # None /\ e.refused
InQueue(d)   == {r \in Record : Waiting(outbox[d][r])}

\* Another live row by the same scout for the same robot: the partial unique
\* index obs_coverage of 0001_initial.sql.
Covers(row, slot, by) == Live(row) /\ row.slot = slot /\ row.by = by
Covered(table, slot, by) == \E r \in Record : Covers(table[r], slot, by)

-----------------------------------------------------------------------------
(* The device: recording, and the file. *)

\* queue_observation: the row and the outbox entry together.  A second copy of
\* an id in the tables is a duplicate, and a covered robot a conflict: neither
\* writes anything.  An outbox entry already there is left as it is.
QueueObservation(d, r, s) ==
    /\ Maker[r] = d
    /\ ReuseIds \/ outbox[d][r] = None
    /\ observations[d][r] = None
    /\ ~Covered(observations[d], s, session[d])
    /\ observations' = [observations EXCEPT
            ![d][r] = [slot |-> s, by |-> session[d], state |-> "pending"]]
    /\ outbox' = [outbox EXCEPT
            ![d][r] = IF @ = None THEN [slot |-> s, refused |-> FALSE] ELSE @]
    /\ UNCHANGED <<cursor, disk, session, sync, pushed, piVars, schedule, lead>>

\* Mutant: any entry is dropped.
DiscardAny(d, r) ==
    /\ outbox[d][r] # None
    /\ outbox' = [outbox EXCEPT ![d][r] = None]
    /\ UNCHANGED <<observations, cursor, disk, session, sync, pushed, piVars, schedule, lead>>

\* discard_refused: only a refused entry is dropped.
DiscardRefused(d, r) ==
    /\ Refused(outbox[d][r])
    /\ outbox' = [outbox EXCEPT ![d][r] = None]
    /\ UNCHANGED <<observations, cursor, disk, session, sync, pushed, piVars, schedule, lead>>

InMemory(d) == [observations |-> observations[d], outbox |-> outbox[d], cursor |-> cursor[d]]

\* flush: the whole file, as it is in memory.  No step of the sync waits for
\* it here: flush returns at once when another save is under way.
Flush(d) ==
    /\ disk[d] # InMemory(d)
    /\ disk' = [disk EXCEPT ![d] = InMemory(d)]
    /\ UNCHANGED <<deviceVars, session, sync, pushed, piVars, schedule, lead>>

SignIn(d, who) ==
    /\ session[d] # who
    /\ session' = [session EXCEPT ![d] = who]
    /\ UNCHANGED <<deviceVars, disk, sync, pushed, piVars, schedule, lead>>

Syncing(at, sent, next, upto) ==
    [at |-> at, sent |-> sent, refusals |-> {}, next |-> next, upto |-> upto]
Idle    == Syncing("idle", {}, "pull", 0)
Pulling == Syncing("pull", {}, "pull", 0)

\* Entries pushed by d whose reply d still waits for.
Unanswered(d) == {x \in pushed : x.live /\ Maker[x.rec] = d}

\* The device gives a request up.  Some of it may still be on its way to the
\* Pi, or in its handler, and the rest is lost; either way no reply is read.
Abandon(d) ==
    \E late \in SUBSET Unanswered(d) :
        /\ pushed' = (pushed \ Unanswered(d)) \cup {[x EXCEPT !.live = FALSE] : x \in late}
        /\ Cardinality({x \in pushed' : ~x.live}) <= MaxLate

\* The page or the browser goes: what was not saved is gone, and so is the sync.
Crash(d) ==
    /\ disk[d] # InMemory(d) \/ sync[d] # Idle
    /\ observations' = [observations EXCEPT ![d] = disk[d].observations]
    /\ outbox' = [outbox EXCEPT ![d] = disk[d].outbox]
    /\ cursor' = [cursor EXCEPT ![d] = disk[d].cursor]
    /\ sync' = [sync EXCEPT ![d] = Idle]
    /\ Abandon(d)
    /\ UNCHANGED <<disk, session, piVars, schedule, lead>>

-----------------------------------------------------------------------------
(* The device: SyncClient::sync. *)

ReadyAgain(d) == InQueue(d)   \* mutant: each turn starts over

\* Waiting entries this sync has not sent yet.
Ready(d) == InQueue(d) \ sync[d].sent

\* One request of push(), as the scout signed in now.  A full batch asks for
\* another turn.
PushBatch(d, batch) ==
    /\ pushed' = pushed \cup
         {[rec |-> r, slot |-> outbox[d][r].slot, by |-> session[d],
           stage |-> "check", live |-> TRUE] : r \in batch}
    /\ sync' = [sync EXCEPT ![d] =
         Syncing("push", sync[d].sent \cup batch,
                 IF Cardinality(batch) = MaxPerPush THEN "turn" ELSE "pull", 0)]

\* Up to MaxPerPush of them in one request.
SendPush(d) ==
    /\ sync[d].at \in {"idle", "turn"}
    /\ \E batch \in SUBSET Ready(d) :
        /\ batch # {}
        /\ \/ batch = Ready(d) /\ Cardinality(batch) <= MaxPerPush
           \/ Cardinality(batch) = MaxPerPush
        /\ PushBatch(d, batch)
    /\ UNCHANGED <<deviceVars, disk, session, piVars, schedule, lead>>

\* The reply to a push: mark_refused for each refusal, and on to the next turn
\* if the batch was full, else to the pull.  An entry already cleared by the
\* echo is left alone, and so is its row.
TakeReceipts(d) ==
    /\ sync[d].at = "push"
    /\ Unanswered(d) = {}
    /\ LET marked == {r \in sync[d].refusals : outbox[d][r] # None} IN
        /\ outbox' = [outbox EXCEPT ![d] =
             [r \in Record |-> IF r \in marked THEN [@[r] EXCEPT !.refused = TRUE] ELSE @[r]]]
        /\ observations' = [observations EXCEPT ![d] =
             [r \in Record |-> IF r \in marked THEN None ELSE @[r]]]
    /\ sync' = [sync EXCEPT ![d] = IF sync[d].next = "pull" THEN Pulling
                                   ELSE Syncing("turn", sync[d].sent, "pull", 0)]
    /\ UNCHANGED <<cursor, disk, session, pushed, piVars, schedule, lead>>

\* pull(), with nothing (more) to push; from idle it is also pull_only.
SendPull(d) ==
    /\ \/ sync[d].at = "idle"
       \/ sync[d].at = "turn" /\ Ready(d) = {}
    /\ sync' = [sync EXCEPT ![d] = Pulling]
    /\ UNCHANGED <<deviceVars, disk, session, pushed, piVars, schedule, lead>>

Visible(d, i) == changes[i].row.slot \in Scope[d]

\* Mutant: the first of them.
Earliest(P, r) == CHOOSE i \in P : /\ changes[i].rec = r
                                   /\ \A j \in P : changes[j].rec = r => i <= j

\* The last of the changes in positions P that is about r.
Latest(P, r) == CHOOSE i \in P : /\ changes[i].rec = r
                                 /\ \A j \in P : changes[j].rec = r => j <= i

\* upsert_observation takes row away for change c: same scout, same robot,
\* both live, another id.
Displaces(c, r, row) == Live(c.row) /\ Covers(row, c.row.slot, c.row.by) /\ c.rec # r

\* Mutant: rows are replaced, and nothing is displaced.
AppliedOver(table, P) ==
    [r \in Record |->
        IF \E i \in P : changes[i].rec = r THEN changes[Latest(P, r)].row ELSE table[r]]

\* What apply makes of a table, the changes in positions P taken in order: each
\* row in the page replaces this device's, and takes away any row it displaces.
Applied(table, P) ==
    [r \in Record |->
        IF \E i \in P : changes[i].rec = r THEN changes[Latest(P, r)].row
        ELSE IF \E i \in P : Displaces(changes[i], r, table[r]) THEN None
        ELSE table[r]]

\* The entries a page clears: any observation that came back, waiting or refused.
NothingEchoed(d, P) == {}                                         \* mutant
EchoedWaiting(d, P) == {changes[i].rec : i \in P} \cap InQueue(d)  \* mutant
Echoed(d, P) == {changes[i].rec : i \in P}

\* The changes' transaction of apply: rows, the outbox entries they echo, and
\* the cursor.  A full page asks again; otherwise the sync is over.
ApplyPull(d) ==
    /\ sync[d].at = "page"
    /\ LET P == {i \in cursor[d] + 1 .. sync[d].upto : Visible(d, i)}
       IN /\ observations' = [observations EXCEPT ![d] = Applied(@, P)]
          /\ outbox' = [outbox EXCEPT ![d] =
               [r \in Record |-> IF r \in Echoed(d, P) THEN None ELSE @[r]]]
    /\ cursor' = [cursor EXCEPT ![d] = sync[d].upto]
    /\ sync' = [sync EXCEPT ![d] = IF sync[d].upto = cursor[d] + PageSize
                                   THEN Pulling ELSE Idle]
    /\ UNCHANGED <<disk, session, pushed, piVars, schedule, lead>>

\* No answer, a 503, a lost session, or MAX_PULLS: the sync stops.  What was
\* pushed may still reach the Pi, or never.
Stop(d) ==
    /\ sync[d].at # "idle"
    /\ sync' = [sync EXCEPT ![d] = Idle]
    /\ Abandon(d)
    /\ UNCHANGED <<deviceVars, disk, session, piVars, schedule, lead>>

-----------------------------------------------------------------------------
(* The Pi. *)

\* Mutant: a robot the scout has covered is not looked at.
SaysNoButCovered(r, s, by, fits) == ~fits \/ s \notin schedule

\* record_as says no: the answers, the schedule, or, for an id it does not
\* hold, a robot the scout has covered.
SaysNo(r, s, by, fits) ==
    \/ ~fits
    \/ s \notin schedule
    \/ pi[r] = None /\ Covered(pi, s, by)

\* A write to the observations table, and the trigger's row in the log.
Write(r, row) ==
    /\ pi' = [pi EXCEPT ![r] = row]
    /\ changes' = Append(changes, [rec |-> r, row |-> row])

\* record_observation, once record_as has not said no: a repeat is a no-op.
Store(r, s, by) ==
    IF pi[r] = None THEN Write(r, [slot |-> s, by |-> by, state |-> "pending"])
    ELSE UNCHANGED <<pi, changes>>

\* push::record for one entry, as far as record_as.
PiRecords(x) ==
    /\ x \in pushed /\ x.stage = "check"
    /\ IF SaysNo(x.rec, x.slot, x.by, x.rec \notin Unfit)
       THEN /\ pushed' = (pushed \ {x}) \cup {[x EXCEPT !.stage = "keep"]}
            /\ UNCHANGED <<pi, changes>>
       ELSE /\ pushed' = pushed \ {x}
            /\ Store(x.rec, x.slot, x.by)
    /\ UNCHANGED <<deviceVars, disk, session, sync, refused, schedule, lead>>

\* Mutant: the receipt goes out, and the refusal is not kept.
PiOnlyRefuses(x) ==
    /\ x \in pushed /\ x.stage = "keep"
    /\ pushed' = pushed \ {x}
    /\ sync' = IF x.live THEN [sync EXCEPT ![Maker[x.rec]].refusals = @ \cup {x.rec}]
               ELSE sync
    /\ UNCHANGED <<deviceVars, disk, session, piVars, schedule, lead>>

\* keep_refusal, then the receipt.  A refusal already kept only gets the newer
\* reason, and not even that once a lead has dealt with it.
PiKeepsRefusal(x) ==
    /\ x \in pushed /\ x.stage = "keep"
    /\ pushed' = pushed \ {x}
    /\ refused' = [refused EXCEPT ![x.rec] =
         IF @ = None THEN [by |-> x.by, resolution |-> "open"] ELSE @]
    /\ sync' = IF x.live THEN [sync EXCEPT ![Maker[x.rec]].refusals = @ \cup {x.rec}]
               ELSE sync
    /\ UNCHANGED <<deviceVars, disk, session, pi, changes, schedule, lead>>

\* GET /api/sync/pull, up to a row old enough to be served (LAG).
PiServesPull(d, upto) ==
    /\ sync[d].at = "pull"
    /\ sync' = [sync EXCEPT ![d] = Syncing("page", {}, "pull", upto)]
    /\ UNCHANGED <<deviceVars, disk, session, pushed, piVars, schedule, lead>>

PageEndAlwaysFull(d) == cursor[d] + PageSize   \* mutant
PageEnd(d) == IF cursor[d] + PageSize <= Len(changes) THEN cursor[d] + PageSize ELSE Len(changes)

\* scouting::submit: the form on the Pi, by the same rules as a push.
SubmitForm(r, s, by) ==
    /\ Maker[r] = Web /\ pi[r] = None
    /\ ~SaysNo(r, s, by, r \notin Unfit)
    /\ Store(r, s, by)
    /\ UNCHANGED <<deviceVars, disk, session, sync, pushed, refused, schedule, lead>>

\* review_observation: approve or decline, guarded on the state.
Review(r, verdict) ==
    /\ pi[r] # None /\ pi[r].state = "pending"
    /\ Write(r, [pi[r] EXCEPT !.state = verdict])
    /\ UNCHANGED <<deviceVars, disk, session, sync, pushed, refused, schedule, lead>>

\* A match's teams change on the schedule, by an upstream sync or by hand.
EditSchedule(s) ==
    /\ s \in Editable
    /\ schedule' = IF s \in schedule THEN schedule \ {s} ELSE schedule \cup {s}
    /\ UNCHANGED <<deviceVars, disk, session, sync, pushed, piVars, lead>>

-----------------------------------------------------------------------------
(* Lead scouts and the refusals (C10). *)

Open(r) == refused[r] # None /\ refused[r].resolution = "open"

\* refused::record as far as load(): the refusal is read, and is still open.
LeadLoads(r, s) ==
    /\ Open(r)
    /\ Cardinality(lead) < MaxLeads
    /\ lead' = lead \cup {[rec |-> r, slot |-> s, stage |-> "record"]}
    /\ UNCHANGED <<deviceVars, disk, session, sync, pushed, piVars, schedule>>

\* Mutant: a no is taken for done.
LeadRecordsAnyway(j) ==
    /\ j \in lead /\ j.stage = "record"
    /\ lead' = (lead \ {j}) \cup {[j EXCEPT !.stage = "resolve"]}
    /\ IF SaysNo(j.rec, j.slot, refused[j.rec].by, TRUE) THEN UNCHANGED <<pi, changes>>
       ELSE Store(j.rec, j.slot, refused[j.rec].by)
    /\ UNCHANGED <<deviceVars, disk, session, sync, pushed, refused, schedule>>

\* record_as, against the slot the lead chose, with answers made to fit, as
\* the scout the push knew.  A no goes back to the lead's page.
LeadRecords(j) ==
    /\ j \in lead /\ j.stage = "record"
    /\ IF SaysNo(j.rec, j.slot, refused[j.rec].by, TRUE)
       THEN lead' = lead \ {j} /\ UNCHANGED <<pi, changes>>
       ELSE /\ lead' = (lead \ {j}) \cup {[j EXCEPT !.stage = "resolve"]}
            /\ Store(j.rec, j.slot, refused[j.rec].by)
    /\ UNCHANGED <<deviceVars, disk, session, sync, pushed, refused, schedule>>

\* resolve_refusal: only one still open; whether it was is not looked at.
LeadResolves(j) ==
    /\ j \in lead /\ j.stage = "resolve"
    /\ lead' = lead \ {j}
    /\ refused' = [refused EXCEPT ![j.rec].resolution = IF @ = "open" THEN "recorded" ELSE @]
    /\ UNCHANGED <<deviceVars, disk, session, sync, pushed, pi, changes, schedule>>

\* Storage does not answer, or the Pi restarts: nothing more is done.
LeadStops(j) ==
    /\ j \in lead
    /\ lead' = lead \ {j}
    /\ UNCHANGED <<deviceVars, disk, session, sync, pushed, piVars, schedule>>

\* refused::dismiss.
Dismiss(r) ==
    /\ Open(r)
    /\ refused' = [refused EXCEPT ![r].resolution = "dismissed"]
    /\ UNCHANGED <<deviceVars, disk, session, sync, pushed, pi, changes, schedule, lead>>

-----------------------------------------------------------------------------
NoRows == [r \in Record |-> None]

Init ==
    /\ observations = [d \in Device |-> NoRows]
    /\ outbox = [d \in Device |-> NoRows]
    /\ cursor = [d \in Device |-> 0]
    /\ disk = [d \in Device |-> [observations |-> NoRows, outbox |-> NoRows, cursor |-> 0]]
    /\ session \in [Device -> Scout]
    /\ sync = [d \in Device |-> Idle]
    /\ pushed = {}
    /\ pi = NoRows
    /\ changes = <<>>
    /\ refused = NoRows
    /\ schedule \in {S \in SUBSET Slot : Slot \ Editable \subseteq S}
    /\ lead = {}

DeviceStep(d) ==
    \/ \E r \in Record, s \in Slot : QueueObservation(d, r, s)
    \/ \E r \in Record : DiscardRefused(d, r)
    \/ Flush(d) \/ Crash(d)
    \/ \E who \in Scout : SignIn(d, who)
    \/ SendPush(d) \/ TakeReceipts(d) \/ SendPull(d) \/ ApplyPull(d) \/ Stop(d)
    \/ \E upto \in cursor[d] .. PageEnd(d) : PiServesPull(d, upto)

PiStep ==
    \/ \E x \in pushed : PiRecords(x) \/ PiKeepsRefusal(x)
    \/ \E r \in Record, s \in Slot, by \in Scout : SubmitForm(r, s, by)
    \/ \E r \in Record, verdict \in {"approved", "declined"} : Review(r, verdict)
    \/ \E s \in Slot : EditSchedule(s)
    \/ \E r \in Record, s \in Slot : LeadLoads(r, s)
    \/ \E j \in lead : LeadRecords(j) \/ LeadResolves(j) \/ LeadStops(j)
    \/ \E r \in Record : Dismiss(r)

Next == (\E d \in Device : DeviceStep(d)) \/ PiStep

Spec == Init /\ [][Next]_vars

\* Pages in reach of the Pi ask for a pull again and again (sync.js: on opening,
\* back online, and at each live row), and the Pi answers, up to the newest row
\* once that is old enough to be served.  Nothing in this build begins a push by
\* itself, so none is assumed to begin; one that has begun goes on to its end.
Fairness ==
    \A d \in Device :
        /\ WF_vars(sync[d].at = "turn" /\ SendPush(d))
        /\ \A r \in Record :
            /\ WF_vars(\E x \in Unanswered(d) : x.rec = r /\ PiRecords(x))
            /\ WF_vars(\E x \in Unanswered(d) : x.rec = r /\ PiKeepsRefusal(x))
        /\ WF_vars(TakeReceipts(d))
        /\ SF_vars(SendPull(d))
        /\ SF_vars(PiServesPull(d, PageEnd(d)))
        /\ WF_vars(ApplyPull(d))

FairSpec == Spec /\ Fairness
-----------------------------------------------------------------------------
(* Properties. *)

\* Every variable has its type; cursors and pages stay within the log, and
\* the leads within their bound.
TypeOK ==
    /\ observations \in [Device -> [Record -> Row \cup {None}]]
    /\ outbox \in [Device -> [Record -> Entry \cup {None}]]
    /\ cursor \in [Device -> 0 .. Len(changes)]
    /\ disk \in [Device -> [observations : [Record -> Row \cup {None}],
                            outbox : [Record -> Entry \cup {None}],
                            cursor : 0 .. Len(changes)]]
    /\ session \in [Device -> Scout]
    /\ sync \in [Device -> Sync] /\ \A d \in Device : sync[d].upto <= Len(changes)
    /\ pushed \in SUBSET Delivery
    /\ pi \in [Record -> Row \cup {None}]
    /\ changes \in Seq(Change)
    /\ refused \in [Record -> Refusal \cup {None}]
    /\ schedule \in SUBSET Slot
    /\ lead \in SUBSET LeadJob

\* A scout has one live observation of a robot in a match, on the Pi and on
\* every device, also while the two disagree.  On a device it is what keeps
\* obs_coverage from failing an apply, which would stop its sync for good.
OneLivePerScout ==
    LET Once(table) == \A r, q \in Record :
            Live(table[r]) /\ Covers(table[q], table[r].slot, table[r].by) => r = q
    IN Once(pi) /\ \A d \in Device : Once(observations[d]) /\ Once(disk[d].observations)

\* The first n changes, as a table: what the log says the Pi held then.
Shown(d, n) == {i \in 1 .. n : Visible(d, i)}
Replayed(d, n) == Applied(NoRows, Shown(d, n))

\* A device's tables are the Pi's, as of its cursor, and on top of them only
\* rows of its own that still wait in its outbox; what the Pi has sent back no
\* longer waits.  f is a device's memory or its file.
Mirrors(d, f) ==
    \A r \in Record :
        IF Replayed(d, f.cursor)[r] # None
        THEN f.observations[r] = Replayed(d, f.cursor)[r] /\ f.outbox[r] = None
        ELSE f.observations[r] # None => Waiting(f.outbox[r])
DevicesMirrorPi == \A d \in Device : Mirrors(d, InMemory(d)) /\ Mirrors(d, disk[d])

\* A refused entry on a device is on the lead scout's list, or was dealt with
\* there: it is never one tablet's alone.
RefusedReachesLead ==
    \A d \in Device, r \in Record :
        Refused(outbox[d][r]) \/ Refused(disk[d].outbox[r]) => refused[r] # None

\* A refusal marked recorded has its observation.
RecordedIsStored ==
    \A r \in Record :
        refused[r] # None /\ refused[r].resolution = "recorded" => pi[r] # None

\* Where each record is, as Custody sees it: on the Pi in either form, else
\* waiting in some device's file.
Custodian == [r \in Record |->
    IF pi[r] # None \/ refused[r] # None THEN "pi"
    ELSE IF \E d \in Device : Waiting(disk[d].outbox[r]) THEN "device"
    ELSE "nobody"]
C == INSTANCE Custody WITH custody <- Custodian

\* A form saved to a device's file is there, waiting, until the Pi has it as
\* an observation or as a refusal, across crashes, lost replies and late
\* requests.
NothingLost == C!Safety

\* In the end the Pi stays in reach, and pages stay open: a sync stops only
\* because a last, empty page has been applied.
Calm == <>[][\A d \in Device : Stop(d) \/ Crash(d) => ApplyPull(d)]_vars

\* A sync that has begun ends, though a recorded entry waits for its echo and
\* would fill the next turn of the push as it filled this one.
EverySyncEnds == Calm => \A d \in Device : sync[d] # Idle ~> sync[d] = Idle

\* A form the Pi has recorded leaves the queue by pulls alone, whether or not
\* the reply to its push was ever read.
RecordedFormsLeaveTheQueue ==
    Calm => \A d \in Device, r \in Record :
        Waiting(outbox[d][r]) /\ pi[r] # None ~> ~Waiting(outbox[d][r])

\* What a lead makes of a refusal comes back and clears the device's entry.
RecordedRefusalClears ==
    Calm => \A d \in Device, r \in Record :
        Refused(outbox[d][r]) /\ pi[r] # None ~> outbox[d][r] = None

-----------------------------------------------------------------------------
(* What the documentation says of the program, checked against it. *)

\* tt-client/src/outbox.rs: the file never holds an observation that will not
\* be sent.  So a row that did not come from the Pi is waiting to go.
RowsWillBeSent ==
    \A d \in Device, r \in Record :
        /\ disk[d].observations[r] # None
        /\ Replayed(d, disk[d].cursor)[r] = None
        => Waiting(disk[d].outbox[r])
=============================================================================
