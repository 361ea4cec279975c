------------------------------ MODULE Courier ------------------------------
(***************************************************************************)
(* A tablet as the Pi's courier (S7): it fetches from TBA with its own     *)
(* signal, keeps the responses in its upstream log, and hands them to the  *)
(* Pi as a bundle (S5) when the Pi is in reach; the Pi's log comes back    *)
(* to every tablet with the pull (C7).                                     *)
(*                                                                         *)
(*   tablet   tt-client/src/{courier,upstream,sync,worker,opfs}.rs         *)
(*            tt-web/src/sw.js, tt-web/static/js/snapshot.js               *)
(*   Pi       tt-web/src/{bundle,sync}.rs, tt-repo-sqlite/src/bundle.rs,   *)
(*            tt-upstream/src/{tba,journal}.rs                             *)
(*                                                                         *)
(* The tablet's file is read whole when a job (a tick or a pull) starts    *)
(* and written whole when the job saves.  Time passes when TBA publishes.  *)
(***************************************************************************)
EXTENDS UpstreamLog, Absent

CONSTANTS
    Tablet,
    Ahead,       \* how far each tablet's clock is ahead of the Pi's
    Jobs,        \* the jobs a tablet runs: "tick" (a lead scout's), "pull"
    MayOverlap,  \* may a tick and a pull of one tablet overlap?  sw.js lets them
    PiUplink,    \* has the Pi, at times, internet of its own?
    PageSize,    \* UPSTREAM_PER_PULL
    MaxTime,     \* bound: what TBA publishes
    MaxMishaps,  \* bound: crashes, restarts, replaced files
    MaxLate      \* bound: bundles still under way after the tablet gave up

VARIABLES
    tba,      \* what TBA answers for each path
    clock,    \* the Pi's clock
    piLog,    \* the Pi's upstream log
    piRead,   \* bundle rows the Pi has read, each under its log's id
    cache,    \* the Pi's TbaClient: the tagged body it holds for each path
    journal,  \* responses the Pi fetched and has yet to append
    file,     \* the file of each tablet
    tick,     \* the courier's tick on each tablet
    pull,     \* the pull on each tablet
    bundles,  \* bundles on the wire or in the Pi's handlers
    mishaps

piVars == <<piLog, piRead, cache, journal>>
vars   == <<tba, clock, piVars, file, tick, pull, bundles, mishaps>>

-----------------------------------------------------------------------------
(* The data. *)

\* Log ids and cursors.  A tablet makes a log id once per file; no log yet is 0.
LogId == Nat

\* A tablet's file: its upstream log; sync_state's cursor into the Pi's log;
\* and the courier table: what has been pushed, the log's id, the key.
File   == [log : Log, cursor : Nat, pushed : Nat, id : LogId, key : BOOLEAN]
Bundle == [from : Tablet, id : LogId, rows : SUBSET Row, live : BOOLEAN]
Tick   == [at : {"idle", "ask", "fetch", "push", "posted", "answered"},
           copy : File, pi : BOOLEAN, todo : SUBSET Path, id : LogId, answer : Nat]
Pull   == [at : {"idle", "page"}, copy : File]

ASSUME CourierAssumption ==
    /\ IsFiniteSet(Tablet)
    /\ Ahead \in [Tablet -> Nat]
    /\ Jobs \subseteq {"tick", "pull"}
    /\ MayOverlap \in BOOLEAN /\ PiUplink \in BOOLEAN
    /\ PageSize \in Nat \ {0}
    /\ MaxTime \in Nat /\ MaxMishaps \in Nat /\ MaxLate \in Nat
    /\ None \notin Body

NewFile  == [log |-> EmptyLog, cursor |-> 0, pushed |-> 0, id |-> 0, key |-> FALSE]
IdleTick == [at |-> "idle", copy |-> NewFile, pi |-> FALSE, todo |-> {},
             id |-> 0, answer |-> 0]
IdlePull == [at |-> "idle", copy |-> NewFile]

\* waiting_upstream, bundle: what the tablet fetched and the Pi has not read.
Unsent(f) == {r \in f.log.rows : r.via = "device" /\ r.seq > f.pushed}

\* A row the Pi has read, of a tablet's log.
AsRead(id, r) == [id |-> id, seq |-> r.seq, path |-> r.path, body |-> r.body, at |-> r.at]

\* sync_state's "bundle:<log>" row.
PiCursor(id) == Max({x.seq : x \in {y \in piRead : y.id = id}} \cup {0})

\* Log ids are random: none is made twice.
UsedIds == {0} \cup {x.id : x \in piRead} \cup {b.id : b \in bundles}
               \cup UNION {{file[d].id, tick[d].id, tick[d].copy.id, pull[d].copy.id} : d \in Tablet}
FreshId == Min({n \in 1 .. Cardinality(UsedIds) : n \notin UsedIds})

-----------------------------------------------------------------------------
(* TBA, and the Pi's own fetches. *)

Init ==
    /\ tba \in [Path -> Body]
    /\ clock = 1
    /\ piLog = EmptyLog /\ piRead = {}
    /\ cache = [p \in Path |-> None] /\ journal = <<>>
    /\ file = [d \in Tablet |-> NewFile]
    /\ tick = [d \in Tablet |-> IdleTick] /\ pull = [d \in Tablet |-> IdlePull]
    /\ bundles = {} /\ mishaps = 0

TbaPublishes(p) ==
    /\ clock < MaxTime
    /\ \E b \in Body \ {tba[p]} : tba' = [tba EXCEPT ![p] = b]
    /\ clock' = clock + 1
    /\ UNCHANGED <<piVars, file, tick, pull, bundles, mishaps>>

\* TbaClient::get: conditional on the cached body, and only a new body is
\* recorded, for the journal to append.
PiFetches(p) ==
    /\ PiUplink
    /\ IF cache[p] = tba[p]
       THEN UNCHANGED <<cache, journal>>
       ELSE /\ cache' = [cache EXCEPT ![p] = tba[p]]
            /\ journal' = Append(journal, [path |-> p, body |-> tba[p], at |-> clock, via |-> "pi"])
    /\ UNCHANGED <<tba, clock, piLog, piRead, file, tick, pull, bundles, mishaps>>

\* journal's task.
JournalAppends ==
    /\ journal # <<>>
    /\ piLog' = Appended(piLog, Head(journal))
    /\ journal' = Tail(journal)
    /\ UNCHANGED <<tba, clock, piRead, cache, file, tick, pull, bundles, mishaps>>

PiRestarts ==
    /\ mishaps < MaxMishaps
    /\ cache' = [p \in Path |-> None] /\ journal' = <<>>
    /\ mishaps' = mishaps + 1
    /\ UNCHANGED <<tba, clock, piLog, piRead, file, tick, pull, bundles>>

-----------------------------------------------------------------------------
(* The tablet's tick. *)

\* The file is written when the job's copy has changed since it was read.
Saves(d, copy, changed) ==
    file' = IF changed THEN [file EXCEPT ![d] = copy] ELSE file

StartTick(d) ==
    /\ "tick" \in Jobs
    /\ tick[d].at = "idle"
    /\ MayOverlap \/ pull[d].at = "idle"
    /\ tick' = [tick EXCEPT ![d] = [IdleTick EXCEPT !.at = "ask", !.copy = file[d]]]
    /\ UNCHANGED <<tba, clock, piVars, file, pull, bundles, mishaps>>

\* ask_for_key.  keep: no answer, or none that says anything of the key.
AskForKey(d, pi, key, online) ==
    LET copy == IF key = "keep" THEN tick[d].copy
                ELSE [tick[d].copy EXCEPT !.key = (key = "given")]
    IN  /\ tick[d].at = "ask"
        /\ key # "keep" => pi
        /\ online => PiUplink /\ key # "keep"
        /\ Saves(d, copy, copy # tick[d].copy)
        /\ tick' = [tick EXCEPT ![d] = [@ EXCEPT !.at = IF online THEN "push" ELSE "fetch",
                        !.copy = copy, !.pi = pi, !.todo = Path]]
        /\ UNCHANGED <<tba, clock, piVars, pull, bundles, mishaps>>

\* One of the requests of fetch.  TBA answers 304 when the body is the one the
\* tablet holds (held_tba), and nothing is recorded.
Fetch(d, p) ==
    LET t == tick[d]
        e == [path |-> p, body |-> tba[p], at |-> clock + Ahead[d], via |-> "device"]
        copy == [t.copy EXCEPT !.log = Appended(t.copy.log, e)]
    IN  /\ t.at = "fetch" /\ t.copy.key
        /\ p \in t.todo
        /\ tick' = [tick EXCEPT ![d] = [t EXCEPT !.todo = t.todo \ {p}, !.copy = copy]]
        /\ UNCHANGED <<tba, clock, piVars, file, pull, bundles, mishaps>>

\* Mutant: the file is not written.
FetchEndsUnsaved(d) ==
    /\ tick[d].at = "fetch"
    /\ tick' = [tick EXCEPT ![d] = [@ EXCEPT !.at = "push", !.todo = {}]]
    /\ UNCHANGED <<tba, clock, piVars, file, pull, bundles, mishaps>>

\* The fetch is over, or was skipped: no key, no signal, no event, or TBA was
\* reached less than FETCH_EVERY ago.  fetched_at is written if TBA was
\* reached, so then the file is too.
FetchEnds(d) ==
    /\ tick[d].at = "fetch"
    /\ \E reached \in BOOLEAN :
        /\ reached => tick[d].copy.key
        /\ tick[d].todo # Path => reached
        /\ Saves(d, tick[d].copy, reached)
    /\ tick' = [tick EXCEPT ![d] = [@ EXCEPT !.at = "push", !.todo = {}]]
    /\ UNCHANGED <<tba, clock, piVars, pull, bundles, mishaps>>

NothingToPush(d) ==
    /\ tick[d].at = "push"
    /\ ~tick[d].pi \/ Unsent(tick[d].copy) = {}
    /\ tick' = [tick EXCEPT ![d] = IdleTick]
    /\ UNCHANGED <<tba, clock, piVars, file, pull, bundles, mishaps>>

\* push.  A log id made here is saved only once the push is over.
Push(d) ==
    LET copy == tick[d].copy
        id   == IF copy.id # 0 THEN copy.id ELSE FreshId
    IN  /\ tick[d].at = "push" /\ tick[d].pi /\ Unsent(copy) # {}
        /\ bundles' = bundles \cup {[from |-> d, id |-> id, rows |-> Unsent(copy), live |-> TRUE]}
        /\ tick' = [tick EXCEPT ![d] = [@ EXCEPT !.at = "posted", !.id = id]]
        /\ UNCHANGED <<tba, clock, piVars, file, pull, mishaps>>

\* bundle_pushed: the cursor only moves on.
Answered(d) ==
    LET copy == [tick[d].copy EXCEPT !.id = tick[d].id, !.pushed = Max({@, tick[d].answer})]
    IN  /\ tick[d].at = "answered"
        /\ Saves(d, copy, copy # tick[d].copy)
        /\ tick' = [tick EXCEPT ![d] = IdleTick]
        /\ UNCHANGED <<tba, clock, piVars, pull, bundles, mishaps>>

\* Mutant: the tablet goes on waiting.
LeavesNoBundles(d) == UNCHANGED bundles

\* Bundles the tablet no longer waits for are lost, or arrive late.
LeavesBundles(d) ==
    LET mine == {b \in bundles : b.live /\ b.from = d}
    IN  \E late \in SUBSET mine :
            /\ bundles' = (bundles \ mine) \cup {[b EXCEPT !.live = FALSE] : b \in late}
            /\ Cardinality({b \in bundles' : ~b.live}) <= MaxLate

\* Mutant: the cursor moves without an answer.
NotAnsweredMoves(d) ==
    /\ tick[d].at \in {"posted", "answered"}
    /\ LeavesBundles(d)
    /\ Saves(d, [tick[d].copy EXCEPT !.id = tick[d].id,
                    !.pushed = Max({r.seq : r \in Unsent(tick[d].copy)})], TRUE)
    /\ tick' = [tick EXCEPT ![d] = IdleTick]
    /\ UNCHANGED <<tba, clock, piVars, pull, mishaps>>

\* The Pi refuses the bundle, or its answer is lost.
NotAnswered(d) ==
    /\ tick[d].at \in {"posted", "answered"}
    /\ LeavesBundles(d)
    /\ Saves(d, [tick[d].copy EXCEPT !.id = tick[d].id], tick[d].id # tick[d].copy.id)
    /\ tick' = [tick EXCEPT ![d] = IdleTick]
    /\ UNCHANGED <<tba, clock, piVars, pull, mishaps>>

-----------------------------------------------------------------------------
(* The Pi imports a bundle. *)

\* readable: a time in the future is taken as now.
Believed(rows) == {[r EXCEPT !.at = Min({@, clock})] : r \in rows}

\* import_attached: in one transaction, the rows past this log's cursor, in
\* order; the cursor moves to the newest of them.
Import(b) ==
    LET new == {r \in b.rows : r.seq > PiCursor(b.id)}
    IN  /\ b \in bundles
        /\ piLog' = AppendedInOrder(piLog, Under(Believed(new), "bundle"), TRUE)
        /\ piRead' = piRead \cup {AsRead(b.id, r) : r \in new}
        /\ bundles' = bundles \ {b}
        /\ tick' = IF ~b.live THEN tick
                   ELSE [tick EXCEPT ![b.from] = [@ EXCEPT !.at = "answered",
                            !.answer = Max({r.seq : r \in new} \cup {PiCursor(b.id)})]]
        /\ UNCHANGED <<tba, clock, cache, journal, file, pull, mishaps>>

-----------------------------------------------------------------------------
(* The tablet's pull, and what goes wrong. *)

StartPull(d) ==
    /\ "pull" \in Jobs
    /\ pull[d].at = "idle"
    /\ MayOverlap \/ tick[d].at = "idle"
    /\ pull' = [pull EXCEPT ![d] = [at |-> "page", copy |-> file[d]]]
    /\ UNCHANGED <<tba, clock, piVars, file, tick, bundles, mishaps>>

\* upstream_since: the next page of the Pi's log.
Page(after) ==
    LET since == {r \in piLog.rows : r.seq > after}
    IN  {r \in since : Cardinality({q \in since : q.seq < r.seq}) < PageSize}

\* Mutant: the cursor is the head of the Pi's log, not the page's last row.
PullPageToHead(d) ==
    LET page == Page(pull[d].copy.cursor)
        log  == AppendedInOrder(pull[d].copy.log, Under(page, "pi"), FALSE)
        copy == [pull[d].copy EXCEPT !.log = log, !.cursor = piLog.next - 1]
    IN  /\ pull[d].at = "page"
        /\ file' = [file EXCEPT ![d] = copy]
        /\ pull' = [pull EXCEPT ![d] = IF Cardinality(page) = PageSize
                                       THEN [at |-> "page", copy |-> copy] ELSE IdlePull]
        /\ UNCHANGED <<tba, clock, piVars, tick, bundles, mishaps>>

\* One page of pull_only: served, applied, saved; the last one is not full.
PullPage(d) ==
    LET page == Page(pull[d].copy.cursor)
        log  == AppendedInOrder(pull[d].copy.log, Under(page, "pi"), FALSE)
        copy == [pull[d].copy EXCEPT !.log = log,
                    !.cursor = Max({r.seq : r \in page} \cup {@})]
    IN  /\ pull[d].at = "page"
        /\ file' = [file EXCEPT ![d] = copy]
        /\ pull' = [pull EXCEPT ![d] = IF Cardinality(page) = PageSize
                                       THEN [at |-> "page", copy |-> copy] ELSE IdlePull]
        /\ UNCHANGED <<tba, clock, piVars, tick, bundles, mishaps>>

\* The Pi is out of reach.
StopPull(d) ==
    /\ pull[d].at = "page"
    /\ pull' = [pull EXCEPT ![d] = IdlePull]
    /\ UNCHANGED <<tba, clock, piVars, file, tick, bundles, mishaps>>

\* The browser stops the service worker, and both jobs with it.
Crash(d) ==
    /\ mishaps < MaxMishaps
    /\ tick[d].at # "idle" \/ pull[d].at # "idle"
    /\ LeavesBundles(d)
    /\ tick' = [tick EXCEPT ![d] = IdleTick] /\ pull' = [pull EXCEPT ![d] = IdlePull]
    /\ mishaps' = mishaps + 1
    /\ UNCHANGED <<tba, clock, piVars, file>>

\* bootstrap({replace: true}), from a page: the file is a new snapshot, with
\* the newest row of each path of the Pi's log and no courier table.
Replace(d) ==
    /\ mishaps < MaxMishaps
    /\ file' = [file EXCEPT ![d] = [NewFile EXCEPT
            !.log = [rows |-> UNION {Newest(piLog, p) : p \in Path}, next |-> piLog.next],
            !.cursor = piLog.next - 1]]
    /\ mishaps' = mishaps + 1
    /\ UNCHANGED <<tba, clock, piVars, tick, pull, bundles>>

Next ==
    \/ \E p \in Path : TbaPublishes(p) \/ PiFetches(p)
    \/ JournalAppends
    \/ PiRestarts
    \/ \E d \in Tablet :
        \/ StartTick(d)
        \/ \E pi, online \in BOOLEAN, key \in {"keep", "given", "taken"} :
                AskForKey(d, pi, key, online)
        \/ \E p \in Path : Fetch(d, p)
        \/ FetchEnds(d)
        \/ NothingToPush(d) \/ Push(d)
        \/ Answered(d) \/ NotAnswered(d)
        \/ StartPull(d) \/ PullPage(d) \/ StopPull(d)
        \/ Crash(d) \/ Replace(d)
    \/ \E b \in bundles : Import(b)

Spec == Init /\ [][Next]_vars

\* A tablet keeps trying: its tick starts, now and then the Pi gives it the key,
\* TBA answers, and its bundle and the reply get through; and so do its pulls.
Fairness ==
    \A d \in Tablet :
        /\ SF_vars(StartTick(d))
        /\ SF_vars(AskForKey(d, TRUE, "given", FALSE))
        /\ \A p \in Path : SF_vars(Fetch(d, p))
        /\ WF_vars(FetchEnds(d)) /\ WF_vars(NothingToPush(d)) /\ WF_vars(Push(d))
        /\ SF_vars(\E b \in bundles : b.from = d /\ b.live /\ Import(b))
        /\ SF_vars(Answered(d))
        /\ SF_vars(StartPull(d)) /\ SF_vars(PullPage(d))

-----------------------------------------------------------------------------
(* Properties. *)

\* Every variable has its type; a tablet has read no more of the Pi's log than
\* there is, and waits only for the bundle of the tick under way.
TypeOK ==
    /\ tba \in [Path -> Body] /\ clock \in Nat
    /\ piLog \in Log
    /\ piRead \in SUBSET [id : LogId, seq : Nat, path : Path, body : Body, at : Nat]
    /\ cache \in [Path -> Body \cup {None}]
    /\ journal \in Seq(Entry)
    /\ file \in [Tablet -> File]
    /\ tick \in [Tablet -> Tick] /\ pull \in [Tablet -> Pull]
    /\ bundles \in SUBSET Bundle
    /\ mishaps \in 0 .. MaxMishaps
    /\ \A d \in Tablet : file[d].cursor < piLog.next
    /\ \A b \in bundles : b.live => tick[b.from].at = "posted" /\ tick[b.from].id = b.id

\* What a tablet fetched and the Pi's cursor for its log has passed, the Pi has
\* read: no response is skipped because another once had its number, through
\* crashes, lost answers, bundles that arrive late, and new snapshots.
FetchedIsRead ==
    \A d \in Tablet : \A r \in file[d].log.rows :
        r.via = "device" /\ file[d].id # 0 /\ r.seq <= PiCursor(file[d].id)
            => AsRead(file[d].id, r) \in piRead

\* A tablet gives up only what the Pi has read: its cursor never passes the Pi's.
PushedIsRead ==
    \A d \in Tablet : file[d].pushed > 0 => file[d].pushed <= PiCursor(file[d].id)

\* The Pi's log only moves forward in time, path by path, whatever the tablets'
\* clocks say and however late their bundles come; and never past now.
NewestWins ==
    \A r, q \in piLog.rows :
        /\ r.at <= clock
        /\ r.path = q.path /\ r.seq < q.seq => r.at < q.at

\* As far as a tablet has read the Pi's log, its newest response for a path is
\* the Pi's, or one it fetched itself.
FollowsPi ==
    \A d \in Tablet, p \in Path : \A r \in Newest(piLog, p) :
        r.seq <= file[d].cursor =>
            \E q \in Newest(file[d].log, p) : q.via = "device" \/ q.body = r.body

\* Once TBA stops publishing, the Pi comes to hold what it published last.
PiCatchesUp == \A p \in Path : <>[](\E r \in Newest(piLog, p) : r.body = tba[p])

=============================================================================
