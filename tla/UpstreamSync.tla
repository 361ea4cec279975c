---------------------------- MODULE UpstreamSync ----------------------------
(***************************************************************************)
(* The Pi's own sync from FIRST and TBA (I4-I8, I13, S5, S6): the event    *)
(* list, the background loop, and the bundles applied beside it.           *)
(*                                                                         *)
(*   clients  tt-upstream/src/{first,tba,journal}.rs                       *)
(*   sync     tt-upstream/src/{sync,project}.rs, tt-web/src/bundle.rs      *)
(*   wiring   tt-web/src/{upstream,tether}.rs                              *)
(*                                                                         *)
(* What TBA answers is known by its version: it publishes all it has for   *)
(* an event at once.  A response fetched later is one of a later version.  *)
(* A table's rows are the matches (feed "matches") or the teams' statistics *)
(* (feed "stats"), each stored as the versions it was made from.  All the  *)
(* events are within a pass's reach.                                       *)
(***************************************************************************)
EXTENDS Naturals, Sequences, FiniteSets, SequencesExt, Absent

CONSTANTS
    Event,        \* the events FIRST lists
    RowsOf,       \* how many rows each feed has for an event
    MaxVersion,   \* bound: what TBA publishes
    Bundle,       \* bundles lead scouts bring
    Carried,      \* the sets of an event's paths a bundle may have
    MaxMishaps,   \* bound: requests that fail, timeouts, restarts
    MaxNudges     \* bound: syncs asked for, phones plugged in

ASSUME UpstreamSyncAssumption ==
    /\ {} \notin Carried /\ Carried \subseteq SUBSET {"matches", "oprs", "rankings"}
    /\ RowsOf \in [{"matches", "stats"} -> Nat \ {0}] /\ MaxVersion \in Nat /\ None \notin Event
    /\ IsFiniteSet(Event) /\ MaxMishaps \in Nat /\ MaxNudges \in Nat

VARIABLES
    tba,        \* the version TBA answers with
    events,     \* the events stored
    rosters,    \* those whose teams are stored too
    tables,     \* the rows stored, by event and feed
    newest,     \* the upstream log's newest response for each path
    cache,      \* TbaClient: the tagged body it holds for each path
    journal,    \* responses yet to be appended to the log
    eventSync,  \* the holder of first_sync, or None
    synced,     \* events_synced
    loop,       \* run_loop
    permit,     \* wake: the permit notify_one stores
    bundles,
    nudges, mishaps,
    asked       \* history: a pass has been asked for and has not begun

upstreamVars == <<tba, events, rosters, tables, newest, cache, journal, eventSync, synced,
                  loop, permit, bundles, nudges, mishaps, asked>>

\* The paths of a feed, in the order they are asked for.
PathsOf == [matches |-> <<"matches">>, stats |-> <<"oprs", "rankings">>]
Feeds   == <<"matches", "stats">>
Path    == UNION {{<<e, p>> : p \in {"matches", "oprs", "rankings"}} : e \in Event}

\* A job: an event's feed to write, the versions got so far, the rows stored.
Job(e, feed) == [event |-> e, feed |-> feed, got |-> <<>>, row |-> 0]

\* sync_active, of the events stored as it begins.
Pass(stored) ==
    [at |-> "pass",
     jobs |-> [i \in 1..2 * Cardinality(stored) |->
                Job(SetToSeq(stored)[(i + 1) \div 2], Feeds[2 - (i % 2)])]]
Pause == [at |-> "sleep", jobs |-> <<>>]

\* An event sync: the events it has yet to store, and whether any went wrong.
EventSync(who) == [who |-> who, rest |-> Event, bad |-> FALSE]
EventSyncs == [who : {"boot", "lead", "tether"}, rest : SUBSET Event, bad : BOOLEAN]

ASSUME NoSyncAssumption == None \notin EventSyncs

\* spawn: with an event sync at boot (FIRST_SYNC_ON_BOOT) the loop comes after
\* it, without a key for TBA there is no loop.
Starts == {"boot", "loop", "off"}
BootSync(start) == IF start = "boot" THEN EventSync("boot") ELSE None

\* Mutant: the loop does not wait for the event list.
LoopBesideBoot(start, stored) ==
    IF start = "off" THEN [at |-> "off", jobs |-> <<>>] ELSE Pass(stored)

LoopAtBoot(start, stored) ==
    IF start = "loop" THEN Pass(stored) ELSE [at |-> start, jobs |-> <<>>]

\* With this version at TBA, these events stored, these bundles to come, and so
\* many mishaps behind.
UpstreamInit(start, version, stored, coming, past) ==
    /\ tba = version /\ events = stored /\ rosters = stored
    /\ tables = [e \in Event |-> [f \in DOMAIN PathsOf |-> [r \in 1..RowsOf[f] |-> <<>>]]]
    /\ newest = [p \in Path |-> None] /\ cache = [p \in Path |-> None] /\ journal = <<>>
    /\ eventSync = BootSync(start) /\ synced = FALSE
    /\ loop = LoopAtBoot(start, stored) /\ permit = FALSE
    /\ bundles = [b \in Bundle |-> [at |-> IF b \in coming THEN "away" ELSE "done",
                                    paths |-> {}, v |-> 0, jobs |-> <<>>]]
    /\ nudges = 0 /\ mishaps = past /\ asked = FALSE

Publish ==
    /\ tba < MaxVersion
    /\ tba' = tba + 1
    /\ UNCHANGED <<events, rosters, tables, newest, cache, journal, eventSync, synced, loop,
                   permit, bundles, nudges, mishaps, asked>>

Mishap == mishaps < MaxMishaps /\ mishaps' = mishaps + 1

-----------------------------------------------------------------------------
(* The event list. *)

\* Mutant: a nudge reaches the loop only while it waits.
NotifyWaiters == permit' = (permit \/ loop.at = "sleep")

\* notify_one.
Notify == permit' = TRUE

Nudge == Notify /\ asked' = TRUE

\* sync_now: when another sync holds the lock, the loop is woken all the same.
SyncNow ==
    /\ nudges < MaxNudges /\ nudges' = nudges + 1
    /\ IF eventSync = None
       THEN eventSync' = EventSync("lead") /\ UNCHANGED <<permit, asked>>
       ELSE Nudge /\ UNCHANGED eventSync
    /\ UNCHANGED <<tba, events, rosters, tables, newest, cache, journal, synced, loop, bundles,
                   mishaps>>

\* The phone's route comes up: the list again, or only the loop.
TetherUp ==
    /\ nudges < MaxNudges /\ nudges' = nudges + 1
    /\ IF ~synced /\ eventSync = None
       THEN eventSync' = EventSync("tether") /\ UNCHANGED <<permit, asked>>
       ELSE Nudge /\ UNCHANGED eventSync
    /\ UNCHANGED <<tba, events, rosters, tables, newest, cache, journal, synced, loop, bundles,
                   mishaps>>

\* The lock is let go.  After the boot's sync the loop begins, after another's
\* it is woken.
Released ==
    /\ eventSync' = None
    /\ IF eventSync.who = "boot"
       THEN loop' = Pass(events) /\ asked' = FALSE /\ UNCHANGED permit
       ELSE Nudge /\ UNCHANGED loop

\* upsert_event; the teams of an event, upserted and linked to it.
WithEvent(e)  == events \cup {e}
WithRoster(e) == rosters \cup {e}

\* An event, then its roster.
StoreEvent(e) ==
    /\ eventSync # None /\ e \in eventSync.rest
    /\ events' = WithEvent(e) /\ rosters' = WithRoster(e)
    /\ eventSync' = [eventSync EXCEPT !.rest = @ \ {e}]
    /\ UNCHANGED <<tba, tables, newest, cache, journal, synced, loop, permit, bundles, nudges,
                   mishaps, asked>>

\* The event cannot be stored, or its roster cannot be had.
EventPartly(e) ==
    /\ eventSync # None /\ e \in eventSync.rest
    /\ Mishap
    /\ events' \in {events, WithEvent(e)}
    /\ eventSync' = [eventSync EXCEPT !.rest = @ \ {e}, !.bad = TRUE]
    /\ UNCHANGED <<tba, rosters, tables, newest, cache, journal, synced, loop, permit, bundles,
                   nudges, asked>>

\* Mutant: a sync that ends has synced the events.
MarksAnyEnd == TRUE

MarksSynced == ~eventSync.bad

EventsEnd ==
    /\ eventSync # None /\ eventSync.rest = {}
    /\ synced' = (synced \/ MarksSynced)
    /\ Released
    /\ UNCHANGED <<tba, events, rosters, tables, newest, cache, journal, bundles, nudges, mishaps>>

\* No connection, no list, or the time is up: what is stored stays.
EventsStop ==
    /\ eventSync # None /\ eventSync.rest # {}
    /\ Mishap
    /\ Released
    /\ UNCHANGED <<tba, events, rosters, tables, newest, cache, journal, synced, bundles, nudges>>

-----------------------------------------------------------------------------
(* Storing, in the loop and from a bundle. *)

Wanted(job) == IF job.feed = "stats" /\ job.event \notin rosters THEN 0 ELSE RowsOf[job.feed]

GotAll(job) == Len(job.got) = Len(PathsOf[job.feed])
NextPath(job) == <<job.event, PathsOf[job.feed][Len(job.got) + 1]>>

\* store_matches, store_stats: the next row is replaced, whatever it was made
\* from.  Statistics have a row for each team on the roster.
StoreRow(job) ==
    tables' = IF Wanted(job) = 0 THEN tables
              ELSE [tables EXCEPT ![job.event][job.feed][job.row + 1] = job.got]

\* The jobs then.
Advanced(jobs) ==
    LET job == Head(jobs)
    IN  IF job.row + 1 < Wanted(job) THEN <<[job EXCEPT !.row = @ + 1]>> \o Tail(jobs)
        ELSE Tail(jobs)

-----------------------------------------------------------------------------
(* The loop. *)

\* TbaClient::get: a 304 stands for the body held, so either way it is what TBA
\* has; a new body is kept for the next request and for the log.
Fetch ==
    /\ loop.at = "pass" /\ loop.jobs # <<>> /\ ~GotAll(Head(loop.jobs))
    /\ LET job == Head(loop.jobs)
           p == NextPath(job)
       IN  /\ loop' = [loop EXCEPT !.jobs = <<[job EXCEPT !.got = Append(@, tba)]>> \o Tail(@)]
           /\ cache' = [cache EXCEPT ![p] = tba]
           /\ journal' = IF cache[p] = tba THEN journal ELSE Append(journal, <<p, tba>>)
    /\ UNCHANGED <<tba, events, rosters, tables, newest, eventSync, synced, permit, bundles,
                   nudges, mishaps, asked>>

\* A request that fails ends its feed; without a connection, the pass.
FetchFails ==
    /\ loop.at = "pass" /\ loop.jobs # <<>> /\ ~GotAll(Head(loop.jobs))
    /\ Mishap
    /\ loop' \in {[loop EXCEPT !.jobs = Tail(@)], Pause}
    /\ UNCHANGED <<tba, events, rosters, tables, newest, cache, journal, eventSync, synced,
                   permit, bundles, nudges, asked>>

PassStores ==
    /\ loop.at = "pass" /\ loop.jobs # <<>> /\ GotAll(Head(loop.jobs))
    /\ StoreRow(Head(loop.jobs))
    /\ loop' = [loop EXCEPT !.jobs = Advanced(@)]
    /\ UNCHANGED <<tba, events, rosters, newest, cache, journal, eventSync, synced, permit,
                   bundles, nudges, mishaps, asked>>

PassEnds ==
    /\ loop.at = "pass"
    /\ \/ loop.jobs = <<>> /\ UNCHANGED mishaps
       \/ loop.jobs # <<>> /\ Mishap               \* PASS_TIMEOUT
    /\ loop' = Pause
    /\ UNCHANGED <<tba, events, rosters, tables, newest, cache, journal, eventSync, synced,
                   permit, bundles, nudges, asked>>

\* The pause is over, or a permit cuts it short.
Wake ==
    /\ loop.at = "sleep" /\ permit
    /\ loop' = Pass(events) /\ asked' = FALSE
    /\ permit' = FALSE
    /\ UNCHANGED <<tba, events, rosters, tables, newest, cache, journal, eventSync, synced,
                   bundles, nudges, mishaps>>

PauseOver ==
    /\ loop.at = "sleep"
    /\ loop' = Pass(events) /\ asked' = FALSE
    /\ UNCHANGED <<tba, events, rosters, tables, newest, cache, journal, eventSync, synced,
                   permit, bundles, nudges, mishaps>>

\* journal's task appends whatever is not the newest body again.
JournalAppend ==
    /\ journal # <<>>
    /\ newest' = [newest EXCEPT ![Head(journal)[1]] = Head(journal)[2]]
    /\ journal' = Tail(journal)
    /\ UNCHANGED <<tba, events, rosters, tables, cache, eventSync, synced, loop, permit, bundles,
                   nudges, mishaps, asked>>

-----------------------------------------------------------------------------
(* Bundles. *)

\* A lead scout's phone fetches some of an event's paths.
Carry(b) ==
    /\ bundles[b].at = "away"
    /\ \E e \in Event, paths \in Carried :
            bundles' = [bundles EXCEPT ![b].at = "carried", ![b].v = tba,
                                       ![b].paths = {<<e, p>> : p \in paths}]
    /\ UNCHANGED <<tba, events, rosters, tables, newest, cache, journal, eventSync, synced, loop,
                   permit, nudges, mishaps, asked>>

\* latest_upstream.
Latest(p) == newest[p]

\* import_bundle; then project, of the events there are, what was appended.
Import(b) ==
    /\ bundles[b].at = "carried"
    /\ LET appended == {p \in bundles[b].paths : newest[p] = None \/ newest[p] < bundles[b].v}
           fed == CHOOSE fs \in {<<>>, <<"matches">>, <<"stats">>, Feeds} :
                    \A f \in DOMAIN PathsOf : f \in Range(fs)
                        <=> \E p \in appended : p[2] \in Range(PathsOf[f])
           e == (CHOOSE p \in bundles[b].paths : TRUE)[1]
       IN  /\ newest' = [p \in Path |-> IF p \in appended THEN bundles[b].v ELSE newest[p]]
           /\ bundles' = [bundles EXCEPT ![b].at = "import",
                ![b].jobs = IF e \in events THEN [i \in DOMAIN fed |-> Job(e, fed[i])] ELSE <<>>]
    /\ UNCHANGED <<tba, events, rosters, tables, cache, journal, eventSync, synced, loop, permit,
                   nudges, mishaps, asked>>

\* The log's newest for each path of the feed, or nothing is applied.
ReadLog(b) ==
    /\ bundles[b].jobs # <<>> /\ ~GotAll(Head(bundles[b].jobs))
    /\ LET job == Head(bundles[b].jobs)
           v == Latest(NextPath(job))
       IN  bundles' = [bundles EXCEPT ![b].jobs =
                IF v = None THEN Tail(@) ELSE <<[job EXCEPT !.got = Append(@, v)]>> \o Tail(@)]
    /\ UNCHANGED <<tba, events, rosters, tables, newest, cache, journal, eventSync, synced, loop,
                   permit, nudges, mishaps, asked>>

Project(b) ==
    /\ bundles[b].jobs # <<>> /\ GotAll(Head(bundles[b].jobs))
    /\ StoreRow(Head(bundles[b].jobs))
    /\ bundles' = [bundles EXCEPT ![b].jobs = Advanced(@)]
    /\ UNCHANGED <<tba, events, rosters, newest, cache, journal, eventSync, synced, loop, permit,
                   nudges, mishaps, asked>>

Projected(b) ==
    /\ bundles[b].at = "import" /\ bundles[b].jobs = <<>>
    /\ bundles' = [bundles EXCEPT ![b].at = "done"]
    /\ UNCHANGED <<tba, events, rosters, tables, newest, cache, journal, eventSync, synced, loop,
                   permit, nudges, mishaps, asked>>

\* The database stays; what was in memory, and what was being applied, does not.
PiRestart ==
    /\ Mishap
    /\ cache' = [p \in Path |-> None] /\ journal' = <<>>
    /\ \E start \in Starts \ {"off"} : eventSync' = BootSync(start) /\ loop' = LoopAtBoot(start, events)
    /\ synced' = FALSE /\ permit' = FALSE /\ asked' = FALSE
    /\ bundles' = [b \in Bundle |->
            IF bundles[b].at = "import" THEN [bundles[b] EXCEPT !.at = "done", !.jobs = <<>>]
            ELSE bundles[b]]
    /\ UNCHANGED <<tba, events, rosters, tables, newest, nudges>>

LoopStep == Fetch \/ PassStores \/ PassEnds \/ Wake

UpstreamNext ==
    \/ Publish \/ SyncNow \/ TetherUp \/ EventsEnd \/ EventsStop
    \/ \E e \in Event : StoreEvent(e) \/ EventPartly(e)
    \/ LoopStep \/ FetchFails \/ PauseOver \/ JournalAppend
    \/ \E b \in Bundle : Carry(b) \/ Import(b) \/ ReadLog(b) \/ Project(b) \/ Projected(b)
    \/ PiRestart

\* A Pi that starts with any events stored, at any of TBA's versions.
UpstreamSpec ==
    /\ \E start \in Starts, version \in 0..MaxVersion, stored \in SUBSET Event,
          coming \in SUBSET Bundle, past \in 0..MaxMishaps :
            UpstreamInit(start, version, stored, coming, past)
    /\ [][UpstreamNext]_upstreamVars

\* The tasks run.  The pause may be of any length: nothing rests on its end.
UpstreamFairness ==
    /\ WF_upstreamVars((\E e \in Event : StoreEvent(e)) \/ EventsEnd)
    /\ WF_upstreamVars(LoopStep)
    /\ WF_upstreamVars(JournalAppend)

-----------------------------------------------------------------------------
(* Properties. *)

\* What TBA has answered with so far, and the rows made of it.
Seen         == 0..tba
TableRows(f) == [1..RowsOf[f] -> {<<>>} \cup [1..Len(PathsOf[f]) -> Seen]]

\* Jobs under way: no more got than there are paths, and rows left to store.
Jobs == {j \in [event : Event, feed : DOMAIN PathsOf, got : Seq(Seen), row : Nat] :
            Len(j.got) <= Len(PathsOf[j.feed]) /\ j.row < RowsOf[j.feed]}

Loops   == [at : {"boot", "pass", "sleep", "off"}, jobs : Seq(Jobs)]
Bundles == [at : {"away", "carried", "import", "done"}, paths : SUBSET Path, v : Seen,
            jobs : Seq(Jobs)]

\* Each variable has the values it may have.  No row is partly made, or of what
\* TBA has not answered yet; the loop waits for the boot's sync and no other.
UpstreamTypeOK ==
    /\ tba \in Nat /\ rosters \subseteq events /\ events \subseteq Event
    /\ DOMAIN tables = Event
    /\ \A e \in Event :
            DOMAIN tables[e] = DOMAIN PathsOf /\ \A f \in DOMAIN PathsOf : tables[e][f] \in TableRows(f)
    /\ newest \in [Path -> Seen \cup {None}] /\ cache \in [Path -> Seen \cup {None}]
    /\ journal \in Seq(Path \X Seen)
    /\ eventSync \in EventSyncs \cup {None}
    /\ bundles \in [Bundle -> Bundles]
    /\ \A b \in Bundle : bundles[b].at = "carried" => bundles[b].paths # {}
    /\ loop \in Loops
    /\ loop.at = "boot" <=> eventSync # None /\ eventSync.who = "boot"

\* While the server believes the event list has landed (and so would not ask
\* for it again when the phone is plugged in), every event FIRST lists is
\* stored with its roster, whatever failed, ran out of time or overlapped.
SyncedMeansAll == synced => events = Event /\ rosters = Event

\* Every row of a stored event is what TBA has.
TablesFollowTba ==
    \A e \in events :
        /\ \A r \in 1..RowsOf["matches"] : tables[e].matches[r] = <<tba>>
        /\ e \in rosters => \A r \in 1..RowsOf["stats"] : tables[e].stats[r] = <<tba, tba>>

\* A sync asked for when nothing fails any more brings in all that TBA has,
\* without waiting for the loop's pause to end: though it be asked for in the
\* middle of a pass, and though bundles applied before left rows of other ages.
SyncNowBringsAll ==
    (/\ asked /\ tba = MaxVersion /\ mishaps = MaxMishaps /\ nudges = MaxNudges
     /\ \A b \in Bundle : bundles[b].at = "done") ~> TablesFollowTba
=============================================================================
