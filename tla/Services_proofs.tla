--------------------------- MODULE Services_proofs ---------------------------
(* Proofs about three of the Pi's services.                                   *)
(*                                                                            *)
(*   UpstreamSync  for any events, rows and bundles, and any number of        *)
(*                 versions, failures and syncs asked for                     *)
(*   Backups       for any time a snapshot is kept, any number of them kept   *)
(*                 however old, any clock, and any number of snapshots and of *)
(*                 boots                                                      *)
(*   Tokens        for every set of devices and users, and however long it    *)
(*                 runs                                                       *)
EXTENDS UpstreamSync, Backups, Tokens, FiniteSetTheorems, SequenceTheorems,
        WellFoundedInduction, TLAPS

-----------------------------------------------------------------------------
(* UpstreamSync: the inductive invariant. *)

\* A roster is stored after its event.
EventsAreListed == rosters \subseteq events /\ events \subseteq Event

\* A sync in which nothing went wrong has stored all it has not yet to store.
SyncStores ==
    eventSync # None /\ ~eventSync.bad =>
        \A e \in Event \ eventSync.rest : e \in events /\ e \in rosters

EventsInv == EventsAreListed /\ SyncStores /\ SyncedMeansAll

-----------------------------------------------------------------------------
(* UpstreamSync: the steps. *)

LEMMA EventSyncIs == ASSUME NEW who PROVE EventSync(who).rest = Event
BY DEF EventSync

LEMMA SyncInit ==
  ASSUME NEW start, NEW version, NEW stored \in SUBSET Event, NEW coming, NEW past,
         UpstreamInit(start, version, stored, coming, past)
  PROVE  EventsInv
<1>1. events = stored /\ rosters = stored /\ synced = FALSE /\ eventSync = BootSync(start)
  BY DEF UpstreamInit
<1>2. SyncStores
  BY <1>1, EventSyncIs DEF SyncStores, BootSync
<1> QED BY <1>1, <1>2 DEF EventsInv, EventsAreListed, SyncedMeansAll

\* An event is stored, with its roster; in a sync already spoiled, any may be.
LEMMA StoreEventHolds == ASSUME EventsInv, NEW e \in Event, StoreEvent(e) PROVE EventsInv'
<1> USE DEF EventsInv
<1>1. EventsAreListed' /\ SyncedMeansAll'
  BY DEF StoreEvent, WithEvent, WithRoster, EventsAreListed, SyncedMeansAll
<1>2. SyncStores'
  BY DEF StoreEvent, WithEvent, WithRoster, SyncStores, EventsAreListed
<1> QED BY <1>1, <1>2

\* An event that is not stored as it should be spoils its sync.
LEMMA EventPartlyHolds == ASSUME EventsInv, NEW e \in Event, EventPartly(e) PROVE EventsInv'
BY DEF EventPartly, WithEvent, EventsInv, EventsAreListed, SyncStores, SyncedMeansAll

LEMMA EventsEndHolds == ASSUME EventsInv, EventsEnd PROVE EventsInv'
<1> USE DEF EventsInv
<1>1. eventSync' = None /\ UNCHANGED <<events, rosters>>
  BY DEF EventsEnd, Released
<1>2. synced' => rosters = Event /\ events = Event
  <2>1. CASE synced
    BY <2>1 DEF SyncedMeansAll
  <2>2. CASE ~eventSync.bad
    BY <2>2 DEF EventsEnd, SyncStores, EventsAreListed
  <2> QED BY <2>1, <2>2 DEF EventsEnd, MarksSynced
<1> QED BY <1>1, <1>2 DEF EventsAreListed, SyncStores, SyncedMeansAll

\* A sync begins with every event to store, or the one under way goes on, or ends.
LEMMA OtherSyncs ==
  ASSUME EventsInv, UNCHANGED <<events, rosters>>, synced' \in {synced, FALSE},
         \/ eventSync' \in {eventSync, None}
         \/ \E who : eventSync' = EventSync(who)
  PROVE  EventsInv'
<1> USE DEF EventsInv
<1>1. EventsAreListed'
  BY DEF EventsAreListed
<1>3. SyncedMeansAll'
  <2>1. synced' = synced \/ synced' = FALSE
    OBVIOUS
  <2> QED BY <2>1 DEF SyncedMeansAll
<1>2. SyncStores'
  <2>1. CASE eventSync' \in {eventSync, None}
    BY <2>1 DEF SyncStores
  <2>2. CASE \E who : eventSync' = EventSync(who)
    <3>1. eventSync'.rest = Event
      BY <2>2, EventSyncIs
    <3> QED BY <3>1 DEF SyncStores
  <2> QED BY <2>1, <2>2
<1> QED BY <1>1, <1>2, <1>3

LEMMA SyncStep == EventsInv /\ [UpstreamNext]_upstreamVars => EventsInv'
<1> SUFFICES ASSUME EventsInv, [UpstreamNext]_upstreamVars PROVE EventsInv'
  OBVIOUS
<1>1. CASE UNCHANGED <<events, rosters, synced, eventSync>>
  BY <1>1 DEF EventsInv, EventsAreListed, SyncStores, SyncedMeansAll
<1>2. CASE UNCHANGED upstreamVars
  BY <1>1, <1>2 DEF upstreamVars
<1>3. CASE Publish
  BY <1>1, <1>3 DEF Publish
<1>4. CASE SyncNow
  BY <1>4, OtherSyncs DEF SyncNow
<1>5. CASE TetherUp
  BY <1>5, OtherSyncs DEF TetherUp
<1>6. CASE EventsEnd
  BY <1>6, EventsEndHolds
<1>7. CASE EventsStop
  BY <1>7, OtherSyncs DEF EventsStop, Released
<1>8. CASE \E e \in Event : StoreEvent(e) \/ EventPartly(e)
  BY <1>8, StoreEventHolds, EventPartlyHolds
<1>9. CASE LoopStep \/ FetchFails \/ PauseOver \/ JournalAppend
  <2>1. UNCHANGED <<events, rosters, synced, eventSync>>
    BY <1>9 DEF LoopStep, Fetch, PassStores, PassEnds, Wake, FetchFails, PauseOver, JournalAppend
  <2> QED BY <1>1, <2>1
<1>10. CASE \E b \in Bundle : Carry(b) \/ Import(b) \/ ReadLog(b) \/ Project(b) \/ Projected(b)
  <2>1. UNCHANGED <<events, rosters, synced, eventSync>>
    BY <1>10 DEF Carry, Import, ReadLog, Project, Projected
  <2> QED BY <1>1, <2>1
<1>11. CASE PiRestart
  <2>1. eventSync' = None \/ eventSync' = EventSync("boot")
    BY <1>11 DEF PiRestart, BootSync
  <2> QED BY <1>11, <2>1, OtherSyncs DEF PiRestart
<1> QED BY <1>2, <1>3, <1>4, <1>5, <1>6, <1>7, <1>8, <1>9, <1>10, <1>11 DEF UpstreamNext

-----------------------------------------------------------------------------
(* UpstreamSync: the theorem. *)

\* While the server believes the event list has landed, every event is stored
\* with its roster: through failed and abandoned syncs, syncs asked for while
\* another runs, the loop, bundles and restarts.
THEOREM SyncedIsAll == UpstreamSpec => []SyncedMeansAll
<1>1. ASSUME UpstreamSpec PROVE EventsInv
  BY <1>1, SyncInit DEF UpstreamSpec
<1>2. EventsInv => SyncedMeansAll
  BY DEF EventsInv
<1> QED BY <1>1, <1>2, SyncStep, PTL DEF UpstreamSpec

-----------------------------------------------------------------------------
(* UpstreamSync: jobs, and what a pass or a bundle makes of them. *)

\* The two feeds and their paths.
LEMMA TheFeeds ==
    /\ DOMAIN PathsOf = {"matches", "stats"}
    /\ Feeds \in Seq(DOMAIN PathsOf) /\ Len(Feeds) = 2
    /\ \A f \in DOMAIN PathsOf :
            /\ PathsOf[f] \in Seq({"matches", "oprs", "rankings"})
            /\ Len(PathsOf[f]) \in Nat \ {0} /\ RowsOf[f] \in Nat \ {0}
<1>1. DOMAIN PathsOf = {"matches", "stats"}
  BY DEF PathsOf
<1>2. Feeds \in Seq(DOMAIN PathsOf) /\ Len(Feeds) = 2
  BY <1>1 DEF Feeds
<1>3. /\ PathsOf["matches"] \in Seq({"matches", "oprs", "rankings"}) /\ Len(PathsOf["matches"]) = 1
      /\ PathsOf["stats"] \in Seq({"matches", "oprs", "rankings"}) /\ Len(PathsOf["stats"]) = 2
  BY DEF PathsOf
<1>4. \A f \in {"matches", "stats"} : RowsOf[f] \in Nat \ {0}
  BY UpstreamSyncAssumption
<1>5. ASSUME NEW f \in DOMAIN PathsOf
      PROVE  /\ PathsOf[f] \in Seq({"matches", "oprs", "rankings"})
             /\ Len(PathsOf[f]) \in Nat \ {0} /\ RowsOf[f] \in Nat \ {0}
  <2>1. f \in {"matches", "stats"}
    BY <1>1
  <2>2. PathsOf[f] \in Seq({"matches", "oprs", "rankings"})
    BY <1>3, <2>1, Zenon
  <2>3. Len(PathsOf[f]) \in {1, 2}
    BY <1>3, <2>1, Zenon
  <2>4. Len(PathsOf[f]) \in Nat \ {0}
    BY <2>3
  <2>5. RowsOf[f] \in Nat \ {0}
    BY <1>4, <2>1, Zenon
  <2> QED BY <2>2, <2>4, <2>5, Zenon
<1> QED BY <1>1, <1>2, <1>5

\* A new job has nothing of its paths yet, and no row stored.
LEMMA NewJob ==
  ASSUME NEW e \in Event, NEW f \in DOMAIN PathsOf, tba \in Nat
  PROVE  Job(e, f) \in Jobs
<1>1. <<>> \in Seq(Seen) /\ Len(<<>>) = 0
  BY EmptySeq
<1> QED BY <1>1, TheFeeds DEF Job, Jobs

\* A finite set laid out in a sequence.
LEMMA LaidOut ==
  ASSUME NEW S, IsFiniteSet(S)
  PROVE  SetToSeq(S) \in [1..Cardinality(S) -> S] /\ Cardinality(S) \in Nat
<1>1. Cardinality(S) \in Nat /\ ExistsBijection(1..Cardinality(S), S)
  BY FS_CardinalityType
<1>2. \E f \in [1..Cardinality(S) -> S] : IsInjective(f)
  BY <1>1, Zenon DEF ExistsBijection, Bijection, Injection
<1> QED BY <1>1, <1>2, Zenon DEF SetToSeq

\* A pass goes through the events stored as it begins.
LEMMA PassIs ==
  ASSUME NEW stored \in SUBSET Event, tba \in Nat
  PROVE  Pass(stored) \in Loops /\ Pass(stored).at = "pass"
<1> DEFINE s == SetToSeq(stored)
           n == Cardinality(stored)
           js == [i \in 1..2 * n |-> Job(s[(i + 1) \div 2], Feeds[2 - (i % 2)])]
<1>1. s \in [1..n -> stored] /\ n \in Nat
  BY LaidOut, FS_Subset, UpstreamSyncAssumption
<1>2. ASSUME NEW i \in 1..2 * n PROVE Job(s[(i + 1) \div 2], Feeds[2 - (i % 2)]) \in Jobs
  <2>1. (i + 1) \div 2 \in 1..n /\ 2 - (i % 2) \in 1..2
    <3> HIDE DEF n
    <3> QED BY <1>1
  <2>2. s[(i + 1) \div 2] \in Event
    BY <1>1, <2>1
  <2>3. Feeds[2 - (i % 2)] \in DOMAIN PathsOf
    <3>1. \A k \in 1..2 : Feeds[k] \in DOMAIN PathsOf
      BY TheFeeds, ElementOfSeq
    <3> QED BY <2>1, <3>1
  <2> QED BY <2>2, <2>3, NewJob
<1>3. js \in Seq(Jobs)
  <2>1. 2 * n \in Nat
    BY <1>1
  <2> HIDE DEF s, n
  <2> QED BY <1>2, <2>1
<1>4. Pass(stored) = [at |-> "pass", jobs |-> js]
  BY DEF Pass
<1> HIDE DEF js
<1> QED BY <1>3, <1>4 DEF Loops

\* What is left of the jobs when the first is over, or has got one more.
LEMMA JobsLeft ==
  ASSUME NEW jobs \in Seq(Jobs), jobs # <<>>
  PROVE  Head(jobs) \in Jobs /\ Tail(jobs) \in Seq(Jobs)
BY HeadTailProperties

LEMMA JobAgain ==
  ASSUME NEW job \in Jobs, NEW rest \in Seq(Jobs)
  PROVE  <<job>> \o rest \in Seq(Jobs)
<1>1. <<job>> \in Seq(Jobs)
  OBVIOUS
<1> QED BY <1>1, ConcatProperties

\* The next path of a job, and the job with what it answered.
LEMMA GotOneMore ==
  ASSUME NEW job \in Jobs, ~GotAll(job), tba \in Nat, NEW v \in Seen
  PROVE  NextPath(job) \in Path /\ [job EXCEPT !.got = Append(@, v)] \in Jobs
<1>1. /\ job \in [event : Event, feed : DOMAIN PathsOf, got : Seq(Seen), row : Nat]
      /\ Len(job.got) <= Len(PathsOf[job.feed]) /\ job.row < RowsOf[job.feed]
  BY DEF Jobs
<1>2. Len(job.got) \in Nat /\ Len(job.got) + 1 \in 1..Len(PathsOf[job.feed])
  BY <1>1, TheFeeds, LenProperties DEF GotAll
<1>3. PathsOf[job.feed][Len(job.got) + 1] \in {"matches", "oprs", "rankings"}
  BY <1>1, <1>2, TheFeeds, ElementOfSeq
<1>4. NextPath(job) \in Path
  BY <1>1, <1>3 DEF NextPath, Path
<1>5. Append(job.got, v) \in Seq(Seen) /\ Len(Append(job.got, v)) = Len(job.got) + 1
  BY <1>1, AppendProperties
<1>6. [job EXCEPT !.got = Append(@, v)]
        = [event |-> job.event, feed |-> job.feed, got |-> Append(job.got, v), row |-> job.row]
  BY <1>1
<1> QED BY <1>1, <1>2, <1>4, <1>5, <1>6 DEF Jobs

\* A job whose row is stored has the next one to store, or is over.
LEMMA AdvancedIs ==
  ASSUME NEW jobs \in Seq(Jobs), jobs # <<>>
  PROVE  Advanced(jobs) \in Seq(Jobs)
<1> DEFINE job == Head(jobs)
<1>1. job \in Jobs /\ Tail(jobs) \in Seq(Jobs)
  BY JobsLeft
<1>2. ASSUME job.row + 1 < Wanted(job) PROVE [job EXCEPT !.row = @ + 1] \in Jobs
  <2> HIDE DEF job
  <2>1. /\ job \in [event : Event, feed : DOMAIN PathsOf, got : Seq(Seen), row : Nat]
        /\ Len(job.got) <= Len(PathsOf[job.feed])
    BY <1>1 DEF Jobs
  <2>2. job.row + 1 < RowsOf[job.feed]
    BY <1>2, <2>1, TheFeeds DEF Wanted
  <2>3. [job EXCEPT !.row = @ + 1]
          = [event |-> job.event, feed |-> job.feed, got |-> job.got, row |-> job.row + 1]
    BY <2>1
  <2> QED BY <2>1, <2>2, <2>3 DEF Jobs
<1>3. Advanced(jobs) = IF job.row + 1 < Wanted(job)
                       THEN <<[job EXCEPT !.row = @ + 1]>> \o Tail(jobs) ELSE Tail(jobs)
  BY DEF Advanced
<1> HIDE DEF job
<1> QED BY <1>1, <1>2, <1>3, JobAgain

-----------------------------------------------------------------------------
(* UpstreamSync: the conjuncts of the type invariant. *)

\* The tables are those of the events, with every row made of the answers so far.
TablesTyped ==
    /\ DOMAIN tables = Event
    /\ \A e \in Event :
            DOMAIN tables[e] = DOMAIN PathsOf /\ \A f \in DOMAIN PathsOf : tables[e][f] \in TableRows(f)

\* A row stored has an answer of each of its paths.
LEMMA StoredRow ==
  ASSUME TablesTyped, tba \in Nat, NEW job \in Jobs, GotAll(job), StoreRow(job), tba' = tba
  PROVE  TablesTyped'
<1> DEFINE e == job.event
           f == job.feed
           r == job.row + 1
<1>1. /\ e \in Event /\ f \in DOMAIN PathsOf /\ job.got \in Seq(Seen) /\ job.row \in Nat
      /\ job.row < RowsOf[f]
  BY DEF Jobs
<1>2. job.got \in [1..Len(PathsOf[f]) -> Seen]
  BY <1>1, LenProperties DEF GotAll
<1>3. CASE Wanted(job) = 0
  BY <1>3 DEF StoreRow, TablesTyped, TableRows, Seen
<1>4. CASE Wanted(job) # 0
  <2>1. tables' = [tables EXCEPT ![e][f][r] = job.got]
    BY <1>4 DEF StoreRow
  <2>2. r \in 1..RowsOf[f]
    BY <1>1, TheFeeds
  <2>3. TableRows(f)' = TableRows(f) /\ \A g : TableRows(g)' = TableRows(g)
    BY DEF TableRows, Seen
  <2> HIDE DEF e, f, r
  <2>4. tables[e][f] \in TableRows(f) /\ DOMAIN tables[e] = DOMAIN PathsOf /\ DOMAIN tables = Event
    BY <1>1 DEF TablesTyped
  <2>5. [tables[e][f] EXCEPT ![r] = job.got] \in TableRows(f)
    BY <1>2, <2>4, <2>2 DEF TableRows
  <2>6. tables' = [tables EXCEPT ![e] = [tables[e] EXCEPT ![f] = [tables[e][f] EXCEPT ![r] = job.got]]]
    BY <2>1
  <2>7. DOMAIN tables' = Event
    BY <2>4, <2>6
  <2>8. ASSUME NEW d \in Event
        PROVE  DOMAIN (tables'[d]) = DOMAIN PathsOf
               /\ \A g \in DOMAIN PathsOf : tables'[d][g] \in TableRows(g)
    <3>1. CASE d = e
      <4>1. tables'[d] = [tables[e] EXCEPT ![f] = [tables[e][f] EXCEPT ![r] = job.got]]
        BY <2>6, <2>4, <3>1, <1>1
      <4> QED BY <4>1, <2>4, <2>5, <1>1 DEF TablesTyped
    <3>2. CASE d # e
      <4>1. tables'[d] = tables[d]
        BY <2>6, <2>4, <3>2
      <4> QED BY <4>1 DEF TablesTyped
    <3> QED BY <3>1, <3>2
  <2> QED BY <2>3, <2>7, <2>8 DEF TablesTyped
<1> QED BY <1>3, <1>4

\* The newest responses, the bodies held and those to append were all answered.
LogTyped ==
    /\ newest \in [Path -> Seen \cup {None}] /\ cache \in [Path -> Seen \cup {None}]
    /\ journal \in Seq(Path \X Seen)

\* The event sync and the loop, which waits for the boot's and no other.
TurnsTyped ==
    /\ eventSync \in EventSyncs \cup {None} /\ loop \in Loops
    /\ loop.at = "boot" <=> eventSync # None /\ eventSync.who = "boot"

BundlesTyped ==
    /\ bundles \in [Bundle -> Bundles]
    /\ \A b \in Bundle : bundles[b].at = "carried" => bundles[b].paths # {}

EventsTyped == tba \in Nat /\ EventsAreListed

LEMMA TypesAre ==
    UpstreamTypeOK <=> EventsTyped /\ TablesTyped /\ LogTyped /\ TurnsTyped /\ BundlesTyped
BY DEF UpstreamTypeOK, EventsTyped, EventsAreListed, TablesTyped, LogTyped, TurnsTyped, BundlesTyped

LEMMA TypesNext ==
    UpstreamTypeOK' <=> EventsTyped' /\ TablesTyped' /\ LogTyped' /\ TurnsTyped' /\ BundlesTyped'
BY DEF UpstreamTypeOK, EventsTyped, EventsAreListed, TablesTyped, LogTyped, TurnsTyped, BundlesTyped

\* What stays as it is, while TBA does.
LEMMA SameKinds ==
  ASSUME tba' = tba
  PROVE  /\ Seen' = Seen /\ Jobs' = Jobs /\ Loops' = Loops /\ Bundles' = Bundles
         /\ \A f : TableRows(f)' = TableRows(f)
BY DEF Seen, Jobs, Loops, Bundles, TableRows

LEMMA Stays ==
  ASSUME tba' = tba
  PROVE  /\ EventsTyped /\ UNCHANGED <<events, rosters>> => EventsTyped'
         /\ TablesTyped /\ UNCHANGED tables => TablesTyped'
         /\ LogTyped /\ UNCHANGED <<newest, cache, journal>> => LogTyped'
         /\ TurnsTyped /\ UNCHANGED <<eventSync, loop>> => TurnsTyped'
         /\ BundlesTyped /\ UNCHANGED bundles => BundlesTyped'
<1>1. EventsTyped /\ UNCHANGED <<events, rosters>> => EventsTyped'
  BY DEF EventsTyped, EventsAreListed
<1>2. TablesTyped /\ UNCHANGED tables => TablesTyped'
  BY SameKinds DEF TablesTyped
<1>3. LogTyped /\ UNCHANGED <<newest, cache, journal>> => LogTyped'
  BY SameKinds DEF LogTyped
<1>4. TurnsTyped /\ UNCHANGED <<eventSync, loop>> => TurnsTyped'
  BY SameKinds DEF TurnsTyped
<1>5. BundlesTyped /\ UNCHANGED bundles => BundlesTyped'
  BY SameKinds DEF BundlesTyped
<1> QED BY <1>1, <1>2, <1>3, <1>4, <1>5

\* An event sync begins; it is not None.
LEMMA SyncIs ==
  ASSUME NEW who \in {"boot", "lead", "tether"}
  PROVE  /\ EventSync(who) \in EventSyncs /\ EventSync(who).who = who
         /\ EventSync(who) # None
<1>1. EventSync(who) \in EventSyncs /\ EventSync(who).who = who
  BY DEF EventSync, EventSyncs
<1> QED BY <1>1, NoSyncAssumption

\* How the loop and the event sync are at boot.
LEMMA TurnsAtBoot ==
  ASSUME NEW start \in Starts, NEW stored \in SUBSET Event, tba \in Nat
  PROVE  /\ BootSync(start) \in EventSyncs \cup {None} /\ LoopAtBoot(start, stored) \in Loops
         /\ LoopAtBoot(start, stored).at = "boot"
                <=> BootSync(start) # None /\ BootSync(start).who = "boot"
<1>1. <<>> \in Seq(Jobs)
  BY EmptySeq
<1>2. CASE start = "loop"
  <2>1. LoopAtBoot(start, stored) = Pass(stored) /\ BootSync(start) = None
    BY <1>2 DEF LoopAtBoot, BootSync
  <2> QED BY <2>1, PassIs
<1>3. CASE start = "off"
  <2>1. LoopAtBoot(start, stored) = [at |-> "off", jobs |-> <<>>] /\ BootSync(start) = None
    BY <1>3 DEF LoopAtBoot, BootSync
  <2> QED BY <2>1, <1>1 DEF Loops
<1>4. CASE start = "boot"
  <2>1. LoopAtBoot(start, stored) = [at |-> "boot", jobs |-> <<>>] /\ BootSync(start) = EventSync("boot")
    BY <1>4 DEF LoopAtBoot, BootSync
  <2> QED BY <2>1, <1>1, SyncIs DEF Loops
<1> QED BY <1>2, <1>3, <1>4 DEF Starts

LEMMA UpstreamInitTyped ==
  ASSUME NEW start \in Starts, NEW version \in 0..MaxVersion, NEW stored \in SUBSET Event,
         NEW coming \in SUBSET Bundle, NEW past,
         UpstreamInit(start, version, stored, coming, past)
  PROVE  UpstreamTypeOK
<1>1. EventsTyped
  BY DEF UpstreamInit, EventsTyped, EventsAreListed
<1>2. TablesTyped
  BY DEF UpstreamInit, TablesTyped, TableRows
<1>3. LogTyped
  BY EmptySeq DEF UpstreamInit, LogTyped
<1>4. TurnsTyped
  BY <1>1, TurnsAtBoot DEF UpstreamInit, TurnsTyped, EventsTyped
<1>5. BundlesTyped
  <2>1. <<>> \in Seq(Jobs) /\ 0 \in Seen
    BY <1>1, EmptySeq DEF Seen, EventsTyped
  <2> QED BY <2>1 DEF UpstreamInit, BundlesTyped, Bundles
<1> QED BY <1>1, <1>2, <1>3, <1>4, <1>5, TypesAre

\* TBA publishes: what it answered with before, it did.
LEMMA PublishTyped == ASSUME UpstreamTypeOK, Publish PROVE UpstreamTypeOK'
<1>1. tba \in Nat /\ tba' = tba + 1
  BY DEF UpstreamTypeOK, Publish
<1>2. Seen \subseteq Seen'
  BY <1>1 DEF Seen
<1>3. Seq(Seen) \subseteq Seq(Seen')
  BY <1>2, SeqMonotonic
<1>4. Jobs \subseteq Jobs'
  BY <1>3 DEF Jobs
<1>5. Seq(Jobs) \subseteq Seq(Jobs')
  BY <1>4, SeqMonotonic
<1>6. EventsTyped'
  BY <1>1 DEF Publish, UpstreamTypeOK, EventsTyped, EventsAreListed
<1>7. TablesTyped'
  <2>1. ASSUME NEW f PROVE TableRows(f) \subseteq TableRows(f)'
    BY <1>2 DEF TableRows
  <2> QED BY <2>1 DEF Publish, UpstreamTypeOK, TablesTyped
<1>8. LogTyped'
  <2>1. Seq(Path \X Seen) \subseteq Seq(Path \X Seen')
    BY <1>2, SeqMonotonic
  <2> QED BY <1>2, <2>1 DEF Publish, UpstreamTypeOK, LogTyped
<1>9. TurnsTyped'
  <2>1. Loops \subseteq Loops'
    BY <1>5 DEF Loops
  <2> QED BY <2>1 DEF Publish, UpstreamTypeOK, TurnsTyped
<1>10. BundlesTyped'
  <2>1. Bundles \subseteq Bundles'
    BY <1>2, <1>5 DEF Bundles
  <2> QED BY <2>1 DEF Publish, UpstreamTypeOK, BundlesTyped
<1> QED BY <1>6, <1>7, <1>8, <1>9, <1>10, TypesNext

-----------------------------------------------------------------------------
(* UpstreamSync: the event list keeps its kinds. *)

\* A sync is asked for, or the phone comes up: an event sync, unless one runs.
LEMMA AskedTyped ==
  ASSUME UpstreamTypeOK, tba' = tba, loop' = loop, NEW who \in {"lead", "tether"},
         \/ eventSync = None /\ eventSync' = EventSync(who)
         \/ eventSync' = eventSync
  PROVE  TurnsTyped'
<1>1. TurnsTyped
  BY TypesAre
<1>2. CASE eventSync' = eventSync
  BY <1>1, <1>2, Stays
<1>3. CASE eventSync = None /\ eventSync' = EventSync(who)
  BY <1>1, <1>3, SyncIs, SameKinds DEF TurnsTyped
<1> QED BY <1>2, <1>3

LEMMA SyncNowTyped == ASSUME UpstreamTypeOK, SyncNow PROVE UpstreamTypeOK'
<1>1. /\ UNCHANGED <<tba, events, rosters, tables, newest, cache, journal, loop, bundles>>
      /\ \/ eventSync = None /\ eventSync' = EventSync("lead")
         \/ eventSync' = eventSync
  BY DEF SyncNow
<1>2. TurnsTyped'
  BY <1>1, AskedTyped
<1> QED BY <1>1, <1>2, Stays, TypesAre, TypesNext

LEMMA TetherUpTyped == ASSUME UpstreamTypeOK, TetherUp PROVE UpstreamTypeOK'
<1>1. /\ UNCHANGED <<tba, events, rosters, tables, newest, cache, journal, loop, bundles>>
      /\ \/ eventSync = None /\ eventSync' = EventSync("tether")
         \/ eventSync' = eventSync
  BY DEF TetherUp
<1>2. TurnsTyped'
  BY <1>1, AskedTyped
<1> QED BY <1>1, <1>2, Stays, TypesAre, TypesNext

\* An event is stored, or given up: the sync has one less to store.
LEMMA OneLess ==
  ASSUME TurnsTyped, tba' = tba, loop' = loop, eventSync # None, NEW e, NEW bad \in BOOLEAN,
         eventSync' = [eventSync EXCEPT !.rest = @ \ {e}, !.bad = bad]
  PROVE  TurnsTyped'
<1>1. eventSync \in EventSyncs
  BY DEF TurnsTyped
<1>2. eventSync' = [who |-> eventSync.who, rest |-> eventSync.rest \ {e}, bad |-> bad]
  BY <1>1 DEF EventSyncs
<1>3. eventSync' \in EventSyncs /\ eventSync'.who = eventSync.who
  BY <1>1, <1>2 DEF EventSyncs
<1>4. eventSync' # None
  BY <1>3, NoSyncAssumption
<1> QED BY <1>3, <1>4, SameKinds DEF TurnsTyped

LEMMA StoreEventTyped ==
  ASSUME UpstreamTypeOK, NEW e \in Event, StoreEvent(e) PROVE UpstreamTypeOK'
<1>1. UNCHANGED <<tba, tables, newest, cache, journal, loop, bundles>>
  BY DEF StoreEvent
<1>2. EventsTyped'
  BY TypesAre DEF EventsTyped, EventsAreListed, StoreEvent, WithEvent, WithRoster
<1>3. TurnsTyped'
  <2>1. TurnsTyped /\ eventSync # None
    BY TypesAre DEF StoreEvent
  <2>2. eventSync \in EventSyncs
    BY <2>1 DEF TurnsTyped
  <2>3. eventSync' = [eventSync EXCEPT !.rest = @ \ {e}, !.bad = eventSync.bad]
        /\ eventSync.bad \in BOOLEAN
    BY <2>2 DEF StoreEvent, EventSyncs
  <2> QED BY <1>1, <2>1, <2>3, OneLess
<1> QED BY <1>1, <1>2, <1>3, Stays, TypesAre, TypesNext

LEMMA EventPartlyTyped ==
  ASSUME UpstreamTypeOK, NEW e \in Event, EventPartly(e) PROVE UpstreamTypeOK'
<1>1. UNCHANGED <<tba, tables, newest, cache, journal, loop, bundles>>
  BY DEF EventPartly
<1>2. EventsTyped'
  BY TypesAre DEF EventsTyped, EventsAreListed, EventPartly, WithEvent
<1>3. TurnsTyped'
  BY <1>1, OneLess, TypesAre DEF EventPartly
<1> QED BY <1>1, <1>2, <1>3, Stays, TypesAre, TypesNext

\* The lock is let go.
LEMMA ReleasedTyped ==
  ASSUME UpstreamTypeOK, tba' = tba, eventSync # None, Released PROVE TurnsTyped'
<1>1. TurnsTyped /\ tba \in Nat /\ events \in SUBSET Event
  BY TypesAre DEF EventsTyped, EventsAreListed
<1>2. CASE eventSync.who = "boot"
  BY <1>1, <1>2, PassIs, SameKinds DEF Released, TurnsTyped
<1>3. CASE eventSync.who # "boot"
  BY <1>1, <1>3, SameKinds DEF Released, TurnsTyped
<1> QED BY <1>2, <1>3

LEMMA ListOverTyped == ASSUME UpstreamTypeOK, EventsEnd \/ EventsStop PROVE UpstreamTypeOK'
<1>1. /\ UNCHANGED <<tba, events, rosters, tables, newest, cache, journal, bundles>>
      /\ eventSync # None /\ Released
  BY DEF EventsEnd, EventsStop
<1>2. TurnsTyped'
  BY <1>1, ReleasedTyped
<1> QED BY <1>1, <1>2, Stays, TypesAre, TypesNext

-----------------------------------------------------------------------------
(* UpstreamSync: the loop keeps its kinds. *)

\* The loop goes on with other jobs, or pauses, or begins a pass.
LEMMA LoopTyped ==
  ASSUME TurnsTyped, tba' = tba, eventSync' = eventSync, loop.at # "boot",
         loop' \in Loops, loop'.at # "boot"
  PROVE  TurnsTyped'
BY SameKinds DEF TurnsTyped

LEMMA OtherJobs ==
  ASSUME loop \in Loops, NEW jobs \in Seq(Jobs)
  PROVE  [loop EXCEPT !.jobs = jobs] \in Loops /\ [loop EXCEPT !.jobs = jobs].at = loop.at
BY DEF Loops

LEMMA FetchTyped == ASSUME UpstreamTypeOK, Fetch PROVE UpstreamTypeOK'
<1> DEFINE job == Head(loop.jobs)
           p == NextPath(job)
           jobs == <<[job EXCEPT !.got = Append(@, tba)]>> \o Tail(loop.jobs)
<1>1. UNCHANGED <<tba, events, rosters, tables, newest, eventSync, bundles>>
  BY DEF Fetch
<1>2. tba \in Nat /\ tba \in Seen /\ TurnsTyped /\ LogTyped /\ loop \in Loops /\ loop.jobs \in Seq(Jobs)
  BY TypesAre DEF EventsTyped, TurnsTyped, Loops, Seen
<1>3. loop.at = "pass" /\ loop.jobs # <<>> /\ ~GotAll(job)
  BY DEF Fetch
<1>4. job \in Jobs /\ Tail(loop.jobs) \in Seq(Jobs)
  BY <1>2, <1>3, JobsLeft
<1>5. p \in Path /\ [job EXCEPT !.got = Append(@, tba)] \in Jobs
  BY <1>2, <1>3, <1>4, GotOneMore
<1>6. jobs \in Seq(Jobs)
  BY <1>4, <1>5, JobAgain
<1>7. /\ loop' = [loop EXCEPT !.jobs = jobs] /\ cache' = [cache EXCEPT ![p] = tba]
      /\ journal' = IF cache[p] = tba THEN journal ELSE Append(journal, <<p, tba>>)
  BY DEF Fetch
<1> HIDE DEF jobs, p, job
<1>8. TurnsTyped'
  BY <1>1, <1>2, <1>3, <1>6, <1>7, OtherJobs, LoopTyped
<1>9. LogTyped'
  <2>1. cache' \in [Path -> Seen \cup {None}]
    BY <1>2, <1>7 DEF LogTyped
  <2>2. journal' \in Seq(Path \X Seen)
    BY <1>2, <1>5, <1>7, AppendProperties DEF LogTyped
  <2> QED BY <1>1, <1>2, <2>1, <2>2, SameKinds DEF LogTyped
<1> QED BY <1>1, <1>8, <1>9, Stays, TypesAre, TypesNext

\* A pause is one of the loop's states, between two passes.
LEMMA PauseIs == Pause \in Loops /\ Pause.at = "sleep"
<1>1. <<>> \in Seq(Jobs)
  BY EmptySeq
<1> QED BY <1>1 DEF Pause, Loops

LEMMA LoopOnlyTyped ==
  ASSUME UpstreamTypeOK, loop.at # "boot", loop' \in Loops, loop'.at # "boot",
         UNCHANGED <<tba, events, rosters, tables, newest, cache, journal, eventSync, bundles>>
  PROVE  UpstreamTypeOK'
<1>1. TurnsTyped'
  BY TypesAre, LoopTyped
<1> QED BY <1>1, Stays, TypesAre, TypesNext

LEMMA FetchFailsTyped == ASSUME UpstreamTypeOK, FetchFails PROVE UpstreamTypeOK'
<1>1. loop \in Loops /\ loop.jobs \in Seq(Jobs) /\ loop.jobs # <<>> /\ loop.at = "pass"
  BY TypesAre DEF TurnsTyped, Loops, FetchFails
<1>2. Tail(loop.jobs) \in Seq(Jobs)
  BY <1>1, JobsLeft
<1>3. loop' = [loop EXCEPT !.jobs = Tail(loop.jobs)] \/ loop' = Pause
  BY DEF FetchFails
<1>4. loop' \in Loops /\ loop'.at # "boot"
  BY <1>1, <1>2, <1>3, OtherJobs, PauseIs
<1> QED BY <1>1, <1>4, LoopOnlyTyped DEF FetchFails

LEMMA PassEndsTyped == ASSUME UpstreamTypeOK, PassEnds PROVE UpstreamTypeOK'
BY PauseIs, LoopOnlyTyped DEF PassEnds

LEMMA NextPassTyped == ASSUME UpstreamTypeOK, Wake \/ PauseOver PROVE UpstreamTypeOK'
<1>1. tba \in Nat /\ events \in SUBSET Event
  BY TypesAre DEF EventsTyped, EventsAreListed
<1>2. Pass(events) \in Loops /\ Pass(events).at = "pass"
  BY <1>1, PassIs
<1> QED BY <1>2, LoopOnlyTyped DEF Wake, PauseOver

LEMMA PassStoresTyped == ASSUME UpstreamTypeOK, PassStores PROVE UpstreamTypeOK'
<1>1. UNCHANGED <<tba, events, rosters, newest, cache, journal, eventSync, bundles>>
  BY DEF PassStores
<1>2. /\ TablesTyped /\ TurnsTyped /\ tba \in Nat /\ loop \in Loops
      /\ loop.jobs \in Seq(Jobs) /\ loop.jobs # <<>> /\ loop.at = "pass"
  BY TypesAre DEF EventsTyped, TurnsTyped, Loops, PassStores
<1>3. Head(loop.jobs) \in Jobs /\ Advanced(loop.jobs) \in Seq(Jobs)
  BY <1>2, JobsLeft, AdvancedIs
<1>4. TablesTyped'
  BY <1>1, <1>2, <1>3, StoredRow DEF PassStores
<1>5. loop' = [loop EXCEPT !.jobs = Advanced(loop.jobs)]
  BY DEF PassStores
<1>6. TurnsTyped'
  BY <1>1, <1>2, <1>3, <1>5, OtherJobs, LoopTyped
<1> QED BY <1>1, <1>4, <1>6, Stays, TypesAre, TypesNext

LEMMA JournalAppendTyped == ASSUME UpstreamTypeOK, JournalAppend PROVE UpstreamTypeOK'
<1>1. UNCHANGED <<tba, events, rosters, tables, cache, eventSync, loop, bundles>>
  BY DEF JournalAppend
<1>2. LogTyped
  BY TypesAre
<1>3. Head(journal) \in Path \X Seen /\ Tail(journal) \in Seq(Path \X Seen)
  BY <1>2, HeadTailProperties DEF JournalAppend, LogTyped
<1>4. newest' \in [Path -> Seen \cup {None}]
  BY <1>2, <1>3 DEF JournalAppend, LogTyped
<1>5. LogTyped'
  BY <1>1, <1>2, <1>3, <1>4, SameKinds DEF JournalAppend, LogTyped
<1> QED BY <1>1, <1>5, Stays, TypesAre, TypesNext

-----------------------------------------------------------------------------
(* UpstreamSync: the bundles keep their kinds. *)

LEMMA PathIs == ASSUME NEW p \in Path PROVE p[1] \in Event
BY DEF Path

\* One bundle goes on.
LEMMA OneBundle ==
  ASSUME BundlesTyped, tba' = tba, NEW b \in Bundle, NEW new \in Bundles,
         new.at = "carried" => new.paths # {}, bundles' = [bundles EXCEPT ![b] = new]
  PROVE  BundlesTyped'
<1>1. bundles' \in [Bundle -> Bundles]
  BY DEF BundlesTyped
<1>2. \A c \in Bundle : bundles'[c] = IF c = b THEN new ELSE bundles[c]
  BY DEF BundlesTyped
<1> QED BY <1>1, <1>2, SameKinds DEF BundlesTyped

\* A phone fetches some of an event's paths, as TBA has them.
LEMMA CarryTyped == ASSUME UpstreamTypeOK, NEW b \in Bundle, Carry(b) PROVE UpstreamTypeOK'
<1>1. UNCHANGED <<tba, events, rosters, tables, newest, cache, journal, eventSync, loop>>
  BY DEF Carry
<1>2. BundlesTyped /\ tba \in Seen /\ bundles[b] \in Bundles
  BY TypesAre DEF BundlesTyped, EventsTyped, Seen
<1>3. PICK e \in Event, paths \in Carried :
        bundles' = [bundles EXCEPT ![b].at = "carried", ![b].v = tba,
                                   ![b].paths = {<<e, p>> : p \in paths}]
  BY DEF Carry
<1> DEFINE on  == {<<e, p>> : p \in paths}
           new == [at |-> "carried", paths |-> on, v |-> tba, jobs |-> bundles[b].jobs]
<1>4. paths \in SUBSET {"matches", "oprs", "rankings"} /\ paths # {}
  BY UpstreamSyncAssumption
<1>5. on \in SUBSET Path /\ on # {}
  <2>1. ASSUME NEW p \in paths PROVE <<e, p>> \in Path
    BY <1>4 DEF Path
  <2>2. PICK p \in paths : TRUE
    BY <1>4
  <2>3. <<e, p>> \in on
    OBVIOUS
  <2> QED BY <2>1, <2>3
<1>6. new \in Bundles
  BY <1>2, <1>5 DEF Bundles
<1>7. ASSUME NEW n, n = [bundles[b] EXCEPT !.at = "carried", !.v = tba, !.paths = on]
      PROVE  n = new
  <2> HIDE DEF on
  <2> QED BY <1>2, <1>7 DEF Bundles
<1>8. bundles' = [bundles EXCEPT ![b] = [bundles[b] EXCEPT !.at = "carried", !.v = tba, !.paths = on]]
  BY <1>3
<1>9. bundles' = [bundles EXCEPT ![b] = new]
  BY <1>7, <1>8
<1>10. new.paths # {}
  BY <1>5
<1> HIDE DEF new, on
<1>11. BundlesTyped'
  BY <1>1, <1>2, <1>6, <1>9, <1>10, OneBundle
<1> QED BY <1>1, <1>11, Stays, TypesAre, TypesNext

\* A bundle goes on with other jobs, while it is applied or when it is done.
LEMMA OtherWork ==
  ASSUME BundlesTyped, tba' = tba, NEW b \in Bundle, NEW at \in {"import", "done"},
         NEW jobs \in Seq(Jobs),
         bundles' = [bundles EXCEPT ![b].at = at, ![b].jobs = jobs]
  PROVE  BundlesTyped'
<1> DEFINE new == [at |-> at, paths |-> bundles[b].paths, v |-> bundles[b].v, jobs |-> jobs]
<1>1. bundles[b] \in Bundles
  BY DEF BundlesTyped
<1>2. new \in Bundles /\ new.at # "carried"
  BY <1>1 DEF Bundles
<1>3. ASSUME NEW n, n = [bundles[b] EXCEPT !.at = at, !.jobs = jobs]
      PROVE  n = new
  BY <1>1, <1>3 DEF Bundles
<1>4. bundles' = [bundles EXCEPT ![b] = [bundles[b] EXCEPT !.at = at, !.jobs = jobs]]
  OBVIOUS
<1>5. bundles' = [bundles EXCEPT ![b] = new]
  BY <1>3, <1>4
<1> HIDE DEF new
<1> QED BY <1>2, <1>5, OneBundle

\* The feeds of which a bundle brought something, in their order.
LEMMA FeedsInOrder ==
  ASSUME NEW W
  PROVE  \E fs \in {<<>>, <<"matches">>, <<"stats">>, Feeds} :
            \A f \in DOMAIN PathsOf : f \in Range(fs) <=> f \in W
<1>1. /\ Range(<<>>) = {} /\ Range(<<"matches">>) = {"matches"}
      /\ Range(<<"stats">>) = {"stats"} /\ Range(Feeds) = {"matches", "stats"}
  BY DEF Range, Feeds
<1>2. DOMAIN PathsOf = {"matches", "stats"}
  BY TheFeeds
<1>3. CASE "matches" \in W /\ "stats" \in W
  BY <1>1, <1>2, <1>3
<1>4. CASE "matches" \in W /\ "stats" \notin W
  BY <1>1, <1>2, <1>4
<1>5. CASE "matches" \notin W /\ "stats" \in W
  BY <1>1, <1>2, <1>5
<1>6. CASE "matches" \notin W /\ "stats" \notin W
  BY <1>1, <1>2, <1>6
<1> QED BY <1>3, <1>4, <1>5, <1>6

\* A bundle is imported: what it appended is the newest, and the feeds it is of
\* are to be projected if there is such an event.
LEMMA ImportTyped == ASSUME UpstreamTypeOK, NEW b \in Bundle, Import(b) PROVE UpstreamTypeOK'
<1> DEFINE v        == bundles[b].v
           appended == {p \in bundles[b].paths : newest[p] = None \/ newest[p] < v}
           Brought(f) == \E p \in appended : p[2] \in Range(PathsOf[f])
           fed == CHOOSE fs \in {<<>>, <<"matches">>, <<"stats">>, Feeds} :
                    \A f \in DOMAIN PathsOf : f \in Range(fs) <=> Brought(f)
           e    == (CHOOSE p \in bundles[b].paths : TRUE)[1]
           jobs == IF e \in events THEN [i \in DOMAIN fed |-> Job(e, fed[i])] ELSE <<>>
<1>1. UNCHANGED <<tba, events, rosters, tables, cache, journal, eventSync, loop>>
  BY DEF Import
<1>2. BundlesTyped /\ LogTyped /\ tba \in Nat /\ bundles[b] \in Bundles /\ bundles[b].at = "carried"
  BY TypesAre DEF BundlesTyped, EventsTyped, Import
<1>3. v \in Seen /\ bundles[b].paths \subseteq Path /\ bundles[b].paths # {}
  BY <1>2 DEF Bundles, BundlesTyped
<1>4. /\ newest' = [p \in Path |-> IF p \in appended THEN v ELSE newest[p]]
      /\ bundles' = [bundles EXCEPT ![b].at = "import", ![b].jobs = jobs]
  BY DEF Import
<1>5. newest' \in [Path -> Seen \cup {None}]
  BY <1>2, <1>3, <1>4 DEF LogTyped
<1>6. LogTyped'
  BY <1>1, <1>2, <1>5, SameKinds DEF LogTyped
<1>7. fed \in {<<>>, <<"matches">>, <<"stats">>, Feeds}
  <2> HIDE DEF Brought, appended
  <2>1. \E fs \in {<<>>, <<"matches">>, <<"stats">>, Feeds} :
            \A f \in DOMAIN PathsOf : f \in Range(fs) <=> Brought(f)
    <3> DEFINE W == {f \in DOMAIN PathsOf : Brought(f)}
    <3>1. \A f \in DOMAIN PathsOf : f \in W <=> Brought(f)
      OBVIOUS
    <3> HIDE DEF W
    <3> QED BY <3>1, FeedsInOrder
  <2> QED BY <2>1, Zenon
<1>8. fed \in Seq(DOMAIN PathsOf)
  <2>1. /\ <<>> \in Seq(DOMAIN PathsOf) /\ <<"matches">> \in Seq(DOMAIN PathsOf)
        /\ <<"stats">> \in Seq(DOMAIN PathsOf) /\ Feeds \in Seq(DOMAIN PathsOf)
    BY TheFeeds
  <2> HIDE DEF fed
  <2> QED BY <1>7, <2>1
<1>9. e \in Event
  <2>1. (CHOOSE p \in bundles[b].paths : TRUE) \in Path
    BY <1>3
  <2> QED BY <2>1, PathIs
<1>10. jobs \in Seq(Jobs)
  <2> HIDE DEF fed, e
  <2>1. DOMAIN fed = 1..Len(fed) /\ Len(fed) \in Nat /\ \A i \in DOMAIN fed : fed[i] \in DOMAIN PathsOf
    BY <1>8, LenProperties, ElementOfSeq
  <2>2. \A i \in 1..Len(fed) : Job(e, fed[i]) \in Jobs
    BY <1>2, <1>9, <2>1, NewJob
  <2>3. [i \in 1..Len(fed) |-> Job(e, fed[i])] \in Seq(Jobs)
    BY <2>1, <2>2
  <2>4. <<>> \in Seq(Jobs)
    BY EmptySeq
  <2> QED BY <2>1, <2>3, <2>4
<1> HIDE DEF jobs
<1>11. BundlesTyped'
  BY <1>1, <1>2, <1>4, <1>10, OtherWork
<1> QED BY <1>1, <1>6, <1>11, Stays, TypesAre, TypesNext

LEMMA SameWork ==
  ASSUME BundlesTyped, tba' = tba, NEW b \in Bundle, NEW jobs \in Seq(Jobs),
         bundles' = [bundles EXCEPT ![b].jobs = jobs]
  PROVE  BundlesTyped'
<1> DEFINE old == bundles[b]
           new == [at |-> old.at, paths |-> old.paths, v |-> old.v, jobs |-> jobs]
<1>1. old \in Bundles /\ (old.at = "carried" => old.paths # {})
  BY DEF BundlesTyped
<1>2. new \in Bundles /\ (new.at = "carried" => new.paths # {})
  BY <1>1 DEF Bundles
<1>3. [old EXCEPT !.jobs = jobs] = new
  BY <1>1 DEF Bundles
<1>4. bundles' = [bundles EXCEPT ![b] = [old EXCEPT !.jobs = jobs]]
  OBVIOUS
<1>5. bundles' = [bundles EXCEPT ![b] = new]
  BY <1>3, <1>4
<1> HIDE DEF new, old
<1> QED BY <1>2, <1>5, OneBundle

LEMMA ReadLogTyped == ASSUME UpstreamTypeOK, NEW b \in Bundle, ReadLog(b) PROVE UpstreamTypeOK'
<1> DEFINE work == bundles[b].jobs
           job  == Head(work)
           v    == Latest(NextPath(job))
           jobs == IF v = None THEN Tail(work)
                   ELSE <<[job EXCEPT !.got = Append(@, v)]>> \o Tail(work)
<1>1. UNCHANGED <<tba, events, rosters, tables, newest, cache, journal, eventSync, loop>>
  BY DEF ReadLog
<1>2. BundlesTyped /\ LogTyped /\ tba \in Nat /\ work \in Seq(Jobs)
  BY TypesAre DEF BundlesTyped, Bundles, EventsTyped
<1>3. work # <<>> /\ ~GotAll(job)
  BY DEF ReadLog
<1>4. bundles' = [bundles EXCEPT ![b].jobs = jobs]
  BY DEF ReadLog
<1>5. jobs \in Seq(Jobs)
  <2> HIDE DEF work
  <2>1. job \in Jobs /\ Tail(work) \in Seq(Jobs)
    BY <1>2, <1>3, JobsLeft
  <2> HIDE DEF job
  <2>2. CASE v = None
    BY <2>1, <2>2
  <2>3. CASE v # None
    <3>1. tba \in Seen
      BY <1>2 DEF Seen
    <3>2. NextPath(job) \in Path
      BY <1>2, <1>3, <2>1, <3>1, GotOneMore
    <3>3. v \in Seen
      BY <1>2, <2>3, <3>2 DEF Latest, LogTyped
    <3> HIDE DEF v
    <3>4. [job EXCEPT !.got = Append(@, v)] \in Jobs
      BY <1>2, <1>3, <2>1, <3>3, GotOneMore
    <3>5. <<[job EXCEPT !.got = Append(@, v)]>> \o Tail(work) \in Seq(Jobs)
      BY <2>1, <3>4, JobAgain
    <3> QED BY <2>3, <3>5
  <2> QED BY <2>2, <2>3
<1> HIDE DEF jobs
<1>6. BundlesTyped'
  BY <1>1, <1>2, <1>4, <1>5, SameWork
<1> QED BY <1>1, <1>6, Stays, TypesAre, TypesNext

LEMMA ProjectTyped == ASSUME UpstreamTypeOK, NEW b \in Bundle, Project(b) PROVE UpstreamTypeOK'
<1> DEFINE work == bundles[b].jobs
<1>1. UNCHANGED <<tba, events, rosters, newest, cache, journal, eventSync, loop>>
  BY DEF Project
<1>2. BundlesTyped /\ TablesTyped /\ tba \in Nat /\ work \in Seq(Jobs)
  BY TypesAre DEF BundlesTyped, Bundles, EventsTyped
<1>3. work # <<>> /\ GotAll(Head(work)) /\ StoreRow(Head(work))
      /\ bundles' = [bundles EXCEPT ![b].jobs = Advanced(work)]
  BY DEF Project
<1> HIDE DEF work
<1>4. Head(work) \in Jobs /\ Advanced(work) \in Seq(Jobs)
  BY <1>2, <1>3, JobsLeft, AdvancedIs
<1>5. TablesTyped'
  BY <1>1, <1>2, <1>3, <1>4, StoredRow
<1>6. BundlesTyped'
  BY <1>1, <1>2, <1>3, <1>4, SameWork
<1> QED BY <1>1, <1>5, <1>6, Stays, TypesAre, TypesNext

LEMMA ProjectedTyped == ASSUME UpstreamTypeOK, NEW b \in Bundle, Projected(b) PROVE UpstreamTypeOK'
<1> DEFINE old == bundles[b]
           new == [at |-> "done", paths |-> old.paths, v |-> old.v, jobs |-> old.jobs]
<1>1. UNCHANGED <<tba, events, rosters, tables, newest, cache, journal, eventSync, loop>>
  BY DEF Projected
<1>2. BundlesTyped /\ old \in Bundles
  BY TypesAre DEF BundlesTyped
<1>3. new \in Bundles /\ new.at # "carried" /\ [old EXCEPT !.at = "done"] = new
  BY <1>2 DEF Bundles
<1>4. bundles' = [bundles EXCEPT ![b] = [old EXCEPT !.at = "done"]]
  BY DEF Projected
<1>5. bundles' = [bundles EXCEPT ![b] = new]
  BY <1>3, <1>4
<1> HIDE DEF new, old
<1>6. BundlesTyped'
  BY <1>1, <1>2, <1>3, <1>5, OneBundle
<1> QED BY <1>1, <1>6, Stays, TypesAre, TypesNext

-----------------------------------------------------------------------------
(* UpstreamSync: the service restarts; the theorem. *)

LEMMA PiRestartTyped == ASSUME UpstreamTypeOK, PiRestart PROVE UpstreamTypeOK'
<1>1. UNCHANGED <<tba, events, rosters, tables, newest>>
  BY DEF PiRestart
<1>2. LogTyped /\ BundlesTyped /\ tba \in Nat /\ events \in SUBSET Event
  BY TypesAre DEF EventsTyped, EventsAreListed
<1>3. LogTyped'
  <2>1. <<>> \in Seq(Path \X Seen)
    BY EmptySeq
  <2> QED BY <1>1, <1>2, <2>1, SameKinds DEF PiRestart, LogTyped
<1>4. TurnsTyped'
  <2>1. PICK start \in Starts : eventSync' = BootSync(start) /\ loop' = LoopAtBoot(start, events)
    BY DEF PiRestart
  <2> QED BY <1>1, <1>2, <2>1, TurnsAtBoot, SameKinds DEF TurnsTyped
<1>5. BundlesTyped'
  <2>1. <<>> \in Seq(Jobs)
    BY EmptySeq
  <2>2. ASSUME NEW b \in Bundle
        PROVE  bundles'[b] \in Bundles /\ (bundles'[b].at = "carried" => bundles'[b].paths # {})
    <3>1. bundles[b] \in Bundles /\ (bundles[b].at = "carried" => bundles[b].paths # {})
      BY <1>2 DEF BundlesTyped
    <3>2. CASE bundles[b].at = "import"
      <4>1. bundles'[b] = [bundles[b] EXCEPT !.at = "done", !.jobs = <<>>]
        BY <3>2 DEF PiRestart
      <4>2. bundles'[b] = [at |-> "done", paths |-> bundles[b].paths, v |-> bundles[b].v, jobs |-> <<>>]
        BY <3>1, <4>1 DEF Bundles
      <4> QED BY <2>1, <3>1, <4>2 DEF Bundles
    <3>3. CASE bundles[b].at # "import"
      <4>1. bundles'[b] = bundles[b]
        BY <3>3 DEF PiRestart
      <4> QED BY <3>1, <4>1
    <3> QED BY <3>2, <3>3
  <2>3. bundles' \in [Bundle -> Bundles]
    <3>1. \E g : bundles' = [b \in Bundle |-> g[b]]
      <4>1. bundles' = [b \in Bundle |-> bundles'[b]]
        BY DEF PiRestart
      <4> QED BY <4>1
    <3> QED BY <2>2, <3>1
  <2> QED BY <1>1, <2>2, <2>3, SameKinds DEF BundlesTyped
<1> QED BY <1>1, <1>3, <1>4, <1>5, Stays, TypesAre, TypesNext

LEMMA UpstreamStepTyped == UpstreamTypeOK /\ [UpstreamNext]_upstreamVars => UpstreamTypeOK'
<1> SUFFICES ASSUME UpstreamTypeOK, [UpstreamNext]_upstreamVars PROVE UpstreamTypeOK'
  OBVIOUS
<1>1. CASE UNCHANGED upstreamVars
  BY <1>1, Stays, TypesAre, TypesNext DEF upstreamVars
<1>2. CASE Publish
  BY <1>2, PublishTyped
<1>3. CASE SyncNow \/ TetherUp
  BY <1>3, SyncNowTyped, TetherUpTyped
<1>4. CASE EventsEnd \/ EventsStop
  BY <1>4, ListOverTyped
<1>5. CASE \E e \in Event : StoreEvent(e) \/ EventPartly(e)
  BY <1>5, StoreEventTyped, EventPartlyTyped
<1>6. CASE LoopStep \/ FetchFails \/ PauseOver \/ JournalAppend
  BY <1>6, FetchTyped, PassStoresTyped, PassEndsTyped, NextPassTyped, FetchFailsTyped,
     JournalAppendTyped DEF LoopStep
<1>7. CASE \E b \in Bundle : Carry(b) \/ Import(b) \/ ReadLog(b) \/ Project(b) \/ Projected(b)
  BY <1>7, CarryTyped, ImportTyped, ReadLogTyped, ProjectTyped, ProjectedTyped
<1>8. CASE PiRestart
  BY <1>8, PiRestartTyped
<1> QED BY <1>1, <1>2, <1>3, <1>4, <1>5, <1>6, <1>7, <1>8 DEF UpstreamNext

\* Each variable has the values it may have.  No row stored is partly made or of
\* what TBA has not answered yet, whatever of a pass and of bundles overlapped,
\* failed or was cut off; a loop that is to wait for the boot's sync has one.
THEOREM UpstreamTypes == UpstreamSpec => []UpstreamTypeOK
<1>1. ASSUME UpstreamSpec PROVE UpstreamTypeOK
  BY <1>1, UpstreamInitTyped DEF UpstreamSpec
<1> QED BY <1>1, UpstreamStepTyped, PTL DEF UpstreamSpec

-----------------------------------------------------------------------------
(* Backups: the inductive invariant. *)

Names(f) == {s \in Stamp : f[s] # None}
AtLeast(m) == IF m < KeepAtLeast THEN m ELSE KeepAtLeast

\* LastCopiesStay, of any folder.
Kept(f, l, m) ==
    /\ l # 0 => \E s \in Names(f) : f[s] >= l
    /\ Cardinality(Names(f)) >= AtLeast(m)

\* The folder a power cut may leave behind.
Undone == [folder EXCEPT ![loose.name] = loose.had]

\* A snapshot that has its name, and then is done, is under it.
NamedIsThere ==
    /\ turn.step # "wait" => taken # 0
    /\ turn.step = "renamed" => folder[turn.at] = taken
    /\ turn.step = "prune" => last # 0 /\ folder[turn.at] = last

\* What a turn has yet to remove has enough later ones, and is not its own.
OldHaveLater ==
    turn.step = "prune" =>
        /\ turn.at \notin turn.old
        /\ \A s \in turn.old : Cardinality({o \in InOrder : o > s}) >= KeepAtLeast

BInv ==
    /\ BackupTypeOK
    /\ Kept(folder, last, most)
    /\ loose # None => Kept(Undone, last, most)
    /\ NamedIsThere /\ OldHaveLater

-----------------------------------------------------------------------------
(* Backups: lemmas. *)

\* A set of stamps has an oldest one.
LEMMA Oldest == ASSUME NEW T \in SUBSET Nat, T # {} PROVE Min(T) \in T /\ \A y \in T : Min(T) <= y
<1> DEFINE R == OpToRel(<, Nat)
<1>1. IsWellFoundedOn(R, Nat)
  BY NatLessThanWellFounded
<1>2. \A x, y \in Nat : y < x => <<y, x>> \in R
  BY DEF OpToRel
<1> HIDE DEF R
<1>3. PICK x \in T : \A y \in T : ~ (<<y, x>> \in R)
  BY <1>1, WFMin
<1>4. \A y \in T : ~ (y < x)
  BY <1>2, <1>3
<1>5. \A y \in T : x <= y
  BY <1>4
<1> QED BY <1>5 DEF Min

\* Any set of stamps is finite, and of a bounded size.
LEMMA StampsAreFinite ==
  ASSUME NEW S \in SUBSET Stamp
  PROVE  IsFiniteSet(S) /\ Cardinality(S) \in 0..(MaxStamp + 1)
<1>1. IsFiniteSet(Stamp) /\ Cardinality(Stamp) = MaxStamp + 1
  BY BackupsAssumption, FS_Interval DEF Stamp
<1>2. IsFiniteSet(S) /\ Cardinality(S) <= Cardinality(Stamp)
  BY <1>1, FS_Subset
<1>3. Cardinality(S) \in Nat
  BY <1>2, FS_CardinalityType
<1> QED BY <1>1, <1>2, <1>3, BackupsAssumption

\* More names are more snapshots.
LEMMA MoreNames ==
  ASSUME NEW S \in SUBSET Stamp, NEW T \in SUBSET S PROVE Cardinality(T) <= Cardinality(S)
BY StampsAreFinite, FS_Subset

-----------------------------------------------------------------------------
(* Backups: the steps. *)

LEMMA BackupInitHolds == BackupInit => BInv
<1> SUFFICES ASSUME BackupInit PROVE BInv
  OBVIOUS
<1>1. Names(folder) = {} /\ InOrder = {}
  BY DEF BackupInit, Names, InOrder
<1>2. Cardinality({}) = 0
  BY FS_EmptySet
<1>3. Kept(folder, last, most)
  BY <1>1, <1>2, BackupsAssumption DEF BackupInit, Kept, AtLeast
<1>4. 0 \in Stamp /\ 0 \in 0..MaxTaken /\ 0 \in 0..MaxBoots /\ 0 \in 0..(MaxStamp + 1)
  BY BackupsAssumption DEF Stamp
<1>5. BackupTypeOK
  BY <1>4 DEF BackupInit, BackupTypeOK, NoTurn, Turn
<1> QED BY <1>3, <1>5 DEF BackupInit, BInv, NamedIsThere, OldHaveLater, NoTurn, Turn

LEMMA BeginHolds == ASSUME BInv, Begin PROVE BInv'
<1> USE DEF BInv
<1>1. taken' \in 0..MaxTaken /\ taken' = taken + 1 /\ taken \in Nat /\ last \in 0..taken'
  BY BackupsAssumption DEF Begin, BackupTypeOK
<1>2. loose = None
  BY DEF Begin, BackupTypeOK
<1>3. 1..taken \subseteq 1..taken'
  BY <1>1
<1>4. BackupTypeOK'
  BY <1>1, <1>2, <1>3 DEF Begin, BackupTypeOK, Turn
<1> QED BY <1>1, <1>2, <1>4 DEF Begin, NamedIsThere, OldHaveLater, Turn, Kept, Names

LEMMA FailHolds == ASSUME BInv, Fail PROVE BInv'
<1> USE DEF BInv
<1>1. BackupTypeOK'
  BY BackupsAssumption DEF Fail, BackupTypeOK, NoTurn, Turn, Stamp
<1>2. loose = None
  BY DEF Fail, BackupTypeOK
<1> QED BY <1>1, <1>2 DEF Fail, NamedIsThere, OldHaveLater, NoTurn, Turn, Kept, Names

LEMMA RestHolds == ASSUME BInv, Rest PROVE BInv'
<1> USE DEF BInv
<1>1. BackupTypeOK'
  BY BackupsAssumption DEF Rest, BackupTypeOK, NoTurn, Turn, Stamp
<1>2. loose = None
  BY DEF Rest, BackupTypeOK
<1> QED BY <1>1, <1>2 DEF Rest, NamedIsThere, OldHaveLater, NoTurn, Turn, Kept, Names

LEMMA TenMinutesHold == ASSUME BInv, TenMinutesPass PROVE BInv'
<1> USE DEF BInv
<1>1. clock' \in Stamp
  BY BackupsAssumption DEF TenMinutesPass, BackupTypeOK, Stamp
<1>2. BackupTypeOK'
  BY <1>1 DEF TenMinutesPass, BackupTypeOK
<1> QED BY <1>2 DEF TenMinutesPass, NamedIsThere, OldHaveLater, Kept, Names, Undone, InOrder

\* A name more, or another snapshot under a name: what was there before is what
\* a power cut brings back.
LEMMA RenameHolds == ASSUME BInv, Rename PROVE BInv'
<1> USE DEF BInv
<1>1. /\ turn.at \in Stamp /\ taken \in 1..taken /\ taken \in Nat /\ taken # None
      /\ last <= taken /\ last \in Nat
  BY BackupsAssumption DEF Rename, BackupTypeOK, NamedIsThere
<1>2. folder' = [folder EXCEPT ![turn.at] = taken] /\ folder'[turn.at] = taken
  BY <1>1 DEF Rename, BackupTypeOK
<1>3. BackupTypeOK'
  BY <1>1, <1>2 DEF Rename, BackupTypeOK, Turn
<1>4. loose'.name = turn.at /\ loose'.had = folder[turn.at] /\ UNCHANGED <<last, most, taken>>
  BY DEF Rename
<1>5. Kept(folder', last, most)
  <2>1. Names(folder) \subseteq Names(folder') /\ Names(folder') \subseteq Stamp
    BY <1>1, <1>2 DEF Names, BackupTypeOK
  <2>2. Cardinality(Names(folder)) <= Cardinality(Names(folder'))
    BY <2>1, MoreNames
  <2>3. /\ Cardinality(Names(folder)) \in Nat /\ Cardinality(Names(folder')) \in Nat
        /\ AtLeast(most) \in Nat
    BY <2>1, StampsAreFinite, BackupsAssumption DEF AtLeast, BackupTypeOK
  <2>4. turn.at \in Names(folder') /\ folder'[turn.at] >= last
    BY <1>1, <1>2 DEF Names
  <2> QED BY <2>2, <2>3, <2>4 DEF Kept
<1>6. Undone' = folder
  BY <1>1, <1>2, <1>4 DEF Undone, BackupTypeOK
<1>7. NamedIsThere' /\ OldHaveLater'
  BY <1>1, <1>2 DEF Rename, NamedIsThere, OldHaveLater, Turn
<1>8. Kept(folder, last, most)'
  BY <1>4, <1>5 DEF Kept, Names
<1>9. Kept(Undone, last, most)'
  <2> HIDE DEF BInv
  <2>1. Kept(folder, last, most)
    BY DEF BInv
  <2> QED BY <1>4, <1>6, <2>1 DEF Kept, Names
<1> QED BY <1>3, <1>7, <1>8, <1>9

LEMMA DoneHolds == ASSUME BInv, Done PROVE BInv'
<1> USE DEF BInv
<1>1. /\ turn.at \in Stamp /\ taken \in 1..taken /\ taken \in Nat /\ taken # 0 /\ last' = taken
      /\ folder[turn.at] = taken /\ UNCHANGED <<folder, taken>> /\ taken # None
  BY BackupsAssumption DEF Done, BackupTypeOK, NamedIsThere
<1>2. InOrder \subseteq Stamp /\ InOrder = Names(folder) /\ Cardinality(InOrder) \in 0..(MaxStamp + 1)
  BY StampsAreFinite DEF InOrder, Names
<1>3. turn' = [step |-> "prune", at |-> turn.at, old |-> ToPrune(InOrder, turn.at)]
  BY DEF Done, Turn
<1>4. turn.at \notin ToPrune(InOrder, turn.at) /\ ToPrune(InOrder, turn.at) \subseteq InOrder
  BY <1>1, BackupsAssumption DEF ToPrune, Stamp
<1>5. BackupTypeOK'
  BY <1>1, <1>2, <1>3, <1>4 DEF Done, BackupTypeOK
<1>6. Kept(folder, last, most)'
  <2>1. turn.at \in Names(folder) /\ folder[turn.at] >= taken
    BY <1>1 DEF Names
  <2>2. Cardinality(InOrder) >= AtLeast(most) /\ most \in Nat
    BY <1>2, BackupsAssumption DEF Kept, BackupTypeOK
  <2>3. Cardinality(InOrder) >= AtLeast(most')
    BY <1>2, <2>2, BackupsAssumption DEF Done, AtLeast
  <2>4. AtLeast(most)' = AtLeast(most') /\ Names(folder)' = Names(folder)
    BY <1>1 DEF AtLeast, Names
  <2> QED BY <1>1, <1>2, <2>1, <2>3, <2>4 DEF Kept
<1>7. loose' = None
  BY DEF Done
<1>8. NamedIsThere' /\ OldHaveLater'
  BY <1>1, <1>3, <1>4 DEF NamedIsThere, OldHaveLater, ToPrune, InOrder
<1> QED BY <1>5, <1>6, <1>7, <1>8

\* The oldest of those to go takes nothing from those later than the others.
LEMMA RemoveOldHolds == ASSUME BInv, RemoveOld PROVE BInv'
<1> USE DEF BInv
<1> DEFINE m == Min(turn.old)
           later(s) == {o \in InOrder : o > s}
<1>1. m \in turn.old /\ \A s \in turn.old : m <= s
  <2>1. turn.old \in SUBSET Nat
    BY BackupsAssumption DEF BackupTypeOK, Stamp
  <2> QED BY <2>1, Oldest DEF RemoveOld
<1>2. /\ m \in Stamp /\ turn.at \in Stamp /\ m # turn.at /\ turn.step = "prune" /\ loose = None
      /\ folder' = [folder EXCEPT ![m] = None] /\ UNCHANGED <<clock, loose, taken, boots, last, most>>
      /\ turn' = [step |-> "prune", at |-> turn.at, old |-> turn.old \ {m}]
  BY <1>1 DEF RemoveOld, BackupTypeOK, OldHaveLater, Turn
<1> HIDE DEF m
<1>3. BackupTypeOK'
  BY <1>2 DEF BackupTypeOK
<1>4. folder'[turn.at] = last /\ last # 0 /\ last \in Nat /\ last # None
  BY <1>2, BackupsAssumption DEF NamedIsThere, BackupTypeOK
<1>5. /\ \A s \in turn.old : later(s) \subseteq Names(folder') /\ later(s) = (later(s))'
      /\ InOrder \subseteq Stamp /\ Names(folder') \subseteq Stamp
  <2>1. \A s \in Stamp : s # m => folder'[s] = folder[s]
    BY <1>2 DEF BackupTypeOK
  <2>2. \A s \in turn.old, o \in Stamp : o > s => o # m
    BY <1>1, BackupsAssumption DEF BackupTypeOK, Stamp
  <2>3. \A s \in turn.old : later(s) \subseteq Names(folder')
    BY <2>1, <2>2 DEF InOrder, Names
  <2>4. \A s \in turn.old : later(s) = (later(s))'
    BY <2>1, <2>2 DEF InOrder
  <2> QED BY <2>3, <2>4 DEF InOrder, Names
<1>6. Cardinality(Names(folder')) >= KeepAtLeast /\ Cardinality(Names(folder')) \in Nat
  <2>1. Cardinality(later(m)) >= KeepAtLeast
    BY <1>1, <1>2 DEF OldHaveLater
  <2>2. later(m) \subseteq Names(folder') /\ later(m) \subseteq Stamp
    BY <1>1, <1>5
  <2> HIDE DEF later
  <2>3. Cardinality(later(m)) <= Cardinality(Names(folder'))
    BY <1>5, <2>2, MoreNames
  <2> QED BY <1>5, <2>1, <2>2, <2>3, StampsAreFinite, BackupsAssumption
<1>7. Kept(folder, last, most)'
  <2>1. turn.at \in Names(folder') /\ folder'[turn.at] >= last
    BY <1>2, <1>4 DEF Names
  <2>2. Cardinality(Names(folder')) >= AtLeast(most)
    BY <1>6, BackupsAssumption DEF AtLeast, BackupTypeOK
  <2>3. Names(folder)' = Names(folder') /\ AtLeast(most)' = AtLeast(most)
    BY <1>2 DEF Names, AtLeast
  <2> QED BY <1>2, <2>1, <2>2, <2>3 DEF Kept
<1>8. NamedIsThere'
  BY <1>2, <1>4 DEF NamedIsThere
<1>9. OldHaveLater'
  BY <1>2, <1>5 DEF OldHaveLater
<1> QED BY <1>2, <1>3, <1>7, <1>8, <1>9

LEMMA RebootHolds == ASSUME BInv, Reboot PROVE BInv'
<1> USE DEF BInv
<1>1. /\ UNCHANGED <<taken, last, most>> /\ clock' \in Stamp /\ boots' \in 0..MaxBoots
      /\ loose' = None /\ turn' = [step |-> "wait", at |-> 0, old |-> {}] /\ 0 \in Stamp
  BY BackupsAssumption DEF Reboot, BackupTypeOK, NoTurn, Turn, Stamp
<1>2. \/ folder' = folder
      \/ loose # None /\ folder' = Undone
  BY DEF Reboot, Undone
<1>3. folder' \in [Stamp -> 1..taken \cup {None}]
  BY <1>2 DEF BackupTypeOK, Undone
<1>4. BackupTypeOK'
  BY <1>1, <1>3 DEF BackupTypeOK
<1>5. Kept(folder, last, most)'
  <2>1. Kept(folder', last, most)
    BY <1>2
  <2> QED BY <1>1, <2>1 DEF Kept, Names, AtLeast
<1> QED BY <1>1, <1>4, <1>5 DEF NamedIsThere, OldHaveLater

-----------------------------------------------------------------------------
(* Backups: the theorems. *)

LEMMA BackupStepHolds == BInv /\ [BackupNext]_backupVars => BInv'
<1> SUFFICES ASSUME BInv, [BackupNext]_backupVars PROVE BInv'
  OBVIOUS
<1>1. CASE UNCHANGED backupVars
  BY <1>1 DEF BInv, backupVars, BackupTypeOK, NamedIsThere, OldHaveLater, Kept, Names, AtLeast,
     Undone, InOrder
<1>2. CASE BackupNext
  BY <1>2, BeginHolds, FailHolds, RenameHolds, DoneHolds, RemoveOldHolds, RestHolds, RebootHolds,
     TenMinutesHold DEF BackupNext
<1> QED BY <1>1, <1>2

\* What the next theorem rests on holds of every behaviour: also the folder a
\* power cut may leave behind has the copies that must stay, and what a turn
\* means to remove has enough later ones.
THEOREM BackupsInvariant == BackupSpec => []BInv
BY BackupInitHolds, BackupStepHolds, PTL DEF BackupSpec

\* The folder has snapshots that were taken, and a name not yet safe on disk is
\* there only between its rename and its sync.
THEOREM BackupTypes == BackupSpec => []BackupTypeOK
<1>1. BInv => BackupTypeOK
  BY DEF BInv
<1> QED BY BackupsInvariant, <1>1, PTL

\* The last snapshot that was done, or a later one, is in the folder, and never
\* fewer than a few once there have been: for every retention, every clock set
\* at any boot, and a power cut at every step of taking, naming and removing.
THEOREM LastCopiesAreKept == BackupSpec => []LastCopiesStay
<1>1. BInv => LastCopiesStay
  BY DEF BInv, LastCopiesStay, Kept, AtLeast, Names, InOrder
<1> QED BY BackupsInvariant, <1>1, PTL

-----------------------------------------------------------------------------
(* Tokens: the inductive invariant. *)

Vouchers == [user : User, device : Device, expires : Int, key : Seed]
Rows     == [id : Int, user : User, expires : Int]
Cookies  == [id : Int, until : Int]
Promises == [user : User, until : Int]

Types ==
    /\ now \in Int /\ signIns \in Int
    /\ sessions \subseteq Rows
    /\ seed \in Seed \cup {None} /\ keys \in {seed, None}
    /\ cookie \in [Device -> Cookies \cup {None}]
    /\ kept \in [Device -> Vouchers \cup {None}]
    /\ answer \in [Device -> Vouchers \cup {None}]
    /\ page \in [Device -> User \cup {None}]
    /\ promised \in [Device -> Promises \cup {None}]

\* A session's id is its own, and no cookie has one not given yet.
IdsAreNew ==
    /\ \A s \in sessions : s.id <= signIns
    /\ \A s, r \in sessions : s.id = r.id => s.user = r.user
    /\ \A d \in Device : cookie[d] # None => cookie[d].id <= signIns

\* The sessions a device's cookie may open are u's.
Opens(d, u) == \A s \in sessions : cookie[d] # None /\ s.id = cookie[d].id => s.user = u

\* All that a device with a page holds is the page's scout's.
PageHolds(d) ==
    /\ (d \in asking \/ answer[d] # None) => page[d] # None
    /\ page[d] # None =>
        /\ Opens(d, page[d])
        /\ kept[d] # None => kept[d].user = page[d]
        /\ answer[d] # None => answer[d].user = page[d]
PagesHold == \A d \in Device : PageHolds(d)

\* Tokens are their device's, signed with the key that is stored.
Signed(t, d) == t # None => t.device = d /\ t.key = seed
TokensAreSigned == \A d \in Device : Signed(kept[d], d) /\ Signed(answer[d], d)

\* A promise that has not run out stands on a token that lasts as long.
PromiseStands(d) ==
    promised[d] # None =>
        /\ d \notin leaving
        /\ now < promised[d].until =>
            /\ Opens(d, promised[d].user)
            /\ kept[d] # None
            /\ kept[d].user = promised[d].user
            /\ promised[d].until <= kept[d].expires
PromisesStand == \A d \in Device : PromiseStands(d)

IInv == Types /\ IdsAreNew /\ PagesHold /\ TokensAreSigned /\ PromisesStand

-----------------------------------------------------------------------------
(* What a device's cookie and token open. *)

\* A user has a session of the device's cookie, and it is one of the users.
LEMMA TheUserHasASession ==
  ASSUME Types, NEW d \in Device, CurrentUser(d) # None
  PROVE  /\ cookie[d] # None
         /\ \E s \in sessions : s.id = cookie[d].id /\ s.user = CurrentUser(d)
         /\ CurrentUser(d) \in User
<1> DEFINE live == {s \in sessions : s.id = CookieOf(d) /\ now < s.expires}
<1>1. live # {}
  BY DEF CurrentUser
<1>2. PICK s \in live : CurrentUser(d) = s.user
  BY <1>1 DEF CurrentUser
<1>3. s \in Rows /\ s.id = CookieOf(d)
  BY <1>2 DEF Types
<1>4. s.id \in Int /\ s.user \in User
  BY <1>3 DEF Rows
<1>5. cookie[d] # None /\ CookieOf(d) = cookie[d].id
  BY <1>3, <1>4, TokensAssumption DEF CookieOf
<1> QED BY <1>2, <1>3, <1>4, <1>5

LEMMA TheCookieOpensTheUsers ==
  ASSUME Types, IdsAreNew, NEW d \in Device, CurrentUser(d) # None
  PROVE  Opens(d, CurrentUser(d))
  BY TheUserHasASession DEF IdsAreNew, Opens

\* The key is a seed, and the stored one once there is one.
LEMMA TheKey ==
  ASSUME Types, NEW fresh \in Seed
  PROVE  /\ Key(fresh) \in Seed
         /\ seed # None => Key(fresh) = seed
         /\ (IF keys = None THEN TokenSeed(fresh) ELSE seed) = Key(fresh)
  BY DEF Key, TokenSeed, Types

\* A token on a device means a stored key.
LEMMA TokensNeedASeed ==
  ASSUME Types, TokensAreSigned, NEW d \in Device
  PROVE  /\ kept[d] # None => kept[d] \in Vouchers /\ kept[d].key = seed /\ seed # None
         /\ answer[d] # None => answer[d] \in Vouchers /\ answer[d].key = seed /\ seed # None
<1>1. None \notin Seed
  BY TokensAssumption DEF Seed
<1>2. kept[d] \in Vouchers \cup {None} /\ answer[d] \in Vouchers \cup {None}
  BY DEF Types
<1> QED BY <1>1, <1>2 DEF TokensAreSigned, Signed, Vouchers

-----------------------------------------------------------------------------
(* It holds at first, and every action keeps it. *)

LEMMA TokenInitInv == TokenInit => IInv
<1> SUFFICES ASSUME TokenInit PROVE IInv
  OBVIOUS
<1>1. \A d \in Device : cookie[d] = None /\ kept[d] = None /\ page[d] = None /\ answer[d] = None
                          /\ promised[d] = None
  BY DEF TokenInit
<1>2. Types
  BY DEF TokenInit, Types
<1> QED BY <1>1, <1>2 DEF TokenInit, IInv, IdsAreNew, PagesHold, TokensAreSigned, Signed,
                          PageHolds, PromisesStand, PromiseStands

\* Where rows only go, and a cookie only goes, what a cookie opens stays so.
LEMMA FewerRows ==
  ASSUME IdsAreNew, sessions' \subseteq sessions, signIns' = signIns,
         \A d \in Device : cookie'[d] \in {cookie[d], None}
  PROVE  /\ IdsAreNew'
         /\ \A d \in Device, u \in User : Opens(d, u) => Opens(d, u)'
  BY DEF IdsAreNew, Opens

LEMMA LogInInv ==
  ASSUME IInv, NEW d \in Device, NEW u \in User, LogIn(d, u)
  PROVE  IInv'
<1> USE DEF IInv
<1> DEFINE row == NewSession(signIns', u)
<1>1. row \in Rows /\ row.id = signIns + 1 /\ row.user = u /\ row.expires \in Int
  BY DEF LogIn, NewSession, SessionLasts, Types, Rows
<1>2. sessions' = sessions \cup {row} /\ signIns' = signIns + 1
  BY DEF LogIn
<1>3. cookie' = cookie \/ cookie' = [cookie EXCEPT ![d] = [id |-> row.id, until |-> row.expires]]
  BY DEF LogIn
<1>4. /\ page' = [page EXCEPT ![d] = None] /\ answer' = [answer EXCEPT ![d] = None]
      /\ asking' = asking \ {d}
      /\ promised' = [promised EXCEPT ![d] = None]
      /\ UNCHANGED <<now, seed, keys, kept, leaving>>
  BY DEF LogIn, Closed
<1> HIDE DEF row
<1>5. [id |-> row.id, until |-> row.expires] \in Cookies
      /\ [id |-> row.id, until |-> row.expires].id = signIns + 1
  BY <1>1 DEF Cookies, Types
<1>6. Types'
  BY <1>1, <1>2, <1>3, <1>4, <1>5 DEF Types
<1>7. \A s \in sessions : s.id <= signIns /\ s.id \in Int
  BY DEF IdsAreNew, Types, Rows
<1>8. \A e \in Device : cookie[e] # None => cookie[e].id \in Int /\ cookie[e].id <= signIns
  BY DEF IdsAreNew, Types, Cookies
<1>9. signIns \in Int
  BY DEF Types
<1>10. IdsAreNew'
  <2>1. \A s \in sessions' : s.id <= signIns'
    BY <1>1, <1>2, <1>7, <1>9
  <2>2. \A s, r \in sessions' : s.id = r.id => s.user = r.user
    BY <1>1, <1>2, <1>7, <1>9 DEF IdsAreNew
  <2>3. \A e \in Device : cookie'[e] # None => cookie'[e].id <= signIns'
    <3> SUFFICES ASSUME NEW e \in Device, cookie'[e] # None PROVE cookie'[e].id <= signIns'
      OBVIOUS
    <3>1. CASE cookie'[e] = cookie[e]
      BY <3>1, <1>2, <1>8, <1>9
    <3>2. CASE cookie'[e] # cookie[e]
      BY <3>2, <1>2, <1>3, <1>5, <1>9 DEF Types
    <3> QED BY <3>1, <3>2
  <2> QED BY <2>1, <2>2, <2>3 DEF IdsAreNew
<1>11. \A e \in Device, v \in User : e # d /\ Opens(e, v) => Opens(e, v)'
  <2> SUFFICES ASSUME NEW e \in Device, NEW v \in User, e # d, Opens(e, v),
                      NEW s \in sessions', cookie'[e] # None, s.id = cookie'[e].id
               PROVE  s.user = v
    BY DEF Opens
  <2>1. cookie'[e] = cookie[e]
    BY <1>3 DEF Types
  <2>2. s # row
    BY <2>1, <1>1, <1>8, <1>9
  <2> QED BY <2>1, <2>2, <1>2 DEF Opens
<1>12. PagesHold'
  <2> SUFFICES ASSUME NEW e \in Device PROVE PageHolds(e)'
    BY DEF PagesHold
  <2>1. CASE e = d
    BY <2>1, <1>4 DEF Types, PageHolds
  <2>2. CASE e # d
    <3>1. page'[e] = page[e] /\ answer'[e] = answer[e] /\ kept'[e] = kept[e]
      BY <2>2, <1>4 DEF Types
    <3>2. page[e] # None => page[e] \in User /\ Opens(e, page[e])
      BY DEF Types, PagesHold, PageHolds
    <3>3. page[e] # None => Opens(e, page[e])'
      BY <2>2, <3>1, <3>2, <1>11 DEF Opens
    <3> QED BY <2>2, <1>4, <3>1, <3>3 DEF PagesHold, PageHolds
  <2> QED BY <2>1, <2>2
<1>13. TokensAreSigned'
  BY <1>4 DEF TokensAreSigned, Signed, Types
<1>14. PromisesStand'
  <2> SUFFICES ASSUME NEW e \in Device, promised'[e] # None PROVE PromiseStands(e)'
    BY DEF PromisesStand, PromiseStands
  <2>1. e # d /\ promised'[e] = promised[e]
    BY <1>4 DEF Types
  <2>2. promised[e].user \in User
    BY <2>1 DEF Types, Promises
  <2>3. Opens(e, promised[e].user) => Opens(e, promised[e].user)'
    BY <2>1, <2>2, <1>11 DEF Opens
  <2> QED BY <2>1, <2>3, <1>4 DEF PromisesStand, PromiseStands
<1> QED BY <1>6, <1>10, <1>12, <1>13, <1>14

\* Where no row is new, no cookie changes but to go, and a device's page and
\* tokens are as they were or gone, its page still holds.
LEMMA PageStillHolds ==
  ASSUME Types, NEW d \in Device, PageHolds(d),
         \A u \in User : Opens(d, u) => Opens(d, u)',
         page'[d] = page[d] \/ (page'[d] = None /\ answer'[d] = None /\ d \notin asking'),
         (d \in asking' => d \in asking),
         kept'[d] \in {kept[d], None}, answer'[d] \in {answer[d], None}
  PROVE  PageHolds(d)'
<1>1. page[d] \in User \cup {None}
  BY DEF Types
<1>2. page'[d] # None => Opens(d, page[d])'
  BY <1>1 DEF PageHolds, Opens
<1> QED BY <1>2 DEF PageHolds

\* Where besides a promise and its token stay, the promise still stands.
LEMMA PromiseStillStands ==
  ASSUME Types, NEW d \in Device, PromiseStands(d),
         \A u \in User : Opens(d, u) => Opens(d, u)',
         promised'[d] \in {promised[d], None}, now' \in {now, now + 1},
         promised'[d] # None => kept'[d] = kept[d] /\ d \notin leaving'
  PROVE  PromiseStands(d)'
<1> SUFFICES ASSUME promised'[d] # None PROVE PromiseStands(d)'
  BY DEF PromiseStands
<1>1. promised'[d] = promised[d] /\ promised[d] \in Promises
  BY DEF Types
<1>2. promised[d].user \in User /\ promised[d].until \in Int /\ now \in Int
  BY <1>1 DEF Types, Promises
<1>3. Opens(d, promised[d].user) => Opens(d, promised[d].user)'
  BY <1>1, <1>2 DEF Opens
<1>4. now' < promised'[d].until => now < promised[d].until
  BY <1>1, <1>2
<1> QED BY <1>1, <1>3, <1>4 DEF PromiseStands

\* Steps that only take away, time's among them.
Loses ==
    /\ sessions' \subseteq sessions /\ UNCHANGED <<signIns, seed>>
    /\ keys' \in {keys, None} /\ now' \in {now, now + 1}
    /\ \A d \in Device :
          /\ cookie'[d] \in {cookie[d], None}
          /\ kept'[d] \in {kept[d], None} /\ answer'[d] \in {answer[d], None}
          /\ page'[d] = page[d] \/ (page'[d] = None /\ answer'[d] = None /\ d \notin asking')
          /\ (d \in asking' => d \in asking)
          /\ promised'[d] \in {promised[d], None}
          /\ promised'[d] # None => kept'[d] = kept[d] /\ (d \in leaving' => d \in leaving)

LEMMA LosesInv ==
  ASSUME IInv, Loses, Types' PROVE IInv'
<1>1. IdsAreNew' /\ \A d \in Device, u \in User : Opens(d, u) => Opens(d, u)'
  BY FewerRows DEF IInv, Loses
<1>2. PagesHold'
  <2> SUFFICES ASSUME NEW d \in Device PROVE PageHolds(d)'
    BY DEF PagesHold
  <2>1. Types /\ PageHolds(d)
    BY DEF IInv, PagesHold
  <2> QED BY <1>1, <2>1, PageStillHolds DEF Loses
<1>3. TokensAreSigned'
  BY DEF IInv, Loses, TokensAreSigned, Signed
<1>4. PromisesStand'
  <2> SUFFICES ASSUME NEW d \in Device PROVE PromiseStands(d)'
    BY DEF PromisesStand
  <2>1. Types /\ PromiseStands(d)
    BY DEF IInv, PromisesStand
  <2>2. promised'[d] # None => kept'[d] = kept[d] /\ d \notin leaving'
    BY <2>1 DEF Loses, PromiseStands
  <2> QED BY <1>1, <2>1, <2>2, PromiseStillStands DEF Loses
<1> QED BY <1>1, <1>2, <1>3, <1>4 DEF IInv

LEMMA LosingSteps ==
  ASSUME Types,
         \/ \E d \in Device : LoseAnswer(d) \/ SubmitSignOut(d) \/ SignOut(d)
         \/ Restart
         \/ HalfDayPasses
  PROVE  Loses /\ Types'
<1>1. ASSUME NEW d \in Device, LoseAnswer(d) PROVE Loses /\ Types'
  BY <1>1 DEF LoseAnswer, Closed, Loses, Types
<1>2. ASSUME NEW d \in Device, SubmitSignOut(d) PROVE Loses /\ Types'
  BY <1>2 DEF SubmitSignOut, Loses, Types
<1>3. ASSUME NEW d \in Device, SignOut(d) PROVE Loses /\ Types'
  <2>1. sessions' \subseteq sessions /\ cookie' \in {cookie, [cookie EXCEPT ![d] = None]}
    BY <1>3 DEF SignOut
  <2> QED BY <1>3, <2>1 DEF SignOut, Closed, Loses, Types
<1>4. ASSUME Restart PROVE Loses /\ Types'
  BY <1>4 DEF Restart, Loses, Types
<1>5. ASSUME HalfDayPasses PROVE Loses /\ Types'
  BY <1>5 DEF HalfDayPasses, Loses, Types
<1> QED BY <1>1, <1>2, <1>3, <1>4, <1>5

LEMMA SweptIsFewer == ASSUME NEW d \in Device PROVE Swept(d) \subseteq sessions
  BY DEF Swept

LEMMA IssueInv ==
  ASSUME IInv, NEW d \in Device, Issue(d)
  PROVE  IInv'
<1> USE DEF IInv
<1>1. /\ sessions' \subseteq sessions
      /\ UNCHANGED <<now, signIns, restarts, cookie, kept, page, leaving, promised>>
      /\ asking' = asking \ {d} /\ d \in asking /\ page[d] # None
  BY SweptIsFewer DEF Issue, PagesHold, PageHolds
<1>2. CASE CurrentUser(d) = None
  <2>1. UNCHANGED <<seed, keys, answer>>
    BY <1>2 DEF Issue
  <2>2. Types' /\ Loses
    BY <1>1, <2>1 DEF Types, Loses
  <2> QED BY <2>2, LosesInv
<1>3. CASE CurrentUser(d) # None
  <2>1. PICK fresh \in Seed :
          /\ keys' = Key(fresh) /\ seed' = Key(fresh)
          /\ answer' = [answer EXCEPT ![d] = Claims(CurrentUser(d), d, keys')]
    BY <1>3, TheKey DEF Issue
  <2> DEFINE t == Claims(CurrentUser(d), d, keys')
  <2>2. t \in Vouchers /\ t.user = CurrentUser(d) /\ t.device = d /\ t.key = seed'
    BY <1>3, <2>1, TheKey, TheUserHasASession DEF Claims, Vouchers, Types, TokenLasts
  <2>3. answer' = [answer EXCEPT ![d] = t]
    BY <2>1
  <2> HIDE DEF t
  <2>4. Types'
    BY <1>1, <2>1, <2>2, <2>3, TheKey DEF Types
  <2>5. IdsAreNew' /\ \A e \in Device, u \in User : Opens(e, u) => Opens(e, u)'
    BY <1>1, FewerRows
  <2>6. CurrentUser(d) = page[d]
    BY <1>1, <1>3, TheUserHasASession DEF PagesHold, PageHolds, Opens
  <2>7. PagesHold'
    <3> SUFFICES ASSUME NEW e \in Device PROVE PageHolds(e)'
      BY DEF PagesHold
    <3>1. CASE e = d
      <4>1. page[d] \in User /\ Opens(d, page[d])
        BY <1>1 DEF Types, PagesHold, PageHolds
      <4>2. Opens(d, page[d])'
        BY <4>1, <2>5, <1>1 DEF Opens
      <4> QED BY <3>1, <4>2, <1>1, <2>2, <2>3, <2>6 DEF PagesHold, PageHolds, Types
    <3>2. CASE e # d
      <4>1. PageHolds(e) /\ answer'[e] = answer[e] /\ page'[e] = page[e] /\ kept'[e] = kept[e]
        BY <3>2, <1>1, <2>3 DEF Types, PagesHold
      <4> QED BY <4>1, <1>1, <2>5, PageStillHolds
    <3> QED BY <3>1, <3>2
  <2>8. TokensAreSigned'
    <3> SUFFICES ASSUME NEW e \in Device PROVE Signed(kept[e], e)' /\ Signed(answer[e], e)'
      BY DEF TokensAreSigned
    <3>1. seed # None => seed' = seed
      BY <2>1, TheKey
    <3>2. CASE e = d
      BY <3>1, <3>2, <1>1, <2>2, <2>3, TokensNeedASeed DEF Types, TokensAreSigned, Signed
    <3>3. CASE e # d
      <4>1. answer'[e] = answer[e]
        BY <3>3, <2>3 DEF Types
      <4> QED BY <3>1, <4>1, <1>1, TokensNeedASeed DEF TokensAreSigned, Signed
    <3> QED BY <3>2, <3>3
  <2>9. PromisesStand'
    <3> SUFFICES ASSUME NEW e \in Device PROVE PromiseStands(e)'
      BY DEF PromisesStand
    <3>1. PromiseStands(e)
      BY DEF PromisesStand
    <3>2. promised'[e] # None => e \notin leaving'
      BY <3>1, <1>1 DEF PromiseStands
    <3> QED BY <1>1, <2>5, <3>1, <3>2, PromiseStillStands
  <2> QED BY <2>4, <2>5, <2>7, <2>8, <2>9
<1> QED BY <1>2, <1>3

LEMMA TakeAnswerInv ==
  ASSUME IInv, NEW d \in Device, TakeAnswer(d)
  PROVE  IInv'
<1> USE DEF IInv
<1> PICK t : t = answer[d]
  OBVIOUS
<1>1. /\ t # None /\ t \in Vouchers /\ t.device = d /\ t.key = seed
      /\ t.user \in User /\ t.expires \in Int
  BY TokensNeedASeed DEF TakeAnswer, TokensAreSigned, Signed, Vouchers
<1>2. /\ kept' = [kept EXCEPT ![d] = t] /\ answer' = [answer EXCEPT ![d] = None]
      /\ promised' = promised \/ promised' = [promised EXCEPT ![d] = Promise(t.user, t.expires)]
      /\ d \in leaving => promised' = promised
      /\ d \notin leaving => promised' = [promised EXCEPT ![d] = Promise(t.user, t.expires)]
      /\ UNCHANGED <<now, sessions, signIns, seed, keys, cookie, page, asking, leaving>>
  BY DEF TakeAnswer
<1>3. /\ Promise(t.user, t.expires) \in Promises
      /\ Promise(t.user, t.expires).user = t.user /\ Promise(t.user, t.expires).until = t.expires
  BY <1>1 DEF Promise, Promises
<1>4. page[d] # None /\ t.user = page[d] /\ Opens(d, t.user)
  BY <1>1 DEF PagesHold, PageHolds, Opens
<1>5. Types'
  <2>1. kept' \in [Device -> Vouchers \cup {None}] /\ answer' \in [Device -> Vouchers \cup {None}]
    BY <1>1, <1>2 DEF Types
  <2>2. promised' \in [Device -> Promises \cup {None}]
    BY <1>2, <1>3 DEF Types
  <2> QED BY <1>2, <2>1, <2>2 DEF Types
<1>6. IdsAreNew' /\ \A e \in Device, u \in User : Opens(e, u) => Opens(e, u)'
  BY <1>2, FewerRows
<1>7. PagesHold'
  <2> SUFFICES ASSUME NEW e \in Device PROVE PageHolds(e)'
    BY DEF PagesHold
  <2>1. CASE e = d
    <3>1. kept'[d] = t /\ answer'[d] = None /\ Opens(d, page[d])'
      BY <1>2, <1>4 DEF Types, Opens
    <3> QED BY <2>1, <3>1, <1>2, <1>4 DEF PageHolds
  <2>2. CASE e # d
    <3>1. /\ PageHolds(e) /\ Types
          /\ answer'[e] = answer[e] /\ page'[e] = page[e] /\ kept'[e] = kept[e]
      BY <2>2, <1>2 DEF Types, PagesHold
    <3> QED BY <3>1, <1>2, <1>6, PageStillHolds
  <2> QED BY <2>1, <2>2
<1>8. TokensAreSigned'
  BY <1>1, <1>2 DEF TokensAreSigned, Signed, Types
<1>9. PromisesStand'
  <2> SUFFICES ASSUME NEW e \in Device PROVE PromiseStands(e)'
    BY DEF PromisesStand
  <2>1. CASE e = d /\ d \notin leaving
    <3>1. promised'[d] = Promise(t.user, t.expires) /\ kept'[d] = t /\ d \notin leaving'
      BY <2>1, <1>2 DEF Types
    <3>2. Opens(d, t.user)'
      BY <1>2, <1>4 DEF Opens
    <3>3. Opens(d, promised[d].user)'
      BY <3>1, <3>2, <1>3 DEF Opens
    <3> QED BY <2>1, <3>1, <3>3, <1>1, <1>3 DEF PromiseStands
  <2>2. CASE e = d /\ d \in leaving
    <3>1. promised'[d] = None
      BY <2>2, <1>2 DEF PromisesStand, PromiseStands
    <3> QED BY <2>2, <3>1 DEF PromiseStands
  <2>3. CASE e # d
    <3>1. PromiseStands(e) /\ Types /\ promised'[e] = promised[e] /\ kept'[e] = kept[e]
      BY <2>3, <1>2 DEF Types, PromisesStand
    <3>2. promised'[e] # None => e \notin leaving'
      BY <3>1, <1>2 DEF PromiseStands
    <3> QED BY <3>1, <3>2, <1>2, <1>6, PromiseStillStands
  <2> QED BY <2>1, <2>2, <2>3
<1> QED BY <1>5, <1>6, <1>7, <1>8, <1>9

LEMMA OpenInv ==
  ASSUME IInv, NEW d \in Device, Open(d)
  PROVE  IInv'
<1> USE DEF IInv
<1> DEFINE u == CurrentUser(d)
<1>1. u # None => u \in User /\ Opens(d, u) /\ \A v \in User : Opens(d, v) => u = v
  BY TheUserHasASession, TheCookieOpensTheUsers DEF Opens
<1> DEFINE p == Promise(u, now + HalfLife)
           new == IF u = None THEN kept[d] ELSE StillKept(d, u)
<1>2. /\ page' = [page EXCEPT ![d] = u] /\ answer' = [answer EXCEPT ![d] = None]
      /\ kept' = [kept EXCEPT ![d] = new]
      /\ promised' = promised \/ (u # None /\ Fresh(d, u) /\ promised' = [promised EXCEPT ![d] = p])
      /\ d \in asking' => u # None
      /\ \A e \in Device : e # d /\ e \in asking' => e \in asking
      /\ sessions' \subseteq sessions
      /\ UNCHANGED <<now, signIns, seed, keys, cookie, leaving>>
      /\ d \notin leaving
  BY SweptIsFewer DEF Open, Types
<1>3. /\ new \in {kept[d], None}
      /\ u # None /\ new # None => new.user = u
      /\ u = None \/ kept[d] = None \/ kept[d].user = u => new = kept[d]
      /\ u # None /\ Fresh(d, u) => new = kept[d]
  BY DEF StillKept, Fresh
<1>4. p.user = u /\ p.until = now + HalfLife /\ (u # None => p \in Promises)
  BY <1>1 DEF Promise, Promises, HalfLife, Types
<1>5. Fresh(d, u) => kept[d] # None /\ kept[d].user = u /\ now + HalfLife <= kept[d].expires
  BY DEF Fresh, Types, Vouchers, HalfLife
<1> HIDE DEF u, p, new
<1>6. Types'
  BY <1>1, <1>2, <1>3, <1>4 DEF Types
<1>7. IdsAreNew' /\ \A e \in Device, v \in User : Opens(e, v) => Opens(e, v)'
  BY <1>2, FewerRows
<1>8. PagesHold'
  <2> SUFFICES ASSUME NEW e \in Device PROVE PageHolds(e)'
    BY DEF PagesHold
  <2>1. CASE e = d
    <3>1. page'[d] = u /\ kept'[d] = new /\ answer'[d] = None
      BY <1>2 DEF Types
    <3>2. u # None => Opens(d, page[d])'
      BY <3>1, <1>1, <1>7 DEF Opens
    <3> QED BY <2>1, <3>1, <3>2, <1>2, <1>3 DEF PageHolds
  <2>2. CASE e # d
    <3>1. /\ PageHolds(e) /\ Types
          /\ answer'[e] = answer[e] /\ page'[e] = page[e] /\ kept'[e] = kept[e]
      BY <2>2, <1>2 DEF Types, PagesHold
    <3> QED BY <2>2, <3>1, <1>2, <1>7, PageStillHolds
  <2> QED BY <2>1, <2>2
<1>9. TokensAreSigned'
  BY <1>2, <1>3 DEF TokensAreSigned, Signed, Types
<1>10. PromisesStand'
  <2> SUFFICES ASSUME NEW e \in Device PROVE PromiseStands(e)'
    BY DEF PromisesStand
  <2>1. CASE e = d /\ u # None /\ Fresh(d, u) /\ promised' = [promised EXCEPT ![d] = p]
    <3>1. promised'[d] = p /\ kept'[d] = kept[d]
      BY <2>1, <1>2, <1>3 DEF Types
    <3>2. Opens(d, promised[d].user)'
      BY <2>1, <3>1, <1>1, <1>4, <1>7 DEF Opens
    <3> QED BY <2>1, <3>1, <3>2, <1>2, <1>4, <1>5 DEF PromiseStands
  <2>2. CASE e = d /\ promised' = promised
    <3>1. PromiseStands(d)
      BY DEF PromisesStand
    <3>2. promised[d] # None => promised[d].user \in User
      BY DEF Types, Promises
    <3>3. promised[d] # None /\ now < promised[d].until => new = kept[d] /\ Opens(d, promised[d].user)'
      BY <3>1, <3>2, <2>2, <1>1, <1>2, <1>3, <1>7 DEF PromiseStands, Opens
    <3>4. kept'[d] = new
      BY <1>2 DEF Types
    <3> QED BY <2>2, <3>1, <3>3, <3>4, <1>2 DEF PromiseStands
  <2>3. CASE e # d
    <3>1. PromiseStands(e) /\ Types /\ promised'[e] = promised[e] /\ kept'[e] = kept[e]
      BY <2>3, <1>2 DEF Types, PromisesStand
    <3>2. promised'[e] # None => e \notin leaving'
      BY <3>1, <1>2 DEF PromiseStands
    <3> QED BY <3>1, <3>2, <1>2, <1>7, PromiseStillStands
  <2> QED BY <2>1, <2>2, <2>3, <1>2
<1> QED BY <1>6, <1>7, <1>8, <1>9, <1>10

LEMMA TokenNextInv ==
  ASSUME IInv, TokenNext PROVE IInv'
<1>1. ASSUME NEW d \in Device, NEW u \in User, LogIn(d, u) PROVE IInv'
  BY <1>1, LogInInv
<1>2. ASSUME NEW d \in Device, Open(d) PROVE IInv'
  BY <1>2, OpenInv
<1>3. ASSUME NEW d \in Device, Issue(d) PROVE IInv'
  BY <1>3, IssueInv
<1>4. ASSUME NEW d \in Device, TakeAnswer(d) PROVE IInv'
  BY <1>4, TakeAnswerInv
<1>5. ASSUME \/ \E d \in Device : LoseAnswer(d) \/ SubmitSignOut(d) \/ SignOut(d)
             \/ Restart
             \/ HalfDayPasses
      PROVE  IInv'
  <2>1. Loses /\ Types'
    BY <1>5, LosingSteps DEF IInv
  <2> QED BY <2>1, LosesInv
<1> QED BY <1>1, <1>2, <1>3, <1>4, <1>5 DEF TokenNext

LEMMA StutterInv ==
  ASSUME IInv, UNCHANGED tokenVars PROVE IInv'
<1>1. Types' /\ Loses
  BY DEF tokenVars, IInv, Types, Loses
<1> QED BY <1>1, LosesInv

\* Types, ids given once, a page's device holding nothing of another scout, and
\* every token signed with the stored key: so in every behaviour.
THEOREM TokensInv == TokenSpec => []IInv
<1>1. IInv /\ [TokenNext]_tokenVars => IInv'
  BY TokenNextInv, StutterInv
<1> QED BY TokenInitInv, <1>1, PTL DEF TokenSpec

-----------------------------------------------------------------------------
(* What follows from it. *)

\* What more a step must keep for TokenTypeOK: the bounds, and that no page waits
\* for a token once its answer is on the way.
Bounded ==
    /\ now \in 0 .. MaxClock /\ signIns \in Nat
    /\ \A s \in sessions : s.id >= 1
    /\ asking \subseteq {d \in Device : page[d] # None /\ answer[d] = None}

LEMMA TokenInitBounded == ASSUME TokenInit PROVE Bounded
BY TokensAssumption DEF TokenInit, Bounded

LEMMA TokenNextBounded ==
  ASSUME IInv, Bounded, TokenNext PROVE Bounded'
<1>1. /\ now \in 0 .. MaxClock /\ signIns \in Nat /\ sessions \subseteq Rows
      /\ \A s \in sessions : s.id >= 1
      /\ asking \subseteq {d \in Device : page[d] # None /\ answer[d] = None}
      /\ page \in [Device -> User \cup {None}] /\ answer \in [Device -> Vouchers \cup {None}]
  BY DEF IInv, Types, Bounded
<1>2. ASSUME NEW d \in Device, NEW u \in User, LogIn(d, u) PROVE Bounded'
  <2>1. now' = now /\ signIns' = signIns + 1 /\ sessions' = sessions \cup {NewSession(signIns', u)}
    BY <1>2 DEF LogIn
  <2>2. NewSession(signIns', u).id = signIns + 1
    BY <2>1 DEF NewSession
  <2>3. \A s \in sessions' : s.id >= 1
    BY <1>1, <2>1, <2>2
  <2>4. asking' \subseteq {x \in Device : page'[x] # None /\ answer'[x] = None}
    BY <1>1, <1>2 DEF LogIn, Closed
  <2> QED BY <1>1, <2>1, <2>3, <2>4 DEF Bounded
<1>3. ASSUME NEW d \in Device, Open(d) PROVE Bounded'
  <2>1. now' = now /\ signIns' = signIns /\ sessions' \subseteq sessions
    BY <1>3 DEF Open, Swept
  <2>2. asking' \subseteq {x \in Device : page'[x] # None /\ answer'[x] = None}
    BY <1>1, <1>3 DEF Open
  <2> QED BY <1>1, <2>1, <2>2 DEF Bounded
<1>4. ASSUME NEW d \in Device, Issue(d) PROVE Bounded'
  <2>1. now' = now /\ signIns' = signIns /\ sessions' \subseteq sessions /\ page' = page
    BY <1>4 DEF Issue, Swept
  <2>2. asking' = asking \ {d} /\ \A x \in Device \ {d} : answer'[x] = answer[x]
    BY <1>1, <1>4 DEF Issue
  <2> QED BY <1>1, <2>1, <2>2 DEF Bounded
<1>5. ASSUME NEW d \in Device, TakeAnswer(d) PROVE Bounded'
  BY <1>1, <1>5 DEF TakeAnswer, Bounded
<1>6. ASSUME NEW d \in Device, LoseAnswer(d) PROVE Bounded'
  BY <1>1, <1>6 DEF LoseAnswer, Closed, Bounded
<1>7. ASSUME NEW d \in Device, SubmitSignOut(d) PROVE Bounded'
  BY <1>1, <1>7 DEF SubmitSignOut, Bounded
<1>8. ASSUME NEW d \in Device, SignOut(d) PROVE Bounded'
  <2>1. now' = now /\ signIns' = signIns /\ sessions' \subseteq sessions
    BY <1>8 DEF SignOut
  <2>2. asking' \subseteq {x \in Device : page'[x] # None /\ answer'[x] = None}
    BY <1>1, <1>8 DEF SignOut, Closed
  <2> QED BY <1>1, <2>1, <2>2 DEF Bounded
<1>9. ASSUME Restart PROVE Bounded'
  BY <1>1, <1>9 DEF Restart, Bounded
<1>10. ASSUME HalfDayPasses PROVE Bounded'
  BY <1>1, <1>10, TokensAssumption DEF HalfDayPasses, Bounded
<1> QED BY <1>2, <1>3, <1>4, <1>5, <1>6, <1>7, <1>8, <1>9, <1>10 DEF TokenNext

\* Of every number of scouts, devices, sign-ins and starts of the Pi: sessions have
\* ids that were given, the Pi signs with the key it keeps, and only a page drawn
\* for somebody, with no answer on its way, waits for a token.
THEOREM TokenTypes == TokenSpec => []TokenTypeOK
<1>1. IInv /\ Bounded => TokenTypeOK
  BY DEF IInv, Types, IdsAreNew, Bounded, Rows, TokenTypeOK
<1>2. (IInv /\ Bounded) /\ [TokenNext]_tokenVars => (IInv /\ Bounded)'
  <2>1. ASSUME Bounded, UNCHANGED tokenVars PROVE Bounded'
    BY <2>1 DEF Bounded, tokenVars
  <2> QED BY <2>1, TokenNextInv, StutterInv, TokenNextBounded
<1> QED BY <1>1, <1>2, TokenInitInv, TokenInitBounded, PTL DEF TokenSpec

\* A token a device sends opens for its user.
LEMMA TheTokenVerifies ==
  ASSUME IInv, NEW d \in Device, NEW fresh \in Seed, kept[d] # None, now < kept[d].expires
  PROVE  Verifies(kept[d], Key(fresh)) /\ kept[d].device = d /\ Bearer(d) = kept[d]
  BY TokensNeedASeed, TheKey DEF IInv, Verifies, Bearer, TokensAreSigned, Signed

\* Whoever a device syncs as is its session's user or its token's.
LEMMA SyncUserIs ==
  ASSUME NEW d \in Device, NEW fresh \in Seed
  PROVE  SyncUser(d, fresh) \in {CurrentUser(d), None}
         \/ (kept[d] # None /\ SyncUser(d, fresh) = kept[d].user)
  BY DEF SyncUser, Bearer

\* While a scout's page is open their device's sync goes as them or as nobody,
\* of every number of scouts, devices, sign-ins and starts of the Pi: what its
\* cookie opens and the token it keeps are theirs (token.js, sync_user).
THEOREM TokensSyncAsThePage == TokenSpec => []SyncsAsThePage
<1>1. IInv => SyncsAsThePage
  <2> SUFFICES ASSUME IInv, NEW d \in Device, NEW fresh \in Seed, page[d] # None
               PROVE  SyncUser(d, fresh) \in {page[d], None}
    BY DEF SyncsAsThePage
  <2>1. CurrentUser(d) # None => CurrentUser(d) = page[d]
    BY TheUserHasASession DEF IInv, PagesHold, PageHolds, Opens
  <2>2. kept[d] # None => kept[d].user = page[d]
    BY DEF IInv, PagesHold, PageHolds
  <2> QED BY <2>1, <2>2, SyncUserIs
<1> QED BY <1>1, TokensInv, PTL

\* Once a scout's device holds a token that will last, it syncs as them as long
\* as that, however sessions end and the Pi starts again: the key a token was
\* signed with is the stored one, and the Pi reads it back (token_key.rs).
THEOREM TokensPromisedSyncs == TokenSpec => []PromisedSyncs
<1>1. IInv => PromisedSyncs
  <2> SUFFICES ASSUME IInv, NEW d \in Device, NEW fresh \in Seed,
                      promised[d] # None, now < promised[d].until
               PROVE  SyncUser(d, fresh) = promised[d].user
    BY DEF PromisedSyncs
  <2>1. /\ Opens(d, promised[d].user)
        /\ kept[d] # None /\ kept[d].user = promised[d].user
        /\ promised[d].until <= kept[d].expires
    BY DEF IInv, PromisesStand, PromiseStands
  <2>2. kept[d] \in Vouchers /\ promised[d] \in Promises /\ now \in Int
    BY <2>1 DEF IInv, Types
  <2>3. kept[d].expires \in Int /\ promised[d].until \in Int
    BY <2>2 DEF Vouchers, Promises
  <2>4. now < kept[d].expires
    BY <2>1, <2>2, <2>3
  <2>5. CASE CurrentUser(d) # None
    BY <2>1, <2>5, TheUserHasASession DEF IInv, Opens, SyncUser
  <2>6. CASE CurrentUser(d) = None
    BY <2>1, <2>4, <2>6, TheTokenVerifies DEF SyncUser
  <2> QED BY <2>5, <2>6
<1> QED BY <1>1, TokensInv, PTL
=============================================================================
