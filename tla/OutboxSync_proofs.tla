-------------------------- MODULE OutboxSync_proofs --------------------------
(* What holds of OutboxSync for every number of devices, forms, scouts and  *)
(* robots, and every page and push size.                                    *)
EXTENDS OutboxSync, WellFoundedInduction, TLAPS

USE DEF Live, Waiting, Refused

-----------------------------------------------------------------------------
(* Types. *)

\* Each state of a sync is one.
LEMMA SyncingType ==
  ASSUME NEW at \in {"idle", "push", "turn", "pull", "page"}, NEW sent \in SUBSET Record,
         NEW next \in {"turn", "pull"}, NEW upto \in Nat
  PROVE  Syncing(at, sent, next, upto) \in Sync /\ Syncing(at, sent, next, upto).upto = upto
  BY DEF Syncing, Sync

LEMMA IdleType ==
  /\ Idle \in Sync /\ Idle.upto = 0
  /\ Pulling \in Sync /\ Pulling.upto = 0
  BY DEF Idle, Pulling, Syncing, Sync

\* A refusal gathered keeps the rest of a sync.
LEMMA SyncRefusals ==
  ASSUME NEW x \in Sync, NEW S \in SUBSET Record
  PROVE  [x EXCEPT !.refusals = S] \in Sync /\ [x EXCEPT !.refusals = S].upto = x.upto
  BY DEF Sync

LEMMA EntryRefused == ASSUME NEW e \in Entry PROVE [e EXCEPT !.refused = TRUE] \in Entry
  BY DEF Entry

LEMMA DeliveryLate == ASSUME NEW x \in Delivery PROVE [x EXCEPT !.live = FALSE] \in Delivery
  BY DEF Delivery

\* A device's sync may become any sync that stays within the log.
LEMMA SyncMoves ==
  ASSUME TypeOK, NEW d \in Device, NEW x \in Sync, x.upto <= Len(changes),
         sync' = [sync EXCEPT ![d] = x]
  PROVE  sync' \in [Device -> Sync] /\ \A e \in Device : sync'[e].upto <= Len(changes)
  BY DEF TypeOK

LEMMA InitType == Init => TypeOK
  BY ConstantsAssumption, IdleType DEF Init, TypeOK, NoRows

LEMMA QueueType ==
  ASSUME TypeOK, NEW d \in Device, NEW r \in Record, NEW s \in Slot, QueueObservation(d, r, s)
  PROVE  TypeOK'
  BY DEF TypeOK, QueueObservation, Row, Entry, piVars

LEMMA DiscardType ==
  ASSUME TypeOK, NEW d \in Device, NEW r \in Record, DiscardRefused(d, r)
  PROVE  TypeOK'
  BY DEF TypeOK, DiscardRefused, piVars

LEMMA FlushType ==
  ASSUME TypeOK, NEW d \in Device, Flush(d)
  PROVE  TypeOK'
  BY DEF TypeOK, Flush, InMemory, piVars, deviceVars

LEMMA SignInType ==
  ASSUME TypeOK, NEW d \in Device, NEW who \in Scout, SignIn(d, who)
  PROVE  TypeOK'
  BY DEF TypeOK, SignIn, piVars, deviceVars

LEMMA AbandonType ==
  ASSUME TypeOK, NEW d \in Device, Abandon(d)
  PROVE  pushed' \in SUBSET Delivery
  BY DeliveryLate DEF TypeOK, Abandon, Unanswered

LEMMA CrashType ==
  ASSUME TypeOK, NEW d \in Device, Crash(d)
  PROVE  TypeOK'
  BY AbandonType, IdleType DEF TypeOK, Crash, piVars, deviceVars

LEMMA SendPushType ==
  ASSUME TypeOK, NEW d \in Device, SendPush(d)
  PROVE  TypeOK'
<1>1. PICK batch \in SUBSET Ready(d) : PushBatch(d, batch)
  BY DEF SendPush
<1>2. \A r \in batch : r \in Record /\ outbox[d][r] \in Entry
  BY DEF Ready, InQueue, TypeOK
<1>3. pushed' \in SUBSET Delivery
  <2>1. \A r \in batch : [rec |-> r, slot |-> outbox[d][r].slot, by |-> session[d],
                          stage |-> "check", live |-> TRUE] \in Delivery
    BY <1>2 DEF TypeOK, Delivery, Entry
  <2>2. pushed \in SUBSET Delivery
    BY DEF TypeOK
  <2> QED
    BY <1>1, <2>1, <2>2 DEF PushBatch
<1> DEFINE X == Syncing("push", sync[d].sent \cup batch,
                        IF Cardinality(batch) = MaxPerPush THEN "turn" ELSE "pull", 0)
<1>4. X \in Sync /\ X.upto = 0
  <2>1. sync[d].sent \cup batch \in SUBSET Record
    BY <1>2 DEF TypeOK, Sync
  <2> QED
    BY <2>1 DEF Syncing, Sync
<1>5. sync' = [sync EXCEPT ![d] = X]
  BY <1>1 DEF PushBatch
<1> HIDE DEF X
<1>6. sync' \in [Device -> Sync] /\ \A e \in Device : sync'[e].upto <= Len(changes)
  BY <1>4, <1>5, SyncMoves DEF TypeOK
<1> QED
  BY <1>3, <1>6 DEF TypeOK, SendPush, deviceVars, piVars

LEMMA TakeReceiptsType ==
  ASSUME TypeOK, NEW d \in Device, TakeReceipts(d)
  PROVE  TypeOK'
<1>1. outbox' \in [Device -> [Record -> Entry \cup {None}]]
  BY EntryRefused DEF TypeOK, TakeReceipts
<1>2. observations' \in [Device -> [Record -> Row \cup {None}]]
  BY DEF TypeOK, TakeReceipts
<1>3. sync' \in [Device -> Sync] /\ \A e \in Device : sync'[e].upto <= Len(changes)
  <2> DEFINE X == IF sync[d].next = "pull" THEN Pulling
                  ELSE Syncing("turn", sync[d].sent, "pull", 0)
  <2>1. X \in Sync /\ X.upto = 0
    BY IdleType DEF TypeOK, Sync, Syncing
  <2>2. Len(changes) \in Nat
    BY DEF TypeOK
  <2>3. sync' = [sync EXCEPT ![d] = X]
    BY DEF TakeReceipts
  <2> HIDE DEF X
  <2> QED
    BY <2>1, <2>2, <2>3, SyncMoves DEF TypeOK
<1> QED
  BY <1>1, <1>2, <1>3 DEF TypeOK, TakeReceipts, piVars

LEMMA SendPullType ==
  ASSUME TypeOK, NEW d \in Device, SendPull(d)
  PROVE  TypeOK'
<1>1. sync' \in [Device -> Sync] /\ \A e \in Device : sync'[e].upto <= Len(changes)
  BY IdleType, SyncMoves DEF SendPull, TypeOK
<1> QED
  BY <1>1 DEF TypeOK, SendPull, piVars, deviceVars

\* A set of naturals has a least element, and a set of positions in a log a
\* last one.
LEMMA Least ==
  ASSUME NEW T \in SUBSET Nat, T # {} PROVE \E x \in T : \A y \in T : x <= y
<1> DEFINE R == OpToRel(<, Nat)
<1>1. IsWellFoundedOn(R, Nat)
  BY NatLessThanWellFounded
<1>2. \A x, y \in Nat : y < x => <<y, x>> \in R
  BY DEF OpToRel
<1> HIDE DEF R
<1>3. PICK x \in T : \A y \in T : ~ (<<y, x>> \in R)
  BY <1>1, WFMin
<1>4. \A y \in T : ~ (y < x)
  BY <1>2, <1>3
<1> QED
  BY <1>4

LEMMA Last ==
  ASSUME NEW n \in Nat, NEW S \in SUBSET (1 .. n), S # {}
  PROVE  \E x \in S : \A y \in S : y <= x
<1> DEFINE T == {n - i : i \in S}
<1>1. T \in SUBSET Nat /\ T # {}
  <2>1. \A i \in S : n - i \in Nat
    OBVIOUS
  <2> QED
    BY <2>1
<1>2. PICK m \in T : \A y \in T : m <= y
  BY <1>1, Least
<1>3. PICK x \in S : m = n - x
  BY <1>2
<1>4. \A y \in S : n - x <= n - y
  BY <1>2, <1>3
<1> QED
  BY <1>4

\* Of the changes about a record, Latest is one of them, and the last.
LEMMA LatestIsLast ==
  ASSUME changes \in Seq(Change), NEW P \in SUBSET (1 .. Len(changes)), NEW r,
         \E i \in P : changes[i].rec = r
  PROVE  /\ Latest(P, r) \in P
         /\ changes[Latest(P, r)].rec = r
         /\ \A j \in P : changes[j].rec = r => j <= Latest(P, r)
<1> DEFINE S == {i \in P : changes[i].rec = r}
<1>1. Len(changes) \in Nat
  OBVIOUS
<1>2. S \in SUBSET (1 .. Len(changes)) /\ S # {}
  BY Zenon
<1>3. PICK i \in S : \A j \in S : j <= i
  <2> HIDE DEF S
  <2> QED
    BY <1>1, <1>2, Last
<1> QED
  BY <1>3 DEF Latest

\* Applying a page to a table of rows gives a table of rows.
LEMMA AppliedType ==
  ASSUME changes \in Seq(Change), NEW P \in SUBSET (1 .. Len(changes)),
         NEW table \in [Record -> Row \cup {None}]
  PROVE  Applied(table, P) \in [Record -> Row \cup {None}]
<1>1. ASSUME NEW r \in Record, \E i \in P : changes[i].rec = r
      PROVE  changes[Latest(P, r)].row \in Row
  <2>1. Latest(P, r) \in 1 .. Len(changes)
    BY <1>1, LatestIsLast
  <2>2. changes[Latest(P, r)] \in Change
    BY <2>1
  <2> QED
    BY <2>2 DEF Change
<1> QED
  BY <1>1 DEF Applied

LEMMA ApplyPullType ==
  ASSUME TypeOK, NEW d \in Device, ApplyPull(d)
  PROVE  TypeOK'
<1> DEFINE P == {i \in cursor[d] + 1 .. sync[d].upto : Visible(d, i)}
<1>1. P \in SUBSET (1 .. Len(changes))
  BY DEF TypeOK, Sync
<1>2. Applied(observations[d], P) \in [Record -> Row \cup {None}]
  BY <1>1, AppliedType DEF TypeOK
<1>3. observations' \in [Device -> [Record -> Row \cup {None}]]
  BY <1>2 DEF TypeOK, ApplyPull
<1>4. outbox' \in [Device -> [Record -> Entry \cup {None}]]
  BY DEF TypeOK, ApplyPull
<1>5. sync[d].upto \in 0 .. Len(changes)
  BY DEF TypeOK, Sync
<1>6. sync' \in [Device -> Sync] /\ \A e \in Device : sync'[e].upto <= Len(changes)
  <2>1. sync' = [sync EXCEPT ![d] = Pulling] \/ sync' = [sync EXCEPT ![d] = Idle]
    BY DEF ApplyPull
  <2>2. Len(changes) \in Nat
    BY DEF TypeOK
  <2> QED
    BY <2>1, <2>2, IdleType, SyncMoves
<1> QED
  BY <1>3, <1>4, <1>5, <1>6 DEF TypeOK, ApplyPull, piVars

LEMMA StopType ==
  ASSUME TypeOK, NEW d \in Device, Stop(d)
  PROVE  TypeOK'
  BY AbandonType, IdleType DEF TypeOK, Stop, piVars, deviceVars

LEMMA PiServesPullType ==
  ASSUME TypeOK, NEW d \in Device, NEW upto \in cursor[d] .. PageEnd(d), PiServesPull(d, upto)
  PROVE  TypeOK'
<1>1. upto \in 0 .. Len(changes)
  BY ConstantsAssumption DEF TypeOK, PageEnd
<1> DEFINE X == Syncing("page", {}, "pull", upto)
<1>2. X \in Sync /\ X.upto = upto
  BY <1>1 DEF Syncing, Sync
<1>3. sync' = [sync EXCEPT ![d] = X]
  BY DEF PiServesPull
<1> HIDE DEF X
<1>4. sync' \in [Device -> Sync] /\ \A e \in Device : sync'[e].upto <= Len(changes)
  BY <1>1, <1>2, <1>3, SyncMoves DEF TypeOK
<1> QED
  BY <1>4 DEF TypeOK, PiServesPull, piVars, deviceVars

LEMMA NewRow ==
  ASSUME NEW s \in Slot, NEW by \in Scout
  PROVE  [slot |-> s, by |-> by, state |-> "pending"] \in Row
  BY DEF Row

\* A row written is there, the others are as they were, and the log is one
\* change longer.
LEMMA WriteType ==
  ASSUME TypeOK, NEW r \in Record, NEW row \in Row, Write(r, row)
  PROVE  /\ pi' \in [Record -> Row \cup {None}]
         /\ pi' = [pi EXCEPT ![r] = row]
         /\ changes' \in Seq(Change)
         /\ Len(changes') = Len(changes) + 1
         /\ \A i \in 1 .. Len(changes) : changes'[i] = changes[i]
         /\ changes'[Len(changes) + 1] = [rec |-> r, row |-> row]
  BY DEF TypeOK, Write, Change

\* What points into the log still does when it grows.
LEMMA LongerLog ==
  ASSUME TypeOK, changes' \in Seq(Change), Len(changes) <= Len(changes'),
         pi' \in [Record -> Row \cup {None}], pushed' \in SUBSET Delivery,
         lead' \in SUBSET LeadJob,
         UNCHANGED <<observations, outbox, cursor, disk, session, sync, refused, schedule>>
  PROVE  TypeOK'
<1>1. Len(changes) \in Nat /\ Len(changes') \in Nat
  BY DEF TypeOK
<1>2. cursor' \in [Device -> 0 .. Len(changes')]
  BY <1>1 DEF TypeOK
<1>3. disk' \in [Device -> [observations : [Record -> Row \cup {None}],
                           outbox : [Record -> Entry \cup {None}],
                           cursor : 0 .. Len(changes')]]
  BY <1>1 DEF TypeOK
<1>4. \A d \in Device : sync'[d].upto <= Len(changes')
  BY <1>1 DEF TypeOK, Sync
<1> QED
  BY <1>2, <1>3, <1>4 DEF TypeOK

LEMMA StoreType ==
  ASSUME TypeOK, NEW r \in Record, NEW s \in Slot, NEW by \in Scout, Store(r, s, by)
  PROVE  /\ pi' \in [Record -> Row \cup {None}]
         /\ changes' \in Seq(Change)
         /\ Len(changes) <= Len(changes')
<1>1. CASE pi[r] = None
  <2> DEFINE row == [slot |-> s, by |-> by, state |-> "pending"]
  <2>1. Write(r, row) /\ row \in Row
    BY <1>1, NewRow DEF Store
  <2>2. Len(changes) \in Nat
    BY DEF TypeOK
  <2> HIDE DEF row
  <2>3. /\ pi' \in [Record -> Row \cup {None}]
        /\ changes' \in Seq(Change)
        /\ Len(changes') = Len(changes) + 1
    BY Zenon, <2>1, WriteType
  <2> QED
    BY <2>2, <2>3
<1>2. CASE pi[r] # None
  <2>1. Len(changes) \in Nat
    BY DEF TypeOK
  <2> QED
    BY <1>2, <2>1 DEF Store, TypeOK
<1> QED
  BY <1>1, <1>2

LEMMA PiRecordsType ==
  ASSUME TypeOK, NEW x, PiRecords(x)
  PROVE  TypeOK'
<1>1. x \in Delivery /\ x.rec \in Record /\ x.slot \in Slot /\ x.by \in Scout
  BY DEF PiRecords, TypeOK, Delivery
<1>2. pushed' \in SUBSET Delivery
  <2>1. [x EXCEPT !.stage = "keep"] \in Delivery
    BY <1>1 DEF Delivery
  <2> QED
    BY <2>1 DEF PiRecords, TypeOK
<1>3. /\ pi' \in [Record -> Row \cup {None}]
      /\ changes' \in Seq(Change)
      /\ Len(changes) <= Len(changes')
  <2>1. CASE UNCHANGED <<pi, changes>>
    <3>1. Len(changes) \in Nat
      BY DEF TypeOK
    <3> QED
      BY <2>1, <3>1 DEF TypeOK
  <2>2. CASE Store(x.rec, x.slot, x.by)
    BY <2>2, <1>1, StoreType
  <2> QED
    BY <2>1, <2>2 DEF PiRecords
<1> QED
  BY <1>2, <1>3, LongerLog DEF PiRecords, deviceVars, TypeOK

LEMMA PiKeepsRefusalType ==
  ASSUME TypeOK, NEW x, PiKeepsRefusal(x)
  PROVE  TypeOK'
<1>1. x \in Delivery /\ x.rec \in Record /\ x.by \in Scout
  BY DEF PiKeepsRefusal, TypeOK, Delivery
<1>2. pushed' \in SUBSET Delivery
  BY DEF PiKeepsRefusal, TypeOK
<1>3. refused' \in [Record -> Refusal \cup {None}]
  <2>1. [by |-> x.by, resolution |-> "open"] \in Refusal
    BY <1>1 DEF Refusal
  <2> QED
    BY <1>1, <2>1 DEF PiKeepsRefusal, TypeOK
<1>4. sync' \in [Device -> Sync] /\ \A e \in Device : sync'[e].upto <= Len(changes)
  <2>1. CASE sync' = sync
    BY <2>1 DEF TypeOK
  <2>2. CASE sync' # sync
    <3> DEFINE d == Maker[x.rec]
               S == sync[d].refusals \cup {x.rec}
               X == [sync[d] EXCEPT !.refusals = S]
    <3>1. sync' = [sync EXCEPT ![d] = X]
      BY <2>2 DEF PiKeepsRefusal
    <3>2. CASE d \in Device
      <4>1. sync[d] \in Sync /\ S \in SUBSET Record /\ sync[d].upto <= Len(changes)
        BY <1>1, <3>2 DEF TypeOK, Sync
      <4>2. X \in Sync /\ X.upto = sync[d].upto
        BY <4>1, SyncRefusals
      <4> HIDE DEF X
      <4> QED
        BY <3>1, <3>2, <4>1, <4>2, SyncMoves
    <3>3. CASE d \notin Device
      BY <2>2, <3>1, <3>3 DEF TypeOK
    <3> QED
      BY <3>2, <3>3
  <2> QED
    BY <2>1, <2>2
<1> QED
  BY <1>2, <1>3, <1>4 DEF PiKeepsRefusal, TypeOK, deviceVars

LEMMA SubmitFormType ==
  ASSUME TypeOK, NEW r \in Record, NEW s \in Slot, NEW by \in Scout, SubmitForm(r, s, by)
  PROVE  TypeOK'
  BY StoreType, LongerLog DEF SubmitForm, deviceVars, TypeOK

LEMMA ReviewType ==
  ASSUME TypeOK, NEW r \in Record, NEW verdict \in {"approved", "declined"}, Review(r, verdict)
  PROVE  TypeOK'
<1> DEFINE row == [pi[r] EXCEPT !.state = verdict]
<1>1. row \in Row /\ Write(r, row)
  BY DEF Review, TypeOK, Row
<1> HIDE DEF row
<1>2. Len(changes) \in Nat
  BY DEF TypeOK
<1>3. /\ pi' \in [Record -> Row \cup {None}]
      /\ changes' \in Seq(Change)
      /\ Len(changes') = Len(changes) + 1
  BY Zenon, <1>1, WriteType
<1> QED
  BY <1>2, <1>3, LongerLog DEF Review, deviceVars, TypeOK

LEMMA EditScheduleType ==
  ASSUME TypeOK, NEW s \in Slot, EditSchedule(s)
  PROVE  TypeOK'
  BY DEF EditSchedule, TypeOK, deviceVars, piVars

LEMMA LeadLoadsType ==
  ASSUME TypeOK, NEW r \in Record, NEW s \in Slot, LeadLoads(r, s)
  PROVE  TypeOK'
  BY DEF LeadLoads, TypeOK, deviceVars, piVars, LeadJob

LEMMA LeadRecordsType ==
  ASSUME TypeOK, NEW j, LeadRecords(j), refused[j.rec] # None
  PROVE  TypeOK'
<1>1. j \in LeadJob /\ j.rec \in Record /\ j.slot \in Slot
  BY DEF LeadRecords, TypeOK, LeadJob
<1>2. refused[j.rec].by \in Scout
  BY <1>1 DEF TypeOK, Refusal
<1>3. lead' \in SUBSET LeadJob
  <2>1. [j EXCEPT !.stage = "resolve"] \in LeadJob
    BY <1>1 DEF LeadJob
  <2> QED
    BY <2>1 DEF LeadRecords, TypeOK
<1>4. /\ pi' \in [Record -> Row \cup {None}]
      /\ changes' \in Seq(Change)
      /\ Len(changes) <= Len(changes')
  <2>1. CASE UNCHANGED <<pi, changes>>
    <3>1. Len(changes) \in Nat
      BY DEF TypeOK
    <3> QED
      BY <2>1, <3>1 DEF TypeOK
  <2>2. CASE Store(j.rec, j.slot, refused[j.rec].by)
    BY <2>2, <1>1, <1>2, StoreType
  <2> QED
    BY <2>1, <2>2 DEF LeadRecords
<1> QED
  BY <1>3, <1>4, LongerLog DEF LeadRecords, deviceVars, TypeOK

LEMMA LeadResolvesType ==
  ASSUME TypeOK, NEW j, LeadResolves(j), refused[j.rec] # None
  PROVE  TypeOK'
<1>1. j.rec \in Record
  BY DEF LeadResolves, TypeOK, LeadJob
<1>2. refused' \in [Record -> Refusal \cup {None}]
  BY <1>1 DEF LeadResolves, TypeOK, Refusal
<1> QED
  BY <1>2 DEF LeadResolves, TypeOK, deviceVars

LEMMA LeadStopsType ==
  ASSUME TypeOK, NEW j, LeadStops(j)
  PROVE  TypeOK'
  BY DEF LeadStops, TypeOK, deviceVars, piVars

LEMMA DismissType ==
  ASSUME TypeOK, NEW r \in Record, Dismiss(r)
  PROVE  TypeOK'
<1>1. refused' \in [Record -> Refusal \cup {None}]
  BY DEF Dismiss, Open, TypeOK, Refusal
<1> QED
  BY <1>1 DEF Dismiss, TypeOK, deviceVars
-----------------------------------------------------------------------------
(* The inductive invariant. *)

\* A receipt that says no has its refusal on the lead's list.
ReceiptsKept == \A d \in Device : \A r \in sync[d].refusals : refused[r] # None

\* What waits in a device's file waits in its memory too, or the Pi has it.
SavedWaits ==
    \A d \in Device, r \in Record :
        Waiting(disk[d].outbox[r]) =>
            Waiting(outbox[d][r]) \/ pi[r] # None \/ refused[r] # None

\* Every change in the log is about an observation the Pi has.
LoggedIsStored == \A i \in 1 .. Len(changes) : pi[changes[i].rec] # None

\* A lead at work has a refusal, and before resolving it, its observation.
LeadsHaveRefusals ==
    \A j \in lead : refused[j.rec] # None /\ (j.stage = "resolve" => pi[j.rec] # None)

IInv ==
    /\ TypeOK
    /\ ReceiptsKept
    /\ RefusedReachesLead
    /\ SavedWaits
    /\ LoggedIsStored
    /\ LeadsHaveRefusals
    /\ RecordedIsStored

LEMMA InitInv == Init => IInv
  BY InitType DEF IInv, Init, NoRows, Idle, Syncing, ReceiptsKept, RefusedReachesLead,
     SavedWaits, LoggedIsStored, LeadsHaveRefusals, RecordedIsStored

\* The device's own steps, which the Pi does not see.
LEMMA QueueInv ==
  ASSUME IInv, NEW d \in Device, NEW r \in Record, NEW s \in Slot, QueueObservation(d, r, s)
  PROVE  IInv'
<1>1. TypeOK'
  BY QueueType DEF IInv
<1>2. RefusedReachesLead' /\ SavedWaits'
  BY ConstantsAssumption DEF IInv, QueueObservation, TypeOK, Entry, RefusedReachesLead, SavedWaits, piVars
<1> QED
  BY <1>1, <1>2 DEF IInv, QueueObservation, ReceiptsKept, LoggedIsStored, LeadsHaveRefusals,
     RecordedIsStored, piVars

LEMMA DiscardInv ==
  ASSUME IInv, NEW d \in Device, NEW r \in Record, DiscardRefused(d, r)
  PROVE  IInv'
<1>1. TypeOK'
  BY DiscardType DEF IInv
<1>2. RefusedReachesLead' /\ SavedWaits'
  BY DEF IInv, DiscardRefused, TypeOK, RefusedReachesLead, SavedWaits, piVars
<1> QED
  BY <1>1, <1>2 DEF IInv, DiscardRefused, ReceiptsKept, LoggedIsStored, LeadsHaveRefusals,
     RecordedIsStored, piVars

LEMMA FlushInv ==
  ASSUME IInv, NEW d \in Device, Flush(d)
  PROVE  IInv'
<1>1. TypeOK'
  BY FlushType DEF IInv
<1>2. RefusedReachesLead' /\ SavedWaits'
  BY DEF IInv, Flush, InMemory, TypeOK, RefusedReachesLead, SavedWaits, piVars, deviceVars
<1> QED
  BY <1>1, <1>2 DEF IInv, Flush, ReceiptsKept, LoggedIsStored, LeadsHaveRefusals,
     RecordedIsStored, piVars

LEMMA SignInInv ==
  ASSUME IInv, NEW d \in Device, NEW who \in Scout, SignIn(d, who)
  PROVE  IInv'
<1>1. TypeOK'
  BY SignInType DEF IInv
<1> QED
  BY <1>1 DEF IInv, SignIn, ReceiptsKept, RefusedReachesLead, SavedWaits, LoggedIsStored,
     LeadsHaveRefusals, RecordedIsStored, deviceVars, piVars

LEMMA CrashInv ==
  ASSUME IInv, NEW d \in Device, Crash(d)
  PROVE  IInv'
<1>1. TypeOK'
  BY CrashType DEF IInv
<1>2. ReceiptsKept'
  BY DEF IInv, Crash, TypeOK, ReceiptsKept, Idle, Syncing, piVars
<1>3. RefusedReachesLead' /\ SavedWaits'
  BY DEF IInv, Crash, TypeOK, RefusedReachesLead, SavedWaits, piVars
<1> QED
  BY <1>1, <1>2, <1>3 DEF IInv, Crash, LoggedIsStored, LeadsHaveRefusals, RecordedIsStored, piVars

\* The device's side of a sync.
LEMMA SendPushInv ==
  ASSUME IInv, NEW d \in Device, SendPush(d)
  PROVE  IInv'
<1>1. TypeOK'
  BY SendPushType DEF IInv
<1>2. ReceiptsKept'
  BY DEF IInv, SendPush, PushBatch, TypeOK, ReceiptsKept, Syncing, piVars
<1> QED
  BY <1>1, <1>2 DEF IInv, SendPush, RefusedReachesLead, SavedWaits, LoggedIsStored,
     LeadsHaveRefusals, RecordedIsStored, deviceVars, piVars

LEMMA TakeReceiptsInv ==
  ASSUME IInv, NEW d \in Device, TakeReceipts(d)
  PROVE  IInv'
<1>1. TypeOK'
  BY TakeReceiptsType DEF IInv
<1>2. ReceiptsKept'
  BY DEF IInv, TakeReceipts, TypeOK, ReceiptsKept, Pulling, Syncing, piVars
<1>3. RefusedReachesLead'
  BY EntryRefused DEF IInv, TakeReceipts, TypeOK, ReceiptsKept, RefusedReachesLead, piVars
<1>4. SavedWaits'
  BY DEF IInv, TakeReceipts, TypeOK, ReceiptsKept, SavedWaits, piVars
<1> QED
  BY <1>1, <1>2, <1>3, <1>4 DEF IInv, TakeReceipts, LoggedIsStored, LeadsHaveRefusals,
     RecordedIsStored, piVars

LEMMA SendPullInv ==
  ASSUME IInv, NEW d \in Device, SendPull(d)
  PROVE  IInv'
<1>1. TypeOK'
  BY SendPullType DEF IInv
<1>2. ReceiptsKept'
  BY DEF IInv, SendPull, TypeOK, ReceiptsKept, Pulling, Syncing, piVars
<1> QED
  BY <1>1, <1>2 DEF IInv, SendPull, RefusedReachesLead, SavedWaits, LoggedIsStored,
     LeadsHaveRefusals, RecordedIsStored, deviceVars, piVars

LEMMA PiServesPullInv ==
  ASSUME IInv, NEW d \in Device, NEW upto \in cursor[d] .. PageEnd(d), PiServesPull(d, upto)
  PROVE  IInv'
<1>1. TypeOK'
  BY PiServesPullType DEF IInv
<1>2. ReceiptsKept'
  BY DEF IInv, PiServesPull, TypeOK, ReceiptsKept, Syncing, piVars
<1> QED
  BY <1>1, <1>2 DEF IInv, PiServesPull, RefusedReachesLead, SavedWaits, LoggedIsStored,
     LeadsHaveRefusals, RecordedIsStored, deviceVars, piVars

LEMMA ApplyPullInv ==
  ASSUME IInv, NEW d \in Device, ApplyPull(d)
  PROVE  IInv'
<1> DEFINE P == {i \in cursor[d] + 1 .. sync[d].upto : Visible(d, i)}
<1>1. TypeOK'
  BY ApplyPullType DEF IInv
<1>2. ReceiptsKept'
  BY DEF IInv, ApplyPull, TypeOK, ReceiptsKept, Idle, Pulling, Syncing, piVars
<1>3. outbox' = [outbox EXCEPT ![d] =
                   [r \in Record |-> IF r \in Echoed(d, P) THEN None ELSE @[r]]]
  BY DEF ApplyPull
<1>4. RefusedReachesLead'
  BY <1>3 DEF IInv, ApplyPull, TypeOK, RefusedReachesLead, piVars
<1>5. \A r \in Echoed(d, P) : pi[r] # None
  <2>1. P \subseteq 1 .. Len(changes)
    BY DEF IInv, TypeOK, Sync
  <2> QED
    BY <2>1 DEF Echoed, IInv, LoggedIsStored
<1>6. SavedWaits'
  BY <1>3, <1>5 DEF IInv, ApplyPull, TypeOK, SavedWaits, piVars
<1> QED
  BY <1>1, <1>2, <1>4, <1>6 DEF IInv, ApplyPull, LoggedIsStored, LeadsHaveRefusals,
     RecordedIsStored, piVars

LEMMA StopInv ==
  ASSUME IInv, NEW d \in Device, Stop(d)
  PROVE  IInv'
<1>1. TypeOK'
  BY StopType DEF IInv
<1>2. ReceiptsKept'
  BY DEF IInv, Stop, TypeOK, ReceiptsKept, Idle, Syncing, piVars
<1> QED
  BY <1>1, <1>2 DEF IInv, Stop, RefusedReachesLead, SavedWaits, LoggedIsStored,
     LeadsHaveRefusals, RecordedIsStored, deviceVars, piVars

\* The Pi's observations only grow, and the log with them.
LEMMA WriteKeeps ==
  ASSUME TypeOK, LoggedIsStored, NEW r \in Record, NEW row \in Row, Write(r, row)
  PROVE  /\ pi'[r] # None
         /\ \A q \in Record \ {r} : pi'[q] = pi[q]
         /\ LoggedIsStored'
<1>1. row # None
  BY ConstantsAssumption
<1>2. /\ pi' = [pi EXCEPT ![r] = row]
      /\ Len(changes') = Len(changes) + 1
      /\ \A i \in 1 .. Len(changes) : changes'[i] = changes[i]
      /\ changes'[Len(changes) + 1] = [rec |-> r, row |-> row]
  BY Zenon, WriteType
<1>3. pi'[r] = row /\ \A q \in Record \ {r} : pi'[q] = pi[q]
  BY <1>2 DEF TypeOK
<1>4. ASSUME NEW i \in 1 .. Len(changes')
      PROVE  pi'[changes'[i].rec] # None
  <2>1. Len(changes) \in Nat
    BY DEF TypeOK
  <2>2. CASE i \in 1 .. Len(changes)
    <3>1. changes'[i] = changes[i] /\ changes[i].rec \in Record
      <4>1. changes[i] \in Change
        BY <2>2 DEF TypeOK
      <4> QED
        BY <1>2, <2>2, <4>1 DEF Change
    <3>2. pi[changes[i].rec] # None
      BY <2>2 DEF LoggedIsStored
    <3> QED
      BY <1>1, <1>3, <3>1, <3>2
  <2>3. CASE i = Len(changes) + 1
    BY <1>1, <1>2, <1>3, <2>3
  <2> QED
    BY <1>2, <2>1, <2>2, <2>3
<1> QED
  BY <1>1, <1>3, <1>4 DEF LoggedIsStored

LEMMA StoreKeeps ==
  ASSUME TypeOK, LoggedIsStored, NEW r \in Record, NEW s \in Slot, NEW by \in Scout,
         Store(r, s, by)
  PROVE  /\ pi'[r] # None
         /\ \A q \in Record \ {r} : pi'[q] = pi[q]
         /\ LoggedIsStored'
<1>1. CASE pi[r] = None
  <2> DEFINE row == [slot |-> s, by |-> by, state |-> "pending"]
  <2>1. Write(r, row) /\ row \in Row
    BY <1>1, NewRow DEF Store
  <2> HIDE DEF row
  <2> QED
    BY Zenon, <2>1, WriteKeeps
<1>2. CASE pi[r] # None
  BY <1>2 DEF Store, LoggedIsStored
<1> QED
  BY <1>1, <1>2

\* The Pi's steps.
LEMMA PiRecordsInv ==
  ASSUME IInv, NEW x, PiRecords(x)
  PROVE  IInv'
<1>1. TypeOK'
  BY PiRecordsType DEF IInv
<1>2. x.rec \in Record /\ x.slot \in Slot /\ x.by \in Scout
  BY DEF IInv, PiRecords, TypeOK, Delivery
<1>3. LoggedIsStored' /\ \A q \in Record : pi[q] # None => pi'[q] # None
  <2>1. CASE UNCHANGED <<pi, changes>>
    BY <2>1 DEF IInv, LoggedIsStored
  <2>2. CASE Store(x.rec, x.slot, x.by)
    BY <1>2, <2>2, StoreKeeps DEF IInv
  <2> QED
    BY <2>1, <2>2 DEF PiRecords
<1>4. ReceiptsKept' /\ RefusedReachesLead'
  BY DEF IInv, PiRecords, ReceiptsKept, RefusedReachesLead, deviceVars
<1>5. SavedWaits'
  BY <1>3 DEF IInv, PiRecords, SavedWaits, deviceVars
<1>6. LeadsHaveRefusals' /\ RecordedIsStored'
  BY <1>3 DEF IInv, PiRecords, TypeOK, LeadJob, LeadsHaveRefusals, RecordedIsStored
<1> QED
  BY <1>1, <1>3, <1>4, <1>5, <1>6 DEF IInv

LEMMA PiKeepsRefusalInv ==
  ASSUME IInv, NEW x, PiKeepsRefusal(x)
  PROVE  IInv'
<1>1. TypeOK'
  BY PiKeepsRefusalType DEF IInv
<1>2. x.rec \in Record /\ x.by \in Scout
  BY DEF IInv, PiKeepsRefusal, TypeOK, Delivery
<1>3. /\ refused'[x.rec] # None
      /\ \A q \in Record : refused[q] # None => refused'[q] = refused[q]
      /\ refused[x.rec] = None => refused'[x.rec].resolution = "open"
      /\ \A q \in Record \ {x.rec} : refused'[q] = refused[q]
  <2> DEFINE new == [by |-> x.by, resolution |-> "open"]
  <2>1. new \in Refusal /\ new.resolution = "open"
    BY <1>2 DEF Refusal
  <2>2. new # None
    BY <2>1, ConstantsAssumption
  <2>3. refused' = [refused EXCEPT ![x.rec] = IF @ = None THEN new ELSE @]
    BY DEF PiKeepsRefusal
  <2> HIDE DEF new
  <2> QED
    BY <1>2, <2>1, <2>2, <2>3 DEF IInv, TypeOK
<1>4. ReceiptsKept'
  <2>1. ASSUME NEW d \in Device, NEW r \in sync'[d].refusals
        PROVE  r \in sync[d].refusals \/ r = x.rec
    BY <2>1 DEF IInv, PiKeepsRefusal, TypeOK, Sync
  <2>2. \A d \in Device : sync[d].refusals \subseteq Record
    BY DEF IInv, TypeOK, Sync
  <2> QED
    BY <1>3, <2>1, <2>2 DEF IInv, ReceiptsKept
<1>5. RefusedReachesLead' /\ SavedWaits'
  BY <1>3 DEF IInv, PiKeepsRefusal, RefusedReachesLead, SavedWaits, deviceVars
<1>6. LeadsHaveRefusals'
  BY <1>3 DEF IInv, PiKeepsRefusal, TypeOK, LeadJob, LeadsHaveRefusals
<1>7. RecordedIsStored'
  BY <1>2, <1>3 DEF IInv, PiKeepsRefusal, RecordedIsStored
<1>8. LoggedIsStored'
  BY DEF IInv, PiKeepsRefusal, LoggedIsStored
<1> QED
  BY <1>1, <1>4, <1>5, <1>6, <1>7, <1>8 DEF IInv

LEMMA SubmitFormInv ==
  ASSUME IInv, NEW r \in Record, NEW s \in Slot, NEW by \in Scout, SubmitForm(r, s, by)
  PROVE  IInv'
<1>1. TypeOK'
  BY SubmitFormType DEF IInv
<1>2. LoggedIsStored' /\ \A q \in Record : pi[q] # None => pi'[q] # None
  BY StoreKeeps DEF IInv, SubmitForm
<1>3. ReceiptsKept' /\ RefusedReachesLead'
  BY DEF IInv, SubmitForm, ReceiptsKept, RefusedReachesLead, deviceVars
<1>4. SavedWaits'
  BY <1>2 DEF IInv, SubmitForm, SavedWaits, deviceVars
<1>5. LeadsHaveRefusals' /\ RecordedIsStored'
  BY <1>2 DEF IInv, SubmitForm, TypeOK, LeadJob, LeadsHaveRefusals, RecordedIsStored
<1> QED
  BY <1>1, <1>2, <1>3, <1>4, <1>5 DEF IInv

LEMMA ReviewInv ==
  ASSUME IInv, NEW r \in Record, NEW verdict \in {"approved", "declined"}, Review(r, verdict)
  PROVE  IInv'
<1>1. TypeOK'
  BY ReviewType DEF IInv
<1>2. LoggedIsStored' /\ \A q \in Record : pi[q] # None => pi'[q] # None
  <2> DEFINE row == [pi[r] EXCEPT !.state = verdict]
  <2>1. row \in Row /\ Write(r, row)
    BY DEF IInv, Review, TypeOK, Row
  <2> HIDE DEF row
  <2>2. /\ pi'[r] # None
        /\ \A q \in Record \ {r} : pi'[q] = pi[q]
        /\ LoggedIsStored'
    BY Zenon, <2>1, WriteKeeps DEF IInv
  <2> QED
    BY <2>2
<1>3. ReceiptsKept' /\ RefusedReachesLead'
  BY DEF IInv, Review, ReceiptsKept, RefusedReachesLead, deviceVars
<1>4. SavedWaits'
  BY <1>2 DEF IInv, Review, SavedWaits, deviceVars
<1>5. LeadsHaveRefusals' /\ RecordedIsStored'
  BY <1>2 DEF IInv, Review, TypeOK, LeadJob, LeadsHaveRefusals, RecordedIsStored
<1> QED
  BY <1>1, <1>2, <1>3, <1>4, <1>5 DEF IInv

LEMMA EditScheduleInv ==
  ASSUME IInv, NEW s \in Slot, EditSchedule(s)
  PROVE  IInv'
<1>1. TypeOK'
  BY EditScheduleType DEF IInv
<1> QED
  BY <1>1 DEF IInv, EditSchedule, ReceiptsKept, RefusedReachesLead, SavedWaits, LoggedIsStored,
     LeadsHaveRefusals, RecordedIsStored, deviceVars, piVars

\* The leads' steps.
LEMMA LeadLoadsInv ==
  ASSUME IInv, NEW r \in Record, NEW s \in Slot, LeadLoads(r, s)
  PROVE  IInv'
<1>1. TypeOK'
  BY LeadLoadsType DEF IInv
<1>2. LeadsHaveRefusals'
  BY DEF IInv, LeadLoads, Open, LeadsHaveRefusals, piVars
<1> QED
  BY <1>1, <1>2 DEF IInv, LeadLoads, ReceiptsKept, RefusedReachesLead, SavedWaits,
     LoggedIsStored, RecordedIsStored, deviceVars, piVars

LEMMA LeadRecordsInv ==
  ASSUME IInv, NEW j, LeadRecords(j)
  PROVE  IInv'
<1>1. /\ j \in lead /\ j.rec \in Record /\ j.slot \in Slot
      /\ refused[j.rec] # None /\ refused[j.rec].by \in Scout
  BY DEF IInv, LeadRecords, TypeOK, LeadJob, LeadsHaveRefusals, Refusal
<1>2. TypeOK'
  BY <1>1, LeadRecordsType DEF IInv
<1>3. LoggedIsStored' /\ \A q \in Record : pi[q] # None => pi'[q] # None
  <2>1. CASE UNCHANGED <<pi, changes>>
    BY <2>1 DEF IInv, LoggedIsStored
  <2>2. CASE Store(j.rec, j.slot, refused[j.rec].by)
    BY <1>1, <2>2, StoreKeeps DEF IInv
  <2> QED
    BY <2>1, <2>2 DEF LeadRecords
<1>4. ReceiptsKept' /\ RefusedReachesLead'
  BY DEF IInv, LeadRecords, ReceiptsKept, RefusedReachesLead, deviceVars
<1>5. SavedWaits'
  BY <1>3 DEF IInv, LeadRecords, SavedWaits, deviceVars
<1>6. LeadsHaveRefusals'
  <2>1. CASE lead' = lead \ {j}
    BY <1>3, <2>1 DEF IInv, LeadRecords, TypeOK, LeadJob, LeadsHaveRefusals
  <2>2. CASE Store(j.rec, j.slot, refused[j.rec].by)
                /\ lead' = (lead \ {j}) \cup {[j EXCEPT !.stage = "resolve"]}
    <3>1. pi'[j.rec] # None
      BY <1>1, <2>2, StoreKeeps DEF IInv
    <3>2. [j EXCEPT !.stage = "resolve"].rec = j.rec
      BY <1>1 DEF IInv, TypeOK, LeadJob
    <3> QED
      BY <1>1, <1>3, <2>2, <3>1, <3>2 DEF IInv, LeadRecords, TypeOK, LeadJob, LeadsHaveRefusals
  <2> QED
    BY <2>1, <2>2 DEF LeadRecords
<1>7. RecordedIsStored'
  BY <1>3 DEF IInv, LeadRecords, RecordedIsStored
<1> QED
  BY <1>2, <1>3, <1>4, <1>5, <1>6, <1>7 DEF IInv

LEMMA LeadResolvesKeeps ==
  ASSUME IInv, NEW j, LeadResolves(j), j.rec \in Record, refused[j.rec] # None
  PROVE  \A q \in Record : refused[q] # None => refused'[q] # None
<1> DEFINE new == [refused[j.rec] EXCEPT !.resolution = IF @ = "open" THEN "recorded" ELSE @]
<1>1. new \in Refusal
  BY DEF IInv, TypeOK, Refusal
<1>2. refused' = [refused EXCEPT ![j.rec] = new]
  BY DEF LeadResolves
<1> HIDE DEF new
<1> QED
  BY <1>1, <1>2, ConstantsAssumption DEF IInv, TypeOK

LEMMA LeadResolvesInv ==
  ASSUME IInv, NEW j, LeadResolves(j)
  PROVE  IInv'
<1>1. j.rec \in Record /\ refused[j.rec] # None /\ pi[j.rec] # None
  <2>1. j \in lead /\ j \in LeadJob /\ j.stage = "resolve"
    BY DEF IInv, LeadResolves, TypeOK
  <2> QED
    BY <2>1 DEF IInv, LeadJob, LeadsHaveRefusals
<1>2. TypeOK'
  BY <1>1, LeadResolvesType DEF IInv
<1>3. \A q \in Record : refused[q] # None => refused'[q] # None
  BY <1>1, LeadResolvesKeeps
<1>4. ReceiptsKept'
  BY <1>3 DEF IInv, LeadResolves, TypeOK, Sync, ReceiptsKept
<1>5. RefusedReachesLead' /\ SavedWaits' /\ LoggedIsStored'
  BY <1>3 DEF IInv, LeadResolves, RefusedReachesLead, SavedWaits, LoggedIsStored, deviceVars
<1>6. LeadsHaveRefusals'
  BY <1>3 DEF IInv, LeadResolves, TypeOK, LeadJob, LeadsHaveRefusals
<1>7. RecordedIsStored'
  BY <1>1 DEF IInv, LeadResolves, TypeOK, RecordedIsStored
<1> QED
  BY <1>2, <1>4, <1>5, <1>6, <1>7 DEF IInv

LEMMA LeadStopsInv ==
  ASSUME IInv, NEW j, LeadStops(j)
  PROVE  IInv'
<1>1. TypeOK'
  BY LeadStopsType DEF IInv
<1> QED
  BY <1>1 DEF IInv, LeadStops, ReceiptsKept, RefusedReachesLead, SavedWaits, LoggedIsStored,
     LeadsHaveRefusals, RecordedIsStored, deviceVars, piVars

LEMMA DismissInv ==
  ASSUME IInv, NEW r \in Record, Dismiss(r)
  PROVE  IInv'
<1>1. TypeOK'
  BY DismissType DEF IInv
<1>2. \A q \in Record : refused[q] # None => refused'[q] # None
  BY <1>1, ConstantsAssumption DEF IInv, Dismiss, Open, TypeOK, Refusal
<1>3. ReceiptsKept'
  BY <1>2 DEF IInv, Dismiss, TypeOK, Sync, ReceiptsKept
<1>4. RefusedReachesLead' /\ SavedWaits' /\ LoggedIsStored'
  BY <1>2 DEF IInv, Dismiss, RefusedReachesLead, SavedWaits, LoggedIsStored, deviceVars
<1>5. LeadsHaveRefusals'
  BY <1>2 DEF IInv, Dismiss, TypeOK, LeadJob, LeadsHaveRefusals
<1>6. RecordedIsStored'
  BY DEF IInv, Dismiss, Open, TypeOK, RecordedIsStored
<1> QED
  BY <1>1, <1>3, <1>4, <1>5, <1>6 DEF IInv

LEMMA DeviceInv ==
  ASSUME IInv, NEW d \in Device, DeviceStep(d)
  PROVE  IInv'
  BY QueueInv, DiscardInv, FlushInv, CrashInv, SignInInv, SendPushInv, TakeReceiptsInv,
     SendPullInv, ApplyPullInv, StopInv, PiServesPullInv DEF DeviceStep

LEMMA PiInv ==
  ASSUME IInv, PiStep
  PROVE  IInv'
  BY PiRecordsInv, PiKeepsRefusalInv, SubmitFormInv, ReviewInv, EditScheduleInv, LeadLoadsInv,
     LeadRecordsInv, LeadResolvesInv, LeadStopsInv, DismissInv DEF PiStep

LEMMA StutterInv == IInv /\ UNCHANGED vars => IInv'
  BY DEF vars, deviceVars, piVars, IInv, TypeOK, ReceiptsKept, RefusedReachesLead, SavedWaits,
     LoggedIsStored, LeadsHaveRefusals, RecordedIsStored

\* The inductive invariant holds of every behaviour: types, and where each
\* form, receipt and refusal on its way between device and Pi can be found.
THEOREM Invariant == Spec => []IInv
<1>1. IInv /\ [Next]_vars => IInv'
  BY DeviceInv, PiInv, StutterInv DEF Next
<1> QED
  BY InitInv, <1>1, PTL DEF Spec

\* In every behaviour the variables keep their types, and cursors and pages
\* stay within the Pi's log.
THEOREM TypeCorrect == Spec => []TypeOK
<1>1. IInv => TypeOK
  BY DEF IInv
<1> QED
  BY Invariant, <1>1, PTL

\* A refusal a device knows of is on the lead scouts' list, on any number of
\* devices, whatever is lost on the way.
THEOREM RefusalsReachLead == Spec => []RefusedReachesLead
<1>1. IInv => RefusedReachesLead
  BY DEF IInv
<1> QED
  BY Invariant, <1>1, PTL

\* A refusal marked recorded has its observation, however many leads work on it.
THEOREM RecordedHaveObservations == Spec => []RecordedIsStored
<1>1. IInv => RecordedIsStored
  BY DEF IInv
<1> QED
  BY Invariant, <1>1, PTL

-----------------------------------------------------------------------------
(* OutboxSync implements Custody. *)

\* What Custodian is made of: the Pi has a record, or a device's file does.
OnPi(r)   == pi[r] # None \/ refused[r] # None
OnDisk(r) == \E d \in Device : Waiting(disk[d].outbox[r])

LEMMA CustodianIs ==
  ASSUME NEW r \in Record
  PROVE  /\ Custodian[r] = "pi" <=> OnPi(r)
         /\ Custodian[r] = "device" <=> ~OnPi(r) /\ OnDisk(r)
         /\ Custodian[r] = "nobody" <=> ~OnPi(r) /\ ~OnDisk(r)
  BY DEF Custodian, OnPi, OnDisk

LEMMA InitCustody == Init => C!Init
  BY DEF Init, NoRows, C!Init, Custodian

\* Steps that leave the files and the Pi alone do not change hands.
LEMMA SameHands ==
  UNCHANGED <<disk, pi, refused>> => UNCHANGED Custodian
  BY DEF Custodian

\* A save takes in what waits in memory and was nobody's; what it takes out of
\* the file the Pi has.
LEMMA FlushCustody ==
  ASSUME IInv, NEW d \in Device, Flush(d)
  PROVE  \E S \in SUBSET Record : C!TakeIn(S)
<1> DEFINE S == {r \in Record : Custodian[r] = "nobody" /\ Waiting(outbox[d][r])}
<1>1. \A r \in Record : (OnPi(r))' <=> OnPi(r)
  BY DEF Flush, OnPi, piVars
<1>2. \A r \in Record : (OnDisk(r))' <=>
          \/ Waiting(outbox[d][r])
          \/ \E e \in Device \ {d} : Waiting(disk[e].outbox[r])
  BY DEF IInv, TypeOK, Flush, InMemory, OnDisk
<1>3. \A r \in Record : OnDisk(r) /\ ~OnPi(r) => (OnDisk(r))'
  BY <1>2 DEF IInv, SavedWaits, OnDisk, OnPi
<1>4. ASSUME NEW r \in Record
      PROVE  Custodian'[r] = IF r \in S THEN "device" ELSE Custodian[r]
  <2>1. /\ Custodian[r] = IF OnPi(r) THEN "pi" ELSE IF OnDisk(r) THEN "device" ELSE "nobody"
        /\ Custodian'[r] = IF (OnPi(r))' THEN "pi"
                           ELSE IF (OnDisk(r))' THEN "device" ELSE "nobody"
    BY DEF Custodian, OnPi, OnDisk
  <2>2. (OnDisk(r))' => OnDisk(r) \/ Waiting(outbox[d][r])
    BY <1>2 DEF OnDisk
  <2>3. Waiting(outbox[d][r]) => (OnDisk(r))'
    BY <1>2
  <2> QED
    BY <1>1, <1>3, <2>1, <2>2, <2>3
<1>5. Custodian' = [r \in Record |-> IF r \in S THEN "device" ELSE Custodian[r]]
  BY <1>4 DEF Custodian
<1>6. C!TakeIn(S)
  BY <1>5 DEF C!TakeIn
<1> QED
  BY <1>6

\* When the Pi comes to have one more record, it has been handed over.
LEMMA OneHandedOver ==
  ASSUME NEW r \in Record, UNCHANGED disk, OnPi(r) => (OnPi(r))',
         \A q \in Record \ {r} : (OnPi(q))' <=> OnPi(q)
  PROVE  C!HandOver(r) \/ UNCHANGED Custodian
<1>1. \A q \in Record : (OnDisk(q))' <=> OnDisk(q)
  BY DEF OnDisk
<1>2. \A q \in Record :
        /\ Custodian[q] = IF OnPi(q) THEN "pi" ELSE IF OnDisk(q) THEN "device" ELSE "nobody"
        /\ Custodian'[q] = IF (OnPi(q))' THEN "pi"
                           ELSE IF (OnDisk(q))' THEN "device" ELSE "nobody"
  BY DEF Custodian, OnPi, OnDisk
<1>3. Custodian = [q \in Record |-> Custodian[q]] /\ Custodian' = [q \in Record |-> Custodian'[q]]
  BY DEF Custodian
<1>4. CASE (OnPi(r))' /\ ~OnPi(r)
  <2>1. Custodian[r] # "pi" /\ Custodian'[r] = "pi"
    BY <1>2, <1>4
  <2>2. \A q \in Record \ {r} : Custodian'[q] = Custodian[q]
    BY <1>1, <1>2
  <2> QED
    BY <1>3, <2>1, <2>2 DEF C!HandOver
<1>5. CASE (OnPi(r))' <=> OnPi(r)
  <2>1. \A q \in Record : Custodian'[q] = Custodian[q]
    BY <1>1, <1>2, <1>5
  <2> QED
    BY <1>3, <2>1
<1> QED
  BY <1>4, <1>5

LEMMA DeviceCustody ==
  ASSUME IInv, NEW d \in Device, DeviceStep(d)
  PROVE  [C!Next]_Custodian
<1>1. CASE Flush(d)
  BY <1>1, FlushCustody DEF C!Next
<1>2. CASE UNCHANGED <<disk, pi, refused>>
  BY <1>2, SameHands
<1>3. Flush(d) \/ UNCHANGED <<disk, pi, refused>>
  BY DEF DeviceStep, QueueObservation, DiscardRefused, Crash, SignIn, SendPush, TakeReceipts,
     SendPull, ApplyPull, Stop, PiServesPull, piVars, deviceVars
<1> QED
  BY <1>1, <1>2, <1>3

LEMMA PiCustody ==
  ASSUME IInv, PiStep
  PROVE  [C!Next]_Custodian
<1>1. ASSUME NEW x \in pushed, PiRecords(x) PROVE [C!Next]_Custodian
  <2>1. x.rec \in Record /\ x.slot \in Slot /\ x.by \in Scout
    BY DEF IInv, TypeOK, Delivery
  <2>2. UNCHANGED <<disk, refused>>
    BY <1>1 DEF PiRecords
  <2>3. CASE UNCHANGED pi
    BY <2>2, <2>3, SameHands
  <2>4. CASE Store(x.rec, x.slot, x.by)
    <3>1. pi'[x.rec] # None /\ \A q \in Record \ {x.rec} : pi'[q] = pi[q]
      BY <2>1, <2>4, StoreKeeps DEF IInv
    <3> QED
      BY <2>1, <2>2, <3>1, OneHandedOver DEF OnPi, C!Next
  <2> QED
    BY <1>1, <2>3, <2>4 DEF PiRecords
<1>2. ASSUME NEW x \in pushed, PiKeepsRefusal(x) PROVE [C!Next]_Custodian
  <2>1. x.rec \in Record /\ x.by \in Scout
    BY DEF IInv, TypeOK, Delivery
  <2>2. UNCHANGED <<disk, pi>> /\ \A q \in Record \ {x.rec} : refused'[q] = refused[q]
    BY <1>2 DEF PiKeepsRefusal, IInv, TypeOK, deviceVars
  <2>3. refused'[x.rec] # None
    <3>1. [by |-> x.by, resolution |-> "open"] # None
      BY <2>1, ConstantsAssumption DEF Refusal
    <3> QED
      BY <1>2, <2>1, <3>1 DEF PiKeepsRefusal, IInv, TypeOK
  <2> QED
    BY <2>1, <2>2, <2>3, OneHandedOver DEF OnPi, C!Next
<1>3. ASSUME NEW r \in Record, NEW s \in Slot, NEW by \in Scout, SubmitForm(r, s, by)
      PROVE  [C!Next]_Custodian
  <2>1. pi'[r] # None /\ \A q \in Record \ {r} : pi'[q] = pi[q]
    BY <1>3, StoreKeeps DEF SubmitForm, IInv
  <2>2. UNCHANGED <<disk, refused>>
    BY <1>3 DEF SubmitForm
  <2> QED
    BY <2>1, <2>2, OneHandedOver DEF OnPi, C!Next
<1>4. ASSUME NEW r \in Record, NEW verdict \in {"approved", "declined"}, Review(r, verdict)
      PROVE  [C!Next]_Custodian
  <2> DEFINE row == [pi[r] EXCEPT !.state = verdict]
  <2>1. row \in Row /\ Write(r, row)
    BY <1>4 DEF IInv, Review, TypeOK, Row
  <2> HIDE DEF row
  <2>2. pi'[r] # None /\ \A q \in Record \ {r} : pi'[q] = pi[q]
    BY Zenon, <2>1, WriteKeeps DEF IInv
  <2>3. UNCHANGED <<disk, refused>>
    BY <1>4 DEF Review
  <2> QED
    BY <2>2, <2>3, OneHandedOver DEF OnPi, C!Next
<1>5. ASSUME NEW j \in lead, LeadRecords(j) PROVE [C!Next]_Custodian
  <2>1. j.rec \in Record /\ j.slot \in Slot /\ refused[j.rec] # None /\ refused[j.rec].by \in Scout
    BY DEF IInv, TypeOK, LeadJob, LeadsHaveRefusals, Refusal
  <2>2. UNCHANGED <<disk, refused>>
    BY <1>5 DEF LeadRecords
  <2>3. CASE UNCHANGED pi
    BY <2>2, <2>3, SameHands
  <2>4. CASE Store(j.rec, j.slot, refused[j.rec].by)
    <3>1. pi'[j.rec] # None /\ \A q \in Record \ {j.rec} : pi'[q] = pi[q]
      BY <2>1, <2>4, StoreKeeps DEF IInv
    <3> QED
      BY <2>1, <2>2, <3>1, OneHandedOver DEF OnPi, C!Next
  <2> QED
    BY <1>5, <2>3, <2>4 DEF LeadRecords
<1>6. ASSUME NEW j \in lead, LeadResolves(j) PROVE [C!Next]_Custodian
  <2>1. j.rec \in Record /\ refused[j.rec] # None
    BY DEF IInv, TypeOK, LeadJob, LeadsHaveRefusals
  <2>2. UNCHANGED <<disk, pi>> /\ \A q \in Record \ {j.rec} : refused'[q] = refused[q]
    BY <1>6 DEF LeadResolves, IInv, TypeOK, deviceVars
  <2>3. IInv'
    BY <1>6, LeadResolvesInv
  <2>4. refused'[j.rec] # None
    BY <1>6, <2>1, LeadResolvesKeeps
  <2> QED
    BY <2>1, <2>2, <2>4, OneHandedOver DEF OnPi, C!Next
<1>7. ASSUME NEW r \in Record, Dismiss(r) PROVE [C!Next]_Custodian
  <2>1. UNCHANGED <<disk, pi>> /\ \A q \in Record \ {r} : refused'[q] = refused[q]
    BY <1>7 DEF Dismiss, IInv, TypeOK, deviceVars
  <2>2. refused'[r] # None
    BY <1>7, DismissType, ConstantsAssumption DEF IInv, Dismiss, Open, TypeOK, Refusal
  <2> QED
    BY <2>1, <2>2, OneHandedOver DEF OnPi, C!Next
<1>8. CASE UNCHANGED <<disk, pi, refused>>
  BY <1>8, SameHands
<1> QED
  BY <1>1, <1>2, <1>3, <1>4, <1>5, <1>6, <1>7, <1>8
  DEF PiStep, EditSchedule, LeadLoads, LeadStops, piVars

\* Whatever the network, the schedule and the leads do, and on any number of
\* devices: a form a device has saved stays in a file, waiting, until the Pi has
\* it as an observation or as a refusal, and the Pi never loses either.
THEOREM Implements == Spec => NothingLost
<1>1. IInv /\ [Next]_vars => [C!Next]_Custodian
  <2>1. CASE UNCHANGED vars
    BY <2>1, SameHands DEF vars, piVars
  <2> QED
    BY <2>1, DeviceCustody, PiCustody DEF Next
<1> QED
  BY Invariant, InitCustody, <1>1, PTL DEF Spec, NothingLost, C!Safety

-----------------------------------------------------------------------------
(* What a device's tables are to the Pi's: one live observation per scout    *)
(* and robot on both, and a device's rows the log's up to its cursor and its *)
(* own that wait.                                                            *)

-----------------------------------------------------------------------------
(* Positions in a log. *)

\* Of the first n changes, i is the last one about its record.
LastAt(log, n, i) == i \in 1 .. n /\ \A j \in 1 .. n : j > i => log[j].rec # log[i].rec

\* The last of the changes in positions P that is about r.
LastIn(log, P, r) == CHOOSE i \in P : /\ log[i].rec = r
                                      /\ \A j \in P : log[j].rec = r => j <= i

\* The row that the changes of slots S among the first n leave of r.
Told(log, S, n, r) ==
    LET P == {i \in 1 .. n : log[i].row.slot \in S}
    IN  IF \E i \in P : log[i].rec = r THEN log[LastIn(log, P, r)].row ELSE None

LEMMA LastInIs ==
  ASSUME NEW log, NEW n \in Nat, NEW P \in SUBSET (1 .. n), NEW r, \E i \in P : log[i].rec = r
  PROVE  /\ LastIn(log, P, r) \in P
         /\ log[LastIn(log, P, r)].rec = r
         /\ \A j \in P : log[j].rec = r => j <= LastIn(log, P, r)
<1> DEFINE S == {i \in P : log[i].rec = r}
<1>1. S \in SUBSET (1 .. n) /\ S # {}
  BY Zenon
<1>2. PICK i \in S : \A j \in S : j <= i
  <2> HIDE DEF S
  <2> QED BY <1>1, Last
<1> QED BY <1>2 DEF LastIn

\* A record that the first n changes mention has a last change among them.
LEMMA HasLast ==
  ASSUME NEW log, NEW n \in Nat, NEW i \in 1 .. n
  PROVE  \E k \in 1 .. n : LastAt(log, n, k) /\ log[k].rec = log[i].rec /\ i <= k
<1> DEFINE k == LastIn(log, 1 .. n, log[i].rec)
<1>1. k \in 1 .. n /\ log[k].rec = log[i].rec /\ \A j \in 1 .. n : log[j].rec = log[i].rec => j <= k
  <2>1. \E j \in 1 .. n : log[j].rec = log[i].rec
    OBVIOUS
  <2> DEFINE P == 1 .. n
  <2>2. P \in SUBSET (1 .. n) /\ \E j \in P : log[j].rec = log[i].rec
    BY <2>1
  <2> HIDE DEF P
  <2>3. /\ LastIn(log, P, log[i].rec) \in P
        /\ log[LastIn(log, P, log[i].rec)].rec = log[i].rec
        /\ \A j \in P : log[j].rec = log[i].rec => j <= LastIn(log, P, log[i].rec)
    BY <2>2, LastInIs
  <2> QED BY <2>3 DEF P
<1> HIDE DEF k
<1>2. LastAt(log, n, k)
  BY <1>1 DEF LastAt
<1> QED BY <1>1, <1>2

LEMMA OneLast ==
  ASSUME NEW log, NEW n \in Nat, NEW i, NEW j, LastAt(log, n, i), LastAt(log, n, j),
         log[i].rec = log[j].rec
  PROVE  i = j
  BY DEF LastAt

-----------------------------------------------------------------------------
(* The log of the Pi's observations. *)

\* What a record's changes are about never changes.
SameForm(log) ==
    \A i, j \in 1 .. Len(log) :
        log[i].rec = log[j].rec =>
            log[i].row.slot = log[j].row.slot /\ log[i].row.by = log[j].row.by

\* At every point of the log, a scout has one live observation of a robot.
LogOnce(log) ==
    \A n \in 1 .. Len(log) : \A i, j \in 1 .. n :
        /\ LastAt(log, n, i) /\ LastAt(log, n, j)
        /\ Live(log[i].row) /\ Covers(log[j].row, log[i].row.slot, log[i].row.by)
        => i = j

\* The log's last word on each observation is the observation.
LogIsPi ==
    \A r \in Record : pi[r] # None =>
        \E k \in 1 .. Len(changes) :
            LastAt(changes, Len(changes), k) /\ changes[k].rec = r /\ changes[k].row = pi[r]

OneLive(table) ==
    \A r, q \in Record : Live(table[r]) /\ Covers(table[q], table[r].slot, table[r].by) => r = q

LogInv == SameForm(changes) /\ LogOnce(changes) /\ LogIsPi /\ OneLive(pi)

\* A change is about a record, and has a row.
LEMMA ChangeIs ==
  ASSUME NEW log \in Seq(Change), NEW i \in 1 .. Len(log)
  PROVE  log[i].rec \in Record /\ log[i].row \in Row /\ log[i].row # None
<1>1. log[i] \in Change
  OBVIOUS
<1> QED BY <1>1, ConstantsAssumption DEF Change

LEMMA InitLog == Init => LogInv
  BY DEF Init, NoRows, LogInv, SameForm, LogOnce, LogIsPi, OneLive, Covers

\* A row written anew, or in the place of one of the same form, where nobody
\* else's live row stands.
LEMMA WriteLog ==
  ASSUME TypeOK, LoggedIsStored, LogInv, NEW r \in Record, NEW row \in Row, Write(r, row),
         pi[r] # None => row.slot = pi[r].slot /\ row.by = pi[r].by,
         Live(row) => \A q \in Record \ {r} : ~Covers(pi[q], row.slot, row.by)
  PROVE  LogInv'
<1> DEFINE N == Len(changes)
<1>1. N \in Nat /\ changes \in Seq(Change) /\ pi \in [Record -> Row \cup {None}]
  BY DEF TypeOK
<1>2. /\ changes' \in Seq(Change)
      /\ Len(changes') = N + 1
      /\ \A i \in 1 .. N : changes'[i] = changes[i]
      /\ changes'[N + 1] = [rec |-> r, row |-> row]
      /\ pi' = [pi EXCEPT ![r] = row]
  BY Zenon, WriteType
<1>3. changes'[N + 1].rec = r /\ changes'[N + 1].row = row
  BY <1>2
<1>4. pi'[r] = row /\ \A q \in Record \ {r} : pi'[q] = pi[q]
  BY <1>1, <1>2
<1>5. row # None
  BY ConstantsAssumption
<1>6. \A i \in 1 .. N : changes[i].rec \in Record /\ changes[i].row \in Row /\ changes[i].row # None
  BY <1>1, ChangeIs
\* The last changes as they were are those of the Pi's rows.
<1>7. ASSUME NEW i \in 1 .. N
      PROVE  /\ pi[changes[i].rec] # None
             /\ changes[i].row.slot = pi[changes[i].rec].slot
             /\ changes[i].row.by = pi[changes[i].rec].by
             /\ LastAt(changes, N, i) => changes[i].row = pi[changes[i].rec]
  <2>1. pi[changes[i].rec] # None /\ changes[i].rec \in Record
    BY <1>6 DEF LoggedIsStored
  <2>2. PICK k \in 1 .. N : LastAt(changes, N, k) /\ changes[k].rec = changes[i].rec
                            /\ changes[k].row = pi[changes[i].rec]
    BY <2>1 DEF LogInv, LogIsPi
  <2>3. LastAt(changes, N, i) => i = k
    BY <1>1, <2>2, OneLast
  <2> QED BY <2>1, <2>2, <2>3 DEF LogInv, SameForm
<1>8. SameForm(changes')
  <2> SUFFICES ASSUME NEW i \in 1 .. N + 1, NEW j \in 1 .. N + 1, changes'[i].rec = changes'[j].rec
               PROVE  /\ changes'[i].row.slot = changes'[j].row.slot
                      /\ changes'[i].row.by = changes'[j].row.by
    BY <1>2 DEF SameForm
  <2>1. CASE i \in 1 .. N /\ j \in 1 .. N
    BY <1>2, <2>1 DEF LogInv, SameForm
  <2>2. CASE i = N + 1 /\ j \in 1 .. N
    BY <1>2, <1>3, <1>7, <2>2
  <2>3. CASE i \in 1 .. N /\ j = N + 1
    BY <1>2, <1>3, <1>7, <2>3
  <2>4. CASE i = N + 1 /\ j = N + 1
    BY <2>4
  <2> QED BY <1>1, <2>1, <2>2, <2>3, <2>4
\* At the end of the log, what is last is the Pi's.
<1>9. ASSUME NEW i \in 1 .. N + 1, LastAt(changes', N + 1, i)
      PROVE  changes'[i].rec \in Record /\ changes'[i].row = pi'[changes'[i].rec]
  <2>1. CASE i = N + 1
    BY <1>3, <1>4, <2>1
  <2>2. CASE i \in 1 .. N
    <3>1. changes'[i].rec # r
      BY <1>1, <1>3, <1>9, <2>2 DEF LastAt
    <3>2. LastAt(changes, N, i)
      BY <1>1, <1>2, <1>9, <2>2 DEF LastAt
    <3> QED BY <1>2, <1>4, <1>6, <1>7, <2>2, <3>1, <3>2
  <2> QED BY <1>1, <2>1, <2>2
<1>10. OneLive(pi')
  <2> SUFFICES ASSUME NEW p \in Record, NEW q \in Record, Live(pi'[p]),
                      Covers(pi'[q], pi'[p].slot, pi'[p].by)
               PROVE  p = q
    BY DEF OneLive
  <2>1. CASE p = r
    BY <1>4, <2>1 DEF Covers
  <2>2. CASE q = r
    BY <1>4, <2>2 DEF Covers
  <2>3. CASE p # r /\ q # r
    BY <1>4, <2>3 DEF LogInv, OneLive
  <2> QED BY <2>1, <2>2, <2>3
<1>11. LogOnce(changes')
  <2> SUFFICES ASSUME NEW n \in 1 .. N + 1, NEW i \in 1 .. n, NEW j \in 1 .. n,
                      LastAt(changes', n, i), LastAt(changes', n, j), Live(changes'[i].row),
                      Covers(changes'[j].row, changes'[i].row.slot, changes'[i].row.by)
               PROVE  i = j
    BY <1>2 DEF LogOnce
  <2>1. CASE n \in 1 .. N
    <3>1. LastAt(changes, n, i) /\ LastAt(changes, n, j)
      BY <1>1, <1>2, <2>1 DEF LastAt
    <3>2. changes'[i] = changes[i] /\ changes'[j] = changes[j]
      BY <1>1, <1>2, <2>1
    <3> QED BY <2>1, <3>1, <3>2 DEF LogInv, LogOnce
  <2>2. CASE n = N + 1
    <3>1. /\ changes'[i].rec \in Record /\ changes'[i].row = pi'[changes'[i].rec]
          /\ changes'[j].rec \in Record /\ changes'[j].row = pi'[changes'[j].rec]
      BY <1>9, <2>2
    <3>2. changes'[i].rec = changes'[j].rec
      BY <1>10, <3>1 DEF OneLive
    <3>3. N + 1 \in Nat /\ LastAt(changes', N + 1, i) /\ LastAt(changes', N + 1, j)
      BY <1>1, <2>2
    <3> HIDE DEF N
    <3> QED BY <3>2, <3>3, OneLast
  <2> QED BY <1>1, <2>1, <2>2
<1>12. LogIsPi'
  <2> SUFFICES ASSUME NEW q \in Record, pi'[q] # None
               PROVE  \E k \in 1 .. N + 1 : /\ LastAt(changes', N + 1, k)
                                            /\ changes'[k].rec = q /\ changes'[k].row = pi'[q]
    BY <1>2 DEF LogIsPi
  <2>1. CASE q = r
    <3>1. LastAt(changes', N + 1, N + 1)
      BY <1>1 DEF LastAt
    <3> QED BY <1>1, <1>3, <1>4, <2>1, <3>1
  <2>2. CASE q # r
    <3>1. PICK k \in 1 .. N : LastAt(changes, N, k) /\ changes[k].rec = q /\ changes[k].row = pi[q]
      BY <1>4, <2>2 DEF LogInv, LogIsPi
    <3>2. changes'[k] = changes[k] /\ changes'[k].rec = q
      BY <1>2, <3>1
    <3>3. \A j \in 1 .. N : j > k => changes'[j].rec # q
      BY <1>2, <3>1 DEF LastAt
    <3>4. LastAt(changes', N + 1, k)
      BY <1>1, <1>3, <2>2, <3>2, <3>3 DEF LastAt
    <3> QED BY <1>1, <1>2, <1>4, <2>2, <3>1, <3>2, <3>4
  <2> QED BY <2>1, <2>2
<1> QED BY <1>8, <1>10, <1>11, <1>12 DEF LogInv

-----------------------------------------------------------------------------
(* A page applied to a table. *)

\* The changes a device sees between two cursors.
Page(log, S, n, m) == {i \in n + 1 .. m : log[i].row.slot \in S}

\* Applied, of any log.
Taken(log, table, P) ==
    [r \in Record |->
        IF \E i \in P : log[i].rec = r THEN log[LastIn(log, P, r)].row
        ELSE IF \E i \in P : Displaces(log[i], r, table[r]) THEN None
        ELSE table[r]]

\* Mirrors, of any table, outbox, cursor and log.
MirrorsAt(log, S, table, box, n) ==
    \A r \in Record :
        IF Told(log, S, n, r) # None
        THEN table[r] = Told(log, S, n, r) /\ box[r] = None
        ELSE table[r] # None => Waiting(box[r])

LEMMA AppliedIs == \A table, P : Applied(table, P) = Taken(changes, table, P)
  BY DEF Applied, Taken, Latest, LastIn

\* What a log tells up to n does not change when it grows.
LEMMA ToldStays ==
  ASSUME NEW log, NEW more, NEW n \in Nat, \A i \in 1 .. n : more[i] = log[i], NEW S, NEW r
  PROVE  Told(more, S, n, r) = Told(log, S, n, r)
<1> DEFINE P == {i \in 1 .. n : log[i].row.slot \in S}
<1>1. P = {i \in 1 .. n : more[i].row.slot \in S}
  OBVIOUS
<1>2. \A i \in P : more[i] = log[i]
  OBVIOUS
<1>3. Told(log, S, n, r) = IF \E i \in P : log[i].rec = r THEN log[LastIn(log, P, r)].row ELSE None
  BY DEF Told
<1>4. Told(more, S, n, r) = IF \E i \in P : more[i].rec = r THEN more[LastIn(more, P, r)].row ELSE None
  BY <1>1 DEF Told
<1>5. CASE \E i \in P : log[i].rec = r
  <2>1. LastIn(more, P, r) = LastIn(log, P, r)
    BY <1>2 DEF LastIn
  <2>2. P \in SUBSET (1 .. n)
    OBVIOUS
  <2> HIDE DEF P
  <2>3. LastIn(log, P, r) \in P
    BY <1>5, <2>2, LastInIs
  <2> QED BY <1>2, <1>3, <1>4, <1>5, <2>1, <2>3
<1>6. CASE ~ \E i \in P : log[i].rec = r
  <2>1. ~ \E i \in P : more[i].rec = r
    BY <1>2, <1>6
  <2> HIDE DEF P
  <2> QED BY <1>3, <1>4, <1>6, <2>1
<1> QED BY <1>5, <1>6

\* A record told of has a last change, seen by the device, that tells it.
LEMMA ToldBy ==
  ASSUME NEW log \in Seq(Change), SameForm(log), NEW n \in 0 .. Len(log), NEW S, NEW r,
         Told(log, S, n, r) # None
  PROVE  \E k \in 1 .. n : /\ LastAt(log, n, k) /\ log[k].rec = r
                           /\ log[k].row.slot \in S /\ log[k].row = Told(log, S, n, r)
<1> DEFINE P == {i \in 1 .. n : log[i].row.slot \in S}
           k == LastIn(log, P, r)
<1>1. Len(log) \in Nat /\ n \in Nat
  OBVIOUS
<1>2. (\E i \in P : log[i].rec = r) /\ Told(log, S, n, r) = log[k].row
  BY DEF Told
<1>3. P \in SUBSET (1 .. n)
  OBVIOUS
<1>4. k \in P /\ log[k].rec = r /\ \A j \in P : log[j].rec = r => j <= k
  <2> HIDE DEF P
  <2> QED BY <1>1, <1>2, <1>3, LastInIs
<1>5. k \in 1 .. n /\ log[k].row.slot \in S
  BY <1>4
<1> HIDE DEF k
<1>6. ASSUME NEW j \in 1 .. n, log[j].rec = r PROVE j <= k
  <2>1. log[j].row.slot = log[k].row.slot
    BY <1>1, <1>4, <1>5, <1>6 DEF SameForm
  <2> QED BY <1>4, <1>5, <1>6, <2>1
<1>7. LastAt(log, n, k)
  BY <1>4, <1>5, <1>6 DEF LastAt
<1> QED BY <1>2, <1>4, <1>5, <1>7 DEF k

\* A record in a page: its last change there is its last up to the page's end.
LEMMA PageLast ==
  ASSUME NEW log \in Seq(Change), SameForm(log), NEW m \in 0 .. Len(log), NEW n \in 0 .. m,
         NEW S, NEW r, \E i \in Page(log, S, n, m) : log[i].rec = r
  PROVE  /\ LastIn(log, Page(log, S, n, m), r) \in Page(log, S, n, m)
         /\ LastIn(log, Page(log, S, n, m), r) \in 1 .. m
         /\ log[LastIn(log, Page(log, S, n, m), r)].rec = r
         /\ LastAt(log, m, LastIn(log, Page(log, S, n, m), r))
         /\ Told(log, S, m, r) = log[LastIn(log, Page(log, S, n, m), r)].row
<1> DEFINE P == Page(log, S, n, m)
           k == LastIn(log, P, r)
           Q == {i \in 1 .. m : log[i].row.slot \in S}
           l == LastIn(log, Q, r)
<1>1. Len(log) \in Nat /\ m \in Nat /\ n \in Nat
  OBVIOUS
<1>2. P \in SUBSET (1 .. m) /\ P \in SUBSET Q /\ Q \in SUBSET (1 .. m)
  BY <1>1 DEF Page
<1>3. k \in P /\ log[k].rec = r /\ \A j \in P : log[j].rec = r => j <= k
  <2>1. \E i \in P : log[i].rec = r
    OBVIOUS
  <2>2. P \in SUBSET (1 .. m)
    BY <1>2
  <2> HIDE DEF P, k
  <2>3. /\ LastIn(log, P, r) \in P
        /\ log[LastIn(log, P, r)].rec = r
        /\ \A j \in P : log[j].rec = r => j <= LastIn(log, P, r)
    BY <1>1, <2>1, <2>2, LastInIs
  <2> QED BY Zenon, <2>3 DEF k
<1>4. l \in Q /\ log[l].rec = r /\ \A j \in Q : log[j].rec = r => j <= l
  <2>1. \E i \in Q : log[i].rec = r
    BY <1>2, <1>3
  <2>2. Q \in SUBSET (1 .. m)
    BY <1>2
  <2> HIDE DEF P, Q, l
  <2>3. /\ LastIn(log, Q, r) \in Q
        /\ log[LastIn(log, Q, r)].rec = r
        /\ \A j \in Q : log[j].rec = r => j <= LastIn(log, Q, r)
    BY <1>1, <2>1, <2>2, LastInIs
  <2> QED BY Zenon, <2>3 DEF l
<1>5. /\ k \in n + 1 .. m /\ log[k].row.slot \in S /\ k \in 1 .. m
      /\ l \in 1 .. m /\ log[l].row.slot \in S
      /\ \A j \in n + 1 .. m : log[j].row.slot \in S => j \in P
  BY <1>1, <1>3, <1>4 DEF Page
<1>6. k <= l
  BY <1>2, <1>3, <1>4
<1>7. Told(log, S, m, r) = log[l].row
  BY <1>4 DEF Told
<1> HIDE DEF k, l, P, Q
<1>8. k = l
  BY <1>1, <1>3, <1>4, <1>5, <1>6
<1>9. ASSUME NEW j \in 1 .. m, j > k PROVE log[j].rec # r
  <2> SUFFICES ASSUME log[j].rec = r PROVE FALSE
    OBVIOUS
  <2>1. log[j].row.slot = log[k].row.slot
    BY <1>1, <1>3, <1>5, <1>9 DEF SameForm
  <2>2. j \in P
    BY <1>1, <1>5, <1>9, <2>1
  <2> QED BY <1>1, <1>3, <1>5, <1>9, <2>2
<1>10. LastAt(log, m, k)
  BY <1>3, <1>5, <1>9 DEF LastAt
<1> QED BY <1>3, <1>5, <1>7, <1>8, <1>10 DEF k, P

\* A record not in a page is told of after it as before.
LEMMA PageSilent ==
  ASSUME NEW log, NEW m \in Nat, NEW n \in 0 .. m,
         NEW S, NEW r, ~ \E i \in Page(log, S, n, m) : log[i].rec = r
  PROVE  Told(log, S, m, r) = Told(log, S, n, r)
<1> DEFINE P == {i \in 1 .. n : log[i].row.slot \in S}
           Q == {i \in 1 .. m : log[i].row.slot \in S}
<1>1. \A i \in Q : log[i].rec = r => i \in P
  BY DEF Page
<1>2. \A i \in P : i \in Q
  OBVIOUS
<1>3. LastIn(log, Q, r) = LastIn(log, P, r)
  <2>1. \A i : (/\ i \in Q /\ log[i].rec = r
                /\ \A j \in Q : log[j].rec = r => j <= i)
           <=> (/\ i \in P /\ log[i].rec = r
                /\ \A j \in P : log[j].rec = r => j <= i)
    <3> HIDE DEF P, Q
    <3> QED BY <1>1, <1>2
  <2> DEFINE A(i) == /\ log[i].rec = r /\ \A j \in Q : log[j].rec = r => j <= i
             B(i) == /\ log[i].rec = r /\ \A j \in P : log[j].rec = r => j <= i
  <2>2. \A i : (i \in Q /\ A(i)) <=> (i \in P /\ B(i))
    BY <2>1
  <2>3. (CHOOSE i \in Q : A(i)) = (CHOOSE i \in P : B(i))
    <3> HIDE DEF A, B, P, Q
    <3> QED BY <2>2
  <2> QED BY <2>3 DEF LastIn
<1> QED
  <2>1. (\E i \in Q : log[i].rec = r) <=> (\E i \in P : log[i].rec = r)
    BY <1>1, <1>2
  <2>2. /\ Told(log, S, m, r) = IF \E i \in Q : log[i].rec = r THEN log[LastIn(log, Q, r)].row ELSE None
        /\ Told(log, S, n, r) = IF \E i \in P : log[i].rec = r THEN log[LastIn(log, P, r)].row ELSE None
    BY DEF Told
  <2> HIDE DEF P, Q
  <2> QED BY <1>3, <2>1, <2>2

\* A row of the Pi's that a page does not mention is not displaced by it.
LEMMA NotDisplaced ==
  ASSUME NEW log \in Seq(Change), SameForm(log), LogOnce(log),
         NEW m \in 0 .. Len(log), NEW n \in 0 .. m, NEW S, NEW r,
         ~ \E i \in Page(log, S, n, m) : log[i].rec = r,
         Told(log, S, n, r) # None,
         NEW i \in Page(log, S, n, m)
  PROVE  ~Displaces(log[i], r, Told(log, S, n, r))
<1> SUFFICES ASSUME Displaces(log[i], r, Told(log, S, n, r)) PROVE FALSE
  OBVIOUS
<1>1. Len(log) \in Nat /\ m \in Nat /\ n \in Nat /\ n \in 0 .. Len(log)
  OBVIOUS
<1>2. PICK k \in 1 .. n : /\ LastAt(log, n, k) /\ log[k].rec = r
                          /\ log[k].row.slot \in S /\ log[k].row = Told(log, S, n, r)
  BY <1>1, ToldBy
<1>3. i \in n + 1 .. m
  BY DEF Page
<1>4. ASSUME NEW j \in 1 .. i, j > k PROVE log[j].rec # r
  <2>1. CASE j \in 1 .. n
    BY <1>2, <1>4, <2>1 DEF LastAt
  <2>2. CASE j \in n + 1 .. m
    <3> SUFFICES ASSUME log[j].rec = r PROVE FALSE
      OBVIOUS
    <3>1. log[j].row.slot = log[k].row.slot
      BY <1>1, <1>2, <2>2 DEF SameForm
    <3> QED BY <1>2, <2>2, <3>1 DEF Page
  <2> QED BY <1>1, <1>3, <2>1, <2>2
<1>5. LastAt(log, i, k) /\ LastAt(log, i, i)
  BY <1>1, <1>2, <1>3, <1>4 DEF LastAt
<1>6. log[i].rec # r /\ Live(log[i].row) /\ Covers(log[k].row, log[i].row.slot, log[i].row.by)
  BY <1>2 DEF Displaces
<1>7. i \in 1 .. Len(log) /\ i \in 1 .. i /\ k \in 1 .. i
  BY <1>1, <1>2, <1>3
<1>8. i = k
  BY <1>5, <1>6, <1>7 DEF LogOnce
<1> QED BY <1>2, <1>6, <1>8

\* Applying the changes from its cursor on keeps a table a mirror, and its rows
\* one live to a scout and a robot: obs_coverage never fails an apply.
LEMMA TakenMirrors ==
  ASSUME NEW log \in Seq(Change), SameForm(log), LogOnce(log),
         NEW m \in 0 .. Len(log), NEW n \in 0 .. m, NEW S, NEW table, NEW box, NEW after,
         MirrorsAt(log, S, table, box, n),
         \A r \in Record : after[r] = IF \E i \in Page(log, S, n, m) : log[i].rec = r
                                      THEN None ELSE box[r]
  PROVE  MirrorsAt(log, S, Taken(log, table, Page(log, S, n, m)), after, m)
<1> DEFINE P == Page(log, S, n, m)
           new == Taken(log, table, P)
<1> SUFFICES ASSUME NEW r \in Record
             PROVE  IF Told(log, S, m, r) # None
                    THEN new[r] = Told(log, S, m, r) /\ after[r] = None
                    ELSE new[r] # None => Waiting(after[r])
  BY DEF MirrorsAt
<1>1. m \in Nat
  OBVIOUS
<1>2. CASE \E i \in P : log[i].rec = r
  <2>1. new[r] = log[LastIn(log, P, r)].row
    BY <1>2 DEF Taken
  <2>2. Told(log, S, m, r) = log[LastIn(log, P, r)].row
    BY <1>2, PageLast
  <2>3. LastIn(log, P, r) \in 1 .. Len(log)
    BY <1>2, PageLast
  <2>4. new[r] # None
    BY <2>1, <2>3, ChangeIs
  <2> QED BY <1>2, <2>1, <2>2, <2>4
<1>3. CASE ~ \E i \in P : log[i].rec = r
  <2>1. Told(log, S, m, r) = Told(log, S, n, r) /\ after[r] = box[r]
    BY <1>1, <1>3, PageSilent
  <2>2. new[r] = IF \E i \in P : Displaces(log[i], r, table[r]) THEN None ELSE table[r]
    BY <1>3 DEF Taken
  <2>3. CASE Told(log, S, n, r) # None
    <3>1. table[r] = Told(log, S, n, r) /\ box[r] = None
      BY <2>3 DEF MirrorsAt
    <3>2. ~ \E i \in P : Displaces(log[i], r, table[r])
      BY <1>3, <2>3, <3>1, NotDisplaced
    <3> QED BY <2>1, <2>2, <2>3, <3>1, <3>2
  <2>4. CASE Told(log, S, n, r) = None
    <3>1. table[r] # None => Waiting(box[r])
      BY <2>4 DEF MirrorsAt
    <3> QED BY <2>1, <2>2, <2>4, <3>1
  <2> QED BY <2>3, <2>4
<1> QED BY <1>2, <1>3

LEMMA TakenOnce ==
  ASSUME NEW log \in Seq(Change), SameForm(log), LogOnce(log),
         NEW m \in 0 .. Len(log), NEW n \in 0 .. m, NEW S, NEW table, OneLive(table)
  PROVE  OneLive(Taken(log, table, Page(log, S, n, m)))
<1> DEFINE P == Page(log, S, n, m)
           new == Taken(log, table, P)
           In(r) == \E i \in P : log[i].rec = r
<1> SUFFICES ASSUME NEW p \in Record, NEW q \in Record, Live(new[p]),
                    Covers(new[q], new[p].slot, new[p].by)
             PROVE  p = q
  BY DEF OneLive
<1>1. m \in Nat /\ Len(log) \in Nat
  OBVIOUS
<1>2. ASSUME NEW r \in Record, In(r)
      PROVE  /\ new[r] = log[LastIn(log, P, r)].row /\ log[LastIn(log, P, r)].rec = r
             /\ LastIn(log, P, r) \in P /\ LastIn(log, P, r) \in 1 .. m
             /\ LastAt(log, m, LastIn(log, P, r))
  BY <1>2, PageLast DEF Taken
<1>3. ASSUME NEW r \in Record, ~In(r), Live(new[r])
      PROVE  new[r] = table[r] /\ \A i \in P : ~Displaces(log[i], r, table[r])
  BY <1>3 DEF Taken
<1>4. Live(new[q])
  BY DEF Covers
<1> HIDE DEF new, P
<1>5. CASE In(p) /\ In(q)
  <2>1. LastIn(log, P, p) = LastIn(log, P, q)
    <3> DEFINE i == LastIn(log, P, p)
               j == LastIn(log, P, q)
    <3>1. /\ i \in 1 .. m /\ j \in 1 .. m /\ LastAt(log, m, i) /\ LastAt(log, m, j)
          /\ Live(log[i].row) /\ Covers(log[j].row, log[i].row.slot, log[i].row.by)
      BY <1>2, <1>5
    <3> HIDE DEF i, j
    <3>2. m \in 1 .. Len(log)
      BY <1>1, <3>1
    <3>3. i = j
      BY <3>1, <3>2 DEF LogOnce
    <3> QED BY <3>3 DEF i, j
  <2> QED BY <1>2, <1>5, <2>1
<1>6. CASE In(p) /\ ~In(q)
  BY <1>2, <1>3, <1>4, <1>6 DEF Displaces
<1>7. CASE ~In(p) /\ In(q)
  <2>1. Covers(new[p], new[q].slot, new[q].by)
    BY DEF Covers
  <2> QED BY <1>2, <1>3, <1>4, <1>7, <2>1 DEF Displaces
<1>8. CASE ~In(p) /\ ~In(q)
  <2>1. new[p] = table[p] /\ new[q] = table[q]
    BY <1>3, <1>4, <1>8
  <2> QED BY <2>1 DEF OneLive
<1> QED BY <1>5, <1>6, <1>7, <1>8

-----------------------------------------------------------------------------
(* The Pi's steps keep the log. *)

LEMMA StoreLog ==
  ASSUME TypeOK, LoggedIsStored, LogInv, NEW r \in Record, NEW s \in Slot, NEW by \in Scout,
         NEW fits, ~SaysNo(r, s, by, fits), Store(r, s, by)
  PROVE  LogInv'
<1>1. CASE pi[r] = None
  <2> DEFINE row == [slot |-> s, by |-> by, state |-> "pending"]
  <2>1. row \in Row /\ Write(r, row)
    BY <1>1, NewRow DEF Store
  <2>2. row.slot = s /\ row.by = by
    OBVIOUS
  <2>3. \A q \in Record : ~Covers(pi[q], row.slot, row.by)
    BY <1>1, <2>2 DEF SaysNo, Covered
  <2> HIDE DEF row
  <2> QED BY <1>1, <2>1, <2>3, WriteLog
<1>2. CASE pi[r] # None
  BY <1>2 DEF Store, LogInv, SameForm, LogOnce, LogIsPi, OneLive
<1> QED BY <1>1, <1>2

LEMMA ReviewLog ==
  ASSUME TypeOK, LoggedIsStored, LogInv, NEW r \in Record,
         NEW verdict \in {"approved", "declined"}, Review(r, verdict)
  PROVE  LogInv'
<1> DEFINE row == [pi[r] EXCEPT !.state = verdict]
<1>1. pi[r] \in Row /\ pi[r] # None /\ pi[r].state = "pending"
  BY DEF Review, TypeOK
<1>2. row \in Row /\ Write(r, row) /\ row.slot = pi[r].slot /\ row.by = pi[r].by
  BY <1>1 DEF Review, Row
<1> HIDE DEF row
<1>3. \A q \in Record \ {r} : ~Covers(pi[q], row.slot, row.by)
  BY <1>1, <1>2 DEF LogInv, OneLive
<1> QED BY <1>2, <1>3, WriteLog

\* A step of the Pi's writes to the log at its end, or not at all.
Grows ==
    /\ Len(changes) <= Len(changes')
    /\ \A i \in 1 .. Len(changes) : changes'[i] = changes[i]

LEMMA StoreGrows ==
  ASSUME TypeOK, NEW r \in Record, NEW s \in Slot, NEW by \in Scout, Store(r, s, by)
  PROVE  Grows
<1>1. CASE pi[r] = None
  <2> DEFINE row == [slot |-> s, by |-> by, state |-> "pending"]
  <2>1. row \in Row /\ Write(r, row)
    BY <1>1, NewRow DEF Store
  <2> HIDE DEF row
  <2>2. Len(changes') = Len(changes) + 1 /\ \A i \in 1 .. Len(changes) : changes'[i] = changes[i]
    BY Zenon, <2>1, WriteType
  <2>3. Len(changes) <= Len(changes')
    BY <2>2 DEF TypeOK
  <2> QED BY Zenon, <2>2, <2>3 DEF Grows
<1>2. CASE pi[r] # None
  <2>1. changes' = changes
    BY Zenon, <1>2 DEF Store
  <2>2. Len(changes) <= Len(changes)
    BY DEF TypeOK
  <2> QED BY Zenon, <2>1, <2>2 DEF Grows
<1> QED BY <1>1, <1>2

LEMMA SameLog ==
  ASSUME TypeOK, LogInv, UNCHANGED <<pi, changes>>
  PROVE  LogInv' /\ Grows
  BY DEF LogInv, SameForm, LogOnce, LogIsPi, OneLive, Grows, TypeOK

LEMMA PiLog ==
  ASSUME IInv, LogInv, PiStep
  PROVE  LogInv' /\ Grows
<1>1. CASE UNCHANGED <<pi, changes>>
  BY <1>1, SameLog DEF IInv
<1>2. ASSUME NEW x \in pushed, PiRecords(x) PROVE LogInv' /\ Grows
  <2>1. x.rec \in Record /\ x.slot \in Slot /\ x.by \in Scout
    BY DEF IInv, TypeOK, Delivery
  <2>2. CASE SaysNo(x.rec, x.slot, x.by, x.rec \notin Unfit)
    BY <1>2, <2>2, SameLog DEF PiRecords, IInv
  <2>3. CASE ~SaysNo(x.rec, x.slot, x.by, x.rec \notin Unfit)
    BY <1>2, <2>1, <2>3, StoreLog, StoreGrows DEF PiRecords, IInv
  <2> QED BY <2>2, <2>3
<1>3. ASSUME NEW r \in Record, NEW s \in Slot, NEW by \in Scout, SubmitForm(r, s, by)
      PROVE  LogInv' /\ Grows
  BY <1>3, StoreLog, StoreGrows DEF SubmitForm, IInv
<1>4. ASSUME NEW r \in Record, NEW verdict \in {"approved", "declined"}, Review(r, verdict)
      PROVE  LogInv' /\ Grows
  <2> DEFINE row == [pi[r] EXCEPT !.state = verdict]
  <2>1. row \in Row /\ Write(r, row)
    BY <1>4 DEF IInv, Review, TypeOK, Row
  <2> HIDE DEF row
  <2>2. Len(changes') = Len(changes) + 1 /\ \A i \in 1 .. Len(changes) : changes'[i] = changes[i]
    BY Zenon, <2>1, WriteType DEF IInv
  <2> QED BY <1>4, <2>2, ReviewLog DEF Grows, IInv, TypeOK
<1>5. ASSUME NEW j \in lead, LeadRecords(j) PROVE LogInv' /\ Grows
  <2>1. j.rec \in Record /\ j.slot \in Slot /\ refused[j.rec].by \in Scout
    BY DEF IInv, TypeOK, LeadJob, LeadsHaveRefusals, Refusal
  <2>2. CASE SaysNo(j.rec, j.slot, refused[j.rec].by, TRUE)
    BY <1>5, <2>2, SameLog DEF LeadRecords, IInv
  <2>3. CASE ~SaysNo(j.rec, j.slot, refused[j.rec].by, TRUE)
    BY <1>5, <2>1, <2>3, StoreLog, StoreGrows DEF LeadRecords, IInv
  <2> QED BY <2>2, <2>3
<1> QED
  BY <1>1, <1>2, <1>3, <1>4, <1>5
  DEF PiStep, PiKeepsRefusal, EditSchedule, LeadLoads, LeadResolves, LeadStops, Dismiss, piVars

-----------------------------------------------------------------------------
(* One live observation of a robot by a scout, on the Pi and on every device. *)

\* A page in hand is not behind the cursor it was asked from.
PagesAhead == \A d \in Device : sync[d].at = "page" => cursor[d] <= sync[d].upto

TablesOnce == \A d \in Device : OneLive(observations[d]) /\ OneLive(disk[d].observations)

OnceInv == IInv /\ LogInv /\ PagesAhead /\ TablesOnce

LEMMA InitOnce == Init => OnceInv
<1> SUFFICES ASSUME Init PROVE OnceInv
  OBVIOUS
<1>1. PagesAhead
  BY DEF Init, PagesAhead, Idle, Syncing
<1>2. TablesOnce
  BY DEF Init, TablesOnce, OneLive, NoRows, Covers
<1> QED BY <1>1, <1>2, InitInv, InitLog DEF OnceInv

\* What a page holds, and what ApplyPull makes of it.
LEMMA PageApplied ==
  ASSUME IInv, PagesAhead, NEW d \in Device, ApplyPull(d)
  PROVE  /\ changes \in Seq(Change)
         /\ sync[d].upto \in 0 .. Len(changes) /\ cursor[d] \in 0 .. sync[d].upto
         /\ observations' = [observations EXCEPT ![d] =
                Taken(changes, @, Page(changes, Scope[d], cursor[d], sync[d].upto))]
         /\ outbox' = [outbox EXCEPT ![d] = [r \in Record |->
                IF \E i \in Page(changes, Scope[d], cursor[d], sync[d].upto) : changes[i].rec = r
                THEN None ELSE @[r]]]
         /\ cursor' = [cursor EXCEPT ![d] = sync[d].upto]
<1> DEFINE P == {i \in cursor[d] + 1 .. sync[d].upto : Visible(d, i)}
<1>1. P = Page(changes, Scope[d], cursor[d], sync[d].upto)
  BY DEF Page, Visible
<1>2. /\ observations' = [observations EXCEPT ![d] = Applied(@, P)]
      /\ outbox' = [outbox EXCEPT ![d] =
           [r \in Record |-> IF r \in Echoed(d, P) THEN None ELSE @[r]]]
      /\ cursor' = [cursor EXCEPT ![d] = sync[d].upto]
  BY DEF ApplyPull
<1>3. changes \in Seq(Change) /\ sync[d].upto \in 0 .. Len(changes) /\ cursor[d] \in 0 .. sync[d].upto
  BY DEF IInv, TypeOK, Sync, PagesAhead, ApplyPull
<1> HIDE DEF P
<1>4. \A r : r \in Echoed(d, P) <=> \E i \in P : changes[i].rec = r
  BY DEF Echoed
<1>5. Applied(observations[d], P) = Taken(changes, observations[d], P)
  BY AppliedIs
<1>6. [r \in Record |-> IF r \in Echoed(d, P) THEN None ELSE outbox[d][r]] =
      [r \in Record |-> IF \E i \in P : changes[i].rec = r THEN None ELSE outbox[d][r]]
  BY Zenon, <1>4
<1> QED BY Zenon, <1>1, <1>2, <1>3, <1>5, <1>6

LEMMA DeviceSame ==
  ASSUME NEW d \in Device, DeviceStep(d)
  PROVE  UNCHANGED <<pi, changes>>
  BY DEF DeviceStep, QueueObservation, DiscardRefused, Flush, Crash, SignIn, SendPush,
     TakeReceipts, SendPull, ApplyPull, Stop, PiServesPull, piVars

LEMMA DevicePages ==
  ASSUME IInv, PagesAhead, NEW d \in Device, DeviceStep(d)
  PROVE  PagesAhead'
<1>1. CASE UNCHANGED <<cursor, sync>>
  BY <1>1 DEF PagesAhead
<1>2. CASE \E x \in Sync : x.at # "page" /\ sync' = [sync EXCEPT ![d] = x]
                         /\ \A e \in Device \ {d} : cursor'[e] = cursor[e]
  BY <1>2 DEF PagesAhead, IInv, TypeOK
<1>3. ASSUME NEW upto \in cursor[d] .. PageEnd(d), PiServesPull(d, upto) PROVE PagesAhead'
  <2>1. \A e \in Device \ {d} : sync'[e] = sync[e]
    BY <1>3 DEF PiServesPull, IInv, TypeOK
  <2>2. sync'[d].upto = upto /\ cursor[d] <= upto
    BY <1>3 DEF PiServesPull, Syncing, IInv, TypeOK
  <2>3. cursor' = cursor
    BY <1>3 DEF PiServesPull, deviceVars
  <2> QED BY <2>1, <2>2, <2>3 DEF PagesAhead
<1>4. ASSUME Crash(d) \/ SendPull(d) \/ ApplyPull(d) \/ Stop(d) PROVE PagesAhead'
  <2>1. Idle \in Sync /\ Pulling \in Sync /\ Idle.at # "page" /\ Pulling.at # "page"
    BY IdleType DEF Idle, Pulling, Syncing
  <2>2. sync' = [sync EXCEPT ![d] = Idle] \/ sync' = [sync EXCEPT ![d] = Pulling]
    BY <1>4 DEF Crash, SendPull, ApplyPull, Stop
  <2>3. \A e \in Device \ {d} : cursor'[e] = cursor[e]
    BY <1>4 DEF Crash, SendPull, ApplyPull, Stop, deviceVars, IInv, TypeOK
  <2> QED BY <1>2, <2>1, <2>2, <2>3
<1>5. ASSUME SendPush(d) \/ TakeReceipts(d) PROVE PagesAhead'
  <2>1. \A e \in Device \ {d} : sync'[e] = sync[e]
    BY <1>5 DEF SendPush, PushBatch, TakeReceipts, IInv, TypeOK
  <2>2. sync'[d].at # "page" /\ cursor' = cursor
    BY <1>5 DEF SendPush, PushBatch, TakeReceipts, Syncing, Pulling, deviceVars, IInv, TypeOK
  <2> QED BY <2>1, <2>2 DEF PagesAhead
<1> QED
  BY <1>1, <1>3, <1>4, <1>5
  DEF DeviceStep, QueueObservation, DiscardRefused, Flush, SignIn, deviceVars

LEMMA PiPages ==
  ASSUME IInv, PagesAhead, PiStep
  PROVE  PagesAhead'
<1>1. CASE UNCHANGED <<cursor, sync>>
  BY <1>1 DEF PagesAhead
<1>2. ASSUME NEW x \in pushed, PiKeepsRefusal(x) PROVE PagesAhead'
  <2>1. UNCHANGED cursor
    BY <1>2 DEF PiKeepsRefusal, deviceVars
  <2>2. ASSUME NEW d \in Device PROVE sync'[d].at = sync[d].at /\ sync'[d].upto = sync[d].upto
    BY <1>2 DEF PiKeepsRefusal, IInv, TypeOK, Sync
  <2> QED BY <2>1, <2>2 DEF PagesAhead
<1> QED
  BY <1>1, <1>2
  DEF PiStep, PiRecords, SubmitForm, Review, EditSchedule, LeadLoads, LeadRecords, LeadResolves,
      LeadStops, Dismiss, piVars, deviceVars

LEMMA DeviceOnce ==
  ASSUME OnceInv, NEW d \in Device, DeviceStep(d)
  PROVE  TablesOnce'
<1> USE DEF OnceInv
<1>1. CASE UNCHANGED <<observations, disk>>
  BY <1>1 DEF TablesOnce, OneLive
<1>2. ASSUME NEW table, OneLive(table), observations' = [observations EXCEPT ![d] = table],
             UNCHANGED disk
      PROVE  TablesOnce'
  BY <1>2 DEF TablesOnce, IInv, TypeOK
<1>3. ASSUME NEW r \in Record, NEW s \in Slot, QueueObservation(d, r, s) PROVE TablesOnce'
  <2> DEFINE row == [slot |-> s, by |-> session[d], state |-> "pending"]
             table == [observations[d] EXCEPT ![r] = row]
  <2>1. table[r] = row /\ \A q \in Record \ {r} : table[q] = observations[d][q]
    BY DEF IInv, TypeOK
  <2>2. \A q \in Record : ~Covers(observations[d][q], row.slot, row.by)
    BY <1>3 DEF QueueObservation, Covered
  <2>3. OneLive(observations[d])
    BY DEF TablesOnce
  <2>4. observations' = [observations EXCEPT ![d] = table] /\ UNCHANGED disk
    BY <1>3 DEF QueueObservation
  <2> HIDE DEF table, row
  <2>5. OneLive(table)
    BY <2>1, <2>2, <2>3 DEF OneLive, Covers
  <2> QED BY <1>2, <2>4, <2>5
<1>4. CASE Flush(d)
  BY <1>4 DEF Flush, InMemory, TablesOnce, IInv, TypeOK, deviceVars
<1>5. CASE Crash(d)
  BY <1>2, <1>5 DEF Crash, TablesOnce
<1>6. CASE TakeReceipts(d)
  <2> DEFINE marked == {r \in sync[d].refusals : outbox[d][r] # None}
             table == [r \in Record |-> IF r \in marked THEN None ELSE observations[d][r]]
  <2>1. observations' = [observations EXCEPT ![d] = table] /\ UNCHANGED disk
    BY <1>6 DEF TakeReceipts
  <2>2. OneLive(observations[d])
    BY DEF TablesOnce
  <2>3. \A r \in Record : table[r] = None \/ table[r] = observations[d][r]
    OBVIOUS
  <2> HIDE DEF table
  <2>4. OneLive(table)
    BY <2>2, <2>3 DEF OneLive, Covers
  <2> QED BY <1>2, <2>1, <2>4
<1>7. CASE ApplyPull(d)
  <2> DEFINE table == Taken(changes, observations[d],
                            Page(changes, Scope[d], cursor[d], sync[d].upto))
  <2>1. observations' = [observations EXCEPT ![d] = table] /\ UNCHANGED disk
    BY <1>7, PageApplied DEF ApplyPull
  <2>2. OneLive(table)
    BY <1>7, PageApplied, TakenOnce DEF LogInv, TablesOnce
  <2> HIDE DEF table
  <2> QED BY <1>2, <2>1, <2>2
<1> QED
  BY <1>1, <1>3, <1>4, <1>5, <1>6, <1>7
  DEF DeviceStep, DiscardRefused, SignIn, SendPush, SendPull, Stop, PiServesPull, deviceVars

LEMMA OnceStep == OnceInv /\ [Next]_vars => OnceInv'
<1> SUFFICES ASSUME OnceInv, [Next]_vars PROVE OnceInv'
  OBVIOUS
<1> USE DEF OnceInv
<1>1. IInv'
  BY DeviceInv, PiInv, StutterInv DEF Next
<1>2. ASSUME NEW d \in Device, DeviceStep(d) PROVE LogInv' /\ PagesAhead' /\ TablesOnce'
  BY <1>2, DeviceSame, SameLog, DevicePages, DeviceOnce DEF IInv
<1>3. CASE PiStep
  <2>1. UNCHANGED <<observations, disk>>
    BY <1>3 DEF PiStep, PiRecords, PiKeepsRefusal, SubmitForm, Review, EditSchedule, LeadLoads,
       LeadRecords, LeadResolves, LeadStops, Dismiss, deviceVars
  <2>2. TablesOnce'
    BY <2>1 DEF TablesOnce, OneLive
  <2> QED BY <1>1, <1>3, <2>2, PiLog, PiPages
<1>4. CASE UNCHANGED vars
  <2>1. LogInv'
    BY <1>4, SameLog DEF IInv, vars
  <2>2. PagesAhead' /\ TablesOnce'
    BY <1>4 DEF vars, PagesAhead, TablesOnce, OneLive
  <2> QED BY <1>1, <2>1, <2>2
<1> QED BY <1>1, <1>2, <1>3, <1>4 DEF Next

\* In every behaviour a scout has at most one live observation of a robot in a
\* match, on the Pi and in every device's memory and file: the unique index
\* obs_coverage never fails an insert there, nor an apply.
THEOREM OneLiveEverywhere == Spec => []OneLivePerScout
<1>1. OnceInv => OneLivePerScout
  BY DEF OnceInv, LogInv, TablesOnce, OneLive, OneLivePerScout
<1> QED BY InitOnce, OnceStep, <1>1, PTL DEF Spec

-----------------------------------------------------------------------------
(* A device's tables mirror the Pi's. *)

Mirrored ==
    \A d \in Device :
        /\ MirrorsAt(changes, Scope[d], observations[d], outbox[d], cursor[d])
        /\ MirrorsAt(changes, Scope[d], disk[d].observations, disk[d].outbox, disk[d].cursor)

\* Replaying the log from nothing displaces nothing: it is what the log tells.
LEMMA MirroredIs == Mirrored <=> DevicesMirrorPi
<1>1. ASSUME NEW d \in Device, NEW n, NEW r \in Record
      PROVE  Replayed(d, n)[r] = Told(changes, Scope[d], n, r)
  <2> DEFINE P == {i \in 1 .. n : changes[i].row.slot \in Scope[d]}
  <2>1. Shown(d, n) = P
    BY DEF Shown, Visible
  <2>2. \A i : ~Displaces(changes[i], r, NoRows[r])
    BY DEF Displaces, NoRows, Covers
  <2>3. NoRows[r] = None
    BY DEF NoRows
  <2>4. Told(changes, Scope[d], n, r) =
          IF \E i \in P : changes[i].rec = r THEN changes[LastIn(changes, P, r)].row ELSE None
    BY DEF Told
  <2> HIDE DEF P
  <2>5. Replayed(d, n)[r] = Taken(changes, NoRows, P)[r]
    BY <2>1, AppliedIs DEF Replayed
  <2> QED BY <2>2, <2>3, <2>4, <2>5 DEF Taken
<1>2. ASSUME NEW d \in Device, NEW f
      PROVE  Mirrors(d, f) <=> MirrorsAt(changes, Scope[d], f.observations, f.outbox, f.cursor)
  BY <1>1 DEF Mirrors, MirrorsAt
<1>3. \A d \in Device : /\ InMemory(d).observations = observations[d]
                        /\ InMemory(d).outbox = outbox[d] /\ InMemory(d).cursor = cursor[d]
  BY DEF InMemory
<1> QED BY <1>2, <1>3 DEF Mirrored, DevicesMirrorPi

LEMMA InitMirrored == Init => Mirrored
<1>1. \A S, r : Told(<<>>, S, 0, r) = None
  BY DEF Told
<1> QED BY <1>1 DEF Init, Mirrored, MirrorsAt, NoRows

\* The Pi's steps tell a device nothing new up to its cursor.
LEMMA GrowsMirrored ==
  ASSUME TypeOK, Mirrored, Grows, UNCHANGED <<observations, outbox, cursor, disk>>
  PROVE  Mirrored'
<1>1. ASSUME NEW n \in 0 .. Len(changes), NEW S, NEW r
      PROVE  Told(changes', S, n, r) = Told(changes, S, n, r)
  <2>1. n \in Nat /\ \A i \in 1 .. n : changes'[i] = changes[i]
    BY DEF TypeOK, Grows
  <2> QED BY <2>1, ToldStays
<1>2. ASSUME NEW d \in Device PROVE cursor[d] \in 0 .. Len(changes) /\ disk[d].cursor \in 0 .. Len(changes)
  BY DEF TypeOK
<1> QED BY <1>1, <1>2 DEF Mirrored, MirrorsAt

LEMMA DeviceMirrored ==
  ASSUME ~ReuseIds, OnceInv, Mirrored, NEW d \in Device, DeviceStep(d)
  PROVE  Mirrored'
<1> USE DEF OnceInv
<1>1. changes' = changes
  BY DeviceSame
<1>2. CASE UNCHANGED <<observations, outbox, cursor, disk>>
  BY <1>1, <1>2 DEF Mirrored, MirrorsAt
\* It is enough to look at the device that steps.
<1>3. ASSUME NEW table, NEW box, NEW n, MirrorsAt(changes, Scope[d], table, box, n),
             observations' = [observations EXCEPT ![d] = table],
             outbox' = [outbox EXCEPT ![d] = box],
             cursor' = [cursor EXCEPT ![d] = n], UNCHANGED disk
      PROVE  Mirrored'
  BY <1>1, <1>3 DEF Mirrored, IInv, TypeOK
<1>4. MirrorsAt(changes, Scope[d], observations[d], outbox[d], cursor[d])
  BY DEF Mirrored
<1>5. cursor = [cursor EXCEPT ![d] = cursor[d]] /\ observations = [observations EXCEPT ![d] = observations[d]]
  BY DEF IInv, TypeOK
<1>6. ASSUME NEW r \in Record, NEW s \in Slot, QueueObservation(d, r, s) PROVE Mirrored'
  <2> DEFINE row == [slot |-> s, by |-> session[d], state |-> "pending"]
             e == [slot |-> s, refused |-> FALSE]
             table == [observations[d] EXCEPT ![r] = row]
             box == [outbox[d] EXCEPT ![r] = e]
  <2>1. observations[d][r] = None /\ outbox[d][r] = None
    BY <1>6 DEF QueueObservation
  <2>2. observations' = [observations EXCEPT ![d] = table] /\ outbox' = [outbox EXCEPT ![d] = box]
        /\ UNCHANGED <<cursor, disk>>
    BY <1>6, <2>1 DEF QueueObservation
  <2>3. box[r] = e /\ \A q \in Record \ {r} : box[q] = outbox[d][q] /\ table[q] = observations[d][q]
    BY DEF IInv, TypeOK
  <2>4. Waiting(e)
    <3>1. e \in Entry /\ ~e.refused
      BY DEF Entry
    <3> QED BY <3>1, ConstantsAssumption
  <2> HIDE DEF table, box, e, row
  <2>5. Told(changes, Scope[d], cursor[d], r) = None
    BY <1>4, <2>1 DEF MirrorsAt
  <2>6. MirrorsAt(changes, Scope[d], table, box, cursor[d])
    BY <1>4, <2>3, <2>4, <2>5 DEF MirrorsAt
  <2> QED BY <1>3, <1>5, <2>2, <2>6
<1>7. ASSUME NEW r \in Record, DiscardRefused(d, r) PROVE Mirrored'
  <2> DEFINE box == [outbox[d] EXCEPT ![r] = None]
  <2>1. Refused(outbox[d][r]) /\ outbox' = [outbox EXCEPT ![d] = box]
        /\ UNCHANGED <<observations, cursor, disk>>
    BY <1>7 DEF DiscardRefused
  <2>2. box[r] = None /\ \A q \in Record \ {r} : box[q] = outbox[d][q]
    BY DEF IInv, TypeOK
  <2> HIDE DEF box
  <2>3. observations[d][r] = None /\ Told(changes, Scope[d], cursor[d], r) = None
    BY <1>4, <2>1 DEF MirrorsAt
  <2>4. MirrorsAt(changes, Scope[d], observations[d], box, cursor[d])
    BY <1>4, <2>2, <2>3 DEF MirrorsAt
  <2> QED BY <1>3, <1>5, <2>1, <2>4
<1>8. CASE Flush(d)
  <2>1. UNCHANGED <<observations, outbox, cursor>> /\ disk' = [disk EXCEPT ![d] = InMemory(d)]
    BY <1>8 DEF Flush, deviceVars
  <2>2. disk'[d].observations = observations[d] /\ disk'[d].outbox = outbox[d]
        /\ disk'[d].cursor = cursor[d] /\ \A e \in Device \ {d} : disk'[e] = disk[e]
    BY <2>1 DEF InMemory, IInv, TypeOK
  <2> QED BY <1>1, <2>1, <2>2 DEF Mirrored
<1>9. CASE Crash(d)
  <2>1. MirrorsAt(changes, Scope[d], disk[d].observations, disk[d].outbox, disk[d].cursor)
    BY DEF Mirrored
  <2> QED BY <1>3, <1>9, <2>1 DEF Crash
<1>10. CASE TakeReceipts(d)
  <2> DEFINE marked == {r \in sync[d].refusals : outbox[d][r] # None}
             table == [r \in Record |-> IF r \in marked THEN None ELSE observations[d][r]]
             box == [r \in Record |-> IF r \in marked THEN [outbox[d][r] EXCEPT !.refused = TRUE]
                                      ELSE outbox[d][r]]
  <2>1. /\ observations' = [observations EXCEPT ![d] = table]
        /\ outbox' = [outbox EXCEPT ![d] = box] /\ UNCHANGED <<cursor, disk>>
    BY <1>10 DEF TakeReceipts
  <2>2. \A r \in Record : \/ outbox[d][r] # None /\ table[r] = None
                          \/ table[r] = observations[d][r] /\ box[r] = outbox[d][r]
    OBVIOUS
  <2> HIDE DEF table, box
  <2>3. MirrorsAt(changes, Scope[d], table, box, cursor[d])
    BY <1>4, <2>2 DEF MirrorsAt
  <2> QED BY <1>3, <1>5, <2>1, <2>3
<1>11. CASE ApplyPull(d)
  <2> DEFINE P == Page(changes, Scope[d], cursor[d], sync[d].upto)
             table == Taken(changes, observations[d], P)
             box == [r \in Record |-> IF \E i \in P : changes[i].rec = r THEN None ELSE outbox[d][r]]
  <2>1. /\ observations' = [observations EXCEPT ![d] = table]
        /\ outbox' = [outbox EXCEPT ![d] = box]
        /\ cursor' = [cursor EXCEPT ![d] = sync[d].upto]
    BY <1>11, PageApplied
  <2>2. UNCHANGED disk
    BY <1>11 DEF ApplyPull
  <2>3. \A r \in Record : box[r] = IF \E i \in P : changes[i].rec = r THEN None ELSE outbox[d][r]
    OBVIOUS
  <2> HIDE DEF box
  <2>4. MirrorsAt(changes, Scope[d], table, box, sync[d].upto)
    BY <1>4, <1>11, <2>3, PageApplied, TakenMirrors DEF LogInv
  <2> HIDE DEF table
  <2> QED BY <1>3, <2>1, <2>2, <2>4
<1> QED
  BY <1>2, <1>6, <1>7, <1>8, <1>9, <1>10, <1>11
  DEF DeviceStep, SignIn, SendPush, SendPull, Stop, PiServesPull, deviceVars

\* Where no form is saved again under an id the Pi has refused, in every
\* behaviour a device's memory and its file both hold the Pi's observations of
\* its events as of their cursor, and on top of them only rows of its own that
\* still wait in its outbox: nothing is skipped, applied twice or undone by a
\* crash, a page cut short, a late reply or a device's own edits meanwhile.
THEOREM DevicesMirror == ASSUME ~ReuseIds PROVE Spec => []DevicesMirrorPi
<1> DEFINE Inv == OnceInv /\ Mirrored
<1>1. Init => Inv
  BY InitOnce, InitMirrored
<1>2. Inv /\ [Next]_vars => Inv'
  <2> SUFFICES ASSUME OnceInv, Mirrored, [Next]_vars PROVE Mirrored'
    BY OnceStep
  <2>1. ASSUME NEW d \in Device, DeviceStep(d) PROVE Mirrored'
    BY <2>1, DeviceMirrored
  <2>2. CASE PiStep
    <3>1. UNCHANGED <<observations, outbox, cursor, disk>>
      BY <2>2 DEF PiStep, PiRecords, PiKeepsRefusal, SubmitForm, Review, EditSchedule, LeadLoads,
         LeadRecords, LeadResolves, LeadStops, Dismiss, deviceVars
    <3> QED BY <2>2, <3>1, PiLog, GrowsMirrored DEF OnceInv, IInv
  <2>3. CASE UNCHANGED vars
    BY <2>3 DEF vars, Mirrored, MirrorsAt
  <2> QED BY <2>1, <2>2, <2>3 DEF Next
<1>3. Inv => DevicesMirrorPi
  BY MirroredIs
<1> QED BY <1>1, <1>2, <1>3, PTL DEF Spec
=============================================================================
