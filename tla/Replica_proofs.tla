--------------------------- MODULE Replica_proofs ---------------------------
(* Proofs about Replica: for any rows, teams and pages, any length of the log *)
(* and any number of changes to a pull.                                      *)
EXTENDS Replica, WellFoundedInduction, TLAPS

-----------------------------------------------------------------------------
(* Numbers. *)

\* A set of numbers has a least one.
LEMMA Least == ASSUME NEW T \in SUBSET Nat, T # {} PROVE \E n \in T : \A m \in T : n <= m
<1> DEFINE R == OpToRel(<, Nat)
<1>1. IsWellFoundedOn(R, Nat)
  BY NatLessThanWellFounded
<1>2. \A n, m \in Nat : m < n => <<m, n>> \in R
  BY DEF OpToRel
<1> HIDE DEF R
<1>3. PICK n \in T : \A m \in T : ~ (<<m, n>> \in R)
  BY <1>1, WFMin
<1>4. \A m \in T : ~ (m < n)
  BY <1>2, <1>3
<1> QED BY <1>4

\* What holds of a, and of a number whenever of the one before, holds.
LEMMA CountUp ==
  ASSUME NEW a \in Nat, NEW z \in Nat, a <= z, NEW G \in SUBSET (a .. z), a \in G,
         \A n \in a + 1 .. z : n - 1 \in G => n \in G
  PROVE  \A n \in a .. z : n \in G
<1> SUFFICES ASSUME NEW k \in a .. z, k \notin G PROVE FALSE
  OBVIOUS
<1> DEFINE T == (a .. z) \ G
<1>1. T \in SUBSET Nat /\ k \in T
  OBVIOUS
<1>2. PICK n \in T : \A m \in T : n <= m
  BY <1>1, Least
<1>3. n \in a + 1 .. z /\ n - 1 \notin T /\ n - 1 \in a .. z
  BY <1>2
<1> QED BY <1>2, <1>3

\* A set of places in a log has a last one.
LEMMA Latest ==
  ASSUME NEW n \in Nat, NEW S \in SUBSET (1 .. n), S # {}
  PROVE  Max(S) \in S /\ \A i \in S : i <= Max(S)
<1> DEFINE T == {m \in 0 .. n : n - m \in S}
<1>1. PICK i : i \in S
  OBVIOUS
<1>2. n - i \in T /\ T \in SUBSET Nat
  BY <1>1
<1>3. PICK m \in T : \A j \in T : m <= j
  BY <1>2, Least
<1>4. \A j \in S : n - j \in T
  OBVIOUS
<1>5. n - m \in S /\ \A j \in S : n - m >= j
  BY <1>3, <1>4
<1>6. \E x \in S : \A y \in S : x >= y
  BY <1>5
<1> QED BY <1>6 DEF Max

-----------------------------------------------------------------------------
(* The inductive invariant. *)

Change == [key : RowKey, row : PiRow \cup {None}]

\* TablesAt, of any log, and the last of its first n changes to a key.
Writes(log, n, k) == {i \in 1 .. n : log[i].key = k}
LastRow(log, n, k) == IF Writes(log, n, k) = {} THEN None ELSE log[Max(Writes(log, n, k))].row
In(row, s) == IF row = None THEN None ELSE [row EXCEPT !.shape = s]
Tables(log, n, s) == [k \in RowKey |-> In(LastRow(log, n, k), s)]

\* The rows logged after the first n are of schema s or a newer one.
NoOlder(log, n, s) ==
    \A i \in n + 1 .. Len(log) : log[i].row # None => s <= log[i].row.shape

\* A copy is of a moment of the log, with a schema the Pi has had by then.
CopyOK(c, log, schema) ==
    /\ c \in Copy
    /\ c.upto <= Len(log) /\ c.build <= schema
    /\ NoOlder(log, c.upto, c.build)

\* What CopyIsTheCut says of a copy.
IsTheCut(c, log) ==
    /\ c.readers = {c.team} => c.rows = CutFor(Tables(log, c.upto, c.build), c.team)
    /\ \A k \in RowKey : c.rows[k] # None =>
            \E team \in c.readers, n \in 1 .. c.upto :
                c.rows[k] = CutFor(Tables(log, n, c.build), team)[k]

\* A device's copy, wherever it is on the way.
Held(c, log, schema) == CopyOK(c, log, schema) /\ c.team \in c.readers /\ IsTheCut(c, log)

\* The log's last word on each row is the row.
LogIsStored ==
    /\ logged \in Seq(Change)
    /\ \A i \in 1 .. Len(logged) : logged[i].row # None => logged[i].row.shape <= build
    /\ stored = Tables(logged, Len(logged), build)

\* A snapshot handed out is a cut for its team.
HandoutsAreCuts ==
    \A t \in Viewer : handouts[t] # None =>
        /\ CopyOK(handouts[t], logged, build)
        /\ handouts[t].team = t
        /\ handouts[t].rows = CutFor(Tables(logged, handouts[t].upto, handouts[t].build), t)

DownloadsHold ==
    \A b \in Tab :
        /\ downloads[b].at = "answered" => Held(downloads[b].snapshot, logged, build)
        /\ downloads[b].at = "saved" => copy # None

\* What a pull has to apply is of the schema of the copy it is for.
PullHolds ==
    /\ pulling.at # "idle" => Held(pulling.held, logged, build) /\ copy # None
    /\ pulling.at = "answered" =>
          /\ pulling.upto \in pulling.held.upto .. Len(logged) /\ pulling.team \in Viewer
          /\ \A i \in pulling.held.upto + 1 .. pulling.upto :
                logged[i].row # None => logged[i].row.shape = pulling.held.build

CopyHolds == copy # None => Held(copy, logged, build)

\* Records and functions have their fields.
Shapes ==
    /\ handouts \in [Viewer -> Copy \cup {None}]
    /\ downloads \in [Tab -> [at : {"idle", "asked", "answered", "saved"}, snapshot : Copy \cup {None}]]
    /\ pulling \in [at : {"idle", "opened", "answered"}, held : Copy \cup {None}, upto : Nat,
                    team : Viewer \cup {None}]

RInv ==
    /\ ReplicaTypeOK /\ Shapes /\ LogIsStored
    /\ HandoutsAreCuts /\ DownloadsHold /\ PullHolds /\ CopyHolds

-----------------------------------------------------------------------------
(* The tables the log tells. *)

LEMMA TablesIs == ASSUME NEW n, NEW s PROVE TablesAt(n, s) = Tables(logged, n, s)
<1>1. ASSUME NEW k \in RowKey PROVE TablesAt(n, s)[k] = Tables(logged, n, s)[k]
  BY DEF TablesAt, Tables, In, LastRow, Writes
<1> QED BY <1>1 DEF TablesAt, Tables

LEMMA ChangeIs ==
  ASSUME NEW log \in Seq(Change), NEW i \in 1 .. Len(log)
  PROVE  log[i].key \in RowKey /\ log[i].row \in PiRow \cup {None}
<1>1. log[i] \in Change
  OBVIOUS
<1> QED BY <1>1 DEF Change

LEMMA LastWrite ==
  ASSUME NEW log, NEW n \in Nat, NEW k, Writes(log, n, k) # {}
  PROVE  Max(Writes(log, n, k)) \in 1 .. n
<1>1. Writes(log, n, k) \in SUBSET (1 .. n)
  BY DEF Writes
<1>2. Max(Writes(log, n, k)) \in Writes(log, n, k)
  BY <1>1, Latest
<1> QED BY <1>1, <1>2

\* The last change to a key is the n-th, if it is to that key.
LEMMA LastStep ==
  ASSUME NEW log, NEW n \in Nat \ {0}, NEW k
  PROVE  LastRow(log, n, k) = IF log[n].key = k THEN log[n].row ELSE LastRow(log, n - 1, k)
<1>1. CASE log[n].key = k
  <2>1. n \in Writes(log, n, k) /\ Writes(log, n, k) \in SUBSET (1 .. n)
    BY <1>1 DEF Writes
  <2>2. Max(Writes(log, n, k)) \in 1 .. n /\ n <= Max(Writes(log, n, k))
    BY <2>1, Latest
  <2>3. Max(Writes(log, n, k)) = n
    BY <2>2
  <2> QED BY <1>1, <2>1, <2>3 DEF LastRow
<1>2. CASE log[n].key # k
  <2>1. Writes(log, n, k) = Writes(log, n - 1, k)
    BY <1>2 DEF Writes
  <2> QED BY <1>2, <2>1 DEF LastRow
<1> QED BY <1>1, <1>2

LEMMA LastRowIs ==
  ASSUME NEW log \in Seq(Change), NEW n \in 0 .. Len(log), NEW k
  PROVE  LastRow(log, n, k) \in PiRow \cup {None}
<1>1. CASE Writes(log, n, k) = {}
  BY <1>1 DEF LastRow
<1>2. CASE Writes(log, n, k) # {}
  <2>1. n \in Nat /\ n <= Len(log)
    OBVIOUS
  <2>2. Max(Writes(log, n, k)) \in 1 .. n
    BY <1>2, <2>1, LastWrite
  <2>3. Max(Writes(log, n, k)) \in 1 .. Len(log)
    BY <2>1, <2>2
  <2> QED BY <1>2, <2>3, ChangeIs DEF LastRow
<1> QED BY <1>1, <1>2

LEMMA InIs ==
  ASSUME NEW row \in PiRow \cup {None}, NEW s \in 1 .. LastBuild
  PROVE  /\ In(row, s) \in PiRow \cup {None}
         /\ In(row, s) = None <=> row = None
         /\ row # None /\ row.shape = s => In(row, s) = row
<1>1. CASE row = None
  BY <1>1 DEF In
<1>2. CASE row \in PiRow
  <2>1. In(row, s) \in PiRow /\ row # None
    BY <1>2, ReplicaAssumption DEF In, PiRow
  <2>2. row.shape = s => In(row, s) = row
    BY <1>2, <2>1 DEF In, PiRow
  <2> QED BY <2>1, <2>2, ReplicaAssumption
<1> QED BY <1>1, <1>2

LEMMA TablesType ==
  ASSUME NEW log \in Seq(Change), NEW n \in 0 .. Len(log), NEW s \in 1 .. LastBuild
  PROVE  Tables(log, n, s) \in [RowKey -> PiRow \cup {None}]
BY LastRowIs, InIs DEF Tables

\* Tables in one schema and then in another are in the other.
LEMMA Reshaped ==
  ASSUME NEW log \in Seq(Change), NEW n \in 0 .. Len(log),
         NEW s \in 1 .. LastBuild, NEW z \in 1 .. LastBuild
  PROVE  Reshape(Tables(log, n, s), z) = Tables(log, n, z)
<1>1. ASSUME NEW row \in PiRow \cup {None}
      PROVE  (IF In(row, s) = None THEN None ELSE [In(row, s) EXCEPT !.shape = z]) = In(row, z)
  <2>1. CASE row = None
    BY <2>1 DEF In
  <2>2. CASE row # None
    <3>1. In(row, s) # None /\ row \in PiRow
      BY <2>2, InIs
    <3>2. In(row, s) = [row EXCEPT !.shape = s] /\ In(row, z) = [row EXCEPT !.shape = z]
      BY <2>2 DEF In
    <3> QED BY <3>1, <3>2 DEF PiRow
  <2> QED BY <2>1, <2>2
<1> QED BY <1>1, LastRowIs DEF Reshape, Tables

\* A log that goes on tells of its first n changes what it told.
LEMMA TablesStay ==
  ASSUME NEW log \in Seq(Change), NEW c, NEW n \in 0 .. Len(log), NEW s
  PROVE  Tables(Append(log, c), n, s) = Tables(log, n, s)
<1>1. ASSUME NEW k \in RowKey PROVE LastRow(Append(log, c), n, k) = LastRow(log, n, k)
  <2>1. \A i \in 1 .. n : Append(log, c)[i] = log[i]
    OBVIOUS
  <2>2. Writes(Append(log, c), n, k) = Writes(log, n, k)
    BY <2>1 DEF Writes
  <2>3. Writes(log, n, k) # {} => Max(Writes(log, n, k)) \in 1 .. n
    BY LastWrite
  <2>4. CASE Writes(log, n, k) = {}
    BY <2>2, <2>4 DEF LastRow
  <2>5. CASE Writes(log, n, k) # {}
    BY <2>1, <2>2, <2>3, <2>5 DEF LastRow
  <2> QED BY <2>4, <2>5
<1> QED BY <1>1 DEF Tables

-----------------------------------------------------------------------------
(* Cuts and copies. *)

LEMMA ShownIs ==
  ASSUME NEW k, NEW row \in PiRow \cup {None}, NEW team
  PROVE  Shown(k, row, team) \in SentRow \cup {None}
<1>1. CASE row = None
  BY <1>1 DEF Shown
<1>2. CASE row # None
  BY <1>2 DEF Shown, NotesShown, PiRow, SentRow
<1> QED BY <1>1, <1>2

LEMMA CutType ==
  ASSUME NEW rows \in [RowKey -> PiRow \cup {None}], NEW team
  PROVE  CutFor(rows, team) \in [RowKey -> SentRow \cup {None}]
BY ShownIs DEF CutFor

\* What a cut has of a key.
LEMMA CutAt ==
  ASSUME NEW log, NEW n, NEW s, NEW team, NEW k \in RowKey
  PROVE  CutFor(Tables(log, n, s), team)[k]
            = IF Sent(k, team) THEN Shown(k, In(LastRow(log, n, k), s), team) ELSE None
BY DEF CutFor, Tables

\* What a copy says of its log stays so as the log goes on.
LEMMA CopyStays ==
  ASSUME NEW log \in Seq(Change), NEW schema \in 1 .. LastBuild,
         NEW c, CopyOK(c, log, schema), NEW change \in Change,
         change.row # None => change.row.shape = schema
  PROVE  CopyOK(c, Append(log, change), schema)
<1>1. c.upto \in Nat /\ c.build \in Nat /\ c.build <= schema /\ c.upto <= Len(log)
  BY DEF CopyOK, Copy
<1>2. ASSUME NEW i \in c.upto + 1 .. Len(Append(log, change)), Append(log, change)[i].row # None
      PROVE  c.build <= Append(log, change)[i].row.shape
  <2>1. CASE i = Len(log) + 1
    BY <1>1, <1>2, <2>1
  <2>2. CASE i # Len(log) + 1
    <3>1. i \in c.upto + 1 .. Len(log) /\ Append(log, change)[i] = log[i]
      BY <1>1, <2>2
    <3> QED BY <1>2, <3>1 DEF CopyOK, NoOlder
  <2> QED BY <2>1, <2>2
<1> QED BY <1>1, <1>2 DEF CopyOK, NoOlder

LEMMA CutStays ==
  ASSUME NEW log \in Seq(Change), NEW c \in Copy, c.upto <= Len(log), NEW change, IsTheCut(c, log)
  PROVE  IsTheCut(c, Append(log, change))
<1>1. c.upto \in Nat
  BY DEF Copy
<1>2. \A n \in 0 .. c.upto : Tables(Append(log, change), n, c.build) = Tables(log, n, c.build)
  <2> SUFFICES ASSUME NEW n \in 0 .. c.upto
               PROVE  Tables(Append(log, change), n, c.build) = Tables(log, n, c.build)
    OBVIOUS
  <2>1. n \in 0 .. Len(log)
    BY <1>1
  <2> QED BY <2>1, TablesStay
<1>3. c.upto \in 0 .. c.upto /\ \A n \in 1 .. c.upto : n \in 0 .. c.upto
  BY <1>1
<1> QED BY Zenon, <1>2, <1>3 DEF IsTheCut

LEMMA HeldStays ==
  ASSUME NEW log \in Seq(Change), NEW schema \in 1 .. LastBuild,
         NEW c, Held(c, log, schema), NEW change \in Change,
         change.row # None => change.row.shape = schema
  PROVE  Held(c, Append(log, change), schema)
<1>1. c \in Copy /\ c.upto <= Len(log)
  BY DEF Held, CopyOK
<1> QED BY <1>1, CopyStays, CutStays DEF Held

\* A newer schema takes nothing from it.
LEMMA HeldUpgrades ==
  ASSUME NEW log, NEW schema \in Nat, NEW newer \in Nat, schema <= newer,
         NEW c, Held(c, log, schema)
  PROVE  Held(c, log, newer)
<1>1. c.build \in Nat
  BY DEF Held, CopyOK, Copy
<1> QED BY <1>1 DEF Held, CopyOK

-----------------------------------------------------------------------------
(* A page of the log, applied. *)

\* Some change after the first lo and among the first n is to the key.
Since(log, lo, n, k) == \E i \in lo + 1 .. n : log[i].key = k

\* A copy's rows with the first n changes seen by a team.
After(c, log, n, team) ==
    [k \in RowKey |-> IF Sent(k, team) /\ Since(log, c.upto, n, k)
                      THEN Shown(k, LastRow(log, n, k), team) ELSE c.rows[k]]

LEMMA AfterStep ==
  ASSUME NEW c \in Copy, NEW log \in Seq(Change), NEW team,
         NEW n \in c.upto + 1 .. Len(log)
  PROVE  After(c, log, n, team) = ApplyChange(After(c, log, n - 1, team), log[n], team)
<1>1. c.upto \in Nat /\ n \in Nat \ {0} /\ n \in 1 .. Len(log)
  BY DEF Copy
<1>2. log[n].key \in RowKey
  BY <1>1, ChangeIs
<1>3. ASSUME NEW k \in RowKey
      PROVE  After(c, log, n, team)[k] = ApplyChange(After(c, log, n - 1, team), log[n], team)[k]
  <2>1. CASE k = log[n].key
    <3>1. Since(log, c.upto, n, k) /\ LastRow(log, n, k) = log[n].row
      BY <1>1, <2>1, LastStep DEF Since
    <3> QED BY <1>2, <2>1, <3>1 DEF After, ApplyChange
  <2>2. CASE k # log[n].key
    <3>1. Since(log, c.upto, n, k) <=> Since(log, c.upto, n - 1, k)
      BY <1>1, <2>2 DEF Since
    <3>2. LastRow(log, n, k) = LastRow(log, n - 1, k)
      BY <1>1, <2>2, LastStep
    <3> QED BY <1>2, <2>2, <3>1, <3>2 DEF After, ApplyChange
  <2> QED BY <2>1, <2>2
<1> QED BY <1>3 DEF After, ApplyChange

LEMMA AppliedIs ==
  ASSUME NEW c \in Copy, logged \in Seq(Change), NEW team, NEW upto \in c.upto .. Len(logged)
  PROVE  Applied(c, upto, team) =
            [c EXCEPT !.rows = After(c, logged, upto, team), !.upto = upto,
                      !.readers = @ \cup {team}]
<1> DEFINE lo == c.upto
           Next1(rows, i) == IF i = lo THEN c.rows ELSE ApplyChange(rows[i - 1], logged[i], team)
           w == [i \in lo .. upto |-> After(c, logged, i, team)]
           f == CHOOSE f : f = [i \in lo .. upto |-> Next1(f, i)]
<1>1. lo \in Nat /\ upto \in Nat /\ lo <= upto /\ c.rows = [k \in RowKey |-> c.rows[k]]
  BY DEF Copy
<1>2. After(c, logged, lo, team) = c.rows
  BY <1>1 DEF After, Since
<1>3. \A i \in lo + 1 .. upto :
          After(c, logged, i, team) = ApplyChange(After(c, logged, i - 1, team), logged[i], team)
  BY <1>1, AfterStep
<1>4. \A i \in lo .. upto : w[i] = Next1(w, i)
  <2> SUFFICES ASSUME NEW i \in lo .. upto PROVE w[i] = Next1(w, i)
    OBVIOUS
  <2>1. CASE i = lo
    BY <1>2, <2>1
  <2>2. CASE i # lo
    <3>1. i \in lo + 1 .. upto /\ i - 1 \in lo .. upto
      BY <1>1, <2>2
    <3> QED BY <1>3, <2>2, <3>1
  <2> QED BY <2>1, <2>2
<1>5. w = [i \in lo .. upto |-> Next1(w, i)]
  BY <1>4
<1>6. f = [i \in lo .. upto |-> Next1(f, i)]
  <2> HIDE DEF Next1, w
  <2> QED BY <1>5
<1>7. Applied(c, upto, team) = [c EXCEPT !.rows = f[upto], !.upto = upto, !.readers = @ \cup {team}]
  BY Zenon DEF Applied
<1> HIDE DEF f, w
<1> DEFINE G == {i \in lo .. upto : f[i] = After(c, logged, i, team)}
<1>8. \A i \in lo .. upto : f[i] = Next1(f, i)
  BY Zenon, <1>6
<1>9. lo \in G
  BY <1>1, <1>2, <1>8
<1>10. ASSUME NEW i \in lo + 1 .. upto, i - 1 \in G PROVE i \in G
  <2>1. i \in lo .. upto /\ i # lo
    BY <1>1
  <2>2. f[i] = ApplyChange(f[i - 1], logged[i], team)
    BY <1>8, <2>1
  <2> QED BY <1>3, <1>10, <2>1, <2>2
<1>11. G \in SUBSET (lo .. upto)
  OBVIOUS
<1> HIDE DEF G, lo
<1>12. \A i \in lo .. upto : i \in G
  BY <1>1, <1>9, <1>10, <1>11, CountUp
<1>13. upto \in G
  BY <1>1, <1>12
<1> QED BY <1>7, <1>13 DEF G

\* A key's last change is after the first lo, or was the last one then.
LEMMA SinceIs ==
  ASSUME NEW log, NEW lo \in Nat, NEW n \in Nat, lo <= n, NEW k
  PROVE  /\ Since(log, lo, n, k) => \E i \in lo + 1 .. n : LastRow(log, n, k) = log[i].row
         /\ ~ Since(log, lo, n, k) => LastRow(log, n, k) = LastRow(log, lo, k)
<1>1. CASE Since(log, lo, n, k)
  <2>1. PICK i \in lo + 1 .. n : log[i].key = k
    BY <1>1 DEF Since
  <2>2. i \in Writes(log, n, k) /\ Writes(log, n, k) \in SUBSET (1 .. n)
    BY <2>1 DEF Writes
  <2>3. Max(Writes(log, n, k)) \in 1 .. n /\ i <= Max(Writes(log, n, k))
    BY <2>2, Latest
  <2>4. Max(Writes(log, n, k)) \in lo + 1 .. n
    BY <2>3
  <2> QED BY <1>1, <2>2, <2>4 DEF LastRow
<1>2. CASE ~ Since(log, lo, n, k)
  <2>1. Writes(log, n, k) = Writes(log, lo, k)
    BY <1>2 DEF Writes, Since
  <2> QED BY <1>2, <2>1 DEF LastRow
<1> QED BY <1>1, <1>2

\* A page of changes in the copy's schema, seen by a team, leaves a copy.
LEMMA AppliedHolds ==
  ASSUME LogIsStored, NEW c, Held(c, logged, build),
         NEW team \in Viewer, NEW upto \in c.upto .. Len(logged),
         \A i \in c.upto + 1 .. upto : logged[i].row # None => logged[i].row.shape = c.build
  PROVE  Held(Applied(c, upto, team), logged, build)
<1> DEFINE d == Applied(c, upto, team)
<1>1. /\ c \in Copy /\ logged \in Seq(Change)
      /\ c.upto \in Nat /\ c.build \in 1 .. LastBuild /\ c.team \in Viewer
      /\ c.readers \in SUBSET Viewer /\ c.team \in c.readers
      /\ c.rows \in [RowKey -> SentRow \cup {None}]
  BY DEF LogIsStored, Held, CopyOK, Copy
<1>2. upto \in Nat /\ c.upto <= upto /\ upto \in 0 .. Len(logged) /\ c.upto \in 0 .. Len(logged)
  BY <1>1
<1>3. d = [c EXCEPT !.rows = After(c, logged, upto, team), !.upto = upto, !.readers = @ \cup {team}]
  BY <1>1, AppliedIs
<1>4. /\ d.rows = After(c, logged, upto, team) /\ d.upto = upto
      /\ d.readers = c.readers \cup {team} /\ d.team = c.team /\ d.build = c.build
  BY <1>1, <1>3 DEF Copy
<1>5. After(c, logged, upto, team) \in [RowKey -> SentRow \cup {None}]
  <2>1. ASSUME NEW k \in RowKey
        PROVE  Shown(k, LastRow(logged, upto, k), team) \in SentRow \cup {None}
    <3>1. LastRow(logged, upto, k) \in PiRow \cup {None}
      BY <1>1, <1>2, LastRowIs
    <3> QED BY <3>1, ShownIs
  <2>2. \A k \in RowKey : c.rows[k] \in SentRow \cup {None}
    BY <1>1
  <2> QED BY <2>1, <2>2 DEF After
<1>6. d \in Copy
  <2>1. c.readers \cup {team} \in SUBSET Viewer
    BY <1>1
  <2>2. c = [rows |-> c.rows, team |-> c.team, build |-> c.build, readers |-> c.readers, upto |-> c.upto]
    BY <1>1 DEF Copy
  <2>3. d = [rows |-> After(c, logged, upto, team), team |-> c.team, build |-> c.build,
             readers |-> c.readers \cup {team}, upto |-> upto]
    BY <1>3, <2>2
  <2> QED BY <1>1, <1>2, <1>5, <2>1, <2>3 DEF Copy
<1> HIDE DEF d
<1>7. CopyOK(d, logged, build)
  BY <1>1, <1>2, <1>4, <1>6 DEF Held, CopyOK, NoOlder
<1>8. \A k \in RowKey : Since(logged, c.upto, upto, k) =>
          In(LastRow(logged, upto, k), c.build) = LastRow(logged, upto, k)
  <2> SUFFICES ASSUME NEW k \in RowKey, Since(logged, c.upto, upto, k)
               PROVE  In(LastRow(logged, upto, k), c.build) = LastRow(logged, upto, k)
    OBVIOUS
  <2>1. PICK i \in c.upto + 1 .. upto : LastRow(logged, upto, k) = logged[i].row
    BY <1>1, <1>2, SinceIs
  <2>2. LastRow(logged, upto, k) \in PiRow \cup {None}
    BY <1>1, <1>2, LastRowIs
  <2>3. CASE LastRow(logged, upto, k) = None
    BY <2>3 DEF In
  <2>4. CASE LastRow(logged, upto, k) # None
    <3>1. LastRow(logged, upto, k).shape = c.build
      BY <2>1, <2>4
    <3> QED BY <1>1, <2>2, <2>4, <3>1, InIs
  <2> QED BY <2>3, <2>4
<1>9. \A k \in RowKey : ~ Since(logged, c.upto, upto, k) =>
          LastRow(logged, upto, k) = LastRow(logged, c.upto, k)
  BY <1>1, <1>2, SinceIs
<1>10. ASSUME d.readers = {d.team}
       PROVE  d.rows = CutFor(Tables(logged, d.upto, d.build), d.team)
  <2>1. c.readers = {c.team} /\ team = c.team
    BY <1>1, <1>4, <1>10
  <2>2. c.rows = CutFor(Tables(logged, c.upto, c.build), team)
    BY <2>1 DEF Held, IsTheCut
  <2>3. ASSUME NEW k \in RowKey
        PROVE  After(c, logged, upto, team)[k] = CutFor(Tables(logged, upto, c.build), team)[k]
    <3>1. c.rows[k] = IF Sent(k, team) THEN Shown(k, In(LastRow(logged, c.upto, k), c.build), team)
                      ELSE None
      BY <2>2, CutAt
    <3>2. CutFor(Tables(logged, upto, c.build), team)[k] =
              IF Sent(k, team) THEN Shown(k, In(LastRow(logged, upto, k), c.build), team) ELSE None
      BY CutAt
    <3>3. After(c, logged, upto, team)[k] =
              IF Sent(k, team) /\ Since(logged, c.upto, upto, k)
              THEN Shown(k, LastRow(logged, upto, k), team) ELSE c.rows[k]
      BY DEF After
    <3> QED BY <1>8, <1>9, <3>1, <3>2, <3>3
  <2> QED BY <1>4, <2>1, <2>3 DEF After, CutFor
<1>11. ASSUME NEW k \in RowKey, d.rows[k] # None
       PROVE  \E t \in d.readers, n \in 1 .. d.upto :
                  d.rows[k] = CutFor(Tables(logged, n, d.build), t)[k]
  <2>1. After(c, logged, upto, team)[k] =
            IF Sent(k, team) /\ Since(logged, c.upto, upto, k)
            THEN Shown(k, LastRow(logged, upto, k), team) ELSE c.rows[k]
    BY DEF After
  <2>2. CASE Sent(k, team) /\ Since(logged, c.upto, upto, k)
    <3>1. d.rows[k] = CutFor(Tables(logged, upto, c.build), team)[k]
      BY <1>4, <1>8, <2>1, <2>2, CutAt
    <3>2. upto \in 1 .. upto
      BY <1>1, <1>2, <2>2 DEF Since
    <3> QED BY <1>4, <3>1, <3>2
  <2>3. CASE ~ (Sent(k, team) /\ Since(logged, c.upto, upto, k))
    <3>1. d.rows[k] = c.rows[k]
      BY <1>4, <2>1, <2>3
    <3>2. PICK t \in c.readers, n \in 1 .. c.upto :
              c.rows[k] = CutFor(Tables(logged, n, c.build), t)[k]
      BY <1>11, <3>1 DEF Held, IsTheCut
    <3>3. t \in d.readers /\ n \in 1 .. d.upto
      BY <1>1, <1>2, <1>4
    <3> QED BY <1>4, <3>1, <3>2, <3>3
  <2> QED BY <2>2, <2>3
<1>12. IsTheCut(d, logged) /\ d.team \in d.readers
  BY <1>1, <1>4, <1>10, <1>11 DEF IsTheCut
<1> QED BY <1>7, <1>12 DEF Held, d

-----------------------------------------------------------------------------
(* The steps. *)

LEMMA CopyIsThere == ASSUME NEW c \in Copy PROVE c # None
BY ReplicaAssumption

LEMMA Basics ==
  ASSUME RInv
  PROVE  build \in 1 .. LastBuild /\ logged \in Seq(Change) /\ Len(logged) \in Nat
BY DEF RInv, ReplicaTypeOK, LogIsStored

LEMMA InitHolds == ReplicaInit => RInv
<1> SUFFICES ASSUME ReplicaInit PROVE RInv
  OBVIOUS
<1>1. ReplicaTypeOK
  BY ReplicaAssumption DEF ReplicaInit, ReplicaTypeOK, NoPull, Idle, LastBuild
<1>2. Shapes
  BY DEF ReplicaInit, Shapes, NoPull, Idle
<1>3. LogIsStored
  <2>1. Tables(<<>>, 0, 1) = [k \in RowKey |-> None]
    BY DEF Tables, LastRow, Writes, In
  <2> QED BY <2>1 DEF ReplicaInit, LogIsStored
<1>4. HandoutsAreCuts /\ DownloadsHold /\ PullHolds /\ CopyHolds
  BY DEF ReplicaInit, HandoutsAreCuts, DownloadsHold, PullHolds, CopyHolds, NoPull, Idle
<1> QED BY <1>1, <1>2, <1>3, <1>4 DEF RInv

\* A row is written or deleted on the Pi.
LEMMA RecordHolds ==
  ASSUME RInv, NEW k \in RowKey, NEW row \in PiRow \cup {None},
         row # None => row.shape = build, Record(k, row)
  PROVE  RInv'
<1> DEFINE c == [key |-> k, row |-> row]
           N == Len(logged)
<1>1. build \in 1 .. LastBuild /\ logged \in Seq(Change) /\ N \in Nat
  BY Basics
<1>2. /\ logged' = Append(logged, c) /\ stored' = [stored EXCEPT ![k] = row] /\ N < MaxLog
      /\ UNCHANGED <<build, handouts, holder, loaded, downloads, copy, meta, pulling>>
  BY DEF Record
<1>3. c \in Change /\ c.key = k /\ c.row = row
  BY DEF Change
<1>4. ReplicaTypeOK' /\ Shapes'
  BY <1>1, <1>2, ReplicaAssumption DEF RInv, ReplicaTypeOK, Shapes
<1>5. LogIsStored'
  <2>1. logged' \in Seq(Change) /\ Len(logged') = N + 1 /\ logged'[N + 1] = c
        /\ \A i \in 1 .. N : logged'[i] = logged[i]
    BY <1>1, <1>2, <1>3
  <2>2. ASSUME NEW i \in 1 .. Len(logged'), logged'[i].row # None
        PROVE  logged'[i].row.shape <= build'
    <3>1. CASE i = N + 1
      BY <1>1, <1>2, <1>3, <2>1, <2>2, <3>1
    <3>2. CASE i # N + 1
      <4>1. i \in 1 .. N /\ logged'[i] = logged[i]
        BY <1>1, <2>1, <3>2
      <4> QED BY <1>2, <2>2, <4>1 DEF RInv, LogIsStored
    <3> QED BY <3>1, <3>2
  <2>3. ASSUME NEW j \in RowKey
        PROVE  stored'[j] = In(LastRow(logged', N + 1, j), build)
    <3>1. LastRow(logged', N + 1, j) = IF j = k THEN row ELSE LastRow(logged', N, j)
      BY <1>1, <1>3, <2>1, LastStep
    <3>2. j # k => In(LastRow(logged', N, j), build) = In(LastRow(logged, N, j), build)
      <4>1. Tables(logged', N, build) = Tables(logged, N, build)
        BY <1>1, <1>2, TablesStay
      <4> QED BY <4>1 DEF Tables
    <3>3. stored = Tables(logged, N, build)
      BY DEF RInv, LogIsStored
    <3>4. CASE j = k
      <4>1. In(row, build) = row
        BY <1>1, InIs DEF In
      <4> QED BY <1>2, <3>1, <3>3, <3>4, <4>1 DEF Tables
    <3>5. CASE j # k
      BY <1>2, <3>1, <3>2, <3>3, <3>5 DEF Tables
    <3> QED BY <3>4, <3>5
  <2>4. stored' = [j \in RowKey |-> stored'[j]]
    BY <1>2 DEF RInv, LogIsStored, Tables
  <2>5. stored' = Tables(logged', Len(logged'), build')
    BY <1>2, <2>1, <2>3, <2>4 DEF Tables
  <2> QED BY <2>1, <2>2, <2>5 DEF LogIsStored
<1>6. \A h : Held(h, logged, build) => Held(h, logged', build')
  BY <1>1, <1>2, <1>3, HeldStays
<1>7. HandoutsAreCuts'
  <2> SUFFICES ASSUME NEW t \in Viewer, handouts[t] # None
               PROVE  /\ CopyOK(handouts[t], logged', build)
                      /\ handouts[t].team = t
                      /\ handouts[t].rows = CutFor(Tables(logged', handouts[t].upto, handouts[t].build), t)
    BY <1>2 DEF HandoutsAreCuts
  <2>1. /\ CopyOK(handouts[t], logged, build) /\ handouts[t].team = t
        /\ handouts[t].rows = CutFor(Tables(logged, handouts[t].upto, handouts[t].build), t)
    BY DEF RInv, HandoutsAreCuts
  <2>2. CopyOK(handouts[t], logged', build)
    BY <1>1, <1>2, <1>3, <2>1, CopyStays
  <2>3. handouts[t].upto \in 0 .. N
    BY <1>1, <2>1 DEF CopyOK, Copy
  <2>4. Tables(logged', handouts[t].upto, handouts[t].build) = Tables(logged, handouts[t].upto, handouts[t].build)
    BY <1>1, <1>2, <2>3, TablesStay
  <2> QED BY <2>1, <2>2, <2>4
<1>8. DownloadsHold' /\ CopyHolds'
  BY <1>2, <1>6 DEF RInv, DownloadsHold, CopyHolds
<1>9. PullHolds'
  <2>1. pulling.at # "idle" => Held(pulling.held, logged', build') /\ copy # None
    BY <1>6 DEF RInv, PullHolds
  <2>2. ASSUME pulling.at = "answered"
        PROVE  /\ pulling.upto \in pulling.held.upto .. Len(logged') /\ pulling.team \in Viewer
               /\ \A i \in pulling.held.upto + 1 .. pulling.upto :
                      logged'[i].row # None => logged'[i].row.shape = pulling.held.build
    <3>1. /\ pulling.upto \in pulling.held.upto .. N /\ pulling.team \in Viewer
          /\ \A i \in pulling.held.upto + 1 .. pulling.upto :
                logged[i].row # None => logged[i].row.shape = pulling.held.build
      BY <2>2 DEF RInv, PullHolds
    <3>2. pulling.held.upto \in Nat
      BY <2>2 DEF RInv, PullHolds, Held, CopyOK, Copy
    <3>3. \A i \in pulling.held.upto + 1 .. pulling.upto : logged'[i] = logged[i]
      BY <1>1, <1>2, <3>1, <3>2
    <3>4. Len(logged') = N + 1
      BY <1>1, <1>2
    <3> QED BY <1>1, <3>1, <3>2, <3>3, <3>4
  <2> QED BY <1>2, <2>1, <2>2 DEF PullHolds
<1> QED BY <1>4, <1>5, <1>7, <1>8, <1>9 DEF RInv

\* The Pi restarts on a newer build.
LEMMA UpgradeHolds == ASSUME RInv, Upgrade PROVE RInv'
<1>1. build \in 1 .. LastBuild /\ logged \in Seq(Change) /\ Len(logged) \in 0 .. Len(logged)
  BY Basics
<1>2. /\ build' = build + 1 /\ build' \in 1 .. LastBuild
      /\ stored' = Reshape(stored, build') /\ handouts' = [t \in Viewer |-> None]
      /\ UNCHANGED <<logged, holder, loaded, downloads, copy, meta, pulling>>
  BY <1>1 DEF Upgrade, LastBuild
<1>3. ReplicaTypeOK' /\ Shapes'
  BY <1>1, <1>2 DEF RInv, ReplicaTypeOK, Shapes
<1>4. LogIsStored'
  <2>1. stored' = Tables(logged, Len(logged), build')
    BY <1>1, <1>2, Reshaped DEF RInv, LogIsStored
  <2>2. \A i \in 1 .. Len(logged) : logged[i].row # None => logged[i].row.shape <= build'
    <3> SUFFICES ASSUME NEW i \in 1 .. Len(logged), logged[i].row # None
                 PROVE  logged[i].row.shape <= build'
      OBVIOUS
    <3>1. logged[i].row \in PiRow /\ logged[i].row.shape <= build
      BY <1>1, ChangeIs DEF RInv, LogIsStored
    <3> QED BY <1>1, <1>2, <3>1 DEF PiRow
  <2> QED BY <1>1, <1>2, <2>1, <2>2 DEF LogIsStored
<1>5. \A h : Held(h, logged, build) => Held(h, logged', build')
  <2>1. build \in Nat /\ build' \in Nat /\ build <= build'
    BY <1>1, <1>2
  <2> QED BY <1>2, <2>1, HeldUpgrades
<1>6. HandoutsAreCuts'
  BY <1>2 DEF HandoutsAreCuts
<1>7. DownloadsHold' /\ CopyHolds' /\ PullHolds'
  BY <1>2, <1>5 DEF RInv, DownloadsHold, CopyHolds, PullHolds
<1> QED BY <1>3, <1>4, <1>6, <1>7 DEF RInv

\* The Pi's tables and its log as they are, so is what holds of a copy.
LEMMA PiStands ==
  ASSUME RInv, UNCHANGED <<build, stored, logged>>
  PROVE  LogIsStored' /\ \A h : Held(h, logged', build') <=> Held(h, logged, build)
BY DEF RInv, LogIsStored

LEMMA GoesStaleHolds == ASSUME RInv, NEW t \in Viewer, GoesStale(t) PROVE RInv'
<1>1. /\ handouts' = [handouts EXCEPT ![t] = None]
      /\ UNCHANGED <<build, stored, logged, holder, loaded, downloads, copy, meta, pulling>>
  BY DEF GoesStale
<1>2. ReplicaTypeOK' /\ Shapes'
  BY <1>1 DEF RInv, ReplicaTypeOK, Shapes
<1>3. HandoutsAreCuts'
  BY <1>1 DEF RInv, HandoutsAreCuts, Shapes
<1>4. DownloadsHold' /\ CopyHolds' /\ PullHolds'
  BY <1>1 DEF RInv, DownloadsHold, CopyHolds, PullHolds
<1> QED BY <1>1, <1>2, <1>3, <1>4, PiStands DEF RInv

LEMMA SignInHolds == ASSUME RInv, NEW who \in Viewer \cup {Nobody}, SignIn(who) PROVE RInv'
<1>1. holder' = who /\ UNCHANGED <<build, stored, logged, handouts, loaded, downloads, copy, meta, pulling>>
  BY DEF SignIn
<1>2. ReplicaTypeOK' /\ Shapes'
  BY <1>1 DEF RInv, ReplicaTypeOK, Shapes
<1>3. HandoutsAreCuts' /\ DownloadsHold' /\ CopyHolds' /\ PullHolds'
  BY <1>1 DEF RInv, HandoutsAreCuts, DownloadsHold, CopyHolds, PullHolds
<1> QED BY <1>1, <1>2, <1>3, PiStands DEF RInv

\* Steps of the pages that neither bring a snapshot nor save one.
LEMMA PagesHold ==
  ASSUME RInv, UNCHANGED <<build, stored, logged, handouts, holder, copy, meta>>,
         loaded' \in {loaded, build}, pulling' \in {pulling, NoPull},
         downloads' \in [Tab -> [at : {"idle", "asked", "answered", "saved"}, snapshot : Copy \cup {None}]],
         \A b \in Tab : downloads'[b].at \in {"answered", "saved"} => downloads'[b] = downloads[b]
  PROVE  RInv'
<1>1. build \in 1 .. LastBuild
  BY Basics
<1>2. ReplicaTypeOK' /\ Shapes'
  <2>1. loaded' \in 1 .. build' /\ pulling'.at \in {"idle", "opened", "answered"}
    BY <1>1 DEF RInv, ReplicaTypeOK, NoPull
  <2>2. \A b \in Tab : downloads'[b].at \in {"idle", "asked", "answered", "saved"}
    OBVIOUS
  <2> QED BY <2>1, <2>2 DEF RInv, ReplicaTypeOK, Shapes, NoPull
<1>3. HandoutsAreCuts' /\ CopyHolds'
  BY DEF RInv, HandoutsAreCuts, CopyHolds
<1>4. DownloadsHold'
  BY DEF RInv, DownloadsHold
<1>5. PullHolds'
  BY DEF RInv, PullHolds, NoPull
<1> QED BY <1>2, <1>3, <1>4, <1>5, PiStands DEF RInv

LEMMA ReloadHolds == ASSUME RInv, Reload PROVE RInv'
<1>1. loaded' = build /\ downloads' = [b \in Tab |-> Idle]
      /\ UNCHANGED <<build, stored, logged, handouts, holder, copy, meta, pulling>>
  BY DEF Reload
<1> QED BY <1>1, PagesHold DEF Idle

LEMMA DownloadTurns ==
  ASSUME RInv, NEW b \in Tab, NEW d, downloads' = [downloads EXCEPT ![b] = d],
         d \in {Idle, [downloads[b] EXCEPT !.at = "asked"]}
  PROVE  /\ downloads' \in [Tab -> [at : {"idle", "asked", "answered", "saved"}, snapshot : Copy \cup {None}]]
         /\ \A x \in Tab : downloads'[x].at \in {"answered", "saved"} => downloads'[x] = downloads[x]
BY DEF RInv, Shapes, Idle

LEMMA AskSnapshotHolds == ASSUME RInv, NEW b \in Tab, AskSnapshot(b) PROVE RInv'
<1>1. downloads' = [downloads EXCEPT ![b] = [downloads[b] EXCEPT !.at = "asked"]]
      /\ UNCHANGED <<build, stored, logged, handouts, holder, loaded, copy, meta, pulling>>
  BY DEF AskSnapshot
<1> QED BY <1>1, DownloadTurns, PagesHold

LEMMA EndDownloadHolds == ASSUME RInv, NEW b \in Tab, EndDownload(b) PROVE RInv'
<1>1. downloads' = [downloads EXCEPT ![b] = Idle]
      /\ UNCHANGED <<build, stored, logged, handouts, holder, loaded, copy, meta, pulling>>
  BY DEF EndDownload
<1> QED BY <1>1, DownloadTurns, PagesHold

LEMMA PullRefusedHolds == ASSUME RInv, NEW b \in Tab, PullRefused(b) PROVE RInv'
<1>1. /\ downloads' = [downloads EXCEPT ![b] = [downloads[b] EXCEPT !.at = "asked"]] /\ pulling' = NoPull
      /\ UNCHANGED <<build, stored, logged, handouts, holder, loaded, copy, meta>>
  BY DEF PullRefused
<1> QED BY <1>1, DownloadTurns, PagesHold

LEMMA PullEndsHolds == ASSUME RInv, PullEnds PROVE RInv'
<1>1. pulling' = NoPull
      /\ UNCHANGED <<build, stored, logged, handouts, holder, loaded, downloads, copy, meta>>
  BY DEF PullEnds
<1> QED BY <1>1, PagesHold DEF RInv, Shapes

\* A snapshot for a team, cut now or kept, is a cut for it.
LEMMA HandoutIs ==
  ASSUME RInv, NEW t \in Viewer
  PROVE  /\ CopyOK(Handout(t), logged, build) /\ Handout(t).team = t
         /\ Handout(t).rows = CutFor(Tables(logged, Handout(t).upto, Handout(t).build), t)
<1>1. build \in 1 .. LastBuild /\ logged \in Seq(Change) /\ Len(logged) \in 0 .. Len(logged)
  BY Basics
<1>2. CASE handouts[t] # None
  BY <1>2 DEF Handout, RInv, HandoutsAreCuts
<1>3. CASE handouts[t] = None
  <2>1. stored = Tables(logged, Len(logged), build)
    BY DEF RInv, LogIsStored
  <2>2. CutFor(stored, t) \in [RowKey -> SentRow \cup {None}]
    BY <1>1, <2>1, TablesType, CutType
  <2>3. Cut(t) \in Copy
    BY <1>1, <2>2 DEF Cut, Copy
  <2>4. NoOlder(logged, Len(logged), build)
    BY <1>1 DEF NoOlder
  <2>5. Handout(t) = Cut(t)
    BY <1>3 DEF Handout
  <2>6. Cut(t).upto = Len(logged) /\ Cut(t).build = build /\ Cut(t).team = t /\ Cut(t).rows = CutFor(stored, t)
    BY DEF Cut
  <2> QED BY <1>1, <2>1, <2>3, <2>4, <2>5, <2>6 DEF CopyOK
<1> QED BY <1>2, <1>3

\* As it arrives at a page, it holds of a copy what CopyIsTheCut says.
LEMMA SnapshotHeld ==
  ASSUME RInv, NEW t \in Viewer
  PROVE  Held([Handout(t) EXCEPT !.readers = {t}], logged, build)
<1> DEFINE h == Handout(t)
           d == [h EXCEPT !.readers = {t}]
<1>1. /\ CopyOK(h, logged, build) /\ h.team = t
      /\ h.rows = CutFor(Tables(logged, h.upto, h.build), t)
  BY HandoutIs
<1> HIDE DEF h
<1>2. h \in Copy /\ h.upto \in Nat
  BY <1>1 DEF CopyOK, Copy
<1>3. /\ d \in Copy /\ d.rows = h.rows /\ d.upto = h.upto /\ d.build = h.build
      /\ d.team = t /\ d.readers = {t}
  BY <1>1, <1>2 DEF Copy
<1> HIDE DEF d
<1>4. CopyOK(d, logged, build)
  BY <1>1, <1>3 DEF CopyOK
<1>5. ASSUME NEW k \in RowKey, d.rows[k] # None
      PROVE  \E team \in d.readers, n \in 1 .. d.upto :
                 d.rows[k] = CutFor(Tables(logged, n, d.build), team)[k]
  <2>1. h.upto # 0
    <3> SUFFICES ASSUME h.upto = 0 PROVE FALSE
      OBVIOUS
    <3>1. LastRow(logged, 0, k) = None
      BY DEF LastRow, Writes
    <3>2. In(LastRow(logged, 0, k), h.build) = None
      BY <3>1 DEF In
    <3>3. CutFor(Tables(logged, 0, h.build), t)[k] =
              IF Sent(k, t) THEN Shown(k, In(LastRow(logged, 0, k), h.build), t) ELSE None
      BY CutAt
    <3>4. CutFor(Tables(logged, 0, h.build), t)[k] = None
      BY <3>2, <3>3 DEF Shown
    <3> QED BY <1>1, <1>3, <1>5, <3>4
  <2>2. d.upto \in 1 .. d.upto
    BY <1>2, <1>3, <2>1
  <2> QED BY <1>1, <1>3, <2>2
<1>6. IsTheCut(d, logged)
  BY <1>1, <1>3, <1>5 DEF IsTheCut
<1> QED BY <1>3, <1>4, <1>6 DEF Held, d, h

LEMMA AnswerSnapshotHolds == ASSUME RInv, NEW b \in Tab, AnswerSnapshot(b) PROVE RInv'
<1> DEFINE d == [Handout(holder) EXCEPT !.readers = {holder}]
           a == [at |-> "answered", snapshot |-> d]
<1>1. /\ handouts' = [handouts EXCEPT ![holder] = Handout(holder)]
      /\ downloads' = [downloads EXCEPT ![b] = a]
      /\ UNCHANGED <<build, stored, logged, holder, loaded, copy, meta, pulling>>
  BY DEF AnswerSnapshot
<1>2. holder \in Viewer
  BY DEF AnswerSnapshot, RInv, ReplicaTypeOK
<1>3. Held(d, logged, build)
  BY <1>2, SnapshotHeld
<1>4. /\ CopyOK(Handout(holder), logged, build) /\ Handout(holder).team = holder
      /\ Handout(holder).rows = CutFor(Tables(logged, Handout(holder).upto, Handout(holder).build), holder)
  BY <1>2, HandoutIs
<1>5. d \in Copy /\ Handout(holder) \in Copy
  BY <1>3, <1>4 DEF Held, CopyOK
<1> HIDE DEF d
<1>6. Shapes'
  BY <1>1, <1>2, <1>5 DEF RInv, Shapes
<1>7. ReplicaTypeOK'
  BY <1>1, <1>6 DEF RInv, ReplicaTypeOK, Shapes
<1>8. HandoutsAreCuts'
  BY <1>1, <1>4 DEF RInv, HandoutsAreCuts, Shapes
<1>9. DownloadsHold'
  BY <1>1, <1>3 DEF RInv, DownloadsHold, Shapes
<1>10. PullHolds' /\ CopyHolds'
  BY <1>1 DEF RInv, PullHolds, CopyHolds
<1> QED BY <1>1, <1>6, <1>7, <1>8, <1>9, <1>10, PiStands DEF RInv

LEMMA SaveSnapshotHolds == ASSUME RInv, NEW b \in Tab, SaveSnapshot(b) PROVE RInv'
<1>1. /\ downloads[b].at = "answered" /\ copy' = downloads[b].snapshot
      /\ downloads' = [downloads EXCEPT ![b] = [at |-> "saved", snapshot |-> None]]
      /\ UNCHANGED <<build, stored, logged, handouts, holder, loaded, meta, pulling>>
  BY DEF SaveSnapshot
<1>2. Held(copy', logged, build)
  BY <1>1 DEF RInv, DownloadsHold
<1>3. copy' # None
  BY <1>2, CopyIsThere DEF Held, CopyOK
<1>4. Shapes'
  BY <1>1 DEF RInv, Shapes
<1>5. ReplicaTypeOK'
  BY <1>1, <1>3, <1>4 DEF RInv, ReplicaTypeOK, Shapes
<1>6. DownloadsHold'
  BY <1>1, <1>3 DEF RInv, DownloadsHold, Shapes
<1>7. HandoutsAreCuts' /\ PullHolds' /\ CopyHolds'
  BY <1>1, <1>2, <1>3 DEF RInv, HandoutsAreCuts, PullHolds, CopyHolds
<1> QED BY <1>1, <1>4, <1>5, <1>6, <1>7, PiStands DEF RInv

LEMMA SaveMetaHolds == ASSUME RInv, NEW b \in Tab, SaveMeta(b) PROVE RInv'
<1>1. /\ downloads[b].at = "saved" /\ meta' = TRUE
      /\ downloads' = [downloads EXCEPT ![b] = Idle]
      /\ UNCHANGED <<build, stored, logged, handouts, holder, loaded, copy, pulling>>
  BY DEF SaveMeta
<1>2. copy # None
  BY <1>1 DEF RInv, DownloadsHold
<1>3. Shapes'
  BY <1>1 DEF RInv, Shapes, Idle
<1>4. ReplicaTypeOK'
  BY <1>1, <1>2, <1>3 DEF RInv, ReplicaTypeOK, Shapes
<1>5. DownloadsHold' /\ HandoutsAreCuts' /\ PullHolds' /\ CopyHolds'
  BY <1>1 DEF RInv, DownloadsHold, Shapes, Idle, HandoutsAreCuts, PullHolds, CopyHolds
<1> QED BY <1>1, <1>3, <1>4, <1>5, PiStands DEF RInv

-----------------------------------------------------------------------------
(* The pull. *)

LEMMA PullOpensHolds == ASSUME RInv, PullOpens PROVE RInv'
<1>1. /\ copy # None /\ pulling' = [NoPull EXCEPT !.at = "opened", !.held = copy]
      /\ UNCHANGED <<build, stored, logged, handouts, holder, loaded, downloads, copy, meta>>
  BY DEF PullOpens
<1>2. Held(copy, logged, build) /\ copy \in Copy
  BY <1>1 DEF RInv, CopyHolds, Held, CopyOK
<1>3. pulling' = [at |-> "opened", held |-> copy, upto |-> 0, team |-> None]
  BY <1>1 DEF NoPull
<1>4. ReplicaTypeOK' /\ Shapes'
  BY <1>1, <1>2, <1>3 DEF RInv, ReplicaTypeOK, Shapes
<1>5. HandoutsAreCuts' /\ DownloadsHold' /\ CopyHolds'
  BY <1>1 DEF RInv, HandoutsAreCuts, DownloadsHold, CopyHolds
<1>6. PullHolds'
  BY <1>1, <1>2, <1>3 DEF PullHolds
<1> QED BY <1>1, <1>4, <1>5, <1>6, PiStands DEF RInv

\* What the Pi answers with was logged by the build it runs, which is the
\* copy's, or in an older one the copy has no rows to get from.
LEMMA PullAnsweredHolds == ASSUME RInv, PullAnswered PROVE RInv'
<1> DEFINE c == pulling.held
<1>1. PICK n \in c.upto .. Len(logged) :
          pulling' = [pulling EXCEPT !.at = "answered", !.upto = n, !.team = holder]
  BY DEF PullAnswered
<1>2. /\ pulling.at = "opened" /\ holder \in Viewer /\ c.build = build
      /\ UNCHANGED <<build, stored, logged, handouts, holder, loaded, downloads, copy, meta>>
  BY DEF PullAnswered, Accepts, RInv, ReplicaTypeOK
<1>3. Held(c, logged, build) /\ copy # None
  BY <1>2 DEF RInv, PullHolds
<1>4. c.upto \in Nat /\ n \in Nat /\ logged \in Seq(Change) /\ build \in 1 .. LastBuild
  BY <1>3, Basics DEF Held, CopyOK, Copy
<1>5. pulling \in [at : {"idle", "opened", "answered"}, held : Copy \cup {None}, upto : Nat,
                   team : Viewer \cup {None}]
  BY DEF RInv, Shapes
<1>6. /\ pulling'.at = "answered" /\ pulling'.held = c /\ pulling'.upto = n /\ pulling'.team = holder
      /\ pulling' \in [at : {"idle", "opened", "answered"}, held : Copy \cup {None}, upto : Nat,
                       team : Viewer \cup {None}]
  BY <1>1, <1>2, <1>4, <1>5
<1>7. ASSUME NEW i \in c.upto + 1 .. n, logged[i].row # None PROVE logged[i].row.shape = build
  <2>1. i \in 1 .. Len(logged) /\ i \in c.upto + 1 .. Len(logged)
    BY <1>4
  <2>2. logged[i].row \in PiRow
    BY <1>4, <1>7, <2>1, ChangeIs
  <2>3. build <= logged[i].row.shape
    BY <1>2, <1>3, <1>7, <2>1 DEF Held, CopyOK, NoOlder
  <2>4. logged[i].row.shape <= build
    BY <1>7, <2>1 DEF RInv, LogIsStored
  <2> QED BY <1>4, <2>2, <2>3, <2>4 DEF PiRow
<1>8. ReplicaTypeOK' /\ Shapes'
  BY <1>2, <1>6 DEF RInv, ReplicaTypeOK, Shapes
<1>9. HandoutsAreCuts' /\ DownloadsHold' /\ CopyHolds'
  BY <1>2 DEF RInv, HandoutsAreCuts, DownloadsHold, CopyHolds
<1>10. PullHolds'
  <2> HIDE DEF c
  <2> QED BY <1>1, <1>2, <1>3, <1>6, <1>7 DEF PullHolds
<1> QED BY <1>2, <1>8, <1>9, <1>10, PiStands DEF RInv

LEMMA PullAppliedHolds == ASSUME RInv, PullApplied PROVE RInv'
<1> DEFINE c == pulling.held
           d == Applied(c, pulling.upto, pulling.team)
<1>1. /\ pulling.at = "answered" /\ copy' = d
      /\ UNCHANGED <<build, stored, logged, handouts, holder, loaded, downloads, meta>>
      /\ pulling' \in {NoPull, [NoPull EXCEPT !.at = "opened", !.held = copy']}
  BY DEF PullApplied
<1>2. /\ Held(c, logged, build) /\ pulling.upto \in c.upto .. Len(logged) /\ pulling.team \in Viewer
      /\ \A i \in c.upto + 1 .. pulling.upto : logged[i].row # None => logged[i].row.shape = c.build
      /\ LogIsStored
  BY <1>1 DEF RInv, PullHolds
<1> HIDE DEF c
<1>3. Held(d, logged, build)
  BY <1>2, AppliedHolds
<1>4. d \in Copy /\ d # None
  BY <1>3, CopyIsThere DEF Held, CopyOK
<1> HIDE DEF d
<1>5. pulling' \in {NoPull, [at |-> "opened", held |-> d, upto |-> 0, team |-> None]}
  BY <1>1 DEF NoPull
<1>6. Shapes'
  BY <1>1, <1>4, <1>5 DEF RInv, Shapes, NoPull
<1>7. ReplicaTypeOK'
  BY <1>1, <1>4, <1>6 DEF RInv, ReplicaTypeOK, Shapes
<1>8. HandoutsAreCuts' /\ DownloadsHold' /\ CopyHolds'
  BY <1>1, <1>3, <1>4 DEF RInv, HandoutsAreCuts, DownloadsHold, CopyHolds
<1>9. PullHolds'
  BY <1>1, <1>3, <1>4, <1>5 DEF PullHolds, NoPull
<1> QED BY <1>1, <1>6, <1>7, <1>8, <1>9, PiStands DEF RInv

-----------------------------------------------------------------------------
(* The theorems. *)

LEMMA StepHolds == ASSUME RInv, [ReplicaNext]_replicaVars PROVE RInv'
<1>1. CASE UNCHANGED replicaVars
  BY <1>1 DEF replicaVars, RInv, ReplicaTypeOK, Shapes, LogIsStored, HandoutsAreCuts, DownloadsHold,
              PullHolds, CopyHolds
<1>2. ASSUME NEW k \in RowKey, Upsert(k) \/ Delete(k) PROVE RInv'
  <2>1. build \in 1 .. LastBuild /\ Len(logged) \in Nat
    BY Basics
  <2>2. CASE Upsert(k)
    <3>1. [version |-> Len(logged) + 1, shape |-> build] \in PiRow
      BY <2>1 DEF PiRow
    <3> QED BY <2>2, <3>1, RecordHolds DEF Upsert
  <2>3. CASE Delete(k)
    BY <2>3, RecordHolds DEF Delete
  <2> QED BY <1>2, <2>2, <2>3
<1>3. ASSUME NEW b \in Tab,
             AskSnapshot(b) \/ AnswerSnapshot(b) \/ SaveSnapshot(b) \/ SaveMeta(b)
             \/ EndDownload(b) \/ PullRefused(b)
      PROVE  RInv'
  BY <1>3, AskSnapshotHolds, AnswerSnapshotHolds, SaveSnapshotHolds, SaveMetaHolds,
     EndDownloadHolds, PullRefusedHolds
<1>4. CASE PullOpens \/ PullAnswered \/ PullApplied \/ PullEnds
  BY <1>4, PullOpensHolds, PullAnsweredHolds, PullAppliedHolds, PullEndsHolds
<1>5. CASE Upgrade \/ Reload \/ (\E t \in Viewer : GoesStale(t))
           \/ (\E who \in Viewer \cup {Nobody} : SignIn(who))
  BY <1>5, UpgradeHolds, ReloadHolds, GoesStaleHolds, SignInHolds
<1> QED BY <1>1, <1>2, <1>3, <1>4, <1>5 DEF ReplicaNext

\* Every copy, snapshot and pull is of a moment of the log, and in a schema of
\* its own: what CopyIsTheCut rests on (tt-web/src/snapshot.rs, tt-client's sync).
THEOREM ReplicaInvariant == ReplicaSpec => []RInv
<1>1. ReplicaInit => RInv
  BY InitHolds
<1>2. RInv /\ [ReplicaNext]_replicaVars => RInv'
  BY StepHolds
<1> QED BY <1>1, <1>2, PTL DEF ReplicaSpec

\* What a device keeps and what it has under way is of its kind; with a meta
\* there is a copy.
THEOREM ReplicaTypes == ReplicaSpec => []ReplicaTypeOK
<1>1. RInv => ReplicaTypeOK
  BY DEF RInv
<1> QED BY <1>1, ReplicaInvariant, PTL

LEMMA RInvCut == RInv => CopyIsTheCut
<1> SUFFICES ASSUME RInv, copy # None PROVE CopyIsTheCut
  BY DEF CopyIsTheCut
<1>1. Held(copy, logged, build)
  BY DEF RInv, CopyHolds
<1>2. \A n : TablesAt(n, copy.build) = Tables(logged, n, copy.build)
  BY TablesIs
<1> QED BY <1>1, <1>2 DEF CopyIsTheCut, Held, CopyOK, IsTheCut

\* A device's copy is the tables of the Pi as they were at its cursor, as its
\* team may see them, or as its readers may, whatever is downloaded, pulled,
\* upgraded and signed in between (tt-repo-sqlite/src/snapshot.rs, sync.js).
THEOREM CopiesAreCuts == ReplicaSpec => []CopyIsTheCut
BY ReplicaInvariant, RInvCut, PTL
=============================================================================
