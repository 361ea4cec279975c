--------------------------- MODULE Courier_proofs ---------------------------
(* Proofs about Courier: for any tablets and clocks, any paths and bodies,    *)
(* any size of page, rows kept, time, crashes, restarts and late bundles.     *)
EXTENDS Courier, FiniteSetTheorems, FunctionTheorems, WellFoundedInduction, TLAPS

-----------------------------------------------------------------------------
(* Numbers and finite sets. *)

\* A set of numbers has a least one.
LEMMA Least == ASSUME NEW T \in SUBSET Nat, T # {} PROVE Min(T) \in T /\ \A y \in T : Min(T) <= y
<1> DEFINE R == OpToRel(<, Nat)
<1>1. IsWellFoundedOn(R, Nat)
  BY NatLessThanWellFounded
<1>2. \A n, m \in Nat : m < n => <<m, n>> \in R
  BY DEF OpToRel
<1> HIDE DEF R
<1>3. PICK n \in T : \A m \in T : ~ (<<m, n>> \in R)
  BY <1>1, WFMin
<1>4. \A m \in T : ~ (m < n)
  BY <1>2, <1>3
<1>5. \A m \in T : n <= m
  BY <1>4
<1> QED BY <1>5 DEF Min

\* What holds of 0, and of a number whenever of the one before, holds.
LEMMA CountUp ==
  ASSUME NEW k \in Nat, NEW G \in SUBSET (0 .. k), 0 \in G,
         \A n \in 1 .. k : n - 1 \in G => n \in G
  PROVE  k \in G
<1> SUFFICES ASSUME k \notin G PROVE FALSE
  OBVIOUS
<1> DEFINE T == (0 .. k) \ G
<1>1. T \in SUBSET Nat /\ k \in T
  OBVIOUS
<1>2. Min(T) \in T /\ \A n \in T : Min(T) <= n
  BY <1>1, Least
<1>3. Min(T) \in 1 .. k /\ Min(T) - 1 \notin T /\ Min(T) - 1 \in 0 .. k
  BY <1>2
<1> QED BY <1>2, <1>3

LEMMA ImagesAreFinite ==
  ASSUME NEW S, IsFiniteSet(S), NEW f, f = [x \in S |-> f[x]]
  PROVE  IsFiniteSet({f[x] : x \in S})
<1> DEFINE T == {f[x] : x \in S}
<1>1. f \in Surjection(S, T)
  BY DEF Surjection
<1> QED BY <1>1, FS_Surjection

\* A finite set of numbers has a greatest one.
LEMMA Greatest ==
  ASSUME NEW S \in SUBSET Nat, IsFiniteSet(S), S # {}
  PROVE  Max(S) \in S /\ \A x \in S : x <= Max(S)
<1> DEFINE Top(T) == \E m \in T : \A x \in T : x <= m
           k == Cardinality(S)
           G == {n \in 0 .. k : \A T \in SUBSET S : Cardinality(T) = n /\ T # {} => Top(T)}
<1>1. k \in Nat
  BY FS_CardinalityType
<1>2. 0 \in G
  <2> SUFFICES ASSUME NEW T \in SUBSET S, Cardinality(T) = 0, T # {} PROVE FALSE
    BY <1>1
  <2> QED BY FS_Subset, FS_EmptySet
<1>3. ASSUME NEW n \in 1 .. k, n - 1 \in G PROVE n \in G
  <2> SUFFICES ASSUME NEW T \in SUBSET S, Cardinality(T) = n, T # {} PROVE Top(T)
    BY <1>1
  <2>1. PICK x : x \in T
    OBVIOUS
  <2>2. IsFiniteSet(T) /\ Cardinality(T \ {x}) = n - 1 /\ T \ {x} \in SUBSET S
    BY <1>1, <2>1, FS_Subset, FS_RemoveElement
  <2>3. CASE T \ {x} = {}
    BY <2>1, <2>3
  <2>4. CASE T \ {x} # {}
    <3>1. PICK m \in T \ {x} : \A y \in T \ {x} : y <= m
      BY <1>3, <2>2, <2>4
    <3>2. m \in Nat /\ x \in Nat
      BY <2>1, <3>1
    <3>3. CASE x <= m
      BY <3>1, <3>3
    <3>4. CASE m <= x
      <4>1. \A y \in T : y \in Nat
        OBVIOUS
      <4> QED BY <2>1, <3>1, <3>2, <3>4, <4>1
    <3> QED BY <3>2, <3>3, <3>4
  <2> QED BY <2>3, <2>4
<1>4. G \in SUBSET (0 .. k)
  OBVIOUS
<1> HIDE DEF G
<1>5. k \in G
  BY <1>1, <1>2, <1>3, <1>4, CountUp
<1>6. \E m \in S : \A x \in S : m >= x
  BY <1>5 DEF G
<1> QED BY <1>6 DEF Max

-----------------------------------------------------------------------------
(* The log.                                                                  *)

\* Rows have numbers of their own, below the next.
LogOK(log) ==
    /\ log \in Log /\ IsFiniteSet(log.rows) /\ log.next >= 1
    /\ \A r \in log.rows : r.seq \in 1 .. log.next - 1
    /\ \A r, q \in log.rows : r.seq = q.seq => r = q

NewRow(log, e) == [seq |-> log.next, path |-> e.path, body |-> e.body, at |-> e.at, via |-> e.via]

IsEntry(e) == e.path \in Path /\ e.body \in Body /\ e.at \in Nat /\ e.via \in Via

LEMMA RowIs ==
  ASSUME NEW r \in Row
  PROVE  r.seq \in Nat /\ r.path \in Path /\ r.body \in Body /\ r.at \in Nat /\ r.via \in Via
BY DEF Row

LEMMA LogRows == ASSUME NEW log, LogOK(log) PROVE log.rows \subseteq Row /\ log.next \in Nat \ {0}
BY DEF LogOK, Log

LEMMA EmptyLogOK == LogOK(EmptyLog)
<1>1. EmptyLog \in Log
  BY DEF EmptyLog, Log
<1> QED BY <1>1, FS_EmptySet DEF LogOK, EmptyLog

\* A path with rows has a newest one.
LEMMA HasNewest ==
  ASSUME NEW log, LogOK(log), NEW r \in log.rows
  PROVE  \E q \in Newest(log, r.path) : r.seq <= q.seq
<1> DEFINE S == {q \in log.rows : q.path = r.path}
           T == {q.seq : q \in S}
           f == [q \in S |-> q.seq]
<1>1. log.rows \subseteq Row /\ IsFiniteSet(S)
  BY LogRows, FS_Subset DEF LogOK
<1>2. T = {f[q] : q \in S} /\ f = [q \in S |-> f[q]]
  OBVIOUS
<1>4. T \in SUBSET Nat /\ r.seq \in T /\ \A n \in T : \E q \in S : q.seq = n
  BY <1>1, RowIs
<1>9. \A q \in S : q.seq \in T
  OBVIOUS
<1> HIDE DEF f, S, T
<1>3. IsFiniteSet(T)
  BY <1>1, <1>2, ImagesAreFinite
<1>5. Max(T) \in T /\ \A n \in T : n <= Max(T)
  BY <1>3, <1>4, Greatest
<1>6. PICK q \in S : q.seq = Max(T)
  BY <1>4, <1>5
<1>7. \A o \in S : o.seq <= q.seq
  BY <1>5, <1>6, <1>9
<1>8. q \in Newest(log, r.path) /\ r.seq <= q.seq
  BY <1>6, <1>7 DEF Newest, S
<1> QED BY <1>8

LEMMA InsertedOK ==
  ASSUME NEW log, LogOK(log), NEW e, IsEntry(e)
  PROVE  /\ LogOK(Inserted(log, e)) /\ Inserted(log, e).next = log.next + 1
         /\ NewRow(log, e) \in Inserted(log, e).rows
         /\ Inserted(log, e).rows \subseteq log.rows \cup {NewRow(log, e)}
         /\ \A r \in log.rows : r.path # e.path => r \in Inserted(log, e).rows
<1> DEFINE n == NewRow(log, e)
           all == log.rows \cup {n}
           m == Inserted(log, e)
<1>1. /\ m = [rows |-> Pruned(all, e.path), next |-> log.next + 1]
      /\ n \in Row /\ n.seq = log.next /\ n.path = e.path
      /\ log.rows \subseteq Row /\ log.next \in Nat \ {0}
  BY LogRows DEF Inserted, NewRow, IsEntry, Row
<1>2. \A r \in log.rows : r.seq \in Nat /\ r.seq < log.next /\ r.seq >= 1
  BY <1>1 DEF LogOK
<1> HIDE DEF n, m
<1>3. m.rows = Pruned(all, e.path) /\ m.next = log.next + 1 /\ m.rows \subseteq all
  BY <1>1 DEF Pruned
<1>11. \A r \in m.rows : r \in log.rows \/ r = n
  BY <1>3
<1>4. n \in m.rows
  <2>1. {q \in all : q.path = e.path /\ q.seq > n.seq} = {}
    BY <1>1, <1>2
  <2>2. Cardinality({q \in all : q.path = e.path /\ q.seq > n.seq}) < Keep
    BY <2>1, FS_EmptySet, LogAssumption
  <2> QED BY <1>3, <2>2 DEF Pruned
<1>5. \A r \in log.rows : r.path # e.path => r \in m.rows
  BY <1>3 DEF Pruned
<1>6. IsFiniteSet(m.rows)
  <2>1. IsFiniteSet(all)
    BY FS_AddElement DEF LogOK
  <2> QED BY <1>3, <2>1, FS_Subset
<1>7. m \in Log
  <2>1. \A r \in m.rows : r \in Row
    BY Zenon, <1>1, <1>11
  <2>2. m.next \in Nat
    BY <1>1, <1>3
  <2> QED BY <1>1, <2>1, <2>2 DEF Log
<1>8. \A r \in m.rows : r.seq \in 1 .. m.next - 1
  <2> SUFFICES ASSUME NEW r \in m.rows PROVE r.seq \in 1 .. m.next - 1
    OBVIOUS
  <2>1. CASE r = n
    BY <1>1, <1>3, <2>1
  <2>2. CASE r \in log.rows
    BY <1>1, <1>2, <1>3, <2>2
  <2> QED BY <1>11, <2>1, <2>2
<1>9. \A r, q \in m.rows : r.seq = q.seq => r = q
  <2> SUFFICES ASSUME NEW r \in all, NEW q \in all, r.seq = q.seq PROVE r = q
    BY <1>3
  <2>1. CASE r \in log.rows /\ q \in log.rows
    BY <2>1 DEF LogOK
  <2>2. CASE ~ (r \in log.rows /\ q \in log.rows)
    BY <1>1, <1>2, <2>2
  <2> QED BY <2>1, <2>2
<1>10. LogOK(m)
  <2>1. m.next >= 1
    BY <1>1, <1>3
  <2> QED BY <1>6, <1>7, <1>8, <1>9, <2>1 DEF LogOK
<1> QED BY <1>3, <1>4, <1>5, <1>10 DEF n, m

\* m is what appending e makes of log: log itself, or with a row for e, the
\* newest of its path, while other paths keep theirs.
Adds(log, m, e) ==
    \/ m = log
    \/ /\ m.next = log.next + 1
       /\ NewRow(log, e) \in m.rows
       /\ m.rows \subseteq log.rows \cup {NewRow(log, e)}
       /\ \A r \in log.rows : r.path # e.path => r \in m.rows

LEMMA AppendAdds ==
  ASSUME NEW log, LogOK(log), NEW e, IsEntry(e), NEW refuse
  PROVE  LogOK(AppendIn(log, e, refuse)) /\ Adds(log, AppendIn(log, e, refuse), e)
<1>1. AppendIn(log, e, refuse) = log \/ AppendIn(log, e, refuse) = Inserted(log, e)
  BY Zenon DEF AppendIn
<1>2. LogOK(Inserted(log, e)) /\ Adds(log, Inserted(log, e), e)
  BY InsertedOK DEF Adds
<1>3. Adds(log, log, e)
  BY Zenon DEF Adds
<1> QED BY Zenon, <1>1, <1>2, <1>3

LEMMA AddsOthers ==
  ASSUME NEW log, NEW e, NEW m, Adds(log, m, e), NEW p, e.path # p
  PROVE  Newest(m, p) = Newest(log, p)
<1>1. CASE m = log
  BY Zenon, <1>1
<1>2. CASE m # log
  <2>1. NewRow(log, e).path = e.path
    BY DEF NewRow
  <2>2. \A r : r \in m.rows /\ r.path = p <=> r \in log.rows /\ r.path = p
    BY <1>2, <2>1 DEF Adds
  <2>3. ASSUME NEW r \in m.rows, r.path = p,
               \A q \in m.rows : q.path = p => q.seq <= r.seq
        PROVE  r \in Newest(log, p)
    BY Zenon, <2>2, <2>3 DEF Newest
  <2>4. ASSUME NEW r \in log.rows, r.path = p,
               \A q \in log.rows : q.path = p => q.seq <= r.seq
        PROVE  r \in Newest(m, p)
    BY Zenon, <2>2, <2>4 DEF Newest
  <2>5. \A r : r \in Newest(m, p) <=> r \in Newest(log, p)
    BY Zenon, <2>3, <2>4 DEF Newest
  <2> QED BY Zenon, <2>5
<1> QED BY <1>1, <1>2

LEMMA AddsNewest ==
  ASSUME NEW log, LogOK(log), NEW e, IsEntry(e), NEW m, Adds(log, m, e), m # log
  PROVE  Newest(m, e.path) = {NewRow(log, e)}
<1> DEFINE n == NewRow(log, e)
<1>1. /\ n \in m.rows /\ m.rows \subseteq log.rows \cup {n} /\ n.seq = log.next /\ n.path = e.path
      /\ \A r \in log.rows : r.seq \in Nat /\ r.seq < log.next
      /\ log.next \in Nat
  BY LogRows DEF Adds, NewRow, LogOK
<1> HIDE DEF n
<1>2. \A r \in m.rows : r.path = e.path => r.seq <= n.seq /\ (r.seq = n.seq => r = n)
  BY <1>1
<1>3. \A r \in m.rows : r.path = e.path /\ n.seq <= r.seq => r = n
  BY <1>1
<1>4. Newest(m, e.path) = {n}
  BY <1>1, <1>2, <1>3 DEF Newest
<1> QED BY <1>4 DEF n

-----------------------------------------------------------------------------
(* Rows appended in order.                                                   *)

Top(rows) == Max({r.seq : r \in rows} \cup {0})

\* The log after the rows up to number n, from the one before.
Step(log, rows, refuse, n) ==
    IF \E r \in rows : r.seq = n
    THEN AppendIn(log, CHOOSE r \in rows : r.seq = n, refuse)
    ELSE log

LEMMA TopIs ==
  ASSUME NEW rows \in SUBSET Row, IsFiniteSet(rows)
  PROVE  Top(rows) \in Nat /\ \A r \in rows : r.seq <= Top(rows)
<1> DEFINE f == [r \in rows |-> r.seq]
           S == {r.seq : r \in rows}
<1>1. S = {f[r] : r \in rows} /\ f = [r \in rows |-> f[r]]
  OBVIOUS
<1>2. S \cup {0} \in SUBSET Nat /\ \A r \in rows : r.seq \in S \cup {0}
  BY RowIs
<1> HIDE DEF f, S
<1>3. IsFiniteSet(S \cup {0})
  <2>1. IsFiniteSet(S)
    BY <1>1, ImagesAreFinite
  <2> QED BY Zenon, <2>1, FS_AddElement
<1>4. Max(S \cup {0}) \in Nat /\ \A n \in S \cup {0} : n <= Max(S \cup {0})
  BY <1>2, <1>3, Greatest
<1> QED BY <1>2, <1>4 DEF Top, S

\* The logs that AppendedInOrder goes through.
Through(logs, k, log, rows, refuse) ==
    logs = [n \in 0 .. k |-> IF n = 0 THEN log ELSE Step(logs[n - 1], rows, refuse, n)]

LEMMA LogsExist ==
  ASSUME NEW k \in Nat, NEW log, NEW rows, NEW refuse
  PROVE  \E logs : Through(logs, k, log, rows, refuse)
<1> DEFINE Goes(logs, m) == Through(logs, m, log, rows, refuse)
           G == {m \in 0 .. k : \E logs : Goes(logs, m)}
<1>1. 0 \in G
  <2>1. Goes([n \in 0 .. 0 |-> log], 0)
    BY DEF Through
  <2> HIDE DEF Goes
  <2> QED BY <2>1
<1>2. ASSUME NEW m \in 1 .. k, m - 1 \in G PROVE m \in G
  <2>1. PICK f : Goes(f, m - 1)
    BY <1>2
  <2> DEFINE g == [n \in 0 .. m |-> IF n = m THEN Step(f[m - 1], rows, refuse, m) ELSE f[n]]
  <2>2. \A n \in 0 .. m - 1 : f[n] = IF n = 0 THEN log ELSE Step(f[n - 1], rows, refuse, n)
    BY Zenon, <2>1 DEF Through
  <2>3. \A n \in 0 .. m : g[n] = IF n = 0 THEN log ELSE Step(g[n - 1], rows, refuse, n)
    <3> SUFFICES ASSUME NEW n \in 0 .. m
                 PROVE  g[n] = IF n = 0 THEN log ELSE Step(g[n - 1], rows, refuse, n)
      OBVIOUS
    <3>1. CASE n = m
      <4>1. n # 0 /\ n - 1 \in 0 .. m /\ n - 1 # m
        BY <3>1
      <4> QED BY <3>1, <4>1
    <3>2. CASE n # m
      <4>1. n \in 0 .. m - 1 /\ (n # 0 => n - 1 \in 0 .. m /\ n - 1 # m)
        BY <3>2
      <4> QED BY <2>2, <3>2, <4>1
    <3> QED BY <3>1, <3>2
  <2>4. Goes(g, m)
    BY <2>3 DEF Through
  <2> HIDE DEF Goes, g
  <2> QED BY <2>4
<1>3. G \in SUBSET (0 .. k)
  OBVIOUS
<1> HIDE DEF G
<1>4. k \in G
  BY <1>1, <1>2, <1>3, CountUp
<1> QED BY <1>4 DEF G

Stepwise(logs, log, rows, refuse) ==
    /\ logs[0] = log /\ AppendedInOrder(log, rows, refuse) = logs[Top(rows)]
    /\ \A n \in 1 .. Top(rows) : logs[n] = Step(logs[n - 1], rows, refuse, n)

LEMMA InOrderIs ==
  ASSUME NEW log, NEW rows \in SUBSET Row, IsFiniteSet(rows), NEW refuse
  PROVE  \E logs : Stepwise(logs, log, rows, refuse)
<1> DEFINE last == Top(rows)
           all == CHOOSE logs : Through(logs, last, log, rows, refuse)
<1>1. last \in Nat
  BY TopIs
<1>2. Through(all, last, log, rows, refuse)
  <2> HIDE DEF last
  <2>1. \E logs : Through(logs, last, log, rows, refuse)
    BY <1>1, LogsExist
  <2> QED BY Zenon, <2>1
<1>3. AppendedInOrder(log, rows, refuse) = all[last]
  BY Zenon DEF AppendedInOrder, Step, Top, Through
<1> HIDE DEF all
<1>4. \A n \in 0 .. last : all[n] = IF n = 0 THEN log ELSE Step(all[n - 1], rows, refuse, n)
  BY Zenon, <1>2 DEF Through
<1> HIDE DEF last
<1>5. 0 \in 0 .. last /\ \A n \in 1 .. last : n \in 0 .. last /\ n # 0
  BY <1>1
<1>6. all[0] = log /\ \A n \in 1 .. last : all[n] = Step(all[n - 1], rows, refuse, n)
  BY Zenon, <1>4, <1>5
<1> QED BY <1>3, <1>6 DEF last, Stepwise

LEMMA RowsAreEntries == ASSUME NEW r \in Row PROVE IsEntry(r)
BY RowIs DEF IsEntry

Stepped(log, m, rows, refuse, n) ==
    \/ m = log /\ \A r \in rows : r.seq # n
    \/ \E r \in rows : r.seq = n /\ Adds(log, m, r) /\ m = AppendIn(log, r, refuse)

LEMMA StepIs ==
  ASSUME NEW log, LogOK(log), NEW rows \in SUBSET Row, NEW refuse, NEW n,
         NEW m, m = Step(log, rows, refuse, n)
  PROVE  LogOK(m) /\ Stepped(log, m, rows, refuse, n)
<1>1. CASE \E r \in rows : r.seq = n
  <2> DEFINE r == CHOOSE r \in rows : r.seq = n
  <2>1. r \in rows /\ r.seq = n
    BY Zenon, <1>1
  <2>2. m = AppendIn(log, r, refuse)
    BY Zenon, <1>1 DEF Step
  <2> HIDE DEF r
  <2>3. IsEntry(r)
    BY Zenon, <2>1, RowsAreEntries
  <2>4. LogOK(AppendIn(log, r, refuse)) /\ Adds(log, AppendIn(log, r, refuse), r)
    BY Zenon, <2>3, AppendAdds
  <2> QED BY Zenon, <2>1, <2>2, <2>4 DEF Stepped
<1>2. CASE ~ \E r \in rows : r.seq = n
  BY Zenon, <1>2 DEF Step, Stepped
<1> QED BY <1>1, <1>2

\* m came of log by appending rows: nothing else is in it, and the newest of a
\* path is as it was or new.
Grown(log, m, rows) ==
    /\ log.next <= m.next
    /\ \A r \in m.rows : \/ r \in log.rows
                         \/ \E q \in rows : /\ r.path = q.path /\ r.body = q.body
                                            /\ r.at = q.at /\ r.via = q.via
    /\ \A p : \A r \in Newest(m, p) : r \in Newest(log, p) \/ log.next <= r.seq

LEMMA AddsGrows ==
  ASSUME NEW log, LogOK(log), NEW l, LogOK(l), NEW rows \in SUBSET Row, Grown(log, l, rows),
         NEW e \in rows, NEW m, Adds(l, m, e)
  PROVE  Grown(log, m, rows)
<1>1. CASE m = l
  BY Zenon, <1>1
<1>2. CASE m # l
  <2>1. IsEntry(e) /\ log.next \in Nat /\ l.next \in Nat
    BY RowsAreEntries, LogRows
  <2>2. Newest(m, e.path) = {NewRow(l, e)}
    BY Zenon, <1>2, <2>1, AddsNewest
  <2>3. m.next = l.next + 1 /\ m.rows \subseteq l.rows \cup {NewRow(l, e)}
    BY Zenon, <1>2 DEF Adds
  <2>4. /\ NewRow(l, e).path = e.path /\ NewRow(l, e).body = e.body /\ NewRow(l, e).at = e.at
        /\ NewRow(l, e).via = e.via /\ NewRow(l, e).seq = l.next
    BY DEF NewRow
  <2>5. log.next <= m.next /\ log.next <= l.next
    BY <2>1, <2>3 DEF Grown
  <2>6. ASSUME NEW r \in m.rows
        PROVE  \/ r \in log.rows
               \/ \E q \in rows : /\ r.path = q.path /\ r.body = q.body
                                  /\ r.at = q.at /\ r.via = q.via
    BY Zenon, <2>3, <2>4, <2>6 DEF Grown
  <2>7. ASSUME NEW p, NEW r \in Newest(m, p) PROVE r \in Newest(log, p) \/ log.next <= r.seq
    <3>1. CASE p = e.path
      BY Zenon, <2>2, <2>4, <2>5, <2>7, <3>1
    <3>2. CASE e.path # p
      <4>1. r \in Newest(l, p)
        BY <2>7, <3>2, AddsOthers
      <4> QED BY Zenon, <4>1 DEF Grown
    <3> QED BY <3>1, <3>2
  <2> QED BY Zenon, <2>5, <2>6, <2>7 DEF Grown
<1> QED BY <1>1, <1>2

LEMMA InOrderGrows ==
  ASSUME NEW log, LogOK(log), NEW rows \in SUBSET Row, IsFiniteSet(rows), NEW refuse
  PROVE  /\ LogOK(AppendedInOrder(log, rows, refuse))
         /\ Grown(log, AppendedInOrder(log, rows, refuse), rows)
<1> DEFINE k == Top(rows)
<1>1. k \in Nat
  BY TopIs
<1>10. PICK logs : Stepwise(logs, log, rows, refuse)
  BY InOrderIs
<1>2. /\ logs[0] = log /\ AppendedInOrder(log, rows, refuse) = logs[k]
      /\ \A n \in 1 .. k : logs[n] = Step(logs[n - 1], rows, refuse, n)
  BY Zenon, <1>10 DEF Stepwise
<1> HIDE DEF k
<1> DEFINE G == {n \in 0 .. k : LogOK(logs[n]) /\ Grown(log, logs[n], rows)}
<1>3. Grown(log, log, rows)
  <2>1. log.next \in Nat
    BY LogRows
  <2> QED BY <2>1 DEF Grown
<1>4. 0 \in G
  BY <1>1, <1>2, <1>3
<1>5. ASSUME NEW n \in 1 .. k, n - 1 \in G PROVE n \in G
  <2>1. n \in 0 .. k /\ LogOK(logs[n - 1]) /\ Grown(log, logs[n - 1], rows)
        /\ logs[n] = Step(logs[n - 1], rows, refuse, n)
    BY <1>1, <1>2, <1>5
  <2>2. /\ LogOK(logs[n])
        /\ \/ logs[n] = logs[n - 1]
           \/ \E r \in rows : Adds(logs[n - 1], logs[n], r)
    <3>1. LogOK(logs[n]) /\ Stepped(logs[n - 1], logs[n], rows, refuse, n)
      BY <2>1, StepIs
    <3> QED BY Zenon, <3>1 DEF Stepped
  <2>3. Grown(log, logs[n], rows)
    BY Zenon, <2>1, <2>2, AddsGrows
  <2> QED BY Zenon, <2>1, <2>2, <2>3
<1>6. G \in SUBSET (0 .. k)
  OBVIOUS
<1> HIDE DEF G
<1>7. k \in G
  BY <1>1, <1>4, <1>5, <1>6, CountUp
<1> QED BY <1>2, <1>7 DEF G

\* Appending rows up to number n has led from log to l: the newest of path p is
\* the last of p's rows so far, or else as it was.
LastOf(rows, p, r, n) ==
    r.path = p /\ r.seq <= n /\ \A q \in rows : q.path = p /\ q.seq <= n => q.seq <= r.seq

Ends(log, l, rows, p, n) ==
    /\ (\A r \in rows : r.path = p => ~ (r.seq <= n)) => Newest(l, p) = Newest(log, p)
    /\ \A r \in rows : LastOf(rows, p, r, n) => \E q \in Newest(l, p) : q.body = r.body

LEMMA AppendedIsNewest ==
  ASSUME NEW l, LogOK(l), NEW e, IsEntry(e)
  PROVE  \E q \in Newest(AppendIn(l, e, FALSE), e.path) : q.body = e.body
<1>1. CASE Unchanged(l, e)
  <2>1. AppendIn(l, e, FALSE) = l
    BY <1>1 DEF AppendIn
  <2> QED BY Zenon, <1>1, <2>1 DEF Unchanged
<1>2. CASE ~ Unchanged(l, e)
  <2>1. AppendIn(l, e, FALSE) = Inserted(l, e)
    BY <1>2 DEF AppendIn
  <2>2. Inserted(l, e) # l
    <3>1. Inserted(l, e).next = l.next + 1 /\ l.next \in Nat
      BY InsertedOK, LogRows
    <3> QED BY <3>1
  <2>3. Adds(l, Inserted(l, e), e)
    BY Zenon, <2>1, AppendAdds
  <2>4. Newest(Inserted(l, e), e.path) = {NewRow(l, e)}
    BY Zenon, <2>2, <2>3, AddsNewest
  <2>5. NewRow(l, e).body = e.body
    BY DEF NewRow
  <2> QED BY Zenon, <2>1, <2>4, <2>5
<1> QED BY <1>1, <1>2

LEMMA StepEnds ==
  ASSUME NEW log, NEW l, LogOK(l), NEW rows \in SUBSET Row, NEW p, NEW n \in Nat \ {0},
         \A r, q \in rows : r.seq = q.seq => r = q,
         Ends(log, l, rows, p, n - 1), NEW m, Stepped(l, m, rows, FALSE, n)
  PROVE  Ends(log, m, rows, p, n)
<1>1. \A r \in rows : r.seq \in Nat /\ (r.seq # n => (r.seq <= n <=> r.seq <= n - 1))
  BY RowIs
<1>2. CASE m = l /\ \A r \in rows : r.seq # n
  <2>1. \A r \in rows : r.seq <= n <=> r.seq <= n - 1
    BY Zenon, <1>1, <1>2
  <2>2. \A r \in rows : LastOf(rows, p, r, n) <=> LastOf(rows, p, r, n - 1)
    BY Zenon, <2>1 DEF LastOf
  <2> QED BY Zenon, <1>2, <2>1, <2>2 DEF Ends
<1>3. ASSUME NEW e \in rows, e.seq = n, Adds(l, m, e), m = AppendIn(l, e, FALSE)
      PROVE  Ends(log, m, rows, p, n)
  <2>1. \A r \in rows : r # e => (r.seq <= n <=> r.seq <= n - 1)
    BY Zenon, <1>1, <1>3
  <2>2. IsEntry(e) /\ n <= n
    BY RowsAreEntries
  <2>3. CASE e.path = p
    <3>1. \E q \in Newest(m, p) : q.body = e.body
      BY Zenon, <1>3, <2>2, <2>3, AppendedIsNewest
    <3>2. \A r \in rows : LastOf(rows, p, r, n) => r = e
      <4> SUFFICES ASSUME NEW r \in rows, LastOf(rows, p, r, n) PROVE r = e
        OBVIOUS
      <4>1. e.seq <= r.seq /\ r.seq <= n /\ r.seq \in Nat
        BY <1>1, <1>3, <2>2, <2>3 DEF LastOf
      <4>2. r.seq = e.seq
        BY <1>3, <4>1
      <4> QED BY <4>2
    <3> QED BY Zenon, <1>3, <2>2, <2>3, <3>1, <3>2 DEF Ends
  <2>4. CASE e.path # p
    <3>1. Newest(m, p) = Newest(l, p)
      <4>1. Adds(l, m, e)
        BY <1>3
      <4>2. e.path # p
        BY <2>4
      <4> QED BY <4>1, <4>2, AddsOthers
    <3>2. \A r \in rows : r.path = p => (r.seq <= n <=> r.seq <= n - 1)
      BY Zenon, <2>1, <2>4
    <3>3. \A r \in rows : LastOf(rows, p, r, n) <=> LastOf(rows, p, r, n - 1)
      BY Zenon, <3>2 DEF LastOf
    <3> QED BY Zenon, <3>1, <3>2, <3>3 DEF Ends
  <2> QED BY <2>3, <2>4
<1> QED BY Zenon, <1>2, <1>3 DEF Stepped

\* A path's newest is its last row, if it has any among the rows appended.
LEMMA InOrderEnds ==
  ASSUME NEW log, LogOK(log), NEW rows \in SUBSET Row, IsFiniteSet(rows),
         \A r \in rows : r.seq # 0, \A r, q \in rows : r.seq = q.seq => r = q, NEW p
  PROVE  /\ (\A r \in rows : r.path # p) => Newest(AppendedInOrder(log, rows, FALSE), p) = Newest(log, p)
         /\ \A r \in rows : r.path = p /\ (\A q \in rows : q.path = p => q.seq <= r.seq)
              => \E q \in Newest(AppendedInOrder(log, rows, FALSE), p) : q.body = r.body
<1> DEFINE k == Top(rows)
<1>1. k \in Nat /\ \A r \in rows : r.seq \in Nat /\ r.seq <= k
  BY TopIs, RowIs
<1>2. PICK logs : Stepwise(logs, log, rows, FALSE)
  BY InOrderIs
<1>3. /\ logs[0] = log /\ AppendedInOrder(log, rows, FALSE) = logs[k]
      /\ \A n \in 1 .. k : logs[n] = Step(logs[n - 1], rows, FALSE, n)
  BY Zenon, <1>2 DEF Stepwise
<1> HIDE DEF k
<1> DEFINE G == {n \in 0 .. k : LogOK(logs[n]) /\ Ends(log, logs[n], rows, p, n)}
<1>4. 0 \in G
  <2>1. \A r \in rows : ~ (r.seq <= 0)
    BY <1>1
  <2>2. Ends(log, log, rows, p, 0)
    BY Zenon, <2>1 DEF Ends, LastOf
  <2> QED BY <1>1, <1>3, <2>2
<1>5. ASSUME NEW n \in 1 .. k, n - 1 \in G PROVE n \in G
  <2>1. n \in 0 .. k /\ n \in Nat \ {0}
    BY <1>1
  <2>2. /\ LogOK(logs[n - 1]) /\ Ends(log, logs[n - 1], rows, p, n - 1)
        /\ logs[n] = Step(logs[n - 1], rows, FALSE, n)
    BY Zenon, <1>3, <1>5
  <2>3. LogOK(logs[n]) /\ Stepped(logs[n - 1], logs[n], rows, FALSE, n)
    BY <2>2, StepIs
  <2>4. Ends(log, logs[n], rows, p, n)
    BY Zenon, <2>1, <2>2, <2>3, StepEnds
  <2> QED BY Zenon, <2>1, <2>3, <2>4
<1>6. G \in SUBSET (0 .. k)
  OBVIOUS
<1> HIDE DEF G
<1>7. k \in G
  BY <1>1, <1>4, <1>5, <1>6, CountUp
<1>8. Ends(log, logs[k], rows, p, k)
  BY <1>7 DEF G
<1>9. \A r \in rows : r.path = p /\ (\A q \in rows : q.path = p => q.seq <= r.seq) => LastOf(rows, p, r, k)
  BY Zenon, <1>1 DEF LastOf
<1> QED BY Zenon, <1>3, <1>8, <1>9 DEF Ends

\* NewestWins, of any log.
Moving(log, now) ==
    \A r, q \in log.rows :
        /\ r.at <= now
        /\ r.path = q.path /\ r.seq < q.seq => r.at < q.at

LEMMA FreshMoves ==
  ASSUME NEW log, LogOK(log), NEW now, Moving(log, now), NEW e, IsEntry(e), e.at <= now
  PROVE  Moving(AppendIn(log, e, TRUE), now)
<1> DEFINE m == AppendIn(log, e, TRUE)
           n == NewRow(log, e)
<1>1. CASE m = log
  BY Zenon, <1>1
<1>2. CASE m # log
  <2>1. ~ Stale(log, e) /\ Adds(log, m, e)
    BY Zenon, <1>2, AppendAdds DEF AppendIn
  <2>2. m.rows \subseteq log.rows \cup {n}
    BY Zenon, <1>2, <2>1 DEF Adds
  <2>3. /\ n.seq = log.next /\ n.path = e.path /\ n.at = e.at
        /\ log.rows \subseteq Row /\ log.next \in Nat /\ e.at \in Nat
        /\ \A r \in log.rows : r.seq \in Nat /\ r.seq < log.next /\ r.at \in Nat
    BY LogRows, RowIs DEF NewRow, IsEntry, LogOK
  <2> HIDE DEF m, n
  <2>4. ASSUME NEW r \in log.rows, r.path = e.path PROVE r.at < e.at
    <3>1. PICK q \in Newest(log, e.path) : r.seq <= q.seq
      BY <2>4, HasNewest
    <3>2. q \in log.rows /\ q.path = e.path
      BY DEF Newest
    <3>3. q.at < e.at
      BY <2>1, <2>3, <3>2 DEF Stale
    <3>4. r = q \/ r.at < q.at
      <4>1. r.seq = q.seq \/ r.seq < q.seq
        BY <2>3, <3>1, <3>2
      <4> QED BY <2>4, <3>2, <4>1 DEF Moving, LogOK
    <3> QED BY <2>3, <3>2, <3>3, <3>4
  <2>5. ASSUME NEW r \in log.rows \cup {n} PROVE r.at <= now
    BY <2>3 DEF Moving
  <2>6. ASSUME NEW r \in log.rows \cup {n}, NEW q \in log.rows \cup {n}, r.path = q.path, r.seq < q.seq
        PROVE  r.at < q.at
    <3>1. CASE r \in log.rows /\ q \in log.rows
      BY <2>6, <3>1 DEF Moving
    <3>2. CASE r = n
      BY <2>3, <2>6, <3>2
    <3>3. CASE r \in log.rows /\ q = n
      BY <2>3, <2>4, <2>6, <3>3
    <3> QED BY <3>1, <3>2, <3>3
  <2> QED BY Zenon, <2>2, <2>5, <2>6 DEF Moving, m
<1> QED BY <1>1, <1>2

LEMMA InOrderMoves ==
  ASSUME NEW log, LogOK(log), NEW rows \in SUBSET Row, IsFiniteSet(rows),
         NEW now, Moving(log, now), \A r \in rows : r.at <= now
  PROVE  Moving(AppendedInOrder(log, rows, TRUE), now)
<1> DEFINE k == Top(rows)
<1>1. k \in Nat
  BY TopIs
<1>10. PICK logs : Stepwise(logs, log, rows, TRUE)
  BY InOrderIs
<1>2. /\ logs[0] = log /\ AppendedInOrder(log, rows, TRUE) = logs[k]
      /\ \A n \in 1 .. k : logs[n] = Step(logs[n - 1], rows, TRUE, n)
  BY Zenon, <1>10 DEF Stepwise
<1> HIDE DEF k
<1> DEFINE G == {n \in 0 .. k : LogOK(logs[n]) /\ Moving(logs[n], now)}
<1>4. 0 \in G
  BY <1>1, <1>2
<1>5. ASSUME NEW n \in 1 .. k, n - 1 \in G PROVE n \in G
  <2>3. n \in 0 .. k
    BY <1>1
  <2>1. /\ LogOK(logs[n - 1]) /\ Moving(logs[n - 1], now)
        /\ logs[n] = Step(logs[n - 1], rows, TRUE, n)
    BY Zenon, <1>2, <1>5
  <2>2. /\ LogOK(logs[n])
        /\ \/ logs[n] = logs[n - 1]
           \/ \E r \in rows : logs[n] = AppendIn(logs[n - 1], r, TRUE)
    <3>1. LogOK(logs[n]) /\ Stepped(logs[n - 1], logs[n], rows, TRUE, n)
      BY <2>1, StepIs
    <3> QED BY Zenon, <3>1 DEF Stepped
  <2>4. Moving(logs[n], now)
    BY Zenon, <2>1, <2>2, FreshMoves, RowsAreEntries
  <2> QED BY Zenon, <2>2, <2>3, <2>4
<1>6. G \in SUBSET (0 .. k)
  OBVIOUS
<1> HIDE DEF G
<1>7. k \in G
  BY <1>1, <1>4, <1>5, <1>6, CountUp
<1> QED BY <1>2, <1>7 DEF G

-----------------------------------------------------------------------------
(* A tablet's file, written or in the hands of a job.                        *)

\* Its log is one, it has read no more of the Pi's log than there is, and as
\* far as that its newest is the Pi's or its own.
CopyOK(f, pi) ==
    /\ f \in File /\ LogOK(f.log) /\ f.cursor < pi.next
    /\ f.id = 0 => f.pushed = 0
    /\ \A p \in Path : \A r \in Newest(pi, p) :
          r.seq <= f.cursor => \E q \in Newest(f.log, p) : q.via = "device" \/ q.body = r.body

LEMMA FileIs ==
  ASSUME NEW f \in File
  PROVE  /\ f.log \in Log /\ f.cursor \in Nat /\ f.pushed \in Nat /\ f.id \in Nat /\ f.key \in BOOLEAN
         /\ f = [log |-> f.log, cursor |-> f.cursor, pushed |-> f.pushed, id |-> f.id, key |-> f.key]
BY DEF File, LogId

LEMMA NewestIs ==
  ASSUME NEW log, NEW p, NEW r \in Newest(log, p)
  PROVE  r \in log.rows /\ r.path = p /\ \A q \in log.rows : q.path = p => q.seq <= r.seq
BY DEF Newest

LEMMA NewCopy == ASSUME NEW pi, LogOK(pi) PROVE CopyOK(NewFile, pi)
<1>1. NewFile \in File
  BY EmptyLogOK DEF NewFile, File, LogId, LogOK
<1>2. /\ NewFile.log = EmptyLog /\ NewFile.cursor = 0 /\ NewFile.pushed = 0
  BY DEF NewFile
<1>3. pi.next \in Nat \ {0}
  BY LogRows
<1>4. ASSUME NEW p, NEW r \in Newest(pi, p) PROVE ~ (r.seq <= 0)
  <2>1. r \in pi.rows
    BY <1>4, NewestIs
  <2> QED BY <1>3, <2>1 DEF LogOK
<1>5. 0 < pi.next
  BY <1>3
<1> QED BY Zenon, <1>1, <1>2, <1>4, <1>5, EmptyLogOK DEF CopyOK

\* Only its log and what it has read matter, and what it has pushed.
LEMMA CopyAlike ==
  ASSUME NEW pi, NEW f, CopyOK(f, pi), NEW g \in File, g.log = f.log, g.cursor = f.cursor,
         g.id = 0 => g.pushed = 0
  PROVE  CopyOK(g, pi)
BY Zenon DEF CopyOK

\* The Pi's log has grown.
LEMMA CopyStays ==
  ASSUME NEW pi, LogOK(pi), NEW f, CopyOK(f, pi), NEW rows, NEW more, LogOK(more), Grown(pi, more, rows)
  PROVE  CopyOK(f, more)
<1>1. f \in File /\ LogOK(f.log) /\ f.cursor < pi.next /\ (f.id = 0 => f.pushed = 0)
  BY Zenon DEF CopyOK
<1>2. f.cursor \in Nat /\ pi.next \in Nat /\ more.next \in Nat /\ pi.next <= more.next
  BY <1>1, FileIs, LogRows DEF Grown
<1>3. f.cursor < more.next
  BY <1>1, <1>2
<1>4. ASSUME NEW p \in Path, NEW r \in Newest(more, p), r.seq <= f.cursor
      PROVE  \E q \in Newest(f.log, p) : q.via = "device" \/ q.body = r.body
  <2>1. r.seq \in Nat
    <3>1. r \in more.rows
      BY <1>4, NewestIs
    <3> QED BY <3>1, LogRows, RowIs
  <2>2. ~ (pi.next <= r.seq)
    BY <1>1, <1>2, <1>4, <2>1
  <2>3. r \in Newest(pi, p)
    BY Zenon, <1>4, <2>2 DEF Grown
  <2> QED BY Zenon, <1>4, <2>3 DEF CopyOK
<1> QED BY Zenon, <1>1, <1>3, <1>4 DEF CopyOK

\* The tablet has fetched a response.
LEMMA CopyFetched ==
  ASSUME NEW pi, NEW f, CopyOK(f, pi), NEW e, IsEntry(e), e.via = "device",
         NEW g \in File, g.log = Appended(f.log, e), g.cursor = f.cursor, g.pushed = f.pushed, g.id = f.id
  PROVE  CopyOK(g, pi)
<1>1. LogOK(f.log) /\ f.cursor < pi.next /\ (f.id = 0 => f.pushed = 0)
  BY Zenon DEF CopyOK
<1>2. LogOK(g.log) /\ Adds(f.log, g.log, e)
  BY Zenon, <1>1, AppendAdds DEF Appended
<1>3. ASSUME NEW p \in Path, NEW r \in Newest(pi, p), r.seq <= g.cursor
      PROVE  \E q \in Newest(g.log, p) : q.via = "device" \/ q.body = r.body
  <2>1. \E q \in Newest(f.log, p) : q.via = "device" \/ q.body = r.body
    BY Zenon, <1>3 DEF CopyOK
  <2>2. CASE g.log = f.log
    BY Zenon, <2>1, <2>2
  <2>3. CASE e.path # p
    <3>1. Newest(g.log, p) = Newest(f.log, p)
      BY <1>2, <2>3, AddsOthers
    <3> QED BY Zenon, <2>1, <3>1
  <2>4. CASE g.log # f.log /\ e.path = p
    <3>1. Newest(g.log, p) = {NewRow(f.log, e)}
      BY Zenon, <1>1, <1>2, <2>4, AddsNewest
    <3>2. NewRow(f.log, e).via = "device"
      BY DEF NewRow
    <3> QED BY Zenon, <3>1, <3>2
  <2> QED BY <2>2, <2>3, <2>4
<1> QED BY Zenon, <1>1, <1>2, <1>3 DEF CopyOK

\* The tablet has a new snapshot.
Cut(pi) == [rows |-> UNION {Newest(pi, p) : p \in Path}, next |-> pi.next]

LEMMA CutIs ==
  ASSUME NEW pi, LogOK(pi)
  PROVE  /\ LogOK(Cut(pi)) /\ \A p \in Path : Newest(pi, p) \subseteq Newest(Cut(pi), p)
<1> DEFINE R == UNION {Newest(pi, p) : p \in Path}
<1>1. R \subseteq pi.rows /\ \A p \in Path : Newest(pi, p) \subseteq R
  BY DEF Newest
<1>2. Cut(pi).rows = R /\ Cut(pi).next = pi.next /\ Cut(pi) = [rows |-> R, next |-> pi.next]
  BY DEF Cut
<1> HIDE DEF R
<1>3. pi.rows \subseteq Row /\ pi.next \in Nat \ {0}
  BY LogRows
<1>4. IsFiniteSet(R)
  BY <1>1, FS_Subset DEF LogOK
<1>5. Cut(pi) \in Log
  BY <1>1, <1>2, <1>3 DEF Log
<1>6. LogOK(Cut(pi))
  BY <1>1, <1>2, <1>3, <1>4, <1>5 DEF LogOK
<1>7. ASSUME NEW p \in Path, NEW r \in Newest(pi, p) PROVE r \in Newest(Cut(pi), p)
  <2>1. r \in R /\ r.path = p /\ \A q \in R : q.path = p => q.seq <= r.seq
    BY Zenon, <1>1, <1>7, NewestIs
  <2> QED BY Zenon, <1>2, <2>1 DEF Newest
<1> QED BY Zenon, <1>6, <1>7

LEMMA SnapshotFields ==
  ASSUME NEW l, NEW c, NEW f, f = [NewFile EXCEPT !.log = l, !.cursor = c]
  PROVE  f = [log |-> l, cursor |-> c, pushed |-> 0, id |-> 0, key |-> FALSE]
BY DEF NewFile

LEMMA SnapshotIs ==
  ASSUME NEW l \in Log, NEW c \in Nat, NEW f,
         f = [log |-> l, cursor |-> c, pushed |-> 0, id |-> 0, key |-> FALSE]
  PROVE  f \in File /\ f.log = l /\ f.cursor = c /\ f.pushed = 0 /\ f.id = 0
BY DEF File, LogId

LEMMA CopySnapshot ==
  ASSUME NEW pi, LogOK(pi), NEW f \in File, f.log = Cut(pi), f.cursor = pi.next - 1, f.pushed = 0
  PROVE  CopyOK(f, pi)
<1>1. f.cursor < pi.next
  BY LogRows
<1>2. LogOK(Cut(pi))
  BY CutIs
<1>3. ASSUME NEW p \in Path, NEW r \in Newest(pi, p) PROVE r \in Newest(f.log, p)
  BY Zenon, <1>3, CutIs
<1> QED BY Zenon, <1>1, <1>2, <1>3 DEF CopyOK

\* The tablet has read a page.  PageOf is Page of any log.
PageOf(pi, after) ==
    LET since == {r \in pi.rows : r.seq > after}
    IN  {r \in since : Cardinality({q \in since : q.seq < r.seq}) < PageSize}

LEMMA PageIs ==
  ASSUME NEW pi, LogOK(pi), NEW after \in Nat, NEW page, page = PageOf(pi, after)
  PROVE  /\ page \subseteq pi.rows /\ page \subseteq Row /\ IsFiniteSet(page)
         /\ \A r \in page : r.seq > after
         /\ \A r \in page, q \in pi.rows : after < q.seq /\ q.seq <= r.seq => q \in page
<1> DEFINE since == {r \in pi.rows : r.seq > after}
           Before(r) == {q \in since : q.seq < r.seq}
<1>1. pi.rows \subseteq Row /\ IsFiniteSet(since)
  BY LogRows, FS_Subset DEF LogOK
<1>2. page = {r \in since : Cardinality(Before(r)) < PageSize}
  BY DEF PageOf
<1>3. page \subseteq since /\ since \subseteq pi.rows /\ \A r \in since : r.seq > after
  BY <1>2
<1>4. ASSUME NEW r \in page, NEW q \in pi.rows, after < q.seq, q.seq <= r.seq PROVE q \in page
  <2>1. q \in since /\ r \in since /\ q.seq \in Nat /\ r.seq \in Nat
    BY <1>1, <1>3, <1>4, RowIs
  <2>2. \A o \in since : o.seq \in Nat
    BY <1>1, RowIs
  <2>3. Before(q) \subseteq Before(r)
    BY <1>4, <2>1, <2>2
  <2>4. IsFiniteSet(Before(r)) /\ IsFiniteSet(Before(q))
    BY <1>1, FS_Subset
  <2> HIDE DEF since, Before
  <2>5. Cardinality(Before(q)) <= Cardinality(Before(r))
    BY <2>3, <2>4, FS_Subset
  <2>6. Cardinality(Before(q)) \in Nat /\ Cardinality(Before(r)) \in Nat
    BY <2>4, FS_CardinalityType
  <2>7. Cardinality(Before(r)) < PageSize /\ PageSize \in Nat
    BY <1>2, CourierAssumption
  <2> QED BY <1>2, <2>1, <2>5, <2>6, <2>7
<1>5. IsFiniteSet(page)
  BY <1>1, <1>3, FS_Subset
<1> QED BY Zenon, <1>1, <1>3, <1>4, <1>5

\* The page's rows, as the tablet appends them.
LEMMA UnderIs ==
  ASSUME NEW rows \in SUBSET Row, IsFiniteSet(rows), NEW via \in Via
  PROVE  /\ Under(rows, via) \in SUBSET Row /\ IsFiniteSet(Under(rows, via))
         /\ \A q \in Under(rows, via) :
              \E r \in rows : /\ q.seq = r.seq /\ q.path = r.path /\ q.body = r.body
                              /\ q.at = r.at /\ q.via = via
         /\ \A r \in rows :
              \E q \in Under(rows, via) : /\ q.seq = r.seq /\ q.path = r.path /\ q.body = r.body
                                          /\ q.at = r.at /\ q.via = via
<1> DEFINE As(r) == [seq |-> r.seq, path |-> r.path, body |-> r.body, at |-> r.at, via |-> via]
           f == [r \in rows |-> As(r)]
           S == {f[r] : r \in rows}
<1>1. ASSUME NEW r \in rows
      PROVE  /\ [r EXCEPT !.via = via] = f[r] /\ f[r] \in Row
             /\ f[r].seq = r.seq /\ f[r].path = r.path /\ f[r].body = r.body
             /\ f[r].at = r.at /\ f[r].via = via
  BY <1>1 DEF Row
<1>3. f = [r \in rows |-> f[r]]
  OBVIOUS
<1> HIDE DEF f
<1>2. Under(rows, via) = S
  <2>1. \A r \in rows : [r EXCEPT !.via = via] = f[r]
    BY <1>1
  <2> QED BY Zenon, <2>1 DEF Under
<1>4. IsFiniteSet(S)
  BY <1>3, ImagesAreFinite
<1>5. S \in SUBSET Row
  BY <1>1
<1>6. \A q \in S : \E r \in rows : q = f[r]
  OBVIOUS
<1>7. \A r \in rows : f[r] \in S
  OBVIOUS
<1> HIDE DEF S
<1>8. \A q \in S : \E r \in rows : /\ q.seq = r.seq /\ q.path = r.path /\ q.body = r.body
                                     /\ q.at = r.at /\ q.via = via
  <2> SUFFICES ASSUME NEW q \in S
               PROVE  \E r \in rows : /\ q.seq = r.seq /\ q.path = r.path /\ q.body = r.body
                                      /\ q.at = r.at /\ q.via = via
    OBVIOUS
  <2>1. PICK r \in rows : q = f[r]
    BY <1>6
  <2>2. /\ q.seq = r.seq /\ q.path = r.path /\ q.body = r.body /\ q.at = r.at /\ q.via = via
    BY <1>1, <2>1
  <2> QED BY Zenon, <2>2
<1>9. \A r \in rows : \E q \in S : /\ q.seq = r.seq /\ q.path = r.path /\ q.body = r.body
                                     /\ q.at = r.at /\ q.via = via
  BY Zenon, <1>1, <1>7
<1> QED BY Zenon, <1>2, <1>4, <1>5, <1>8, <1>9

\* What a tablet's log is after a page.
Paged(log, m, page) == m = AppendedInOrder(log, Under(page, "pi"), FALSE)

LEMMA PagedGrows ==
  ASSUME NEW pi, LogOK(pi), NEW after \in Nat, NEW log, LogOK(log),
         NEW m, Paged(log, m, PageOf(pi, after))
  PROVE  /\ LogOK(m) /\ log.next <= m.next
         /\ \A r \in m.rows : r.via = "device" => r \in log.rows
<1> DEFINE page == PageOf(pi, after)
           rows == Under(page, "pi")
<1>1. page \in SUBSET Row /\ IsFiniteSet(page)
  BY PageIs
<1> HIDE DEF page
<1>2. /\ rows \in SUBSET Row /\ IsFiniteSet(rows)
      /\ \A q \in rows : q.via = "pi"
  BY <1>1, UnderIs DEF Via
<1>3. m = AppendedInOrder(log, rows, FALSE)
  BY DEF Paged, page
<1> HIDE DEF rows
<1>4. LogOK(m) /\ Grown(log, m, rows)
  BY <1>2, <1>3, InOrderGrows
<1> QED BY Zenon, <1>2, <1>4 DEF Grown

LEMMA CopyPaged ==
  ASSUME NEW pi, LogOK(pi), NEW f, CopyOK(f, pi), NEW page, page = PageOf(pi, f.cursor),
         NEW g \in File, Paged(f.log, g.log, page), g.cursor = Max({r.seq : r \in page} \cup {f.cursor}),
         g.pushed = f.pushed, g.id = f.id
  PROVE  CopyOK(g, pi)
<1> DEFINE rows == Under(page, "pi")
<1>1. LogOK(f.log) /\ f.cursor < pi.next /\ (f.id = 0 => f.pushed = 0) /\ f.cursor \in Nat
  BY Zenon, FileIs DEF CopyOK
<1>2. /\ page \subseteq pi.rows /\ page \in SUBSET Row /\ IsFiniteSet(page)
      /\ \A r \in page : r.seq > f.cursor
      /\ \A r \in page, q \in pi.rows : f.cursor < q.seq /\ q.seq <= r.seq => q \in page
  BY <1>1, PageIs
<1>3. LogOK(g.log)
  BY Zenon, <1>1, PagedGrows
<1>4. /\ g.cursor \in Nat /\ g.cursor < pi.next
      /\ g.cursor = f.cursor \/ \E r \in page : g.cursor = r.seq
      /\ f.cursor <= g.cursor /\ \A r \in page : r.seq <= g.cursor
  <2> DEFINE S == {r.seq : r \in page}
             h == [r \in page |-> r.seq]
  <2>1. S = {h[r] : r \in page} /\ h = [r \in page |-> h[r]]
    OBVIOUS
  <2>2. S \cup {f.cursor} \in SUBSET Nat /\ \A r \in page : r.seq \in S
    BY <1>1, <1>2, RowIs
  <2>3. \A n \in S : \E r \in page : n = r.seq
    OBVIOUS
  <2>4. \A r \in page : r.seq \in Nat /\ r.seq < pi.next
    BY <1>2, LogRows DEF LogOK
  <2> HIDE DEF S, h
  <2>5. IsFiniteSet(S \cup {f.cursor})
    <3>1. IsFiniteSet(S)
      BY <1>2, <2>1, ImagesAreFinite
    <3> QED BY Zenon, <3>1, FS_AddElement
  <2>6. g.cursor = Max(S \cup {f.cursor})
    BY Zenon DEF S
  <2>7. g.cursor \in S \cup {f.cursor} /\ \A n \in S \cup {f.cursor} : n <= g.cursor
    BY <2>2, <2>5, <2>6, Greatest
  <2> QED BY <1>1, <2>2, <2>3, <2>4, <2>7
<1>5. /\ rows \in SUBSET Row /\ IsFiniteSet(rows) /\ \A r \in rows : r.seq # 0
      /\ \A r, q \in rows : r.seq = q.seq => r = q
      /\ \A q \in rows : \E r \in page : q.seq = r.seq /\ q.path = r.path
  <2>1. /\ rows \in SUBSET Row /\ IsFiniteSet(rows)
        /\ \A q \in rows : \E r \in page : /\ q.seq = r.seq /\ q.path = r.path /\ q.body = r.body
                                            /\ q.at = r.at /\ q.via = "pi"
    BY <1>2, UnderIs DEF Via
  <2>2. \A r \in page : r.seq # 0
    BY <1>2 DEF LogOK
  <2> HIDE DEF rows
  <2>3. ASSUME NEW r \in rows, NEW q \in rows, r.seq = q.seq PROVE r = q
    <3>1. PICK a \in page : /\ r.seq = a.seq /\ r.path = a.path /\ r.body = a.body
                            /\ r.at = a.at /\ r.via = "pi"
      BY <2>1
    <3>2. PICK b \in page : /\ q.seq = b.seq /\ q.path = b.path /\ q.body = b.body
                            /\ q.at = b.at /\ q.via = "pi"
      BY <2>1
    <3>3. a = b
      BY <1>2, <2>3, <3>1, <3>2 DEF LogOK
    <3>4. /\ r.seq = q.seq /\ r.path = q.path /\ r.body = q.body /\ r.at = q.at /\ r.via = q.via
      BY <3>1, <3>2, <3>3
    <3>5. r \in Row /\ q \in Row
      BY <2>1
    <3> QED BY <3>4, <3>5 DEF Row
  <2>4. \A q \in rows : \E r \in page : q.seq = r.seq /\ q.path = r.path
    BY Zenon, <2>1
  <2>5. \A r \in rows : r.seq # 0
    BY Zenon, <2>2, <2>4
  <2> QED BY Zenon, <2>1, <2>3, <2>4, <2>5
<1>7. g.log = AppendedInOrder(f.log, rows, FALSE)
  BY DEF Paged
<1>6. ASSUME NEW p \in Path, NEW r \in Newest(pi, p), r.seq <= g.cursor
      PROVE  \E q \in Newest(g.log, p) : q.via = "device" \/ q.body = r.body
  <2>1. r \in pi.rows /\ r.path = p /\ \A q \in pi.rows : q.path = p => q.seq <= r.seq
    BY Zenon, <1>6, NewestIs
  <2>2. r.seq \in Nat
    BY <2>1, LogRows, RowIs
  <2>3. CASE r.seq <= f.cursor
    <3>1. \A q \in page : q.path # p
      <4> SUFFICES ASSUME NEW q \in page, q.path = p PROVE FALSE
        OBVIOUS
      <4>1. q.seq <= r.seq /\ q.seq > f.cursor /\ q.seq \in Nat
        BY <1>2, <2>1, RowIs
      <4> QED BY <1>1, <2>2, <2>3, <4>1
    <3>2. Newest(g.log, p) = Newest(f.log, p)
      <4> HIDE DEF rows
      <4>1. \A q \in rows : q.path # p
        BY <1>5, <3>1
      <4>2. /\ LogOK(f.log) /\ rows \in SUBSET Row /\ IsFiniteSet(rows)
            /\ \A q \in rows : q.seq # 0
            /\ \A q, a \in rows : q.seq = a.seq => q = a
        BY Zenon, <1>1, <1>5
      <4>3. Newest(AppendedInOrder(f.log, rows, FALSE), p) = Newest(f.log, p)
        BY Zenon, <4>1, <4>2, InOrderEnds
      <4> QED BY Zenon, <1>7, <4>3
    <3> QED BY Zenon, <1>6, <2>3, <3>2 DEF CopyOK
  <2>4. CASE ~ (r.seq <= f.cursor)
    <3>1. r \in page
      BY <1>1, <1>2, <1>4, <1>6, <2>1, <2>2, <2>4
    <3>2. PICK u \in rows : u.seq = r.seq /\ u.path = r.path /\ u.body = r.body
      BY <1>2, <3>1, UnderIs DEF Via
    <3> HIDE DEF rows
    <3>3. \A q \in rows : q.path = p => q.seq <= u.seq
      BY <1>2, <1>5, <2>1, <3>2
    <3>4. \E q \in Newest(AppendedInOrder(f.log, rows, FALSE), p) : q.body = u.body
      <4>1. u.path = p
        BY <2>1, <3>2
      <4> QED BY Zenon, <1>1, <1>5, <3>3, <4>1, InOrderEnds
    <3> QED BY Zenon, <1>7, <3>2, <3>4
  <2> QED BY <2>3, <2>4
<1> QED BY Zenon, <1>1, <1>3, <1>4, <1>6 DEF CopyOK

-----------------------------------------------------------------------------
(* Numbers the Pi and the tablets pick. *)

LEMMA TheGreater ==
  ASSUME NEW a \in Nat, NEW b \in Nat
  PROVE  /\ Max({a, b}) \in {a, b} /\ a <= Max({a, b}) /\ b <= Max({a, b})
<1>1. IsFiniteSet({a, b})
  <2>1. IsFiniteSet({a} \cup {b})
    BY FS_Singleton, FS_AddElement
  <2>2. {a} \cup {b} = {a, b}
    OBVIOUS
  <2> QED BY <2>1, <2>2
<1> QED BY <1>1, Greatest

LEMMA TheLesser ==
  ASSUME NEW a \in Nat, NEW b \in Nat
  PROVE  /\ Min({a, b}) \in {a, b} /\ Min({a, b}) <= a /\ Min({a, b}) <= b
BY Least

\* The rows the Pi has read, of any tablet.
Reads == [id : LogId, seq : Nat, path : Path, body : Body, at : Nat]

ReadsOK(read) == read \in SUBSET Reads /\ IsFiniteSet(read)

LEMMA ReadIs ==
  ASSUME NEW x \in Reads
  PROVE  x.id \in Nat /\ x.seq \in Nat /\ x.path \in Path /\ x.body \in Body /\ x.at \in Nat
BY DEF Reads, LogId

\* The greatest of the numbers of some rows, or n.
TopOf(rows, n) == Max({r.seq : r \in rows} \cup {n})

LEMMA TopNumber ==
  ASSUME NEW rows, IsFiniteSet(rows), \A r \in rows : r.seq \in Nat, NEW n \in Nat
  PROVE  /\ TopOf(rows, n) \in Nat /\ n <= TopOf(rows, n)
         /\ \A r \in rows : r.seq <= TopOf(rows, n)
         /\ TopOf(rows, n) = n \/ \E r \in rows : r.seq = TopOf(rows, n)
<1> DEFINE S == {r.seq : r \in rows}
           f == [r \in rows |-> r.seq]
           m == TopOf(rows, n)
<1>1. S = {f[r] : r \in rows} /\ f = [r \in rows |-> f[r]]
  OBVIOUS
<1>2. S \cup {n} \in SUBSET Nat /\ (\A r \in rows : r.seq \in S) /\ \A k \in S : \E r \in rows : r.seq = k
  OBVIOUS
<1> HIDE DEF f, S
<1>3. IsFiniteSet(S \cup {n})
  <2>1. IsFiniteSet(S)
    BY <1>1, ImagesAreFinite
  <2> QED BY Zenon, <2>1, FS_AddElement
<1>4. m = Max(S \cup {n})
  BY Zenon DEF S, TopOf
<1> HIDE DEF m
<1>5. m \in S \cup {n} /\ \A k \in S \cup {n} : k <= m
  BY <1>2, <1>3, <1>4, Greatest
<1>6. m \in Nat /\ n <= m /\ (\A r \in rows : r.seq <= m) /\ (m = n \/ \E r \in rows : r.seq = m)
  BY <1>2, <1>5
<1> QED BY Zenon, <1>6 DEF m

\* PiCursor, of any rows read.
CursorOf(read, id) == Max({x.seq : x \in {y \in read : y.id = id}} \cup {0})

LEMMA CursorIs ==
  ASSUME NEW read, ReadsOK(read), NEW id
  PROVE  /\ CursorOf(read, id) \in Nat
         /\ \A x \in read : x.id = id => x.seq <= CursorOf(read, id)
         /\ CursorOf(read, id) = 0 \/ \E x \in read : x.id = id /\ x.seq = CursorOf(read, id)
<1> DEFINE rows == {y \in read : y.id = id}
           m == CursorOf(read, id)
<1>1. IsFiniteSet(rows)
  BY FS_Subset DEF ReadsOK
<1>2. \A r \in rows : r.seq \in Nat
  BY ReadIs DEF ReadsOK
<1>3. m = TopOf(rows, 0)
  BY DEF CursorOf, TopOf
<1>4. (\A x \in read : x.id = id => x \in rows) /\ (\A x \in rows : x \in read /\ x.id = id)
  OBVIOUS
<1> HIDE DEF rows, m
<1>5. /\ m \in Nat /\ \A r \in rows : r.seq <= m
      /\ m = 0 \/ \E r \in rows : r.seq = m
  <2>1. 0 \in Nat
    OBVIOUS
  <2> QED BY Zenon, <1>1, <1>2, <1>3, <2>1, TopNumber
<1>6. /\ m \in Nat
      /\ \A x \in read : x.id = id => x.seq <= m
      /\ m = 0 \/ \E x \in read : x.id = id /\ x.seq = m
  BY Zenon, <1>4, <1>5
<1> QED BY Zenon, <1>6 DEF m

LEMMA CursorMovesOn ==
  ASSUME NEW read, ReadsOK(read), NEW more, ReadsOK(more), read \subseteq more, NEW id
  PROVE  CursorOf(read, id) <= CursorOf(more, id)
<1>1. CursorOf(read, id) \in Nat /\ CursorOf(more, id) \in Nat
  BY CursorIs
<1>2. CASE CursorOf(read, id) = 0
  BY <1>1, <1>2
<1>3. CASE \E x \in read : x.id = id /\ x.seq = CursorOf(read, id)
  BY Zenon, <1>3, CursorIs
<1>4. CursorOf(read, id) = 0 \/ \E x \in read : x.id = id /\ x.seq = CursorOf(read, id)
  BY CursorIs
<1> QED BY Zenon, <1>2, <1>3, <1>4

LEMMA PiCursorIs == ASSUME NEW id PROVE PiCursor(id) = CursorOf(piRead, id)
BY Zenon DEF PiCursor, CursorOf

\* There is a number not in use, and it is not 0.
LEMMA FreshOne ==
  ASSUME NEW U, IsFiniteSet(U), 0 \in U
  PROVE  LET n == Min({i \in 1 .. Cardinality(U) : i \notin U}) IN n \in Nat \ {0} /\ n \notin U
<1> DEFINE k == Cardinality(U)
           T == {i \in 1 .. k : i \notin U}
<1>1. k \in Nat
  BY FS_CardinalityType
<1>2. T # {}
  <2> SUFFICES ASSUME T = {} PROVE FALSE
    OBVIOUS
  <2>1. 0 .. k \in SUBSET U
    <3> SUFFICES ASSUME NEW i \in 0 .. k PROVE i \in U
      OBVIOUS
    <3>1. i = 0 \/ i \in 1 .. k
      BY <1>1
    <3> QED BY <3>1
  <2>2. Cardinality(0 .. k) = k + 1
    BY <1>1, FS_Interval
  <2> HIDE DEF k
  <2>3. Cardinality(0 .. k) <= k
    BY <2>1, FS_Subset DEF k
  <2> QED BY <1>1, <2>2, <2>3
<1>3. T \in SUBSET Nat /\ \A i \in T : i # 0 /\ i \notin U
  BY <1>1
<1>4. Min(T) \in T
  <2> HIDE DEF T
  <2> QED BY <1>2, <1>3, Least
<1> QED BY <1>3, <1>4

LEMMA FreshIdIs ==
  ASSUME IsFiniteSet(piRead), IsFiniteSet(bundles)
  PROVE  /\ FreshId \in Nat \ {0} /\ FreshId \notin UsedIds
<1> DEFINE At(d) == {file[d].id, tick[d].id, tick[d].copy.id, pull[d].copy.id}
           f == [x \in piRead |-> x.id]
           g == [b \in bundles |-> b.id]
           h == [d \in Tablet |-> At(d)]
<1>1. UsedIds = {0} \cup {f[x] : x \in piRead} \cup {g[b] : b \in bundles} \cup UNION {h[d] : d \in Tablet}
  BY DEF UsedIds
<1>2. /\ f = [x \in piRead |-> f[x]] /\ g = [b \in bundles |-> g[b]] /\ h = [d \in Tablet |-> h[d]]
  OBVIOUS
<1>3. \A d \in Tablet : IsFiniteSet(h[d])
  <2> SUFFICES ASSUME NEW d \in Tablet PROVE IsFiniteSet(At(d))
    OBVIOUS
  <2> DEFINE A == {file[d].id}
             B == A \cup {tick[d].id}
             C == B \cup {tick[d].copy.id}
  <2>1. At(d) = C \cup {pull[d].copy.id}
    OBVIOUS
  <2>2. IsFiniteSet(A)
    BY Zenon, FS_Singleton
  <2>3. IsFiniteSet(B)
    BY Zenon, <2>2, FS_AddElement
  <2>4. IsFiniteSet(C)
    BY Zenon, <2>3, FS_AddElement
  <2> HIDE DEF At, C
  <2>5. IsFiniteSet(C \cup {pull[d].copy.id})
    BY Zenon, <2>4, FS_AddElement
  <2> QED BY Zenon, <2>1, <2>5
<1> HIDE DEF f, g, h
<1> DEFINE F == {f[x] : x \in piRead}
           G == {g[b] : b \in bundles}
           H == UNION {h[d] : d \in Tablet}
<1>4. IsFiniteSet(F)
  BY <1>2, ImagesAreFinite
<1>5. IsFiniteSet(G)
  BY <1>2, ImagesAreFinite
<1>6. IsFiniteSet(H)
  <2>1. IsFiniteSet({h[d] : d \in Tablet})
    BY <1>2, ImagesAreFinite, CourierAssumption
  <2>2. \A T \in {h[d] : d \in Tablet} : IsFiniteSet(T)
    BY Zenon, <1>3
  <2> QED BY Zenon, <2>1, <2>2, FS_UNION
<1> HIDE DEF F, G, H
<1>7. UsedIds = {0} \cup F \cup G \cup H
  BY Zenon, <1>1 DEF F, G, H
<1>8. IsFiniteSet(UsedIds)
  <2>1. IsFiniteSet({0} \cup F)
    BY Zenon, <1>4, FS_Singleton, FS_Union
  <2>2. IsFiniteSet(({0} \cup F) \cup G)
    BY Zenon, <1>5, <2>1, FS_Union
  <2>3. IsFiniteSet((({0} \cup F) \cup G) \cup H)
    BY Zenon, <1>6, <2>2, FS_Union
  <2> QED BY Zenon, <1>7, <2>3
<1>9. 0 \in UsedIds
  BY <1>7
<1> QED BY Zenon, <1>8, <1>9, FreshOne DEF FreshId

-----------------------------------------------------------------------------
(* Records, changed. *)

WithLog(f, l)        == [f EXCEPT !.log = l]
WithKey(f, k)        == [f EXCEPT !.key = k]
WithId(f, i)         == [f EXCEPT !.id = i]
Asking(f)            == [IdleTick EXCEPT !.at = "ask", !.copy = f]
Asked(t, a, f, pi)   == [t EXCEPT !.at = a, !.copy = f, !.pi = pi, !.todo = Path]
Fetching(t, p, f)    == [t EXCEPT !.todo = t.todo \ {p}, !.copy = f]
Fetched(t)           == [t EXCEPT !.at = "push", !.todo = {}]
Posting(t, i)        == [t EXCEPT !.at = "posted", !.id = i]
HasAnswer(t, n)      == [t EXCEPT !.at = "answered", !.answer = n]
WithPushed(f, i, n)  == [f EXCEPT !.id = i, !.pushed = Max({@, n})]
WithPage(f, l, page) == [f EXCEPT !.log = l, !.cursor = Max({r.seq : r \in page} \cup {@})]
NewBundle(d, i, rows) == [from |-> d, id |-> i, rows |-> rows, live |-> TRUE]

LEMMA FileWithLog ==
  ASSUME NEW f \in File, NEW l \in Log, NEW g, g = WithLog(f, l)
  PROVE  /\ g \in File /\ g.log = l /\ g.cursor = f.cursor /\ g.pushed = f.pushed
         /\ g.id = f.id /\ g.key = f.key
BY DEF File, LogId, WithLog

LEMMA FileWithKey ==
  ASSUME NEW f \in File, NEW k \in BOOLEAN, NEW g, g = WithKey(f, k)
  PROVE  /\ g \in File /\ g.log = f.log /\ g.cursor = f.cursor /\ g.pushed = f.pushed
         /\ g.id = f.id /\ g.key = k
BY DEF File, LogId, WithKey

LEMMA FileWithId ==
  ASSUME NEW f \in File, NEW i \in Nat, NEW g, g = WithId(f, i)
  PROVE  /\ g \in File /\ g.log = f.log /\ g.cursor = f.cursor /\ g.pushed = f.pushed
         /\ g.id = i /\ g.key = f.key
BY DEF File, LogId, WithId

LEMMA FileWithPushed ==
  ASSUME NEW f \in File, NEW i \in Nat, NEW n, NEW g,
         g = WithPushed(f, i, n)
  PROVE  /\ g.log = f.log /\ g.cursor = f.cursor /\ g.pushed = Max({f.pushed, n})
         /\ g.id = i /\ g.key = f.key
         /\ Max({f.pushed, n}) \in Nat => g \in File
BY DEF File, LogId, WithPushed

LEMMA FileWithPage ==
  ASSUME NEW f \in File, NEW l \in Log, NEW page, NEW g,
         g = WithPage(f, l, page)
  PROVE  /\ g.log = l /\ g.cursor = TopOf(page, f.cursor) /\ g.pushed = f.pushed
         /\ g.id = f.id /\ g.key = f.key
         /\ TopOf(page, f.cursor) \in Nat => g \in File
BY DEF File, LogId, WithPage, TopOf

LEMMA TickIs ==
  ASSUME NEW t \in Tick
  PROVE  /\ t.at \in {"idle", "ask", "fetch", "push", "posted", "answered"}
         /\ t.copy \in File /\ t.pi \in BOOLEAN /\ t.todo \in SUBSET Path
         /\ t.id \in Nat /\ t.answer \in Nat
BY DEF Tick, LogId

LEMMA TickAsks ==
  ASSUME NEW f \in File, NEW u, u = Asking(f)
  PROVE  /\ u \in Tick /\ u.at = "ask" /\ u.copy = f /\ u.id = 0
BY DEF Tick, LogId, Asking, IdleTick

LEMMA TickAsked ==
  ASSUME NEW t \in Tick, NEW a \in {"fetch", "push"}, NEW f \in File, NEW pi \in BOOLEAN, NEW u,
         u = Asked(t, a, f, pi)
  PROVE  /\ u \in Tick /\ u.at = a /\ u.copy = f /\ u.todo = Path /\ u.id = t.id
BY DEF Tick, LogId, Asked

LEMMA TickFetches ==
  ASSUME NEW t \in Tick, NEW p, NEW f \in File, NEW u,
         u = Fetching(t, p, f)
  PROVE  /\ u \in Tick /\ u.at = t.at /\ u.copy = f /\ u.todo = t.todo \ {p} /\ u.id = t.id
BY DEF Tick, LogId, Fetching

LEMMA TickFetched ==
  ASSUME NEW t \in Tick, NEW u, u = Fetched(t)
  PROVE  /\ u \in Tick /\ u.at = "push" /\ u.copy = t.copy /\ u.id = t.id
BY DEF Tick, LogId, Fetched

LEMMA TickPosts ==
  ASSUME NEW t \in Tick, NEW i \in Nat, NEW u, u = Posting(t, i)
  PROVE  /\ u \in Tick /\ u.at = "posted" /\ u.copy = t.copy /\ u.id = i
BY DEF Tick, LogId, Posting

LEMMA TickIsAnswered ==
  ASSUME NEW t \in Tick, NEW n \in Nat, NEW u, u = HasAnswer(t, n)
  PROVE  /\ u \in Tick /\ u.at = "answered" /\ u.copy = t.copy /\ u.id = t.id /\ u.answer = n
BY DEF Tick, LogId, HasAnswer

LEMMA IdleOnes ==
  /\ IdleTick \in Tick /\ IdleTick.at = "idle" /\ IdleTick.copy = NewFile /\ IdleTick.id = 0
  /\ IdlePull \in Pull /\ IdlePull.at = "idle" /\ IdlePull.copy = NewFile
  /\ NewFile \in File /\ NewFile.id = 0 /\ NewFile.pushed = 0
<1>1. NewFile \in File
  BY EmptyLogOK DEF NewFile, File, LogId, LogOK
<1>2. NewFile.id = 0 /\ NewFile.pushed = 0
  BY DEF NewFile
<1> QED BY <1>1, <1>2 DEF IdleTick, IdlePull, Tick, Pull, LogId

LEMMA PullIs ==
  ASSUME NEW p \in Pull
  PROVE  p.at \in {"idle", "page"} /\ p.copy \in File
BY DEF Pull

LEMMA PullReads ==
  ASSUME NEW f \in File, NEW p, p = [at |-> "page", copy |-> f]
  PROVE  p \in Pull /\ p.at = "page" /\ p.copy = f
BY DEF Pull

-----------------------------------------------------------------------------
(* The tablets, one at a time. *)

\* A tick has a log id from when it posts, its file's if that has one.
TickOK(t) ==
    /\ t \in Tick
    /\ t.at \in {"idle", "ask", "fetch", "push"} => t.id = 0
    /\ t.at \in {"posted", "answered"} => t.id # 0 /\ (t.copy.id # 0 => t.id = t.copy.id)

TabletOK(f, t, p, pi) ==
    CopyOK(f, pi) /\ TickOK(t) /\ CopyOK(t.copy, pi) /\ p \in Pull /\ CopyOK(p.copy, pi)

Each(F) == F = [d \in Tablet |-> F[d]]

TabletsOK(files, ticks, pulls, pi) ==
    /\ Each(files) /\ Each(ticks) /\ Each(pulls)
    /\ \A d \in Tablet : TabletOK(files[d], ticks[d], pulls[d], pi)

\* A live bundle is the one its tablet's tick waits for.
BundlesOK(bs, ticks) ==
    /\ bs \in SUBSET Bundle /\ IsFiniteSet(bs)
    /\ \A b \in bs : /\ IsFiniteSet(b.rows) /\ b.id # 0
                     /\ b.live => ticks[b.from].at = "posted" /\ ticks[b.from].id = b.id
    /\ \A a, b \in bs : a.live /\ b.live /\ a.from = b.from => a = b

LEMMA TabletIs ==
  ASSUME NEW files, NEW ticks, NEW pulls, NEW pi, TabletsOK(files, ticks, pulls, pi), NEW d \in Tablet
  PROVE  /\ CopyOK(files[d], pi) /\ CopyOK(ticks[d].copy, pi) /\ CopyOK(pulls[d].copy, pi)
         /\ TickOK(ticks[d]) /\ ticks[d] \in Tick /\ pulls[d] \in Pull
         /\ files[d] \in File /\ ticks[d].copy \in File /\ pulls[d].copy \in File
<1>1. TabletOK(files[d], ticks[d], pulls[d], pi)
  BY Zenon DEF TabletsOK
<1> QED BY Zenon, <1>1 DEF TabletOK, CopyOK, TickOK

LEMMA BundleIs ==
  ASSUME NEW b \in Bundle
  PROVE  b.from \in Tablet /\ b.id \in Nat /\ b.rows \in SUBSET Row /\ b.live \in BOOLEAN
BY DEF Bundle, LogId

\* G is F with v for tablet d.
Puts(F, G, d, v) == G = [F EXCEPT ![d] = v]
At(F, G, d, v)   == Each(G) /\ G[d] = v /\ \A e \in Tablet : e # d => G[e] = F[e]

LEMMA PutsAt == ASSUME NEW F, Each(F), NEW d \in Tablet, NEW v, NEW G, Puts(F, G, d, v) PROVE At(F, G, d, v)
BY DEF Each, Puts, At

LEMMA StaysAt == ASSUME NEW F, Each(F), NEW d \in Tablet, NEW G, G = F PROVE At(F, G, d, F[d])
BY Zenon DEF At

\* A step of tablet d alone: its file is g then, its tick u, its pull q.
Only(d, g, u, q) == At(file, file', d, g) /\ At(tick, tick', d, u) /\ At(pull, pull', d, q)

SamePi == piLog' = piLog /\ piRead' = piRead

AllOK == TabletsOK(file, tick, pull, piLog)

LEMMA Alls == ASSUME AllOK PROVE Each(file) /\ Each(tick) /\ Each(pull)
BY DEF AllOK, TabletsOK

LEMMA Starts ==
  ASSUME AllOK, NEW d \in Tablet, StartTick(d)
  PROVE  \E u : /\ Only(d, file[d], u, pull[d]) /\ SamePi /\ bundles' = bundles
                /\ u \in Tick /\ u.at = "ask" /\ u.copy = file[d] /\ u.id = 0
                /\ tick[d].at = "idle" /\ (MayOverlap \/ pull[d].at = "idle")
<1> DEFINE u == Asking(file[d])
<1>1. /\ Puts(tick, tick', d, u) /\ file' = file /\ pull' = pull /\ bundles' = bundles /\ SamePi
      /\ tick[d].at = "idle" /\ (MayOverlap \/ pull[d].at = "idle")
  BY DEF StartTick, Asking, Puts, SamePi, piVars
<1>2. u \in Tick /\ u.at = "ask" /\ u.copy = file[d] /\ u.id = 0
  BY TickAsks, TabletIs DEF AllOK
<1> HIDE DEF u
<1>3. At(tick, tick', d, u) /\ At(file, file', d, file[d]) /\ At(pull, pull', d, pull[d])
  BY <1>1, Alls, PutsAt, StaysAt
<1> QED BY Zenon, <1>1, <1>2, <1>3 DEF Only

\* What asking for the key makes of the file and the tick.
AfterAsking(d, f, u) ==
    /\ Only(d, f, u, pull[d]) /\ SamePi /\ bundles' = bundles
    /\ u \in Tick /\ u.at \in {"fetch", "push"} /\ u.id = tick[d].id /\ u.todo = Path
    /\ u.copy.log = tick[d].copy.log /\ u.copy.cursor = tick[d].copy.cursor
    /\ u.copy.pushed = tick[d].copy.pushed /\ u.copy.id = tick[d].copy.id
    /\ f = u.copy \/ (f = file[d] /\ u.copy = tick[d].copy)
    /\ tick[d].at = "ask"

LEMMA Asks ==
  ASSUME AllOK, NEW d \in Tablet, NEW pi \in BOOLEAN, NEW online \in BOOLEAN,
         NEW key \in {"keep", "given", "taken"}, AskForKey(d, pi, key, online)
  PROVE  \E f, u : AfterAsking(d, f, u)
<1> DEFINE t == tick[d]
           k == (key = "given")
           copy == IF key = "keep" THEN t.copy ELSE WithKey(t.copy, k)
           at == IF online THEN "push" ELSE "fetch"
           u == Asked(t, at, copy, pi)
           f == IF copy # t.copy THEN copy ELSE file[d]
<1>1. /\ Puts(tick, tick', d, u) /\ pull' = pull /\ bundles' = bundles /\ SamePi
      /\ tick[d].at = "ask"
  BY DEF AskForKey, WithKey, Asked, Puts, SamePi, piVars
<1>2. Puts(file, file', d, f) \/ (file' = file /\ f = file[d])
  BY DEF AskForKey, WithKey, Asked, Puts, Saves
<1>3. t \in Tick /\ t.copy \in File
  BY TabletIs DEF AllOK
<1>4. /\ copy \in File /\ copy.log = t.copy.log /\ copy.cursor = t.copy.cursor
      /\ copy.pushed = t.copy.pushed /\ copy.id = t.copy.id
  <2>1. CASE key = "keep"
    BY <1>3, <2>1
  <2>2. CASE key # "keep"
    <3> DEFINE g == WithKey(t.copy, k)
    <3>1. k \in BOOLEAN /\ copy = g
      BY <2>2
    <3> HIDE DEF k, t
    <3>2. /\ g \in File /\ g.log = t.copy.log /\ g.cursor = t.copy.cursor
          /\ g.pushed = t.copy.pushed /\ g.id = t.copy.id
      BY <1>3, <3>1, FileWithKey
    <3> HIDE DEF copy, g
    <3> QED BY <3>1, <3>2
  <2> QED BY <2>1, <2>2
<1>5. at \in {"fetch", "push"}
  OBVIOUS
<1>6. f = copy \/ (f = file[d] /\ copy = t.copy)
  OBVIOUS
<1> HIDE DEF copy, at, f, t
<1>12. u = Asked(t, at, copy, pi)
  OBVIOUS
<1> HIDE DEF u
<1>7. /\ u \in Tick /\ u.at = at /\ u.copy = copy /\ u.todo = Path /\ u.id = t.id
  <2>1. t \in Tick /\ copy \in File /\ pi \in BOOLEAN
    BY <1>3, <1>4
  <2> QED BY ONLY <1>5, <1>12, <2>1, TickAsked
<1>8. At(tick, tick', d, u) /\ At(pull, pull', d, pull[d])
  BY <1>1, Alls, PutsAt, StaysAt
<1>9. At(file, file', d, f)
  BY <1>2, Alls, PutsAt, StaysAt
<1>10. Only(d, f, u, pull[d])
  BY Zenon, <1>8, <1>9 DEF Only
<1>11. /\ u \in Tick /\ u.at \in {"fetch", "push"} /\ u.id = tick[d].id /\ u.todo = Path
       /\ u.copy.log = tick[d].copy.log /\ u.copy.cursor = tick[d].copy.cursor
       /\ u.copy.pushed = tick[d].copy.pushed /\ u.copy.id = tick[d].copy.id
       /\ f = u.copy \/ (f = file[d] /\ u.copy = tick[d].copy)
  BY <1>4, <1>5, <1>6, <1>7 DEF t
<1> QED BY Zenon, <1>1, <1>10, <1>11 DEF AfterAsking

LEMMA Fetches ==
  ASSUME AllOK, tba \in [Path -> Body], clock \in Nat, NEW d \in Tablet, NEW p \in Path, Fetch(d, p)
  PROVE  \E u, e : /\ Only(d, file[d], u, pull[d]) /\ SamePi /\ bundles' = bundles
                   /\ u \in Tick /\ u.at = "fetch" /\ u.id = tick[d].id /\ u.todo = tick[d].todo \ {p}
                   /\ IsEntry(e) /\ e.via = "device" /\ u.copy.log = Appended(tick[d].copy.log, e)
                   /\ u.copy.cursor = tick[d].copy.cursor
                   /\ u.copy.pushed = tick[d].copy.pushed /\ u.copy.id = tick[d].copy.id
                   /\ tick[d].at = "fetch" /\ p \in tick[d].todo
<1> DEFINE t == tick[d]
           e == [path |-> p, body |-> tba[p], at |-> clock + Ahead[d], via |-> "device"]
           l == Appended(t.copy.log, e)
           copy == WithLog(t.copy, l)
           u == Fetching(t, p, copy)
<1>1. /\ Puts(tick, tick', d, u) /\ file' = file /\ pull' = pull /\ bundles' = bundles /\ SamePi
      /\ t.at = "fetch" /\ p \in t.todo
  BY DEF Fetch, Puts, SamePi, piVars, Fetching, WithLog
<1>2. IsEntry(e) /\ e.via = "device"
  BY CourierAssumption DEF IsEntry, Via
<1>3. t \in Tick /\ t.copy \in File /\ CopyOK(t.copy, piLog)
  BY TabletIs DEF AllOK
<1> HIDE DEF e, t
<1>4. l \in Log
  <2>1. LogOK(t.copy.log)
    BY <1>3 DEF CopyOK
  <2>2. LogOK(AppendIn(t.copy.log, e, FALSE))
    BY Zenon, <1>2, <2>1, AppendAdds
  <2> QED BY <2>2 DEF LogOK, Appended
<1>10. l = Appended(t.copy.log, e)
  OBVIOUS
<1> HIDE DEF l
<1>5. /\ copy \in File /\ copy.log = l /\ copy.cursor = t.copy.cursor
      /\ copy.pushed = t.copy.pushed /\ copy.id = t.copy.id
  BY <1>3, <1>4, FileWithLog
<1> HIDE DEF copy
<1>11. u = Fetching(t, p, copy)
  OBVIOUS
<1> HIDE DEF u
<1>6. /\ u \in Tick /\ u.at = t.at /\ u.copy = copy /\ u.todo = t.todo \ {p} /\ u.id = t.id
  BY <1>3, <1>5, <1>11, TickFetches
<1>7. At(tick, tick', d, u) /\ At(file, file', d, file[d]) /\ At(pull, pull', d, pull[d])
  BY <1>1, Alls, PutsAt, StaysAt
<1>8. Only(d, file[d], u, pull[d])
  BY Zenon, <1>7 DEF Only
<1>9. /\ u \in Tick /\ u.at = "fetch" /\ u.id = tick[d].id /\ u.todo = tick[d].todo \ {p}
      /\ IsEntry(e) /\ e.via = "device" /\ u.copy.log = Appended(tick[d].copy.log, e)
      /\ u.copy.cursor = tick[d].copy.cursor
      /\ u.copy.pushed = tick[d].copy.pushed /\ u.copy.id = tick[d].copy.id
      /\ tick[d].at = "fetch" /\ p \in tick[d].todo
  BY <1>1, <1>2, <1>5, <1>6, <1>10 DEF t
<1> QED BY Zenon, <1>1, <1>8, <1>9

LEMMA FetchIsOver ==
  ASSUME AllOK, NEW d \in Tablet, FetchEnds(d)
  PROVE  \E f, u : /\ Only(d, f, u, pull[d]) /\ SamePi /\ bundles' = bundles
                   /\ u \in Tick /\ u.at = "push" /\ u.id = tick[d].id /\ u.copy = tick[d].copy
                   /\ f = tick[d].copy \/ (f = file[d] /\ tick[d].todo = Path)
                   /\ tick[d].at = "fetch"
<1> DEFINE t == tick[d]
           u == Fetched(t)
<1>1. /\ Puts(tick, tick', d, u) /\ pull' = pull /\ bundles' = bundles /\ SamePi
      /\ t.at = "fetch"
  BY DEF FetchEnds, Fetched, Puts, SamePi, piVars
<1>2. \/ Puts(file, file', d, t.copy)
      \/ file' = file /\ t.todo = Path
  BY DEF FetchEnds, Fetched, Puts, Saves
<1>3. t \in Tick
  BY TabletIs DEF AllOK
<1> HIDE DEF t
<1>4. u \in Tick /\ u.at = "push" /\ u.copy = t.copy /\ u.id = t.id
  BY <1>3, TickFetched
<1> HIDE DEF u
<1>5. At(tick, tick', d, u) /\ At(pull, pull', d, pull[d])
  BY <1>1, Alls, PutsAt, StaysAt
<1>6. At(file, file', d, t.copy) \/ (At(file, file', d, file[d]) /\ t.todo = Path)
  BY <1>2, Alls, PutsAt, StaysAt
<1>7. Only(d, t.copy, u, pull[d]) \/ (Only(d, file[d], u, pull[d]) /\ t.todo = Path)
  BY Zenon, <1>5, <1>6 DEF Only
<1> QED BY Zenon, <1>1, <1>4, <1>7 DEF t

LEMMA PushesNothing ==
  ASSUME AllOK, NEW d \in Tablet, NothingToPush(d)
  PROVE  Only(d, file[d], IdleTick, pull[d]) /\ SamePi /\ bundles' = bundles /\ tick[d].at = "push"
<1>1. /\ Puts(tick, tick', d, IdleTick) /\ file' = file /\ pull' = pull /\ bundles' = bundles /\ SamePi
      /\ tick[d].at = "push"
  BY DEF NothingToPush, Puts, SamePi, piVars
<1>2. At(tick, tick', d, IdleTick) /\ At(file, file', d, file[d]) /\ At(pull, pull', d, pull[d])
  BY <1>1, Alls, PutsAt, StaysAt
<1> QED BY Zenon, <1>1, <1>2 DEF Only

\* The log id of a push.
IdFor(f) == IF f.id # 0 THEN f.id ELSE FreshId

LEMMA Posts ==
  ASSUME AllOK, IsFiniteSet(piRead), IsFiniteSet(bundles), NEW d \in Tablet, Push(d)
  PROVE  \E u : /\ Only(d, file[d], u, pull[d]) /\ SamePi
                /\ u \in Tick /\ u.at = "posted" /\ u.id = IdFor(tick[d].copy) /\ u.copy = tick[d].copy
                /\ u.id \in Nat \ {0} /\ tick[d].at = "push" /\ Unsent(tick[d].copy) # {}
                /\ bundles' = bundles \cup {NewBundle(d, u.id, Unsent(tick[d].copy))}
<1> DEFINE t == tick[d]
           i == IdFor(t.copy)
           u == Posting(t, i)
<1>1. /\ Puts(tick, tick', d, u) /\ file' = file /\ pull' = pull /\ SamePi
      /\ t.at = "push" /\ Unsent(t.copy) # {}
      /\ bundles' = bundles \cup {NewBundle(d, i, Unsent(t.copy))}
  BY DEF Push, Posting, NewBundle, Puts, SamePi, piVars, IdFor
<1>2. t \in Tick /\ t.copy \in File
  BY TabletIs DEF AllOK
<1>3. i \in Nat \ {0}
  <2>1. FreshId \in Nat \ {0}
    BY FreshIdIs
  <2>2. t.copy.id \in Nat
    BY <1>2, FileIs
  <2> HIDE DEF t
  <2> QED BY <2>1, <2>2 DEF IdFor
<1>7. i = IdFor(t.copy)
  OBVIOUS
<1> HIDE DEF t, i
<1>8. u = Posting(t, i)
  OBVIOUS
<1> HIDE DEF u
<1>4. u \in Tick /\ u.at = "posted" /\ u.copy = t.copy /\ u.id = i
  BY <1>2, <1>3, <1>8, TickPosts
<1>5. At(tick, tick', d, u) /\ At(file, file', d, file[d]) /\ At(pull, pull', d, pull[d])
  BY <1>1, Alls, PutsAt, StaysAt
<1>6. Only(d, file[d], u, pull[d])
  BY Zenon, <1>5 DEF Only
<1> QED BY Zenon, <1>1, <1>3, <1>4, <1>6, <1>7 DEF t

\* What a job writes, if anything: g, in place of the copy c it read.
Writes(d, f, g, c) == f = g \/ (f = file[d] /\ g = c)

LEMMA SavesAt ==
  ASSUME AllOK, NEW d \in Tablet, NEW g, NEW c, Saves(d, g, g # c)
  PROVE  \E f : At(file, file', d, f) /\ Writes(d, f, g, c)
<1>1. CASE g # c
  <2>1. Puts(file, file', d, g)
    BY <1>1 DEF Saves, Puts
  <2>2. At(file, file', d, g)
    BY <2>1, Alls, PutsAt
  <2> QED BY Zenon, <2>2 DEF Writes
<1>2. CASE g = c
  <2>1. file' = file
    BY <1>2 DEF Saves
  <2>2. At(file, file', d, file[d])
    BY <2>1, Alls, StaysAt
  <2> QED BY Zenon, <1>2, <2>2 DEF Writes
<1> QED BY <1>1, <1>2

LEMMA GetsAnswer ==
  ASSUME AllOK, NEW d \in Tablet, Answered(d)
  PROVE  \E f, g : /\ Only(d, f, IdleTick, pull[d]) /\ SamePi /\ bundles' = bundles
                   /\ g \in File /\ g.log = tick[d].copy.log /\ g.cursor = tick[d].copy.cursor
                   /\ g.pushed = Max({tick[d].copy.pushed, tick[d].answer}) /\ g.id = tick[d].id
                   /\ Writes(d, f, g, tick[d].copy)
                   /\ tick[d].at = "answered"
<1> DEFINE t == tick[d]
           g == WithPushed(t.copy, t.id, t.answer)
<1>1. /\ Puts(tick, tick', d, IdleTick) /\ Saves(d, g, g # t.copy)
      /\ pull' = pull /\ bundles' = bundles /\ SamePi /\ t.at = "answered"
  BY DEF Answered, Puts, SamePi, piVars, WithPushed
<1>2. t \in Tick
  BY TabletIs DEF AllOK
<1> HIDE DEF t
<1>3. t.copy \in File /\ t.id \in Nat /\ t.answer \in Nat /\ t.copy.pushed \in Nat
  BY <1>2, TickIs, FileIs
<1>4. Max({t.copy.pushed, t.answer}) \in Nat
  BY <1>3, TheGreater
<1>5. g = WithPushed(t.copy, t.id, t.answer)
  OBVIOUS
<1> HIDE DEF g
<1>6. /\ g \in File /\ g.log = t.copy.log /\ g.cursor = t.copy.cursor
      /\ g.pushed = Max({t.copy.pushed, t.answer}) /\ g.id = t.id
  BY ONLY <1>3, <1>4, <1>5, FileWithPushed
<1>7. At(tick, tick', d, IdleTick) /\ At(pull, pull', d, pull[d])
  BY <1>1, Alls, PutsAt, StaysAt
<1>8. PICK f : At(file, file', d, f) /\ Writes(d, f, g, t.copy)
  BY Zenon, <1>1, SavesAt
<1>9. Only(d, f, IdleTick, pull[d])
  BY Zenon, <1>7, <1>8 DEF Only
<1> QED BY Zenon, <1>1, <1>6, <1>8, <1>9 DEF t

\* The bundles bs when the tablet no longer waits for its own: lost, or late.
LeftBy(d, bs) ==
    \E late \in SUBSET {b \in bundles : b.live /\ b.from = d} :
        bs = (bundles \ {b \in bundles : b.live /\ b.from = d}) \cup {[b EXCEPT !.live = FALSE] : b \in late}

LEMMA GetsNone ==
  ASSUME AllOK, NEW d \in Tablet, NotAnswered(d)
  PROVE  \E f, g : /\ Only(d, f, IdleTick, pull[d]) /\ SamePi /\ LeftBy(d, bundles')
                   /\ g \in File /\ g.log = tick[d].copy.log /\ g.cursor = tick[d].copy.cursor
                   /\ g.pushed = tick[d].copy.pushed /\ g.id = tick[d].id
                   /\ Writes(d, f, g, tick[d].copy)
                   /\ tick[d].at \in {"posted", "answered"}
<1> DEFINE t == tick[d]
           g == WithId(t.copy, t.id)
<1>2. t \in Tick
  BY TabletIs DEF AllOK
<1>1. /\ Puts(tick, tick', d, IdleTick) /\ Saves(d, g, t.id # t.copy.id)
      /\ pull' = pull /\ LeavesBundles(d) /\ SamePi /\ t.at \in {"posted", "answered"}
  BY DEF NotAnswered, Puts, SamePi, piVars, WithId
<1>10. LeftBy(d, bundles')
  BY Zenon, <1>1 DEF LeavesBundles, LeftBy
<1> HIDE DEF t
<1>3. t.copy \in File /\ t.id \in Nat
  BY <1>2, TickIs
<1>5. g = WithId(t.copy, t.id)
  OBVIOUS
<1> HIDE DEF g
<1>6. /\ g \in File /\ g.log = t.copy.log /\ g.cursor = t.copy.cursor
      /\ g.pushed = t.copy.pushed /\ g.id = t.id /\ g.key = t.copy.key
  BY ONLY <1>3, <1>5, FileWithId
<1>4. t.id # t.copy.id <=> g # t.copy
  <2>1. t.id = t.copy.id => g = t.copy
    <3> SUFFICES ASSUME t.id = t.copy.id PROVE g = t.copy
      OBVIOUS
    <3>1. g = [log |-> g.log, cursor |-> g.cursor, pushed |-> g.pushed, id |-> g.id, key |-> g.key]
      BY <1>6, FileIs
    <3>2. t.copy = [log |-> t.copy.log, cursor |-> t.copy.cursor, pushed |-> t.copy.pushed,
                    id |-> t.copy.id, key |-> t.copy.key]
      BY <1>3, FileIs
    <3> QED BY Zenon, <1>6, <3>1, <3>2
  <2> QED BY <1>6, <2>1
<1>7. At(tick, tick', d, IdleTick) /\ At(pull, pull', d, pull[d])
  BY <1>1, Alls, PutsAt, StaysAt
<1>8. PICK f : At(file, file', d, f) /\ Writes(d, f, g, t.copy)
  <2>1. Saves(d, g, g # t.copy)
    BY <1>1, <1>4 DEF Saves
  <2> QED BY Zenon, <2>1, SavesAt
<1>9. Only(d, f, IdleTick, pull[d])
  BY Zenon, <1>7, <1>8 DEF Only
<1> QED BY Zenon, <1>1, <1>6, <1>8, <1>9, <1>10 DEF t

LEMMA PullStarts ==
  ASSUME AllOK, NEW d \in Tablet, StartPull(d)
  PROVE  \E q : /\ Only(d, file[d], tick[d], q) /\ SamePi /\ bundles' = bundles
                /\ q \in Pull /\ q.at = "page" /\ q.copy = file[d]
                /\ pull[d].at = "idle" /\ (MayOverlap \/ tick[d].at = "idle")
<1> DEFINE q == [at |-> "page", copy |-> file[d]]
<1>1. /\ Puts(pull, pull', d, q) /\ file' = file /\ tick' = tick /\ bundles' = bundles /\ SamePi
      /\ pull[d].at = "idle" /\ (MayOverlap \/ tick[d].at = "idle")
  BY DEF StartPull, Puts, SamePi, piVars
<1>2. file[d] \in File
  BY TabletIs DEF AllOK
<1>3. q = [at |-> "page", copy |-> file[d]]
  OBVIOUS
<1> HIDE DEF q
<1>4. q \in Pull /\ q.at = "page" /\ q.copy = file[d]
  BY ONLY <1>2, <1>3, PullReads
<1>5. At(pull, pull', d, q) /\ At(file, file', d, file[d]) /\ At(tick, tick', d, tick[d])
  BY <1>1, Alls, PutsAt, StaysAt
<1> QED BY Zenon, <1>1, <1>4, <1>5 DEF Only

LEMMA PullsPage ==
  ASSUME AllOK, LogOK(piLog), NEW d \in Tablet, PullPage(d)
  PROVE  \E g, q : /\ Only(d, g, tick[d], q) /\ SamePi /\ bundles' = bundles
                   /\ g \in File /\ Paged(pull[d].copy.log, g.log, PageOf(piLog, pull[d].copy.cursor))
                   /\ g.cursor = TopOf(PageOf(piLog, pull[d].copy.cursor), pull[d].copy.cursor)
                   /\ g.pushed = pull[d].copy.pushed /\ g.id = pull[d].copy.id
                   /\ q \in Pull /\ (q = IdlePull \/ (q.at = "page" /\ q.copy = g))
                   /\ pull[d].at = "page"
<1> DEFINE c == pull[d].copy
           page == PageOf(piLog, c.cursor)
           l == AppendedInOrder(c.log, Under(page, "pi"), FALSE)
           g == WithPage(c, l, page)
           full == Cardinality(page) = PageSize
           q == IF full THEN [at |-> "page", copy |-> g] ELSE IdlePull
<1>1. Page(c.cursor) = page
  BY Zenon DEF Page, PageOf
<1>2. /\ Puts(pull, pull', d, q) /\ Puts(file, file', d, g)
      /\ tick' = tick /\ bundles' = bundles /\ SamePi /\ pull[d].at = "page"
  <2> HIDE DEF page
  <2> QED BY <1>1 DEF PullPage, Puts, SamePi, piVars, WithPage
<1>3. c \in File /\ CopyOK(c, piLog)
  BY TabletIs DEF AllOK
<1> HIDE DEF c
<1>4. c.cursor \in Nat /\ LogOK(c.log)
  BY <1>3, FileIs DEF CopyOK
<1>5. IsFiniteSet(page) /\ \A r \in page : r.seq \in Nat
  <2>1. page \subseteq Row /\ IsFiniteSet(page)
    BY <1>4, PageIs
  <2> QED BY <2>1, RowIs
<1>6. Paged(c.log, l, page)
  BY Zenon DEF Paged
<1>7. LogOK(l)
  BY Zenon, <1>4, <1>6, PagedGrows
<1>8. TopOf(page, c.cursor) \in Nat
  BY Zenon, <1>4, <1>5, TopNumber
<1>9. g = WithPage(c, l, page) /\ l \in Log
  BY <1>7 DEF LogOK
<1>10. page = PageOf(piLog, c.cursor)
  OBVIOUS
<1> HIDE DEF g, l, page
<1>11. /\ g \in File /\ g.log = l /\ g.cursor = TopOf(page, c.cursor)
       /\ g.pushed = c.pushed /\ g.id = c.id
  BY ONLY <1>3, <1>8, <1>9, FileWithPage
<1>12. q \in Pull /\ (q = IdlePull \/ (q.at = "page" /\ q.copy = g))
  <2>1. CASE full
    <3>1. q = [at |-> "page", copy |-> g]
      BY <2>1
    <3> HIDE DEF q
    <3>2. q \in Pull /\ q.at = "page" /\ q.copy = g
      BY ONLY <1>11, <3>1, PullReads
    <3> QED BY <3>2
  <2>2. CASE ~ full
    BY Zenon, <2>2, IdleOnes
  <2> QED BY <2>1, <2>2
<1> HIDE DEF q
<1>13. At(pull, pull', d, q) /\ At(file, file', d, g) /\ At(tick, tick', d, tick[d])
  BY <1>2, Alls, PutsAt, StaysAt
<1>14. Only(d, g, tick[d], q)
  BY Zenon, <1>13 DEF Only
<1> QED BY Zenon, <1>2, <1>6, <1>10, <1>11, <1>12, <1>14 DEF c

LEMMA PullStops ==
  ASSUME AllOK, NEW d \in Tablet, StopPull(d)
  PROVE  Only(d, file[d], tick[d], IdlePull) /\ SamePi /\ bundles' = bundles
<1>1. /\ Puts(pull, pull', d, IdlePull) /\ file' = file /\ tick' = tick /\ bundles' = bundles /\ SamePi
  BY DEF StopPull, Puts, SamePi, piVars
<1>2. At(pull, pull', d, IdlePull) /\ At(file, file', d, file[d]) /\ At(tick, tick', d, tick[d])
  BY <1>1, Alls, PutsAt, StaysAt
<1> QED BY Zenon, <1>1, <1>2 DEF Only

LEMMA WorkerStops ==
  ASSUME AllOK, NEW d \in Tablet, Crash(d)
  PROVE  Only(d, file[d], IdleTick, IdlePull) /\ SamePi /\ LeftBy(d, bundles')
<1>1. /\ Puts(pull, pull', d, IdlePull) /\ Puts(tick, tick', d, IdleTick) /\ file' = file
      /\ LeavesBundles(d) /\ SamePi
  BY DEF Crash, Puts, SamePi, piVars
<1>2. LeftBy(d, bundles')
  BY Zenon, <1>1 DEF LeavesBundles, LeftBy
<1>3. At(pull, pull', d, IdlePull) /\ At(file, file', d, file[d]) /\ At(tick, tick', d, IdleTick)
  BY <1>1, Alls, PutsAt, StaysAt
<1> QED BY Zenon, <1>1, <1>2, <1>3 DEF Only

LEMMA IsReplaced ==
  ASSUME AllOK, LogOK(piLog), NEW d \in Tablet, Replace(d)
  PROVE  \E g : /\ Only(d, g, tick[d], pull[d]) /\ SamePi /\ bundles' = bundles
                /\ g \in File /\ g.log = Cut(piLog) /\ g.cursor = piLog.next - 1
                /\ g.pushed = 0 /\ g.id = 0
<1> DEFINE l == Cut(piLog)
           c == piLog.next - 1
           g == [NewFile EXCEPT !.log = l, !.cursor = c]
<1>1. /\ Puts(file, file', d, g) /\ tick' = tick /\ pull' = pull /\ bundles' = bundles /\ SamePi
  BY Zenon DEF Replace, Puts, SamePi, piVars, Cut
<1>2. l \in Log /\ c \in Nat
  BY LogRows, CutIs DEF LogOK
<1> HIDE DEF l, c
<1>3. g = [NewFile EXCEPT !.log = l, !.cursor = c]
  OBVIOUS
<1> HIDE DEF g
<1>4. g = [log |-> l, cursor |-> c, pushed |-> 0, id |-> 0, key |-> FALSE]
  BY ONLY <1>3, SnapshotFields
<1>5. g \in File /\ g.log = l /\ g.cursor = c /\ g.pushed = 0 /\ g.id = 0
  BY ONLY <1>2, <1>4, SnapshotIs
<1>6. At(file, file', d, g) /\ At(tick, tick', d, tick[d]) /\ At(pull, pull', d, pull[d])
  BY <1>1, Alls, PutsAt, StaysAt
<1>7. Only(d, g, tick[d], pull[d])
  BY Zenon, <1>6 DEF Only
<1> QED BY Zenon, <1>1, <1>5, <1>7 DEF l, c

-----------------------------------------------------------------------------
(* The bundles. *)

Late(b) == [b EXCEPT !.live = FALSE]

LEMMA LateIs ==
  ASSUME NEW b \in Bundle
  PROVE  /\ Late(b) \in Bundle /\ Late(b).from = b.from /\ Late(b).id = b.id
         /\ Late(b).rows = b.rows /\ Late(b).live = FALSE
BY DEF Bundle, Late

\* c came of b: on its way to the Pi for tablet d no more.
LeftOf(c, b, d) ==
    /\ c.from = b.from /\ c.id = b.id /\ c.rows = b.rows
    /\ c.live => c = b /\ b.from # d

LEMMA LeftAre ==
  ASSUME bundles \in SUBSET Bundle, IsFiniteSet(bundles), NEW d, NEW bs, LeftBy(d, bs)
  PROVE  /\ bs \in SUBSET Bundle /\ IsFiniteSet(bs)
         /\ \A c \in bs : \E b \in bundles : LeftOf(c, b, d)
<1> DEFINE mine == {b \in bundles : b.live /\ b.from = d}
<1>1. PICK late \in SUBSET mine : bs = (bundles \ mine) \cup {[b EXCEPT !.live = FALSE] : b \in late}
  BY DEF LeftBy
<1> DEFINE f == [b \in late |-> Late(b)]
           L == {f[b] : b \in late}
<1>2. bs = (bundles \ mine) \cup L
  BY Zenon, <1>1 DEF Late
<1>3. f = [b \in late |-> f[b]]
  OBVIOUS
<1>4. \A b \in late : f[b] = Late(b) /\ b \in bundles
  OBVIOUS
<1>5. IsFiniteSet(late) /\ IsFiniteSet(bundles \ mine)
  BY FS_Subset
<1> HIDE DEF f
<1>6. \A c \in L : \E b \in late : c = f[b]
  OBVIOUS
<1>7. IsFiniteSet(L)
  BY <1>3, <1>5, ImagesAreFinite
<1> HIDE DEF L
<1>8. ASSUME NEW c \in L PROVE c \in Bundle /\ \E b \in bundles : LeftOf(c, b, d)
  <2>1. PICK b \in late : c = f[b]
    BY <1>6
  <2>2. c = Late(b) /\ b \in bundles /\ b \in Bundle
    BY <1>4, <2>1
  <2>3. c \in Bundle /\ c.from = b.from /\ c.id = b.id /\ c.rows = b.rows /\ c.live = FALSE
    BY Zenon, <2>2, LateIs
  <2>4. LeftOf(c, b, d)
    BY Zenon, <2>3 DEF LeftOf
  <2> QED BY Zenon, <2>2, <2>3, <2>4
<1>9. ASSUME NEW c \in bundles \ mine PROVE c \in Bundle /\ \E b \in bundles : LeftOf(c, b, d)
  <2>1. c \in Bundle /\ c \in bundles /\ (c.live => c.from # d)
    BY Zenon
  <2>2. LeftOf(c, c, d)
    BY Zenon, <2>1 DEF LeftOf
  <2> QED BY Zenon, <2>1, <2>2
<1> HIDE DEF mine
<1>10. IsFiniteSet(bs)
  BY <1>2, <1>5, <1>7, FS_Union
<1> QED BY Zenon, <1>2, <1>8, <1>9, <1>10

LEMMA BundlesLeft ==
  ASSUME BundlesOK(bundles, tick), NEW d \in Tablet, NEW more, NEW u, At(tick, more, d, u),
         NEW bs, LeftBy(d, bs)
  PROVE  BundlesOK(bs, more)
<1>1. /\ bs \in SUBSET Bundle /\ IsFiniteSet(bs)
      /\ \A c \in bs : \E b \in bundles : LeftOf(c, b, d)
  BY LeftAre DEF BundlesOK
<1>2. \A b \in bundles : b.from \in Tablet
  BY BundleIs DEF BundlesOK
<1>3. ASSUME NEW c \in bs
      PROVE  /\ IsFiniteSet(c.rows) /\ c.id # 0
             /\ c.live => more[c.from].at = "posted" /\ more[c.from].id = c.id
  <2>1. PICK b \in bundles : LeftOf(c, b, d)
    BY <1>1
  <2>2. /\ IsFiniteSet(b.rows) /\ b.id # 0
        /\ b.live => tick[b.from].at = "posted" /\ tick[b.from].id = b.id
    BY Zenon DEF BundlesOK
  <2>3. b.from # d => more[b.from] = tick[b.from]
    BY Zenon, <1>2 DEF At
  <2> QED BY Zenon, <2>1, <2>2, <2>3 DEF LeftOf
<1>4. ASSUME NEW a \in bs, NEW b \in bs, a.live, b.live, a.from = b.from PROVE a = b
  <2>1. a \in bundles /\ b \in bundles
    BY Zenon, <1>1, <1>4 DEF LeftOf
  <2> QED BY Zenon, <1>4, <2>1 DEF BundlesOK
<1> QED BY Zenon, <1>1, <1>3, <1>4 DEF BundlesOK

LEMMA BundlesStay ==
  ASSUME NEW bs, NEW ticks, BundlesOK(bs, ticks), NEW d \in Tablet, NEW more, NEW u, At(ticks, more, d, u),
         ticks[d].at # "posted" \/ (u.at = ticks[d].at /\ u.id = ticks[d].id)
  PROVE  BundlesOK(bs, more)
<1>1. \A b \in bs : b.from \in Tablet
  BY BundleIs DEF BundlesOK
<1>2. ASSUME NEW b \in bs, b.live PROVE more[b.from].at = "posted" /\ more[b.from].id = b.id
  <2>1. ticks[b.from].at = "posted" /\ ticks[b.from].id = b.id
    BY Zenon, <1>2 DEF BundlesOK
  <2>2. CASE b.from = d
    BY Zenon, <2>1, <2>2 DEF At
  <2>3. CASE b.from # d
    BY Zenon, <1>1, <2>1, <2>3 DEF At
  <2> QED BY <2>2, <2>3
<1> QED BY Zenon, <1>2 DEF BundlesOK

LEMMA UnsentIs ==
  ASSUME NEW f, LogOK(f.log)
  PROVE  /\ Unsent(f) \in SUBSET Row /\ IsFiniteSet(Unsent(f))
         /\ \A r : r \in Unsent(f) <=> r \in f.log.rows /\ r.via = "device" /\ r.seq > f.pushed
<1>1. Unsent(f) \in SUBSET f.log.rows /\ f.log.rows \subseteq Row
  BY LogRows DEF Unsent
<1>2. IsFiniteSet(Unsent(f))
  BY <1>1, FS_Subset DEF LogOK
<1> QED BY <1>1, <1>2 DEF Unsent

LEMMA BundlesPost ==
  ASSUME NEW bs, NEW ticks, BundlesOK(bs, ticks), NEW d \in Tablet, ticks[d].at # "posted",
         NEW more, NEW u, At(ticks, more, d, u), u.at = "posted", u.id \in Nat \ {0},
         NEW rows \in SUBSET Row, IsFiniteSet(rows)
  PROVE  BundlesOK(bs \cup {NewBundle(d, u.id, rows)}, more)
<1> DEFINE n == NewBundle(d, u.id, rows)
<1>1. BundlesOK(bs, more)
  BY Zenon, BundlesStay
<1>2. n \in Bundle /\ n.from = d /\ n.id = u.id /\ n.rows = rows /\ n.live
  BY DEF NewBundle, Bundle, LogId
<1> HIDE DEF n
<1>3. \A b \in bs : b.live => b.from # d
  BY Zenon DEF BundlesOK
<1>4. IsFiniteSet(bs \cup {n}) /\ bs \cup {n} \in SUBSET Bundle
  BY <1>2, FS_AddElement DEF BundlesOK
<1>5. ASSUME NEW b \in bs \cup {n}
      PROVE  /\ IsFiniteSet(b.rows) /\ b.id # 0
             /\ b.live => more[b.from].at = "posted" /\ more[b.from].id = b.id
  <2>1. CASE b = n
    BY <1>2, <2>1 DEF At
  <2>2. CASE b \in bs
    BY Zenon, <1>1, <2>2 DEF BundlesOK
  <2> QED BY <2>1, <2>2
<1>6. ASSUME NEW a \in bs \cup {n}, NEW b \in bs \cup {n}, a.live, b.live, a.from = b.from PROVE a = b
  BY Zenon, <1>2, <1>3, <1>6 DEF BundlesOK
<1>7. BundlesOK(bs \cup {n}, more)
  BY Zenon, <1>4, <1>5, <1>6 DEF BundlesOK
<1> QED BY <1>7 DEF n

LEMMA BundlesFewer ==
  ASSUME NEW bs, NEW ticks, BundlesOK(bs, ticks), NEW b \in bs, NEW more,
         IF b.live THEN \E u : At(ticks, more, b.from, u) ELSE more = ticks
  PROVE  BundlesOK(bs \ {b}, more)
<1>1. IsFiniteSet(bs \ {b}) /\ bs \ {b} \in SUBSET Bundle
  BY FS_RemoveElement DEF BundlesOK
<1>2. \A c \in bs : c.from \in Tablet
  BY BundleIs DEF BundlesOK
<1>3. ASSUME NEW c \in bs \ {b}, c.live PROVE more[c.from] = ticks[c.from]
  <2>1. b.live => c.from # b.from
    BY Zenon, <1>3 DEF BundlesOK
  <2> QED BY Zenon, <1>2, <2>1 DEF At
<1> QED BY Zenon, <1>1, <1>3 DEF BundlesOK

-----------------------------------------------------------------------------
(* The Pi imports a bundle. *)

LEMMA BelievedIs ==
  ASSUME clock \in Nat, NEW rows \in SUBSET Row, IsFiniteSet(rows)
  PROVE  /\ Believed(rows) \in SUBSET Row /\ IsFiniteSet(Believed(rows))
         /\ \A q \in Believed(rows) : q.at <= clock
<1> DEFINE As(r) == [seq |-> r.seq, path |-> r.path, body |-> r.body, at |-> Min({r.at, clock}), via |-> r.via]
           f == [r \in rows |-> As(r)]
           S == {f[r] : r \in rows}
<1>1. ASSUME NEW r \in rows
      PROVE  [r EXCEPT !.at = Min({@, clock})] = f[r] /\ f[r] \in Row /\ f[r].at <= clock
  <2>1. r.at \in Nat /\ r \in Row
    BY RowIs
  <2>2. Min({r.at, clock}) \in Nat /\ Min({r.at, clock}) <= clock
    BY <2>1, TheLesser
  <2>3. [r EXCEPT !.at = Min({@, clock})] = As(r)
    BY <2>1 DEF Row
  <2>4. As(r) \in Row /\ As(r).at = Min({r.at, clock})
    BY <2>1, <2>2, RowIs DEF Row
  <2> QED BY <2>2, <2>3, <2>4
<1>2. f = [r \in rows |-> f[r]]
  OBVIOUS
<1> HIDE DEF f
<1>3. Believed(rows) = S
  BY Zenon, <1>1 DEF Believed
<1>4. IsFiniteSet(S)
  BY <1>2, ImagesAreFinite
<1>5. \A q \in S : \E r \in rows : q = f[r]
  OBVIOUS
<1> HIDE DEF S
<1>6. ASSUME NEW q \in S PROVE q \in Row /\ q.at <= clock
  BY Zenon, <1>1, <1>5
<1> QED BY Zenon, <1>3, <1>4, <1>6

LEMMA AsReadIs ==
  ASSUME NEW id \in Nat, NEW r \in Row
  PROVE  AsRead(id, r) \in Reads /\ AsRead(id, r).id = id /\ AsRead(id, r).seq = r.seq
<1>1. r.seq \in Nat /\ r.path \in Path /\ r.body \in Body /\ r.at \in Nat
  BY RowIs
<1> QED BY <1>1 DEF AsRead, Reads, LogId

\* What the Pi has read once it has read those rows of a tablet's log too.
LEMMA ReadsMore ==
  ASSUME NEW read, ReadsOK(read), NEW id \in Nat, NEW rows \in SUBSET Row, IsFiniteSet(rows)
  PROVE  ReadsOK(read \cup {AsRead(id, r) : r \in rows})
<1> DEFINE f == [r \in rows |-> AsRead(id, r)]
           S == {f[r] : r \in rows}
<1>1. f = [r \in rows |-> f[r]] /\ {AsRead(id, r) : r \in rows} = S
  OBVIOUS
<1>2. S \in SUBSET Reads
  BY AsReadIs
<1> HIDE DEF f
<1>3. IsFiniteSet(S)
  BY <1>1, ImagesAreFinite
<1> HIDE DEF S
<1>4. IsFiniteSet(read \cup S)
  BY <1>3, FS_Union DEF ReadsOK
<1> QED BY <1>1, <1>2, <1>4 DEF ReadsOK

\* The rows of b the Pi has yet to read.
NewOf(b, read) == {r \in b.rows : r.seq > CursorOf(read, b.id)}

LEMMA NewOnes ==
  ASSUME NEW read, ReadsOK(read), NEW b \in Bundle, IsFiniteSet(b.rows)
  PROVE  /\ NewOf(b, read) \in SUBSET Row /\ IsFiniteSet(NewOf(b, read))
         /\ \A r : r \in NewOf(b, read) <=> r \in b.rows /\ r.seq > CursorOf(read, b.id)
<1>1. NewOf(b, read) \in SUBSET b.rows /\ b.rows \in SUBSET Row
  BY BundleIs DEF NewOf
<1>2. IsFiniteSet(NewOf(b, read))
  BY <1>1, FS_Subset
<1> QED BY <1>1, <1>2 DEF NewOf

LEMMA Imports ==
  ASSUME AllOK, LogOK(piLog), ReadsOK(piRead), BundlesOK(bundles, tick), clock \in Nat,
         NEW b \in bundles, Import(b)
  PROVE  /\ \E rows : /\ rows \in SUBSET Row /\ IsFiniteSet(rows)
                      /\ \A r \in rows : r.at <= clock
                      /\ piLog' = AppendedInOrder(piLog, rows, TRUE)
         /\ piRead' = piRead \cup {AsRead(b.id, r) : r \in NewOf(b, piRead)}
         /\ bundles' = bundles \ {b} /\ file' = file /\ pull' = pull /\ journal' = journal
         /\ IF b.live
            THEN \E u : /\ At(tick, tick', b.from, u)
                        /\ u \in Tick /\ u.at = "answered" /\ u.copy = tick[b.from].copy
                        /\ u.id = tick[b.from].id
                        /\ u.answer = TopOf(NewOf(b, piRead), CursorOf(piRead, b.id))
            ELSE tick' = tick
<1> DEFINE new == NewOf(b, piRead)
           rows == Under(Believed(new), "bundle")
           n == TopOf(new, CursorOf(piRead, b.id))
           t == tick[b.from]
           u == HasAnswer(t, n)
<1>1. b \in Bundle /\ b.from \in Tablet /\ b.id \in Nat /\ IsFiniteSet(b.rows)
  BY BundleIs DEF BundlesOK
<1>2. new = {r \in b.rows : r.seq > PiCursor(b.id)}
  BY Zenon, PiCursorIs DEF NewOf
<1>3. new \in SUBSET Row /\ IsFiniteSet(new)
  BY <1>1, NewOnes
<1>4. CursorOf(piRead, b.id) = PiCursor(b.id) /\ CursorOf(piRead, b.id) \in Nat
  BY PiCursorIs, CursorIs
<1> HIDE DEF new
<1>5. Believed(new) \in SUBSET Row /\ IsFiniteSet(Believed(new)) /\ \A q \in Believed(new) : q.at <= clock
  BY Zenon, <1>3, BelievedIs
<1>6. /\ rows \in SUBSET Row /\ IsFiniteSet(rows) /\ \A r \in rows : r.at <= clock
  <2>1. "bundle" \in Via
    BY DEF Via
  <2> QED BY <1>5, <2>1, UnderIs
<1>7. n \in Nat
  <2>1. \A r \in new : r.seq \in Nat
    BY <1>3, RowIs
  <2> QED BY Zenon, <1>3, <1>4, <2>1, TopNumber
<1>8. /\ piLog' = AppendedInOrder(piLog, rows, TRUE)
      /\ piRead' = piRead \cup {AsRead(b.id, r) : r \in new}
      /\ bundles' = bundles \ {b} /\ file' = file /\ pull' = pull /\ journal' = journal
  BY Zenon, <1>2 DEF Import
<1>9. IF b.live THEN Puts(tick, tick', b.from, u) ELSE tick' = tick
  <2>1. n = Max({r.seq : r \in new} \cup {PiCursor(b.id)})
    BY Zenon, <1>4 DEF TopOf
  <2> HIDE DEF n
  <2> QED BY Zenon, <1>2, <2>1 DEF Import, Puts, HasAnswer
<1>10. t \in Tick
  BY <1>1, TabletIs DEF AllOK
<1>11. u = HasAnswer(t, n)
  OBVIOUS
<1> HIDE DEF rows, n, t, u
<1>12. u \in Tick /\ u.at = "answered" /\ u.copy = t.copy /\ u.id = t.id /\ u.answer = n
  BY ONLY <1>7, <1>10, <1>11, TickIsAnswered
<1>13. IF b.live THEN At(tick, tick', b.from, u) ELSE tick' = tick
  BY <1>1, <1>9, Alls, PutsAt
<1> QED BY Zenon, <1>6, <1>8, <1>12, <1>13 DEF n, t, new

-----------------------------------------------------------------------------
(* Types, and what a tablet's log says of the Pi's.                          *)

WorldOK ==
    /\ tba \in [Path -> Body] /\ clock \in Nat
    /\ cache \in [Path -> Body \cup {None}] /\ journal \in Seq(Entry)
    /\ mishaps \in 0 .. MaxMishaps

TypeInv ==
    WorldOK /\ LogOK(piLog) /\ ReadsOK(piRead) /\ AllOK /\ BundlesOK(bundles, tick)

LEMMA EntryIs == ASSUME NEW e PROVE e \in Entry => IsEntry(e)
BY DEF Entry, IsEntry

LEMMA LocalOK ==
  ASSUME AllOK, NEW d \in Tablet, NEW g, NEW u, NEW q, Only(d, g, u, q), SamePi,
         CopyOK(g, piLog), TickOK(u), CopyOK(u.copy, piLog), q \in Pull, CopyOK(q.copy, piLog)
  PROVE  AllOK'
<1>1. TabletOK(g, u, q, piLog)
  BY Zenon DEF TabletOK
<1>2. ASSUME NEW e \in Tablet PROVE TabletOK(file'[e], tick'[e], pull'[e], piLog)
  <2>1. CASE e = d
    BY Zenon, <1>1, <2>1 DEF Only, At
  <2>2. CASE e # d
    BY Zenon, <2>2 DEF Only, At, AllOK, TabletsOK
  <2> QED BY <2>1, <2>2
<1>3. Each(file') /\ Each(tick') /\ Each(pull')
  BY Zenon DEF Only, At
<1> QED BY Zenon, <1>2, <1>3 DEF AllOK, TabletsOK, SamePi

LEMMA GrowthOK ==
  ASSUME NEW files, NEW ticks, NEW pulls, NEW pi, TabletsOK(files, ticks, pulls, pi), LogOK(pi),
         NEW more, LogOK(more), NEW rows, Grown(pi, more, rows)
  PROVE  TabletsOK(files, ticks, pulls, more)
<1>1. ASSUME NEW f, CopyOK(f, pi) PROVE CopyOK(f, more)
  BY Zenon, <1>1, CopyStays
<1>2. ASSUME NEW e \in Tablet PROVE TabletOK(files[e], ticks[e], pulls[e], more)
  <2>1. TabletOK(files[e], ticks[e], pulls[e], pi)
    BY Zenon DEF TabletsOK
  <2> QED BY Zenon, <1>1, <2>1 DEF TabletOK
<1> QED BY Zenon, <1>2 DEF TabletsOK

LEMMA IdleOK ==
  ASSUME LogOK(piLog)
  PROVE  TickOK(IdleTick) /\ CopyOK(IdleTick.copy, piLog) /\ IdlePull \in Pull /\ CopyOK(IdlePull.copy, piLog)
<1>1. IdleTick.at \in {"idle", "ask", "fetch", "push"} /\ IdleTick.at \notin {"posted", "answered"}
  BY IdleOnes
<1>2. TickOK(IdleTick)
  BY Zenon, <1>1, IdleOnes DEF TickOK
<1> QED BY Zenon, <1>2, IdleOnes, NewCopy

LEMMA TypeInit == Init => TypeInv
<1> SUFFICES ASSUME Init PROVE TypeInv
  OBVIOUS
<1>1. WorldOK
  BY CourierAssumption DEF Init, WorldOK
<1>2. LogOK(piLog) /\ ReadsOK(piRead)
  BY EmptyLogOK, FS_EmptySet DEF Init, ReadsOK
<1>3. Each(file) /\ Each(tick) /\ Each(pull)
  BY DEF Init, Each
<1>4. \A d \in Tablet : file[d] = NewFile /\ tick[d] = IdleTick /\ pull[d] = IdlePull
  BY DEF Init
<1>5. AllOK
  BY Zenon, <1>2, <1>3, <1>4, IdleOK, NewCopy DEF AllOK, TabletsOK, TabletOK
<1>6. BundlesOK(bundles, tick)
  BY FS_EmptySet DEF Init, BundlesOK
<1> QED BY Zenon, <1>1, <1>2, <1>5, <1>6 DEF TypeInv

LEMMA WorldStep ==
  ASSUME WorldOK, AllOK, Next
  PROVE  WorldOK'
<1> USE DEF WorldOK
<1>1. ASSUME NEW p \in Path, TbaPublishes(p) PROVE WorldOK'
  BY <1>1 DEF TbaPublishes, piVars
<1>2. ASSUME NEW p \in Path, PiFetches(p) PROVE WorldOK'
  <2> DEFINE e == [path |-> p, body |-> tba[p], at |-> clock, via |-> "pi"]
  <2>1. e \in Entry
    BY DEF Entry, Via
  <2>2. CASE cache[p] = tba[p]
    BY <1>2, <2>2 DEF PiFetches
  <2>3. CASE cache[p] # tba[p]
    <3>1. journal' = Append(journal, e) /\ cache' = [cache EXCEPT ![p] = tba[p]]
      BY <1>2, <2>3 DEF PiFetches
    <3> HIDE DEF e
    <3>2. journal' \in Seq(Entry)
      BY <2>1, <3>1
    <3>3. cache' \in [Path -> Body \cup {None}]
      BY <3>1
    <3> QED BY <1>2, <3>2, <3>3 DEF PiFetches
  <2> QED BY <2>2, <2>3
<1>3. ASSUME JournalAppends PROVE WorldOK'
  BY <1>3 DEF JournalAppends
<1>4. ASSUME PiRestarts PROVE WorldOK'
  BY <1>4, CourierAssumption DEF PiRestarts
<1>5. ASSUME NEW d \in Tablet,
             \/ StartTick(d)
             \/ \E pi, online \in BOOLEAN, key \in {"keep", "given", "taken"} : AskForKey(d, pi, key, online)
             \/ \E p \in Path : Fetch(d, p)
             \/ FetchEnds(d)
             \/ NothingToPush(d) \/ Push(d)
             \/ Answered(d) \/ NotAnswered(d)
             \/ StartPull(d) \/ PullPage(d) \/ StopPull(d)
      PROVE  WorldOK'
  BY Zenon, <1>5 DEF StartTick, AskForKey, Fetch, FetchEnds, NothingToPush, Push, Answered, NotAnswered,
     StartPull, PullPage, StopPull, piVars
<1>6. ASSUME NEW d \in Tablet, Crash(d) \/ Replace(d) PROVE WorldOK'
  BY <1>6, CourierAssumption DEF Crash, Replace, piVars
<1>7. ASSUME NEW b \in bundles, Import(b) PROVE WorldOK'
  BY <1>7 DEF Import
<1> QED BY <1>1, <1>2, <1>3, <1>4, <1>5, <1>6, <1>7 DEF Next

\* The part of TypeInv that is about tablets and bundles.
CourierOK == AllOK /\ BundlesOK(bundles, tick)

LEMMA TickSteps ==
  ASSUME TypeInv, NEW d \in Tablet
  PROVE  /\ StartTick(d) => CourierOK'
         /\ \A pi, online \in BOOLEAN, key \in {"keep", "given", "taken"} : AskForKey(d, pi, key, online) => CourierOK'
         /\ \A p \in Path : Fetch(d, p) => CourierOK'
         /\ FetchEnds(d) => CourierOK'
         /\ NothingToPush(d) => CourierOK'
<1> USE DEF CourierOK
<1>1. AllOK /\ LogOK(piLog) /\ BundlesOK(bundles, tick) /\ tba \in [Path -> Body] /\ clock \in Nat
  BY Zenon DEF TypeInv, WorldOK
<1>2. /\ CopyOK(file[d], piLog) /\ CopyOK(tick[d].copy, piLog) /\ CopyOK(pull[d].copy, piLog)
      /\ TickOK(tick[d]) /\ pull[d] \in Pull
  BY Zenon, <1>1, TabletIs DEF AllOK
<1>3. ASSUME StartTick(d) PROVE CourierOK'
  <2>1. PICK u : /\ Only(d, file[d], u, pull[d]) /\ SamePi /\ bundles' = bundles
                 /\ u \in Tick /\ u.at = "ask" /\ u.copy = file[d] /\ u.id = 0 /\ tick[d].at = "idle"
    BY Zenon, <1>1, <1>3, Starts
  <2>2. TickOK(u) /\ CopyOK(u.copy, piLog)
    BY <1>2, <2>1 DEF TickOK
  <2>3. AllOK'
    BY Zenon, <1>1, <1>2, <2>1, <2>2, LocalOK
  <2>4. BundlesOK(bundles, tick')
    BY <1>1, <2>1, BundlesStay DEF Only
  <2> QED BY Zenon, <2>1, <2>3, <2>4
<1>4. ASSUME NEW pi \in BOOLEAN, NEW online \in BOOLEAN, NEW key \in {"keep", "given", "taken"},
             AskForKey(d, pi, key, online)
      PROVE  CourierOK'
  <2>0. PICK f, u : AfterAsking(d, f, u)
    BY Zenon, <1>1, <1>4, Asks
  <2>1. /\ Only(d, f, u, pull[d]) /\ SamePi /\ bundles' = bundles
        /\ u \in Tick /\ u.at \in {"fetch", "push"} /\ u.id = tick[d].id
        /\ u.copy.log = tick[d].copy.log /\ u.copy.cursor = tick[d].copy.cursor
        /\ u.copy.pushed = tick[d].copy.pushed /\ u.copy.id = tick[d].copy.id
        /\ f = u.copy \/ (f = file[d] /\ u.copy = tick[d].copy)
        /\ tick[d].at = "ask"
    BY Zenon, <2>0 DEF AfterAsking
  <2>2. TickOK(u)
    BY <1>2, <2>1 DEF TickOK
  <2>3. CopyOK(u.copy, piLog)
    <3>1. u.copy \in File
      BY <2>1, TickIs
    <3>2. u.copy.id = 0 => u.copy.pushed = 0
      BY <1>2, <2>1 DEF CopyOK
    <3> QED BY Zenon, <1>2, <2>1, <3>1, <3>2, CopyAlike
  <2>4. CopyOK(f, piLog)
    BY Zenon, <1>2, <2>1, <2>3
  <2>5. AllOK'
    BY Zenon, <1>1, <1>2, <2>1, <2>2, <2>3, <2>4, LocalOK
  <2>6. BundlesOK(bundles, tick')
    BY <1>1, <2>1, BundlesStay DEF Only
  <2> QED BY Zenon, <2>1, <2>5, <2>6
<1>5. ASSUME NEW p \in Path, Fetch(d, p) PROVE CourierOK'
  <2>1. PICK u, e : /\ Only(d, file[d], u, pull[d]) /\ SamePi /\ bundles' = bundles
                    /\ u \in Tick /\ u.at = "fetch" /\ u.id = tick[d].id /\ u.todo = tick[d].todo \ {p}
                    /\ IsEntry(e) /\ e.via = "device" /\ u.copy.log = Appended(tick[d].copy.log, e)
                    /\ u.copy.cursor = tick[d].copy.cursor
                    /\ u.copy.pushed = tick[d].copy.pushed /\ u.copy.id = tick[d].copy.id
                    /\ tick[d].at = "fetch" /\ p \in tick[d].todo
    BY Zenon, <1>1, <1>5, Fetches
  <2>2. TickOK(u)
    BY <1>2, <2>1 DEF TickOK
  <2>3. CopyOK(u.copy, piLog)
    <3>1. u.copy \in File
      BY <2>1, TickIs
    <3> QED BY Zenon, <1>2, <2>1, <3>1, CopyFetched
  <2>4. AllOK'
    BY Zenon, <1>1, <1>2, <2>1, <2>2, <2>3, LocalOK
  <2>5. BundlesOK(bundles, tick')
    BY <1>1, <2>1, BundlesStay DEF Only
  <2> QED BY Zenon, <2>1, <2>4, <2>5
<1>6. ASSUME FetchEnds(d) PROVE CourierOK'
  <2>1. PICK f, u : /\ Only(d, f, u, pull[d]) /\ SamePi /\ bundles' = bundles
                    /\ u \in Tick /\ u.at = "push" /\ u.id = tick[d].id /\ u.copy = tick[d].copy
                    /\ f = tick[d].copy \/ f = file[d]
                    /\ tick[d].at = "fetch"
    BY Zenon, <1>1, <1>6, FetchIsOver
  <2>2. TickOK(u)
    BY <1>2, <2>1 DEF TickOK
  <2>3. AllOK'
    BY Zenon, <1>1, <1>2, <2>1, <2>2, LocalOK
  <2>4. BundlesOK(bundles, tick')
    BY <1>1, <2>1, BundlesStay DEF Only
  <2> QED BY Zenon, <2>1, <2>3, <2>4
<1>7. ASSUME NothingToPush(d) PROVE CourierOK'
  <2>1. Only(d, file[d], IdleTick, pull[d]) /\ SamePi /\ bundles' = bundles /\ tick[d].at = "push"
    BY Zenon, <1>1, <1>7, PushesNothing
  <2>2. AllOK'
    BY Zenon, <1>1, <1>2, <2>1, IdleOK, LocalOK
  <2>3. BundlesOK(bundles, tick')
    BY <1>1, <2>1, BundlesStay DEF Only
  <2> QED BY Zenon, <2>1, <2>2, <2>3
<1> QED BY Zenon, <1>3, <1>4, <1>5, <1>6, <1>7

LEMMA PushSteps ==
  ASSUME TypeInv, NEW d \in Tablet
  PROVE  (Push(d) => CourierOK') /\ (Answered(d) => CourierOK') /\ (NotAnswered(d) => CourierOK')
<1> USE DEF CourierOK
<1>1. AllOK /\ LogOK(piLog) /\ BundlesOK(bundles, tick) /\ IsFiniteSet(piRead) /\ IsFiniteSet(bundles)
  BY Zenon DEF TypeInv, ReadsOK, BundlesOK
<1>2. /\ CopyOK(file[d], piLog) /\ CopyOK(tick[d].copy, piLog) /\ CopyOK(pull[d].copy, piLog)
      /\ TickOK(tick[d]) /\ pull[d] \in Pull
  BY Zenon, <1>1, TabletIs DEF AllOK
<1>3. ASSUME Push(d) PROVE CourierOK'
  <2>1. PICK u : /\ Only(d, file[d], u, pull[d]) /\ SamePi
                 /\ u \in Tick /\ u.at = "posted" /\ u.id = IdFor(tick[d].copy) /\ u.copy = tick[d].copy
                 /\ u.id \in Nat \ {0} /\ tick[d].at = "push"
                 /\ bundles' = bundles \cup {NewBundle(d, u.id, Unsent(tick[d].copy))}
    BY Zenon, <1>1, <1>3, Posts
  <2>2. TickOK(u)
    BY <2>1 DEF TickOK, IdFor
  <2>3. AllOK'
    BY Zenon, <1>1, <1>2, <2>1, <2>2, LocalOK
  <2>4. Unsent(tick[d].copy) \in SUBSET Row /\ IsFiniteSet(Unsent(tick[d].copy))
    BY <1>2, UnsentIs DEF CopyOK
  <2>5. At(tick, tick', d, u) /\ tick[d].at # "posted"
    BY <2>1 DEF Only
  <2>6. BundlesOK(bundles', tick')
    BY Zenon, <1>1, <2>1, <2>4, <2>5, BundlesPost
  <2> QED BY Zenon, <2>3, <2>6
<1>4. ASSUME Answered(d) PROVE CourierOK'
  <2>1. PICK f, g : /\ Only(d, f, IdleTick, pull[d]) /\ SamePi /\ bundles' = bundles
                    /\ g \in File /\ g.log = tick[d].copy.log /\ g.cursor = tick[d].copy.cursor
                    /\ g.id = tick[d].id
                    /\ Writes(d, f, g, tick[d].copy)
                    /\ tick[d].at = "answered"
    BY Zenon, <1>1, <1>4, GetsAnswer
  <2>2. g.id # 0
    BY <1>2, <2>1 DEF TickOK
  <2>3. CopyOK(g, piLog)
    BY Zenon, <1>2, <2>1, <2>2, CopyAlike
  <2>4. CopyOK(f, piLog)
    BY Zenon, <1>2, <2>1, <2>3 DEF Writes
  <2>5. AllOK'
    BY Zenon, <1>1, <1>2, <2>1, <2>4, IdleOK, LocalOK
  <2>6. BundlesOK(bundles, tick')
    BY <1>1, <2>1, BundlesStay DEF Only
  <2> QED BY Zenon, <2>1, <2>5, <2>6
<1>5. ASSUME NotAnswered(d) PROVE CourierOK'
  <2>1. PICK f, g : /\ Only(d, f, IdleTick, pull[d]) /\ SamePi /\ LeftBy(d, bundles')
                    /\ g \in File /\ g.log = tick[d].copy.log /\ g.cursor = tick[d].copy.cursor
                    /\ g.id = tick[d].id
                    /\ Writes(d, f, g, tick[d].copy)
                    /\ tick[d].at \in {"posted", "answered"}
    BY Zenon, <1>1, <1>5, GetsNone
  <2>2. g.id # 0
    BY <1>2, <2>1 DEF TickOK
  <2>3. CopyOK(g, piLog)
    BY Zenon, <1>2, <2>1, <2>2, CopyAlike
  <2>4. CopyOK(f, piLog)
    BY Zenon, <1>2, <2>1, <2>3 DEF Writes
  <2>5. AllOK'
    BY Zenon, <1>1, <1>2, <2>1, <2>4, IdleOK, LocalOK
  <2>6. BundlesOK(bundles', tick')
    BY Zenon, <1>1, <2>1, BundlesLeft DEF Only
  <2> QED BY Zenon, <2>5, <2>6
<1> QED BY Zenon, <1>3, <1>4, <1>5

LEMMA PullSteps ==
  ASSUME TypeInv, NEW d \in Tablet
  PROVE  /\ (StartPull(d) => CourierOK') /\ (PullPage(d) => CourierOK') /\ (StopPull(d) => CourierOK')
         /\ (Crash(d) => CourierOK') /\ (Replace(d) => CourierOK')
<1> USE DEF CourierOK
<1>1. AllOK /\ LogOK(piLog) /\ BundlesOK(bundles, tick)
  BY Zenon DEF TypeInv
<1>2. /\ CopyOK(file[d], piLog) /\ CopyOK(tick[d].copy, piLog) /\ CopyOK(pull[d].copy, piLog)
      /\ TickOK(tick[d]) /\ pull[d] \in Pull
  BY Zenon, <1>1, TabletIs DEF AllOK
<1>3. ASSUME StartPull(d) PROVE CourierOK'
  <2>1. PICK q : /\ Only(d, file[d], tick[d], q) /\ SamePi /\ bundles' = bundles
                 /\ q \in Pull /\ q.copy = file[d]
    BY Zenon, <1>1, <1>3, PullStarts
  <2>2. AllOK'
    BY Zenon, <1>1, <1>2, <2>1, LocalOK
  <2>3. BundlesOK(bundles, tick')
    BY Zenon, <1>1, <2>1, BundlesStay DEF Only
  <2> QED BY Zenon, <2>1, <2>2, <2>3
<1>4. ASSUME PullPage(d) PROVE CourierOK'
  <2>1. PICK g, q : /\ Only(d, g, tick[d], q) /\ SamePi /\ bundles' = bundles
                    /\ g \in File /\ Paged(pull[d].copy.log, g.log, PageOf(piLog, pull[d].copy.cursor))
                    /\ g.cursor = TopOf(PageOf(piLog, pull[d].copy.cursor), pull[d].copy.cursor)
                    /\ g.pushed = pull[d].copy.pushed /\ g.id = pull[d].copy.id
                    /\ q \in Pull /\ (q = IdlePull \/ (q.at = "page" /\ q.copy = g))
    BY Zenon, <1>1, <1>4, PullsPage
  <2>2. CopyOK(g, piLog)
    BY Zenon, <1>1, <1>2, <2>1, CopyPaged DEF TopOf
  <2>3. CopyOK(q.copy, piLog)
    BY Zenon, <1>1, <2>1, <2>2, IdleOK
  <2>4. AllOK'
    BY Zenon, <1>1, <1>2, <2>1, <2>2, <2>3, LocalOK
  <2>5. BundlesOK(bundles, tick')
    BY Zenon, <1>1, <2>1, BundlesStay DEF Only
  <2> QED BY Zenon, <2>1, <2>4, <2>5
<1>5. ASSUME StopPull(d) PROVE CourierOK'
  <2>1. Only(d, file[d], tick[d], IdlePull) /\ SamePi /\ bundles' = bundles
    BY Zenon, <1>1, <1>5, PullStops
  <2>2. AllOK'
    BY Zenon, <1>1, <1>2, <2>1, IdleOK, LocalOK
  <2>3. BundlesOK(bundles, tick')
    BY Zenon, <1>1, <2>1, BundlesStay DEF Only
  <2> QED BY Zenon, <2>1, <2>2, <2>3
<1>6. ASSUME Crash(d) PROVE CourierOK'
  <2>1. Only(d, file[d], IdleTick, IdlePull) /\ SamePi /\ LeftBy(d, bundles')
    BY Zenon, <1>1, <1>6, WorkerStops
  <2>2. AllOK'
    BY Zenon, <1>1, <1>2, <2>1, IdleOK, LocalOK
  <2>3. BundlesOK(bundles', tick')
    BY Zenon, <1>1, <2>1, BundlesLeft DEF Only
  <2> QED BY Zenon, <2>2, <2>3
<1>7. ASSUME Replace(d) PROVE CourierOK'
  <2>1. PICK g : /\ Only(d, g, tick[d], pull[d]) /\ SamePi /\ bundles' = bundles
                 /\ g \in File /\ g.log = Cut(piLog) /\ g.cursor = piLog.next - 1
                 /\ g.pushed = 0 /\ g.id = 0
    BY Zenon, <1>1, <1>7, IsReplaced
  <2>2. CopyOK(g, piLog)
    BY Zenon, <1>1, <2>1, CopySnapshot
  <2>3. AllOK'
    BY Zenon, <1>1, <1>2, <2>1, <2>2, LocalOK
  <2>4. BundlesOK(bundles, tick')
    BY Zenon, <1>1, <2>1, BundlesStay DEF Only
  <2> QED BY Zenon, <2>1, <2>3, <2>4
<1> QED BY Zenon, <1>3, <1>4, <1>5, <1>6, <1>7

\* A step of a tablet, or of its page.
TabletStep(d) ==
    \/ StartTick(d)
    \/ \E pi, online \in BOOLEAN, key \in {"keep", "given", "taken"} : AskForKey(d, pi, key, online)
    \/ \E p \in Path : Fetch(d, p)
    \/ FetchEnds(d)
    \/ NothingToPush(d) \/ Push(d)
    \/ Answered(d) \/ NotAnswered(d)
    \/ StartPull(d) \/ PullPage(d) \/ StopPull(d)
    \/ Crash(d) \/ Replace(d)

LEMMA TabletStepIs ==
  ASSUME NEW d \in Tablet, TabletStep(d)
  PROVE  SamePi /\ journal' = journal /\ clock' = clock
BY Zenon DEF TabletStep, StartTick, AskForKey, Fetch, FetchEnds, NothingToPush, Push, Answered, NotAnswered,
   StartPull, PullPage, StopPull, Crash, Replace, SamePi, piVars

LEMMA NextIs ==
  Next <=> \/ \E p \in Path : TbaPublishes(p) \/ PiFetches(p)
           \/ JournalAppends
           \/ PiRestarts
           \/ \E d \in Tablet : TabletStep(d)
           \/ \E b \in bundles : Import(b)
BY Zenon DEF Next, TabletStep

\* What only the Pi's log, what it has read, its clock and its journal hold.
LEMMA JournalGrows ==
  ASSUME LogOK(piLog), journal \in Seq(Entry), JournalAppends
  PROVE  \E e : /\ IsEntry(e) /\ piLog' = AppendIn(piLog, e, FALSE)
                /\ piRead' = piRead /\ file' = file /\ tick' = tick /\ pull' = pull /\ bundles' = bundles
<1>1. Head(journal) \in Entry
  BY DEF JournalAppends
<1>2. IsEntry(Head(journal))
  BY <1>1, EntryIs
<1>3. /\ piLog' = AppendIn(piLog, Head(journal), FALSE)
      /\ piRead' = piRead /\ file' = file /\ tick' = tick /\ pull' = pull /\ bundles' = bundles
  BY Zenon DEF JournalAppends, Appended
<1> QED BY Zenon, <1>2, <1>3

LEMMA AppendGrows ==
  ASSUME NEW log, LogOK(log), NEW e, IsEntry(e), NEW refuse, NEW m, m = AppendIn(log, e, refuse)
  PROVE  LogOK(m) /\ \E rows : Grown(log, m, rows)
<1>1. LogOK(m) /\ Adds(log, m, e)
  BY Zenon, AppendAdds
<1> DEFINE r == NewRow(log, e)
<1>2. r \in Row /\ r.path = e.path /\ r.body = e.body /\ r.at = e.at /\ r.via = e.via
  BY LogRows DEF NewRow, Row, IsEntry
<1>3. NewRow(log, r) = NewRow(log, e)
  BY <1>2 DEF NewRow
<1> HIDE DEF r
<1>4. Adds(log, m, r)
  BY Zenon, <1>1, <1>2, <1>3 DEF Adds
<1>5. Grown(log, log, {r})
  BY LogRows DEF Grown
<1>6. Grown(log, m, {r})
  <2>1. {r} \in SUBSET Row /\ r \in {r}
    BY <1>2
  <2> QED BY Zenon, <1>4, <1>5, <2>1, AddsGrows
<1> QED BY Zenon, <1>1, <1>6

LEMMA PiSteps ==
  ASSUME TypeInv,
         \/ \E p \in Path : TbaPublishes(p) \/ PiFetches(p)
         \/ JournalAppends
         \/ PiRestarts
         \/ \E b \in bundles : Import(b)
  PROVE  LogOK(piLog') /\ ReadsOK(piRead') /\ CourierOK'
<1>1. /\ AllOK /\ LogOK(piLog) /\ ReadsOK(piRead) /\ BundlesOK(bundles, tick)
      /\ journal \in Seq(Entry) /\ clock \in Nat
  BY Zenon DEF TypeInv, WorldOK
<1>2. CASE (\E p \in Path : TbaPublishes(p) \/ PiFetches(p)) \/ PiRestarts
  <2>1. /\ piLog' = piLog /\ piRead' = piRead /\ file' = file /\ tick' = tick /\ pull' = pull
        /\ bundles' = bundles
    BY Zenon, <1>2 DEF TbaPublishes, PiFetches, PiRestarts, piVars
  <2> QED BY Zenon, <1>1, <2>1 DEF CourierOK, AllOK
<1>3. CASE JournalAppends
  <2>1. PICK e : /\ IsEntry(e) /\ piLog' = AppendIn(piLog, e, FALSE)
                 /\ piRead' = piRead /\ file' = file /\ tick' = tick /\ pull' = pull /\ bundles' = bundles
    BY Zenon, <1>1, <1>3, JournalGrows
  <2>2. LogOK(piLog') /\ \E rows : Grown(piLog, piLog', rows)
    BY Zenon, <1>1, <2>1, AppendGrows
  <2>3. TabletsOK(file, tick, pull, piLog')
    BY Zenon, <1>1, <2>2, GrowthOK DEF AllOK
  <2> QED BY Zenon, <1>1, <2>1, <2>2, <2>3 DEF CourierOK, AllOK
<1>4. ASSUME NEW b \in bundles, Import(b)
      PROVE  LogOK(piLog') /\ ReadsOK(piRead') /\ CourierOK'
  <2>1. /\ b \in Bundle /\ b.from \in Tablet /\ b.id \in Nat /\ IsFiniteSet(b.rows)
        /\ NewOf(b, piRead) \in SUBSET Row /\ IsFiniteSet(NewOf(b, piRead))
    BY <1>1, BundleIs, NewOnes DEF BundlesOK
  <2>2. PICK rows : /\ rows \in SUBSET Row /\ IsFiniteSet(rows)
                    /\ piLog' = AppendedInOrder(piLog, rows, TRUE)
    BY Zenon, <1>1, <1>4, Imports
  <2>3. /\ piRead' = piRead \cup {AsRead(b.id, r) : r \in NewOf(b, piRead)}
        /\ bundles' = bundles \ {b} /\ file' = file /\ pull' = pull
        /\ IF b.live
           THEN \E u : /\ At(tick, tick', b.from, u)
                       /\ u \in Tick /\ u.at = "answered" /\ u.copy = tick[b.from].copy
                       /\ u.id = tick[b.from].id
           ELSE tick' = tick
    BY Zenon, <1>1, <1>4, Imports
  <2>4. LogOK(piLog') /\ Grown(piLog, piLog', rows)
    BY Zenon, <1>1, <2>2, InOrderGrows
  <2>5. ReadsOK(piRead')
    BY Zenon, <1>1, <2>1, <2>3, ReadsMore
  <2>6. TabletsOK(file, tick, pull, piLog')
    BY Zenon, <1>1, <2>4, GrowthOK DEF AllOK
  <2>7. TabletsOK(file, tick', pull, piLog')
    <3>1. CASE ~ b.live
      BY Zenon, <2>3, <2>6, <3>1
    <3>2. CASE b.live
      <4>1. PICK u : /\ At(tick, tick', b.from, u)
                     /\ u \in Tick /\ u.at = "answered" /\ u.copy = tick[b.from].copy
                     /\ u.id = tick[b.from].id
        BY Zenon, <2>3, <3>2
      <4>2. tick[b.from].at = "posted" /\ TickOK(tick[b.from]) /\ CopyOK(tick[b.from].copy, piLog')
        BY Zenon, <1>1, <2>1, <2>6, <3>2, TabletIs DEF BundlesOK
      <4>3. TickOK(u)
        BY <4>1, <4>2 DEF TickOK
      <4>4. ASSUME NEW e \in Tablet PROVE TabletOK(file[e], tick'[e], pull[e], piLog')
        <5>1. TabletOK(file[e], tick[e], pull[e], piLog')
          BY Zenon, <2>6 DEF TabletsOK
        <5>2. CASE e # b.from
          BY Zenon, <4>1, <5>1, <5>2 DEF At
        <5>3. CASE e = b.from
          BY Zenon, <4>1, <4>2, <4>3, <5>1, <5>3 DEF At, TabletOK
        <5> QED BY <5>2, <5>3
      <4> QED BY Zenon, <2>6, <4>1, <4>4 DEF TabletsOK, At
    <3> QED BY <3>1, <3>2
  <2>8. BundlesOK(bundles', tick')
    BY Zenon, <1>1, <2>3, BundlesFewer
  <2> QED BY Zenon, <2>3, <2>4, <2>5, <2>7, <2>8 DEF CourierOK, AllOK
<1> QED BY <1>2, <1>3, <1>4

LEMMA TypeStep == ASSUME TypeInv, [Next]_vars PROVE TypeInv'
<1>1. CASE UNCHANGED vars
  BY Zenon, <1>1 DEF vars, piVars, TypeInv, WorldOK, AllOK
<1>2. CASE Next
  <2>1. WorldOK'
    BY Zenon, <1>2, WorldStep DEF TypeInv
  <2>2. LogOK(piLog') /\ ReadsOK(piRead') /\ CourierOK'
    <3>1. ASSUME NEW d \in Tablet, TabletStep(d) PROVE LogOK(piLog') /\ ReadsOK(piRead') /\ CourierOK'
      <4>1. LogOK(piLog') /\ ReadsOK(piRead')
        BY Zenon, <3>1, TabletStepIs DEF SamePi, TypeInv
      <4>2. CourierOK'
        BY Zenon, <3>1, TickSteps, PushSteps, PullSteps DEF TabletStep
      <4> QED BY <4>1, <4>2
    <3> QED BY Zenon, <1>2, <3>1, PiSteps, NextIs
  <2> QED BY Zenon, <2>1, <2>2 DEF TypeInv, CourierOK
<1> QED BY <1>1, <1>2

THEOREM CourierInvariant == Spec => []TypeInv
<1>1. Init => TypeInv
  BY TypeInit
<1>2. TypeInv /\ [Next]_vars => TypeInv'
  BY TypeStep
<1> QED BY <1>1, <1>2, PTL DEF Spec

\* Every variable keeps its type, a tablet has read no more of the Pi's log
\* than there is, and a bundle still waited for is the one of the tick under way.
THEOREM CourierTypes == Spec => []TypeOK
<1>1. TypeInv => TypeOK
  <2> SUFFICES ASSUME TypeInv PROVE TypeOK
    OBVIOUS
  <2>1. WorldOK /\ LogOK(piLog) /\ ReadsOK(piRead) /\ AllOK /\ BundlesOK(bundles, tick)
    BY DEF TypeInv
  <2>2. \A d \in Tablet : file[d] \in File /\ tick[d] \in Tick /\ pull[d] \in Pull /\ file[d].cursor < piLog.next
    BY Zenon, <2>1, TabletIs DEF AllOK, CopyOK
  <2>3. file \in [Tablet -> File] /\ tick \in [Tablet -> Tick] /\ pull \in [Tablet -> Pull]
    BY <2>1, <2>2, Alls DEF Each
  <2>4. piRead \in SUBSET [id : LogId, seq : Nat, path : Path, body : Body, at : Nat]
    BY <2>1 DEF ReadsOK, Reads
  <2>5. piLog \in Log /\ bundles \in SUBSET Bundle
        /\ \A b \in bundles : b.live => tick[b.from].at = "posted" /\ tick[b.from].id = b.id
    BY Zenon, <2>1 DEF LogOK, BundlesOK
  <2> QED BY Zenon, <2>1, <2>2, <2>3, <2>4, <2>5 DEF TypeOK, WorldOK
<1> QED BY <1>1, CourierInvariant, PTL

\* As far as a tablet has read the Pi's log, its newest response for a path is
\* the Pi's or one it fetched itself: through pages of any size, appends and
\* imports between them, crashes, and new snapshots under a running job.
THEOREM TabletsFollowPi == Spec => []FollowsPi
<1>1. TypeInv => FollowsPi
  <2> SUFFICES ASSUME TypeInv, NEW d \in Tablet, NEW p \in Path, NEW r \in Newest(piLog, p),
                      r.seq <= file[d].cursor
               PROVE  \E q \in Newest(file[d].log, p) : q.via = "device" \/ q.body = r.body
    BY Zenon DEF FollowsPi
  <2>1. CopyOK(file[d], piLog)
    BY Zenon, TabletIs DEF TypeInv, AllOK
  <2> QED BY Zenon, <2>1 DEF CopyOK
<1> QED BY <1>1, CourierInvariant, PTL

-----------------------------------------------------------------------------
(* What a tablet gives up.                                                   *)

\* f's cursor is within the Pi's.
Within(f, read) == f.pushed <= CursorOf(read, f.id)

PushOK(f, t, p, read) ==
    /\ Within(f, read) /\ Within(t.copy, read) /\ Within(p.copy, read)
    /\ t.at = "answered" => t.answer <= CursorOf(read, t.id)

PushInv == \A d \in Tablet : PushOK(file[d], tick[d], pull[d], piRead)

LEMMA WithinAlike ==
  ASSUME NEW read, NEW f, Within(f, read), NEW g, g.pushed = f.pushed, g.id = f.id
  PROVE  Within(g, read)
BY Zenon DEF Within

LEMMA NewWithin == ASSUME NEW read, ReadsOK(read) PROVE Within(NewFile, read)
<1>1. CursorOf(read, NewFile.id) \in Nat /\ NewFile.pushed = 0
  BY CursorIs, IdleOnes
<1> QED BY <1>1 DEF Within

LEMMA PushLocal ==
  ASSUME PushInv, NEW d \in Tablet, NEW g, NEW u, NEW q, Only(d, g, u, q), SamePi,
         PushOK(g, u, q, piRead)
  PROVE  PushInv'
<1>1. ASSUME NEW e \in Tablet PROVE PushOK(file'[e], tick'[e], pull'[e], piRead)
  <2>1. CASE e = d
    BY Zenon, <2>1 DEF Only, At
  <2>2. CASE e # d
    BY Zenon, <2>2 DEF Only, At, PushInv
  <2> QED BY <2>1, <2>2
<1> QED BY Zenon, <1>1 DEF PushInv, SamePi

LEMMA PushTickSteps ==
  ASSUME TypeInv, PushInv, NEW d \in Tablet
  PROVE  /\ StartTick(d) => PushInv'
         /\ \A pi, online \in BOOLEAN, key \in {"keep", "given", "taken"} : AskForKey(d, pi, key, online) => PushInv'
         /\ \A p \in Path : Fetch(d, p) => PushInv'
         /\ FetchEnds(d) => PushInv'
         /\ NothingToPush(d) => PushInv'
         /\ Push(d) => PushInv'
<1>1. /\ AllOK /\ LogOK(piLog) /\ BundlesOK(bundles, tick) /\ tba \in [Path -> Body] /\ clock \in Nat
      /\ ReadsOK(piRead) /\ IsFiniteSet(piRead) /\ IsFiniteSet(bundles)
  BY Zenon DEF TypeInv, WorldOK, ReadsOK, BundlesOK
<1>2. /\ Within(file[d], piRead) /\ Within(tick[d].copy, piRead) /\ Within(pull[d].copy, piRead)
  BY Zenon DEF PushInv, PushOK
<1>3. ASSUME StartTick(d) PROVE PushInv'
  <2>1. PICK u : /\ Only(d, file[d], u, pull[d]) /\ SamePi
                 /\ u.at = "ask" /\ u.copy = file[d]
    BY Zenon, <1>1, <1>3, Starts
  <2>2. PushOK(file[d], u, pull[d], piRead)
    BY <1>2, <2>1 DEF PushOK
  <2> QED BY Zenon, <2>1, <2>2, PushLocal
<1>4. ASSUME NEW pi \in BOOLEAN, NEW online \in BOOLEAN, NEW key \in {"keep", "given", "taken"},
             AskForKey(d, pi, key, online)
      PROVE  PushInv'
  <2>0. PICK f, u : AfterAsking(d, f, u)
    BY Zenon, <1>1, <1>4, Asks
  <2>1. /\ Only(d, f, u, pull[d]) /\ SamePi
        /\ u.at \in {"fetch", "push"}
        /\ u.copy.pushed = tick[d].copy.pushed /\ u.copy.id = tick[d].copy.id
        /\ f = u.copy \/ f = file[d]
    BY Zenon, <2>0 DEF AfterAsking
  <2>2. Within(u.copy, piRead)
    BY Zenon, <1>2, <2>1, WithinAlike
  <2>3. PushOK(f, u, pull[d], piRead)
    BY <1>2, <2>1, <2>2 DEF PushOK
  <2> QED BY Zenon, <2>1, <2>3, PushLocal
<1>5. ASSUME NEW p \in Path, Fetch(d, p) PROVE PushInv'
  <2>1. PICK u, e : /\ Only(d, file[d], u, pull[d]) /\ SamePi /\ bundles' = bundles
                    /\ u \in Tick /\ u.at = "fetch" /\ u.id = tick[d].id /\ u.todo = tick[d].todo \ {p}
                    /\ IsEntry(e) /\ e.via = "device" /\ u.copy.log = Appended(tick[d].copy.log, e)
                    /\ u.copy.cursor = tick[d].copy.cursor
                    /\ u.copy.pushed = tick[d].copy.pushed /\ u.copy.id = tick[d].copy.id
                    /\ tick[d].at = "fetch" /\ p \in tick[d].todo
    BY Zenon, <1>1, <1>5, Fetches
  <2>2. Within(u.copy, piRead)
    BY Zenon, <1>2, <2>1, WithinAlike
  <2>3. PushOK(file[d], u, pull[d], piRead)
    BY <1>2, <2>1, <2>2 DEF PushOK
  <2> QED BY Zenon, <2>1, <2>3, PushLocal
<1>6. ASSUME FetchEnds(d) PROVE PushInv'
  <2>1. PICK f, u : /\ Only(d, f, u, pull[d]) /\ SamePi
                    /\ u.at = "push" /\ u.copy = tick[d].copy
                    /\ f = tick[d].copy \/ f = file[d]
    BY Zenon, <1>1, <1>6, FetchIsOver
  <2>2. PushOK(f, u, pull[d], piRead)
    BY <1>2, <2>1 DEF PushOK
  <2> QED BY Zenon, <2>1, <2>2, PushLocal
<1>7. ASSUME NothingToPush(d) PROVE PushInv'
  <2>1. Only(d, file[d], IdleTick, pull[d]) /\ SamePi
    BY Zenon, <1>1, <1>7, PushesNothing
  <2>2. PushOK(file[d], IdleTick, pull[d], piRead)
    BY <1>1, <1>2, IdleOnes, NewWithin DEF PushOK
  <2> QED BY Zenon, <2>1, <2>2, PushLocal
<1>8. ASSUME Push(d) PROVE PushInv'
  <2>1. PICK u : /\ Only(d, file[d], u, pull[d]) /\ SamePi
                 /\ u.at = "posted" /\ u.copy = tick[d].copy
    BY Zenon, <1>1, <1>8, Posts
  <2>2. PushOK(file[d], u, pull[d], piRead)
    BY <1>2, <2>1 DEF PushOK
  <2> QED BY Zenon, <2>1, <2>2, PushLocal
<1> QED BY Zenon, <1>3, <1>4, <1>5, <1>6, <1>7, <1>8

LEMMA PushEndSteps ==
  ASSUME TypeInv, PushInv, NEW d \in Tablet
  PROVE  /\ (Answered(d) => PushInv') /\ (NotAnswered(d) => PushInv')
         /\ (StartPull(d) => PushInv') /\ (PullPage(d) => PushInv') /\ (StopPull(d) => PushInv')
         /\ (Crash(d) => PushInv') /\ (Replace(d) => PushInv')
<1>1. AllOK /\ LogOK(piLog) /\ ReadsOK(piRead)
  BY Zenon DEF TypeInv
<1>2. /\ Within(file[d], piRead) /\ Within(tick[d].copy, piRead) /\ Within(pull[d].copy, piRead)
      /\ tick[d].at = "answered" => tick[d].answer <= CursorOf(piRead, tick[d].id)
      /\ Within(NewFile, piRead)
  BY Zenon, <1>1, NewWithin DEF PushInv, PushOK
<1>3. /\ TickOK(tick[d]) /\ CopyOK(tick[d].copy, piLog) /\ tick[d].copy.pushed \in Nat /\ tick[d].answer \in Nat
      /\ CursorOf(piRead, tick[d].id) \in Nat
  <2>1. tick[d] \in Tick /\ TickOK(tick[d]) /\ CopyOK(tick[d].copy, piLog)
    BY Zenon, <1>1, TabletIs DEF AllOK
  <2>2. tick[d].copy \in File /\ tick[d].answer \in Nat
    BY <2>1, TickIs
  <2> QED BY <1>1, <2>1, <2>2, FileIs, CursorIs
\* The cursor in hand is within the Pi's for the log id of the push, too.
<1>4. ASSUME tick[d].at \in {"posted", "answered"} PROVE tick[d].copy.pushed <= CursorOf(piRead, tick[d].id)
  <2>1. tick[d].copy.id = 0 => tick[d].copy.pushed = 0
    BY <1>3 DEF CopyOK
  <2>2. tick[d].copy.id # 0 => tick[d].id = tick[d].copy.id
    BY <1>3, <1>4 DEF TickOK
  <2> QED BY <1>2, <1>3, <2>1, <2>2 DEF Within
<1>5. PushOK(file[d], IdleTick, IdlePull, piRead)
  BY <1>2, IdleOnes DEF PushOK
<1>6. ASSUME NEW f, Within(f, piRead) PROVE PushOK(f, IdleTick, pull[d], piRead)
  BY <1>2, <1>6, IdleOnes DEF PushOK
<1>7. ASSUME NEW f, Within(f, piRead), NEW q, Within(q.copy, piRead) PROVE PushOK(f, tick[d], q, piRead)
  BY Zenon, <1>2, <1>7 DEF PushOK
<1>8. ASSUME Answered(d) PROVE PushInv'
  <2>1. PICK f, g : /\ Only(d, f, IdleTick, pull[d]) /\ SamePi
                    /\ g.pushed = Max({tick[d].copy.pushed, tick[d].answer}) /\ g.id = tick[d].id
                    /\ Writes(d, f, g, tick[d].copy)
                    /\ tick[d].at = "answered"
    BY Zenon, <1>1, <1>8, GetsAnswer
  <2>2. g.pushed <= CursorOf(piRead, tick[d].id)
    <3>1. g.pushed = tick[d].copy.pushed \/ g.pushed = tick[d].answer
      BY <1>3, <2>1, TheGreater
    <3> QED BY <1>2, <1>4, <2>1, <3>1
  <2>3. Within(f, piRead)
    BY Zenon, <1>2, <2>1, <2>2 DEF Within, Writes
  <2> QED BY Zenon, <1>6, <2>1, <2>3, PushLocal
<1>9. ASSUME NotAnswered(d) PROVE PushInv'
  <2>1. PICK f, g : /\ Only(d, f, IdleTick, pull[d]) /\ SamePi
                    /\ g.pushed = tick[d].copy.pushed /\ g.id = tick[d].id
                    /\ Writes(d, f, g, tick[d].copy)
                    /\ tick[d].at \in {"posted", "answered"}
    BY Zenon, <1>1, <1>9, GetsNone
  <2>2. Within(f, piRead)
    BY Zenon, <1>2, <1>4, <2>1 DEF Within, Writes
  <2> QED BY Zenon, <1>6, <2>1, <2>2, PushLocal
<1>10. ASSUME StartPull(d) PROVE PushInv'
  <2>1. PICK q : /\ Only(d, file[d], tick[d], q) /\ SamePi /\ q.copy = file[d]
    BY Zenon, <1>1, <1>10, PullStarts
  <2> QED BY Zenon, <1>2, <1>7, <2>1, PushLocal
<1>11. ASSUME PullPage(d) PROVE PushInv'
  <2>1. PICK g, q : /\ Only(d, g, tick[d], q) /\ SamePi
                    /\ g.pushed = pull[d].copy.pushed /\ g.id = pull[d].copy.id
                    /\ (q = IdlePull \/ (q.at = "page" /\ q.copy = g))
    BY Zenon, <1>1, <1>11, PullsPage
  <2>2. Within(g, piRead)
    BY Zenon, <1>2, <2>1, WithinAlike
  <2>3. Within(q.copy, piRead)
    BY Zenon, <1>2, <2>1, <2>2, IdleOnes
  <2> QED BY Zenon, <1>7, <2>1, <2>2, <2>3, PushLocal
<1>12. ASSUME StopPull(d) PROVE PushInv'
  <2>1. Only(d, file[d], tick[d], IdlePull) /\ SamePi
    BY Zenon, <1>1, <1>12, PullStops
  <2> QED BY Zenon, <1>2, <1>7, <2>1, IdleOnes, PushLocal
<1>13. ASSUME Crash(d) PROVE PushInv'
  BY Zenon, <1>1, <1>5, <1>13, WorkerStops, PushLocal
<1>14. ASSUME Replace(d) PROVE PushInv'
  <2>1. PICK g : /\ Only(d, g, tick[d], pull[d]) /\ SamePi /\ g.pushed = 0 /\ g.id = 0
    BY Zenon, <1>1, <1>14, IsReplaced
  <2>2. Within(g, piRead)
    BY Zenon, <1>2, <2>1, IdleOnes, WithinAlike
  <2> QED BY Zenon, <1>2, <1>7, <2>1, <2>2, PushLocal
<1> QED BY Zenon, <1>8, <1>9, <1>10, <1>11, <1>12, <1>13, <1>14

LEMMA PushInit == ASSUME Init PROVE PushInv
<1>1. ReadsOK(piRead) /\ \A d \in Tablet : file[d] = NewFile /\ tick[d] = IdleTick /\ pull[d] = IdlePull
  BY Zenon, TypeInit DEF Init, TypeInv
<1>2. Within(NewFile, piRead)
  BY Zenon, <1>1, NewWithin
<1>3. PushOK(NewFile, IdleTick, IdlePull, piRead)
  BY <1>2, IdleOnes DEF PushOK
<1> QED BY Zenon, <1>1, <1>3 DEF PushInv

\* What the Pi has read it keeps.
LEMMA WithinStays ==
  ASSUME NEW read, ReadsOK(read), NEW more, ReadsOK(more), read \subseteq more,
         NEW f \in File, Within(f, read)
  PROVE  Within(f, more)
<1>1. /\ CursorOf(read, f.id) \in Nat /\ CursorOf(more, f.id) \in Nat /\ f.pushed \in Nat
      /\ CursorOf(read, f.id) <= CursorOf(more, f.id)
  BY CursorIs, CursorMovesOn, FileIs
<1> QED BY <1>1 DEF Within

LEMMA PushStays ==
  ASSUME NEW read, ReadsOK(read), NEW more, ReadsOK(more), read \subseteq more,
         NEW f \in File, NEW t \in Tick, NEW p \in Pull, PushOK(f, t, p, read)
  PROVE  PushOK(f, t, p, more)
<1>1. t.copy \in File /\ p.copy \in File /\ t.answer \in Nat
  BY TickIs, PullIs
<1>2. Within(f, more) /\ Within(t.copy, more) /\ Within(p.copy, more)
  BY Zenon, <1>1, WithinStays DEF PushOK
<1>3. /\ CursorOf(read, t.id) \in Nat /\ CursorOf(more, t.id) \in Nat
      /\ CursorOf(read, t.id) <= CursorOf(more, t.id)
  BY CursorIs, CursorMovesOn
<1>4. t.at = "answered" => t.answer <= CursorOf(read, t.id)
  BY DEF PushOK
<1> QED BY <1>1, <1>2, <1>3, <1>4 DEF PushOK

\* The Pi answers with what it has now read.
LEMMA AnswerIsRead ==
  ASSUME NEW read, ReadsOK(read), NEW b \in Bundle, IsFiniteSet(b.rows),
         NEW more, ReadsOK(more), more = read \cup {AsRead(b.id, r) : r \in NewOf(b, read)}
  PROVE  TopOf(NewOf(b, read), CursorOf(read, b.id)) <= CursorOf(more, b.id)
<1> DEFINE new == NewOf(b, read)
           n == CursorOf(read, b.id)
<1>1. new \in SUBSET Row /\ IsFiniteSet(new) /\ n \in Nat /\ b.id \in Nat
  BY NewOnes, CursorIs, BundleIs
<1>2. n <= CursorOf(more, b.id)
  BY CursorMovesOn
<1>3. ASSUME NEW r \in new PROVE r.seq <= CursorOf(more, b.id)
  <2>1. AsRead(b.id, r) \in more /\ AsRead(b.id, r).id = b.id /\ AsRead(b.id, r).seq = r.seq
    BY <1>1, AsReadIs
  <2> QED BY Zenon, <2>1, CursorIs
<1> HIDE DEF new, n
<1>4. TopOf(new, n) = n \/ \E r \in new : r.seq = TopOf(new, n)
  BY Zenon, <1>1, RowIs, TopNumber
<1> QED BY Zenon, <1>2, <1>3, <1>4 DEF new, n

LEMMA PushPiSteps ==
  ASSUME TypeInv, PushInv,
         \/ \E p \in Path : TbaPublishes(p) \/ PiFetches(p)
         \/ JournalAppends
         \/ PiRestarts
         \/ \E b \in bundles : Import(b)
  PROVE  PushInv'
<1>1. /\ AllOK /\ LogOK(piLog) /\ ReadsOK(piRead) /\ BundlesOK(bundles, tick)
      /\ clock \in Nat /\ journal \in Seq(Entry)
  BY Zenon DEF TypeInv, WorldOK
<1>2. CASE (\E p \in Path : TbaPublishes(p) \/ PiFetches(p)) \/ JournalAppends \/ PiRestarts
  <2>1. piRead' = piRead /\ file' = file /\ tick' = tick /\ pull' = pull
    BY Zenon, <1>2 DEF TbaPublishes, PiFetches, JournalAppends, PiRestarts, piVars
  <2> QED BY Zenon, <2>1 DEF PushInv
<1>3. ASSUME NEW b \in bundles, Import(b) PROVE PushInv'
  <2>1. b \in Bundle /\ IsFiniteSet(b.rows) /\ b.from \in Tablet
    BY <1>1, BundleIs DEF BundlesOK
  <2>2. /\ piRead' = piRead \cup {AsRead(b.id, r) : r \in NewOf(b, piRead)}
        /\ file' = file /\ pull' = pull
        /\ IF b.live
           THEN \E u : /\ At(tick, tick', b.from, u)
                       /\ u \in Tick /\ u.at = "answered" /\ u.copy = tick[b.from].copy
                       /\ u.id = tick[b.from].id
                       /\ u.answer = TopOf(NewOf(b, piRead), CursorOf(piRead, b.id))
           ELSE tick' = tick
    BY Zenon, <1>1, <1>3, Imports
  <2>3. ReadsOK(piRead') /\ piRead \subseteq piRead'
    <3>1. ReadsOK(piRead')
      BY Zenon, <1>3, PiSteps
    <3> QED BY <2>2, <3>1
  <2>4. ASSUME NEW e \in Tablet PROVE PushOK(file[e], tick[e], pull[e], piRead')
    <3>1. file[e] \in File /\ tick[e] \in Tick /\ pull[e] \in Pull
      BY Zenon, <1>1, TabletIs DEF AllOK
    <3> QED BY Zenon, <1>1, <2>3, <3>1, PushStays DEF PushInv
  <2>5. CASE ~ b.live
    BY Zenon, <2>2, <2>4, <2>5 DEF PushInv
  <2>6. CASE b.live
    <3>1. PICK u : /\ At(tick, tick', b.from, u)
                   /\ u \in Tick /\ u.at = "answered" /\ u.copy = tick[b.from].copy
                   /\ u.id = tick[b.from].id
                   /\ u.answer = TopOf(NewOf(b, piRead), CursorOf(piRead, b.id))
      BY Zenon, <2>2, <2>6
    <3>2. u.id = b.id
      BY Zenon, <1>1, <2>6, <3>1 DEF BundlesOK
    <3>3. u.answer <= CursorOf(piRead', u.id)
      BY Zenon, <1>1, <2>1, <2>2, <2>3, <3>1, <3>2, AnswerIsRead
    <3>4. ASSUME NEW e \in Tablet PROVE PushOK(file[e], tick'[e], pull[e], piRead')
      <4>1. CASE e = b.from
        BY Zenon, <2>4, <3>1, <3>3, <4>1 DEF At, PushOK
      <4>2. CASE e # b.from
        BY Zenon, <2>4, <3>1, <4>2 DEF At
      <4> QED BY <4>1, <4>2
    <3> QED BY Zenon, <2>2, <3>4 DEF PushInv
  <2> QED BY <2>5, <2>6
<1> QED BY <1>2, <1>3

LEMMA PushStep == ASSUME TypeInv, PushInv, [Next]_vars PROVE PushInv'
<1>1. CASE UNCHANGED vars
  BY Zenon, <1>1 DEF vars, piVars, PushInv
<1>2. CASE Next
  <2>1. ASSUME NEW d \in Tablet, TabletStep(d) PROVE PushInv'
    BY Zenon, <2>1, PushTickSteps, PushEndSteps DEF TabletStep
  <2> QED BY Zenon, <1>2, <2>1, PushPiSteps, NextIs
<1> QED BY <1>1, <1>2

\* A tablet gives up only what the Pi has read, whatever answers are lost, late
\* or given twice, and whatever jobs of the tablet overlap.
THEOREM PushedIsReadAlways == Spec => []PushedIsRead
<1>1. Init => PushInv
  BY PushInit
<1>2. TypeInv /\ PushInv /\ [Next]_vars => PushInv'
  BY PushStep
<1>3. PushInv => PushedIsRead
  BY Zenon, PiCursorIs DEF PushInv, PushOK, Within, PushedIsRead
<1> QED BY <1>1, <1>2, <1>3, CourierInvariant, PTL DEF Spec

-----------------------------------------------------------------------------
(* A Pi with no internet of its own.                                         *)

\* Its log then holds only what tablets brought.
PiInv == journal = <<>> /\ Moving(piLog, clock)

LEMMA MovingLater ==
  ASSUME NEW log, LogOK(log), NEW now \in Nat, NEW then \in Nat, now <= then, Moving(log, now)
  PROVE  Moving(log, then)
<1>1. \A r \in log.rows : r.at \in Nat
  BY LogRows, RowIs
<1> QED BY <1>1 DEF Moving

LEMMA PiStep ==
  ASSUME ~ PiUplink, TypeInv, PiInv, [Next]_vars
  PROVE  PiInv'
<1>1. /\ AllOK /\ LogOK(piLog) /\ ReadsOK(piRead) /\ BundlesOK(bundles, tick) /\ clock \in Nat
      /\ journal = <<>> /\ Moving(piLog, clock)
  BY Zenon DEF TypeInv, WorldOK, PiInv
<1>2. CASE UNCHANGED vars
  BY Zenon, <1>2 DEF vars, piVars, PiInv
<1>3. ASSUME NEW p \in Path, TbaPublishes(p) PROVE PiInv'
  <2>1. clock' = clock + 1 /\ piLog' = piLog /\ journal' = journal
    BY <1>3 DEF TbaPublishes, piVars
  <2>2. clock' \in Nat /\ clock <= clock'
    BY <1>1, <2>1
  <2>3. Moving(piLog, clock')
    BY Zenon, <1>1, <2>2, MovingLater
  <2> QED BY Zenon, <1>1, <2>1, <2>3 DEF PiInv
<1>4. ASSUME NEW p \in Path, PiFetches(p) PROVE PiInv'
  BY <1>4 DEF PiFetches
<1>5. CASE JournalAppends
  BY <1>1, <1>5 DEF JournalAppends
<1>6. CASE PiRestarts
  BY <1>1, <1>6 DEF PiRestarts, PiInv
<1>7. ASSUME NEW d \in Tablet, TabletStep(d) PROVE PiInv'
  BY Zenon, <1>1, <1>7, TabletStepIs DEF SamePi, PiInv
<1>8. ASSUME NEW b \in bundles, Import(b) PROVE PiInv'
  <2>1. PICK rows : /\ rows \in SUBSET Row /\ IsFiniteSet(rows)
                    /\ \A r \in rows : r.at <= clock
                    /\ piLog' = AppendedInOrder(piLog, rows, TRUE)
    BY Zenon, <1>1, <1>8, Imports
  <2>2. Moving(piLog', clock)
    BY Zenon, <1>1, <2>1, InOrderMoves
  <2>3. journal' = journal /\ clock' = clock
    BY Zenon, <1>8 DEF Import
  <2> QED BY Zenon, <1>1, <2>2, <2>3 DEF PiInv
<1> QED BY Zenon, <1>2, <1>3, <1>4, <1>5, <1>6, <1>7, <1>8, NextIs

\* On a Pi with no internet of its own, the log only moves forward in time, path
\* by path, and never past now: whatever the tablets' clocks say, in whatever
\* order their bundles come.
THEOREM NewestWinsAlways == ASSUME ~ PiUplink PROVE Spec => []NewestWins
<1>1. Init => PiInv
  BY DEF Init, PiInv, Moving, EmptyLog
<1>2. TypeInv /\ PiInv /\ [Next]_vars => PiInv'
  BY PiStep
<1>3. PiInv => NewestWins
  BY Zenon DEF PiInv, Moving, NewestWins
<1> QED BY <1>1, <1>2, <1>3, CourierInvariant, PTL DEF Spec

-----------------------------------------------------------------------------
(* What the Pi has read of a tablet's log.                                   *)

\* The rows of its log that a tablet fetched itself.
Ours(f) == {r \in f.log.rows : r.via = "device"}

\* Under that log id neither the Pi nor a bundle has a row that f's log does not
\* number yet; of f's own rows the Pi has read all that its cursor has passed;
\* and a bundle brings all that it will make the cursor pass.
Known(f, id, read, bs) ==
    id # 0 =>
        /\ \A x \in read : x.id = id => x.seq < f.log.next
        /\ \A b \in bs : b.id = id => \A q \in b.rows : q.seq < f.log.next
        /\ \A r \in Ours(f) : r.seq <= CursorOf(read, id) => AsRead(id, r) \in read
        /\ \A r \in Ours(f), b \in bs : b.id = id =>
              \A q \in b.rows : r.seq <= q.seq => r \in b.rows \/ r.seq <= CursorOf(read, id)

\* A row the Pi's cursor has passed has a number below the log's next.
LEMMA CursorBelow ==
  ASSUME NEW read, ReadsOK(read), NEW f, LogOK(f.log), NEW id, NEW bs, Known(f, id, read, bs), id # 0
  PROVE  CursorOf(read, id) \in Nat /\ CursorOf(read, id) < f.log.next
<1>1. /\ CursorOf(read, id) \in Nat
      /\ CursorOf(read, id) = 0 \/ \E x \in read : x.id = id /\ x.seq = CursorOf(read, id)
  BY CursorIs
<1>2. \A x \in read : x.id = id => x.seq < f.log.next
  BY Zenon DEF Known
<1>3. f.log.next \in Nat \ {0}
  BY LogRows
<1> QED BY <1>1, <1>2, <1>3

LEMMA OursAre ==
  ASSUME NEW f, LogOK(f.log), NEW r \in Ours(f)
  PROVE  r \in f.log.rows /\ r.via = "device" /\ r \in Row /\ r.seq \in Nat \ {0} /\ r.seq < f.log.next
<1>1. r \in f.log.rows /\ r.via = "device" /\ r \in Row /\ f.log.next \in Nat
  BY LogRows DEF Ours
<1>2. r.seq \in 1 .. f.log.next - 1
  BY Zenon, <1>1 DEF LogOK
<1> QED BY <1>1, <1>2

\* g's log is f's, with more rows: its own ones of f's, or newer.
More(f, g) == f.log.next <= g.log.next /\ \A r \in Ours(g) : r \in Ours(f) \/ f.log.next <= r.seq

LEMMA KnownGrows ==
  ASSUME NEW read, ReadsOK(read), NEW f, LogOK(f.log), NEW g, LogOK(g.log), More(f, g),
         NEW bs \in SUBSET Bundle, NEW id, Known(f, id, read, bs)
  PROVE  Known(g, id, read, bs)
<1> SUFFICES ASSUME id # 0 PROVE Known(g, id, read, bs)
  BY DEF Known
<1>1. /\ \A x \in read : x.id = id => x.seq < f.log.next
      /\ \A b \in bs : b.id = id => \A q \in b.rows : q.seq < f.log.next
      /\ \A r \in Ours(f) : r.seq <= CursorOf(read, id) => AsRead(id, r) \in read
      /\ \A r \in Ours(f), b \in bs : b.id = id =>
            \A q \in b.rows : r.seq <= q.seq => r \in b.rows \/ r.seq <= CursorOf(read, id)
  BY Zenon DEF Known
<1>2. f.log.next \in Nat /\ g.log.next \in Nat /\ f.log.next <= g.log.next
  BY LogRows DEF More
<1>3. CursorOf(read, id) \in Nat /\ CursorOf(read, id) < f.log.next
  BY Zenon, CursorBelow
<1>4. \A x \in read : x.seq \in Nat
  BY ReadIs DEF ReadsOK
<1>5. \A b \in bs : \A q \in b.rows : q.seq \in Nat
  BY BundleIs, RowIs
<1>6. ASSUME NEW r \in Ours(g) PROVE r.seq \in Nat /\ (r \in Ours(f) \/ f.log.next <= r.seq)
  BY <1>6, OursAre DEF More
<1>7. \A x \in read : x.id = id => x.seq < g.log.next
  BY <1>1, <1>2, <1>4
<1>8. \A b \in bs : b.id = id => \A q \in b.rows : q.seq < g.log.next
  BY <1>1, <1>2, <1>5
<1>9. ASSUME NEW r \in Ours(g), r.seq <= CursorOf(read, id) PROVE AsRead(id, r) \in read
  <2>1. r \in Ours(f)
    BY <1>2, <1>3, <1>6, <1>9
  <2> QED BY Zenon, <1>1, <1>9, <2>1
<1>10. ASSUME NEW r \in Ours(g), NEW b \in bs, b.id = id, NEW q \in b.rows, r.seq <= q.seq
       PROVE  r \in b.rows \/ r.seq <= CursorOf(read, id)
  <2>1. q.seq \in Nat /\ q.seq < f.log.next
    BY <1>1, <1>5, <1>10
  <2>2. r \in Ours(f)
    BY <1>2, <1>6, <1>10, <2>1
  <2> QED BY Zenon, <1>1, <1>10, <2>2
<1> QED BY Zenon, <1>7, <1>8, <1>9, <1>10 DEF Known

\* The same log, in other hands.
LEMMA KnownAlike ==
  ASSUME NEW f, NEW g, g.log = f.log, NEW read, NEW bs, NEW id, Known(f, id, read, bs)
  PROVE  Known(g, id, read, bs)
BY Zenon DEF Known, Ours

\* Of the bundles cs, each was one of bs.
Fewer(cs, bs) == \A c \in cs : \E b \in bs : c.id = b.id /\ c.rows = b.rows

LEMMA KnownFewer ==
  ASSUME NEW f, NEW read, NEW bs, NEW id, Known(f, id, read, bs), NEW cs, Fewer(cs, bs)
  PROVE  Known(f, id, read, cs)
<1> SUFFICES ASSUME id # 0 PROVE Known(f, id, read, cs)
  BY DEF Known
<1>1. /\ \A x \in read : x.id = id => x.seq < f.log.next
      /\ \A b \in bs : b.id = id => \A q \in b.rows : q.seq < f.log.next
      /\ \A r \in Ours(f) : r.seq <= CursorOf(read, id) => AsRead(id, r) \in read
      /\ \A r \in Ours(f), b \in bs : b.id = id =>
            \A q \in b.rows : r.seq <= q.seq => r \in b.rows \/ r.seq <= CursorOf(read, id)
  BY Zenon DEF Known
<1>2. ASSUME NEW c \in cs, c.id = id
      PROVE  /\ \A q \in c.rows : q.seq < f.log.next
             /\ \A r \in Ours(f) : \A q \in c.rows :
                   r.seq <= q.seq => r \in c.rows \/ r.seq <= CursorOf(read, id)
  <2>1. PICK b \in bs : c.id = b.id /\ c.rows = b.rows
    BY Zenon DEF Fewer
  <2> QED BY Zenon, <1>1, <1>2, <2>1
<1> QED BY Zenon, <1>1, <1>2 DEF Known

\* A log no id was made for: the Pi and the bundles know nothing of it.
LEMMA KnownFresh ==
  ASSUME NEW read, ReadsOK(read), NEW f, LogOK(f.log), NEW bs, NEW id,
         \A x \in read : x.id # id, \A b \in bs : b.id # id
  PROVE  Known(f, id, read, bs)
<1>1. CursorOf(read, id) = 0
  BY Zenon, CursorIs
<1>2. \A r \in Ours(f) : ~ (r.seq <= 0)
  BY OursAre
<1> QED BY Zenon, <1>1, <1>2 DEF Known

\* A bundle of another log.
LEMMA KnownOther ==
  ASSUME NEW f, NEW read, NEW bs, NEW id, Known(f, id, read, bs), NEW b, b.id # id
  PROVE  Known(f, id, read, bs \cup {b})
BY Zenon DEF Known

\* The tablet posts what it has not pushed.
LEMMA KnownPosted ==
  ASSUME NEW read, ReadsOK(read), NEW f \in File, LogOK(f.log), f.id = 0 => f.pushed = 0, Within(f, read),
         NEW id, f.id # 0 => id = f.id, NEW bs, Known(f, id, read, bs),
         NEW b, b.rows = Unsent(f)
  PROVE  Known(f, id, read, bs \cup {b})
<1>1. \A r : r \in Unsent(f) <=> r \in f.log.rows /\ r.via = "device" /\ r.seq > f.pushed
  BY Zenon, UnsentIs
<1>2. ASSUME NEW q \in b.rows PROVE q.seq < f.log.next
  <2>1. q \in Ours(f)
    BY <1>1 DEF Ours
  <2> QED BY <2>1, OursAre
<1>3. ASSUME NEW r \in Ours(f) PROVE r \in b.rows \/ r.seq <= CursorOf(read, id)
  <2>1. r \in f.log.rows /\ r.via = "device" /\ r.seq \in Nat \ {0}
    BY OursAre
  <2>2. f.pushed \in Nat /\ CursorOf(read, id) \in Nat /\ (f.id # 0 => f.pushed <= CursorOf(read, id))
    BY FileIs, CursorIs DEF Within
  <2>3. CASE r.seq > f.pushed
    BY <1>1, <2>1, <2>3
  <2>4. CASE ~ (r.seq > f.pushed)
    BY <2>1, <2>2, <2>4
  <2> QED BY <2>3, <2>4
<1> QED BY Zenon, <1>2, <1>3 DEF Known

\* Reading a bundle of another log changes nothing of this one.
LEMMA CursorOther ==
  ASSUME NEW read, NEW id, NEW more, read \subseteq more, \A x \in more : x \in read \/ x.id # id
  PROVE  CursorOf(more, id) = CursorOf(read, id)
<1>1. {y \in more : y.id = id} = {y \in read : y.id = id}
  OBVIOUS
<1> QED BY Zenon, <1>1 DEF CursorOf

LEMMA KnownImported ==
  ASSUME NEW read, ReadsOK(read), NEW f, LogOK(f.log), NEW bs \in SUBSET Bundle, NEW id, Known(f, id, read, bs),
         NEW b \in bs, IsFiniteSet(b.rows),
         NEW more, ReadsOK(more), more = read \cup {AsRead(b.id, r) : r \in NewOf(b, read)}
  PROVE  Known(f, id, more, bs \ {b})
<1> SUFFICES ASSUME id # 0 PROVE Known(f, id, more, bs \ {b})
  BY DEF Known
<1>1. /\ \A x \in read : x.id = id => x.seq < f.log.next
      /\ \A c \in bs : c.id = id => \A q \in c.rows : q.seq < f.log.next
      /\ \A r \in Ours(f) : r.seq <= CursorOf(read, id) => AsRead(id, r) \in read
      /\ \A r \in Ours(f), c \in bs : c.id = id =>
            \A q \in c.rows : r.seq <= q.seq => r \in c.rows \/ r.seq <= CursorOf(read, id)
  BY Zenon DEF Known
<1>2. /\ b \in Bundle /\ b.id \in Nat /\ NewOf(b, read) \in SUBSET Row
      /\ \A r : r \in NewOf(b, read) <=> r \in b.rows /\ r.seq > CursorOf(read, b.id)
  BY Zenon, BundleIs, NewOnes
<1>3. /\ \A r \in NewOf(b, read) : /\ AsRead(b.id, r) \in more
                                   /\ AsRead(b.id, r).id = b.id /\ AsRead(b.id, r).seq = r.seq
      /\ \A x \in more : x \in read \/ \E r \in NewOf(b, read) : x.id = b.id /\ x.seq = r.seq
  BY <1>2, AsReadIs
<1>4. CASE b.id # id
  <2>1. CursorOf(more, id) = CursorOf(read, id)
    <3>1. read \subseteq more
      OBVIOUS
    <3>2. \A x \in more : x \in read \/ x.id # id
      BY Zenon, <1>3, <1>4
    <3> QED BY Zenon, <3>1, <3>2, CursorOther
  <2>2. \A x \in more : x.id = id => x.seq < f.log.next
    BY Zenon, <1>1, <1>3, <1>4
  <2> QED BY Zenon, <1>1, <2>1, <2>2 DEF Known
<1>5. CASE b.id = id
  <2>1. \A x \in more : x.id = id => x.seq < f.log.next
    BY Zenon, <1>1, <1>2, <1>3, <1>5
  <2>2. /\ CursorOf(read, id) \in Nat /\ CursorOf(more, id) \in Nat /\ CursorOf(read, id) <= CursorOf(more, id)
        /\ \A x \in read : x.id = id => x.seq <= CursorOf(read, id)
        /\ CursorOf(more, id) = 0 \/ \E x \in more : x.id = id /\ x.seq = CursorOf(more, id)
    BY Zenon, CursorIs, CursorMovesOn
  <2>3. ASSUME NEW r \in Ours(f), r.seq <= CursorOf(more, id) PROVE AsRead(id, r) \in more
    <3>1. CASE r.seq <= CursorOf(read, id)
      BY Zenon, <1>1, <3>1
    <3>2. CASE ~ (r.seq <= CursorOf(read, id))
      <4>1. r.seq \in Nat \ {0} /\ r.seq > CursorOf(read, id)
        BY <2>2, <3>2, OursAre
      <4>2. PICK x \in more : x.id = id /\ x.seq = CursorOf(more, id)
        BY <2>2, <2>3, <4>1
      <4>3. x \notin read
        BY <2>2, <2>3, <4>1, <4>2
      <4>4. PICK q \in NewOf(b, read) : x.seq = q.seq
        BY Zenon, <1>3, <4>3
      <4>5. q \in b.rows /\ r.seq <= q.seq
        BY Zenon, <1>2, <2>3, <4>2, <4>4
      <4>6. r \in b.rows
        BY Zenon, <1>1, <1>5, <3>2, <4>5
      <4>7. r \in NewOf(b, read)
        BY Zenon, <1>2, <1>5, <4>1, <4>6
      <4> QED BY Zenon, <1>3, <1>5, <4>7
    <3> QED BY <3>1, <3>2
  <2>4. ASSUME NEW r \in Ours(f), NEW c \in bs, c.id = id, NEW q \in c.rows, r.seq <= q.seq
        PROVE  r \in c.rows \/ r.seq <= CursorOf(more, id)
    <3>1. r \in c.rows \/ r.seq <= CursorOf(read, id)
      BY Zenon, <1>1, <2>4
    <3>2. r.seq \in Nat
      BY OursAre
    <3> QED BY <2>2, <3>1, <3>2
  <2> QED BY Zenon, <1>1, <2>1, <2>3, <2>4 DEF Known
<1> QED BY <1>4, <1>5

\* A job's copy is the file it read: where jobs do not overlap, and the file has
\* a log id, only a fetch under way sets them apart.
Tied(f, t) ==
    (f.id # 0 /\ (t.at \in {"ask", "push", "posted", "answered"} \/ (t.at = "fetch" /\ t.todo = Path)))
        => f = t.copy

\* One job runs at a time.
OneJob(t, p) ==
    /\ t.at = "idle" => t = IdleTick
    /\ p.at = "idle" => p = IdlePull
    /\ t.at = "idle" \/ p.at = "idle"

ReadOK(f, t, p, read, bs) ==
    /\ OneJob(t, p) /\ Tied(f, t)
    /\ Known(f, f.id, read, bs) /\ Known(t.copy, t.copy.id, read, bs)
    /\ Known(t.copy, t.id, read, bs) /\ Known(p.copy, p.copy.id, read, bs)

\* The log ids in use on a tablet, and two tablets that share none.
Ids(f, t, p) == {f.id, t.id, t.copy.id, p.copy.id}
Apart(I, J)  == \A i \in I : i = 0 \/ i \notin J

ReadInv ==
    /\ \A d \in Tablet : ReadOK(file[d], tick[d], pull[d], piRead, bundles)
    /\ \A d, e \in Tablet : d # e =>
          Apart(Ids(file[d], tick[d], pull[d]), Ids(file[e], tick[e], pull[e]))

LEMMA KnownZero == ASSUME NEW f, NEW read, NEW bs PROVE Known(f, 0, read, bs)
BY DEF Known

LEMMA IdleReads ==
  ASSUME NEW read, NEW bs
  PROVE  /\ ReadOK(NewFile, IdleTick, IdlePull, read, bs)
         /\ Known(IdleTick.copy, IdleTick.copy.id, read, bs) /\ Known(IdleTick.copy, IdleTick.id, read, bs)
         /\ Known(IdlePull.copy, IdlePull.copy.id, read, bs)
<1>1. /\ Known(NewFile, NewFile.id, read, bs)
      /\ Known(IdleTick.copy, IdleTick.copy.id, read, bs) /\ Known(IdleTick.copy, IdleTick.id, read, bs)
      /\ Known(IdlePull.copy, IdlePull.copy.id, read, bs)
  BY Zenon, IdleOnes, KnownZero
<1>2. OneJob(IdleTick, IdlePull) /\ Tied(NewFile, IdleTick)
  BY IdleOnes DEF OneJob, Tied
<1> QED BY Zenon, <1>1, <1>2 DEF ReadOK

LEMMA ReadInit == ASSUME Init PROVE ReadInv
<1>1. \A d \in Tablet : file[d] = NewFile /\ tick[d] = IdleTick /\ pull[d] = IdlePull
  BY Zenon DEF Init
<1>2. Apart(Ids(NewFile, IdleTick, IdlePull), Ids(NewFile, IdleTick, IdlePull))
  BY IdleOnes DEF Apart, Ids
<1> QED BY Zenon, <1>1, <1>2, IdleReads DEF ReadInv

LEMMA FewerReads ==
  ASSUME NEW f, NEW t, NEW p, NEW read, NEW bs, ReadOK(f, t, p, read, bs), NEW cs, Fewer(cs, bs)
  PROVE  ReadOK(f, t, p, read, cs)
BY Zenon, KnownFewer DEF ReadOK

LEMMA ApartBoth == ASSUME NEW I, NEW J, Apart(I, J) PROVE Apart(J, I)
BY Zenon DEF Apart

\* A step of one tablet.
LEMMA ReadOne ==
  ASSUME ReadInv, NEW d \in Tablet, NEW g, NEW u, NEW q, Only(d, g, u, q), SamePi,
         ReadOK(g, u, q, piRead, bundles'),
         \A e \in Tablet : e # d => /\ ReadOK(file[e], tick[e], pull[e], piRead, bundles')
                                    /\ Apart(Ids(g, u, q), Ids(file[e], tick[e], pull[e]))
  PROVE  ReadInv'
<1>1. ASSUME NEW e \in Tablet PROVE ReadOK(file'[e], tick'[e], pull'[e], piRead, bundles')
  BY Zenon DEF Only, At
<1>2. ASSUME NEW a \in Tablet, NEW e \in Tablet, a # e
      PROVE  Apart(Ids(file'[a], tick'[a], pull'[a]), Ids(file'[e], tick'[e], pull'[e]))
  <2>1. Apart(Ids(file[a], tick[a], pull[a]), Ids(file[e], tick[e], pull[e]))
    BY Zenon, <1>2 DEF ReadInv
  <2>2. CASE a = d
    <3>1. /\ file'[a] = g /\ tick'[a] = u /\ pull'[a] = q
          /\ file'[e] = file[e] /\ tick'[e] = tick[e] /\ pull'[e] = pull[e]
      BY Zenon, <1>2, <2>2 DEF Only, At
    <3> QED BY Zenon, <1>2, <2>2, <3>1
  <2>3. CASE e = d
    <3>1. /\ file'[e] = g /\ tick'[e] = u /\ pull'[e] = q
          /\ file'[a] = file[a] /\ tick'[a] = tick[a] /\ pull'[a] = pull[a]
      BY Zenon, <1>2, <2>3 DEF Only, At
    <3> QED BY Zenon, <1>2, <2>3, <3>1, ApartBoth
  <2>4. CASE a # d /\ e # d
    <3>1. /\ file'[a] = file[a] /\ tick'[a] = tick[a] /\ pull'[a] = pull[a]
          /\ file'[e] = file[e] /\ tick'[e] = tick[e] /\ pull'[e] = pull[e]
      BY Zenon, <2>4 DEF Only, At
    <3> QED BY Zenon, <2>1, <3>1
  <2> QED BY <2>2, <2>3, <2>4
<1> QED BY Zenon, <1>1, <1>2 DEF ReadInv, SamePi

\* The same, when no new bundle comes of it and no new log id.
LEMMA ReadLocal ==
  ASSUME ReadInv, NEW d \in Tablet, NEW g, NEW u, NEW q, Only(d, g, u, q), SamePi,
         Fewer(bundles', bundles), ReadOK(g, u, q, piRead, bundles'),
         \A i \in Ids(g, u, q) : i = 0 \/ i \in Ids(file[d], tick[d], pull[d])
  PROVE  ReadInv'
<1>1. ASSUME NEW e \in Tablet, e # d
      PROVE  /\ ReadOK(file[e], tick[e], pull[e], piRead, bundles')
             /\ Apart(Ids(g, u, q), Ids(file[e], tick[e], pull[e]))
  <2>1. ReadOK(file[e], tick[e], pull[e], piRead, bundles')
    BY Zenon, FewerReads DEF ReadInv
  <2>2. Apart(Ids(file[d], tick[d], pull[d]), Ids(file[e], tick[e], pull[e]))
    BY Zenon, <1>1 DEF ReadInv
  <2>3. Apart(Ids(g, u, q), Ids(file[e], tick[e], pull[e]))
    BY Zenon, <2>2 DEF Apart
  <2> QED BY <2>1, <2>3
<1> QED BY Zenon, <1>1, ReadOne

LEMMA SameBundles == ASSUME NEW bs, NEW cs, cs = bs PROVE Fewer(cs, bs)
BY Zenon DEF Fewer

LEMMA LeftFewer ==
  ASSUME bundles \in SUBSET Bundle, IsFiniteSet(bundles), NEW d, NEW bs, LeftBy(d, bs)
  PROVE  Fewer(bs, bundles)
<1>1. \A c \in bs : \E b \in bundles : LeftOf(c, b, d)
  BY Zenon, LeftAre
<1> QED BY Zenon, <1>1 DEF LeftOf, Fewer

\* What a step of tablet d may take from the state before.
Before(d) ==
    /\ AllOK /\ LogOK(piLog) /\ ReadsOK(piRead) /\ BundlesOK(bundles, tick)
    /\ bundles \in SUBSET Bundle /\ IsFiniteSet(bundles) /\ IsFiniteSet(piRead)
    /\ tba \in [Path -> Body] /\ clock \in Nat
    /\ file[d] \in File /\ LogOK(file[d].log)
    /\ tick[d] \in Tick /\ TickOK(tick[d]) /\ tick[d].copy \in File /\ LogOK(tick[d].copy.log)
    /\ tick[d].copy.id = 0 => tick[d].copy.pushed = 0
    /\ pull[d] \in Pull /\ pull[d].copy \in File /\ LogOK(pull[d].copy.log)
    /\ ReadOK(file[d], tick[d], pull[d], piRead, bundles)
    /\ OneJob(tick[d], pull[d]) /\ Tied(file[d], tick[d])
    /\ Known(file[d], file[d].id, piRead, bundles)
    /\ Known(tick[d].copy, tick[d].copy.id, piRead, bundles)
    /\ Known(tick[d].copy, tick[d].id, piRead, bundles)
    /\ Known(pull[d].copy, pull[d].copy.id, piRead, bundles)

LEMMA BeforeIs == ASSUME TypeInv, ReadInv, NEW d \in Tablet PROVE Before(d)
<1>1. /\ AllOK /\ LogOK(piLog) /\ ReadsOK(piRead) /\ BundlesOK(bundles, tick)
      /\ bundles \in SUBSET Bundle /\ IsFiniteSet(bundles) /\ IsFiniteSet(piRead)
      /\ tba \in [Path -> Body] /\ clock \in Nat
  BY Zenon DEF TypeInv, WorldOK, ReadsOK, BundlesOK
<1>2. /\ CopyOK(file[d], piLog) /\ CopyOK(tick[d].copy, piLog) /\ CopyOK(pull[d].copy, piLog)
      /\ TickOK(tick[d]) /\ tick[d] \in Tick /\ pull[d] \in Pull
      /\ file[d] \in File /\ tick[d].copy \in File /\ pull[d].copy \in File
  BY Zenon, <1>1, TabletIs DEF AllOK
<1>3. ReadOK(file[d], tick[d], pull[d], piRead, bundles)
  BY Zenon DEF ReadInv
<1> QED BY Zenon, <1>1, <1>2, <1>3 DEF CopyOK, ReadOK, Before

LEMMA ReadTickSteps ==
  ASSUME ~ MayOverlap, TypeInv, ReadInv, NEW d \in Tablet
  PROVE  /\ StartTick(d) => ReadInv'
         /\ \A pi, online \in BOOLEAN, key \in {"keep", "given", "taken"} : AskForKey(d, pi, key, online) => ReadInv'
         /\ \A p \in Path : Fetch(d, p) => ReadInv'
         /\ FetchEnds(d) => ReadInv'
         /\ NothingToPush(d) => ReadInv'
<1>1. Before(d)
  BY BeforeIs
<1>2. ASSUME StartTick(d) PROVE ReadInv'
  <2>1. PICK u : /\ Only(d, file[d], u, pull[d]) /\ SamePi /\ bundles' = bundles
                 /\ u \in Tick /\ u.at = "ask" /\ u.copy = file[d] /\ u.id = 0
                 /\ tick[d].at = "idle" /\ (MayOverlap \/ pull[d].at = "idle")
    BY Zenon, <1>1, <1>2, Starts DEF Before
  <2>2. OneJob(u, pull[d]) /\ Tied(file[d], u)
    BY <1>1, <2>1 DEF OneJob, Tied, Before
  <2>3. ReadOK(file[d], u, pull[d], piRead, bundles')
    BY Zenon, <1>1, <2>1, <2>2, KnownZero DEF ReadOK, Before
  <2>4. \A i \in Ids(file[d], u, pull[d]) : i = 0 \/ i \in Ids(file[d], tick[d], pull[d])
    BY <2>1 DEF Ids
  <2> QED BY Zenon, <2>1, <2>3, <2>4, SameBundles, ReadLocal
<1>3. ASSUME NEW pi \in BOOLEAN, NEW online \in BOOLEAN, NEW key \in {"keep", "given", "taken"},
             AskForKey(d, pi, key, online)
      PROVE  ReadInv'
  <2>0. PICK f, u : AfterAsking(d, f, u)
    BY Zenon, <1>1, <1>3, Asks DEF Before
  <2>1. /\ Only(d, f, u, pull[d]) /\ SamePi /\ bundles' = bundles
        /\ u \in Tick /\ u.at \in {"fetch", "push"} /\ u.id = tick[d].id /\ u.todo = Path
        /\ u.copy.log = tick[d].copy.log /\ u.copy.cursor = tick[d].copy.cursor
        /\ u.copy.pushed = tick[d].copy.pushed /\ u.copy.id = tick[d].copy.id
        /\ f = u.copy \/ (f = file[d] /\ u.copy = tick[d].copy)
        /\ tick[d].at = "ask"
    BY Zenon, <2>0 DEF AfterAsking
  <2>2. OneJob(u, pull[d])
    BY <1>1, <2>1 DEF OneJob, Before
  <2>3. Tied(f, u)
    BY <1>1, <2>1 DEF Tied, Before
  <2>4. /\ Known(u.copy, u.copy.id, piRead, bundles') /\ Known(u.copy, u.id, piRead, bundles')
    BY Zenon, <1>1, <2>1, KnownAlike DEF Before
  <2>5. Known(f, f.id, piRead, bundles')
    BY Zenon, <1>1, <2>1, <2>4 DEF Before
  <2>6. ReadOK(f, u, pull[d], piRead, bundles')
    BY Zenon, <1>1, <2>1, <2>2, <2>3, <2>4, <2>5 DEF ReadOK, Before
  <2>7. \A i \in Ids(f, u, pull[d]) : i = 0 \/ i \in Ids(file[d], tick[d], pull[d])
    BY <2>1 DEF Ids
  <2> QED BY Zenon, <2>1, <2>6, <2>7, SameBundles, ReadLocal
<1>4. ASSUME NEW p \in Path, Fetch(d, p) PROVE ReadInv'
  <2>1. PICK u, e : /\ Only(d, file[d], u, pull[d]) /\ SamePi /\ bundles' = bundles
                    /\ u \in Tick /\ u.at = "fetch" /\ u.id = tick[d].id /\ u.todo = tick[d].todo \ {p}
                    /\ IsEntry(e) /\ e.via = "device" /\ u.copy.log = Appended(tick[d].copy.log, e)
                    /\ u.copy.cursor = tick[d].copy.cursor
                    /\ u.copy.pushed = tick[d].copy.pushed /\ u.copy.id = tick[d].copy.id
                    /\ tick[d].at = "fetch" /\ p \in tick[d].todo
    BY Zenon, <1>1, <1>4, Fetches DEF Before
  <2>2. OneJob(u, pull[d])
    BY <1>1, <2>1 DEF OneJob, Before
  <2>3. u.todo # Path
    BY <2>1
  <2>4. Tied(file[d], u)
    BY <2>1, <2>3 DEF Tied
  <2>5. LogOK(u.copy.log) /\ More(tick[d].copy, u.copy)
    <3> DEFINE log == tick[d].copy.log
               m == u.copy.log
    <3>1. LogOK(log) /\ m = AppendIn(log, e, FALSE)
      BY <1>1, <2>1 DEF Before, Appended
    <3>2. LogOK(m) /\ Adds(log, m, e)
      <4>1. IsEntry(e)
        BY <2>1
      <4> HIDE DEF log, m
      <4> QED BY Zenon, <3>1, <4>1, AppendAdds
    <3>3. log.next \in Nat
      BY <3>1, LogRows
    <3>4. log.next <= m.next /\ \A r \in m.rows : r \in log.rows \/ r = NewRow(log, e)
      BY <3>2, <3>3 DEF Adds
    <3>5. NewRow(log, e).seq = log.next
      BY DEF NewRow
    <3>6. \A r \in m.rows : r \in log.rows \/ log.next <= r.seq
      BY <3>3, <3>4, <3>5
    <3> QED BY Zenon, <3>2, <3>4, <3>6 DEF More, Ours
  <2>6. /\ Known(u.copy, u.copy.id, piRead, bundles') /\ Known(u.copy, u.id, piRead, bundles')
    BY Zenon, <1>1, <2>1, <2>5, KnownGrows DEF Before
  <2>7. ReadOK(file[d], u, pull[d], piRead, bundles')
    BY Zenon, <1>1, <2>1, <2>2, <2>4, <2>6 DEF ReadOK, Before
  <2>8. \A i \in Ids(file[d], u, pull[d]) : i = 0 \/ i \in Ids(file[d], tick[d], pull[d])
    BY <2>1 DEF Ids
  <2> QED BY Zenon, <2>1, <2>7, <2>8, SameBundles, ReadLocal
<1>5. ASSUME FetchEnds(d) PROVE ReadInv'
  <2>1. PICK f, u : /\ Only(d, f, u, pull[d]) /\ SamePi /\ bundles' = bundles
                    /\ u \in Tick /\ u.at = "push" /\ u.id = tick[d].id /\ u.copy = tick[d].copy
                    /\ f = tick[d].copy \/ (f = file[d] /\ tick[d].todo = Path)
                    /\ tick[d].at = "fetch"
    BY Zenon, <1>1, <1>5, FetchIsOver DEF Before
  <2>2. OneJob(u, pull[d])
    BY <1>1, <2>1 DEF OneJob, Before
  <2>3. Tied(f, u)
    BY <1>1, <2>1 DEF Tied, Before
  <2>4. ReadOK(f, u, pull[d], piRead, bundles')
    BY Zenon, <1>1, <2>1, <2>2, <2>3 DEF ReadOK, Before
  <2>5. \A i \in Ids(f, u, pull[d]) : i = 0 \/ i \in Ids(file[d], tick[d], pull[d])
    BY <2>1 DEF Ids
  <2> QED BY Zenon, <2>1, <2>4, <2>5, SameBundles, ReadLocal
<1>6. ASSUME NothingToPush(d) PROVE ReadInv'
  <2>1. Only(d, file[d], IdleTick, pull[d]) /\ SamePi /\ bundles' = bundles /\ tick[d].at = "push"
    BY Zenon, <1>1, <1>6, PushesNothing DEF Before
  <2>2. OneJob(IdleTick, pull[d]) /\ Tied(file[d], IdleTick)
    BY <1>1, IdleOnes DEF OneJob, Tied, Before
  <2>3. ReadOK(file[d], IdleTick, pull[d], piRead, bundles')
    BY Zenon, <1>1, <2>1, <2>2, IdleReads DEF ReadOK, Before
  <2>4. \A i \in Ids(file[d], IdleTick, pull[d]) : i = 0 \/ i \in Ids(file[d], tick[d], pull[d])
    BY IdleOnes DEF Ids
  <2> QED BY Zenon, <2>1, <2>3, <2>4, SameBundles, ReadLocal
<1> QED BY Zenon, <1>2, <1>3, <1>4, <1>5, <1>6

LEMMA KnownBeside ==
  ASSUME NEW f, NEW read, NEW bs, NEW id, Known(f, id, read, bs), NEW b, id = 0 \/ b.id # id
  PROVE  Known(f, id, read, bs \cup {b})
<1>1. CASE id = 0
  BY Zenon, <1>1, KnownZero
<1>2. CASE b.id # id
  BY Zenon, <1>2, KnownOther
<1> QED BY <1>1, <1>2

\* Bundles of a log that is none of this tablet's.
LEMMA BesideReads ==
  ASSUME NEW f, NEW t, NEW p, NEW read, NEW bs, ReadOK(f, t, p, read, bs),
         NEW b, \A i \in Ids(f, t, p) : i = 0 \/ b.id # i
  PROVE  ReadOK(f, t, p, read, bs \cup {b})
<1>1. /\ f.id = 0 \/ b.id # f.id
      /\ t.id = 0 \/ b.id # t.id
      /\ t.copy.id = 0 \/ b.id # t.copy.id
      /\ p.copy.id = 0 \/ b.id # p.copy.id
  BY DEF Ids
<1> QED BY Zenon, <1>1, KnownBeside DEF ReadOK

LEMMA ReadPush ==
  ASSUME TypeInv, PushInv, ReadInv, NEW d \in Tablet, Push(d)
  PROVE  ReadInv'
<1> DEFINE copy == tick[d].copy
<1>1. Before(d) /\ Within(copy, piRead)
  BY Zenon, BeforeIs DEF PushInv, PushOK
<1>2. PICK u : /\ Only(d, file[d], u, pull[d]) /\ SamePi
               /\ u \in Tick /\ u.at = "posted" /\ u.id = IdFor(tick[d].copy) /\ u.copy = tick[d].copy
               /\ u.id \in Nat \ {0} /\ tick[d].at = "push" /\ Unsent(tick[d].copy) # {}
               /\ bundles' = bundles \cup {NewBundle(d, u.id, Unsent(tick[d].copy))}
  BY Zenon, <1>1, Posts DEF Before
<1> DEFINE b == NewBundle(d, u.id, Unsent(copy))
<1>3. b.id = u.id /\ b.rows = Unsent(copy)
  BY DEF NewBundle
<1>4. bundles' = bundles \cup {b}
  BY <1>2
<1>5. copy \in File /\ LogOK(copy.log) /\ (copy.id = 0 => copy.pushed = 0) /\ ReadsOK(piRead)
  BY <1>1 DEF Before
<1>6. copy.id # 0 => u.id = copy.id
  BY <1>2 DEF IdFor
<1>7. ASSUME copy.id = 0
      PROVE  /\ \A x \in piRead : x.id # u.id
             /\ \A c \in bundles : c.id # u.id
             /\ \A e \in Tablet : \A i \in Ids(file[e], tick[e], pull[e]) : u.id # i
  <2>1. u.id = FreshId
    BY <1>2, <1>7 DEF IdFor
  <2>2. FreshId \notin UsedIds
    BY Zenon, <1>1, FreshIdIs DEF Before
  <2> QED BY <2>1, <2>2 DEF UsedIds, Ids
<1> HIDE DEF b
<1>8. Known(copy, u.id, piRead, bundles)
  <2>1. CASE copy.id = 0
    BY Zenon, <1>5, <1>7, <2>1, KnownFresh
  <2>2. CASE copy.id # 0
    BY Zenon, <1>1, <1>6, <2>2 DEF Before
  <2> QED BY <2>1, <2>2
<1>9. Known(copy, u.id, piRead, bundles')
  <2>1. copy.id # 0 => u.id = copy.id
    BY <1>6
  <2> HIDE DEF copy
  <2>2. Known(copy, u.id, piRead, bundles \cup {b})
    BY Zenon, <1>1, <1>3, <1>5, <1>8, <2>1, KnownPosted
  <2> QED BY <1>4, <2>2
<1>10. Known(copy, copy.id, piRead, bundles')
  BY Zenon, <1>6, <1>9, KnownZero
<1>11. Known(file[d], file[d].id, piRead, bundles')
  <2>1. Known(file[d], file[d].id, piRead, bundles) /\ Tied(file[d], tick[d])
    BY Zenon, <1>1 DEF Before
  <2>2. CASE file[d].id = 0 \/ u.id # file[d].id
    BY Zenon, <1>3, <1>4, <2>1, <2>2, KnownBeside
  <2>3. CASE file[d].id # 0 /\ u.id = file[d].id
    <3>1. file[d] = copy
      BY <1>2, <2>1, <2>3 DEF Tied
    <3> QED BY <1>9, <2>3, <3>1
  <2> QED BY <2>2, <2>3
<1>12. pull[d] = IdlePull /\ OneJob(u, pull[d]) /\ Tied(file[d], u)
  BY <1>1, <1>2 DEF Before, OneJob, Tied
<1>13. ReadOK(file[d], u, pull[d], piRead, bundles')
  BY Zenon, <1>2, <1>9, <1>10, <1>11, <1>12, IdleReads DEF ReadOK
<1>14. ASSUME NEW e \in Tablet, e # d, NEW i \in Ids(file[e], tick[e], pull[e])
       PROVE  i = 0 \/ u.id # i
  <2>1. CASE copy.id = 0
    BY Zenon, <1>7, <2>1
  <2>2. CASE copy.id # 0
    <3>1. Apart(Ids(file[d], tick[d], pull[d]), Ids(file[e], tick[e], pull[e]))
      BY Zenon, <1>14 DEF ReadInv
    <3>2. copy.id \in Ids(file[d], tick[d], pull[d])
      BY DEF Ids
    <3> QED BY <1>6, <1>14, <2>2, <3>1, <3>2 DEF Apart
  <2> QED BY <2>1, <2>2
<1>15. ASSUME NEW e \in Tablet, e # d
       PROVE  /\ ReadOK(file[e], tick[e], pull[e], piRead, bundles')
              /\ Apart(Ids(file[d], u, pull[d]), Ids(file[e], tick[e], pull[e]))
  <2>1. ReadOK(file[e], tick[e], pull[e], piRead, bundles \cup {b})
    BY Zenon, <1>3, <1>14, <1>15, BesideReads DEF ReadInv
  <2>2. Apart(Ids(file[d], tick[d], pull[d]), Ids(file[e], tick[e], pull[e]))
    BY Zenon, <1>15 DEF ReadInv
  <2>3. \A i \in Ids(file[d], u, pull[d]) : i = u.id \/ i \in Ids(file[d], tick[d], pull[d])
    BY <1>2 DEF Ids
  <2>4. \A i \in Ids(file[e], tick[e], pull[e]) : i = 0 \/ u.id # i
    BY Zenon, <1>14, <1>15
  <2>5. Apart(Ids(file[d], u, pull[d]), Ids(file[e], tick[e], pull[e]))
    BY Zenon, <2>2, <2>3, <2>4 DEF Apart
  <2> QED BY <1>4, <2>1, <2>5
<1> QED BY Zenon, <1>2, <1>13, <1>15, ReadOne

LEMMA ReadEndSteps ==
  ASSUME ~ MayOverlap, TypeInv, ReadInv, NEW d \in Tablet
  PROVE  /\ (Answered(d) => ReadInv') /\ (NotAnswered(d) => ReadInv')
         /\ (StartPull(d) => ReadInv') /\ (PullPage(d) => ReadInv') /\ (StopPull(d) => ReadInv')
         /\ (Crash(d) => ReadInv') /\ (Replace(d) => ReadInv')
<1>1. Before(d)
  BY BeforeIs
\* The tick ends, having written its copy, with the log id of its push, or not.
<1>2. ASSUME NEW f, NEW g, g.log = tick[d].copy.log, g.id = tick[d].id, Writes(d, f, g, tick[d].copy),
             Only(d, f, IdleTick, pull[d]), SamePi, Fewer(bundles', bundles),
             tick[d].at \in {"posted", "answered"}
      PROVE  ReadInv'
  <2>1. Known(f, f.id, piRead, bundles')
    BY Zenon, <1>1, <1>2, KnownAlike, KnownFewer DEF Writes, Before
  <2>2. pull[d] = IdlePull /\ OneJob(IdleTick, pull[d]) /\ Tied(f, IdleTick)
    BY <1>1, <1>2, IdleOnes DEF Before, OneJob, Tied
  <2>3. ReadOK(f, IdleTick, pull[d], piRead, bundles')
    BY Zenon, <2>1, <2>2, IdleReads DEF ReadOK
  <2>4. \A i \in Ids(f, IdleTick, pull[d]) : i = 0 \/ i \in Ids(file[d], tick[d], pull[d])
    BY <1>2, IdleOnes DEF Ids, Writes
  <2> QED BY Zenon, <1>2, <2>3, <2>4, ReadLocal
<1>3. ASSUME Answered(d) PROVE ReadInv'
  <2>1. PICK f, g : /\ Only(d, f, IdleTick, pull[d]) /\ SamePi /\ bundles' = bundles
                    /\ g.log = tick[d].copy.log /\ g.id = tick[d].id
                    /\ Writes(d, f, g, tick[d].copy)
                    /\ tick[d].at = "answered"
    BY Zenon, <1>1, <1>3, GetsAnswer DEF Before
  <2> QED BY Zenon, <1>2, <2>1, SameBundles
<1>4. ASSUME NotAnswered(d) PROVE ReadInv'
  <2>1. PICK f, g : /\ Only(d, f, IdleTick, pull[d]) /\ SamePi /\ LeftBy(d, bundles')
                    /\ g.log = tick[d].copy.log /\ g.id = tick[d].id
                    /\ Writes(d, f, g, tick[d].copy)
                    /\ tick[d].at \in {"posted", "answered"}
    BY Zenon, <1>1, <1>4, GetsNone DEF Before
  <2>2. Fewer(bundles', bundles)
    BY Zenon, <1>1, <2>1, LeftFewer DEF Before
  <2> QED BY Zenon, <1>2, <2>1, <2>2
<1>5. ASSUME StartPull(d) PROVE ReadInv'
  <2>1. PICK q : /\ Only(d, file[d], tick[d], q) /\ SamePi /\ bundles' = bundles
                 /\ q \in Pull /\ q.at = "page" /\ q.copy = file[d]
                 /\ pull[d].at = "idle" /\ (MayOverlap \/ tick[d].at = "idle")
    BY Zenon, <1>1, <1>5, PullStarts DEF Before
  <2>2. OneJob(tick[d], q)
    BY <1>1, <2>1 DEF Before, OneJob
  <2>3. ReadOK(file[d], tick[d], q, piRead, bundles')
    BY Zenon, <1>1, <2>1, <2>2 DEF ReadOK, Before
  <2>4. \A i \in Ids(file[d], tick[d], q) : i = 0 \/ i \in Ids(file[d], tick[d], pull[d])
    BY <2>1 DEF Ids
  <2> QED BY Zenon, <2>1, <2>3, <2>4, SameBundles, ReadLocal
<1>6. ASSUME PullPage(d) PROVE ReadInv'
  <2>1. PICK g, q : /\ Only(d, g, tick[d], q) /\ SamePi /\ bundles' = bundles
                    /\ g \in File /\ Paged(pull[d].copy.log, g.log, PageOf(piLog, pull[d].copy.cursor))
                    /\ g.id = pull[d].copy.id
                    /\ q \in Pull /\ (q = IdlePull \/ (q.at = "page" /\ q.copy = g))
                    /\ pull[d].at = "page"
    BY Zenon, <1>1, <1>6, PullsPage DEF Before
  <2>2. LogOK(g.log) /\ More(pull[d].copy, g)
    <3>1. LogOK(piLog) /\ LogOK(pull[d].copy.log) /\ pull[d].copy.cursor \in Nat
      BY Zenon, <1>1, FileIs DEF Before
    <3>2. /\ LogOK(g.log) /\ pull[d].copy.log.next <= g.log.next
          /\ \A r \in g.log.rows : r.via = "device" => r \in pull[d].copy.log.rows
      <4>1. Paged(pull[d].copy.log, g.log, PageOf(piLog, pull[d].copy.cursor))
        BY Zenon, <2>1
      <4> QED BY <3>1, <4>1, PagedGrows
    <3> QED BY Zenon, <3>2 DEF More, Ours
  <2>3. Known(g, g.id, piRead, bundles')
    BY Zenon, <1>1, <2>1, <2>2, KnownGrows DEF Before
  <2>4. tick[d] = IdleTick /\ OneJob(tick[d], q) /\ Tied(g, tick[d])
    BY <1>1, <2>1, IdleOnes DEF Before, OneJob, Tied
  <2>5. Known(q.copy, q.copy.id, piRead, bundles')
    BY Zenon, <2>1, <2>3, IdleReads
  <2>6. ReadOK(g, tick[d], q, piRead, bundles')
    BY Zenon, <2>3, <2>4, <2>5, IdleReads DEF ReadOK
  <2>7. \A i \in Ids(g, tick[d], q) : i = 0 \/ i \in Ids(file[d], tick[d], pull[d])
    BY <2>1, IdleOnes DEF Ids
  <2> QED BY Zenon, <2>1, <2>6, <2>7, SameBundles, ReadLocal
<1>7. ASSUME StopPull(d) PROVE ReadInv'
  <2>1. Only(d, file[d], tick[d], IdlePull) /\ SamePi /\ bundles' = bundles /\ pull[d].at = "page"
    BY Zenon, <1>1, <1>7, PullStops DEF Before, StopPull
  <2>2. OneJob(tick[d], IdlePull)
    BY <1>1, <2>1, IdleOnes DEF Before, OneJob
  <2>3. ReadOK(file[d], tick[d], IdlePull, piRead, bundles')
    BY Zenon, <1>1, <2>1, <2>2, IdleReads DEF ReadOK, Before
  <2>4. \A i \in Ids(file[d], tick[d], IdlePull) : i = 0 \/ i \in Ids(file[d], tick[d], pull[d])
    BY IdleOnes DEF Ids
  <2> QED BY Zenon, <2>1, <2>3, <2>4, SameBundles, ReadLocal
<1>8. ASSUME Crash(d) PROVE ReadInv'
  <2>1. Only(d, file[d], IdleTick, IdlePull) /\ SamePi /\ LeftBy(d, bundles')
    BY Zenon, <1>1, <1>8, WorkerStops DEF Before
  <2>2. Fewer(bundles', bundles)
    BY Zenon, <1>1, <2>1, LeftFewer DEF Before
  <2>3. Known(file[d], file[d].id, piRead, bundles')
    BY Zenon, <1>1, <2>2, KnownFewer DEF Before
  <2>4. OneJob(IdleTick, IdlePull) /\ Tied(file[d], IdleTick)
    BY IdleOnes DEF OneJob, Tied
  <2>5. ReadOK(file[d], IdleTick, IdlePull, piRead, bundles')
    BY Zenon, <2>3, <2>4, IdleReads DEF ReadOK
  <2>6. \A i \in Ids(file[d], IdleTick, IdlePull) : i = 0 \/ i \in Ids(file[d], tick[d], pull[d])
    BY IdleOnes DEF Ids
  <2> QED BY Zenon, <2>1, <2>2, <2>5, <2>6, ReadLocal
<1>9. ASSUME Replace(d) PROVE ReadInv'
  <2>1. PICK g : /\ Only(d, g, tick[d], pull[d]) /\ SamePi /\ bundles' = bundles /\ g.id = 0
    BY Zenon, <1>1, <1>9, IsReplaced DEF Before
  <2>2. Known(g, g.id, piRead, bundles') /\ Tied(g, tick[d])
    BY Zenon, <2>1, KnownZero DEF Tied
  <2>3. ReadOK(g, tick[d], pull[d], piRead, bundles')
    BY Zenon, <1>1, <2>1, <2>2 DEF ReadOK, Before
  <2>4. \A i \in Ids(g, tick[d], pull[d]) : i = 0 \/ i \in Ids(file[d], tick[d], pull[d])
    BY <2>1 DEF Ids
  <2> QED BY Zenon, <2>1, <2>3, <2>4, SameBundles, ReadLocal
<1> QED BY Zenon, <1>3, <1>4, <1>5, <1>6, <1>7, <1>8, <1>9

LEMMA ImportReads ==
  ASSUME NEW read, ReadsOK(read), NEW bs \in SUBSET Bundle, NEW b \in bs, IsFiniteSet(b.rows),
         NEW more, ReadsOK(more), more = read \cup {AsRead(b.id, r) : r \in NewOf(b, read)},
         NEW f, NEW t, NEW p, LogOK(f.log), LogOK(t.copy.log), LogOK(p.copy.log), ReadOK(f, t, p, read, bs)
  PROVE  ReadOK(f, t, p, more, bs \ {b})
BY Zenon, KnownImported DEF ReadOK

LEMMA ReadPiSteps ==
  ASSUME TypeInv, ReadInv,
         \/ \E p \in Path : TbaPublishes(p) \/ PiFetches(p)
         \/ JournalAppends
         \/ PiRestarts
         \/ \E b \in bundles : Import(b)
  PROVE  ReadInv'
<1>1. /\ AllOK /\ LogOK(piLog) /\ ReadsOK(piRead) /\ BundlesOK(bundles, tick)
      /\ clock \in Nat /\ journal \in Seq(Entry) /\ bundles \in SUBSET Bundle
  BY Zenon DEF TypeInv, WorldOK, BundlesOK
<1>2. CASE (\E p \in Path : TbaPublishes(p) \/ PiFetches(p)) \/ JournalAppends \/ PiRestarts
  <2>1. piRead' = piRead /\ file' = file /\ tick' = tick /\ pull' = pull /\ bundles' = bundles
    BY Zenon, <1>2 DEF TbaPublishes, PiFetches, JournalAppends, PiRestarts, piVars
  <2> QED BY Zenon, <2>1 DEF ReadInv
<1>3. ASSUME NEW b \in bundles, Import(b) PROVE ReadInv'
  <2>1. b \in Bundle /\ IsFiniteSet(b.rows) /\ b.from \in Tablet
    BY <1>1, BundleIs DEF BundlesOK
  <2>2. /\ piRead' = piRead \cup {AsRead(b.id, r) : r \in NewOf(b, piRead)}
        /\ bundles' = bundles \ {b} /\ file' = file /\ pull' = pull
        /\ IF b.live
           THEN \E u : /\ At(tick, tick', b.from, u)
                       /\ u.at = "answered" /\ u.copy = tick[b.from].copy /\ u.id = tick[b.from].id
           ELSE tick' = tick
    BY Zenon, <1>1, <1>3, Imports
  <2>3. ReadsOK(piRead')
    BY Zenon, <1>3, PiSteps
  <2>4. ASSUME NEW e \in Tablet PROVE ReadOK(file[e], tick[e], pull[e], piRead', bundles')
    <3>1. Before(e)
      BY BeforeIs
    <3>2. /\ LogOK(file[e].log) /\ LogOK(tick[e].copy.log) /\ LogOK(pull[e].copy.log)
          /\ ReadOK(file[e], tick[e], pull[e], piRead, bundles)
      BY Zenon, <3>1 DEF Before
    <3> QED BY Zenon, <1>1, <2>1, <2>2, <2>3, <3>2, ImportReads
  <2>5. CASE ~ b.live
    BY Zenon, <2>2, <2>4, <2>5 DEF ReadInv
  <2>6. CASE b.live
    <3>1. PICK u : /\ At(tick, tick', b.from, u)
                   /\ u.at = "answered" /\ u.copy = tick[b.from].copy /\ u.id = tick[b.from].id
      BY Zenon, <2>2, <2>6
    <3>2. tick[b.from].at = "posted"
      BY Zenon, <1>1, <2>6 DEF BundlesOK
    <3>3. ReadOK(file[b.from], u, pull[b.from], piRead', bundles')
      <4>1. ReadOK(file[b.from], tick[b.from], pull[b.from], piRead', bundles')
        BY <2>1, <2>4
      <4>2. OneJob(u, pull[b.from]) /\ Tied(file[b.from], u)
        BY <3>1, <3>2, <4>1 DEF ReadOK, OneJob, Tied
      <4> QED BY Zenon, <3>1, <4>1, <4>2 DEF ReadOK
    <3>4. ASSUME NEW e \in Tablet
          PROVE  /\ ReadOK(file[e], tick'[e], pull[e], piRead', bundles')
                 /\ Ids(file[e], tick'[e], pull[e]) = Ids(file[e], tick[e], pull[e])
      <4>1. CASE e = b.from
        BY Zenon, <3>1, <3>3, <4>1 DEF At, Ids
      <4>2. CASE e # b.from
        BY Zenon, <2>4, <3>1, <4>2 DEF At
      <4> QED BY <4>1, <4>2
    <3> QED BY Zenon, <2>2, <3>4 DEF ReadInv
  <2> QED BY <2>5, <2>6
<1> QED BY <1>2, <1>3

LEMMA ReadStep == ASSUME ~ MayOverlap, TypeInv, PushInv, ReadInv, [Next]_vars PROVE ReadInv'
<1>1. CASE UNCHANGED vars
  BY Zenon, <1>1 DEF vars, piVars, ReadInv
<1>2. CASE Next
  <2>1. ASSUME NEW d \in Tablet, TabletStep(d) PROVE ReadInv'
    BY Zenon, <2>1, ReadTickSteps, ReadPush, ReadEndSteps DEF TabletStep
  <2> QED BY Zenon, <1>2, <2>1, ReadPiSteps, NextIs
<1> QED BY <1>1, <1>2

\* Where a tick and a pull of one tablet do not overlap, the Pi has read every
\* response of a tablet's that its cursor for that tablet has passed.
THEOREM FetchedIsReadAlone == ASSUME ~ MayOverlap PROVE Spec => []FetchedIsRead
<1>1. Init => PushInv /\ ReadInv
  BY PushInit, ReadInit
<1>2. TypeInv /\ PushInv /\ ReadInv /\ [Next]_vars => PushInv' /\ ReadInv'
  BY PushStep, ReadStep
<1>3. ReadInv => FetchedIsRead
  <2> SUFFICES ASSUME ReadInv, NEW d \in Tablet, NEW r \in file[d].log.rows, r.via = "device",
                      file[d].id # 0, r.seq <= PiCursor(file[d].id)
               PROVE  AsRead(file[d].id, r) \in piRead
    BY Zenon DEF FetchedIsRead
  <2>1. Known(file[d], file[d].id, piRead, bundles)
    BY Zenon DEF ReadInv, ReadOK
  <2> QED BY Zenon, <2>1, PiCursorIs DEF Known, Ours
<1> QED BY <1>1, <1>2, <1>3, CourierInvariant, PTL DEF Spec
=============================================================================
