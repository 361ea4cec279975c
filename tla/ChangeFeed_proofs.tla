-------------------------- MODULE ChangeFeed_proofs --------------------------
(* Proofs about ChangeFeed: for any pages, any number of streams, rows and    *)
(* rows to a request, any breaks and clocks set back.                         *)
EXTENDS ChangeFeed, FiniteSetTheorems, FunctionTheorems, SequenceTheorems, TLAPS

-----------------------------------------------------------------------------
(* Rows in the order of their numbers. *)

Below(rows, i) == {j \in rows : j < i}

LEMMA SubsetsAreSmaller ==
  ASSUME NEW S, IsFiniteSet(S), NEW T \in SUBSET S
  PROVE  IsFiniteSet(T) /\ Cardinality(T) \in Nat /\ Cardinality(T) <= Cardinality(S)
BY FS_Subset, FS_CardinalityType

\* A later row has more rows below it.
LEMMA BelowGrows ==
  ASSUME NEW S \in SUBSET Nat, IsFiniteSet(S), NEW i \in S, NEW j \in S, i < j
  PROVE  Cardinality(Below(S, i)) < Cardinality(Below(S, j))
<1>1. i \notin Below(S, i) /\ Below(S, i) \cup {i} \subseteq Below(S, j) /\ Below(S, j) \subseteq S
  <2>1. \A x \in S : x \in Nat /\ (x < i => x < j)
    OBVIOUS
  <2>2. i \in Nat /\ \A x \in Below(S, i) \cup {i} : x \in S /\ x < j
    BY <2>1 DEF Below
  <2>3. \A x \in Below(S, i) \cup {i} : x \in Below(S, j)
    BY <2>2 DEF Below
  <2>4. i \notin Below(S, i) /\ Below(S, j) \subseteq S
    BY <2>2 DEF Below
  <2> QED BY <2>3, <2>4
<1>2. IsFiniteSet(Below(S, i)) /\ IsFiniteSet(Below(S, j))
  BY SubsetsAreSmaller DEF Below
<1> HIDE DEF Below
<1>3. Cardinality(Below(S, i) \cup {i}) = Cardinality(Below(S, i)) + 1
  BY <1>1, <1>2, FS_AddElement
<1>4. Cardinality(Below(S, i) \cup {i}) <= Cardinality(Below(S, j))
  BY <1>1, <1>2, SubsetsAreSmaller
<1>5. Cardinality(Below(S, i)) \in Nat /\ Cardinality(Below(S, j)) \in Nat
  BY <1>2, FS_CardinalityType
<1> QED BY <1>3, <1>4, <1>5

\* Finitely many rows can be listed in their order.
LEMMA CanBeListed ==
  ASSUME NEW S \in SUBSET Nat, IsFiniteSet(S)
  PROVE  \E f \in [1..Cardinality(S) -> S] : \A i, j \in DOMAIN f : i < j => f[i] < f[j]
<1> DEFINE n == Cardinality(S)
           rank == [i \in S |-> Cardinality(Below(S, i)) + 1]
<1>1. n \in Nat
  BY FS_CardinalityType
<1>2. \A i \in S : rank[i] \in 1..n
  <2> SUFFICES ASSUME NEW i \in S PROVE Cardinality(Below(S, i)) + 1 \in 1..n
    OBVIOUS
  <2>1. Below(S, i) \in SUBSET S /\ i \notin Below(S, i)
    BY DEF Below
  <2> HIDE DEF Below
  <2>2. /\ IsFiniteSet(Below(S, i)) /\ Cardinality(Below(S, i)) \in Nat
        /\ Cardinality(Below(S, i)) <= n
    BY <2>1, SubsetsAreSmaller
  <2>3. Cardinality(Below(S, i)) # n
    BY <2>1, <2>2, FS_Subset
  <2> QED BY <1>1, <2>2, <2>3
<1>3. \A i, j \in S : i < j => rank[i] < rank[j]
  <2> SUFFICES ASSUME NEW i \in S, NEW j \in S, i < j
               PROVE  Cardinality(Below(S, i)) + 1 < Cardinality(Below(S, j)) + 1
    OBVIOUS
  <2>1. Below(S, i) \in SUBSET S /\ Below(S, j) \in SUBSET S
    BY DEF Below
  <2> HIDE DEF Below
  <2> QED BY <2>1, BelowGrows, SubsetsAreSmaller
<1>4. rank \in [S -> 1..n]
  BY <1>2
<1> HIDE DEF rank
<1>5. \A i, j \in S : rank[i] = rank[j] => i = j
  <2> SUFFICES ASSUME NEW i \in S, NEW j \in S, rank[i] = rank[j] PROVE i = j
    OBVIOUS
  <2>1. rank[i] \in Nat /\ rank[j] \in Nat /\ i \in Nat /\ j \in Nat
    BY <1>1, <1>4
  <2>2. ~ (i < j) /\ ~ (j < i)
    BY <1>3, <2>1
  <2> QED BY <2>1, <2>2
<1>6. rank \in Injection(S, 1..n)
  BY <1>4, <1>5, Fun_IsInj
<1>7. IsFiniteSet(1..n) /\ Cardinality(1..n) = n
  BY <1>1, FS_Interval
<1>8. rank \in Surjection(S, 1..n)
  BY <1>6, <1>7, FS_Injection
<1>9. \A k \in 1..n : \E i \in S : rank[i] = k
  BY <1>8, Fun_SurjectionProperties
<1> DEFINE f == [k \in 1..n |-> CHOOSE i \in S : rank[i] = k]
<1>10. f \in [1..n -> S] /\ \A k \in 1..n : rank[f[k]] = k
  BY <1>9
<1> HIDE DEF f
<1>11. \A k, l \in 1..n : k < l => f[k] < f[l]
  <2> SUFFICES ASSUME NEW k \in 1..n, NEW l \in 1..n, k < l PROVE f[k] < f[l]
    OBVIOUS
  <2>1. f[k] \in S /\ f[l] \in S /\ rank[f[k]] = k /\ rank[f[l]] = l /\ f[k] \in Nat /\ f[l] \in Nat
    BY <1>10
  <2>2. k \in Nat /\ l \in Nat
    BY <1>1
  <2>3. ~ (f[l] < f[k])
    BY <1>3, <2>1, <2>2
  <2>4. f[l] # f[k]
    BY <2>1, <2>2
  <2> QED BY <2>1, <2>3, <2>4
<1> QED BY <1>10, <1>11

\* Listed, every row is there once, in its place.
LEMMA AscendingIs ==
  ASSUME NEW S \in SUBSET Nat, IsFiniteSet(S)
  PROVE  /\ Cardinality(S) \in Nat
         /\ Ascending(S) \in [1..Cardinality(S) -> S]
         /\ \A i, j \in 1..Cardinality(S) : i < j => Ascending(S)[i] < Ascending(S)[j]
         /\ \A x \in S : \E i \in 1..Cardinality(S) : Ascending(S)[i] = x
<1> DEFINE n == Cardinality(S)
           q == Ascending(S)
<1>1. n \in Nat /\ n = Cardinality(S) /\ IsFiniteSet(1..n) /\ Cardinality(1..n) = n
  BY FS_CardinalityType, FS_Interval
<1>2. q \in [1..n -> S] /\ \A i, j \in DOMAIN q : i < j => q[i] < q[j]
  BY CanBeListed DEF Ascending
<1> HIDE DEF q, n
<1>3. \A i, j \in 1..n : i < j => q[i] < q[j]
  BY <1>2
<1>4. \A i, j \in 1..n : q[i] = q[j] => i = j
  <2> SUFFICES ASSUME NEW i \in 1..n, NEW j \in 1..n, q[i] = q[j] PROVE i = j
    OBVIOUS
  <2>1. q[i] \in S /\ q[j] \in S
    BY <1>2
  <2>2. q[i] \in Nat /\ q[j] \in Nat
    BY <2>1
  <2>3. i \in Nat /\ j \in Nat
    BY <1>1
  <2>4. ~ (i < j) /\ ~ (j < i)
    BY <1>3, <2>2
  <2> QED BY <2>3, <2>4
<1>5. q \in Injection(1..n, S)
  BY <1>2, <1>4, Fun_IsInj
<1>6. q \in Surjection(1..n, S)
  BY <1>1, <1>5, FS_Injection
<1>7. \A x \in S : \E i \in 1..n : q[i] = x
  BY <1>6 DEF Surjection
<1> QED BY <1>1, <1>2, <1>3, <1>7 DEF q, n

\* The newest of some rows.
LEMMA MaxIs ==
  ASSUME NEW S \in SUBSET Nat, IsFiniteSet(S), S # {}
  PROVE  Max(S) \in S /\ \A x \in S : x <= Max(S)
<1> DEFINE n == Cardinality(S)
           q == Ascending(S)
<1>1. /\ n \in Nat /\ q \in [1..n -> S] /\ \A i, j \in 1..n : i < j => q[i] < q[j]
      /\ \A x \in S : \E i \in 1..n : q[i] = x
  BY AscendingIs
<1> HIDE DEF q, n
<1>2. n \in 1..n
  <2>1. PICK i \in 1..n : TRUE
    BY <1>1
  <2> QED BY <1>1, <2>1
<1>3. \A x \in S : q[n] >= x
  <2> SUFFICES ASSUME NEW x \in S PROVE q[n] >= x
    OBVIOUS
  <2>1. PICK i \in 1..n : q[i] = x
    BY <1>1
  <2>5. q[n] \in S /\ q[i] \in S
    BY <1>1, <1>2
  <2>6. q[n] \in Nat /\ q[i] \in Nat
    BY <2>5
  <2>2. q[n] \in Nat /\ q[i] \in Nat /\ i \in Nat
    BY <1>1, <2>6
  <2>3. CASE i < n
    BY <1>1, <1>2, <2>1, <2>2, <2>3
  <2>4. CASE i = n
    BY <2>1, <2>2, <2>4
  <2> QED BY <1>1, <2>2, <2>3, <2>4
<1>4. q[n] \in S
  BY <1>1, <1>2
<1>5. Max(S) \in S /\ \A x \in S : Max(S) >= x
  BY <1>3, <1>4 DEF Max
<1> QED BY <1>5

\* The oldest rows of a log: with one, all that are older.
LEMMA FirstOfIs ==
  ASSUME NEW rows \in SUBSET Nat, IsFiniteSet(rows)
  PROVE  /\ FirstOf(rows) \subseteq rows /\ IsFiniteSet(FirstOf(rows))
         /\ \A i \in FirstOf(rows), j \in rows : j < i => j \in FirstOf(rows)
<1>1. FirstOf(rows) \subseteq rows
  BY DEF FirstOf
<1>2. ASSUME NEW i \in FirstOf(rows), NEW j \in rows, j < i PROVE j \in FirstOf(rows)
  <2>1. i \in rows /\ Cardinality(Below(rows, i)) < PerPull
    BY DEF FirstOf, Below
  <2>2. Cardinality(Below(rows, j)) < Cardinality(Below(rows, i))
    BY <1>2, <2>1, BelowGrows
  <2>3. Below(rows, i) \in SUBSET rows /\ Below(rows, j) \in SUBSET rows
    BY DEF Below
  <2>4. Cardinality(Below(rows, j)) \in Nat /\ Cardinality(Below(rows, i)) \in Nat
    BY <2>3, SubsetsAreSmaller
  <2>5. Cardinality(Below(rows, j)) < PerPull
    BY <2>1, <2>2, <2>4, ChangeFeedAssumption
  <2> QED BY <2>5 DEF FirstOf, Below
<1> QED BY <1>1, <1>2, FS_Subset
\* A cursor moves to the newest of the rows a request got.
LEMMA NewCursorIs ==
  ASSUME NEW rows \in SUBSET Nat, IsFiniteSet(rows), NEW after \in Nat, \A i \in rows : after < i
  PROVE  /\ NewCursor(rows, after) \in Nat /\ after <= NewCursor(rows, after)
         /\ \A i \in rows : i <= NewCursor(rows, after)
         /\ rows = {} => NewCursor(rows, after) = after
         /\ rows # {} => NewCursor(rows, after) = Max(rows) /\ Max(rows) \in rows
<1> DEFINE all == rows \cup {after}
           m   == Max(all)
<1>1. IsFiniteSet(all) /\ all \in SUBSET Nat /\ all # {}
  BY FS_AddElement
<1>2. m \in all /\ \A x \in all : x <= m
  BY <1>1, MaxIs
<1> HIDE DEF m
<1>3. m \in Nat /\ after <= m /\ \A i \in rows : i <= m
  BY <1>1, <1>2
<1>4. rows = {} => m = after
  BY <1>2
<1>5. ASSUME rows # {} PROVE m = Max(rows) /\ Max(rows) \in rows
  <2>1. Max(rows) \in rows /\ \A x \in rows : x <= Max(rows)
    BY <1>5, MaxIs
  <2>2. after < Max(rows) /\ Max(rows) \in Nat
    BY <2>1
  <2>3. Max(rows) <= m
    BY <1>3, <2>1
  <2>4. m \in rows
    BY <1>2, <2>2, <2>3
  <2>5. m <= Max(rows)
    BY <2>1, <2>4
  <2> QED BY <1>3, <2>1, <2>2, <2>3, <2>5
<1> QED BY <1>3, <1>4, <1>5 DEF NewCursor, m

\* Where the cursor is after each event made of some rows: every event moves it
\* on, over nothing that is seen but its own row.
Placed(kind, rows, seen, id, after, E, pos) ==
    /\ pos[0] = after /\ pos[Len(E)] = NewCursor(rows, after)
    /\ \A k \in 1..Len(E) :
        /\ pos[k - 1] < pos[k] /\ pos[k] \in rows /\ E[k].id = id[pos[k]]
        /\ \/ E[k].row = <<kind, pos[k]>> /\ seen[pos[k]]
           \/ E[k].row = <<"cursor", 0>> /\ ~seen[pos[k]]
        /\ \A j \in rows : seen[j] /\ pos[k - 1] < j /\ j <= pos[k] => j = pos[k]

LEMMA EventsAre ==
  ASSUME NEW kind \in {"change", "upstream"}, NEW rows \in SUBSET Nat, IsFiniteSet(rows),
         NEW seen, NEW id, \A i \in rows : id[i] \in Nat \X Nat,
         NEW after \in Nat, \A i \in rows : after < i
  PROVE  /\ Events(kind, rows, seen, id) \in Seq(EventRow)
         /\ \E pos \in [0..Len(Events(kind, rows, seen, id)) -> Nat] :
                Placed(kind, rows, seen, id, after, Events(kind, rows, seen, id), pos)
<1> DEFINE S == {i \in rows : seen[i]}
           c == Cardinality(S)
           q == Ascending(S)
           m == Max(rows)
           A == [n \in 1..c |-> [row |-> <<kind, q[n]>>, id |-> id[q[n]]]]
           e == [row |-> <<"cursor", 0>>, id |-> id[m]]
           B == IF rows # {} /\ ~seen[m] THEN <<e>> ELSE <<>>
<1>1. IsFiniteSet(S) /\ S \in SUBSET Nat /\ S \subseteq rows
  BY FS_Subset
<1>2. /\ c \in Nat /\ q \in [1..c -> S] /\ \A i, j \in 1..c : i < j => q[i] < q[j]
      /\ \A x \in S : \E i \in 1..c : q[i] = x
  BY <1>1, AscendingIs
<1>3. Events(kind, rows, seen, id) = A \o B
  <2>1. DOMAIN q = 1..c
    BY <1>2
  <2> HIDE DEF q, c, m
  <2> QED BY <2>1 DEF Events, q, m
<1>4. rows # {} => m \in rows /\ (\A i \in rows : i <= m) /\ m \in Nat
  BY MaxIs
<1>5. \A i \in S : i \in rows /\ i \in Nat /\ seen[i] /\ id[i] \in Nat \X Nat
  BY <1>1
<1>6. \A i \in rows : seen[i] => i \in S
  OBVIOUS
<1> HIDE DEF S, c, q, m
<1>7. A \in Seq(EventRow) /\ Len(A) = c /\ \A n \in 1..c : A[n] = [row |-> <<kind, q[n]>>, id |-> id[q[n]]]
  <2>1. \A n \in 1..c : q[n] \in S
    BY <1>2
  <2>2. \A n \in 1..c : [row |-> <<kind, q[n]>>, id |-> id[q[n]]] \in EventRow
    BY <1>5, <2>1 DEF EventRow
  <2> QED BY <1>2, <2>2
<1> HIDE DEF A
<1> DEFINE E == A \o B
           pos == [k \in 0..Len(E) |-> IF k = 0 THEN after ELSE IF k <= c THEN q[k] ELSE m]
<1>8. E \in Seq(EventRow) /\ \E p \in [0..Len(E) -> Nat] : Placed(kind, rows, seen, id, after, E, p)
  <2>1. CASE rows = {}
    <3>1. c = 0
      <4>1. \A n \in 1..c : q[n] \in S
        BY <1>2
      <4>2. \A n \in 1..c : FALSE
        BY <1>5, <2>1, <4>1
      <4> QED BY <1>2, <4>2
    <3>2. A = <<>> /\ B = <<>>
      BY <1>7, <2>1, <3>1, EmptySeq
    <3>3. E = <<>> /\ Len(E) = 0 /\ E \in Seq(EventRow)
      BY <3>2, EmptySeq, ConcatEmptySeq
    <3>4. NewCursor(rows, after) = after
      BY <2>1, NewCursorIs
    <3> HIDE DEF E
    <3>5. [k \in 0..Len(E) |-> after] \in [0..Len(E) -> Nat]
      OBVIOUS
    <3>6. Placed(kind, rows, seen, id, after, E, [k \in 0..Len(E) |-> after])
      BY <3>3, <3>4 DEF Placed
    <3> QED BY <3>3, <3>5, <3>6
  <2>2. CASE rows # {} /\ seen[m]
    <3>1. B = <<>> /\ E = A /\ Len(E) = c
      BY <1>7, <2>2, ConcatEmptySeq
    <3>2. PICK l \in 1..c : q[l] = m
      BY <1>2, <1>4, <1>6, <2>2
    <3>3. c \in 1..c /\ l = c
      <4>1. c \in 1..c
        BY <1>2, <3>2
      <4>2. q[c] \in S /\ q[c] \in Nat /\ q[c] <= m /\ m \in Nat
        BY <1>2, <1>4, <1>5, <2>2, <4>1
      <4>3. ~ (l < c)
        BY <1>2, <3>2, <4>1, <4>2
      <4> QED BY <1>2, <4>1, <4>3
    <3>4. NewCursor(rows, after) = m
      BY <2>2, NewCursorIs DEF m
    <3> HIDE DEF E, B
    <3>5. \A k \in 1..c : q[k] \in S /\ q[k] \in Nat /\ q[k] \in rows /\ seen[q[k]] /\ after < q[k]
      BY <1>2, <1>5
    <3>6. pos \in [0..Len(E) -> Nat] /\ pos[0] = after /\ pos[Len(E)] = m /\ \A k \in 1..c : pos[k] = q[k]
      BY <1>2, <3>1, <3>2, <3>3, <3>5
    <3> HIDE DEF pos
    <3>7. ASSUME NEW k \in 1..c
          PROVE  /\ pos[k - 1] < pos[k]
                 /\ \A j \in rows : seen[j] /\ pos[k - 1] < j /\ j <= pos[k] => j = pos[k]
      <4>1. k - 1 = 0 \/ (k - 1 \in 1..c /\ k - 1 < k)
        BY <1>2
      <4>2. pos[k - 1] < pos[k]
        BY <1>2, <3>5, <3>6, <4>1
      <4>3. ASSUME NEW j \in rows, seen[j], pos[k - 1] < j, j <= pos[k] PROVE j = pos[k]
        <5>1. PICK i \in 1..c : q[i] = j
          BY <1>2, <1>6, <4>3
        <5>2. i \in Nat /\ k \in Nat
          BY <1>2
        <5>3. ~ (k < i)
          BY <1>2, <3>5, <3>6, <4>3, <5>1
        <5>4. ~ (i < k)
          <6>1. CASE k - 1 = 0
            BY <5>2, <6>1
          <6>2. CASE k - 1 # 0
            <7>1. k - 1 \in 1..c /\ pos[k - 1] = q[k - 1]
              BY <3>6, <4>1, <6>2
            <7>2. i < k - 1 => q[i] < q[k - 1]
              BY <1>2, <7>1
            <7>3. i = k - 1 => q[i] = q[k - 1]
              OBVIOUS
            <7>4. q[i] \in Nat /\ q[k - 1] \in Nat /\ q[k - 1] < q[i]
              BY <3>5, <4>3, <5>1, <7>1
            <7> QED BY <5>2, <7>2, <7>3, <7>4
          <6> QED BY <6>1, <6>2
        <5> QED BY <3>6, <5>1, <5>2, <5>3, <5>4
      <4> QED BY <4>2, <4>3
    <3>8. Placed(kind, rows, seen, id, after, E, pos)
      <4>1. ASSUME NEW k \in 1..c
            PROVE  pos[k] \in rows /\ E[k].id = id[pos[k]] /\ E[k].row = <<kind, pos[k]>> /\ seen[pos[k]]
        BY <1>7, <3>1, <3>5, <3>6
      <4> QED BY <3>1, <3>4, <3>6, <3>7, <4>1 DEF Placed
    <3> QED BY <1>7, <3>1, <3>6, <3>8
  <2>3. CASE rows # {} /\ ~seen[m]
    <3>1. e \in EventRow
      BY <1>4, <2>3 DEF EventRow
    <3> HIDE DEF e
    <3>2. /\ E \in Seq(EventRow) /\ Len(E) = c + 1 /\ E[c + 1] = e
          /\ \A k \in 1..c : E[k] = A[k]
      <4>1. B = <<e>> /\ B \in Seq(EventRow) /\ Len(B) = 1 /\ B[1] = e
        BY <2>3, <3>1
      <4> HIDE DEF B
      <4> QED BY <1>2, <1>7, <4>1, ConcatProperties
    <3>4. NewCursor(rows, after) = m
      BY <2>3, NewCursorIs DEF m
    <3> HIDE DEF E, B
    <3>5. \A k \in 1..c : q[k] \in S /\ q[k] \in Nat /\ q[k] \in rows /\ seen[q[k]] /\ after < q[k]
      BY <1>2, <1>5
    <3>9. m \in Nat /\ m \in rows /\ after < m /\ \A k \in 1..c : q[k] < m
      <4>1. \A k \in 1..c : q[k] <= m /\ q[k] # m
        BY <1>4, <2>3, <3>5
      <4> QED BY <1>4, <2>3, <3>5, <4>1
    <3>6. /\ pos \in [0..Len(E) -> Nat] /\ pos[0] = after /\ pos[c + 1] = m
          /\ \A k \in 1..c : pos[k] = q[k]
      <4>1. c + 1 \in 0..Len(E) /\ c + 1 # 0 /\ ~ (c + 1 <= c) /\ 0 \in 0..Len(E)
        BY <1>2, <3>2
      <4>2. \A k \in 1..c : k \in 0..Len(E) /\ k # 0 /\ k <= c
        BY <1>2, <3>2
      <4>3. \A k \in 0..Len(E) : k # 0 /\ k <= c => k \in 1..c
        BY <1>2, <3>2
      <4>4. \A k \in 0..Len(E) : pos[k] \in Nat
        BY <3>5, <3>9, <4>3
      <4> QED BY <4>1, <4>2, <4>4
    <3> HIDE DEF pos
    <3>7. ASSUME NEW k \in 1..(c + 1)
          PROVE  /\ pos[k - 1] < pos[k]
                 /\ \A j \in rows : seen[j] /\ pos[k - 1] < j /\ j <= pos[k] => j = pos[k]
      <4>1. k - 1 = 0 \/ (k - 1 \in 1..c /\ k - 1 < k)
        BY <1>2
      <4>5. k \in 1..c \/ k = c + 1
        BY <1>2
      <4>2. pos[k - 1] < pos[k]
        BY <1>2, <3>5, <3>6, <3>9, <4>1, <4>5
      <4>3. ASSUME NEW j \in rows, seen[j], pos[k - 1] < j, j <= pos[k] PROVE j = pos[k]
        <5>1. PICK i \in 1..c : q[i] = j
          BY <1>2, <1>6, <4>3
        <5>2. i \in Nat /\ k \in Nat
          BY <1>2
        <5>3. ~ (k < i)
          BY <1>2, <3>5, <3>6, <4>3, <4>5, <5>1
        <5>4. ~ (i < k)
          <6>1. CASE k - 1 = 0
            BY <5>2, <6>1
          <6>2. CASE k - 1 # 0
            <7>1. k - 1 \in 1..c /\ pos[k - 1] = q[k - 1]
              BY <3>6, <4>1, <6>2
            <7>2. i < k - 1 => q[i] < q[k - 1]
              BY <1>2, <7>1
            <7>3. i = k - 1 => q[i] = q[k - 1]
              OBVIOUS
            <7>4. q[i] \in Nat /\ q[k - 1] \in Nat /\ q[k - 1] < q[i]
              BY <3>5, <4>3, <5>1, <7>1
            <7> QED BY <5>2, <7>2, <7>3, <7>4
          <6> QED BY <6>1, <6>2
        <5>5. i = k
          BY <5>2, <5>3, <5>4
        <5> QED BY <3>6, <5>1, <5>5
      <4> QED BY <4>2, <4>3
    <3>10. ASSUME NEW k \in 1..(c + 1)
           PROVE  /\ pos[k] \in rows /\ E[k].id = id[pos[k]]
                  /\ \/ E[k].row = <<kind, pos[k]>> /\ seen[pos[k]]
                     \/ E[k].row = <<"cursor", 0>> /\ ~seen[pos[k]]
      <4>1. CASE k \in 1..c
        <5>1. pos[k] = q[k] /\ q[k] \in rows /\ seen[q[k]]
          BY <3>5, <3>6, <4>1
        <5>2. E[k] = [row |-> <<kind, q[k]>>, id |-> id[q[k]]]
          BY <1>7, <3>2, <4>1
        <5> QED BY <5>1, <5>2
      <4>2. CASE k = c + 1
        BY <2>3, <3>2, <3>6, <3>9, <4>2 DEF e
      <4> QED BY <1>2, <4>1, <4>2
    <3>8. Placed(kind, rows, seen, id, after, E, pos)
      BY <3>2, <3>4, <3>6, <3>7, <3>10 DEF Placed
    <3> QED BY <3>2, <3>6, <3>8
  <2> QED BY <2>1, <2>2, <2>3
<1> QED BY <1>3, <1>8

-----------------------------------------------------------------------------
(* What holds of logs C and U, of the events of a stream and of a page.       *)

Late(C, i) == \E j \in DOMAIN C : j > i /\ C[j].era > C[i].era

Due(C, i) == C[i].shown /\ ~Late(C, i)

\* An event leads from one pair of cursors to its own: over no row that is due
\* but the one it brings, and that one is new.
Leads(C, U, from, e) ==
    /\ from[1] <= e.id[1] /\ e.id[1] <= Len(C)
    /\ from[2] <= e.id[2] /\ e.id[2] <= Len(U)
    /\ \A j \in (from[1] + 1)..e.id[1] : Due(C, j) => e.row = <<"change", j>>
    /\ \A j \in (from[2] + 1)..e.id[2] : U[j] => e.row = <<"upstream", j>>
    /\ e.row[1] = "change" => from[1] < e.row[2] /\ e.row[2] <= e.id[1]
    /\ e.row[1] = "upstream" => from[2] < e.row[2] /\ e.row[2] <= e.id[2]

\* Where a reader is before the nth event.
Before(from, P, n) == IF n = 1 THEN from ELSE P[n - 1].id

Chain(C, U, from, P, to) ==
    /\ \A n \in 1..Len(P) : Leads(C, U, Before(from, P, n), P[n])
    /\ to = Before(from, P, Len(P) + 1)

\* Changes settle in their order, but for those a later one overtakes.
InTurn(C, S) == \A i \in S : \A j \in 1..(i - 1) : j \in S \/ C[j].era < C[i].era

\* The events a stream has still to send lead from where its page is to where
\* the stream is.
Lead(C, U, T, G) ==
    \A s \in Stream : T[s] # None /\ G[T[s].page].conn = s =>
        Chain(C, U, G[T[s].page].id, T[s].pending, T[s].at)

\* A page is no further than the logs, and has no row that is further than it.
Follows(C, U, g) ==
    /\ g.at # "drawn" => g.conn = None /\ g.got = {} /\ g.id = g.start
    /\ g.id[1] <= Len(C) /\ g.id[2] <= Len(U)
    /\ \A r \in g.got : /\ r[1] = "change" => r[2] <= g.id[1]
                        /\ r[1] = "upstream" => r[2] <= g.id[2]

\* A redraw shows changes there are; a pick list's is of all of it.
Redraws(C, p, g) ==
    /\ \A f \in g.fetches : /\ f.read # None => f.read <= Len(C)
                            /\ f.for = {All} \/ f.for \subseteq DOMAIN C
                            /\ p \in PickPage => f.for = {All}
    /\ p \notin PickPage => g.marked \subseteq DOMAIN C

\* What StreamsSkipNothing and PickListsMissNothing say of a page.
Skips(C, U, g) ==
    /\ ~g.twice
    /\ \A i \in (g.start[1] + 1)..g.id[1] : Due(C, i) => <<"change", i>> \in g.got
    /\ \A i \in (g.start[2] + 1)..g.id[2] : U[i] => <<"upstream", i>> \in g.got

Waits(g, i) ==
    \/ i > g.id[1]
    \/ g.marked # {}
    \/ \E f \in g.fetches : f.read = None \/ f.read >= i
    \/ g.hurt # {}

Misses(C, g) ==
    g.at = "drawn" => \A i \in DOMAIN C : Due(C, i) /\ i \notin g.seen => Waits(g, i)

PageHolds(C, U, p, g) ==
    /\ Follows(C, U, g) /\ Redraws(C, p, g) /\ Skips(C, U, g)
    /\ p \in PickPage => Misses(C, g)

ChangeRow == [shown : BOOLEAN, era : 0..SetBacks]

\* A reader who has read one event has the rest before it.
LEMMA ChainTail ==
  ASSUME NEW C, NEW U, NEW from, NEW to, NEW P \in Seq(EventRow), P # <<>>, Chain(C, U, from, P, to)
  PROVE  Leads(C, U, from, Head(P)) /\ Chain(C, U, Head(P).id, Tail(P), to)
<1>1. /\ Len(P) \in Nat /\ Len(P) >= 1 /\ Len(Tail(P)) = Len(P) - 1 /\ Head(P) = P[1]
      /\ \A n \in 1..Len(Tail(P)) : Tail(P)[n] = P[n + 1]
  OBVIOUS
<1>2. Leads(C, U, from, P[1])
  BY <1>1 DEF Chain, Before
<1>3. \A n \in 1..(Len(Tail(P)) + 1) : Before(Head(P).id, Tail(P), n) = Before(from, P, n + 1)
  <2> SUFFICES ASSUME NEW n \in 1..(Len(Tail(P)) + 1)
               PROVE  Before(Head(P).id, Tail(P), n) = Before(from, P, n + 1)
    OBVIOUS
  <2>1. n + 1 # 1 /\ (n + 1) - 1 = n
    BY <1>1
  <2>2. CASE n = 1
    BY <1>1, <2>1, <2>2 DEF Before
  <2>3. CASE n # 1
    <3>1. n - 1 \in 1..Len(Tail(P)) /\ (n - 1) + 1 = n
      BY <1>1, <2>3
    <3> QED BY <1>1, <2>1, <2>3, <3>1 DEF Before
  <2> QED BY <2>2, <2>3
<1>4. ASSUME NEW n \in 1..Len(Tail(P)) PROVE Leads(C, U, Before(Head(P).id, Tail(P), n), Tail(P)[n])
  <2>1. n + 1 \in 1..Len(P) /\ n \in 1..(Len(Tail(P)) + 1)
    BY <1>1
  <2> QED BY <1>1, <1>3, <2>1 DEF Chain
<1>5. to = Before(Head(P).id, Tail(P), Len(Tail(P)) + 1)
  <2>1. Len(Tail(P)) + 1 \in 1..(Len(Tail(P)) + 1) /\ (Len(Tail(P)) + 1) + 1 = Len(P) + 1
    BY <1>1
  <2> QED BY <1>3, <2>1 DEF Chain
<1> QED BY <1>1, <1>2, <1>4, <1>5 DEF Chain

\* Two chains, the second from where the first leads to, are one.
LEMMA ChainJoin ==
  ASSUME NEW C, NEW U, NEW a, NEW b, NEW c, NEW P \in Seq(EventRow), NEW Q \in Seq(EventRow),
         Chain(C, U, a, P, b), Chain(C, U, b, Q, c)
  PROVE  P \o Q \in Seq(EventRow) /\ Chain(C, U, a, P \o Q, c)
<1> DEFINE l == Len(P)
           m == Len(Q)
           R == P \o Q
<1>1. /\ l \in Nat /\ m \in Nat /\ R \in Seq(EventRow) /\ Len(R) = l + m
      /\ \A n \in 1..l : R[n] = P[n]
      /\ \A n \in 1..(l + m) : n > l => R[n] = Q[n - l]
  BY ConcatProperties
<1> HIDE DEF R, l, m
<1>2. \A n \in 1..(l + 1) : Before(a, R, n) = Before(a, P, n)
  <2> SUFFICES ASSUME NEW n \in 1..(l + 1) PROVE Before(a, R, n) = Before(a, P, n)
    OBVIOUS
  <2>1. n # 1 => n - 1 \in 1..l
    BY <1>1
  <2> QED BY <1>1, <2>1 DEF Before
<1>3. \A n \in (l + 1)..(l + m + 1) : Before(a, R, n) = Before(b, Q, n - l)
  <2> SUFFICES ASSUME NEW n \in (l + 1)..(l + m + 1) PROVE Before(a, R, n) = Before(b, Q, n - l)
    OBVIOUS
  <2>1. CASE n = l + 1
    <3>1. n - l = 1 /\ n \in 1..(l + 1)
      BY <1>1, <2>1
    <3> QED BY <1>1, <1>2, <2>1, <3>1 DEF Chain, Before, l
  <2>2. CASE n # l + 1
    <3>1. /\ n - 1 \in 1..(l + m) /\ n - 1 > l /\ n # 1 /\ n - l # 1
          /\ (n - 1) - l = (n - l) - 1
      BY <1>1, <2>2
    <3>2. R[n - 1] = Q[(n - l) - 1]
      BY <1>1, <3>1
    <3> QED BY <3>1, <3>2 DEF Before
  <2> QED BY <2>1, <2>2
<1>4. ASSUME NEW n \in 1..(l + m) PROVE Leads(C, U, Before(a, R, n), R[n])
  <2>1. CASE n <= l
    <3>1. n \in 1..l /\ n \in 1..(l + 1)
      BY <1>1, <2>1
    <3>2. Leads(C, U, Before(a, P, n), P[n])
      BY <3>1 DEF Chain, l
    <3> QED BY <1>1, <1>2, <3>1, <3>2
  <2>2. CASE n > l
    <3>1. n - l \in 1..m /\ n \in (l + 1)..(l + m + 1)
      BY <1>1, <2>2
    <3>2. Leads(C, U, Before(b, Q, n - l), Q[n - l])
      BY <3>1 DEF Chain, m
    <3> QED BY <1>1, <1>3, <2>2, <3>1, <3>2
  <2> QED BY <1>1, <2>1, <2>2
<1>5. c = Before(a, R, l + m + 1)
  <2>1. l + m + 1 \in (l + 1)..(l + m + 1) /\ (l + m + 1) - l = m + 1
    BY <1>1
  <2>2. c = Before(b, Q, m + 1)
    BY DEF Chain, m
  <2> QED BY <1>3, <2>1, <2>2
<1> QED BY <1>1, <1>4, <1>5 DEF Chain, R

-----------------------------------------------------------------------------
(* The logs only grow. *)

Longer(C, D) == Len(C) <= Len(D) /\ \A i \in 1..Len(C) : D[i] = C[i]

\* A row that is due in a log that has grown was due before.
LEMMA DueBefore ==
  ASSUME NEW C \in Seq(ChangeRow), NEW D \in Seq(ChangeRow), Longer(C, D),
         NEW i \in 1..Len(C), Due(D, i)
  PROVE  Due(C, i)
<1>1. DOMAIN C = 1..Len(C) /\ DOMAIN D = 1..Len(D) /\ Len(C) \in Nat /\ Len(D) \in Nat
  OBVIOUS
<1>2. DOMAIN C \subseteq DOMAIN D
  BY <1>1 DEF Longer
<1>3. D[i] = C[i] /\ i \in DOMAIN D /\ \A j \in DOMAIN C : D[j] = C[j]
  BY <1>1, <1>2 DEF Longer
<1>4. Late(C, i) => Late(D, i)
  BY <1>2, <1>3 DEF Late
<1> QED BY <1>3, <1>4 DEF Due

LEMMA LeadsOn ==
  ASSUME NEW C \in Seq(ChangeRow), NEW D \in Seq(ChangeRow), Longer(C, D),
         NEW U \in Seq(BOOLEAN), NEW V \in Seq(BOOLEAN), Longer(U, V),
         NEW from \in Nat \X Nat, NEW e \in EventRow, Leads(C, U, from, e)
  PROVE  Leads(D, V, from, e)
<1>1. /\ Len(C) \in Nat /\ Len(D) \in Nat /\ Len(C) <= Len(D)
      /\ Len(U) \in Nat /\ Len(V) \in Nat /\ Len(U) <= Len(V)
      /\ from[1] \in Nat /\ from[2] \in Nat /\ e.id[1] \in Nat /\ e.id[2] \in Nat
  BY DEF Longer, EventRow
<1>2. ASSUME NEW j \in (from[1] + 1)..e.id[1], Due(D, j) PROVE e.row = <<"change", j>>
  <2>1. j \in 1..Len(C)
    BY <1>1 DEF Leads
  <2> QED BY <1>2, <2>1, DueBefore DEF Leads
<1>3. ASSUME NEW j \in (from[2] + 1)..e.id[2], V[j] PROVE e.row = <<"upstream", j>>
  <2>1. j \in 1..Len(U)
    BY <1>1 DEF Leads
  <2>2. U[j]
    BY <1>3, <2>1 DEF Longer
  <2> QED BY <2>2 DEF Leads
<1> QED BY <1>1, <1>2, <1>3 DEF Leads

LEMMA BeforeTyped ==
  ASSUME NEW from \in Nat \X Nat, NEW P \in Seq(EventRow)
  PROVE  \A n \in 1..(Len(P) + 1) : Before(from, P, n) \in Nat \X Nat
<1> SUFFICES ASSUME NEW n \in 1..(Len(P) + 1) PROVE Before(from, P, n) \in Nat \X Nat
  OBVIOUS
<1>1. n # 1 => n - 1 \in 1..Len(P)
  OBVIOUS
<1>2. n # 1 => P[n - 1] \in EventRow
  BY <1>1
<1> QED BY <1>2 DEF Before, EventRow

LEMMA ChainOn ==
  ASSUME NEW C \in Seq(ChangeRow), NEW D \in Seq(ChangeRow), Longer(C, D),
         NEW U \in Seq(BOOLEAN), NEW V \in Seq(BOOLEAN), Longer(U, V),
         NEW from \in Nat \X Nat, NEW to, NEW P \in Seq(EventRow), Chain(C, U, from, P, to)
  PROVE  Chain(D, V, from, P, to)
<1>1. ASSUME NEW n \in 1..Len(P) PROVE Leads(D, V, Before(from, P, n), P[n])
  <2>1. n \in 1..(Len(P) + 1) /\ P[n] \in EventRow
    OBVIOUS
  <2>2. Before(from, P, n) \in Nat \X Nat
    BY <2>1, BeforeTyped
  <2>3. Leads(C, U, Before(from, P, n), P[n])
    BY DEF Chain
  <2> QED BY <2>1, <2>2, <2>3, LeadsOn
<1> QED BY <1>1 DEF Chain

\* What holds of a page goes on holding.
LEMMA PageOn ==
  ASSUME NEW C \in Seq(ChangeRow), NEW D \in Seq(ChangeRow), Longer(C, D),
         NEW U \in Seq(BOOLEAN), NEW V \in Seq(BOOLEAN), Longer(U, V),
         NEW p, NEW g \in PageRow, PageHolds(C, U, p, g)
  PROVE  PageHolds(D, V, p, g)
<1>1. /\ Len(C) \in Nat /\ Len(D) \in Nat /\ Len(C) <= Len(D) /\ DOMAIN C = 1..Len(C)
      /\ Len(U) \in Nat /\ Len(V) \in Nat /\ Len(U) <= Len(V) /\ DOMAIN D = 1..Len(D)
  BY DEF Longer
<1>2. /\ g.start[1] \in Nat /\ g.start[2] \in Nat /\ g.id[1] \in Nat /\ g.id[2] \in Nat
      /\ g.id[1] <= Len(C) /\ g.id[2] <= Len(U)
  BY DEF PageRow, PageHolds, Follows
<1>3. Follows(D, V, g)
  BY <1>1, <1>2 DEF PageHolds, Follows
<1>4. Redraws(D, p, g)
  <2>1. \A f \in g.fetches : f.read # None => f.read \in Nat
    BY DEF PageRow, FetchRow
  <2>2. DOMAIN C \subseteq DOMAIN D
    BY <1>1
  <2>3. \A f \in g.fetches : f.read # None => f.read <= Len(D)
    BY <1>1, <2>1 DEF PageHolds, Redraws
  <2> QED BY <2>2, <2>3 DEF PageHolds, Redraws
<1>5. Skips(D, V, g)
  <2>1. ASSUME NEW i \in (g.start[1] + 1)..g.id[1], Due(D, i) PROVE <<"change", i>> \in g.got
    <3>1. i \in 1..Len(C)
      BY <1>1, <1>2
    <3> QED BY <2>1, <3>1, DueBefore DEF PageHolds, Skips
  <2>2. ASSUME NEW i \in (g.start[2] + 1)..g.id[2], V[i] PROVE <<"upstream", i>> \in g.got
    <3>1. i \in 1..Len(U)
      BY <1>1, <1>2
    <3>2. U[i]
      BY <2>2, <3>1 DEF Longer
    <3> QED BY <3>2 DEF PageHolds, Skips
  <2> QED BY <2>1, <2>2 DEF PageHolds, Skips
<1>6. Misses(C, g) => Misses(D, g)
  <2> SUFFICES ASSUME Misses(C, g), g.at = "drawn", NEW i \in DOMAIN D, Due(D, i), i \notin g.seen
               PROVE  Waits(g, i)
    BY DEF Misses
  <2>1. CASE i \in 1..Len(C)
    BY <1>1, <2>1, DueBefore DEF Misses
  <2>2. CASE i \notin 1..Len(C)
    BY <1>1, <1>2, <2>2 DEF Waits
  <2> QED BY <2>1, <2>2
<1> QED BY <1>3, <1>4, <1>5, <1>6 DEF PageHolds

-----------------------------------------------------------------------------
(* What a stream gets. *)

\* An event with a change, or with cursors only, leads to its cursors.
LEMMA ChangeLeads ==
  ASSUME NEW C \in Seq(ChangeRow), NEW U, Len(U) \in Nat, NEW b \in Nat, b <= Len(U),
         NEW x \in Nat, NEW y \in 1..Len(C), x < y, NEW e \in EventRow, e.id = <<y, b>>,
         e.row = <<"change", y>> \/ e.row = <<"cursor", 0>>,
         \A j \in (x + 1)..y : Due(C, j) => e.row = <<"change", j>>
  PROVE  Leads(C, U, <<x, b>>, e)
<1> DEFINE from == <<x, b>>
<1>1. /\ from[1] = x /\ from[2] = b /\ e.id[1] = y /\ e.id[2] = b /\ e.row[1] # "upstream"
      /\ (e.row[1] = "change" => e.row[2] = y) /\ Len(C) \in Nat
  OBVIOUS
<1>2. \A j \in (b + 1)..b : FALSE
  OBVIOUS
<1> HIDE DEF from
<1>3. Leads(C, U, from, e)
  BY <1>1, <1>2 DEF Leads
<1> QED BY <1>3 DEF from

LEMMA UpstreamLeads ==
  ASSUME NEW C \in Seq(ChangeRow), NEW U, Len(U) \in Nat, NEW c \in Nat, c <= Len(C),
         NEW x \in Nat, NEW y \in 1..Len(U), x < y, NEW e \in EventRow, e.id = <<c, y>>,
         e.row = <<"upstream", y>> \/ e.row = <<"cursor", 0>>,
         \A j \in (x + 1)..y : U[j] => e.row = <<"upstream", j>>
  PROVE  Leads(C, U, <<c, x>>, e)
<1> DEFINE from == <<c, x>>
<1>1. /\ from[1] = c /\ from[2] = x /\ e.id[1] = c /\ e.id[2] = y /\ e.row[1] # "change"
      /\ (e.row[1] = "upstream" => e.row[2] = y) /\ Len(C) \in Nat
  OBVIOUS
<1>2. \A j \in (c + 1)..c : FALSE
  OBVIOUS
<1> HIDE DEF from
<1>3. Leads(C, U, from, e)
  BY <1>1, <1>2 DEF Leads
<1> QED BY <1>3 DEF from

\* The rows of a request after a cursor, of those there are to get.
Got(S, after, rows) ==
    \E all \in SUBSET S : /\ \A i \in S : i \in all <=> i > after
                          /\ rows = {} \/ rows = FirstOf(all)

\* Each row's event has its cursors.
NamesChanges(C, b, id)  == \A i \in DOMAIN C : id[i] = <<i, b>>
NamesUpstream(U, c, id) == \A i \in DOMAIN U : id[i] = <<c, i>>
Seen(C, seen) == \A i \in DOMAIN C : seen[i] = C[i].shown

\* With a row, a request gets all that come before it.
LEMMA GotIs ==
  ASSUME NEW n \in Nat, NEW S \in SUBSET (1..n), NEW after \in Nat, NEW rows, Got(S, after, rows)
  PROVE  /\ rows \in SUBSET Nat /\ IsFiniteSet(rows) /\ rows \subseteq S
         /\ \A i \in rows : after < i
         /\ \A i \in rows, j \in S : j < i /\ after < j => j \in rows
<1>1. S \in SUBSET Nat /\ IsFiniteSet(1..n)
  BY FS_Interval
<1>2. PICK all \in SUBSET S : /\ \A i \in S : i \in all <=> i > after
                              /\ rows = {} \/ rows = FirstOf(all)
  BY DEF Got
<1>3. all \in SUBSET Nat /\ IsFiniteSet(all)
  BY <1>1, <1>2, FS_Subset
<1>4. /\ rows \in SUBSET Nat /\ IsFiniteSet(rows) /\ rows \subseteq all
      /\ \A i \in rows, j \in all : j < i => j \in rows
  <2>1. CASE rows = {}
    BY <2>1, FS_EmptySet
  <2>2. CASE rows = FirstOf(all)
    BY <1>3, <2>2, FirstOfIs
  <2> QED BY <1>2, <2>1, <2>2
<1>5. \A i \in S : i \in Nat /\ (i \in all <=> after < i)
  <2> SUFFICES ASSUME NEW i \in S PROVE i \in Nat /\ (i \in all <=> after < i)
    OBVIOUS
  <2>1. i \in Nat
    BY <1>1
  <2>2. i > after <=> after < i
    BY <2>1
  <2> QED BY <1>2, <2>1, <2>2
<1>6. rows \subseteq S /\ \A i \in rows : after < i
  BY <1>2, <1>4, <1>5
<1>7. \A i \in rows, j \in S : j < i /\ after < j => j \in rows
  BY <1>4, <1>5
<1> QED BY <1>4, <1>6, <1>7

LEMMA LogIs ==
  ASSUME NEW T, NEW Q \in Seq(T)
  PROVE  Len(Q) \in Nat /\ DOMAIN Q = 1..Len(Q)
OBVIOUS

\* The changes of one request lead from the stream's cursor to its new one.
LEMMA ChangesLead ==
  ASSUME NEW C \in Seq(ChangeRow), NEW U, NEW S \in SUBSET DOMAIN C, InTurn(C, S),
         NEW at \in Nat \X Nat, at[1] <= Len(C), at[2] <= Len(U), Len(U) \in Nat,
         NEW rows, Got(S, at[1], rows), NEW seen, Seen(C, seen), NEW id, NamesChanges(C, at[2], id),
         NEW P, P = Events("change", rows, seen, id)
  PROVE  /\ P \in Seq(EventRow) /\ Chain(C, U, at, P, <<NewCursor(rows, at[1]), at[2]>>)
         /\ NewCursor(rows, at[1]) \in Nat /\ NewCursor(rows, at[1]) <= Len(C)
<1> DEFINE a == at[1]
           b == at[2]
           c == NewCursor(rows, a)
<1>1. /\ a \in Nat /\ b \in Nat /\ at = <<a, b>> /\ Len(C) \in Nat /\ DOMAIN C = 1..Len(C)
  BY LogIs
<1>3. /\ rows \in SUBSET Nat /\ IsFiniteSet(rows) /\ rows \subseteq S
      /\ \A i \in rows : a < i
      /\ \A i \in rows, j \in S : j < i /\ a < j => j \in rows
  <2>1. S \in SUBSET (1..Len(C)) /\ Got(S, a, rows)
    BY <1>1
  <2> HIDE DEF a
  <2> QED BY <1>1, <2>1, GotIs
<1>4. \A i \in rows : i \in DOMAIN C /\ a < i /\ i \in S
  BY <1>3
<1>5. \A i \in DOMAIN C : id[i] = <<i, b>> /\ seen[i] = C[i].shown
  BY DEF Seen, NamesChanges
<1>6. \A i \in rows : id[i] \in Nat \X Nat
  BY <1>1, <1>4, <1>5
<1>7. P \in Seq(EventRow) /\ \E pos \in [0..Len(P) -> Nat] : Placed("change", rows, seen, id, a, P, pos)
  <2>2. a \in Nat /\ (\A i \in rows : a < i) /\ "change" \in {"change", "upstream"}
    BY <1>1, <1>4
  <2> HIDE DEF a
  <2>3. /\ Events("change", rows, seen, id) \in Seq(EventRow)
        /\ \E pos \in [0..Len(Events("change", rows, seen, id)) -> Nat] :
                Placed("change", rows, seen, id, a, Events("change", rows, seen, id), pos)
    BY <1>3, <1>6, <2>2, EventsAre
  <2> QED BY <2>3
<1>8. PICK pos \in [0..Len(P) -> Nat] : Placed("change", rows, seen, id, a, P, pos)
  BY <1>7
<1>9. c \in Nat /\ c <= Len(C)
  <2>1. c \in Nat /\ (rows = {} => c = a) /\ (rows # {} => c \in rows)
    BY <1>1, <1>3, <1>4, NewCursorIs
  <2> QED BY <1>1, <1>4, <2>1
<1> HIDE DEF c
<1>10. Len(P) \in Nat /\ \A n \in 1..(Len(P) + 1) : Before(at, P, n) = <<pos[n - 1], b>>
  <2>1. Len(P) \in Nat
    BY <1>7
  <2> SUFFICES ASSUME NEW n \in 1..(Len(P) + 1) PROVE Before(at, P, n) = <<pos[n - 1], b>>
    BY <2>1
  <2>2. CASE n = 1
    BY <1>1, <1>8, <2>2 DEF Before, Placed
  <2>3. CASE n # 1
    <3>1. n - 1 \in 1..Len(P)
      BY <2>1, <2>3
    <3>2. P[n - 1].id = id[pos[n - 1]] /\ pos[n - 1] \in rows
      BY <1>8, <3>1 DEF Placed
    <3> QED BY <1>4, <1>5, <2>3, <3>2 DEF Before
  <2> QED BY <2>2, <2>3
<1>11. ASSUME NEW n \in 1..Len(P) PROVE Leads(C, U, <<pos[n - 1], b>>, P[n])
  <2>1. /\ pos[n - 1] < pos[n] /\ pos[n] \in rows /\ P[n].id = id[pos[n]]
        /\ \/ P[n].row = <<"change", pos[n]>> /\ seen[pos[n]]
           \/ P[n].row = <<"cursor", 0>> /\ ~seen[pos[n]]
        /\ \A j \in rows : seen[j] /\ pos[n - 1] < j /\ j <= pos[n] => j = pos[n]
    BY <1>8 DEF Placed
  <2>2. /\ pos[n] \in DOMAIN C /\ pos[n] \in S /\ P[n].id = <<pos[n], b>>
        /\ pos[n] \in Nat /\ n - 1 \in 0..Len(P)
    <3>1. pos[n] \in DOMAIN C /\ pos[n] \in S
      BY <1>4, <2>1
    <3>2. P[n].id = <<pos[n], b>>
      BY <1>5, <2>1, <3>1
    <3>3. n \in 0..Len(P) /\ n - 1 \in 0..Len(P)
      BY <1>10
    <3> QED BY <3>1, <3>2, <3>3
  <2>3. pos[n - 1] \in Nat
    BY <2>2
  <2>9. a <= pos[n - 1]
    <3>1. CASE n = 1
      BY <1>1, <1>8, <3>1 DEF Placed
    <3>2. CASE n # 1
      <4>1. n - 1 \in 1..Len(P)
        BY <1>10, <3>2
      <4>2. pos[n - 1] \in rows
        BY <1>8, <4>1 DEF Placed
      <4> QED BY <1>1, <1>4, <2>3, <4>2
    <3> QED BY <3>1, <3>2
  <2>4. ASSUME NEW j \in (pos[n - 1] + 1)..pos[n], Due(C, j) PROVE P[n].row = <<"change", j>>
    <3>1. j \in Nat /\ a < j /\ pos[n - 1] < j /\ j <= pos[n] /\ j \in DOMAIN C
      BY <1>1, <2>2, <2>3, <2>9
    <3>2. j \in rows
      <4> SUFFICES ASSUME j \notin rows PROVE FALSE
        OBVIOUS
      <4>1. j < pos[n] /\ j \in 1..(pos[n] - 1)
        BY <2>1, <2>2, <3>1
      <4>3. j \notin S
        BY <1>3, <2>1, <3>1, <4>1
      <4>4. C[j].era < C[pos[n]].era
        BY <2>2, <4>1, <4>3 DEF InTurn
      <4>5. C[pos[n]] \in ChangeRow /\ C[j] \in ChangeRow
        BY <2>2, <3>1
      <4>6. C[pos[n]].era > C[j].era
        BY <4>4, <4>5 DEF ChangeRow
      <4>7. Late(C, j)
        BY <2>2, <3>1, <4>1, <4>6 DEF Late
      <4> QED BY <2>4, <4>7 DEF Due
    <3>3. seen[j]
      BY <1>5, <2>4, <3>1 DEF Due
    <3>4. j = pos[n]
      BY <2>1, <3>1, <3>2, <3>3
    <3> QED BY <2>1, <3>3, <3>4
  <2>5. pos[n] \in 1..Len(C) /\ P[n] \in EventRow
    BY <1>1, <1>7, <2>2
  <2>6. P[n].row = <<"change", pos[n]>> \/ P[n].row = <<"cursor", 0>>
    BY <2>1
  <2> QED BY <1>1, <2>1, <2>2, <2>3, <2>4, <2>5, <2>6, ChangeLeads
<1>12. Chain(C, U, at, P, <<c, b>>)
  <2>1. \A n \in 1..Len(P) : n \in 1..(Len(P) + 1)
    BY <1>10
  <2>2. Len(P) + 1 \in 1..(Len(P) + 1) /\ (Len(P) + 1) - 1 = Len(P)
    BY <1>10
  <2>3. pos[Len(P)] = c
    BY <1>8 DEF Placed, c
  <2> QED BY <1>10, <1>11, <2>1, <2>2, <2>3 DEF Chain
<1> QED BY <1>7, <1>9, <1>12 DEF c

\* And so do the upstream rows.
LEMMA UpstreamLead ==
  ASSUME NEW C \in Seq(ChangeRow), NEW U \in Seq(BOOLEAN), NEW c \in Nat, c <= Len(C),
         NEW after \in Nat, after <= Len(U),
         NEW rows, Got(DOMAIN U, after, rows), NEW id, NamesUpstream(U, c, id),
         NEW P, P = Events("upstream", rows, U, id)
  PROVE  /\ P \in Seq(EventRow) /\ Chain(C, U, <<c, after>>, P, <<c, NewCursor(rows, after)>>)
         /\ NewCursor(rows, after) \in Nat /\ NewCursor(rows, after) <= Len(U)
<1> DEFINE at == <<c, after>>
           u == NewCursor(rows, after)
<1>1. Len(U) \in Nat /\ DOMAIN U = 1..Len(U)
  BY LogIs
<1>3. /\ rows \in SUBSET Nat /\ IsFiniteSet(rows) /\ rows \subseteq DOMAIN U
      /\ \A i \in rows : after < i
      /\ \A i \in rows, j \in DOMAIN U : j < i /\ after < j => j \in rows
  <2> DEFINE S == DOMAIN U
  <2>1. S \in SUBSET (1..Len(U)) /\ Got(S, after, rows)
    BY <1>1
  <2> HIDE DEF S
  <2>2. /\ rows \in SUBSET Nat /\ IsFiniteSet(rows) /\ rows \subseteq S
        /\ \A i \in rows : after < i
        /\ \A i \in rows, j \in S : j < i /\ after < j => j \in rows
    BY <1>1, <2>1, GotIs
  <2> QED BY <2>2 DEF S
<1>4. \A i \in rows : i \in DOMAIN U /\ after < i
  BY <1>3
<1>5. \A i \in DOMAIN U : id[i] = <<c, i>>
  BY DEF NamesUpstream
<1>6. \A i \in rows : id[i] \in Nat \X Nat
  <2> SUFFICES ASSUME NEW i \in rows PROVE id[i] \in Nat \X Nat
    OBVIOUS
  <2>1. i \in Nat /\ id[i] = <<c, i>>
    BY <1>3, <1>4, <1>5
  <2>2. <<c, i>> \in Nat \X Nat
    BY <2>1
  <2> QED BY <2>1, <2>2, Zenon
<1>7. P \in Seq(EventRow) /\ \E pos \in [0..Len(P) -> Nat] : Placed("upstream", rows, U, id, after, P, pos)
  <2>2. (\A i \in rows : after < i) /\ "upstream" \in {"change", "upstream"}
    BY <1>1, <1>4
  <2>3. /\ Events("upstream", rows, U, id) \in Seq(EventRow)
        /\ \E pos \in [0..Len(Events("upstream", rows, U, id)) -> Nat] :
                Placed("upstream", rows, U, id, after, Events("upstream", rows, U, id), pos)
    BY <1>3, <1>6, <2>2, EventsAre
  <2> QED BY <2>3
<1>8. PICK pos \in [0..Len(P) -> Nat] : Placed("upstream", rows, U, id, after, P, pos)
  BY <1>7
<1>9. u \in Nat /\ u <= Len(U)
  <2>1. u \in Nat /\ (rows = {} => u = after) /\ (rows # {} => u \in rows)
    BY <1>1, <1>3, <1>4, NewCursorIs
  <2> QED BY <1>1, <1>4, <2>1
<1> HIDE DEF u
<1>10. Len(P) \in Nat /\ \A n \in 1..(Len(P) + 1) : Before(at, P, n) = <<c, pos[n - 1]>>
  <2>1. Len(P) \in Nat
    BY <1>7
  <2> SUFFICES ASSUME NEW n \in 1..(Len(P) + 1) PROVE Before(at, P, n) = <<c, pos[n - 1]>>
    BY <2>1
  <2>2. CASE n = 1
    BY <1>1, <1>8, <2>2 DEF Before, Placed
  <2>3. CASE n # 1
    <3>1. n - 1 \in 1..Len(P)
      BY <2>1, <2>3
    <3>2. P[n - 1].id = id[pos[n - 1]] /\ pos[n - 1] \in rows
      BY <1>8, <3>1 DEF Placed
    <3> QED BY <1>4, <1>5, <2>3, <3>2 DEF Before
  <2> QED BY <2>2, <2>3
<1>11. ASSUME NEW n \in 1..Len(P) PROVE Leads(C, U, <<c, pos[n - 1]>>, P[n])
  <2>1. /\ pos[n - 1] < pos[n] /\ pos[n] \in rows /\ P[n].id = id[pos[n]]
        /\ \/ P[n].row = <<"upstream", pos[n]>> /\ U[pos[n]]
           \/ P[n].row = <<"cursor", 0>> /\ ~U[pos[n]]
        /\ \A j \in rows : U[j] /\ pos[n - 1] < j /\ j <= pos[n] => j = pos[n]
    BY <1>8 DEF Placed
  <2>2. /\ pos[n] \in DOMAIN U /\ pos[n] \in Nat /\ P[n].id = <<c, pos[n]>>
        /\ n - 1 \in 0..Len(P)
    <3>1. pos[n] \in DOMAIN U
      BY <1>4, <2>1
    <3>2. P[n].id = <<c, pos[n]>>
      BY <1>5, <2>1, <3>1
    <3>3. n \in 0..Len(P) /\ n - 1 \in 0..Len(P)
      BY <1>10
    <3> QED BY <3>1, <3>2, <3>3
  <2>3. pos[n - 1] \in Nat
    BY <2>2
  <2>9. after <= pos[n - 1]
    <3>1. CASE n = 1
      BY <1>1, <1>8, <3>1 DEF Placed
    <3>2. CASE n # 1
      <4>1. n - 1 \in 1..Len(P)
        BY <1>10, <3>2
      <4>2. pos[n - 1] \in rows
        BY <1>8, <4>1 DEF Placed
      <4> QED BY <1>1, <1>4, <2>3, <4>2
    <3> QED BY <3>1, <3>2
  <2>4. ASSUME NEW j \in (pos[n - 1] + 1)..pos[n], U[j] PROVE P[n].row = <<"upstream", j>>
    <3>1. j \in Nat /\ after < j /\ pos[n - 1] < j /\ j <= pos[n] /\ j \in DOMAIN U
      BY <1>1, <2>2, <2>3, <2>9
    <3>2. j < pos[n] \/ j = pos[n]
      BY <2>2, <3>1
    <3>3. j \in rows
      BY <1>3, <2>1, <3>1, <3>2
    <3>4. j = pos[n]
      BY <2>1, <2>4, <3>1, <3>3
    <3> QED BY <2>1, <2>4, <3>4
  <2>5. pos[n] \in 1..Len(U) /\ P[n] \in EventRow
    BY <1>1, <1>7, <2>2
  <2>6. P[n].row = <<"upstream", pos[n]>> \/ P[n].row = <<"cursor", 0>>
    BY <2>1
  <2> QED BY <1>1, <2>1, <2>2, <2>3, <2>4, <2>5, <2>6, UpstreamLeads
<1>12. Chain(C, U, at, P, <<c, u>>)
  <2>1. \A n \in 1..Len(P) : n \in 1..(Len(P) + 1)
    BY <1>10
  <2>2. Len(P) + 1 \in 1..(Len(P) + 1) /\ (Len(P) + 1) - 1 = Len(P)
    BY <1>10
  <2>3. pos[Len(P)] = u
    BY <1>8 DEF Placed, u
  <2> QED BY <1>10, <1>11, <2>1, <2>2, <2>3 DEF Chain
<1> QED BY <1>7, <1>9, <1>12 DEF u

-----------------------------------------------------------------------------
(* The invariant.                                                             *)

FeedInv ==
    /\ FeedTypeOK
    /\ InTurn(changes, settled)
    /\ Lead(changes, upstream, tails, pages)
    /\ \A p \in Page : PageHolds(changes, upstream, p, pages[p])

LEMMA Typed ==
  ASSUME FeedTypeOK
  PROVE  /\ changes \in Seq(ChangeRow) /\ upstream \in Seq(BOOLEAN)
         /\ Len(changes) \in Nat /\ Len(upstream) \in Nat
         /\ DOMAIN changes = 1..Len(changes) /\ DOMAIN upstream = 1..Len(upstream)
         /\ \A p \in Page : pages[p] \in PageRow
         /\ \A s \in Stream : tails[s] # None => tails[s] \in TailRow
         /\ None \notin Stream
<1>1. changes \in Seq(ChangeRow) /\ upstream \in Seq(BOOLEAN)
  BY DEF FeedTypeOK, ChangeRow
<1>2. None \notin Stream
  BY ChangeFeedAssumption DEF Stream
<1> QED BY <1>1, <1>2 DEF FeedTypeOK

LEMMA InvInit ==
  ASSUME NEW opened \in SUBSET Page, FeedInit(opened)
  PROVE  FeedInv
<1> DEFINE shut == [BlankPage EXCEPT !.at = "shut"]
<1>1. BlankPage \in PageRow /\ shut \in PageRow
  BY DEF BlankPage, PageRow
<1>2. \A p \in Page : pages[p] = BlankPage \/ pages[p] = shut
  BY DEF FeedInit
<1>3. pages \in [Page -> PageRow]
  BY <1>1 DEF FeedInit
<1>4. \A p \in Page : /\ pages[p].seen = {} /\ pages[p].conn = None /\ pages[p].got = {}
                      /\ pages[p].at # "drawn" /\ pages[p].start = <<0, 0>> /\ pages[p].id = <<0, 0>>
                      /\ ~pages[p].twice /\ pages[p].fetches = {} /\ pages[p].marked = {}
  BY <1>2 DEF BlankPage
<1>5. changes = <<>> /\ upstream = <<>> /\ Len(changes) = 0 /\ Len(upstream) = 0
  BY DEF FeedInit
<1>6. FeedTypeOK
  <2>1. changes \in Seq([shown : BOOLEAN, era : 0..SetBacks]) /\ upstream \in Seq(BOOLEAN)
    BY <1>5
  <2>2. era \in 0..SetBacks /\ breaks \in 0..Breaks /\ settled \subseteq DOMAIN changes
    BY ChangeFeedAssumption DEF FeedInit
  <2>3. tails \in [Stream -> TailRow \cup {None}] /\ \A s \in Stream : tails[s] = None
    BY DEF FeedInit
  <2>4. \A p \in Page : pages[p].conn \notin Stream
    BY <1>4, ChangeFeedAssumption DEF Stream
  <2> QED BY <1>3, <1>4, <2>1, <2>2, <2>3, <2>4 DEF FeedTypeOK
<1>7. InTurn(changes, settled)
  BY DEF InTurn, FeedInit
<1>8. Lead(changes, upstream, tails, pages)
  BY DEF Lead, FeedInit
<1>9. ASSUME NEW p \in Page PROVE PageHolds(changes, upstream, p, pages[p])
  <2>1. /\ pages[p].start[1] = 0 /\ pages[p].start[2] = 0 /\ pages[p].id[1] = 0
        /\ pages[p].id[2] = 0
    BY <1>4
  <2>2. Follows(changes, upstream, pages[p])
    BY <1>4, <1>5, <2>1 DEF Follows
  <2>3. Redraws(changes, p, pages[p])
    BY <1>4 DEF Redraws
  <2>4. Skips(changes, upstream, pages[p])
    <3>1. \A i \in (0 + 1)..0 : FALSE
      OBVIOUS
    <3> QED BY <1>4, <2>1, <3>1 DEF Skips
  <2>5. Misses(changes, pages[p])
    BY <1>4 DEF Misses
  <2> QED BY <2>2, <2>3, <2>4, <2>5 DEF PageHolds
<1> QED BY <1>6, <1>7, <1>8, <1>9 DEF FeedInv

-----------------------------------------------------------------------------
(* Steps of the logs and of the streams. *)

\* Logs that grow, and changes that settle in turn, leave the rest as it is.
LEMMA LogsGrow ==
  ASSUME FeedInv, UNCHANGED <<tails, pages, breaks>>,
         changes' \in Seq(ChangeRow), Longer(changes, changes'),
         upstream' \in Seq(BOOLEAN), Longer(upstream, upstream'),
         era' \in 0..SetBacks, settled' \subseteq DOMAIN changes', InTurn(changes', settled')
  PROVE  FeedInv'
<1>1. FeedTypeOK /\ InTurn(changes, settled) /\ Lead(changes, upstream, tails, pages)
  BY DEF FeedInv
<1>2. /\ changes \in Seq(ChangeRow) /\ upstream \in Seq(BOOLEAN)
      /\ Len(changes) \in Nat /\ Len(upstream) \in Nat
      /\ Len(changes') \in Nat /\ Len(upstream') \in Nat
      /\ Len(changes) <= Len(changes') /\ Len(upstream) <= Len(upstream')
      /\ DOMAIN changes = 1..Len(changes) /\ DOMAIN changes' = 1..Len(changes')
      /\ \A p \in Page : pages[p] \in PageRow
      /\ \A s \in Stream : tails[s] # None => tails[s] \in TailRow
  BY <1>1, Typed DEF Longer
<1>3. DOMAIN changes \subseteq DOMAIN changes'
  BY <1>2
<1>4. FeedTypeOK'
  <2>1. \A p \in Page : pages'[p].seen \subseteq DOMAIN changes'
    BY <1>1, <1>3 DEF FeedTypeOK
  <2>2. \A s \in Stream : tails'[s] # None =>
            tails'[s].at[1] <= Len(changes') /\ tails'[s].at[2] <= Len(upstream')
    <3> SUFFICES ASSUME NEW s \in Stream, tails[s] # None
                 PROVE  tails[s].at[1] <= Len(changes') /\ tails[s].at[2] <= Len(upstream')
      OBVIOUS
    <3>1. tails[s].at[1] \in Nat /\ tails[s].at[2] \in Nat
      BY <1>2 DEF TailRow
    <3>2. tails[s].at[1] <= Len(changes) /\ tails[s].at[2] <= Len(upstream)
      BY <1>1 DEF FeedTypeOK
    <3> QED BY <1>2, <3>1, <3>2
  <2>3. changes' \in Seq([shown : BOOLEAN, era : 0..SetBacks])
    BY DEF ChangeRow
  <2> QED BY <1>1, <2>1, <2>2, <2>3 DEF FeedTypeOK
<1>5. Lead(changes', upstream', tails', pages')
  <2> SUFFICES ASSUME NEW s \in Stream, tails[s] # None, pages[tails[s].page].conn = s
               PROVE  Chain(changes', upstream', pages[tails[s].page].id, tails[s].pending, tails[s].at)
    BY DEF Lead
  <2>1. tails[s].page \in Page /\ tails[s].pending \in Seq(EventRow)
    BY <1>2 DEF TailRow
  <2>2. pages[tails[s].page].id \in Nat \X Nat
    BY <1>2, <2>1 DEF PageRow
  <2>3. Chain(changes, upstream, pages[tails[s].page].id, tails[s].pending, tails[s].at)
    BY <1>1 DEF Lead
  <2> QED BY <1>2, <2>1, <2>2, <2>3, ChainOn
<1>6. ASSUME NEW p \in Page PROVE PageHolds(changes', upstream', p, pages'[p])
  <2>1. pages[p] \in PageRow /\ pages' = pages
    BY <1>2
  <2>2. PageHolds(changes, upstream, p, pages[p])
    BY DEF FeedInv
  <2> QED BY <1>2, <2>1, <2>2, PageOn
<1> QED BY <1>4, <1>5, <1>6 DEF FeedInv

LEMMA SameIsLonger ==
  ASSUME NEW T, NEW C \in Seq(T)
  PROVE  Longer(C, C)
BY DEF Longer

LEMMA AppendedIsLonger ==
  ASSUME NEW T, NEW C \in Seq(T), NEW x \in T
  PROVE  /\ Append(C, x) \in Seq(T) /\ Longer(C, Append(C, x))
         /\ DOMAIN C \subseteq DOMAIN Append(C, x)
BY DEF Longer

LEMMA WriteKeeps ==
  ASSUME FeedInv, NEW shown \in BOOLEAN, Write(shown)
  PROVE  FeedInv'
<1>1. /\ changes \in Seq(ChangeRow) /\ upstream \in Seq(BOOLEAN) /\ DOMAIN changes = 1..Len(changes)
      /\ Len(changes) \in Nat /\ era \in 0..SetBacks /\ settled \subseteq DOMAIN changes
      /\ InTurn(changes, settled)
  BY Typed DEF FeedInv, FeedTypeOK
<1> DEFINE x == [shown |-> shown, era |-> era]
<1>2. x \in ChangeRow
  BY <1>1 DEF ChangeRow
<1>3. changes' = Append(changes, x) /\ UNCHANGED <<upstream, era, settled, tails, pages, breaks>>
  BY DEF Write
<1> HIDE DEF x
<1>4. /\ changes' \in Seq(ChangeRow) /\ Longer(changes, changes')
      /\ DOMAIN changes \subseteq DOMAIN changes'
  BY <1>1, <1>2, <1>3, AppendedIsLonger
<1>5. InTurn(changes', settled')
  <2> SUFFICES ASSUME NEW i \in settled, NEW j \in 1..(i - 1)
               PROVE  j \in settled \/ changes'[j].era < changes'[i].era
    BY <1>3 DEF InTurn
  <2>1. i \in 1..Len(changes) /\ j \in 1..Len(changes)
    BY <1>1
  <2>2. changes'[i] = changes[i] /\ changes'[j] = changes[j]
    BY <1>4, <2>1 DEF Longer
  <2> QED BY <1>1, <2>2 DEF InTurn
<1>6. Longer(upstream, upstream') /\ upstream' \in Seq(BOOLEAN)
  BY <1>1, <1>3, SameIsLonger
<1> QED BY <1>1, <1>3, <1>4, <1>5, <1>6, LogsGrow

LEMMA LogKeeps ==
  ASSUME FeedInv, NEW shown \in BOOLEAN, Log(shown)
  PROVE  FeedInv'
<1>1. /\ changes \in Seq(ChangeRow) /\ upstream \in Seq(BOOLEAN)
      /\ era \in 0..SetBacks /\ settled \subseteq DOMAIN changes /\ InTurn(changes, settled)
  BY Typed DEF FeedInv, FeedTypeOK
<1>2. upstream' = Append(upstream, shown) /\ UNCHANGED <<changes, era, settled, tails, pages, breaks>>
  BY DEF Log
<1>3. upstream' \in Seq(BOOLEAN) /\ Longer(upstream, upstream')
  BY <1>1, <1>2, AppendedIsLonger
<1>4. Longer(changes, changes')
  BY <1>1, <1>2, SameIsLonger
<1> QED BY <1>1, <1>2, <1>3, <1>4, LogsGrow

LEMMA SettleKeeps ==
  ASSUME FeedInv, NEW i \in DOMAIN changes, Settle(i)
  PROVE  FeedInv'
<1>1. /\ changes \in Seq(ChangeRow) /\ upstream \in Seq(BOOLEAN)
      /\ era \in 0..SetBacks /\ settled \subseteq DOMAIN changes /\ InTurn(changes, settled)
  BY Typed DEF FeedInv, FeedTypeOK
<1>2. settled' = settled \cup {i} /\ UNCHANGED <<changes, upstream, era, tails, pages, breaks>>
  BY DEF Settle
<1>3. InTurn(changes', settled')
  BY <1>1, <1>2 DEF InTurn, Settle
<1>4. Longer(changes, changes') /\ Longer(upstream, upstream')
  BY <1>1, <1>2, SameIsLonger
<1> QED BY <1>1, <1>2, <1>3, <1>4, LogsGrow

LEMMA SetBackKeeps ==
  ASSUME FeedInv, SetBack
  PROVE  FeedInv'
<1>1. /\ changes \in Seq(ChangeRow) /\ upstream \in Seq(BOOLEAN)
      /\ era \in 0..SetBacks /\ settled \subseteq DOMAIN changes /\ InTurn(changes, settled)
  BY Typed DEF FeedInv, FeedTypeOK
<1>2. /\ era' = era + 1 /\ era < SetBacks
      /\ UNCHANGED <<changes, upstream, settled, tails, pages, breaks>>
  BY DEF SetBack
<1>3. era' \in 0..SetBacks
  BY <1>1, <1>2, ChangeFeedAssumption
<1>4. Longer(changes, changes') /\ Longer(upstream, upstream')
  BY <1>1, <1>2, SameIsLonger
<1> QED BY <1>1, <1>2, <1>3, <1>4, LogsGrow

\* A stream that has sent all it had gets more from where it is.
LEMMA FillKeeps ==
  ASSUME FeedInv, NEW s \in Stream,
         NEW logs \in {{"changes"}, {"upstream"}, {"changes", "upstream"}}, Fill(s, logs)
  PROVE  FeedInv'
<1> DEFINE at == tails[s].at
           newC == IF "changes" \in logs THEN ChangesSince(at[1]) ELSE {}
           newU == IF "upstream" \in logs THEN UpstreamSince(at[2]) ELSE {}
           c == NewCursor(newC, at[1])
           u == NewCursor(newU, at[2])
           seen == [i \in DOMAIN changes |-> changes[i].shown]
           idC == [i \in DOMAIN changes |-> <<i, at[2]>>]
           idU == [i \in DOMAIN upstream |-> <<c, i>>]
           ofC == Events("change", newC, seen, idC)
           ofU == Events("upstream", newU, upstream, idU)
           allC == {i \in settled : i > at[1]}
           allU == {i \in DOMAIN upstream : i > at[2]}
           t == [tails[s] EXCEPT !.at = <<c, u>>, !.pending = ofC \o ofU]
<1>1. FeedTypeOK /\ InTurn(changes, settled) /\ Lead(changes, upstream, tails, pages)
  BY DEF FeedInv
<1>2. /\ changes \in Seq(ChangeRow) /\ upstream \in Seq(BOOLEAN)
      /\ Len(changes) \in Nat /\ Len(upstream) \in Nat
      /\ \A p \in Page : pages[p] \in PageRow
      /\ settled \subseteq DOMAIN changes
  BY <1>1, Typed DEF FeedTypeOK
<1>3. /\ tails[s] # None /\ tails[s] \in TailRow /\ tails[s].pending = <<>>
      /\ at[1] <= Len(changes) /\ at[2] <= Len(upstream)
      /\ tails \in [Stream -> TailRow \cup {None}]
  BY <1>1, Typed DEF Fill, FeedTypeOK
<1>4. at \in Nat \X Nat /\ tails[s].page \in Page
  BY <1>3 DEF TailRow
<1>14. at[1] \in Nat /\ at[2] \in Nat /\ at = <<at[1], at[2]>>
  BY <1>4
<1>5. tails' = [tails EXCEPT ![s] = t] /\ UNCHANGED <<changes, upstream, era, settled, pages, breaks>>
  BY DEF Fill
<1> HIDE DEF at
<1>6. Got(settled, at[1], newC) /\ Seen(changes, seen) /\ NamesChanges(changes, at[2], idC)
  <2>1. allC \in SUBSET settled /\ \A i \in settled : i \in allC <=> i > at[1]
    OBVIOUS
  <2>2. newC = {} \/ newC = FirstOf(allC)
    BY DEF ChangesSince
  <2> HIDE DEF allC, newC
  <2>3. Got(settled, at[1], newC)
    BY <2>1, <2>2 DEF Got
  <2> QED BY <2>3 DEF Seen, NamesChanges
<1>7. Got(DOMAIN upstream, at[2], newU) /\ NamesUpstream(upstream, c, idU)
  <2>1. allU \in SUBSET DOMAIN upstream /\ \A i \in DOMAIN upstream : i \in allU <=> i > at[2]
    OBVIOUS
  <2>2. newU = {} \/ newU = FirstOf(allU)
    BY DEF UpstreamSince
  <2> HIDE DEF allU, newU
  <2>3. Got(DOMAIN upstream, at[2], newU)
    BY <2>1, <2>2 DEF Got
  <2> QED BY <2>3 DEF NamesUpstream
<1> HIDE DEF newC, newU, allC, allU, seen, idC, idU
<1>8. /\ ofC \in Seq(EventRow) /\ Chain(changes, upstream, at, ofC, <<c, at[2]>>)
      /\ c \in Nat /\ c <= Len(changes)
  BY <1>1, <1>2, <1>3, <1>4, <1>6, ChangesLead
<1> HIDE DEF c, ofC
<1>9. /\ ofU \in Seq(EventRow) /\ Chain(changes, upstream, <<c, at[2]>>, ofU, <<c, u>>)
      /\ u \in Nat /\ u <= Len(upstream)
  BY <1>2, <1>3, <1>14, <1>7, <1>8, UpstreamLead
<1> HIDE DEF u, ofU
<1>10. ofC \o ofU \in Seq(EventRow) /\ Chain(changes, upstream, at, ofC \o ofU, <<c, u>>)
  BY <1>8, <1>9, ChainJoin
<1>11. /\ t \in TailRow /\ t # None /\ t.page = tails[s].page /\ t.at = <<c, u>>
       /\ t.at[1] = c /\ t.at[2] = u /\ t.pending = ofC \o ofU
  <2>1. t \in TailRow
    BY <1>3, <1>8, <1>9, <1>10 DEF TailRow
  <2>2. t.page = tails[s].page /\ t.at = <<c, u>> /\ t.pending = ofC \o ofU
    BY <1>3 DEF TailRow
  <2> QED BY <2>1, <2>2, ChangeFeedAssumption
<1> HIDE DEF t
<1>12. FeedTypeOK'
  <2>1. tails' \in [Stream -> TailRow \cup {None}] /\ tails'[s] = t
    BY <1>3, <1>5, <1>11
  <2>2. \A x \in Stream : x # s => tails'[x] = tails[x]
    BY <1>3, <1>5
  <2>3. \A x \in Stream : tails[x] # None => tails'[x] # None /\ tails'[x].page = tails[x].page
    BY <1>11, <2>1, <2>2
  <2>4. \A x \in Stream : tails'[x] # None =>
            tails'[x].at[1] <= Len(changes) /\ tails'[x].at[2] <= Len(upstream)
    BY <1>1, <1>8, <1>9, <1>11, <2>1, <2>2 DEF FeedTypeOK
  <2> QED BY <1>1, <1>5, <2>1, <2>3, <2>4 DEF FeedTypeOK
<1>13. Lead(changes', upstream', tails', pages')
  <2> SUFFICES ASSUME NEW x \in Stream, tails'[x] # None, pages[tails'[x].page].conn = x
               PROVE  Chain(changes, upstream, pages[tails'[x].page].id, tails'[x].pending, tails'[x].at)
    BY <1>5 DEF Lead
  <2>1. CASE x = s
    <3>1. tails'[x] = t
      BY <1>3, <1>5, <2>1
    <3>2. pages[tails[s].page].conn = s
      BY <1>11, <2>1, <3>1
    <3>3. Chain(changes, upstream, pages[tails[s].page].id, <<>>, at)
      BY <1>1, <1>3, <3>2 DEF Lead, at
    <3>4. pages[tails[s].page].id = at
      <4>1. Before(pages[tails[s].page].id, <<>>, Len(<<>>) + 1) = pages[tails[s].page].id
        BY DEF Before
      <4> QED BY <3>3, <4>1 DEF Chain
    <3> QED BY <1>10, <1>11, <3>1, <3>4
  <2>2. CASE x # s
    <3>1. tails'[x] = tails[x]
      BY <1>3, <1>5, <2>2
    <3> QED BY <1>1, <3>1 DEF Lead
  <2> QED BY <2>1, <2>2
<1> QED BY <1>1, <1>5, <1>12, <1>13 DEF FeedInv

LEMMA DropKeeps ==
  ASSUME FeedInv, NEW s \in Stream, Drop(s)
  PROVE  FeedInv'
<1>1. FeedTypeOK /\ InTurn(changes, settled) /\ Lead(changes, upstream, tails, pages)
  BY DEF FeedInv
<1>2. /\ tails' = [tails EXCEPT ![s] = None] /\ pages[tails[s].page].conn # s
      /\ UNCHANGED <<changes, upstream, era, settled, pages, breaks>>
      /\ tails \in [Stream -> TailRow \cup {None}]
  BY <1>1 DEF Drop, FeedTypeOK
<1>3. /\ tails' \in [Stream -> TailRow \cup {None}] /\ tails'[s] = None
      /\ \A x \in Stream : x # s => tails'[x] = tails[x]
  BY <1>2
<1>4. FeedTypeOK'
  <2>1. \A p \in Page : pages[p].conn # s
    BY <1>1, <1>2 DEF FeedTypeOK
  <2>2. \A p \in Page : pages[p].conn \in Stream =>
            tails'[pages[p].conn] # None /\ tails'[pages[p].conn].page = p
    BY <1>1, <1>3, <2>1 DEF FeedTypeOK
  <2>3. \A x \in Stream : tails'[x] # None =>
            tails'[x].at[1] <= Len(changes) /\ tails'[x].at[2] <= Len(upstream)
    BY <1>1, <1>3 DEF FeedTypeOK
  <2> QED BY <1>1, <1>2, <1>3, <2>2, <2>3 DEF FeedTypeOK
<1>5. Lead(changes', upstream', tails', pages')
  BY <1>1, <1>2, <1>3 DEF Lead
<1> QED BY <1>1, <1>2, <1>4, <1>5 DEF FeedInv

-----------------------------------------------------------------------------
(* Steps of one page. *)

\* A page that is where it was, or has no stream, and of which what must hold
\* still holds.
LEMMA PageMoves ==
  ASSUME FeedInv, NEW p \in Page, NEW g \in PageRow,
         pages' = [pages EXCEPT ![p] = g], UNCHANGED <<changes, upstream, era, settled, tails>>,
         breaks' \in 0..Breaks, g.seen \subseteq DOMAIN changes,
         (g.conn = pages[p].conn /\ g.id = pages[p].id) \/ g.conn \notin Stream,
         PageHolds(changes, upstream, p, g)
  PROVE  FeedInv'
<1>1. FeedTypeOK /\ InTurn(changes, settled) /\ Lead(changes, upstream, tails, pages)
  BY DEF FeedInv
<1>2. /\ pages \in [Page -> PageRow] /\ pages' \in [Page -> PageRow] /\ pages'[p] = g
      /\ \A q \in Page : q # p => pages'[q] = pages[q]
  BY <1>1 DEF FeedTypeOK
<1>3. FeedTypeOK'
  <2>1. \A q \in Page : pages'[q].seen \subseteq DOMAIN changes
    BY <1>1, <1>2 DEF FeedTypeOK
  <2>2. \A q \in Page : pages'[q].conn \in Stream =>
            tails[pages'[q].conn] # None /\ tails[pages'[q].conn].page = q
    BY <1>1, <1>2 DEF FeedTypeOK
  <2> QED BY <1>1, <1>2, <2>1, <2>2 DEF FeedTypeOK
<1>4. Lead(changes', upstream', tails', pages')
  <2> SUFFICES ASSUME NEW s \in Stream, tails[s] # None, pages'[tails[s].page].conn = s
               PROVE  Chain(changes, upstream, pages'[tails[s].page].id, tails[s].pending, tails[s].at)
    BY DEF Lead
  <2>1. tails[s].page \in Page
    BY <1>1, Typed DEF TailRow
  <2>2. pages[tails[s].page].conn = s /\ pages'[tails[s].page].id = pages[tails[s].page].id
    BY <1>2, <2>1
  <2> QED BY <1>1, <2>2 DEF Lead
<1>5. ASSUME NEW q \in Page PROVE PageHolds(changes', upstream', q, pages'[q])
  BY <1>2 DEF FeedInv
<1> QED BY <1>1, <1>3, <1>4, <1>5 DEF FeedInv

LEMMA PageFacts ==
  ASSUME FeedInv, NEW p \in Page
  PROVE  /\ pages[p] \in PageRow /\ pages[p].seen \subseteq DOMAIN changes
         /\ PageHolds(changes, upstream, p, pages[p]) /\ breaks \in 0..Breaks
BY Typed DEF FeedInv, FeedTypeOK

LEMMA TakeHeadsKeeps ==
  ASSUME FeedInv, NEW p \in Page, TakeHeads(p)
  PROVE  FeedInv'
<1> DEFINE g == [pages[p] EXCEPT !.at = IF @ = "away" THEN "heads" ELSE "drawn",
                                 !.start = Heads, !.id = Heads]
<1>1. /\ pages[p] \in PageRow /\ pages[p].seen \subseteq DOMAIN changes
      /\ PageHolds(changes, upstream, p, pages[p]) /\ breaks \in 0..Breaks
  BY PageFacts
<1>2. pages[p].at # "drawn" /\ (p \in PickPage => pages[p].at = "away")
  BY DEF TakeHeads, HeadsFirst
<1>3. /\ pages' = [pages EXCEPT ![p] = g]
      /\ UNCHANGED <<changes, upstream, era, settled, tails, breaks>>
  BY DEF TakeHeads, Update
<1>4. Heads \in Nat \X Nat /\ Heads[1] = Len(changes) /\ Heads[2] = Len(upstream)
      /\ Len(changes) \in Nat /\ Len(upstream) \in Nat
  BY Typed DEF Heads, FeedInv
<1>5. /\ g \in PageRow /\ g.start = Heads /\ g.id = Heads /\ g.conn = pages[p].conn
      /\ g.seen = pages[p].seen /\ g.got = pages[p].got /\ g.twice = pages[p].twice
      /\ g.fetches = pages[p].fetches /\ g.marked = pages[p].marked
      /\ (p \in PickPage => g.at # "drawn")
  <2>1. g \in PageRow
    BY <1>1, <1>4 DEF PageRow
  <2> QED BY <1>1, <1>2, <2>1 DEF PageRow
<1> HIDE DEF g
<1>6. g.conn = None /\ g.got = {} /\ ~g.twice
  BY <1>1, <1>2, <1>5 DEF PageHolds, Follows, Skips
<1>7. PageHolds(changes, upstream, p, g)
  <2>1. Follows(changes, upstream, g)
    BY <1>4, <1>5, <1>6 DEF Follows
  <2>2. Redraws(changes, p, g)
    BY <1>1, <1>5 DEF PageHolds, Redraws
  <2>3. Skips(changes, upstream, g)
    <3>1. \A n \in Nat : \A i \in (n + 1)..n : FALSE
      OBVIOUS
    <3> QED BY <1>4, <1>5, <1>6, <3>1 DEF Skips
  <2>4. p \in PickPage => Misses(changes, g)
    BY <1>5 DEF Misses
  <2> QED BY <2>1, <2>2, <2>3, <2>4 DEF PageHolds
<1>8. None \notin Stream
  BY Typed DEF FeedInv
<1> QED BY <1>1, <1>3, <1>5, <1>6, <1>7, <1>8, PageMoves

LEMMA DrawKeeps ==
  ASSUME FeedInv, NEW p \in Page, Draw(p)
  PROVE  FeedInv'
<1> DEFINE g == [pages[p] EXCEPT !.at = IF @ = "away" THEN "read" ELSE "drawn",
                                 !.seen = DOMAIN changes]
<1>1. /\ pages[p] \in PageRow /\ pages[p].seen \subseteq DOMAIN changes
      /\ PageHolds(changes, upstream, p, pages[p]) /\ breaks \in 0..Breaks
      /\ DOMAIN changes = 1..Len(changes) /\ Len(changes) \in Nat
  BY PageFacts, Typed DEF FeedInv
<1>2. pages[p].at # "drawn"
  BY DEF Draw
<1>3. /\ pages' = [pages EXCEPT ![p] = g]
      /\ UNCHANGED <<changes, upstream, era, settled, tails, breaks>>
  BY DEF Draw, Update
<1>5. /\ g \in PageRow /\ g.start = pages[p].start /\ g.id = pages[p].id /\ g.conn = pages[p].conn
      /\ g.seen = DOMAIN changes /\ g.got = pages[p].got /\ g.twice = pages[p].twice
      /\ g.fetches = pages[p].fetches /\ g.marked = pages[p].marked
  <2>1. DOMAIN changes \in SUBSET Nat
    BY <1>1
  <2>2. g \in PageRow
    BY <1>1, <2>1 DEF PageRow
  <2> QED BY <1>1, <2>2 DEF PageRow
<1> HIDE DEF g
<1>6. PageHolds(changes, upstream, p, g)
  <2>1. Follows(changes, upstream, g)
    BY <1>1, <1>2, <1>5 DEF PageHolds, Follows
  <2>2. Redraws(changes, p, g)
    BY <1>1, <1>5 DEF PageHolds, Redraws
  <2>3. Skips(changes, upstream, g)
    BY <1>1, <1>5 DEF PageHolds, Skips
  <2>4. Misses(changes, g)
    BY <1>5 DEF Misses
  <2> QED BY <2>1, <2>2, <2>3, <2>4 DEF PageHolds
<1> QED BY <1>1, <1>3, <1>5, <1>6, PageMoves

LEMMA BreakKeeps ==
  ASSUME FeedInv, NEW p \in Page, Break(p)
  PROVE  FeedInv'
<1> DEFINE g == [pages[p] EXCEPT !.conn = None]
<1>1. /\ pages[p] \in PageRow /\ pages[p].seen \subseteq DOMAIN changes
      /\ PageHolds(changes, upstream, p, pages[p]) /\ breaks \in 0..Breaks
  BY PageFacts
<1>3. /\ pages' = [pages EXCEPT ![p] = g] /\ breaks' \in 0..Breaks
      /\ UNCHANGED <<changes, upstream, era, settled, tails>>
  BY <1>1, ChangeFeedAssumption DEF Break, Update
<1>5. /\ g \in PageRow /\ g.start = pages[p].start /\ g.id = pages[p].id /\ g.conn = None
      /\ g.seen = pages[p].seen /\ g.got = pages[p].got /\ g.twice = pages[p].twice
      /\ g.fetches = pages[p].fetches /\ g.marked = pages[p].marked /\ g.at = pages[p].at
      /\ g.hurt = pages[p].hurt
  BY <1>1 DEF PageRow
<1> HIDE DEF g
<1>6. PageHolds(changes, upstream, p, g)
  BY <1>1, <1>5 DEF PageHolds, Follows, Redraws, Skips, Misses, Waits
<1>7. None \notin Stream
  BY Typed DEF FeedInv
<1> QED BY <1>1, <1>3, <1>5, <1>6, <1>7, PageMoves

-----------------------------------------------------------------------------
(* Redraws. *)

\* A page as its stream has left it.
AsItWas(g, was) == /\ g.at = was.at /\ g.start = was.start /\ g.id = was.id
                   /\ g.conn = was.conn /\ g.got = was.got /\ g.twice = was.twice

\* A redraw that asks for what there is, and after which a pick list still has
\* what it does not show to come.
LEMMA RedrawMoves ==
  ASSUME FeedInv, NEW p \in Page, NEW g \in PageRow,
         pages' = [pages EXCEPT ![p] = g],
         UNCHANGED <<changes, upstream, era, settled, tails, breaks>>,
         g.seen \subseteq DOMAIN changes, AsItWas(g, pages[p]), Redraws(changes, p, g),
         p \in PickPage => Misses(changes, g)
  PROVE  FeedInv'
<1>1. PageHolds(changes, upstream, p, pages[p]) /\ breaks \in 0..Breaks
  BY PageFacts
<1>2. PageHolds(changes, upstream, p, g)
  BY <1>1 DEF PageHolds, Follows, Skips, AsItWas
<1> QED BY <1>1, <1>2, PageMoves DEF AsItWas

LEMMA RedrawKeeps ==
  ASSUME FeedInv, NEW p \in Page, Redraw(p)
  PROVE  FeedInv'
<1> DEFINE f == [for |-> IF p \in PickPage THEN {All} ELSE pages[p].marked, read |-> None]
           g == [pages[p] EXCEPT !.marked = {}, !.fetches = @ \cup {f}]
<1>1. /\ pages[p] \in PageRow /\ pages[p].seen \subseteq DOMAIN changes
      /\ PageHolds(changes, upstream, p, pages[p])
  BY PageFacts
<1>2. /\ pages' = [pages EXCEPT ![p] = g]
      /\ UNCHANGED <<changes, upstream, era, settled, tails, breaks>>
  BY DEF Redraw, Update
<1>3. f \in FetchRow /\ f.read = None /\ (IF p \in PickPage THEN f.for = {All} ELSE f.for = pages[p].marked)
  BY <1>1 DEF FetchRow, PageRow, All
<1> HIDE DEF f
<1>4. /\ g \in PageRow /\ g.marked = {} /\ g.fetches = pages[p].fetches \cup {f}
      /\ g.seen = pages[p].seen /\ AsItWas(g, pages[p])
  <2>1. pages[p].fetches \cup {f} \in SUBSET FetchRow
    BY <1>1, <1>3 DEF PageRow
  <2>2. g \in PageRow
    BY <1>1, <2>1 DEF PageRow
  <2>3. AsItWas(g, pages[p])
    BY <1>1 DEF PageRow, AsItWas
  <2>4. g.marked = {} /\ g.fetches = pages[p].fetches \cup {f} /\ g.seen = pages[p].seen
    BY <1>1 DEF PageRow
  <2> QED BY <2>2, <2>3, <2>4
<1> HIDE DEF g
<1>5. Redraws(changes, p, g)
  BY <1>1, <1>3, <1>4 DEF PageHolds, Redraws
<1>6. Misses(changes, g)
  BY <1>3, <1>4 DEF Misses, Waits
<1> QED BY <1>1, <1>2, <1>4, <1>5, <1>6, RedrawMoves

LEMMA PollKeeps ==
  ASSUME FeedInv, NEW p \in Page, Poll(p)
  PROVE  FeedInv'
<1> DEFINE f == [for |-> {All}, read |-> None]
           g == [pages[p] EXCEPT !.fetches = @ \cup {f}]
<1>1. /\ pages[p] \in PageRow /\ pages[p].seen \subseteq DOMAIN changes
      /\ PageHolds(changes, upstream, p, pages[p]) /\ pages \in [Page -> PageRow]
  BY PageFacts DEF FeedInv, FeedTypeOK
<1>3. f \in FetchRow /\ f.read = None /\ f.for = {All}
  BY DEF FetchRow, All
<1>2. /\ pages' = [pages EXCEPT ![p] = g]
      /\ UNCHANGED <<changes, upstream, era, settled, tails, breaks>>
  BY <1>1 DEF Poll, Fetches
<1> HIDE DEF f
<1>4. /\ g \in PageRow /\ g.marked = pages[p].marked /\ g.fetches = pages[p].fetches \cup {f}
      /\ g.seen = pages[p].seen /\ AsItWas(g, pages[p])
  <2>1. pages[p].fetches \cup {f} \in SUBSET FetchRow
    BY <1>1, <1>3 DEF PageRow
  <2>2. g \in PageRow
    BY <1>1, <2>1 DEF PageRow
  <2>3. AsItWas(g, pages[p])
    BY <1>1 DEF PageRow, AsItWas
  <2>4. /\ g.marked = pages[p].marked /\ g.fetches = pages[p].fetches \cup {f}
        /\ g.seen = pages[p].seen
    BY <1>1 DEF PageRow
  <2> QED BY <2>2, <2>3, <2>4
<1> HIDE DEF g
<1>5. Redraws(changes, p, g)
  BY <1>1, <1>3, <1>4 DEF PageHolds, Redraws
<1>6. Misses(changes, g)
  BY <1>3, <1>4 DEF Misses, Waits
<1> QED BY <1>1, <1>2, <1>4, <1>5, <1>6, RedrawMoves

LEMMA ServeKeeps ==
  ASSUME FeedInv, NEW p \in Page, NEW f \in pages[p].fetches, Serve(p, f)
  PROVE  FeedInv'
<1> DEFINE h == [f EXCEPT !.read = Len(changes)]
           g == [pages[p] EXCEPT !.fetches = (pages[p].fetches \ {f}) \cup {h}]
<1>1. /\ pages[p] \in PageRow /\ pages[p].seen \subseteq DOMAIN changes
      /\ PageHolds(changes, upstream, p, pages[p]) /\ pages \in [Page -> PageRow]
      /\ Len(changes) \in Nat /\ DOMAIN changes = 1..Len(changes)
  BY PageFacts, Typed DEF FeedInv, FeedTypeOK
<1>2. /\ pages' = [pages EXCEPT ![p] = g]
      /\ UNCHANGED <<changes, upstream, era, settled, tails, breaks>>
  BY <1>1 DEF Serve, Fetches
<1>3. h \in FetchRow /\ h.read = Len(changes) /\ h.for = f.for /\ f \in FetchRow
  <2>1. f \in FetchRow
    BY <1>1 DEF PageRow
  <2> QED BY <1>1, <2>1 DEF FetchRow
<1> HIDE DEF h
<1>4. /\ g \in PageRow /\ g.marked = pages[p].marked /\ g.hurt = pages[p].hurt
      /\ g.fetches = (pages[p].fetches \ {f}) \cup {h}
      /\ g.seen = pages[p].seen /\ AsItWas(g, pages[p])
  <2>1. (pages[p].fetches \ {f}) \cup {h} \in SUBSET FetchRow
    BY <1>1, <1>3 DEF PageRow
  <2>2. g \in PageRow
    BY <1>1, <2>1 DEF PageRow
  <2>3. AsItWas(g, pages[p])
    BY <1>1 DEF PageRow, AsItWas
  <2>4. /\ g.marked = pages[p].marked /\ g.fetches = (pages[p].fetches \ {f}) \cup {h}
        /\ g.seen = pages[p].seen /\ g.hurt = pages[p].hurt
    BY <1>1 DEF PageRow
  <2> QED BY <2>2, <2>3, <2>4
<1> HIDE DEF g
<1>5. Redraws(changes, p, g)
  <2>1. f \in pages[p].fetches /\ Redraws(changes, p, pages[p])
    BY <1>1 DEF PageHolds
  <2>2. h.read <= Len(changes)
    BY <1>1, <1>3
  <2> QED BY <1>3, <1>4, <2>1, <2>2 DEF Redraws
<1>6. p \in PickPage => Misses(changes, g)
  <2> SUFFICES ASSUME p \in PickPage, g.at = "drawn", NEW i \in DOMAIN changes, Due(changes, i),
                      i \notin g.seen
               PROVE  Waits(g, i)
    BY DEF Misses
  <2>1. h \in g.fetches /\ h.read >= i
    BY <1>1, <1>3, <1>4
  <2> QED BY <2>1 DEF Waits
<1> QED BY <1>1, <1>2, <1>4, <1>5, <1>6, RedrawMoves

LEMMA ArriveKeeps ==
  ASSUME FeedInv, NEW p \in Page, NEW f \in pages[p].fetches, Arrive(p, f)
  PROVE  FeedInv'
<1>0. PICK new \in Swapped(p, f) :
           Update(p, [pages[p] EXCEPT
                !.fetches = @ \ {f}, !.seen = new,
                !.hurt = @ \cup (IF pages[p].seen \subseteq new THEN {} ELSE {"crossed"})])
  BY DEF Arrive
<1> DEFINE hurt == pages[p].hurt \cup (IF pages[p].seen \subseteq new THEN {} ELSE {"crossed"})
           g == [pages[p] EXCEPT !.fetches = @ \ {f}, !.seen = new, !.hurt = hurt]
<1>1. /\ pages[p] \in PageRow /\ pages[p].seen \subseteq DOMAIN changes
      /\ PageHolds(changes, upstream, p, pages[p])
      /\ Len(changes) \in Nat /\ DOMAIN changes = 1..Len(changes)
  BY PageFacts, Typed DEF FeedInv
<1>2. /\ pages' = [pages EXCEPT ![p] = g] /\ f.read # None
      /\ UNCHANGED <<changes, upstream, era, settled, tails, breaks>>
  BY <1>0 DEF Arrive, Update
<1>3. /\ f \in FetchRow /\ f.read \in Nat /\ f.read <= Len(changes)
      /\ f.for = {All} \/ f.for \subseteq DOMAIN changes
      /\ p \in PickPage => f.for = {All}
  <2>1. f \in FetchRow
    BY <1>1 DEF PageRow
  <2> QED BY <1>1, <1>2, <2>1 DEF FetchRow, PageHolds, Redraws
<1>4. new \subseteq DOMAIN changes /\ new \in SUBSET Nat
  BY <1>0, <1>1, <1>3 DEF Swapped
<1>5. hurt \in SUBSET {"failed", "crossed"}
  BY <1>1 DEF PageRow
<1>6. /\ p \in PickPage => new = 1..f.read
      /\ pages[p].hurt \subseteq hurt /\ (pages[p].seen \subseteq new \/ hurt # {})
  BY <1>0, <1>3 DEF Swapped
<1> HIDE DEF hurt
<1>7. /\ g \in PageRow /\ g.marked = pages[p].marked /\ g.hurt = hurt
      /\ g.fetches = pages[p].fetches \ {f}
      /\ g.seen = new /\ AsItWas(g, pages[p])
  <2>1. pages[p].fetches \ {f} \in SUBSET FetchRow
    BY <1>1 DEF PageRow
  <2>2. g \in PageRow
    BY <1>1, <1>4, <1>5, <2>1 DEF PageRow
  <2>3. AsItWas(g, pages[p])
    BY <1>1 DEF PageRow, AsItWas
  <2>4. /\ g.marked = pages[p].marked /\ g.fetches = pages[p].fetches \ {f}
        /\ g.seen = new /\ g.hurt = hurt
    BY <1>1 DEF PageRow
  <2> QED BY <2>2, <2>3, <2>4
<1> HIDE DEF g
<1>8. Redraws(changes, p, g)
  BY <1>1, <1>7 DEF PageHolds, Redraws
<1>9. p \in PickPage => Misses(changes, g)
  <2> SUFFICES ASSUME p \in PickPage, g.at = "drawn", NEW i \in DOMAIN changes, Due(changes, i),
                      i \notin new, g.hurt = {}
               PROVE  Waits(g, i)
    BY <1>7 DEF Misses, Waits
  <2>1. i \notin pages[p].seen
    BY <1>6, <1>7
  <2>2. Waits(pages[p], i)
    BY <1>1, <1>7, <2>1 DEF PageHolds, Misses, AsItWas
  <2>3. ~ (f.read = None \/ f.read >= i)
    BY <1>1, <1>2, <1>3, <1>6
  <2>4. pages[p].hurt = {} /\ g.id = pages[p].id
    BY <1>6, <1>7 DEF AsItWas
  <2> QED BY <1>7, <2>2, <2>3, <2>4 DEF Waits
<1> QED BY <1>1, <1>2, <1>4, <1>7, <1>8, <1>9, RedrawMoves

LEMMA PutOffKeeps ==
  ASSUME FeedInv, NEW p \in Page, NEW f \in pages[p].fetches, PutOff(p, f)
  PROVE  FeedInv'
<1> DEFINE g == [pages[p] EXCEPT !.fetches = @ \ {f}, !.marked = @ \cup {All}]
<1>1. /\ pages[p] \in PageRow /\ pages[p].seen \subseteq DOMAIN changes
      /\ PageHolds(changes, upstream, p, pages[p])
  BY PageFacts
<1>2. /\ pages' = [pages EXCEPT ![p] = g] /\ p \in PickPage
      /\ UNCHANGED <<changes, upstream, era, settled, tails, breaks>>
  BY DEF PutOff, Update
<1>3. All \in Nat
  BY DEF All
<1>7. /\ g \in PageRow /\ g.marked # {} /\ g.fetches = pages[p].fetches \ {f}
      /\ g.seen = pages[p].seen /\ AsItWas(g, pages[p])
  <2>1. pages[p].fetches \ {f} \in SUBSET FetchRow /\ pages[p].marked \cup {All} \in SUBSET Nat
    BY <1>1, <1>3 DEF PageRow
  <2>2. g \in PageRow
    BY <1>1, <2>1 DEF PageRow
  <2>3. AsItWas(g, pages[p])
    BY <1>1 DEF PageRow, AsItWas
  <2>4. /\ g.marked = pages[p].marked \cup {All} /\ g.fetches = pages[p].fetches \ {f}
        /\ g.seen = pages[p].seen
    BY <1>1 DEF PageRow
  <2> QED BY <2>2, <2>3, <2>4
<1> HIDE DEF g
<1>8. Redraws(changes, p, g)
  BY <1>1, <1>2, <1>7 DEF PageHolds, Redraws
<1>9. Misses(changes, g)
  BY <1>7 DEF Misses, Waits
<1> QED BY <1>1, <1>2, <1>7, <1>8, <1>9, RedrawMoves

LEMMA FailsKeeps ==
  ASSUME FeedInv, NEW p \in Page, NEW f \in pages[p].fetches, Fails(p, f)
  PROVE  FeedInv'
<1> DEFINE hurt == pages[p].hurt \cup (IF p \in PickPage THEN {"failed"} ELSE {})
           g == [pages[p] EXCEPT !.fetches = @ \ {f}, !.hurt = hurt]
<1>1. /\ pages[p] \in PageRow /\ pages[p].seen \subseteq DOMAIN changes
      /\ PageHolds(changes, upstream, p, pages[p])
  BY PageFacts
<1>2. /\ pages' = [pages EXCEPT ![p] = g]
      /\ UNCHANGED <<changes, upstream, era, settled, tails, breaks>>
  BY DEF Fails, Update
<1>3. hurt \in SUBSET {"failed", "crossed"} /\ (p \in PickPage => hurt # {})
  BY <1>1 DEF PageRow
<1> HIDE DEF hurt
<1>7. /\ g \in PageRow /\ g.marked = pages[p].marked /\ g.fetches = pages[p].fetches \ {f}
      /\ g.seen = pages[p].seen /\ g.hurt = hurt /\ AsItWas(g, pages[p])
  <2>1. pages[p].fetches \ {f} \in SUBSET FetchRow
    BY <1>1 DEF PageRow
  <2>2. g \in PageRow
    BY <1>1, <1>3, <2>1 DEF PageRow
  <2>3. AsItWas(g, pages[p])
    BY <1>1 DEF PageRow, AsItWas
  <2>4. /\ g.marked = pages[p].marked /\ g.fetches = pages[p].fetches \ {f}
        /\ g.seen = pages[p].seen /\ g.hurt = hurt
    BY <1>1 DEF PageRow
  <2> QED BY <2>2, <2>3, <2>4
<1> HIDE DEF g
<1>8. Redraws(changes, p, g)
  BY <1>1, <1>7 DEF PageHolds, Redraws
<1>9. p \in PickPage => Misses(changes, g)
  BY <1>3, <1>7 DEF Misses, Waits
<1> QED BY <1>1, <1>2, <1>7, <1>8, <1>9, RedrawMoves

-----------------------------------------------------------------------------
(* Connections. *)

\* While fewer streams are open than there may be, a slot is free.
LEMMA SlotIsFree ==
  ASSUME NEW open \in SUBSET Stream, Cardinality(open) < MaxStreams
  PROVE  \E x \in Stream : x \notin open
<1>1. MaxStreams \in Nat /\ Cardinality(1..MaxStreams) = MaxStreams
  BY ChangeFeedAssumption, FS_Interval
<1>2. open = Stream => Cardinality(open) = MaxStreams
  BY <1>1 DEF Stream
<1>3. open # Stream
  BY <1>1, <1>2
<1> QED BY <1>3

\* A page whose connection changes, and that is otherwise as it was.
LEMMA ConnHolds ==
  ASSUME NEW C, NEW U, NEW p, NEW g \in PageRow, NEW conn \in Stream \cup {None, Refused},
         PageHolds(C, U, p, g), g.at = "drawn" \/ conn = None
  PROVE  /\ [g EXCEPT !.conn = conn] \in PageRow /\ [g EXCEPT !.conn = conn].conn = conn
         /\ [g EXCEPT !.conn = conn].id = g.id /\ [g EXCEPT !.conn = conn].seen = g.seen
         /\ PageHolds(C, U, p, [g EXCEPT !.conn = conn])
<1> DEFINE h == [g EXCEPT !.conn = conn]
<1>1. /\ h \in PageRow /\ h.conn = conn /\ h.id = g.id /\ h.seen = g.seen /\ h.at = g.at
      /\ h.start = g.start /\ h.got = g.got /\ h.twice = g.twice /\ h.marked = g.marked
      /\ h.fetches = g.fetches /\ h.hurt = g.hurt
  BY DEF PageRow
<1> HIDE DEF h
<1>2. Follows(C, U, h)
  BY <1>1 DEF PageHolds, Follows
<1>3. Redraws(C, p, h) /\ Skips(C, U, h) /\ (p \in PickPage => Misses(C, h))
  BY <1>1 DEF PageHolds, Redraws, Skips, Misses, Waits
<1> QED BY <1>1, <1>2, <1>3 DEF PageHolds, h

LEMMA ConnectKeeps ==
  ASSUME FeedInv, NEW p \in Page, Connect(p)
  PROVE  FeedInv'
<1> DEFINE open == {s \in Stream : tails[s] # None}
           s == CHOOSE x \in Stream : x \notin open
           g == [pages[p] EXCEPT !.conn = s]
           t == [page |-> p, at |-> pages[p].id, pending |-> <<>>]
           h == [pages[p] EXCEPT !.conn = Refused]
<1>1. /\ pages[p] \in PageRow /\ pages[p].seen \subseteq DOMAIN changes
      /\ PageHolds(changes, upstream, p, pages[p]) /\ breaks \in 0..Breaks
      /\ pages[p].at = "drawn" /\ pages[p].id \in Nat \X Nat
  <2>1. /\ pages[p] \in PageRow /\ pages[p].seen \subseteq DOMAIN changes
        /\ PageHolds(changes, upstream, p, pages[p]) /\ breaks \in 0..Breaks
    BY PageFacts
  <2>2. pages[p].id \in Nat \X Nat
    BY <2>1 DEF PageRow
  <2> QED BY <2>1, <2>2 DEF Connect
<1>2. FeedTypeOK /\ InTurn(changes, settled) /\ Lead(changes, upstream, tails, pages)
  BY DEF FeedInv
<1>3. UNCHANGED <<changes, upstream, era, settled, breaks>>
  BY DEF Connect
<1>4. CASE ~ (Cardinality(open) < MaxStreams)
  <2>1. pages' = [pages EXCEPT ![p] = h] /\ UNCHANGED tails
    BY <1>4 DEF Connect, Update
  <2>2. Refused \in Stream \cup {None, Refused} /\ Refused \notin Stream
    BY ChangeFeedAssumption DEF Refused, Stream
  <2>3. h \in PageRow /\ h.conn = Refused /\ h.seen = pages[p].seen /\ PageHolds(changes, upstream, p, h)
    BY <1>1, <2>2, ConnHolds
  <2> HIDE DEF h
  <2> QED BY <1>1, <1>3, <2>1, <2>2, <2>3, PageMoves
<1>5. CASE Cardinality(open) < MaxStreams
  <2>1. pages' = [pages EXCEPT ![p] = g] /\ tails' = [tails EXCEPT ![s] = t]
    BY <1>5 DEF Connect, Update
  <2>2. s \in Stream /\ s \notin open
    BY <1>5, SlotIsFree
  <2>3. s \in Stream /\ tails[s] = None
    BY <2>2
  <2> HIDE DEF s, open
  <2>4. /\ g \in PageRow /\ g.conn = s /\ g.id = pages[p].id /\ g.seen = pages[p].seen
        /\ PageHolds(changes, upstream, p, g)
    <3>1. s \in Stream \cup {None, Refused}
      BY <2>3
    <3> QED BY <1>1, <3>1, ConnHolds
  <2> HIDE DEF g
  <2>5. t \in TailRow /\ t # None /\ t.page = p /\ t.at = pages[p].id /\ t.pending = <<>>
    <3>1. t \in TailRow
      BY <1>1 DEF TailRow
    <3> QED BY <3>1, ChangeFeedAssumption
  <2> HIDE DEF t
  <2>6. /\ pages \in [Page -> PageRow] /\ pages' \in [Page -> PageRow] /\ pages'[p] = g
        /\ \A q \in Page : q # p => pages'[q] = pages[q]
    BY <1>2, <2>1, <2>4 DEF FeedTypeOK
  <2>7. /\ tails' \in [Stream -> TailRow \cup {None}] /\ tails'[s] = t
        /\ \A x \in Stream : x # s => tails'[x] = tails[x]
    BY <1>2, <2>1, <2>3, <2>5 DEF FeedTypeOK
  <2>8. FeedTypeOK'
    <3>1. \A q \in Page : pages'[q].seen \subseteq DOMAIN changes
      BY <1>2, <2>4, <2>6 DEF FeedTypeOK
    <3>2. \A q \in Page : pages'[q].conn \in Stream =>
              tails'[pages'[q].conn] # None /\ tails'[pages'[q].conn].page = q
      <4> SUFFICES ASSUME NEW q \in Page, pages'[q].conn \in Stream
                   PROVE  tails'[pages'[q].conn] # None /\ tails'[pages'[q].conn].page = q
        OBVIOUS
      <4>1. CASE q = p
        BY <2>4, <2>5, <2>6, <2>7, <4>1
      <4>2. CASE q # p
        <5>1. /\ pages'[q].conn = pages[q].conn /\ tails[pages[q].conn] # None
              /\ tails[pages[q].conn].page = q
          BY <1>2, <2>6, <4>2 DEF FeedTypeOK
        <5>2. pages[q].conn # s
          BY <2>3, <5>1
        <5> QED BY <2>7, <5>1, <5>2
      <4> QED BY <4>1, <4>2
    <3>3. pages[p].id[1] <= Len(changes) /\ pages[p].id[2] <= Len(upstream)
      BY <1>1 DEF PageHolds, Follows
    <3>4. \A x \in Stream : tails'[x] # None =>
              tails'[x].at[1] <= Len(changes) /\ tails'[x].at[2] <= Len(upstream)
      <4> SUFFICES ASSUME NEW x \in Stream, tails'[x] # None
                   PROVE  tails'[x].at[1] <= Len(changes) /\ tails'[x].at[2] <= Len(upstream)
        OBVIOUS
      <4>1. CASE x = s
        BY <2>5, <2>7, <3>3, <4>1
      <4>2. CASE x # s
        BY <1>2, <2>7, <4>2 DEF FeedTypeOK
      <4> QED BY <4>1, <4>2
    <3> QED BY <1>2, <1>3, <2>6, <2>7, <3>1, <3>2, <3>4 DEF FeedTypeOK
  <2>9. Lead(changes', upstream', tails', pages')
    <3> SUFFICES ASSUME NEW x \in Stream, tails'[x] # None, pages'[tails'[x].page].conn = x
                 PROVE  Chain(changes, upstream, pages'[tails'[x].page].id, tails'[x].pending,
                              tails'[x].at)
      BY <1>3 DEF Lead
    <3>1. CASE x = s
      <4>1. /\ tails'[x].page = p /\ tails'[x].pending = <<>> /\ tails'[x].at = pages[p].id
            /\ pages'[p].id = pages[p].id
        BY <2>4, <2>5, <2>6, <2>7, <3>1
      <4>2. Chain(changes, upstream, pages[p].id, <<>>, pages[p].id)
        BY DEF Chain, Before
      <4> QED BY <4>1, <4>2
    <3>2. CASE x # s
      <4>1. tails'[x] = tails[x] /\ tails[x] \in TailRow
        BY <1>2, <2>7, <3>2, Typed
      <4>2. tails[x].page \in Page /\ tails[x].page # p
        BY <2>4, <2>6, <3>2, <4>1 DEF TailRow
      <4>3. pages'[tails[x].page] = pages[tails[x].page]
        BY <2>6, <4>2
      <4> QED BY <1>2, <4>1, <4>3 DEF Lead
    <3> QED BY <3>1, <3>2
  <2>10. ASSUME NEW q \in Page PROVE PageHolds(changes', upstream', q, pages'[q])
    BY <1>3, <2>4, <2>6 DEF FeedInv
  <2> QED BY <1>2, <1>3, <2>8, <2>9, <2>10 DEF FeedInv
<1> QED BY <1>4, <1>5

LEMMA RestartKeeps ==
  ASSUME FeedInv, Restart
  PROVE  FeedInv'
<1>1. FeedTypeOK /\ InTurn(changes, settled)
  BY DEF FeedInv
<1>2. /\ UNCHANGED <<changes, upstream, era, settled>> /\ breaks' \in 0..Breaks
      /\ tails' \in [Stream -> TailRow \cup {None}] /\ \A s \in Stream : tails'[s] = None
  BY <1>1, ChangeFeedAssumption DEF Restart, FeedTypeOK
<1>3. ASSUME NEW p \in Page
      PROVE  /\ pages'[p] \in PageRow /\ pages'[p].seen \subseteq DOMAIN changes
             /\ pages'[p].conn \notin Stream /\ PageHolds(changes, upstream, p, pages'[p])
  <2>1. /\ pages[p] \in PageRow /\ pages[p].seen \subseteq DOMAIN changes
        /\ PageHolds(changes, upstream, p, pages[p])
    BY PageFacts
  <2>2. pages'[p] = IF pages[p].conn = Refused THEN pages[p] ELSE [pages[p] EXCEPT !.conn = None]
    BY DEF Restart
  <2>3. None \notin Stream /\ Refused \notin Stream /\ None \in Stream \cup {None, Refused}
    BY <1>1, Typed DEF Refused, Stream
  <2>4. CASE pages[p].conn = Refused
    BY <2>1, <2>2, <2>3, <2>4
  <2>5. CASE pages[p].conn # Refused
    BY <2>1, <2>2, <2>3, <2>5, ConnHolds
  <2> QED BY <2>4, <2>5
<1>4. pages' \in [Page -> PageRow]
  <2>1. DOMAIN pages' = Page /\ pages' = [p \in Page |-> pages'[p]]
    BY DEF Restart
  <2> QED BY <1>3, <2>1
<1>5. FeedTypeOK'
  BY <1>1, <1>2, <1>3, <1>4 DEF FeedTypeOK
<1>6. Lead(changes', upstream', tails', pages')
  BY <1>2 DEF Lead
<1> QED BY <1>1, <1>2, <1>3, <1>5, <1>6 DEF FeedInv

\* A page that has got an event.
Brings(e) == IF e.row[1] = "change" THEN {e.row[2]} ELSE {}

Delivered(was, e, g) ==
    /\ g.at = was.at /\ g.start = was.start /\ g.id = e.id /\ g.seen = was.seen
    /\ g.got = was.got \cup {e.row} /\ g.marked = was.marked \cup Brings(e)
    /\ g.twice = (was.twice \/ (e.row \in was.got /\ e.row[1] # "cursor"))
    /\ g.fetches = was.fetches
    /\ g.hurt = (IF Brings(e) = {} THEN was.hurt ELSE {})

\* An event that leads from where a page is leaves it where the event leads.
LEMMA EventHolds ==
  ASSUME NEW C \in Seq(ChangeRow), NEW U \in Seq(BOOLEAN), NEW p, NEW was \in PageRow,
         PageHolds(C, U, p, was), was.at = "drawn", NEW e \in EventRow, Leads(C, U, was.id, e),
         NEW g \in PageRow, Delivered(was, e, g)
  PROVE  PageHolds(C, U, p, g)
<1> DEFINE change == Brings(e)
<1>1. /\ Len(C) \in Nat /\ Len(U) \in Nat /\ DOMAIN C = 1..Len(C)
  BY LogIs
<1>9. /\ g.at = was.at /\ g.start = was.start /\ g.id = e.id /\ g.seen = was.seen
      /\ g.got = was.got \cup {e.row} /\ g.marked = was.marked \cup change
      /\ g.fetches = was.fetches
  BY DEF Delivered
<1>10. change = IF e.row[1] = "change" THEN {e.row[2]} ELSE {}
  BY DEF Brings
<1>11. IF change = {} THEN g.hurt = was.hurt ELSE g.hurt = {}
  BY DEF Delivered
<1>12. e.row \notin was.got \/ e.row[1] = "cursor" => g.twice = was.twice
  BY DEF Delivered, PageRow
<1> HIDE DEF change
<1>2. /\ was.id[1] \in Nat /\ was.id[2] \in Nat /\ e.id[1] \in Nat /\ e.id[2] \in Nat
      /\ was.start[1] \in Nat /\ was.start[2] \in Nat
      /\ e.row[1] \in {"change", "upstream", "cursor"} /\ e.row[2] \in Nat
      /\ \A r \in was.got : r[2] \in Nat
  BY DEF PageRow, EventRow
<1>3. Follows(C, U, was) /\ Redraws(C, p, was) /\ Skips(C, U, was) /\ (p \in PickPage => Misses(C, was))
  BY DEF PageHolds
<1>4. /\ was.id[1] <= e.id[1] /\ e.id[1] <= Len(C) /\ was.id[2] <= e.id[2] /\ e.id[2] <= Len(U)
      /\ e.row[1] = "change" => was.id[1] < e.row[2] /\ e.row[2] <= e.id[1]
      /\ e.row[1] = "upstream" => was.id[2] < e.row[2] /\ e.row[2] <= e.id[2]
  BY DEF Leads
<1>5. Follows(C, U, g)
  <2>1. ASSUME NEW r \in g.got
        PROVE  (r[1] = "change" => r[2] <= g.id[1]) /\ (r[1] = "upstream" => r[2] <= g.id[2])
    <3>1. CASE r \in was.got
      <4>1. (r[1] = "change" => r[2] <= was.id[1]) /\ (r[1] = "upstream" => r[2] <= was.id[2])
        BY <1>3, <3>1 DEF Follows
      <4> QED BY <1>2, <1>4, <1>9, <3>1, <4>1
    <3>2. CASE r = e.row
      BY <1>4, <1>9, <3>2
    <3> QED BY <1>9, <3>1, <3>2
  <2> QED BY <1>4, <1>9, <2>1 DEF Follows
<1>6. Redraws(C, p, g)
  <2>1. change \subseteq DOMAIN C
    BY <1>1, <1>2, <1>4, <1>10
  <2> QED BY <1>3, <1>9, <2>1 DEF Redraws
<1>7. Skips(C, U, g)
  <2>1. e.row \notin was.got \/ e.row[1] = "cursor"
    <3>1. CASE e.row[1] = "change"
      BY <1>2, <1>3, <1>4, <3>1 DEF Follows
    <3>2. CASE e.row[1] = "upstream"
      BY <1>2, <1>3, <1>4, <3>2 DEF Follows
    <3> QED BY <1>2, <3>1, <3>2
  <2>2. ~g.twice
    BY <1>3, <1>12, <2>1 DEF Skips
  <2>3. ASSUME NEW i \in (g.start[1] + 1)..g.id[1], Due(C, i) PROVE <<"change", i>> \in g.got
    <3>1. CASE i <= was.id[1]
      <4>1. i \in (was.start[1] + 1)..was.id[1]
        BY <1>2, <1>9, <3>1
      <4>2. <<"change", i>> \in was.got
        BY <1>3, <2>3, <4>1 DEF Skips
      <4> QED BY <1>9, <4>2
    <3>2. CASE ~ (i <= was.id[1])
      <4>1. i \in (was.id[1] + 1)..e.id[1]
        BY <1>2, <1>9, <3>2
      <4>2. e.row = <<"change", i>>
        BY <1>9, <2>3, <4>1 DEF Leads
      <4> QED BY <1>9, <4>2
    <3> QED BY <3>1, <3>2
  <2>4. ASSUME NEW i \in (g.start[2] + 1)..g.id[2], U[i] PROVE <<"upstream", i>> \in g.got
    <3>1. CASE i <= was.id[2]
      <4>1. i \in (was.start[2] + 1)..was.id[2]
        BY <1>2, <1>9, <3>1
      <4>2. <<"upstream", i>> \in was.got
        BY <1>3, <2>4, <4>1 DEF Skips
      <4> QED BY <1>9, <4>2
    <3>2. CASE ~ (i <= was.id[2])
      <4>1. i \in (was.id[2] + 1)..e.id[2]
        BY <1>2, <1>9, <3>2
      <4>2. e.row = <<"upstream", i>>
        BY <2>4, <4>1 DEF Leads
      <4> QED BY <1>9, <4>2
    <3> QED BY <3>1, <3>2
  <2> QED BY <2>2, <2>3, <2>4 DEF Skips
<1>8. p \in PickPage => Misses(C, g)
  <2> SUFFICES ASSUME p \in PickPage, NEW i \in DOMAIN C, Due(C, i), i \notin was.seen
               PROVE  Waits(g, i)
    BY <1>9 DEF Misses
  <2>1. Waits(was, i)
    BY <1>3 DEF Misses
  <2>2. CASE change # {}
    BY <1>9, <2>2 DEF Waits
  <2>3. CASE change = {} /\ i > e.id[1]
    BY <1>9, <2>3 DEF Waits
  <2>4. CASE change = {} /\ ~ (i > e.id[1])
    <3>1. ~ (i > was.id[1])
      <4> SUFFICES ASSUME i > was.id[1] PROVE FALSE
        OBVIOUS
      <4>1. i \in (was.id[1] + 1)..e.id[1]
        BY <1>1, <1>2, <2>4
      <4>2. e.row = <<"change", i>>
        BY <4>1 DEF Leads
      <4>3. e.row[1] = "change"
        BY <4>2
      <4> QED BY <1>10, <2>4, <4>3
    <3>2. g.marked = was.marked /\ g.hurt = was.hurt
      BY <1>9, <1>11, <2>4
    <3> QED BY <1>9, <2>1, <3>1, <3>2 DEF Waits
  <2> QED BY <2>2, <2>3, <2>4
<1> QED BY <1>5, <1>6, <1>7, <1>8 DEF PageHolds

LEMMA DeliverKeeps ==
  ASSUME FeedInv, NEW s \in Stream, Deliver(s)
  PROVE  FeedInv'
<1> DEFINE p == tails[s].page
           e == Head(tails[s].pending)
           rest == Tail(tails[s].pending)
           change == IF e.row[1] = "change" THEN {e.row[2]} ELSE {}
           twice == pages[p].twice \/ (e.row \in pages[p].got /\ e.row[1] # "cursor")
           hurt == IF change = {} THEN pages[p].hurt ELSE {}
           g == [pages[p] EXCEPT !.id = e.id, !.got = @ \cup {e.row}, !.twice = twice,
                                 !.marked = @ \cup change, !.hurt = hurt]
           t == [tails[s] EXCEPT !.pending = rest]
<1>1. FeedTypeOK /\ InTurn(changes, settled) /\ Lead(changes, upstream, tails, pages)
  BY DEF FeedInv
<1>2. /\ changes \in Seq(ChangeRow) /\ upstream \in Seq(BOOLEAN)
      /\ tails[s] # None /\ tails[s] \in TailRow /\ tails[s].pending # <<>>
      /\ pages[p].conn = s /\ None \notin Stream
  BY <1>1, Typed DEF Deliver
<1>3. /\ UNCHANGED <<changes, upstream, era, settled, breaks>>
      /\ tails' = [tails EXCEPT ![s].pending = Tail(@)] /\ pages' = [pages EXCEPT ![p] = g]
  BY DEF Deliver, Update
<1>4. /\ p \in Page /\ tails[s].pending \in Seq(EventRow)
      /\ pages \in [Page -> PageRow] /\ tails \in [Stream -> TailRow \cup {None}]
  BY <1>1, <1>2 DEF TailRow, FeedTypeOK
<1>5. e \in EventRow /\ rest \in Seq(EventRow)
  BY <1>2, <1>4
<1>6. /\ pages[p] \in PageRow /\ pages[p].seen \subseteq DOMAIN changes
      /\ PageHolds(changes, upstream, p, pages[p])
  BY <1>4, PageFacts
<1>7. tails' = [tails EXCEPT ![s] = t]
  BY <1>3, <1>4
<1>8. Leads(changes, upstream, pages[p].id, e) /\ Chain(changes, upstream, e.id, rest, tails[s].at)
  <2>1. Chain(changes, upstream, pages[p].id, tails[s].pending, tails[s].at)
    BY <1>1, <1>2 DEF Lead
  <2> QED BY <1>2, <1>4, <2>1, ChainTail
<1> HIDE DEF e, rest
<1>9. pages[p].at = "drawn"
  BY <1>2, <1>6 DEF PageHolds, Follows
<1>10. /\ e.id \in Nat \X Nat /\ e.row \in {"change", "upstream", "cursor"} \X Nat
       /\ change \in SUBSET Nat
  BY <1>5 DEF EventRow
<1>11. twice \in BOOLEAN /\ hurt \in SUBSET {"failed", "crossed"}
  BY <1>6 DEF PageRow
<1> HIDE DEF p, change, twice, hurt
<1>12. /\ g \in PageRow /\ g.at = pages[p].at /\ g.start = pages[p].start /\ g.id = e.id
       /\ g.seen = pages[p].seen /\ g.got = pages[p].got \cup {e.row} /\ g.twice = twice
       /\ g.marked = pages[p].marked \cup change /\ g.fetches = pages[p].fetches /\ g.hurt = hurt
       /\ g.conn = s
  <2>1. /\ pages[p].got \cup {e.row} \in SUBSET ({"change", "upstream", "cursor"} \X Nat)
        /\ pages[p].marked \cup change \in SUBSET Nat
    BY <1>6, <1>10 DEF PageRow
  <2>2. g \in PageRow
    BY <1>6, <1>10, <1>11, <2>1 DEF PageRow
  <2>3. /\ g.at = pages[p].at /\ g.start = pages[p].start /\ g.id = e.id
        /\ g.seen = pages[p].seen /\ g.got = pages[p].got \cup {e.row} /\ g.twice = twice
        /\ g.marked = pages[p].marked \cup change /\ g.fetches = pages[p].fetches /\ g.hurt = hurt
        /\ g.conn = pages[p].conn
    BY <1>6 DEF PageRow
  <2> QED BY <1>2, <2>2, <2>3
<1> HIDE DEF g
<1>13. PageHolds(changes, upstream, p, g)
  <2>1. change = Brings(e)
    BY DEF change, Brings
  <2>2. g.twice = (pages[p].twice \/ (e.row \in pages[p].got /\ e.row[1] # "cursor"))
    BY <1>12 DEF twice
  <2>3. g.hurt = (IF Brings(e) = {} THEN pages[p].hurt ELSE {})
    BY <1>12, <2>1 DEF hurt
  <2>4. Delivered(pages[p], e, g)
    BY <1>12, <2>1, <2>2, <2>3 DEF Delivered
  <2> QED BY <1>2, <1>5, <1>6, <1>8, <1>9, <1>12, <2>4, EventHolds
<1>14. /\ t \in TailRow /\ t # None /\ t.page = p /\ t.at = tails[s].at /\ t.pending = rest
  <2>1. t \in TailRow /\ t.page = tails[s].page /\ t.at = tails[s].at /\ t.pending = rest
    BY <1>2, <1>5 DEF TailRow
  <2> QED BY <2>1, ChangeFeedAssumption DEF p
<1> HIDE DEF t
<1>15. /\ pages' \in [Page -> PageRow] /\ pages'[p] = g
       /\ \A q \in Page : q # p => pages'[q] = pages[q]
       /\ tails' \in [Stream -> TailRow \cup {None}] /\ tails'[s] = t
       /\ \A x \in Stream : x # s => tails'[x] = tails[x]
  <2>1. pages' = [pages EXCEPT ![p] = g] /\ g \in PageRow
    BY <1>3, <1>12
  <2>2. /\ pages' \in [Page -> PageRow] /\ pages'[p] = g
        /\ \A q \in Page : q # p => pages'[q] = pages[q]
    BY <1>4, <2>1
  <2>3. /\ tails' \in [Stream -> TailRow \cup {None}] /\ tails'[s] = t
        /\ \A x \in Stream : x # s => tails'[x] = tails[x]
    BY <1>4, <1>7, <1>14
  <2> QED BY <2>2, <2>3
<1>16. FeedTypeOK'
  <2>1. \A q \in Page : pages'[q].seen \subseteq DOMAIN changes /\ pages'[q].conn = pages[q].conn
    BY <1>1, <1>2, <1>12, <1>15 DEF FeedTypeOK, p
  <2>2. \A x \in Stream : tails[x] # None =>
            tails'[x] # None /\ tails'[x].page = tails[x].page /\ tails'[x].at = tails[x].at
    BY <1>14, <1>15 DEF p
  <2>3. \A q \in Page : pages'[q].conn \in Stream =>
            tails'[pages'[q].conn] # None /\ tails'[pages'[q].conn].page = q
    <3> SUFFICES ASSUME NEW q \in Page, pages'[q].conn \in Stream
                 PROVE  tails'[pages'[q].conn] # None /\ tails'[pages'[q].conn].page = q
      OBVIOUS
    <3>1. pages'[q].conn = pages[q].conn
      BY <2>1
    <3>2. tails[pages[q].conn] # None /\ tails[pages[q].conn].page = q
      BY <1>1, <3>1 DEF FeedTypeOK
    <3> QED BY <2>2, <3>1, <3>2
  <2>4. \A x \in Stream : tails'[x] # None =>
            tails'[x].at[1] <= Len(changes) /\ tails'[x].at[2] <= Len(upstream)
    BY <1>1, <1>2, <1>14, <1>15 DEF FeedTypeOK
  <2> QED BY <1>1, <1>3, <1>15, <2>1, <2>3, <2>4 DEF FeedTypeOK
<1>17. Lead(changes', upstream', tails', pages')
  <2> SUFFICES ASSUME NEW x \in Stream, tails'[x] # None, pages'[tails'[x].page].conn = x
               PROVE  Chain(changes, upstream, pages'[tails'[x].page].id, tails'[x].pending,
                            tails'[x].at)
    BY <1>3 DEF Lead
  <2>1. CASE x = s
    BY <1>8, <1>12, <1>14, <1>15, <2>1
  <2>2. CASE x # s
    <3>1. tails'[x] = tails[x] /\ tails[x] \in TailRow
      BY <1>1, <1>15, <2>2, Typed
    <3>2. tails[x].page \in Page /\ tails[x].page # p
      BY <1>12, <1>15, <2>2, <3>1 DEF TailRow
    <3>3. pages'[tails[x].page] = pages[tails[x].page]
      BY <1>15, <3>2
    <3> QED BY <1>1, <3>1, <3>3 DEF Lead
  <2> QED BY <2>1, <2>2
<1>18. ASSUME NEW q \in Page PROVE PageHolds(changes', upstream', q, pages'[q])
  BY <1>3, <1>13, <1>15 DEF FeedInv
<1> QED BY <1>1, <1>3, <1>16, <1>17, <1>18 DEF FeedInv

-----------------------------------------------------------------------------
(* The theorems. *)

LEMMA StutterKeeps ==
  ASSUME FeedInv, UNCHANGED feedVars
  PROVE  FeedInv'
<1>1. /\ UNCHANGED <<tails, pages, breaks>> /\ changes' = changes /\ upstream' = upstream
      /\ era' = era /\ settled' = settled
  BY DEF feedVars
<1>2. /\ changes \in Seq(ChangeRow) /\ upstream \in Seq(BOOLEAN)
      /\ era \in 0..SetBacks /\ settled \subseteq DOMAIN changes /\ InTurn(changes, settled)
  BY Typed DEF FeedInv, FeedTypeOK
<1>3. Longer(changes, changes) /\ Longer(upstream, upstream)
  BY <1>2, SameIsLonger
<1> QED BY <1>1, <1>2, <1>3, LogsGrow

LEMMA InvStep ==
  ASSUME FeedInv, [FeedNext]_feedVars
  PROVE  FeedInv'
<1>1. ASSUME NEW shown \in BOOLEAN, Write(shown) \/ Log(shown) PROVE FeedInv'
  BY <1>1, WriteKeeps, LogKeeps
<1>2. ASSUME NEW i \in DOMAIN changes, Settle(i) PROVE FeedInv'
  BY <1>2, SettleKeeps
<1>3. ASSUME NEW s \in Stream, NEW logs \in {{"changes"}, {"upstream"}, {"changes", "upstream"}},
             Fill(s, logs)
      PROVE  FeedInv'
  BY <1>3, FillKeeps
<1>4. ASSUME NEW s \in Stream, Drop(s) \/ Deliver(s) PROVE FeedInv'
  BY <1>4, DropKeeps, DeliverKeeps
<1>5. ASSUME NEW p \in Page, TakeHeads(p) \/ Draw(p) \/ Connect(p) \/ Break(p) PROVE FeedInv'
  BY <1>5, TakeHeadsKeeps, DrawKeeps, ConnectKeeps, BreakKeeps
<1>6. ASSUME NEW p \in Page, Redraw(p) \/ Poll(p) PROVE FeedInv'
  BY <1>6, RedrawKeeps, PollKeeps
<1>7. ASSUME NEW p \in Page, FetchSteps(p) PROVE FeedInv'
  <2>1. PICK f \in pages[p].fetches : Serve(p, f) \/ Arrive(p, f) \/ PutOff(p, f) \/ Fails(p, f)
    BY <1>7 DEF FetchSteps
  <2> QED BY <2>1, ServeKeeps, ArriveKeeps, PutOffKeeps, FailsKeeps
<1>8. CASE SetBack \/ Restart
  BY <1>8, SetBackKeeps, RestartKeeps
<1>9. CASE UNCHANGED feedVars
  BY <1>9, StutterKeeps
<1>10. CASE FeedNext
  BY <1>1, <1>2, <1>3, <1>4, <1>5, <1>6, <1>7, <1>8, <1>10 DEF FeedNext
<1> QED BY <1>9, <1>10

\* The types of ChangeFeed, changes that settle in turn, streams whose events
\* lead from where their pages are, and what holds of every page.
THEOREM FeedInvariant == FeedSpec => []FeedInv
<1>1. (\E opened \in SUBSET Page : FeedInit(opened)) => FeedInv
  BY InvInit
<1>2. FeedInv /\ [FeedNext]_feedVars => FeedInv'
  BY InvStep
<1> QED BY <1>1, <1>2, PTL DEF FeedSpec

\* A page's connection is a stream the server tails for that page, from no further
\* than the logs go, and a page has seen changes there are.
THEOREM FeedTypes == FeedSpec => []FeedTypeOK
<1>1. FeedInv => FeedTypeOK
  BY DEF FeedInv
<1> QED BY <1>1, FeedInvariant, PTL

\* Breaks and resumes never cost a page a row it may see, nor give it one twice.
THEOREM StreamsSkipNoRow == FeedSpec => []StreamsSkipNothing
<1>1. FeedInv => StreamsSkipNothing
  <2> SUFFICES ASSUME FeedInv PROVE StreamsSkipNothing
    OBVIOUS
  <2>1. ASSUME NEW p \in Page PROVE Skips(changes, upstream, pages[p])
    BY PageFacts DEF PageHolds
  <2> QED BY <2>1 DEF StreamsSkipNothing, Skips, Due, Late, Overtaken
<1> QED BY <1>1, FeedInvariant, PTL

\* A change a pick list does not show is on its way to it, unless a redraw has
\* failed or two have crossed.
THEOREM PickListsMissNoChange == FeedSpec => []PickListsMissNothing
<1>1. FeedInv => PickListsMissNothing
  <2> SUFFICES ASSUME FeedInv, NEW p \in PickPage, NEW i \in DOMAIN changes,
                      pages[p].at = "drawn", changes[i].shown, ~Overtaken(i), i \notin pages[p].seen
               PROVE  \/ ToCome(p, i)
                      \/ pages[p].marked # {}
                      \/ \E f \in pages[p].fetches : f.read = None \/ f.read >= i
                      \/ pages[p].hurt # {}
    BY DEF PickListsMissNothing
  <2>1. p \in Page
    BY DEF Page
  <2>2. Misses(changes, pages[p])
    BY <2>1, PageFacts DEF PageHolds
  <2>3. Due(changes, i)
    BY DEF Due, Late, Overtaken
  <2> QED BY <2>2, <2>3 DEF Misses, Waits, ToCome
<1> QED BY <1>1, FeedInvariant, PTL
=============================================================================
