------------------------- MODULE Assignments_proofs -------------------------
(* Proofs about Assignments, and of Rota what they need of distribute and     *)
(* rotation: for any people and pools, schedules and revisions, and requests   *)
(* at a time.                                                                 *)
EXTENDS Assignments, FiniteSetTheorems, WellFoundedInduction, TLAPS

-----------------------------------------------------------------------------
(* Numbers. *)

\* What holds of a, and of a number whenever of the one before, holds.
LEMMA CountUp ==
  ASSUME NEW k \in Nat, NEW G \in SUBSET (0 .. k), 0 \in G,
         \A n \in 1 .. k : n - 1 \in G => n \in G
  PROVE  k \in G
<1> SUFFICES ASSUME k \notin G PROVE FALSE
  OBVIOUS
<1> DEFINE T == (0 .. k) \ G
           R == OpToRel(<, Nat)
<1>1. IsWellFoundedOn(R, Nat)
  BY NatLessThanWellFounded
<1>2. \A n, m \in Nat : m < n => <<m, n>> \in R
  BY DEF OpToRel
<1>3. T \in SUBSET Nat /\ k \in T
  OBVIOUS
<1> HIDE DEF R, T
<1>4. PICK n \in T : \A m \in T : ~ (<<m, n>> \in R)
  BY <1>1, <1>3, WFMin
<1>5. \A m \in T : ~ (m < n)
  BY <1>2, <1>3, <1>4
<1>6. n \in 1 .. k /\ n - 1 \notin T /\ n - 1 \in 0 .. k
  BY <1>5 DEF T
<1> QED BY <1>4, <1>6 DEF T

\* How many of S come before x in the order B.
Rank(S, B, x) == Cardinality({z \in S : <<z, x>> \in B})

\* In a finite set with an order, who comes later has more before them, and as
\* many come before some element as one likes.
LEMMA Ranks ==
  ASSUME NEW S, IsFiniteSet(S), NEW B,
         \A x \in S : <<x, x>> \notin B,
         \A x, y, z \in S : <<x, y>> \in B /\ <<y, z>> \in B => <<x, z>> \in B,
         \A x, y \in S : x # y => <<x, y>> \in B \/ <<y, x>> \in B
  PROVE  /\ \A x \in S : Rank(S, B, x) \in Nat /\ Rank(S, B, x) < Cardinality(S)
         /\ \A x, y \in S : <<x, y>> \in B => Rank(S, B, x) < Rank(S, B, y)
         /\ \A c \in Nat : c < Cardinality(S) => \E x \in S : Rank(S, B, x) = c
<1> DEFINE Before(x) == {z \in S : <<z, x>> \in B}
           k == Cardinality(S)
           T == 0 .. k - 1
           f == [x \in S |-> Cardinality(Before(x))]
<1>1. k \in Nat
  BY FS_CardinalityType
<1>2. \A x \in S : Before(x) \in SUBSET S /\ x \notin Before(x)
  OBVIOUS
<1>3. ASSUME NEW x \in S, NEW y \in S, <<x, y>> \in B
      PROVE  Before(x) \in SUBSET Before(y) /\ x \in Before(y)
  BY <1>3
<1> HIDE DEF Before
<1>4. \A x \in S : IsFiniteSet(Before(x)) /\ Cardinality(Before(x)) \in Nat
  BY <1>2, FS_Subset, FS_CardinalityType
<1>5. ASSUME NEW x \in S PROVE f[x] \in T /\ f[x] \in Nat /\ f[x] < k
  <2>1. IsFiniteSet(Before(x)) /\ Cardinality(Before(x)) <= k /\ (k = Cardinality(Before(x)) => S = Before(x))
    BY <1>2, FS_Subset
  <2>2. Cardinality(Before(x)) # k
    BY <1>2, <2>1
  <2> QED BY <1>1, <1>4, <2>1, <2>2
<1>6. ASSUME NEW x \in S, NEW y \in S, <<x, y>> \in B PROVE f[x] < f[y]
  <2>1. Before(x) \in SUBSET Before(y) /\ x \in Before(y) /\ x \notin Before(x)
    BY <1>2, <1>3, <1>6
  <2>2. IsFiniteSet(Before(y))
    BY <1>4
  <2>3. /\ Cardinality(Before(x)) <= Cardinality(Before(y))
        /\ Cardinality(Before(y)) # Cardinality(Before(x))
    BY <2>1, <2>2, FS_Subset
  <2> QED BY <1>4, <2>3
<1>7. f \in Injection(S, T)
  <2>1. f \in [S -> T]
    BY <1>5
  <2> HIDE DEF f
  <2>2. ASSUME NEW x \in S, NEW y \in S, <<x, y>> \in B PROVE f[x] # f[y]
    <3>1. f[x] \in Nat /\ f[y] \in Nat /\ f[x] < f[y]
      BY <1>5, <1>6, <2>2
    <3> QED BY <3>1
  <2>3. \A x, y \in S : f[x] = f[y] => x = y
    BY Zenon, <2>2
  <2> QED BY <2>1, <2>3 DEF Injection, IsInjective
<1>8. IsFiniteSet(T) /\ Cardinality(T) = k
  <2>1. \A n \in Nat : IsFiniteSet(0 .. n - 1) /\ Cardinality(0 .. n - 1) = n
    BY FS_Interval
  <2> HIDE DEF k, f
  <2> QED BY <1>1, <2>1
<1>9. \A x \in S : f[x] = Cardinality(Before(x))
  OBVIOUS
<1> HIDE DEF T, k, f
<1>10. f \in Surjection(S, T)
  BY <1>7, <1>8, FS_Injection DEF k
<1>11. ASSUME NEW c \in Nat, c < k PROVE \E x \in S : f[x] = c
  <2>1. c \in T
    BY <1>1, <1>11 DEF T
  <2> QED BY <1>10, <2>1 DEF Surjection
<1>12. /\ \A x \in S : Cardinality(Before(x)) \in Nat /\ Cardinality(Before(x)) < k
       /\ \A x, y \in S : <<x, y>> \in B => Cardinality(Before(x)) < Cardinality(Before(y))
       /\ \A c \in Nat : c < k => \E x \in S : Cardinality(Before(x)) = c
  BY <1>5, <1>6, <1>9, <1>11
<1> QED BY Zenon, <1>12 DEF Before, k, Rank

\* So in a finite set of numbers.
Place(S, x) == Cardinality({z \in S : z < x})

LEMMA Places ==
  ASSUME NEW S \in SUBSET Nat, IsFiniteSet(S)
  PROVE  /\ Cardinality(S) \in Nat
         /\ \A x \in S : Place(S, x) \in Nat /\ Place(S, x) < Cardinality(S)
         /\ \A x, y \in S : Place(S, x) = Place(S, y) => x = y
         /\ \A c \in Nat : c < Cardinality(S) => \E x \in S : Place(S, x) = c
<1> DEFINE B == {p \in S \X S : p[1] < p[2]}
<1>1. \A x, y \in S : <<x, y>> \in B <=> x < y
  OBVIOUS
<1>2. \A x \in S : Place(S, x) = Rank(S, B, x)
  <2>1. \A x \in S : {z \in S : <<z, x>> \in B} = {z \in S : z < x}
    BY <1>1
  <2> QED BY <2>1 DEF Rank, Place
<1> HIDE DEF B
<1>3. /\ \A x \in S : <<x, x>> \notin B
      /\ \A x, y, z \in S : <<x, y>> \in B /\ <<y, z>> \in B => <<x, z>> \in B
      /\ \A x, y \in S : x # y => <<x, y>> \in B \/ <<y, x>> \in B
  BY <1>1
<1>4. /\ \A x \in S : Place(S, x) \in Nat /\ Place(S, x) < Cardinality(S)
      /\ \A x, y \in S : <<x, y>> \in B => Place(S, x) < Place(S, y)
      /\ \A c \in Nat : c < Cardinality(S) => \E x \in S : Place(S, x) = c
  <2>1. IsFiniteSet(S)
    OBVIOUS
  <2>2. /\ \A x \in S : Rank(S, B, x) \in Nat /\ Rank(S, B, x) < Cardinality(S)
        /\ \A x, y \in S : <<x, y>> \in B => Rank(S, B, x) < Rank(S, B, y)
        /\ \A c \in Nat : c < Cardinality(S) => \E x \in S : Rank(S, B, x) = c
    BY <1>3, <2>1, Ranks
  <2> QED BY <1>2, <2>2
<1>5. ASSUME NEW x \in S, NEW y \in S, Place(S, x) = Place(S, y) PROVE x = y
  <2>1. ~ (<<x, y>> \in B) /\ ~ (<<y, x>> \in B)
    BY <1>4, <1>5
  <2> QED BY <1>3, <2>1
<1> QED BY <1>4, <1>5, FS_CardinalityType

-----------------------------------------------------------------------------
(* distribute. *)

MatchRecord == [teams : Seq(Nat), played : BOOLEAN]

\* A schedule as the event may have it.
ScheduleOK(s) ==
    /\ s \in Seq(MatchRecord) /\ Len(s) = Len(FirstSchedule)
    /\ \A i \in Match : s[i].teams = FirstSchedule[i].teams \/ s[i].teams \in Revised[i]

Jobs == [match : Match, team : Robot, who : Assignee]
OneEach(S) == \A a, b \in S : a.match = b.match /\ a.team = b.team => a = b

\* A match's duties after some were dealt: those there were are as they were,
\* and the new ones go to people who had none, one each.
Fair(old, new) ==
    /\ \A t \in DOMAIN old : old[t] # None => new[t] = old[t]
    /\ \A t, u \in DOMAIN old :
          old[t] = None /\ new[t] # None =>
              /\ old[u] # new[t]
              /\ old[u] = None /\ new[u] = new[t] => u = t

\* Of a schedule's matches, those up to the n-th may have been dealt.
DutiesOK(s, d) ==
    /\ d = [i \in Match |-> d[i]]
    /\ \A i \in Match : d[i] \in [Teams(s[i]) -> Assignee \cup {None}]

DealtSoFar(s, old, d, n) ==
    /\ DutiesOK(s, d)
    /\ \A i \in Match : Fair(old[i], d[i]) /\ (i > n => d[i] = old[i])

LEMMA ScheduleIs ==
  ASSUME NEW s, ScheduleOK(s), NEW i \in Match
  PROVE  /\ s[i] \in MatchRecord /\ s[i].teams \in Seq(Nat)
         /\ Teams(s[i]) = {s[i].teams[x] : x \in DOMAIN s[i].teams}
         /\ Teams(s[i]) \subseteq Robot
<1>1. s[i] \in MatchRecord
  BY DEF ScheduleOK, Match
<1>2. s[i].teams \in Seq(Nat)
  BY <1>1 DEF MatchRecord
<1>3. Teams(s[i]) = {s[i].teams[x] : x \in DOMAIN s[i].teams}
  BY DEF Teams, Range
<1>4. Teams(s[i]) \subseteq Teams(FirstSchedule[i]) \cup UNION {Range(x) : x \in Revised[i]}
  BY DEF ScheduleOK, Teams
<1>5. Teams(s[i]) \subseteq Robot
  BY <1>4 DEF Robot
<1> QED BY <1>1, <1>2, <1>3, <1>5

LEMMA MatchIs == Match \in SUBSET Nat /\ Len(FirstSchedule) \in Nat /\ Match = 1 .. Len(FirstSchedule)
BY AssignmentsAssumption DEF Match

LEMMA FairStart == ASSUME NEW old PROVE Fair(old, old)
BY DEF Fair

\* The duties before.
LEMMA DutiesIs ==
  ASSUME NEW s, ScheduleOK(s), NEW R \in SUBSET Jobs, OneEach(R)
  PROVE  /\ DutiesOK(s, Duties(s, R))
         /\ \A i \in Match : \A a \in R :
                a.match = i /\ a.team \in Teams(s[i]) => Duties(s, R)[i][a.team] = a.who
<1> DEFINE d == Duties(s, R)
           Has(i, t) == \E a \in R : a.match = i /\ a.team = t
           The(i, t) == CHOOSE a \in R : a.match = i /\ a.team = t
<1>1. d = [i \in Match |-> [t \in Teams(s[i]) |-> IF Has(i, t) THEN The(i, t).who ELSE None]]
  BY DEF Duties, ScheduleOK, Match
<1>2. \A i, t : Has(i, t) => The(i, t) \in R /\ The(i, t).match = i /\ The(i, t).team = t
  OBVIOUS
<1> HIDE DEF Has, The
<1>3. \A i, t : Has(i, t) => The(i, t).who \in Assignee
  BY <1>2 DEF Jobs
<1>4. DutiesOK(s, d)
  <2> HIDE DEF d
  <2> QED BY <1>1, <1>3 DEF DutiesOK
<1>5. ASSUME NEW a \in R, a.match \in Match, a.team \in Teams(s[a.match])
      PROVE  d[a.match][a.team] = a.who
  <2>1. Has(a.match, a.team)
    BY DEF Has
  <2>2. The(a.match, a.team) = a
    BY <1>2, <2>1 DEF OneEach
  <2> HIDE DEF d
  <2> QED BY <1>1, <1>5, <2>1, <2>2
<1> QED BY <1>4, <1>5

\* How many of the free come before f.
Turn(F, f) == Cardinality({g \in F : Sooner(g, f)})

LEMMA LoadIs ==
  ASSUME NEW s, ScheduleOK(s), NEW d, DutiesOK(s, d), NEW i \in Match, NEW k
  PROVE  Load(d, k) \in Nat /\ RunThrough(d, i, k) \in Nat
<1>1. DOMAIN d = Match /\ IsFiniteSet(Match)
  <2>1. DOMAIN d = Match
    BY DEF DutiesOK
  <2> QED BY <2>1, MatchIs, FS_Interval
<1>2. RunThrough(d, i, k) \in Nat
  <2> DEFINE run == {j \in DOMAIN d : \A x \in DOMAIN d :
                         (j <= x /\ x < i) \/ (i < x /\ x <= j) => OnDuty(d, x, k)}
  <2>1. IsFiniteSet(run)
    BY <1>1, FS_Subset
  <2> QED BY <2>1, FS_CardinalityType DEF RunThrough
<1>3. \A j \in Match : IsFiniteSet({j} \X DOMAIN d[j])
  <2> TAKE j \in Match
  <2> DEFINE teams == s[j].teams
  <2>1. teams \in Seq(Nat) /\ Teams(s[j]) = {teams[x] : x \in DOMAIN teams} /\ DOMAIN d[j] = Teams(s[j])
    BY ScheduleIs DEF DutiesOK
  <2> HIDE DEF teams
  <2>2. IsFiniteSet(DOMAIN teams)
    <3>1. DOMAIN teams = 1 .. Len(teams) /\ Len(teams) \in Nat
      BY <2>1
    <3> QED BY <3>1, FS_Interval
  <2>3. teams \in Surjection(DOMAIN teams, Teams(s[j]))
    BY <2>1 DEF Surjection
  <2>4. IsFiniteSet(Teams(s[j]))
    BY <2>2, <2>3, FS_Surjection
  <2>5. IsFiniteSet({j})
    BY FS_Singleton
  <2> QED BY <2>1, <2>4, <2>5, FS_Product
<1> DEFINE posts == {{j} \X DOMAIN d[j] : j \in Match}
           f == [j \in Match |-> {j} \X DOMAIN d[j]]
<1>4. f \in Surjection(Match, posts)
  BY DEF Surjection
<1>5. IsFiniteSet(posts) /\ \A P \in posts : IsFiniteSet(P)
  <2>1. \A P \in posts : IsFiniteSet(P)
    BY <1>3
  <2> HIDE DEF posts, f
  <2> QED BY <1>1, <1>4, <2>1, FS_Surjection
<1>6. IsFiniteSet(UNION posts)
  <2> HIDE DEF posts
  <2> QED BY <1>5, FS_UNION
<1> DEFINE his == {p \in UNION posts : d[p[1]][p[2]] = k}
<1>7. Load(d, k) = Cardinality(his)
  BY <1>1 DEF Load
<1>8. his \in SUBSET (UNION posts)
  OBVIOUS
<1> HIDE DEF his, posts
<1>9. Cardinality(his) \in Nat
  BY <1>6, <1>8, FS_Subset, FS_CardinalityType
<1> QED BY <1>2, <1>7, <1>9

\* The free are finitely many and in an order.
LEMMA Turns ==
  ASSUME NEW s, ScheduleOK(s), NEW d, DutiesOK(s, d), NEW i \in Match, NEW pool \in Pools \cup AnyPools,
         NEW F, F = Free(d, i, pool)
  PROVE  /\ Cardinality(F) \in Nat
         /\ \A f \in F : Turn(F, f) \in Nat /\ Turn(F, f) < Cardinality(F)
         /\ \A f, g \in F : Sooner(f, g) => Turn(F, f) < Turn(F, g)
         /\ \A f, g \in F : Turn(F, f) = Turn(F, g) => f = g
         /\ \A c \in Nat : c < Cardinality(F) => \E f \in F : Turn(F, f) = c
<1> DEFINE X == {x \in 1 .. Len(pool) : ~ OnDuty(d, i, pool[x])}
           As(n) == [who |-> pool[n], at |-> n, load |-> Load(d, pool[n]),
                     tired |-> RunThrough(d, i, pool[n]) > LongestRun]
           h == [n \in X |-> As(n)]
           B == {p \in F \X F : Sooner(p[1], p[2])}
<1>1. F = {As(n) : n \in X}
  BY DEF Free
<1>2. IsFiniteSet(X) /\ X \in SUBSET Nat
  <2>1. Len(pool) \in Nat
    BY AssignmentsAssumption
  <2>2. IsFiniteSet(1 .. Len(pool))
    BY <2>1, FS_Interval
  <2> QED BY <2>1, <2>2, FS_Subset
<1>3. IsFiniteSet(F)
  <2>1. h \in Surjection(X, F)
    <3> HIDE DEF X, As
    <3> QED BY <1>1 DEF Surjection
  <2> HIDE DEF h, X
  <2> QED BY <1>2, <2>1, FS_Surjection
<1>4. \A n \in X : n \in Nat /\ Load(d, pool[n]) \in Nat
  BY <1>2, LoadIs
<1>5. ASSUME NEW f \in F
      PROVE  \E n \in X : f.at \in Nat /\ f.load \in Nat /\ f.tired \in BOOLEAN /\ f = As(n) /\ f.at = n
  <2>1. PICK n \in X : f = As(n)
    BY <1>1
  <2>2. f.at = n /\ f.load = Load(d, pool[n]) /\ f.tired = (RunThrough(d, i, pool[n]) > LongestRun)
    BY <2>1
  <2>3. f.tired \in BOOLEAN
    BY <2>2
  <2> HIDE DEF X, As
  <2> QED BY <1>4, <2>1, <2>2, <2>3
<1> HIDE DEF X, As, h
<1>6. \A f, g \in F : f.at = g.at => f = g
  BY <1>5
<1>7. \A f \in F : f.at \in Nat /\ f.load \in Nat /\ f.tired \in BOOLEAN
  BY <1>5
<1>8. \A f, g \in F : <<f, g>> \in B <=> Sooner(f, g)
  OBVIOUS
<1>9. \A f \in F : Turn(F, f) = Rank(F, B, f)
  <2>1. \A f \in F : {g \in F : <<g, f>> \in B} = {g \in F : Sooner(g, f)}
    BY <1>8
  <2> QED BY <2>1 DEF Rank, Turn
<1> HIDE DEF B
<1>10. \A f \in F : <<f, f>> \notin B
  BY <1>7, <1>8 DEF Sooner
<1>11. \A f, g, e \in F : <<f, g>> \in B /\ <<g, e>> \in B => <<f, e>> \in B
  <2> SUFFICES ASSUME NEW f \in F, NEW g \in F, NEW e \in F, Sooner(f, g), Sooner(g, e)
               PROVE  Sooner(f, e)
    BY <1>8
  <2> QED BY <1>7 DEF Sooner
<1>12. \A f, g \in F : f # g => <<f, g>> \in B \/ <<g, f>> \in B
  <2> SUFFICES ASSUME NEW f \in F, NEW g \in F, f.at # g.at
               PROVE  Sooner(f, g) \/ Sooner(g, f)
    BY <1>6, <1>8
  <2> QED BY <1>7 DEF Sooner
<1>13. /\ \A f \in F : Turn(F, f) \in Nat /\ Turn(F, f) < Cardinality(F)
       /\ \A f, g \in F : <<f, g>> \in B => Turn(F, f) < Turn(F, g)
       /\ \A c \in Nat : c < Cardinality(F) => \E f \in F : Turn(F, f) = c
  BY <1>3, <1>9, <1>10, <1>11, <1>12, Ranks
<1>14. ASSUME NEW f \in F, NEW g \in F, Turn(F, f) = Turn(F, g) PROVE f = g
  <2>1. ~ (<<f, g>> \in B) /\ ~ (<<g, f>> \in B)
    BY <1>13, <1>14
  <2> QED BY <1>12, <2>1
<1> QED BY <1>3, <1>8, <1>13, <1>14, FS_CardinalityType

\* A match's open robots go to people who have none of it, one each.
LEMMA DealIs ==
  ASSUME NEW s, ScheduleOK(s), NEW d, DutiesOK(s, d), NEW i \in Match, NEW pool \in Pools \cup AnyPools
  PROVE  /\ DutiesOK(s, Deal(s, d, i, pool))
         /\ \A j \in Match \ {i} : Deal(s, d, i, pool)[j] = d[j]
         /\ Fair(d[i], Deal(s, d, i, pool)[i])
<1> DEFINE teams == s[i].teams
           open  == {x \in DOMAIN teams : d[i][teams[x]] = None}
           free  == Free(d, i, pool)
           Gets(t, f) == \E x \in open : teams[x] = t /\ Place(open, x) = Turn(free, f)
           Got(t) == \E f \in free : Gets(t, f)
           To(t)  == CHOOSE f \in free : Gets(t, f)
           new == [t \in DOMAIN d[i] |-> IF Got(t) THEN To(t).who ELSE d[i][t]]
<1>1. Deal(s, d, i, pool) = [d EXCEPT ![i] = new]
  BY DEF Deal, Place, Turn
<1>2. /\ pool \in Seq(Assignee)
      /\ \A n, m \in 1 .. Len(pool) : pool[n] = pool[m] => n = m
  BY AssignmentsAssumption
<1>3. \A f \in free : \E n \in 1 .. Len(pool) : f.who = pool[n] /\ f.at = n /\ ~ OnDuty(d, i, pool[n])
                        /\ f.load = Load(d, pool[n]) /\ f.tired = (RunThrough(d, i, pool[n]) > LongestRun)
                        /\ f = [who |-> pool[n], at |-> n, load |-> Load(d, pool[n]),
                                tired |-> RunThrough(d, i, pool[n]) > LongestRun]
  BY DEF Free
<1>4. \A f \in free : f.who \in Assignee /\ f.who # None /\ ~ OnDuty(d, i, f.who)
  <2>1. None \notin Assignee
    BY AssignmentsAssumption
  <2>2. \A n \in 1 .. Len(pool) : pool[n] \in Assignee
    BY <1>2
  <2>3. \A f \in free : \E n \in 1 .. Len(pool) : f.who = pool[n] /\ ~ OnDuty(d, i, pool[n])
    BY Zenon, <1>3
  <2> HIDE DEF free
  <2> QED BY <2>1, <2>2, <2>3
<1>5. \A f, g \in free : f.who = g.who => f = g
  BY <1>2, <1>3
<1>6. IsFiniteSet(open) /\ open \in SUBSET Nat
  <2>1. teams \in Seq(Nat)
    BY ScheduleIs
  <2>2. DOMAIN teams = 1 .. Len(teams) /\ Len(teams) \in Nat
    BY <2>1
  <2>3. IsFiniteSet(1 .. Len(teams))
    BY <2>2, FS_Interval
  <2> QED BY <2>2, <2>3, FS_Subset
<1> HIDE DEF teams, open, free
<1>7. \A x, y \in open : Place(open, x) = Place(open, y) => x = y
  BY <1>6, Places
<1>8. \A t : Got(t) => To(t) \in free /\ Gets(t, To(t))
  OBVIOUS
<1>9. \A t, u, f : Gets(t, f) /\ Gets(u, f) => t = u
  BY <1>7
<1>10. \A t, f : Gets(t, f) => d[i][t] = None
  BY DEF open
<1> HIDE DEF Gets, Got, To
<1>11. d[i] \in [Teams(s[i]) -> Assignee \cup {None}]
  BY DEF DutiesOK
<1>12. new \in [Teams(s[i]) -> Assignee \cup {None}]
  BY <1>4, <1>8, <1>11
<1>13. Fair(d[i], new)
  <2> SUFFICES ASSUME NEW t \in DOMAIN d[i], NEW u \in DOMAIN d[i]
               PROVE  /\ d[i][t] # None => new[t] = d[i][t]
                      /\ d[i][t] = None /\ new[t] # None =>
                            /\ d[i][u] # new[t]
                            /\ d[i][u] = None /\ new[u] = new[t] => u = t
    BY DEF Fair
  <2>1. d[i][t] # None => new[t] = d[i][t]
    BY <1>8, <1>10
  <2>2. ASSUME d[i][t] = None, new[t] # None
        PROVE  d[i][u] # new[t] /\ (d[i][u] = None /\ new[u] = new[t] => u = t)
    <3>1. Got(t) /\ new[t] = To(t).who /\ To(t) \in free /\ Gets(t, To(t))
      BY <1>8, <2>2
    <3>2. ~ OnDuty(d, i, new[t])
      BY <1>4, <3>1
    <3>3. d[i][u] # new[t]
      BY <3>2 DEF OnDuty
    <3>4. ASSUME d[i][u] = None, new[u] = new[t] PROVE u = t
      <4>1. Got(u) /\ new[u] = To(u).who /\ To(u) \in free /\ Gets(u, To(u))
        BY <1>8, <2>2, <3>4
      <4>2. To(u) = To(t)
        BY <1>5, <3>1, <3>4, <4>1
      <4> QED BY <1>9, <3>1, <4>1, <4>2
    <3> QED BY <3>3, <3>4
  <2> QED BY <2>1, <2>2
<1> HIDE DEF new
<1>14. \A j \in Match : [d EXCEPT ![i] = new][j] = IF j = i THEN new ELSE d[j]
  BY DEF DutiesOK
<1>15. DutiesOK(s, [d EXCEPT ![i] = new])
  BY <1>12, <1>14 DEF DutiesOK
<1> QED BY <1>1, <1>13, <1>14, <1>15

\* No robot stays open while somebody in the pool is free.
Served(d, i, pool) ==
    \/ \A t \in DOMAIN d[i] : d[i][t] # None
    \/ \A k \in Range(pool) : OnDuty(d, i, k)

\* Who is tired gets a robot only if nobody could rest them.
Rested(old, new, i, pool) ==
    \A t \in DOMAIN old[i] : old[i][t] = None /\ new[i][t] # None =>
        \/ RunThrough(old, i, new[i][t]) <= LongestRun
        \/ \A k \in Range(pool) : OnDuty(new, i, k) \/ RunThrough(old, i, k) > LongestRun

Different(q) == \A x, y \in DOMAIN q : q[x] = q[y] => x = y

LEMMA DealServes ==
  ASSUME NEW s, ScheduleOK(s), NEW d, DutiesOK(s, d), NEW i \in Match, NEW pool \in Pools \cup AnyPools,
         Different(s[i].teams), NEW new, new = Deal(s, d, i, pool)
  PROVE  Served(new, i, pool) /\ Rested(d, new, i, pool)
<1> DEFINE teams == s[i].teams
           open  == {x \in DOMAIN teams : d[i][teams[x]] = None}
           free  == Free(d, i, pool)
           Gets(t, f) == \E x \in open : teams[x] = t /\ Place(open, x) = Turn(free, f)
           Got(t) == \E f \in free : Gets(t, f)
           To(t)  == CHOOSE f \in free : Gets(t, f)
           given == [t \in DOMAIN d[i] |-> IF Got(t) THEN To(t).who ELSE d[i][t]]
<1>1. new = [d EXCEPT ![i] = given]
  BY DEF Deal, Place, Turn
<1>2. /\ DOMAIN d[i] = Teams(s[i]) /\ DOMAIN given = Teams(s[i])
      /\ teams \in Seq(Nat) /\ Teams(s[i]) = {teams[x] : x \in DOMAIN teams}
  BY ScheduleIs DEF DutiesOK
<1>3. new[i] = given /\ DOMAIN new[i] = DOMAIN d[i]
  <2> HIDE DEF given
  <2> QED BY <1>1, <1>2 DEF DutiesOK
<1>4. Fair(d[i], new[i])
  BY DealIs
<1>5. /\ None \notin Assignee
      /\ \A k \in Range(pool) : k \in Assignee /\ \E n \in 1 .. Len(pool) : pool[n] = k
  BY AssignmentsAssumption DEF Range
<1>6. \A f \in free : f.who # None
  <2>1. \A f \in free : \E n \in 1 .. Len(pool) : f.who = pool[n]
    BY DEF Free
  <2>2. \A n \in 1 .. Len(pool) : pool[n] \in Assignee
    BY AssignmentsAssumption
  <2> HIDE DEF free
  <2> QED BY <1>5, <2>1, <2>2
<1>7. \A t \in DOMAIN d[i] : d[i][t] = None => \E x \in open : teams[x] = t
  BY <1>2
<1>8. \A x \in open : teams[x] \in DOMAIN d[i] /\ x \in DOMAIN teams
  BY <1>2
<1>9. IsFiniteSet(open) /\ open \in SUBSET Nat
  <2>1. DOMAIN teams = 1 .. Len(teams) /\ Len(teams) \in Nat
    BY <1>2
  <2>2. IsFiniteSet(1 .. Len(teams))
    BY <2>1, FS_Interval
  <2> QED BY <2>1, <2>2, FS_Subset
<1>10. \A k \in Range(pool) :
           \/ OnDuty(d, i, k)
           \/ \E f \in free : f.who = k /\ f.tired = (RunThrough(d, i, k) > LongestRun)
  <2> SUFFICES ASSUME NEW k \in Range(pool), ~ OnDuty(d, i, k)
               PROVE  \E f \in free : f.who = k /\ f.tired = (RunThrough(d, i, k) > LongestRun)
    OBVIOUS
  <2>1. PICK n \in 1 .. Len(pool) : pool[n] = k
    BY <1>5
  <2> DEFINE f == [who |-> pool[n], at |-> n, load |-> Load(d, pool[n]),
                   tired |-> RunThrough(d, i, pool[n]) > LongestRun]
  <2>2. f \in free
    BY <2>1 DEF Free
  <2>3. f.who = k /\ f.tired = (RunThrough(d, i, k) > LongestRun)
    BY <2>1
  <2> HIDE DEF f, free
  <2> QED BY <2>2, <2>3
<1>11. \A x, y \in DOMAIN teams : teams[x] = teams[y] => x = y
  BY DEF Different
<1>12. /\ Cardinality(free) \in Nat
       /\ \A f \in free : Turn(free, f) \in Nat /\ Turn(free, f) < Cardinality(free)
       /\ \A f, g \in free : Sooner(f, g) => Turn(free, f) < Turn(free, g)
       /\ \A f, g \in free : Turn(free, f) = Turn(free, g) => f = g
       /\ \A c \in Nat : c < Cardinality(free) => \E f \in free : Turn(free, f) = c
  <2> HIDE DEF free
  <2>1. free = Free(d, i, pool)
    BY DEF free
  <2> QED BY <2>1, Turns
<1> HIDE DEF teams, open, free
<1>13. /\ Cardinality(open) \in Nat
       /\ \A x \in open : Place(open, x) \in Nat /\ Place(open, x) < Cardinality(open)
       /\ \A c \in Nat : c < Cardinality(open) => \E x \in open : Place(open, x) = c
  BY <1>9, Places
<1>14. ASSUME NEW f \in free, NEW x \in open, Place(open, x) = Turn(free, f)
       PROVE  new[i][teams[x]] = f.who
  <2>1. Gets(teams[x], f)
    BY <1>14
  <2> DEFINE g == To(teams[x])
  <2>2. Got(teams[x]) /\ g \in free /\ Gets(teams[x], g)
    BY <2>1
  <2>3. PICK y \in open : teams[y] = teams[x] /\ Place(open, y) = Turn(free, g)
    BY <2>2
  <2>4. y = x
    BY <1>8, <1>11, <2>3
  <2>5. g = f
    <3> HIDE DEF g
    <3> QED BY <1>12, <1>14, <2>2, <2>3, <2>4
  <2>6. given[teams[x]] = g.who
    BY <1>8, <2>2
  <2> HIDE DEF given, g
  <2> QED BY <1>3, <2>5, <2>6
<1>15. ASSUME NEW f \in free, Turn(free, f) < Cardinality(open)
       PROVE  OnDuty(new, i, f.who)
  <2>1. PICK x \in open : Place(open, x) = Turn(free, f)
    BY <1>12, <1>13, <1>15
  <2>2. new[i][teams[x]] = f.who /\ teams[x] \in DOMAIN new[i]
    BY <1>3, <1>8, <1>14, <2>1
  <2> QED BY <2>2 DEF OnDuty
<1>16. \A k \in Range(pool) : OnDuty(d, i, k) => OnDuty(new, i, k)
  BY <1>3, <1>4, <1>5 DEF OnDuty, Fair
<1>17. ASSUME NEW t \in DOMAIN d[i], d[i][t] = None, new[i][t] # None
       PROVE  \E f \in free, x \in open : new[i][t] = f.who /\ Place(open, x) = Turn(free, f)
  <2>1. Got(t)
    BY <1>3, <1>17
  <2>2. To(t) \in free /\ Gets(t, To(t)) /\ new[i][t] = To(t).who
    BY <1>3, <2>1
  <2> QED BY <2>2
<1> HIDE DEF Gets, Got, To, given
<1>18. Served(new, i, pool)
  <2> SUFFICES ASSUME NEW t \in DOMAIN new[i], new[i][t] = None, NEW k \in Range(pool), ~ OnDuty(d, i, k)
               PROVE  OnDuty(new, i, k)
    BY <1>16 DEF Served
  <2>1. d[i][t] = None
    BY <1>3, <1>4 DEF Fair
  <2>2. PICK x \in open : teams[x] = t
    BY <1>3, <1>7, <2>1
  <2>3. \A f \in free : Turn(free, f) # Place(open, x)
    BY <1>6, <1>14, <2>2
  <2>4. ~ (Place(open, x) < Cardinality(free))
    BY <1>12, <1>13, <2>3
  <2>5. PICK f \in free : f.who = k
    BY <1>10
  <2>6. Turn(free, f) < Cardinality(open)
    BY <1>12, <1>13, <2>4
  <2> QED BY <1>15, <2>5, <2>6
<1>19. Rested(d, new, i, pool)
  <2> SUFFICES ASSUME NEW t \in DOMAIN d[i], d[i][t] = None, new[i][t] # None,
                      ~ (RunThrough(d, i, new[i][t]) <= LongestRun),
                      NEW k \in Range(pool), ~ OnDuty(new, i, k), ~ (RunThrough(d, i, k) > LongestRun)
               PROVE  FALSE
    BY DEF Rested
  <2>1. PICK f \in free, x \in open : new[i][t] = f.who /\ Place(open, x) = Turn(free, f)
    BY <1>17
  <2>2. f.tired
    <3>1. f.tired = (RunThrough(d, i, f.who) > LongestRun)
      BY DEF free, Free
    <3>2. RunThrough(d, i, f.who) \in Nat /\ LongestRun \in Nat
      BY LoadIs, RotaAssumption
    <3>3. RunThrough(d, i, f.who) > LongestRun
      BY <2>1, <3>2
    <3> QED BY <3>1, <3>3
  <2>3. PICK g \in free : g.who = k /\ ~ g.tired
    BY <1>10, <1>16
  <2>4. Turn(free, g) < Turn(free, f)
    <3>1. Sooner(g, f)
      BY <2>2, <2>3 DEF Sooner
    <3> QED BY <1>12, <3>1
  <2>5. Turn(free, g) < Cardinality(open)
    BY <1>12, <1>13, <2>1, <2>4
  <2> QED BY <1>15, <2>3, <2>5
<1> QED BY <1>18, <1>19

\* The duties that Dealt goes through.
Step(s, pool, limit, d, i) == IF i \in ToFill(s, limit) THEN Deal(s, d, i, pool) ELSE d

Through(after, k, s, old, pool, limit) ==
    after = [i \in 0 .. k |-> IF i = 0 THEN old ELSE Step(s, pool, limit, after[i - 1], i)]

LEMMA DutiesExist ==
  ASSUME NEW k \in Nat, NEW s, NEW old, NEW pool, NEW limit
  PROVE  \E after : Through(after, k, s, old, pool, limit)
<1> DEFINE Goes(after, m) == Through(after, m, s, old, pool, limit)
           G == {m \in 0 .. k : \E after : Goes(after, m)}
<1>1. 0 \in G
  <2>1. Goes([n \in 0 .. 0 |-> old], 0)
    BY DEF Through
  <2> HIDE DEF Goes
  <2> QED BY <2>1
<1>2. ASSUME NEW m \in 1 .. k, m - 1 \in G PROVE m \in G
  <2>1. PICK f : Goes(f, m - 1)
    BY <1>2
  <2> DEFINE g == [n \in 0 .. m |-> IF n = m THEN Step(s, pool, limit, f[m - 1], m) ELSE f[n]]
  <2>2. \A n \in 0 .. m - 1 : f[n] = IF n = 0 THEN old ELSE Step(s, pool, limit, f[n - 1], n)
    BY Zenon, <2>1 DEF Through
  <2>3. \A n \in 0 .. m : g[n] = IF n = 0 THEN old ELSE Step(s, pool, limit, g[n - 1], n)
    <3> SUFFICES ASSUME NEW n \in 0 .. m
                 PROVE  g[n] = IF n = 0 THEN old ELSE Step(s, pool, limit, g[n - 1], n)
      OBVIOUS
    <3>1. CASE n = m
      <4>1. n # 0 /\ n - 1 \in 0 .. m /\ n - 1 # m
        BY <3>1
      <4> QED BY <3>1, <4>1
    <3>2. CASE n # m
      <4>1. n \in 0 .. m - 1 /\ (n # 0 => n - 1 \in 0 .. m /\ n - 1 # m)
        BY <3>2
      <4> QED BY <2>2, <3>2, <4>1
    <3> QED BY <3>1, <3>2
  <2>4. Goes(g, m)
    BY <2>3 DEF Through
  <2> HIDE DEF Goes, g
  <2> QED BY <2>4
<1>3. G \in SUBSET (0 .. k)
  OBVIOUS
<1> HIDE DEF G
<1>4. k \in G
  BY <1>1, <1>2, <1>3, CountUp
<1> QED BY <1>4 DEF G

\* The duties before, and after each match.
Goes(after, s, R, pool, limit) ==
    \A n \in 0 .. Len(s) :
        after[n] = IF n = 0 THEN Duties(s, R) ELSE Step(s, pool, limit, after[n - 1], n)

LEMMA DealtGoes ==
  ASSUME NEW s, ScheduleOK(s), NEW R, NEW pool, NEW limit
  PROVE  \E after : Goes(after, s, R, pool, limit) /\ Dealt(s, R, pool, limit) = after[Len(s)]
<1> DEFINE old == Duties(s, R)
           k == Len(s)
           after == CHOOSE after : Through(after, k, s, old, pool, limit)
<1>1. Through(after, k, s, old, pool, limit)
  <2>1. k \in Nat
    BY DEF ScheduleOK
  <2> HIDE DEF k, old
  <2>2. \E f : Through(f, k, s, old, pool, limit)
    BY <2>1, DutiesExist
  <2> QED BY Zenon, <2>2
<1>2. Dealt(s, R, pool, limit) = after[k]
  BY Zenon DEF Dealt, Step, Through
<1> HIDE DEF after
<1>3. Goes(after, s, R, pool, limit)
  BY Zenon, <1>1 DEF Through, Goes
<1> QED BY <1>2, <1>3

\* Match after match is dealt, each fairly and each once.
LEMMA DealtIs ==
  ASSUME NEW s, ScheduleOK(s), NEW R \in SUBSET Jobs, OneEach(R), NEW pool \in Pools \cup AnyPools, NEW limit
  PROVE  /\ DealtSoFar(s, Duties(s, R), Dealt(s, R, pool, limit), Len(s))
         /\ (\A i \in Match : Different(s[i].teams)) =>
                \A i \in ToFill(s, limit) : Served(Dealt(s, R, pool, limit), i, pool)
<1> DEFINE old == Duties(s, R)
           k == Len(s)
           All(d, n) == (\A i \in Match : Different(s[i].teams)) =>
                            \A i \in ToFill(s, limit) : i <= n => Served(d, i, pool)
<1>1. k \in Nat /\ Match = 1 .. k
  BY MatchIs DEF ScheduleOK
<1>2. PICK after : Goes(after, s, R, pool, limit) /\ Dealt(s, R, pool, limit) = after[k]
  BY DealtGoes
<1>3. \A i \in ToFill(s, limit) : i \in Match
  BY <1>1 DEF ToFill
<1>4. DutiesOK(s, old)
  BY DutiesIs
<1> HIDE DEF old
<1>5. \A n \in 0 .. k : after[n] = IF n = 0 THEN old ELSE Step(s, pool, limit, after[n - 1], n)
  BY Zenon, <1>2 DEF Goes, old
<1> HIDE DEF k, All
<1> DEFINE G == {n \in 0 .. k : DealtSoFar(s, old, after[n], n) /\ All(after[n], n)}
<1>6. 0 \in G
  <2>1. 0 \in 0 .. k /\ after[0] = old
    BY <1>1, <1>5
  <2>2. All(old, 0)
    BY <1>1, <1>3 DEF All
  <2> QED BY <1>4, <2>1, <2>2, FairStart DEF DealtSoFar
<1>7. ASSUME NEW n \in 1 .. k, n - 1 \in G PROVE n \in G
  <2> DEFINE d == after[n - 1]
  <2>1. n \in 0 .. k /\ n # 0 /\ n \in Match /\ n \in Nat
    BY <1>1
  <2>2. DealtSoFar(s, old, d, n - 1) /\ All(d, n - 1)
    BY <1>7
  <2>3. after[n] = Step(s, pool, limit, d, n)
    BY <1>5, <2>1
  <2> HIDE DEF d
  <2>4. DutiesOK(s, d) /\ d[n] = old[n]
    BY <2>1, <2>2 DEF DealtSoFar
  <2>5. /\ DutiesOK(s, after[n]) /\ Fair(old[n], after[n][n])
        /\ \A i \in Match \ {n} : after[n][i] = d[i]
    <3>1. CASE n \in ToFill(s, limit)
      <4>1. after[n] = Deal(s, d, n, pool)
        BY <2>3, <3>1 DEF Step
      <4> QED BY <2>1, <2>4, <4>1, DealIs
    <3>2. CASE n \notin ToFill(s, limit)
      <4>1. after[n] = d
        BY <2>3, <3>2 DEF Step
      <4> QED BY <2>4, <4>1, FairStart
    <3> QED BY <3>1, <3>2
  <2>6. ASSUME NEW i \in Match PROVE Fair(old[i], after[n][i]) /\ (i > n => after[n][i] = old[i])
    <3>1. CASE i = n
      BY <2>1, <2>5, <3>1
    <3>2. CASE i # n
      <4>1. after[n][i] = d[i] /\ Fair(old[i], d[i]) /\ (i > n => i > n - 1) /\ (i > n - 1 => d[i] = old[i])
        BY <1>1, <2>1, <2>2, <2>5, <3>2 DEF DealtSoFar
      <4> QED BY <4>1
    <3> QED BY <3>1, <3>2
  <2>7. DealtSoFar(s, old, after[n], n)
    BY <2>5, <2>6 DEF DealtSoFar
  <2>8. All(after[n], n)
    <3> SUFFICES ASSUME \A i \in Match : Different(s[i].teams), NEW i \in ToFill(s, limit), i <= n
                 PROVE  Served(after[n], i, pool)
      BY DEF All
    <3>1. CASE i = n
      <4>1. after[n] = Deal(s, d, n, pool)
        BY <2>3, <3>1 DEF Step
      <4> QED BY <2>1, <2>4, <3>1, <4>1, DealServes
    <3>2. CASE i # n
      <4>1. i \in Match /\ i <= n - 1 /\ after[n][i] = d[i]
        BY <1>1, <1>3, <2>1, <2>5, <3>2
      <4>2. Served(d, i, pool)
        BY <2>2, <4>1 DEF All
      <4> QED BY <4>1, <4>2 DEF Served, OnDuty
    <3> QED BY <3>1, <3>2
  <2> QED BY <2>1, <2>7, <2>8
<1>8. G \in SUBSET (0 .. k)
  OBVIOUS
<1> HIDE DEF G
<1>9. k \in G
  BY <1>1, <1>6, <1>7, <1>8, CountUp
<1>10. \A i \in ToFill(s, limit) : i <= k
  BY <1>1, <1>3
<1> QED BY <1>2, <1>9, <1>10 DEF G, k, old, All

\* One match more is filled, if any, and it is the last.
LEMMA ToFillIs ==
  ASSUME NEW s, ScheduleOK(s), NEW limit \in Nat \ {0}
  PROVE  /\ ToFill(s, limit) \in SUBSET Match /\ ToFill(s, limit - 1) \in SUBSET ToFill(s, limit)
         /\ \A m \in ToFill(s, limit) \ ToFill(s, limit - 1), n \in ToFill(s, limit) :
                n <= m /\ (n # m => n \in ToFill(s, limit - 1))
<1> DEFINE U(i) == {j \in 1 .. i : ~ s[j].played}
<1>1. 1 .. Len(s) = Match /\ Match \in SUBSET Nat
  BY MatchIs DEF ScheduleOK
<1>2. ASSUME NEW i \in Match PROVE IsFiniteSet(U(i)) /\ Cardinality(U(i)) \in Nat
  <2>1. IsFiniteSet(1 .. i)
    BY <1>1, FS_Interval
  <2> QED BY <2>1, FS_Subset, FS_CardinalityType
<1>3. ASSUME NEW i \in Match, NEW j \in Match, i < j, ~ s[j].played
      PROVE  Cardinality(U(i)) < Cardinality(U(j))
  <2>1. U(i) \in SUBSET U(j) /\ j \in U(j) /\ j \notin U(i)
    BY <1>1, <1>3
  <2> HIDE DEF U
  <2>2. /\ Cardinality(U(i)) <= Cardinality(U(j))
        /\ Cardinality(U(i)) # Cardinality(U(j))
    BY <1>2, <2>1, FS_Subset
  <2> QED BY <1>2, <2>2
<1>4. \A n, i : i \in ToFill(s, n) <=> i \in Match /\ ~ s[i].played /\ Cardinality(U(i)) <= n
  BY <1>1 DEF ToFill
<1> HIDE DEF U
<1>5. ToFill(s, limit - 1) \in SUBSET ToFill(s, limit)
  BY <1>2, <1>4
<1>6. ASSUME NEW m \in ToFill(s, limit) \ ToFill(s, limit - 1), NEW n \in ToFill(s, limit)
      PROVE  n <= m /\ (n # m => n \in ToFill(s, limit - 1))
  <2>1. /\ m \in Match /\ ~ s[m].played /\ Cardinality(U(m)) = limit
        /\ n \in Match /\ ~ s[n].played /\ Cardinality(U(n)) <= limit /\ Cardinality(U(n)) \in Nat
    BY <1>2, <1>4
  <2>2. ~ (m < n)
    BY <1>3, <2>1
  <2>3. n < m => Cardinality(U(n)) <= limit - 1
    BY <1>3, <2>1
  <2> QED BY <1>1, <1>4, <2>1, <2>2, <2>3
<1> QED BY <1>4, <1>5, <1>6

\* It is dealt as the others leave it.
LEMMA NextDealt ==
  ASSUME NEW s, ScheduleOK(s), NEW R, NEW pool, NEW limit \in Nat \ {0}
  PROVE  LET old == Dealt(s, R, pool, limit - 1)
             new == Dealt(s, R, pool, limit)
         IN  new = old \/ \E m \in Match : new = Deal(s, old, m, pool)
<1>1. PICK a : Goes(a, s, R, pool, limit - 1) /\ Dealt(s, R, pool, limit - 1) = a[Len(s)]
  BY DealtGoes
<1>2. PICK b : Goes(b, s, R, pool, limit) /\ Dealt(s, R, pool, limit) = b[Len(s)]
  BY DealtGoes
<1> DEFINE k == Len(s)
<1>3. k \in Nat /\ Match = 1 .. k
  BY MatchIs DEF ScheduleOK
<1>4. \A n \in 1 .. k : /\ a[n] = Step(s, pool, limit - 1, a[n - 1], n)
                        /\ b[n] = Step(s, pool, limit, b[n - 1], n)
  BY <1>1, <1>2, <1>3 DEF Goes
<1>5. a[0] = b[0]
  BY <1>1, <1>2, <1>3 DEF Goes
<1> HIDE DEF k
<1>6. CASE \A n \in 1 .. k : n \in ToFill(s, limit) <=> n \in ToFill(s, limit - 1)
  <2> DEFINE G == {n \in 0 .. k : b[n] = a[n]}
  <2>1. 0 \in G /\ G \in SUBSET (0 .. k)
    BY <1>3, <1>5
  <2>2. ASSUME NEW n \in 1 .. k, n - 1 \in G PROVE n \in G
    <3>1. b[n] = a[n]
      BY <1>4, <1>6, <2>2 DEF Step
    <3> QED BY <1>3, <3>1
  <2> HIDE DEF G
  <2>3. k \in G
    BY <1>3, <2>1, <2>2, CountUp
  <2> QED BY <1>1, <1>2, <2>3 DEF G, k
<1>7. CASE \E n \in 1 .. k : ~ (n \in ToFill(s, limit) <=> n \in ToFill(s, limit - 1))
  <2>1. PICK m \in 1 .. k : m \in ToFill(s, limit) \ ToFill(s, limit - 1)
    BY <1>7, ToFillIs
  <2>2. \A n \in 1 .. k : /\ n # m => (n \in ToFill(s, limit) <=> n \in ToFill(s, limit - 1))
                          /\ n > m => n \notin ToFill(s, limit) /\ n \notin ToFill(s, limit - 1)
    BY <1>3, <2>1, ToFillIs
  <2> DEFINE Alike(n) == /\ n < m => b[n] = a[n]
                         /\ ~ (n < m) => b[n] = Deal(s, a[n], m, pool)
             G == {n \in 0 .. k : Alike(n)}
  <2>3. 0 \in G /\ G \in SUBSET (0 .. k)
    BY <1>3, <1>5
  <2> HIDE DEF Alike
  <2>4. ASSUME NEW n \in 1 .. k, n - 1 \in G PROVE n \in G
    <3>0. n \in Nat /\ m \in Nat /\ n \in 0 .. k
      BY <1>3
    <3>1. /\ n - 1 < m => b[n - 1] = a[n - 1]
          /\ ~ (n - 1 < m) => b[n - 1] = Deal(s, a[n - 1], m, pool)
      BY <2>4 DEF Alike
    <3>2. CASE n < m
      <4>1. b[n - 1] = a[n - 1] /\ n # m
        BY <3>0, <3>1, <3>2
      <4>2. b[n] = a[n]
        BY <1>4, <2>2, <4>1 DEF Step
      <4> QED BY <3>0, <3>2, <4>2 DEF Alike
    <3>3. CASE n = m
      <4>1. b[n - 1] = a[n - 1]
        BY <3>0, <3>1, <3>3
      <4>2. a[n] = a[n - 1] /\ b[n] = Deal(s, b[n - 1], n, pool)
        BY <1>4, <2>1, <3>3 DEF Step
      <4>3. b[n] = Deal(s, a[n], m, pool) /\ ~ (n < m)
        BY <3>0, <3>3, <4>1, <4>2
      <4> QED BY <3>0, <4>3 DEF Alike
    <3>4. CASE n > m
      <4>1. b[n] = b[n - 1] /\ a[n] = a[n - 1]
        BY <1>4, <2>2, <3>4 DEF Step
      <4>2. ~ (n - 1 < m) /\ ~ (n < m)
        BY <3>0, <3>4
      <4>3. b[n] = Deal(s, a[n], m, pool)
        BY <3>1, <4>1, <4>2
      <4> QED BY <3>0, <4>2, <4>3 DEF Alike
    <3> QED BY <3>0, <3>2, <3>3, <3>4
  <2> HIDE DEF G
  <2>5. k \in G
    BY <1>3, <2>3, <2>4, CountUp
  <2>6. b[k] = Deal(s, a[k], m, pool)
    BY <1>3, <2>5 DEF G, Alike
  <2> QED BY <1>1, <1>2, <1>3, <2>6 DEF k
<1> QED BY <1>6, <1>7

\* From one match filled less to one more.
LEMMA FairlyOn ==
  ASSUME NEW s, ScheduleOK(s), NEW R \in SUBSET Jobs, OneEach(R), NEW pool \in Pools \cup AnyPools,
         NEW limit \in Nat \ {0}, \A i \in Match : Different(s[i].teams)
  PROVE  FairStep(Dealt(s, R, pool, limit - 1), Dealt(s, R, pool, limit), pool, ToFill(s, limit))
<1> DEFINE old == Dealt(s, R, pool, limit - 1)
           new == Dealt(s, R, pool, limit)
<1>1. DutiesOK(s, old) /\ DutiesOK(s, new)
  BY DealtIs DEF DealtSoFar
<1>2. \A i \in ToFill(s, limit) : Served(new, i, pool)
  BY DealtIs
<1>3. new = old \/ \E m \in Match : new = Deal(s, old, m, pool)
  BY NextDealt
<1> HIDE DEF old, new
<1>4. ASSUME NEW i \in Match PROVE new[i] = old[i] \/ (Fair(old[i], new[i]) /\ Rested(old, new, i, pool))
  <2>1. ASSUME NEW m \in Match, new = Deal(s, old, m, pool)
        PROVE  new[i] = old[i] \/ (Fair(old[i], new[i]) /\ Rested(old, new, i, pool))
    <3>1. CASE i = m
      BY <1>1, <2>1, <3>1, DealIs, DealServes
    <3>2. CASE i # m
      BY <1>1, <2>1, <3>2, DealIs
    <3> QED BY <3>1, <3>2
  <2> QED BY <1>3, <2>1
<1>5. ASSUME NEW i \in Match, NEW t \in DOMAIN new[i], new[i][t] # old[i][t]
      PROVE  /\ old[i][t] = None /\ ~ OnDuty(old, i, new[i][t])
             /\ \A u \in DOMAIN new[i] : new[i][u] # old[i][u] /\ new[i][t] = new[i][u] => t = u
             /\ \/ RunThrough(old, i, new[i][t]) <= LongestRun
                \/ \A k \in Range(pool) : OnDuty(new, i, k) \/ RunThrough(old, i, k) > LongestRun
  <2>1. Fair(old[i], new[i]) /\ Rested(old, new, i, pool) /\ DOMAIN old[i] = DOMAIN new[i]
    BY <1>1, <1>4, <1>5 DEF DutiesOK
  <2>2. old[i][t] = None /\ new[i][t] # None
    BY <1>5, <2>1 DEF Fair
  <2>3. ~ OnDuty(old, i, new[i][t])
    BY <2>1, <2>2 DEF Fair, OnDuty
  <2>4. \A u \in DOMAIN new[i] : new[i][u] # old[i][u] /\ new[i][t] = new[i][u] => t = u
    BY <2>1, <2>2 DEF Fair
  <2> QED BY <2>1, <2>2, <2>3, <2>4 DEF Rested
<1>6. ASSUME NEW i \in ToFill(s, limit)
      PROVE  (\A t \in DOMAIN new[i] : new[i][t] # None) \/ \A k \in Range(pool) : OnDuty(new, i, k)
  BY <1>2 DEF Served
<1>7. FairStep(old, new, pool, ToFill(s, limit))
  BY <1>5, <1>6 DEF FairStep
<1> QED BY <1>7 DEF old, new

LEMMA RowsOfIs ==
  ASSUME NEW d, NEW a
  PROVE  a \in RowsOf(d) <=>
             \E i \in DOMAIN d : \E t \in DOMAIN d[i] :
                 d[i][t] # None /\ a = [match |-> i, team |-> t, who |-> d[i][t]]
BY DEF RowsOf

\* What a distribution writes, if the grid and the schedule are those it read:
\* of each match, robots nobody has, to people who have none, one each.
HandsOut(todo, R, s) ==
    /\ \A a \in todo : a.team \in Teams(s[a.match])
    /\ \A a, b \in todo : a.match = b.match /\ a.who = b.who => a.team = b.team
    /\ \A a \in todo, r \in R :
          r.match = a.match /\ r.team \in Teams(s[a.match]) => r.who # a.who

LEMMA DistributeIs ==
  ASSUME NEW s, ScheduleOK(s), NEW R \in SUBSET Jobs, OneEach(R), NEW pool \in Pools, NEW limit
  PROVE  /\ Distribute(s, R, pool, limit) \in SUBSET Jobs
         /\ OneEach(Distribute(s, R, pool, limit))
         /\ HandsOut(Distribute(s, R, pool, limit), R, s)
<1> DEFINE old == Duties(s, R)
           d == Dealt(s, R, pool, limit)
           todo == Distribute(s, R, pool, limit)
<1>1. DutiesOK(s, old) /\ \A i \in Match : \A a \in R :
                a.match = i /\ a.team \in Teams(s[i]) => old[i][a.team] = a.who
  BY DutiesIs
<1>2. DutiesOK(s, d) /\ \A i \in Match : Fair(old[i], d[i])
  BY DealtIs DEF DealtSoFar
<1>3. todo = RowsOf(d) \ RowsOf(old)
  BY DEF Distribute
<1> HIDE DEF old, d, todo
<1>4. DOMAIN d = Match /\ DOMAIN old = Match
      /\ \A i \in Match : DOMAIN d[i] = Teams(s[i]) /\ DOMAIN old[i] = Teams(s[i])
  BY <1>1, <1>2 DEF DutiesOK
<1>5. ASSUME NEW a \in todo
      PROVE  /\ a.match \in Match /\ a.team \in Teams(s[a.match])
             /\ a.who = d[a.match][a.team] /\ a.who # None /\ old[a.match][a.team] = None
             /\ a = [match |-> a.match, team |-> a.team, who |-> a.who]
  <2>1. PICK i \in Match : \E t \in Teams(s[i]) :
            d[i][t] # None /\ a = [match |-> i, team |-> t, who |-> d[i][t]]
    BY <1>3, <1>4, RowsOfIs
  <2>3. PICK t \in Teams(s[i]) : d[i][t] # None /\ a = [match |-> i, team |-> t, who |-> d[i][t]]
    BY <2>1
  <2>2. ASSUME old[i][t] # None PROVE FALSE
    <3>1. d[i][t] = old[i][t]
      BY <1>2, <1>4, <2>2 DEF Fair
    <3>2. a \in RowsOf(old)
      BY <1>4, <2>3, <2>2, <3>1, RowsOfIs
    <3> QED BY <1>3, <3>2
  <2> QED BY <2>3, <2>2
<1>6. ASSUME NEW a \in todo PROVE a \in Jobs
  <2>1. a.match \in Match /\ a.team \in Robot
    BY <1>5, ScheduleIs
  <2>2. a.who \in Assignee
    BY <1>2, <1>5 DEF DutiesOK
  <2> QED BY <1>5, <2>1, <2>2 DEF Jobs
<1>7. OneEach(todo)
  <2> SUFFICES ASSUME NEW a \in todo, NEW b \in todo, a.match = b.match, a.team = b.team PROVE a = b
    BY DEF OneEach
  <2> QED BY <1>5
<1>8. ASSUME NEW a \in todo, NEW b \in todo, a.match = b.match, a.who = b.who PROVE a.team = b.team
  BY <1>2, <1>4, <1>5, <1>8 DEF Fair
<1>9. ASSUME NEW a \in todo, NEW r \in R, r.match = a.match, r.team \in Teams(s[a.match])
      PROVE  r.who # a.who
  <2>1. old[a.match][r.team] = r.who
    BY <1>1, <1>5, <1>9
  <2> QED BY <1>2, <1>4, <1>5, <1>9, <2>1 DEF Fair
<1> QED BY <1>5, <1>6, <1>7, <1>8, <1>9 DEF HandsOut, todo

-----------------------------------------------------------------------------
(* rotation. *)

\* A set of numbers has a smallest.
LEMMA SmallestIs ==
  ASSUME NEW S \in SUBSET Nat, S # {}
  PROVE  Smallest(S) \in S /\ \A y \in S : Smallest(S) <= y
<1> DEFINE R == OpToRel(<, Nat)
<1>1. IsWellFoundedOn(R, Nat)
  BY NatLessThanWellFounded
<1>2. \A n, m \in Nat : m < n => <<m, n>> \in R
  BY DEF OpToRel
<1> HIDE DEF R
<1>3. PICK n \in S : \A m \in S : ~ (<<m, n>> \in R)
  BY <1>1, WFMin
<1>4. ASSUME NEW m \in S PROVE n <= m
  <2>1. n \in Nat /\ m \in Nat /\ ~ (m < n)
    BY <1>2, <1>3
  <2> QED BY <2>1
<1>5. \E x \in S : \A y \in S : x <= y
  BY <1>3, <1>4
<1> QED BY <1>5 DEF Smallest

\* Whoever could take a match over has no robot of it, and would not be in it too
\* many in a row.
LEMMA RelieverIs ==
  ASSUME NEW s, ScheduleOK(s), NEW d, DutiesOK(s, d), NEW i \in Match,
         NEW relief \in Pools \cup AnyPools, NEW from, Reliever(d, i, from, relief) # None
  PROVE  LET to == Reliever(d, i, from, relief)
         IN  to \in Assignee /\ ~OnDuty(d, i, to) /\ RunThrough(d, i, to) <= LongestRun
<1> DEFINE load(n) == Load(d, relief[n])
           able == {n \in 1 .. Len(relief) :
                       /\ relief[n] # from /\ ~OnDuty(d, i, relief[n])
                       /\ RunThrough(d, i, relief[n]) <= LongestRun}
           Least(n) == \A m \in able : load(n) < load(m) \/ (load(n) = load(m) /\ n <= m)
<1>1. relief \in Seq(Assignee) /\ Len(relief) \in Nat
  BY AssignmentsAssumption
<1>2. able # {} /\ Reliever(d, i, from, relief) = relief[CHOOSE n \in able : Least(n)]
  BY DEF Reliever
<1>3. \A n \in able : load(n) \in Nat
  BY LoadIs
<1>4. able \in SUBSET Nat
  BY <1>1
<1>5. \A n \in able : /\ relief[n] \in Assignee /\ ~OnDuty(d, i, relief[n])
                      /\ RunThrough(d, i, relief[n]) <= LongestRun
  BY <1>1
<1> HIDE DEF able, load
<1>6. \E n \in able : Least(n)
  <2> DEFINE L == {load(n) : n \in able}
             l == Smallest(L)
             M == {n \in able : load(n) = l}
  <2>1. l \in L /\ \A y \in L : l <= y
    <3>1. L \in SUBSET Nat /\ L # {}
      BY <1>2, <1>3
    <3> HIDE DEF L
    <3> QED BY <3>1, SmallestIs
  <2>2. M \in SUBSET Nat /\ M # {}
    <3> HIDE DEF l
    <3> QED BY <1>4, <2>1
  <2>3. \A n \in able : l <= load(n)
    BY <2>1
  <2> HIDE DEF L, l
  <2>4. Smallest(M) \in M /\ \A m \in M : Smallest(M) <= m
    <3> HIDE DEF M
    <3> QED BY <2>2, SmallestIs
  <2>5. l \in Nat
    BY <1>3, <2>4
  <2>6. ASSUME NEW m \in able
        PROVE  load(Smallest(M)) < load(m) \/ (load(Smallest(M)) = load(m) /\ Smallest(M) <= m)
    BY <1>3, <2>3, <2>4, <2>5
  <2> QED BY <2>4, <2>6
<1> DEFINE n == CHOOSE n \in able : Least(n)
<1>7. n \in able
  <2> HIDE DEF Least
  <2> QED BY <1>6
<1> HIDE DEF n
<1> QED BY <1>2, <1>5, <1>7 DEF n

\* The match a long run is cut at is one its scout is on duty in.
LEMMA LongRunIs ==
  ASSUME NEW s, NEW d, DutiesOK(s, d), NEW k, LongRun(s, d, k) # 0
  PROVE  LongRun(s, d, k) \in Match /\ OnDuty(d, LongRun(s, d, k), k)
<1> DEFINE past(first) == {j \in RunFrom(d, first, k) : j >= first + LongestRun /\ ~s[j].played}
           long == {first \in Starts(d, k) : past(first) # {}}
           first == Smallest(long)
<1>1. long # {} /\ LongRun(s, d, k) = Smallest(past(first))
  BY DEF LongRun
<1>2. DOMAIN d = Match /\ Match \in SUBSET Nat
  BY MatchIs DEF DutiesOK
<1>3. long \in SUBSET Nat
  BY <1>2 DEF Starts
<1>4. first \in long
  <2> HIDE DEF long
  <2> QED BY <1>1, <1>3, SmallestIs
<1>5. past(first) # {} /\ first \in Nat
  <2>1. \A x \in long : past(x) # {}
    OBVIOUS
  <2> HIDE DEF first, long, past
  <2> QED BY <1>3, <1>4, <2>1
<1> HIDE DEF first
<1>6. past(first) \in SUBSET Match
  BY <1>2 DEF RunFrom
<1>7. ASSUME NEW j \in past(first) PROVE OnDuty(d, j, k)
  <2>1. j \in Nat /\ j >= first /\ \A x \in first .. j : OnDuty(d, x, k)
    BY <1>2 DEF RunFrom
  <2>2. j \in first .. j
    BY <1>5, <2>1
  <2> QED BY <2>1, <2>2
<1> HIDE DEF past
<1>8. Smallest(past(first)) \in past(first)
  BY <1>2, <1>5, <1>6, SmallestIs
<1> QED BY <1>1, <1>6, <1>7, <1>8

\* A suggestion is to give away a robot its scout has.
LEMMA SuggestionIs ==
  ASSUME NEW s, ScheduleOK(s), NEW d, DutiesOK(s, d), NEW from, NEW relief,
         Suggestion(s, d, from, relief) # None
  PROVE  LET said == Suggestion(s, d, from, relief)
         IN  /\ said.match \in Match /\ said.team \in DOMAIN d[said.match]
             /\ said.to = Reliever(d, said.match, from, relief)
<1> DEFINE said == Suggestion(s, d, from, relief)
           uneven == UnevenMatches(s, d, from, relief)
           its(i) == {t \in DOMAIN d[i] : d[i][t] = from}
           Give(i) == [match |-> i, from |-> from, to |-> Reliever(d, i, from, relief),
                       team |-> Smallest(its(i))]
<1>1. DOMAIN d = Match /\ Match \in SUBSET Nat
  BY MatchIs DEF DutiesOK
<1>2. PICK i \in Match : said = Give(i) /\ OnDuty(d, i, from)
  <2>1. CASE LongRun(s, d, from) # 0
    <3>1. said = Give(LongRun(s, d, from))
      BY <2>1 DEF Suggestion
    <3> QED BY <2>1, <3>1, LongRunIs
  <2>2. CASE LongRun(s, d, from) = 0
    <3>1. uneven # {} /\ said = Give(Smallest(uneven))
      BY <2>2 DEF Suggestion
    <3>2. uneven \in SUBSET Match /\ \A j \in uneven : OnDuty(d, j, from)
      BY <1>1 DEF UnevenMatches
    <3> HIDE DEF uneven, said, Give
    <3>3. Smallest(uneven) \in uneven
      BY <1>1, <3>1, <3>2, SmallestIs
    <3> QED BY <3>1, <3>2, <3>3
  <2> QED BY <2>1, <2>2
<1>3. its(i) \in SUBSET Nat /\ its(i) # {}
  <2>1. DOMAIN d[i] = Teams(s[i])
    BY DEF DutiesOK
  <2>2. s[i].teams \in Seq(Nat) /\ Teams(s[i]) = {s[i].teams[x] : x \in DOMAIN s[i].teams}
    BY ScheduleIs
  <2>3. Teams(s[i]) \in SUBSET Nat
    BY <2>2
  <2> QED BY <1>2, <2>1, <2>3 DEF OnDuty
<1>4. Smallest(its(i)) \in its(i)
  <2> HIDE DEF its
  <2> QED BY <1>3, SmallestIs
<1> QED BY <1>2, <1>4

\* The matches in a row around i, as RunThrough counts them.
Run(d, i, k) == {j \in DOMAIN d : \A x \in DOMAIN d :
                    (j <= x /\ x < i) \/ (i < x /\ x <= j) => OnDuty(d, x, k)}

\* A run with no match more is no longer.
LEMMA RunGrows ==
  ASSUME NEW s, ScheduleOK(s), NEW d, DutiesOK(s, d), NEW new, DutiesOK(s, new),
         NEW i \in Match, NEW j \in Match, NEW k, Run(new, j, k) \subseteq Run(d, i, k)
  PROVE  RunThrough(new, j, k) <= RunThrough(d, i, k)
<1>1. IsFiniteSet(Run(d, i, k))
  <2>1. Run(d, i, k) \in SUBSET Match /\ IsFiniteSet(Match)
    BY MatchIs, FS_Interval DEF Run, DutiesOK
  <2> QED BY <2>1, FS_Subset
<1>2. Cardinality(Run(new, j, k)) <= Cardinality(Run(d, i, k))
  BY <1>1, FS_Subset
<1> QED BY <1>2 DEF Run, RunThrough

\* A robot t of match i is taken over by to, who had none of it.
TakesOver(s, d, new, i, t, to) ==
    /\ DutiesOK(s, d) /\ DutiesOK(s, new) /\ i \in Match
    /\ \A j \in Match : \A u \in DOMAIN d[j] :
            new[j][u] = IF j = i /\ u = t THEN to ELSE d[j][u]
    /\ \A j \in Match : \A k : (j # i \/ k # to) /\ OnDuty(new, j, k) => OnDuty(d, j, k)

\* Taking it over puts nobody else on duty, and nobody on a second robot.
LEMMA TakenOver ==
  ASSUME NEW s, ScheduleOK(s), NEW d, DutiesOK(s, d), NEW i \in Match, NEW t \in DOMAIN d[i],
         NEW to \in Assignee, ~OnDuty(d, i, to), NEW new, new = [d EXCEPT ![i][t] = to]
  PROVE  /\ TakesOver(s, d, new, i, t, to)
         /\ \A j \in Match : Twice(new, j) \subseteq Twice(d, j)
<1>1. DOMAIN d = Match /\ d[i] \in [Teams(s[i]) -> Assignee \cup {None}]
  BY DEF DutiesOK
<1>2. /\ DOMAIN new = Match /\ new = [j \in Match |-> new[j]]
      /\ \A j \in Match : new[j] = IF j = i THEN [d[i] EXCEPT ![t] = to] ELSE d[j]
  BY <1>1
<1>3. [d[i] EXCEPT ![t] = to] \in [Teams(s[i]) -> Assignee \cup {None}]
  BY <1>1
<1>4. DutiesOK(s, new)
  BY <1>2, <1>3 DEF DutiesOK
<1>5. \A j \in Match : DOMAIN new[j] = DOMAIN d[j]
  BY <1>4 DEF DutiesOK
<1>6. \A u \in DOMAIN d[i] : new[i][u] = IF u = t THEN to ELSE d[i][u]
  BY <1>1, <1>2
<1>7. \A j \in Match \ {i} : new[j] = d[j]
  BY <1>2
<1>8. ASSUME NEW j \in Match, NEW k, j # i \/ k # to, OnDuty(new, j, k) PROVE OnDuty(d, j, k)
  <2>1. PICK u \in DOMAIN d[j] : new[j][u] = k
    BY <1>5, <1>8 DEF OnDuty
  <2>2. d[j][u] = k
    BY <1>6, <1>7, <1>8, <2>1
  <2> QED BY <2>1, <2>2 DEF OnDuty
<1>9. ASSUME NEW j \in Match, NEW k \in Twice(new, j) PROVE k \in Twice(d, j)
  <2>1. PICK u \in DOMAIN d[j], v \in DOMAIN d[j] : u # v /\ new[j][u] = k /\ new[j][v] = k
    BY <1>5 DEF Twice
  <2>2. k \in Assignee
    BY DEF Twice
  <2>3. CASE j = i
    <3>1. k # to
      BY <1>6, <2>1, <2>3 DEF OnDuty
    <3>2. d[j][u] = k /\ d[j][v] = k
      BY <1>6, <2>1, <2>3, <3>1
    <3> QED BY <2>1, <2>2, <3>2 DEF Twice
  <2>4. CASE j # i
    BY <1>7, <2>1, <2>2, <2>4 DEF Twice
  <2> QED BY <2>3, <2>4
<1>10. ASSUME NEW j \in Match, NEW u \in DOMAIN d[j]
       PROVE  new[j][u] = IF j = i /\ u = t THEN to ELSE d[j][u]
  BY <1>6, <1>7
<1> QED BY <1>4, <1>8, <1>9, <1>10 DEF TakesOver

\* Of those who take a robot over and still have it, nobody is in a run too long.
Settled(d, x) ==
    /\ x.match \in Match /\ x.team \in DOMAIN d[x.match]
    /\ x.to # None /\ d[x.match][x.team] = x.to => RunThrough(d, x.match, x.to) <= LongestRun

\* Whoever takes over match i runs through it as they would have.
LEMMA TheirRun ==
  ASSUME NEW s, NEW d, NEW new, NEW i, NEW t, NEW to, TakesOver(s, d, new, i, t, to)
  PROVE  Run(new, i, to) \subseteq Run(d, i, to)
<1>1. DOMAIN d = Match /\ DOMAIN new = Match /\ Match \in SUBSET Nat
  BY MatchIs DEF DutiesOK, TakesOver
<1>2. \A j \in Match : j # i /\ OnDuty(new, j, to) => OnDuty(d, j, to)
  BY DEF TakesOver
<1>3. i \in Match
  BY DEF TakesOver
<1>4. ASSUME NEW j \in Match, j \in Run(new, i, to), NEW x \in Match,
             (j <= x /\ x < i) \/ (i < x /\ x <= j)
      PROVE  OnDuty(d, x, to)
  <2>1. x # i
    BY <1>1, <1>3, <1>4
  <2>2. OnDuty(new, x, to)
    BY <1>1, <1>4 DEF Run
  <2> QED BY <1>2, <2>1, <2>2
<1>5. Run(new, i, to) \in SUBSET Match
  BY <1>1 DEF Run
<1> QED BY <1>1, <1>4, <1>5 DEF Run

\* Around a match of theirs that runs on to match i, the run is the one around i;
\* around another, it is no longer than it was.
LEMMA TheirOtherRun ==
  ASSUME NEW s, NEW d, NEW new, NEW i, NEW t, NEW to, TakesOver(s, d, new, i, t, to),
         NEW j \in Match, j # i, OnDuty(new, j, to)
  PROVE  \/ Run(new, j, to) \subseteq Run(new, i, to)
         \/ Run(new, j, to) \subseteq Run(d, j, to)
<1>1. DOMAIN d = Match /\ DOMAIN new = Match /\ Match \in SUBSET Nat
  BY MatchIs DEF DutiesOK, TakesOver
<1>2. \A x \in Match : x # i /\ OnDuty(new, x, to) => OnDuty(d, x, to)
  BY DEF TakesOver
<1> DEFINE On(x)        == OnDuty(new, x, to)
           Joins(y, z)  == \A x \in Match : (y <= x /\ x < z) \/ (z < x /\ x <= y) => On(x)
<1>3. \A z \in Match : Run(new, z, to) = {y \in Match : Joins(y, z)}
  BY <1>1 DEF Run
<1>4. i \in Match /\ i \in Nat /\ j \in Nat /\ \A x \in Match : x \in Nat
  BY <1>1 DEF TakesOver
<1>5. On(j)
  OBVIOUS
<1>6. CASE Joins(i, j)
  <2>1. ASSUME NEW y \in Match, Joins(y, j) PROVE Joins(y, i)
    <3> SUFFICES ASSUME NEW x \in Match, (y <= x /\ x < i) \/ (i < x /\ x <= y) PROVE On(x)
      OBVIOUS
    <3> HIDE DEF On
    <3>1. x = j \/ (y <= x /\ x < j) \/ (j < x /\ x <= y) \/ (i <= x /\ x < j) \/ (j < x /\ x <= i)
      BY <1>4
    <3> QED BY <1>5, <1>6, <2>1, <3>1
  <2>2. /\ Run(new, j, to) = {y \in Match : Joins(y, j)}
        /\ Run(new, i, to) = {y \in Match : Joins(y, i)}
    BY <1>3, <1>4
  <2>3. Run(new, j, to) \subseteq Run(new, i, to)
    <3> HIDE DEF Joins
    <3> QED BY <2>1, <2>2
  <2> QED BY <2>3
<1>7. CASE ~Joins(i, j)
  <2>1. ASSUME NEW y \in Match, Joins(y, j) PROVE y \in Run(d, j, to)
    <3> SUFFICES ASSUME NEW x \in Match, (y <= x /\ x < j) \/ (j < x /\ x <= y) PROVE OnDuty(d, x, to)
      BY <1>1 DEF Run
    <3>1. On(x)
      BY <2>1
    <3>2. x # i
      <4> SUFFICES ASSUME x = i PROVE FALSE
        OBVIOUS
      <4>1. ASSUME NEW z \in Match, (i <= z /\ z < j) \/ (j < z /\ z <= i) PROVE On(z)
        <5> HIDE DEF On
        <5>1. (y <= z /\ z < j) \/ (j < z /\ z <= y)
          BY <1>4, <4>1
        <5> QED BY <2>1, <5>1
      <4> QED BY <1>7, <4>1
    <3> QED BY <1>2, <3>1, <3>2
  <2>2. Run(new, j, to) = {y \in Match : Joins(y, j)}
    BY <1>3
  <2>3. Run(new, j, to) \subseteq Run(d, j, to)
    <3> HIDE DEF Joins
    <3> QED BY <2>1, <2>2
  <2> QED BY <2>3
<1> QED BY <1>6, <1>7

\* So everyone who has taken a robot over stays settled when another is.
LEMMA StaySettled ==
  ASSUME NEW s, ScheduleOK(s), NEW d, NEW new, NEW i, NEW t, NEW to, TakesOver(s, d, new, i, t, to),
         RunThrough(d, i, to) <= LongestRun, NEW x, Settled(d, x)
  PROVE  Settled(new, x)
<1> DEFINE j == x.match
           k == x.to
<1>1. /\ DutiesOK(s, d) /\ DutiesOK(s, new) /\ i \in Match
      /\ \A y \in Match : DOMAIN new[y] = DOMAIN d[y]
      /\ \A y \in Match : \A u \in DOMAIN d[y] : new[y][u] = IF y = i /\ u = t THEN to ELSE d[y][u]
      /\ \A y \in Match : \A h : (y # i \/ h # to) /\ OnDuty(new, y, h) => OnDuty(d, y, h)
  BY DEF TakesOver, DutiesOK
<1>2. j \in Match /\ x.team \in DOMAIN d[j]
  BY DEF Settled
<1>3. ASSUME NEW y \in Match, NEW h
      PROVE  RunThrough(new, y, h) \in Nat /\ RunThrough(d, y, h) \in Nat
  BY <1>1, LoadIs
<1>4. LongestRun \in Nat
  BY RotaAssumption
<1>5. RunThrough(new, i, to) <= LongestRun
  <2>1. RunThrough(new, i, to) <= RunThrough(d, i, to)
    BY <1>1, TheirRun, RunGrows
  <2>2. RunThrough(new, i, to) \in Nat /\ RunThrough(d, i, to) \in Nat
    BY <1>1, <1>3
  <2> QED BY <1>4, <2>1, <2>2
<1>6. ASSUME k # None, new[j][x.team] = k PROVE RunThrough(new, j, k) <= LongestRun
  <2>1. CASE k = to /\ j = i
    BY <1>5, <2>1
  <2>2. CASE k = to /\ j # i
    <3>1. d[j][x.team] = k /\ OnDuty(new, j, to)
      BY <1>1, <1>2, <1>6, <2>2 DEF OnDuty
    <3>2. RunThrough(d, j, to) <= LongestRun
      BY <1>6, <2>2, <3>1 DEF Settled
    <3>3. \/ RunThrough(new, j, to) <= RunThrough(new, i, to)
          \/ RunThrough(new, j, to) <= RunThrough(d, j, to)
      <4>1. CASE Run(new, j, to) \subseteq Run(new, i, to)
        BY <1>1, <1>2, <4>1, RunGrows
      <4>2. CASE Run(new, j, to) \subseteq Run(d, j, to)
        BY <1>1, <1>2, <4>2, RunGrows
      <4> QED BY <1>2, <2>2, <3>1, <4>1, <4>2, TheirOtherRun
    <3>4. /\ RunThrough(new, j, to) \in Nat /\ RunThrough(new, i, to) \in Nat
          /\ RunThrough(d, j, to) \in Nat
      BY <1>1, <1>2, <1>3
    <3> QED BY <1>4, <1>5, <2>2, <3>2, <3>3, <3>4
  <2>3. CASE k # to
    <3>1. d[j][x.team] = k
      BY <1>1, <1>2, <1>6, <2>3
    <3>2. RunThrough(d, j, k) <= LongestRun
      BY <1>6, <3>1 DEF Settled
    <3>3. Run(new, j, k) \subseteq Run(d, j, k)
      <4>1. DOMAIN d = Match /\ DOMAIN new = Match
        BY <1>1 DEF DutiesOK
      <4>2. \A y \in Match : OnDuty(new, y, k) => OnDuty(d, y, k)
        BY <1>1, <2>3
      <4> QED BY <4>1, <4>2 DEF Run
    <3>4. RunThrough(new, j, k) <= RunThrough(d, j, k)
      BY <1>1, <1>2, <3>3, RunGrows
    <3>5. RunThrough(new, j, k) \in Nat /\ RunThrough(d, j, k) \in Nat
      BY <1>2, <1>3
    <3> QED BY <1>4, <3>2, <3>4, <3>5
  <2> QED BY <2>1, <2>2, <2>3
<1> QED BY <1>1, <1>2, <1>6 DEF Settled

\* The duties and what has been said, after one scout.
AfterScout(s, was, from, relief) ==
    LET said == Suggestion(s, was.duties, from, relief)
    IN  [duties |-> Taken(was.duties, said),
         said   |-> IF said = None THEN was.said ELSE Append(was.said, said)]

Follows(after, k, s, old, scouts, relief) ==
    after = [n \in 0 .. k |->
                IF n = 0 THEN [duties |-> old, said |-> <<>>]
                ELSE AfterScout(s, after[n - 1], scouts[n], relief)]

\* There is such a function: rotation's is one.
LEMMA FollowsExist ==
  ASSUME NEW k \in Nat, NEW s, NEW old, NEW scouts, NEW relief
  PROVE  \E after : Follows(after, k, s, old, scouts, relief)
<1> DEFINE Fits(after, m) == Follows(after, m, s, old, scouts, relief)
           first == [duties |-> old, said |-> <<>>]
           Then(was, n) == AfterScout(s, was, scouts[n], relief)
           G == {m \in 0 .. k : \E after : Fits(after, m)}
<1>1. 0 \in G
  <2>1. Fits([n \in 0 .. 0 |-> first], 0)
    BY DEF Follows
  <2> HIDE DEF Fits
  <2> QED BY <2>1
<1>2. ASSUME NEW m \in 1 .. k, m - 1 \in G PROVE m \in G
  <2>1. PICK f : Fits(f, m - 1)
    BY <1>2
  <2> DEFINE g == [n \in 0 .. m |-> IF n = m THEN Then(f[m - 1], m) ELSE f[n]]
  <2>2. \A n \in 0 .. m - 1 : f[n] = IF n = 0 THEN first ELSE Then(f[n - 1], n)
    BY Zenon, <2>1 DEF Follows
  <2>3. \A n \in 0 .. m : g[n] = IF n = 0 THEN first ELSE Then(g[n - 1], n)
    <3> HIDE DEF first, Then
    <3> SUFFICES ASSUME NEW n \in 0 .. m
                 PROVE  g[n] = IF n = 0 THEN first ELSE Then(g[n - 1], n)
      OBVIOUS
    <3>1. CASE n = m
      <4>1. n # 0 /\ n - 1 \in 0 .. m /\ n - 1 # m
        BY <3>1
      <4> QED BY <3>1, <4>1
    <3>2. CASE n # m
      <4>1. n \in 0 .. m - 1 /\ (n # 0 => n - 1 \in 0 .. m /\ n - 1 # m)
        BY <3>2
      <4> QED BY <2>2, <3>2, <4>1
    <3> QED BY <3>1, <3>2
  <2>4. Fits(g, m)
    <3>1. g = [n \in 0 .. m |-> IF n = 0 THEN first ELSE Then(g[n - 1], n)]
      <4> DEFINE h == [n \in 0 .. m |-> IF n = 0 THEN first ELSE Then(g[n - 1], n)]
      <4>1. \A n \in 0 .. m : g[n] = h[n]
        BY Zenon, <2>3
      <4>2. g = [n \in 0 .. m |-> g[n]] /\ h = [n \in 0 .. m |-> h[n]]
        <5> HIDE DEF first, Then
        <5> QED OBVIOUS
      <4> HIDE DEF g, h
      <4>3. g = h
        BY <4>1, <4>2
      <4> QED BY Zenon, <4>3 DEF h
    <3> QED BY Zenon, <3>1 DEF Follows
  <2> HIDE DEF Fits, g
  <2> QED BY <2>4
<1>3. G \in SUBSET (0 .. k)
  OBVIOUS
<1> HIDE DEF G
<1>4. k \in G
  BY <1>1, <1>2, <1>3, CountUp
<1> QED BY <1>4 DEF G

\* There are finitely many scouts.
LEMMA ScoutsAre ==
  ASSUME NEW s, ScheduleOK(s), NEW d, DutiesOK(s, d)
  PROVE  Len(Scouts(d)) \in Nat
<1> DEFINE of == {Range(d[i]) : i \in DOMAIN d}
           on == UNION of \ (Tablet \cup {None})
<1>1. DOMAIN d = Match /\ IsFiniteSet(Match)
  <2>1. DOMAIN d = Match
    BY DEF DutiesOK
  <2> QED BY <2>1, MatchIs, FS_Interval
<1>2. \A i \in Match : IsFiniteSet(Range(d[i]))
  <2> TAKE i \in Match
  <2> DEFINE teams == s[i].teams
             f == [x \in DOMAIN teams |-> d[i][teams[x]]]
  <2>1. teams \in Seq(Nat) /\ Teams(s[i]) = {teams[x] : x \in DOMAIN teams} /\ DOMAIN d[i] = Teams(s[i])
    BY ScheduleIs DEF DutiesOK
  <2>2. Range(d[i]) = {d[i][t] : t \in DOMAIN d[i]}
    BY DEF Range
  <2> HIDE DEF teams
  <2>3. IsFiniteSet(DOMAIN teams)
    <3>1. DOMAIN teams = 1 .. Len(teams) /\ Len(teams) \in Nat
      BY <2>1
    <3> QED BY <3>1, FS_Interval
  <2>4. f \in Surjection(DOMAIN teams, Range(d[i]))
    BY <2>1, <2>2 DEF Surjection
  <2> QED BY <2>3, <2>4, FS_Surjection
<1>3. IsFiniteSet(of)
  <2> DEFINE f == [i \in Match |-> Range(d[i])]
  <2>1. f \in Surjection(Match, of)
    BY <1>1 DEF Surjection
  <2> QED BY <1>1, <2>1, FS_Surjection
<1>4. IsFiniteSet(UNION of)
  BY <1>1, <1>2, <1>3, FS_UNION
<1> DEFINE first(k) == Smallest({i \in DOMAIN d : OnDuty(d, i, k)})
           lowest(k) == Smallest({t \in DOMAIN d[first(k)] : d[first(k)][t] = k})
           Before(k) == {j \in on : first(j) < first(k) \/ (first(j) = first(k) /\ lowest(j) < lowest(k))}
           The(n) == CHOOSE k \in on : Cardinality(Before(k)) = n - 1
<1>5. Cardinality(on) \in Nat
  BY <1>4, FS_Subset, FS_CardinalityType
<1>6. Scouts(d) = [n \in 1 .. Cardinality(on) |-> The(n)]
  BY DEF Scouts
<1> HIDE DEF The, on
<1>7. Scouts(d) \in Seq({The(n) : n \in 1 .. Cardinality(on)})
  BY <1>5, <1>6
<1> QED BY <1>7

\* What rotation goes through.
LEMMA RotationGoes ==
  ASSUME NEW s, ScheduleOK(s), NEW R, DutiesOK(s, Duties(s, R)), NEW relief
  PROVE  LET scouts == Scouts(Duties(s, R))
             k == Len(scouts)
         IN  /\ k \in Nat
             /\ \E after : /\ after[0] = [duties |-> Duties(s, R), said |-> <<>>]
                           /\ \A n \in 1 .. k : after[n] = AfterScout(s, after[n - 1], scouts[n], relief)
                           /\ Rotation(s, R, relief) = after[k]
<1> DEFINE old == Duties(s, R)
           scouts == Scouts(old)
           k == Len(scouts)
           after == CHOOSE after : Follows(after, k, s, old, scouts, relief)
<1>1. k \in Nat
  BY ScoutsAre
<1>2. Follows(after, k, s, old, scouts, relief)
  <2> HIDE DEF k, old, scouts
  <2>1. \E f : Follows(f, k, s, old, scouts, relief)
    BY <1>1, FollowsExist
  <2> QED BY Zenon, <2>1
<1>3. Rotation(s, R, relief) = after[k]
  BY Zenon DEF Rotation, AfterScout, Follows
<1> HIDE DEF after, scouts, k, old
<1>4. \A n \in 0 .. k : after[n] = IF n = 0 THEN [duties |-> old, said |-> <<>>]
                                   ELSE AfterScout(s, after[n - 1], scouts[n], relief)
  BY Zenon, <1>2 DEF Follows
<1>5. after[0] = [duties |-> old, said |-> <<>>]
  <2>1. 0 \in 0 .. k
    BY <1>1
  <2> QED BY Zenon, <1>4, <2>1
<1>6. ASSUME NEW n \in 1 .. k PROVE after[n] = AfterScout(s, after[n - 1], scouts[n], relief)
  <2>1. n \in 0 .. k /\ n # 0
    BY <1>1
  <2> QED BY Zenon, <1>4, <2>1
<1> QED BY <1>1, <1>3, <1>5, <1>6 DEF scouts, k, old

\* What is said so far, and one more.
LEMMA SaysMore ==
  ASSUME NEW S, NEW q \in Seq(S), NEW x
  PROVE  /\ Append(q, x) \in Seq(S \cup {x})
         /\ Range(Append(q, x)) = Range(q) \cup {x}
<1>1. q \in Seq(S \cup {x}) /\ Len(q) \in Nat
  OBVIOUS
<1>2. DOMAIN q = 1 .. Len(q) /\ DOMAIN Append(q, x) = 1 .. Len(q) + 1
  BY <1>1
<1>3. \A n \in 1 .. Len(q) + 1 : Append(q, x)[n] = IF n = Len(q) + 1 THEN x ELSE q[n]
  BY <1>1
<1>4. ASSUME NEW y \in Range(q) PROVE y \in Range(Append(q, x))
  <2>1. PICK n \in DOMAIN q : q[n] = y
    BY DEF Range
  <2>2. n \in DOMAIN Append(q, x) /\ Append(q, x)[n] = y
    BY <1>1, <1>2, <1>3, <2>1
  <2> QED BY <2>2 DEF Range
<1>5. x \in Range(Append(q, x))
  <2>1. Len(q) + 1 \in DOMAIN Append(q, x) /\ Append(q, x)[Len(q) + 1] = x
    BY <1>1, <1>2, <1>3
  <2> QED BY <2>1 DEF Range
<1>6. ASSUME NEW y \in Range(Append(q, x)), y # x PROVE y \in Range(q)
  <2>1. PICK n \in DOMAIN Append(q, x) : Append(q, x)[n] = y
    BY DEF Range
  <2>2. n \in DOMAIN q /\ q[n] = y
    BY <1>1, <1>2, <1>3, <1>6, <2>1
  <2> QED BY <2>2 DEF Range
<1> QED BY <1>1, <1>4, <1>5, <1>6

\* Where rotation has come to.
Going(s, old, a) ==
    /\ DutiesOK(s, a.duties)
    /\ \A i \in Match : Twice(a.duties, i) \subseteq Twice(old, i)
    /\ \E S : a.said \in Seq(S)
    /\ \A x \in Range(a.said) : Settled(a.duties, x)

\* Each scout's suggestion keeps to it.
LEMMA GoesOn ==
  ASSUME NEW s, ScheduleOK(s), NEW old, NEW was, Going(s, old, was), NEW from,
         NEW relief \in Pools \cup AnyPools
  PROVE  Going(s, old, AfterScout(s, was, from, relief))
<1> DEFINE d == was.duties
           x == Suggestion(s, d, from, relief)
           new == Taken(d, x)
<1>1. /\ DutiesOK(s, d)
      /\ \A i \in Match : Twice(d, i) \subseteq Twice(old, i)
      /\ \A y \in Range(was.said) : Settled(d, y)
  BY DEF Going
<1>2. PICK S : was.said \in Seq(S)
  BY DEF Going
<1> DEFINE more == IF x = None THEN was.said ELSE Append(was.said, x)
<1>3. AfterScout(s, was, from, relief) = [duties |-> new, said |-> more]
  BY DEF AfterScout
<1>4. CASE x = None
  <2>1. new = d /\ more = was.said
    BY <1>4 DEF Taken
  <2> HIDE DEF d, new, more, x
  <2> DEFINE r == AfterScout(s, was, from, relief)
  <2>2. r.duties = d /\ r.said = was.said
    BY <1>3, <2>1
  <2> HIDE DEF r
  <2>3. Going(s, old, r)
    BY <1>1, <1>2, <2>2 DEF Going
  <2> QED BY <2>3 DEF r
<1>5. CASE x # None
  <2>1. /\ x.match \in Match /\ x.team \in DOMAIN d[x.match]
        /\ x.to = Reliever(d, x.match, from, relief)
    BY <1>1, <1>5, SuggestionIs
  <2> HIDE DEF x
  <2>2. more = Append(was.said, x)
    BY <1>5
  <2> HIDE DEF more, d
  <2>3. more \in Seq(S \cup {x}) /\ Range(more) = Range(was.said) \cup {x}
    <3>1. /\ Append(was.said, x) \in Seq(S \cup {x})
          /\ Range(Append(was.said, x)) = Range(was.said) \cup {x}
      BY <1>2, SaysMore
    <3> QED BY Zenon, <2>2, <3>1
  <2>4. CASE x.to = None
    <3>1. new = d
      BY <2>4 DEF Taken
    <3>2. Settled(d, x)
      BY <2>1, <2>4 DEF Settled
    <3> QED BY <1>1, <1>3, <2>3, <3>1, <3>2 DEF Going
  <2>5. CASE x.to # None
    <3> DEFINE i == x.match
               t == x.team
               to == x.to
    <3>1. to \in Assignee /\ ~OnDuty(d, i, to) /\ RunThrough(d, i, to) <= LongestRun
      BY <1>1, <2>1, <2>5, RelieverIs
    <3>2. new = [d EXCEPT ![i][t] = to]
      BY <1>5, <2>5 DEF Taken
    <3> HIDE DEF new, i, t, to
    <3>3. i \in Match /\ t \in DOMAIN d[i]
      BY <2>1 DEF i, t
    <3>4. TakesOver(s, d, new, i, t, to) /\ \A j \in Match : Twice(new, j) \subseteq Twice(d, j)
      BY <1>1, <3>1, <3>2, <3>3, TakenOver
    <3>5. DutiesOK(s, new) /\ \A j \in Match : DOMAIN new[j] = DOMAIN d[j]
      BY <3>4 DEF TakesOver, DutiesOK
    <3>6. \A y \in Range(was.said) : Settled(new, y)
      BY <1>1, <3>1, <3>4, StaySettled
    <3>7. Settled(new, x)
      <4>1. RunThrough(new, i, to) <= RunThrough(d, i, to)
        BY <1>1, <3>3, <3>4, <3>5, TheirRun, RunGrows
      <4>2. RunThrough(new, i, to) \in Nat /\ RunThrough(d, i, to) \in Nat
        BY <1>1, <3>3, <3>5, LoadIs
      <4>3. LongestRun \in Nat
        BY RotaAssumption
      <4>4. RunThrough(new, i, to) <= LongestRun
        BY <3>1, <4>1, <4>2, <4>3
      <4> QED BY <3>3, <3>5, <4>4 DEF Settled, i, t, to
    <3>8. \A j \in Match : Twice(new, j) \subseteq Twice(old, j)
      BY <1>1, <3>4
    <3> QED BY <1>3, <2>3, <3>5, <3>6, <3>7, <3>8 DEF Going
  <2> QED BY <2>4, <2>5
<1> QED BY <1>4, <1>5

-----------------------------------------------------------------------------
(* The inductive invariant. *)

Alone(S) == \A c, d \in S : c.who = d.who => c.team = d.team

\* InMatch, of any grid and schedule, and without some robots.
Here(i, R, s) == {a \in R : a.match = i /\ a.team \in Teams(s[i])}
Beside(i, T, R, s) == {a \in Here(i, R, s) : a.team \notin T}

AskOK(r) ==
    /\ r = Request(r.at, r.match, r.chosen, r.seen, r.todo, r.stale)
    /\ r.at \in {"named", "set", "unassign", "pool", "hand"} /\ r.stale \in BOOLEAN
    /\ r.at \in {"named", "set", "unassign"} => r \in MatchSave
    /\ r.at = "pool" => ScheduleOK(r.seen) /\ r.chosen \in Pools
    /\ r.at = "hand" => r.todo \in SUBSET Jobs /\ OneEach(r.todo)

\* What a request knows, as long as nobody has written since it first read.
Knows(r, R, s) ==
    /\ r.at \in {"named", "set"} => DOMAIN r.chosen \subseteq Teams(s[r.match])
    /\ r.at = "named" => r.seen[1] = Teams(s[r.match])
    /\ r.at = "set" =>
          /\ Alone(Picked(r) \cup Beside(r.match, DOMAIN r.chosen, R, s))
          /\ Blank(r) \subseteq r.todo
    /\ r.at = "unassign" => Alone(Beside(r.match, r.todo, R, s))
    /\ r.at = "pool" => r.seen = s
    /\ r.at = "hand" => HandsOut(r.todo, R, s)

\* Somebody is still taking robots of the match off people.
ClearingBy(A, q, i) == A[q] # None /\ A[q].at = "unassign" /\ A[q].match = i
Clearing(A, i) == \E q \in Ask : ClearingBy(A, q, i)

AsksOK(A) == A = [q \in Ask |-> A[q]] /\ \A q \in Ask : A[q] # None => AskOK(A[q])
RowsOK(R) == R \in SUBSET Jobs /\ OneEach(R)

Untroubled(R, A, s) ==
    /\ \A q \in Ask : A[q] # None /\ ~ A[q].stale => Knows(A[q], R, s)
    /\ \A i \in Match : Alone(Here(i, R, s)) \/ Clearing(A, i)

AInv ==
    /\ RowsOK(rows) /\ AsksOK(ask) /\ ScheduleOK(schedule) /\ sightings = {}
    /\ trouble \in SUBSET {"overlap", "halfway", "return"}
    /\ trouble = {} => Untroubled(rows, ask, schedule)

LEMMA DoubledIs ==
  ASSUME NEW S
  PROVE  Doubled(S) = {} <=> Alone(S)
BY DEF Doubled, Alone

LEMMA SetAssignmentsIs ==
  ASSUME RowsOK(rows), NEW set, RowsOK(set)
  PROVE  /\ RowsOK(SetAssignments(set))
         /\ \A x \in SetAssignments(set) :
               x \in set \/ (x \in rows /\ \A y \in set : y.match # x.match \/ y.team # x.team)
<1>1. \A x \in SetAssignments(set) :
          x \in set \/ (x \in rows /\ \A y \in set : y.match # x.match \/ y.team # x.team)
  BY DEF SetAssignments
<1>2. RowsOK(SetAssignments(set))
  BY <1>1 DEF RowsOK, OneEach
<1> QED BY <1>1, <1>2

\* What a save writes.
LEMMA PickedIs ==
  ASSUME NEW r \in MatchSave
  PROVE  /\ RowsOK(Picked(r))
         /\ \A t \in DOMAIN r.chosen : t \in Blank(r) \/ \E a \in Picked(r) : a.team = t /\ a.match = r.match
         /\ \A a \in Picked(r) : a.match = r.match /\ a.team \in DOMAIN r.chosen
         /\ Blank(r) \subseteq DOMAIN r.chosen
         /\ DOMAIN r.chosen \subseteq Robot
<1>1. PICK T \in SUBSET Robot : r.chosen \in [T -> Assignee \cup {None}]
  BY DEF MatchSave
<1>2. r.match \in Match /\ DOMAIN r.chosen = T
  BY <1>1 DEF MatchSave
<1>3. \A a : a \in Picked(r) <=> \E t \in T : /\ r.chosen[t] # None
                                             /\ a = [match |-> r.match, team |-> t, who |-> r.chosen[t]]
  BY <1>2 DEF Picked, Job
<1>4. \A t : t \in Blank(r) <=> t \in T /\ r.chosen[t] = None
  BY <1>2 DEF Blank
<1> HIDE DEF Picked
<1>5. \A a \in Picked(r) : a \in Jobs /\ a.match = r.match /\ a.team \in T /\ a.who = r.chosen[a.team]
                             /\ a = [match |-> r.match, team |-> a.team, who |-> a.who]
  <2> TAKE a \in Picked(r)
  <2>1. PICK t \in T : r.chosen[t] # None /\ a = [match |-> r.match, team |-> t, who |-> r.chosen[t]]
    BY <1>3
  <2>2. a.match = r.match /\ a.team = t /\ a.who = r.chosen[t]
    BY <2>1
  <2>3. a.who \in Assignee /\ t \in Robot
    BY <1>1, <2>1, <2>2
  <2>4. a \in Jobs
    BY <1>2, <2>1, <2>2, <2>3 DEF Jobs
  <2> QED BY <2>1, <2>2, <2>4
<1>6. OneEach(Picked(r))
  <2> SUFFICES ASSUME NEW a \in Picked(r), NEW b \in Picked(r), a.match = b.match, a.team = b.team PROVE a = b
    BY DEF OneEach
  <2> QED BY <1>5
<1>7. ASSUME NEW t \in T, t \notin Blank(r) PROVE \E a \in Picked(r) : a.team = t /\ a.match = r.match
  <2>1. r.chosen[t] # None
    BY <1>4, <1>7
  <2> DEFINE a == [match |-> r.match, team |-> t, who |-> r.chosen[t]]
  <2>2. a \in Picked(r)
    BY <1>3, <2>1
  <2>3. a.match = r.match /\ a.team = t
    OBVIOUS
  <2> QED BY <2>2, <2>3
<1> QED BY <1>2, <1>4, <1>5, <1>6, <1>7 DEF RowsOK

-----------------------------------------------------------------------------
(* What a step leaves of the other requests. *)

LEMMA RequestIs ==
  ASSUME NEW at, NEW i, NEW chosen, NEW seen, NEW todo, NEW stale, NEW r,
         r = Request(at, i, chosen, seen, todo, stale)
  PROVE  /\ r.at = at /\ r.match = i /\ r.chosen = chosen
         /\ r.seen = seen /\ r.todo = todo /\ r.stale = stale
BY DEF Request

\* To everyone but w, what w did is something written beside them.
Beyond(A, B, w) ==
    \A q \in Ask : q # w =>
        /\ B[q] # None => B[q].stale
        /\ \A i : ClearingBy(A, q, i) => ClearingBy(B, q, i)

\* Of each match: nobody is on two robots of it, or w is still taking them off,
\* or it is as good as it was and w was not in it.
AsGood(A, B, R, R2, s, s2, w) ==
    \A i \in Match :
        \/ Alone(Here(i, R2, s2))
        \/ w \in Ask /\ ClearingBy(B, w, i)
        \/ /\ Alone(Here(i, R, s)) => Alone(Here(i, R2, s2))
           /\ ~ (w \in Ask /\ ClearingBy(A, w, i))

\* A request that others wrote beside is as it was, and stale.
LEMMA OutdatedIs ==
  ASSUME NEW A, AsksOK(A), NEW B, B = [q \in Ask |-> B[q]], NEW w,
         \A q \in Ask : q # w => B[q] = Outdate(A, w)[q],
         w \in Ask /\ B[w] # None => AskOK(B[w])
  PROVE  AsksOK(B) /\ Beyond(A, B, w)
<1>1. ASSUME NEW q \in Ask, q # w
      PROVE  /\ B[q] # None => AskOK(B[q]) /\ B[q].stale
             /\ \A i : ClearingBy(A, q, i) => ClearingBy(B, q, i)
  <2> DEFINE r == A[q]
             u == [r EXCEPT !.stale = TRUE]
  <2>1. B[q] = IF r = None THEN r ELSE u
    BY <1>1 DEF Outdate
  <2>2. CASE r = None
    BY <2>1, <2>2 DEF ClearingBy
  <2>3. CASE r # None
    <3>1. AskOK(r) /\ B[q] = u
      BY <2>1, <2>3 DEF AsksOK
    <3> HIDE DEF r
    <3>2. PICK at, i, chosen, seen, todo, stale : r = Request(at, i, chosen, seen, todo, stale)
      BY <3>1 DEF AskOK
    <3>3. PICK x : x = TRUE /\ u = [r EXCEPT !.stale = x]
      OBVIOUS
    <3> HIDE DEF u
    <3>4. u = Request(at, i, chosen, seen, todo, x)
      <4>1. u = [r EXCEPT !.stale = x]
        BY <3>3
      <4>2. [r EXCEPT !.stale = x] = Request(at, i, chosen, seen, todo, x)
        BY <3>2 DEF Request
      <4> QED BY <4>1, <4>2
    <3>5. /\ r.at = at /\ r.match = i /\ r.chosen = chosen /\ r.seen = seen /\ r.todo = todo
          /\ u.at = at /\ u.match = i /\ u.chosen = chosen /\ u.seen = seen /\ u.todo = todo /\ u.stale = x
      BY <3>2, <3>4, RequestIs
    <3>6. r \in MatchSave => u \in MatchSave
      BY <3>3, <3>4, <3>5 DEF MatchSave, Request
    <3>7. AskOK(u)
      BY <3>1, <3>3, <3>4, <3>5, <3>6 DEF AskOK
    <3>8. r.at = "unassign" => u # None
      BY <3>1, <3>6, AssignmentsAssumption DEF AskOK
    <3> QED BY <3>1, <3>3, <3>5, <3>7, <3>8 DEF ClearingBy, r
  <2> QED BY <2>2, <2>3
<1>2. ASSUME NEW q \in Ask, B[q] # None PROVE AskOK(B[q])
  BY <1>1, <1>2
<1> QED BY <1>1, <1>2 DEF AsksOK, Beyond

\* So only the writer has anything to know, and only it can have left a match.
LEMMA StillUntroubled ==
  ASSUME NEW A, NEW B, NEW R, NEW R2, NEW s, NEW s2, NEW w,
         Untroubled(R, A, s), Beyond(A, B, w), AsGood(A, B, R, R2, s, s2, w),
         w \in Ask /\ B[w] # None /\ ~ B[w].stale => Knows(B[w], R2, s2)
  PROVE  Untroubled(R2, B, s2)
<1>1. ASSUME NEW q \in Ask, B[q] # None, ~ B[q].stale PROVE Knows(B[q], R2, s2)
  BY <1>1 DEF Beyond
<1>2. ASSUME NEW i \in Match PROVE Alone(Here(i, R2, s2)) \/ Clearing(B, i)
  <2>1. CASE Alone(Here(i, R2, s2)) \/ (w \in Ask /\ ClearingBy(B, w, i))
    BY <2>1 DEF Clearing
  <2>2. CASE /\ Alone(Here(i, R, s)) => Alone(Here(i, R2, s2))
             /\ ~ (w \in Ask /\ ClearingBy(A, w, i))
             /\ ~ Alone(Here(i, R2, s2))
    <3>1. PICK q \in Ask : ClearingBy(A, q, i)
      BY <2>2 DEF Untroubled, Clearing
    <3>2. q # w
      BY <2>2, <3>1
    <3> QED BY <3>1, <3>2 DEF Clearing, Beyond
  <2> QED BY <2>1, <2>2 DEF AsGood
<1> QED BY <1>1, <1>2 DEF Untroubled

\* A step that only moves a request on, which is not one taking robots off.
LEMMA MovedOn ==
  ASSUME NEW A, AsksOK(A), NEW R, NEW s, NEW q \in Ask, NEW r,
         A[q] # None => A[q].at # "unassign",
         r # None => AskOK(r)
  PROVE  /\ AsksOK([A EXCEPT ![q] = r])
         /\ Untroubled(R, A, s) /\ (r # None /\ ~ r.stale => Knows(r, R, s))
               => Untroubled(R, [A EXCEPT ![q] = r], s)
<1> DEFINE B == [A EXCEPT ![q] = r]
<1>1. B = [x \in Ask |-> IF x = q THEN r ELSE A[x]]
  BY DEF AsksOK
<1> HIDE DEF B
<1>2. AsksOK(B)
  BY <1>1 DEF AsksOK
<1>3. ASSUME Untroubled(R, A, s), r # None /\ ~ r.stale => Knows(r, R, s)
      PROVE  Untroubled(R, B, s)
  <2>1. \A x \in Ask : B[x] # None /\ ~ B[x].stale => Knows(B[x], R, s)
    BY <1>1, <1>3 DEF Untroubled
  <2>2. ASSUME NEW i \in Match, Clearing(A, i) PROVE Clearing(B, i)
    BY <1>1, <2>2 DEF Clearing, ClearingBy
  <2> QED BY <1>3, <2>1, <2>2 DEF Untroubled
<1> QED BY <1>2, <1>3 DEF B

-----------------------------------------------------------------------------
(* The steps. *)

LEMMA InitHolds == ASSUME RotaInit PROVE AInv
<1>1. rows = {} /\ sightings = {} /\ trouble = {} /\ schedule = FirstSchedule /\ ask = [q \in Ask |-> None]
  BY DEF RotaInit
<1>2. RowsOK(rows) /\ AsksOK(ask) /\ Untroubled(rows, ask, schedule)
  BY <1>1 DEF RowsOK, OneEach, AsksOK, Untroubled, Alone, Here
<1>3. ScheduleOK(schedule)
  BY <1>1, AssignmentsAssumption DEF ScheduleOK, MatchRecord
<1> QED BY <1>1, <1>2, <1>3 DEF AInv

\* A step that only moves a request on.
LEMMA MovedOnHolds ==
  ASSUME AInv, trouble = {}, NEW q \in Ask, NEW r,
         ask' = [ask EXCEPT ![q] = r], UNCHANGED <<schedule, rows, sightings, trouble>>,
         ask[q] # None => ask[q].at # "unassign",
         r # None => AskOK(r),
         r # None /\ ~ r.stale => Knows(r, rows, schedule)
  PROVE  AInv'
<1>1. AsksOK(ask) /\ Untroubled(rows, ask, schedule)
  BY DEF AInv
<1>2. AsksOK(ask') /\ Untroubled(rows, ask', schedule)
  BY <1>1, MovedOn
<1> QED BY <1>2 DEF AInv

LEMMA SaveMatchHolds ==
  ASSUME AInv, trouble = {}, NEW q \in Ask, NEW i \in Edited, NEW chosen \in Posts(i), SaveMatch(q, i, chosen)
  PROVE  AInv'
<1> DEFINE T == Teams(schedule[i])
           r == Request("named", i, chosen, <<T>>, {}, FALSE)
<1>1. /\ ask' = [ask EXCEPT ![q] = r] /\ UNCHANGED <<schedule, rows, sightings, trouble>>
      /\ ask[q] = None
  BY DEF SaveMatch
<1>2. i \in Match /\ Named \subseteq Assignee
  BY AssignmentsAssumption
<1>3. T \subseteq Robot
  BY <1>2, ScheduleIs DEF AInv
<1>4. \E U \in SUBSET T : chosen \in [U -> Assignee \cup {None}]
  <2>1. chosen \in UNION {[U -> Named \cup {None}] : U \in {{t} : t \in T} \cup {T}}
    BY Zenon DEF Posts
  <2> HIDE DEF T
  <2>2. PICK U \in {{t} : t \in T} \cup {T} : chosen \in [U -> Named \cup {None}]
    BY Zenon, <2>1
  <2>3. U \in SUBSET T
    OBVIOUS
  <2>4. chosen \in [U -> Assignee \cup {None}]
    BY <1>2, <2>2
  <2> QED BY <2>3, <2>4
<1> HIDE DEF T
<1>9. r = Request("named", i, chosen, <<T>>, {}, FALSE)
  OBVIOUS
<1> HIDE DEF r
<1>5. /\ r.at = "named" /\ r.match = i /\ r.chosen = chosen /\ r.seen = <<T>> /\ r.todo = {} /\ r.stale = FALSE
      /\ r = Request(r.at, r.match, r.chosen, r.seen, r.todo, r.stale)
  BY <1>9 DEF Request
<1>6. r \in MatchSave
  BY <1>2, <1>3, <1>4 DEF r, Request, MatchSave
<1>7. AskOK(r)
  BY <1>5, <1>6 DEF AskOK
<1>8. Knows(r, rows, schedule)
  BY <1>4, <1>5 DEF Knows, T
<1> QED BY <1>1, <1>7, <1>8, MovedOnHolds

LEMMA CheckMatchHolds ==
  ASSUME AInv, trouble = {}, NEW q \in Ask, CheckMatch(q)
  PROVE  AInv'
<1> DEFINE a == ask[q]
           here == {x \in rows : x.match = a.match}
           kept == {x \in here : x.team \in a.seen[1] \ DOMAIN a.chosen}
           todo == Blank(a) \cup ({x.team : x \in here} \ a.seen[1])
           u == [[a EXCEPT !.at = "set"] EXCEPT !.todo = todo]
           r == IF Doubled(Picked(a) \cup kept) # {} THEN None ELSE u
<1>1. /\ a # None /\ a.at = "named" /\ UNCHANGED <<schedule, rows, sightings, trouble>>
  BY DEF CheckMatch
<1>2. ask' = [ask EXCEPT ![q] = r]
  <2>1. ask' = IF Doubled(Picked(a) \cup kept) # {} THEN [ask EXCEPT ![q] = None]
               ELSE [ask EXCEPT ![q].at = "set", ![q].todo = todo]
    BY DEF CheckMatch
  <2>2. ask = [x \in Ask |-> ask[x]]
    BY DEF AInv, AsksOK
  <2>3. [ask EXCEPT ![q].at = "set", ![q].todo = todo] = [ask EXCEPT ![q] = u]
    <3> DEFINE A == ask
               x == todo
    <3>1. A = [p \in Ask |-> A[p]]
      BY <2>2
    <3> HIDE DEF A, x
    <3>2. [A EXCEPT ![q].at = "set", ![q].todo = x]
          = [A EXCEPT ![q] = [[A[q] EXCEPT !.at = "set"] EXCEPT !.todo = x]]
      BY <3>1
    <3> QED BY Zenon, <3>2 DEF A, x
  <2> QED BY <2>1, <2>3
<1>3. AskOK(a) /\ a \in MatchSave
  BY <1>1 DEF AInv, AsksOK, AskOK
<1>4. Blank(a) \subseteq DOMAIN a.chosen /\ DOMAIN a.chosen \subseteq Robot
  BY <1>3, PickedIs
<1>5. todo \subseteq Robot
  <2>1. \A x \in rows : x.team \in Robot
    BY DEF AInv, RowsOK, Jobs
  <2> QED BY <1>4, <2>1
<1>6. PICK at, i, chosen, seen, had, stale : a = Request(at, i, chosen, seen, had, stale)
  BY <1>3 DEF AskOK
<1>7. u = Request("set", i, chosen, seen, todo, stale)
  <2> DEFINE b == a
             x == todo
  <2>1. b = Request(at, i, chosen, seen, had, stale)
    BY <1>6
  <2> HIDE DEF b, x
  <2>2. PICK c : c = [b EXCEPT !.at = "set"]
    OBVIOUS
  <2>3. c = Request("set", i, chosen, seen, had, stale)
    BY <2>1, <2>2 DEF Request
  <2>4. [c EXCEPT !.todo = x] = Request("set", i, chosen, seen, x, stale)
    BY <2>3 DEF Request
  <2> QED BY Zenon, <2>2, <2>4 DEF b, x
<1>8. /\ u.at = "set" /\ u.match = i /\ u.chosen = chosen /\ u.seen = seen /\ u.todo = todo /\ u.stale = stale
      /\ a.at = at /\ a.match = i /\ a.chosen = chosen /\ a.seen = seen /\ a.stale = stale
  <2> HIDE DEF a, todo, u
  <2> QED BY <1>6, <1>7, RequestIs
<1>9. u \in MatchSave
  <2> HIDE DEF a, todo, u
  <2> QED BY <1>3, <1>5, <1>7, <1>8 DEF MatchSave, Request
<1>10. AskOK(u)
  <2> HIDE DEF a, todo, u
  <2> QED BY <1>7, <1>8, <1>9, <1>3 DEF AskOK
<1>11. ASSUME r # None, ~ r.stale PROVE Knows(r, rows, schedule)
  <2>1. r = u /\ Doubled(Picked(a) \cup kept) = {}
    BY <1>11
  <2>2. Knows(a, rows, schedule)
    <3>1. ~ a.stale
      BY Zenon, <1>8, <1>11, <2>1
    <3> QED BY <1>1, <3>1 DEF AInv, Untroubled
  <2>3. DOMAIN chosen \subseteq Teams(schedule[i]) /\ seen[1] = Teams(schedule[i])
    BY <1>1, <1>8, <2>2 DEF Knows
  <2>4. Picked(u) = Picked(a) /\ Blank(u) = Blank(a)
    BY <1>8 DEF Picked, Blank
  <2>5. Beside(i, DOMAIN chosen, rows, schedule) \subseteq kept
    BY <1>8, <2>3 DEF Beside, Here
  <2>6. Alone(Picked(a) \cup kept)
    BY <2>1, DoubledIs
  <2>7. Alone(Picked(u) \cup Beside(i, DOMAIN chosen, rows, schedule))
    BY <2>4, <2>5, <2>6 DEF Alone
  <2>8. Blank(u) \subseteq u.todo
    BY <1>8, <2>4
  <2> HIDE DEF u, a
  <2> QED BY <1>8, <2>1, <2>3, <2>7, <2>8 DEF Knows
<1>12. r # None => AskOK(r)
  BY <1>10
<1> HIDE DEF r
<1> QED BY <1>1, <1>2, <1>11, <1>12, MovedOnHolds

\* A step that writes: everyone else's reading is out of date, so what is left
\* to see is what the writer knows, and the matches it may have disturbed.
LEMMA WroteHolds ==
  ASSUME AInv, trouble = {}, NEW w,
         RowsOK(rows'), ScheduleOK(schedule'), sightings' = sightings,
         trouble' \in SUBSET {"overlap", "halfway", "return"},
         ask' = [q \in Ask |-> ask'[q]],
         \A q \in Ask : q # w => ask'[q] = Outdate(ask, w)[q],
         w \in Ask /\ ask'[w] # None => AskOK(ask'[w]),
         trouble' = {} =>
             /\ w \in Ask /\ ask'[w] # None /\ ~ ask'[w].stale => Knows(ask'[w], rows', schedule')
             /\ AsGood(ask, ask', rows, rows', schedule, schedule', w)
  PROVE  AInv'
<1>1. AsksOK(ask) /\ Untroubled(rows, ask, schedule) /\ sightings = {}
  BY DEF AInv
<1> DEFINE B == ask'
           R == rows'
           s == schedule'
<1> HIDE DEF B, R, s
<1>2. AsksOK(B) /\ Beyond(ask, B, w)
  <2>1. /\ B = [q \in Ask |-> B[q]] /\ (w \in Ask /\ B[w] # None => AskOK(B[w]))
        /\ \A q \in Ask : q # w => B[q] = Outdate(ask, w)[q]
    BY DEF B
  <2> QED BY <1>1, <2>1, OutdatedIs
<1>3. ASSUME trouble' = {} PROVE Untroubled(R, B, s)
  <2>1. /\ w \in Ask /\ B[w] # None /\ ~ B[w].stale => Knows(B[w], R, s)
        /\ AsGood(ask, B, rows, R, schedule, s, w)
    BY <1>3 DEF B, R, s
  <2> QED BY <1>1, <1>2, <2>1, StillUntroubled
<1> QED BY <1>1, <1>2, <1>3 DEF AInv, B, R, s

\* Robots are only taken off people.
LEMMA FewerHolds ==
  ASSUME AInv, trouble = {}, rows' \subseteq rows, ask' = Outdate(ask, None),
         UNCHANGED <<schedule, sightings, trouble>>
  PROVE  AInv'
<1>1. None \notin Ask
  BY AssignmentsAssumption
<1>2. RowsOK(rows')
  BY DEF AInv, RowsOK, OneEach
<1>3. ask' = [q \in Ask |-> ask'[q]]
  BY DEF Outdate
<1>4. ASSUME NEW i PROVE Alone(Here(i, rows, schedule)) => Alone(Here(i, rows', schedule'))
  BY DEF Alone, Here
<1>5. ScheduleOK(schedule') /\ trouble' \in SUBSET {"overlap", "halfway", "return"} /\ sightings' = sightings
  BY DEF AInv
<1>6. \A q \in Ask : q # None => ask'[q] = Outdate(ask, None)[q]
  OBVIOUS
<1> QED BY <1>1, <1>2, <1>3, <1>4, <1>5, <1>6, WroteHolds DEF AsGood

LEMMA ClearMatchHolds == ASSUME AInv, trouble = {}, NEW i, ClearMatch(i) PROVE AInv'
BY FewerHolds DEF ClearMatch

LEMMA ClearAllHolds == ASSUME AInv, trouble = {}, ClearAll PROVE AInv'
BY FewerHolds DEF ClearAll

LEMMA DistributeFromHolds ==
  ASSUME AInv, trouble = {}, NEW q \in Ask, NEW pool \in Pools, NEW limit, DistributeFrom(q, pool, limit)
  PROVE  AInv'
<1> DEFINE r == Request("pool", limit, pool, schedule, {}, FALSE)
<1>1. /\ ask' = [ask EXCEPT ![q] = r] /\ UNCHANGED <<schedule, rows, sightings, trouble>>
      /\ ask[q] = None /\ ScheduleOK(schedule)
  BY DEF DistributeFrom, AInv
<1>2. r = Request("pool", limit, pool, schedule, {}, FALSE)
  OBVIOUS
<1> HIDE DEF r
<1>3. /\ r.at = "pool" /\ r.chosen = pool /\ r.seen = schedule /\ r.stale = FALSE
      /\ r = Request(r.at, r.match, r.chosen, r.seen, r.todo, r.stale)
  BY <1>2 DEF Request
<1>4. AskOK(r) /\ Knows(r, rows, schedule)
  BY <1>1, <1>3 DEF AskOK, Knows
<1> QED BY <1>1, <1>4, MovedOnHolds

LEMMA HandOutHolds ==
  ASSUME AInv, trouble = {}, NEW q \in Ask, HandOut(q)
  PROVE  AInv'
<1> DEFINE a == ask[q]
           todo == Distribute(a.seen, rows, a.chosen, a.match)
           r == Request("hand", a.match, <<>>, <<>>, todo, a.stale)
<1>1. /\ a # None /\ a.at = "pool" /\ UNCHANGED <<schedule, rows, sightings, trouble>>
  BY DEF HandOut
<1>2. ask' = [ask EXCEPT ![q] = r]
  BY DEF HandOut, AInv, AsksOK
<1>3. AskOK(a) /\ ScheduleOK(a.seen) /\ a.chosen \in Pools
  BY <1>1 DEF AInv, AsksOK, AskOK
<1>4. todo \in SUBSET Jobs /\ OneEach(todo) /\ HandsOut(todo, rows, a.seen)
  <2>1. rows \in SUBSET Jobs /\ OneEach(rows)
    BY DEF AInv, RowsOK
  <2> HIDE DEF a
  <2> QED BY <1>3, <2>1, DistributeIs
<1>5. ~ a.stale => a.seen = schedule
  BY <1>1 DEF AInv, Untroubled, Knows
<1> HIDE DEF todo
<1>6. r = Request("hand", a.match, <<>>, <<>>, todo, a.stale)
  OBVIOUS
<1>7. a.stale \in BOOLEAN
  BY <1>3 DEF AskOK
<1> HIDE DEF r
<1>8. /\ r.at = "hand" /\ r.todo = todo /\ r.stale = a.stale
      /\ r = Request(r.at, r.match, r.chosen, r.seen, r.todo, r.stale)
  <2> HIDE DEF a
  <2> QED BY <1>6 DEF Request
<1>9. AskOK(r) /\ (~ r.stale => Knows(r, rows, schedule))
  BY <1>4, <1>5, <1>7, <1>8 DEF AskOK, Knows
<1> QED BY <1>1, <1>2, <1>9, MovedOnHolds

LEMMA InterruptedHolds ==
  ASSUME AInv, trouble = {}, NEW q \in Ask, Interrupted(q)
  PROVE  AInv'
<1>1. /\ ask' = [ask EXCEPT ![q] = None] /\ UNCHANGED <<schedule, rows, sightings>>
      /\ trouble' = IF ask[q].at = "unassign" THEN {"halfway"} ELSE {}
  BY DEF Interrupted
<1>2. CASE ask[q].at # "unassign"
  BY <1>1, <1>2, MovedOnHolds
<1>3. CASE ask[q].at = "unassign"
  BY <1>1, <1>3 DEF AInv, AsksOK
<1> QED BY <1>2, <1>3

\* What a writer leaves of its own request.
LEMMA WriterIs ==
  ASSUME AInv, NEW q \in Ask, NEW r, ask' = [Outdate(ask, q) EXCEPT ![q] = r]
  PROVE  /\ ask' = [x \in Ask |-> ask'[x]] /\ ask'[q] = r
         /\ \A x \in Ask : x # q => ask'[x] = Outdate(ask, q)[x]
BY DEF Outdate

LEMMA SetMatchHolds ==
  ASSUME AInv, trouble = {}, NEW q \in Ask, SetMatch(q)
  PROVE  AInv'
<1> DEFINE a == ask[q]
           u == [a EXCEPT !.at = "unassign"]
           r == IF a.todo = {} THEN None ELSE u
           i == a.match
           set == Picked(a)
<1>1. /\ a # None /\ a.at = "set" /\ UNCHANGED <<schedule, sightings>>
      /\ rows' = SetAssignments(set)
      /\ trouble' = IF a.stale THEN {"overlap"} ELSE {}
  BY DEF SetMatch, Late
<1>2. ask' = [Outdate(ask, q) EXCEPT ![q] = r]
  BY DEF SetMatch
<1>3. /\ ask' = [x \in Ask |-> ask'[x]] /\ ask'[q] = r
      /\ \A x \in Ask : x # q => ask'[x] = Outdate(ask, q)[x]
  <2> HIDE DEF r
  <2> QED BY <1>2, WriterIs
<1>4. AskOK(a) /\ a \in MatchSave
  BY <1>1 DEF AInv, AsksOK, AskOK
<1>5. PICK chosen, seen, todo, stale : a = Request("set", i, chosen, seen, todo, stale)
  BY <1>1, <1>4 DEF AskOK
<1>6. u = Request("unassign", i, chosen, seen, todo, stale)
  <2> DEFINE b == a
             j == i
  <2>1. b = Request("set", j, chosen, seen, todo, stale)
    BY <1>5
  <2> HIDE DEF b, j
  <2>2. [b EXCEPT !.at = "unassign"] = Request("unassign", j, chosen, seen, todo, stale)
    BY <2>1 DEF Request
  <2> QED BY Zenon, <2>2 DEF b, j
<1> HIDE DEF u
<1>7. /\ u.at = "unassign" /\ u.match = i /\ u.chosen = chosen /\ u.seen = seen /\ u.todo = todo /\ u.stale = stale
      /\ a.chosen = chosen /\ a.seen = seen /\ a.todo = todo /\ a.stale = stale
  <2> HIDE DEF a, i
  <2> QED BY <1>5, <1>6, RequestIs
<1>8. u \in MatchSave
  <2>1. i \in Match
    <3> HIDE DEF a
    <3> QED BY <1>4 DEF MatchSave
  <2> HIDE DEF a, i
  <2> QED BY <1>4, <1>6, <1>7, <2>1 DEF MatchSave, Request
<1>9. AskOK(u)
  <2> HIDE DEF a, i
  <2> QED BY <1>4, <1>6, <1>7, <1>8 DEF AskOK
<1>10. /\ RowsOK(set) /\ \A x \in set : x.match = i /\ x.team \in DOMAIN chosen
       /\ \A t \in DOMAIN chosen : t \in Blank(a) \/ \E x \in set : x.team = t /\ x.match = i
  BY <1>4, <1>7, PickedIs
<1>11. RowsOK(rows')
  BY <1>1, <1>10, SetAssignmentsIs DEF AInv
<1>12. u # None
  BY <1>8, AssignmentsAssumption
<1>13. \A x \in rows' : x \in set \/ (x \in rows /\ \A y \in set : y.match # x.match \/ y.team # x.team)
  BY <1>1, <1>10, SetAssignmentsIs DEF AInv
<1>14. ASSUME trouble' = {}
       PROVE  /\ r # None /\ ~ r.stale => Knows(r, rows', schedule')
              /\ AsGood(ask, ask', rows, rows', schedule, schedule', q)
  <2>1. Knows(a, rows, schedule)
    BY <1>1, <1>14 DEF AInv, Untroubled
  <2>2. /\ Alone(set \cup Beside(i, DOMAIN chosen, rows, schedule))
        /\ Blank(a) \subseteq todo
    <3> HIDE DEF a
    <3> QED BY <1>1, <1>7, <2>1 DEF Knows
  <2> HIDE DEF set
  <2>3. Beside(i, todo, rows', schedule') \subseteq set \cup Beside(i, DOMAIN chosen, rows, schedule)
    BY <1>1, <1>10, <1>13, <2>2 DEF Beside, Here
  <2>4. Alone(Beside(i, todo, rows', schedule'))
    BY <2>2, <2>3 DEF Alone
  <2>5. r # None => Knows(r, rows', schedule')
    BY <1>7, <2>4 DEF Knows
  <2>6. CASE todo = {}
    <3>1. Alone(Here(i, rows', schedule'))
      BY <2>4, <2>6 DEF Beside
    <3>2. ASSUME NEW j \in Match, j # i PROVE Alone(Here(j, rows, schedule)) => Alone(Here(j, rows', schedule'))
      BY <1>1, <1>10, <1>13, <3>2 DEF Alone, Here
    <3>3. ~ ClearingBy(ask, q, i)
      BY <1>1 DEF ClearingBy
    <3> QED BY <1>1, <2>5, <3>1, <3>2, <3>3 DEF ClearingBy, AsGood
  <2>7. CASE todo # {}
    <3>1. ClearingBy(ask', q, i)
      BY <1>3, <1>7, <1>12, <2>7 DEF ClearingBy
    <3>2. ASSUME NEW j \in Match, j # i PROVE Alone(Here(j, rows, schedule)) => Alone(Here(j, rows', schedule'))
      BY <1>1, <1>10, <1>13, <3>2 DEF Alone, Here
    <3> QED BY <1>1, <2>5, <3>1, <3>2 DEF ClearingBy, AsGood
  <2> QED BY <2>6, <2>7
<1>15. ask'[q] # None => AskOK(ask'[q])
  BY <1>3, <1>9
<1>16. ScheduleOK(schedule') /\ trouble' \in SUBSET {"overlap", "halfway", "return"} /\ sightings' = sightings
  BY <1>1 DEF AInv
<1> HIDE DEF r
<1> QED BY <1>3, <1>11, <1>14, <1>15, <1>16, WroteHolds

LEMMA UnassignHolds ==
  ASSUME AInv, trouble = {}, NEW q \in Ask, NEW t, Unassign(q, t)
  PROVE  AInv'
<1> DEFINE a == ask[q]
           u == [a EXCEPT !.todo = @ \ {t}]
           r == IF a.todo = {t} THEN None ELSE u
           i == a.match
<1>1. /\ a # None /\ a.at = "unassign" /\ t \in a.todo /\ UNCHANGED <<schedule, sightings>>
      /\ rows' = {x \in rows : x.match # i \/ x.team # t}
      /\ trouble' = IF a.stale THEN {"overlap"} ELSE {}
  BY DEF Unassign, Late
<1>2. ask' = [Outdate(ask, q) EXCEPT ![q] = r]
  BY DEF Unassign
<1>3. /\ ask' = [x \in Ask |-> ask'[x]] /\ ask'[q] = r
      /\ \A x \in Ask : x # q => ask'[x] = Outdate(ask, q)[x]
  <2> HIDE DEF r
  <2> QED BY <1>2, WriterIs
<1>4. AskOK(a) /\ a \in MatchSave
  BY <1>1 DEF AInv, AsksOK, AskOK
<1>5. PICK chosen, seen, todo, stale : a = Request("unassign", i, chosen, seen, todo, stale)
  BY <1>1, <1>4 DEF AskOK
<1>6. u = Request("unassign", i, chosen, seen, todo \ {t}, stale)
  <2> DEFINE b == a
             j == i
  <2>1. b = Request("unassign", j, chosen, seen, todo, stale)
    BY <1>5
  <2> HIDE DEF b, j
  <2>2. [b EXCEPT !.todo = @ \ {t}] = Request("unassign", j, chosen, seen, todo \ {t}, stale)
    BY <2>1 DEF Request
  <2> QED BY Zenon, <2>2 DEF b, j
<1> HIDE DEF u
<1>7. /\ u.at = "unassign" /\ u.match = i /\ u.chosen = chosen /\ u.seen = seen /\ u.todo = todo \ {t} /\ u.stale = stale
      /\ a.chosen = chosen /\ a.seen = seen /\ a.todo = todo /\ a.stale = stale
  <2> HIDE DEF a, i
  <2> QED BY <1>5, <1>6, RequestIs
<1>8. u \in MatchSave
  <2>1. todo \ {t} \subseteq Robot
    <3> HIDE DEF a
    <3> QED BY <1>4, <1>7 DEF MatchSave
  <2>2. i \in Match
    <3> HIDE DEF a
    <3> QED BY <1>4 DEF MatchSave
  <2> HIDE DEF a, i
  <2> QED BY <1>4, <1>6, <1>7, <2>1, <2>2 DEF MatchSave, Request
<1>9. AskOK(u)
  <2> HIDE DEF a, i
  <2> QED BY <1>4, <1>6, <1>7, <1>8 DEF AskOK
<1>11. RowsOK(rows')
  BY <1>1 DEF AInv, RowsOK, OneEach
<1>12. u # None
  BY <1>8, AssignmentsAssumption
<1>14. ASSUME trouble' = {}
       PROVE  /\ r # None /\ ~ r.stale => Knows(r, rows', schedule')
              /\ AsGood(ask, ask', rows, rows', schedule, schedule', q)
  <2>1. Knows(a, rows, schedule)
    BY <1>1, <1>14 DEF AInv, Untroubled
  <2>2. Alone(Beside(i, todo, rows, schedule))
    <3> HIDE DEF a
    <3> QED BY <1>1, <1>7, <2>1 DEF Knows
  <2>3. Beside(i, todo \ {t}, rows', schedule') \subseteq Beside(i, todo, rows, schedule)
    BY <1>1 DEF Beside, Here
  <2>4. Alone(Beside(i, todo \ {t}, rows', schedule'))
    BY <2>2, <2>3 DEF Alone
  <2>5. r # None => Knows(r, rows', schedule')
    BY <1>7, <2>4 DEF Knows
  <2>6. ASSUME NEW j \in Match, j # i
        PROVE  /\ Alone(Here(j, rows, schedule)) => Alone(Here(j, rows', schedule'))
               /\ ~ ClearingBy(ask, q, j)
    BY <1>1, <2>6 DEF Alone, Here, ClearingBy
  <2>7. CASE todo = {t}
    <3>1. Alone(Here(i, rows', schedule'))
      BY <2>4, <2>7 DEF Beside
    <3> QED BY <2>5, <2>6, <3>1 DEF AsGood
  <2>8. CASE todo # {t}
    <3>1. ClearingBy(ask', q, i)
      BY <1>3, <1>7, <1>12, <2>8 DEF ClearingBy
    <3> QED BY <2>5, <2>6, <3>1 DEF AsGood
  <2> QED BY <2>7, <2>8
<1>15. ask'[q] # None => AskOK(ask'[q])
  BY <1>3, <1>9
<1>16. ScheduleOK(schedule') /\ trouble' \in SUBSET {"overlap", "halfway", "return"} /\ sightings' = sightings
  BY <1>1 DEF AInv
<1> HIDE DEF r
<1> QED BY <1>3, <1>11, <1>14, <1>15, <1>16, WroteHolds

LEMMA SetHandedHolds ==
  ASSUME AInv, trouble = {}, NEW q \in Ask, SetHanded(q)
  PROVE  AInv'
<1> DEFINE a == ask[q]
           todo == a.todo
<1>1. /\ a # None /\ a.at = "hand" /\ UNCHANGED <<schedule, sightings>>
      /\ rows' = SetAssignments(todo)
      /\ ask' = [Outdate(ask, q) EXCEPT ![q] = None]
      /\ trouble' = IF a.stale THEN {"overlap"} ELSE {}
  BY DEF SetHanded, Late
<1>2. RowsOK(todo)
  BY <1>1 DEF AInv, AsksOK, AskOK, RowsOK
<1>3. RowsOK(rows')
  BY <1>1, <1>2, SetAssignmentsIs DEF AInv
<1>4. /\ ask' = [x \in Ask |-> ask'[x]] /\ ask'[q] = None
      /\ \A x \in Ask : x # q => ask'[x] = Outdate(ask, q)[x]
  BY <1>1, WriterIs
<1>5. ASSUME trouble' = {}, NEW i \in Match, Alone(Here(i, rows, schedule))
      PROVE  Alone(Here(i, rows', schedule'))
  <2>1. HandsOut(todo, rows, schedule)
    BY <1>1, <1>5 DEF AInv, Untroubled, Knows
  <2> HIDE DEF todo
  <2>2. \A x \in Here(i, rows', schedule') : x \in Here(i, rows, schedule) \/ (x \in todo /\ x.match = i)
    BY <1>1 DEF Here, SetAssignments
  <2>3. \A x, y \in todo : x.match = y.match /\ x.who = y.who => x.team = y.team
    BY <2>1 DEF HandsOut
  <2>4. \A x \in todo, y \in Here(i, rows, schedule) : x.match = i => x.who # y.who
    BY <2>1 DEF HandsOut, Here
  <2> QED BY <1>5, <2>2, <2>3, <2>4 DEF Alone
<1>6. \A i : ~ ClearingBy(ask, q, i)
  BY <1>1 DEF ClearingBy
<1>7. ScheduleOK(schedule') /\ trouble' \in SUBSET {"overlap", "halfway", "return"} /\ sightings' = sightings
  BY <1>1 DEF AInv
<1> QED BY <1>3, <1>4, <1>5, <1>6, <1>7, WroteHolds DEF AsGood

LEMMA ReviseHolds ==
  ASSUME AInv, trouble = {}, NEW i \in Match, NEW teams \in Revised[i], Revise(i, teams)
  PROVE  AInv'
<1>1. /\ schedule' = [schedule EXCEPT ![i].teams = teams]
      /\ ask' = Outdate(ask, None) /\ UNCHANGED <<rows, sightings>>
      /\ trouble' \in SUBSET {"overlap", "halfway", "return"}
      /\ trouble' = {} => ~ \E a \in rows : a.match = i /\ a.team \in Range(teams) \ Teams(schedule[i])
  BY DEF Revise
<1>2. ScheduleOK(schedule) /\ RowsOK(rows) /\ sightings = {}
  BY DEF AInv
<1>3. teams \in Seq(Nat) /\ None \notin Ask
  BY AssignmentsAssumption
<1>4. /\ ScheduleOK(schedule') /\ schedule'[i].teams = teams
      /\ \A j \in Match : j # i => schedule'[j] = schedule[j]
  <2>1. Len(schedule) \in Nat /\ Match = 1 .. Len(schedule) /\ schedule \in Seq(MatchRecord)
    BY <1>2, MatchIs DEF ScheduleOK
  <2>2. schedule[i] \in MatchRecord
    BY <2>1
  <2> DEFINE m == [schedule[i] EXCEPT !.teams = teams]
  <2>3. m \in MatchRecord /\ m.teams = teams
    BY <1>3, <2>2 DEF MatchRecord
  <2>4. schedule' = [schedule EXCEPT ![i] = m]
    BY <1>1
  <2> HIDE DEF m
  <2>5. schedule' \in Seq(MatchRecord) /\ Len(schedule') = Len(schedule)
    BY <2>1, <2>3, <2>4
  <2>6. \A j \in Match : schedule'[j] = IF j = i THEN m ELSE schedule[j]
    BY <2>1, <2>4
  <2> QED BY <1>2, <2>3, <2>5, <2>6 DEF ScheduleOK
<1>5. ask' = [x \in Ask |-> ask'[x]] /\ \A x \in Ask : x # None => ask'[x] = Outdate(ask, None)[x]
  BY <1>1 DEF Outdate
<1>6. ASSUME trouble' = {}, NEW j \in Match, Alone(Here(j, rows, schedule))
      PROVE  Alone(Here(j, rows', schedule'))
  <2>1. Here(j, rows', schedule') \subseteq Here(j, rows, schedule)
    <3>1. CASE j # i
      BY <1>1, <1>4, <3>1 DEF Here
    <3>2. CASE j = i
      <4>1. Teams(schedule'[i]) = Range(teams)
        BY <1>4 DEF Teams
      <4> QED BY <1>1, <1>6, <3>2, <4>1 DEF Here
    <3> QED BY <3>1, <3>2
  <2> QED BY <1>6, <2>1 DEF Alone
<1> QED BY <1>1, <1>2, <1>3, <1>4, <1>5, <1>6, WroteHolds DEF AsGood

LEMMA PlayHolds ==
  ASSUME AInv, trouble = {}, NEW i \in Match, Play(i)
  PROVE  AInv'
<1>1. /\ schedule' = [schedule EXCEPT ![i].played = TRUE]
      /\ ask' = Outdate(ask, None) /\ UNCHANGED <<rows, sightings, trouble>>
  BY DEF Play
<1>2. ScheduleOK(schedule) /\ RowsOK(rows) /\ sightings = {} /\ None \notin Ask
  BY AssignmentsAssumption DEF AInv
<1>3. ScheduleOK(schedule') /\ \A j \in Match : Teams(schedule'[j]) = Teams(schedule[j])
  <2>1. Len(schedule) \in Nat /\ Match = 1 .. Len(schedule) /\ schedule \in Seq(MatchRecord)
    BY <1>2, MatchIs DEF ScheduleOK
  <2>2. schedule[i] \in MatchRecord
    BY <2>1
  <2> DEFINE m == [schedule[i] EXCEPT !.played = TRUE]
  <2>3. m \in MatchRecord /\ m.teams = schedule[i].teams
    BY <2>2 DEF MatchRecord
  <2>4. schedule' = [schedule EXCEPT ![i] = m]
    BY <1>1
  <2> HIDE DEF m
  <2>5. schedule' \in Seq(MatchRecord) /\ Len(schedule') = Len(schedule)
    BY <2>1, <2>3, <2>4
  <2>6. \A j \in Match : schedule'[j] = IF j = i THEN m ELSE schedule[j]
    BY <2>1, <2>4
  <2>7. \A j \in Match : schedule'[j].teams = schedule[j].teams
    BY <2>3, <2>6
  <2> QED BY <1>2, <2>5, <2>7 DEF ScheduleOK, Teams
<1>4. ask' = [x \in Ask |-> ask'[x]] /\ \A x \in Ask : x # None => ask'[x] = Outdate(ask, None)[x]
  BY <1>1 DEF Outdate
<1>5. \A j \in Match : Here(j, rows', schedule') = Here(j, rows, schedule)
  BY <1>1, <1>3 DEF Here
<1> QED BY <1>1, <1>2, <1>3, <1>4, <1>5, WroteHolds DEF AsGood

LEMMA StepHolds ==
  ASSUME AInv, [RotaNext]_rotaVars PROVE AInv'
<1>1. CASE UNCHANGED rotaVars
  <2>1. rows' = rows /\ schedule' = schedule /\ ask' = ask /\ sightings' = sightings /\ trouble' = trouble
    BY <1>1 DEF rotaVars
  <2> QED BY <2>1 DEF AInv
<1>2. CASE RotaNext
  <2>0. trouble = {} /\ Edited \subseteq Match
    BY <1>2, AssignmentsAssumption DEF RotaNext
  <2>1. CASE \E q \in Ask : \E i \in Edited : \E chosen \in Posts(i) : SaveMatch(q, i, chosen)
    BY <2>0, <2>1, SaveMatchHolds
  <2>2. CASE \E q \in Ask : CheckMatch(q)
    BY <2>0, <2>2, CheckMatchHolds
  <2>3. CASE \E q \in Ask : SetMatch(q)
    BY <2>0, <2>3, SetMatchHolds
  <2>4. CASE \E q \in Ask : \E t \in Robot : Unassign(q, t)
    BY <2>0, <2>4, UnassignHolds
  <2>5. CASE \E q \in Ask : \E pool \in Pools, limit \in Limits : DistributeFrom(q, pool, limit)
    BY <2>0, <2>5, DistributeFromHolds
  <2>6. CASE \E q \in Ask : HandOut(q)
    BY <2>0, <2>6, HandOutHolds
  <2>7. CASE \E q \in Ask : SetHanded(q)
    BY <2>0, <2>7, SetHandedHolds
  <2>8. CASE \E q \in Ask : Interrupted(q)
    BY <2>0, <2>8, InterruptedHolds
  <2>9. CASE \E i \in Match : ClearMatch(i)
    BY <2>0, <2>9, ClearMatchHolds
  <2>10. CASE ClearAll
    BY <2>0, <2>10, ClearAllHolds
  <2>11. CASE \E i \in Match : \E teams \in Revised[i] : Revise(i, teams)
    BY <2>0, <2>11, ReviseHolds
  <2>12. CASE \E i \in Edited : Play(i)
    BY <2>0, <2>12, PlayHolds
  <2> QED BY Zenon, <1>2, <2>1, <2>2, <2>3, <2>4, <2>5, <2>6, <2>7, <2>8, <2>9, <2>10, <2>11, <2>12 DEF RotaNext
<1> QED BY <1>1, <1>2

-----------------------------------------------------------------------------
(* The theorems. *)

\* In every reachable state: the rows are assignments of robots to people, one
\* each; and as long as nothing nobody guards against has happened, a request
\* that nobody has written beside still knows what it read, and whoever is on
\* two robots of a match is about to be taken off one.
THEOREM AssignmentsInvariant == RotaAlone => []AInv
<1>1. RotaInit => AInv
  BY InitHolds
<1>2. AInv /\ [RotaNext]_rotaVars => AInv'
  BY StepHolds
<1> QED BY <1>1, <1>2, PTL DEF RotaAlone

\* save_match, distribute and clear write only assignments of the event's
\* robots to people, one for each robot of a match.
THEOREM RotaTypes == RotaAlone => []RotaTypeOK
<1>1. AInv => RotaTypeOK
  BY DEF AInv, RowsOK, OneEach, Jobs, RotaTypeOK
<1> QED BY <1>1, AssignmentsInvariant, PTL

\* save_match and distribute check before they write: nobody is down for two
\* robots of a match, unless a request wrote over what changed after it read,
\* a save was cut off, or the schedule brought a robot back.
THEOREM NobodyIsDoubled == RotaAlone => []NobodyDoubled
<1>1. AInv => NobodyDoubled
  <2> SUFFICES ASSUME AInv, trouble = {}, \A q \in Ask : ask[q] # None => ask[q].at # "unassign",
                      NEW i \in Match
               PROVE  Doubled(InMatch(i)) = {}
    BY DEF NobodyDoubled
  <2>1. ~ Clearing(ask, i)
    BY DEF Clearing, ClearingBy
  <2>2. Alone(Here(i, rows, schedule))
    BY <2>1 DEF AInv, Untroubled
  <2>3. InMatch(i) = Here(i, rows, schedule)
    BY DEF InMatch, Here
  <2> QED BY <2>2, <2>3, DoubledIs
<1> QED BY <1>1, AssignmentsInvariant, PTL

\* distribute, whatever the grid holds: it takes no robot from anyone, puts
\* nobody on a second robot of a match, leaves no robot of a match it fills open
\* while somebody in the pool is free, and gives nobody a match too many in a
\* row while somebody else in the pool could rest them.  A match has its robots
\* once each.
THEOREM EveryGridIsDealtFairly ==
  ASSUME ScheduleOK(schedule), RowsOK(rows), \A i \in Match : Different(schedule[i].teams)
  PROVE  DealtFairly
<1> SUFFICES ASSUME NEW pool \in AnyPools, NEW limit \in Match
             PROVE  FairStep(Dealt(schedule, rows, pool, limit - 1), Dealt(schedule, rows, pool, limit),
                             pool, ToFill(schedule, limit))
  BY DEF DealtFairly
<1>1. limit \in Nat \ {0}
  BY MatchIs
<1> QED BY <1>1, FairlyOn DEF RowsOK

\* So it does in every grid that saves, clears and revisions leave.
THEOREM RotaDealtFairly ==
  ASSUME \A i \in Match : /\ Different(FirstSchedule[i].teams)
                          /\ \A teams \in Revised[i] : Different(teams)
  PROVE  RotaAlone => []DealtFairly
<1>1. AInv => DealtFairly
  <2> SUFFICES ASSUME AInv PROVE DealtFairly
    OBVIOUS
  <2>1. ScheduleOK(schedule) /\ RowsOK(rows)
    BY DEF AInv
  <2>2. \A i \in Match : Different(schedule[i].teams)
    BY <2>1 DEF ScheduleOK
  <2> QED BY <2>1, <2>2, EveryGridIsDealtFairly
<1> QED BY <1>1, AssignmentsInvariant, PTL

\* rotation, whatever the grid holds: when all it suggests is taken, nobody is on
\* two robots of a match who was not before, and nobody who took a robot over and
\* has it still is in a run too long.
THEOREM EveryGridsSuggestions ==
  ASSUME ScheduleOK(schedule), RowsOK(rows), NEW relief \in AnyPools
  PROVE  Relieved(Duties(schedule, rows), Rotation(schedule, rows, relief))
<1> DEFINE old == Duties(schedule, rows)
           scouts == Scouts(old)
           k == Len(scouts)
<1>1. DutiesOK(schedule, old)
  BY DutiesIs DEF RowsOK
<1> HIDE DEF old
<1>2. k \in Nat
  BY <1>1, ScoutsAre
<1>3. PICK after : /\ after[0] = [duties |-> old, said |-> <<>>]
                   /\ \A n \in 1 .. k : after[n] = AfterScout(schedule, after[n - 1], scouts[n], relief)
                   /\ Rotation(schedule, rows, relief) = after[k]
  BY <1>1, RotationGoes DEF old
<1> HIDE DEF k, scouts
<1> DEFINE G == {n \in 0 .. k : Going(schedule, old, after[n])}
<1>4. 0 \in G
  <2>1. after[0].duties = old /\ after[0].said = <<>>
    BY <1>3
  <2>2. Range(after[0].said) = {} /\ after[0].said \in Seq({})
    BY <2>1 DEF Range
  <2>3. Going(schedule, old, after[0])
    BY <1>1, <2>1, <2>2 DEF Going
  <2> QED BY <1>2, <2>3
<1>5. ASSUME NEW n \in 1 .. k, n - 1 \in G PROVE n \in G
  <2>1. Going(schedule, old, after[n - 1]) /\ n \in 0 .. k
    BY <1>2, <1>5
  <2>2. Going(schedule, old, AfterScout(schedule, after[n - 1], scouts[n], relief))
    BY <2>1, GoesOn
  <2> QED BY <1>3, <2>1, <2>2
<1>6. G \in SUBSET (0 .. k)
  OBVIOUS
<1>7. Going(schedule, old, after[k])
  <2> HIDE DEF G
  <2>1. k \in G
    BY <1>2, <1>4, <1>5, <1>6, CountUp
  <2> QED BY <2>1 DEF G
<1> HIDE DEF G
<1>8. Relieved(old, after[k])
  BY <1>7 DEF Going, Settled, Relieved
<1> QED BY <1>3, <1>8 DEF old

\* So it does in every grid that saves, clears and revisions leave.
THEOREM RotaSuggestions == RotaAlone => []SuggestionsHold
<1>1. AInv => SuggestionsHold
  <2> SUFFICES ASSUME AInv, NEW relief \in AnyPools
               PROVE  Relieved(Duties(schedule, rows), Rotation(schedule, rows, relief))
    BY DEF SuggestionsHold
  <2>1. ScheduleOK(schedule) /\ RowsOK(rows)
    BY DEF AInv
  <2> QED BY <2>1, EveryGridsSuggestions
<1> QED BY <1>1, AssignmentsInvariant, PTL

\* A robot the grid shows as missed is on the agenda of whoever it was given to,
\* as the account or on the tablet, and in their tally, whatever the grid, the
\* schedule and the observations hold.
THEOREM EveryHoleIsSomebodys ==
  ASSUME IsFiniteSet(rows)
  PROVE  HolesAreSomebodys
<1> SUFFICES ASSUME NEW i \in Match, NEW k \in Assignee, NEW who \in Scout,
                    NEW a \in InMatch(i), a.who = k,
                    SlotState(schedule, rows, sightings, i, a.team) = "missed"
             PROVE  LET recorded == {<<s.match, s.team>> : s \in {x \in sightings : x.scout = who}}
                    IN  /\ k \in Tablet \/ k = who =>
                               a \in Agenda(schedule, rows, {who, k}, recorded).missed
                        /\ Tally(schedule, rows, sightings, k).missed > 0
  BY DEF HolesAreSomebodys
<1> DEFINE recorded == {<<s.match, s.team>> : s \in {x \in sightings : x.scout = who}}
<1>1. a \in rows /\ a.match = i /\ a.team \in Teams(schedule[i])
  BY DEF InMatch
<1>2. schedule[i].played /\ \A s \in sightings : ~ (s.match = i /\ s.team = a.team)
  BY DEF SlotState
<1>3. a \in Agenda(schedule, rows, {who, k}, recorded).missed
  <2>1. <<a.match, a.team>> \notin recorded
    BY <1>1, <1>2
  <2> HIDE DEF recorded
  <2> QED BY <1>1, <1>2, <2>1 DEF Agenda
<1>4. Tally(schedule, rows, sightings, k).missed > 0
  <2> DEFINE mine == {x \in rows : x.who = k /\ x.team \in Teams(schedule[x.match])}
             done == {x \in mine : \E s \in sightings :
                          s.match = x.match /\ s.team = x.team /\ SeenBy(s, k)}
             missed == {x \in mine \ done : schedule[x.match].played}
  <2>1. Tally(schedule, rows, sightings, k).missed = Cardinality(missed)
    BY DEF Tally
  <2>2. a \in missed
    BY <1>1, <1>2
  <2>3. missed \in SUBSET rows
    OBVIOUS
  <2> HIDE DEF missed
  <2>4. IsFiniteSet(missed) /\ Cardinality(missed) \in Nat /\ Cardinality(missed) # 0
    BY <2>2, <2>3, FS_Subset, FS_CardinalityType, FS_EmptySet
  <2> QED BY <2>1, <2>4
<1> QED BY <1>3, <1>4

\* So in every state that saves, clears and distributions leave, of any event of
\* finitely many robots and people.
THEOREM RotaHoles ==
  ASSUME IsFiniteSet(Robot), IsFiniteSet(Assignee)
  PROVE  RotaAlone => []HolesAreSomebodys
<1>1. IsFiniteSet(Jobs)
  <2> DEFINE T == Match \X (Robot \X Assignee)
             f == [a \in Jobs |-> <<a.match, <<a.team, a.who>>>>]
  <2>1. IsFiniteSet(T)
    <3>1. IsFiniteSet(Match)
      BY MatchIs, FS_Interval
    <3>2. IsFiniteSet(Robot \X Assignee)
      BY FS_Product
    <3> QED BY <3>1, <3>2, FS_Product
  <2>2. f \in Injection(Jobs, T)
    BY DEF Jobs, Injection, IsInjective
  <2> HIDE DEF T, f
  <2> QED BY <2>1, <2>2, FS_Injection
<1>2. AInv => HolesAreSomebodys
  <2>1. AInv => IsFiniteSet(rows)
    BY <1>1, FS_Subset DEF AInv, RowsOK
  <2> QED BY <2>1, EveryHoleIsSomebodys
<1> QED BY <1>2, AssignmentsInvariant, PTL
=============================================================================
