---------------------------- MODULE PickList_proofs ----------------------------
(* Proofs about PickList, and of PickDoc what they need of the order keys and *)
(* of the document: for any teams and rows, any leads and copies, and any     *)
(* number of changes.                                                        *)
EXTENDS PickList, FiniteSetTheorems, FunctionTheorems, SequenceTheorems, WellFoundedInduction, TLAPS

-----------------------------------------------------------------------------
(* Numbers. *)

LEMMA Least ==
  ASSUME NEW T \in SUBSET Nat, T # {}
  PROVE  \E n \in T : \A m \in T : n <= m
<1> DEFINE R == OpToRel(<, Nat)
<1>1. IsWellFoundedOn(R, Nat)
  BY NatLessThanWellFounded
<1>2. \A n, m \in Nat : m < n => <<m, n>> \in R
  BY DEF OpToRel
<1> HIDE DEF R
<1>3. PICK n \in T : \A m \in T : ~ (<<m, n>> \in R)
  BY <1>1, WFMin
<1>4. \A m \in T : ~ (m < n)
  BY <1>2, <1>3
<1> QED BY <1>4

\* What holds of 0, and of a number whenever of the one before, holds of all.
LEMMA CountUp ==
  ASSUME NEW G \in SUBSET Nat, 0 \in G, \A n \in Nat \ {0} : n - 1 \in G => n \in G
  PROVE  G = Nat
<1> SUFFICES ASSUME Nat \ G # {} PROVE FALSE
  OBVIOUS
<1>1. PICK n \in Nat \ G : \A m \in Nat \ G : n <= m
  BY Least
<1>2. n \in Nat \ {0} /\ n - 1 \in Nat
  OBVIOUS
<1> QED BY <1>1, <1>2

LEMMA FunctionsAreSeqs ==
  ASSUME NEW n \in Nat, NEW S, NEW f \in [1 .. n -> S]
  PROVE  f \in Seq(S) /\ Len(f) = n
<1>1. f \in Seq(S)
  OBVIOUS
<1> QED BY <1>1

LEMMA StartsAreSeqs ==
  ASSUME NEW S, NEW b \in Seq(S), NEW n \in Nat, n <= Len(b)
  PROVE  /\ SubSeq(b, 1, n) \in Seq(S) /\ Len(SubSeq(b, 1, n)) = n
         /\ \A j \in 1 .. n : SubSeq(b, 1, n)[j] = b[j]
OBVIOUS

-----------------------------------------------------------------------------
(* Order keys. *)

\* The keys the code writes: digits, the last not 0; and the upper ends.
KeyOK(a) == a \in Seq(0 .. Base - 1) /\ (a # <<>> => a[Len(a)] # 0)
EndOK(b) == b = Top \/ (KeyOK(b) /\ b # <<>>)

LEMMA KeysAreSeqs ==
  /\ Base \in Nat /\ Base > 1 /\ Top \in Seq(Nat)
  /\ \A a : KeyOK(a) => a \in Seq(Nat)
  /\ \A b : EndOK(b) => b \in Seq(Nat)
  /\ KeyOK(<<>>)
<1>1. Base \in Nat /\ Base > 1 /\ Top \in Seq(Nat)
  BY PickDocAssumption DEF Top
<1>2. ASSUME NEW a, KeyOK(a) PROVE a \in Seq(Nat)
  <2>1. a \in Seq(0 .. Base - 1) /\ Len(a) \in Nat /\ a = [i \in 1 .. Len(a) |-> a[i]]
    BY <1>2 DEF KeyOK
  <2>2. \A i \in 1 .. Len(a) : a[i] \in Nat
    BY <1>1, <2>1
  <2> QED BY <2>1, <2>2
<1> QED BY <1>1, <1>2 DEF KeyOK, EndOK

\* Who comes before whom.
LEMMA BeforeIrreflexive ==
  ASSUME NEW a \in Seq(Nat)
  PROVE  ~ Before(a, a)
<1> SUFFICES ASSUME NEW i \in 1 .. Len(a), i <= Len(a) => a[i] < a[i] PROVE FALSE
  BY DEF Before
<1>1. a[i] \in Nat /\ i <= Len(a)
  OBVIOUS
<1> QED BY <1>1

LEMMA BeforeTransitive ==
  ASSUME NEW a \in Seq(Nat), NEW b \in Seq(Nat), NEW c \in Seq(Nat), Before(a, b), Before(b, c)
  PROVE  Before(a, c)
<1>1. PICK i \in 1 .. Len(b) :
        (i <= Len(a) => a[i] < b[i]) /\ i <= Len(a) + 1 /\ \A j \in 1 .. (i - 1) : a[j] = b[j]
  BY DEF Before
<1>2. PICK k \in 1 .. Len(c) :
        (k <= Len(b) => b[k] < c[k]) /\ k <= Len(b) + 1 /\ \A j \in 1 .. (k - 1) : b[j] = c[j]
  BY DEF Before
<1>3. CASE i < k
  <2>1. i \in 1 .. Len(c) /\ i \in 1 .. (k - 1) /\ b[i] = c[i]
    BY <1>2, <1>3
  <2>2. \A j \in 1 .. (i - 1) : j \in 1 .. (k - 1) /\ a[j] = c[j]
    BY <1>1, <1>2, <1>3
  <2> QED BY <1>1, <2>1, <2>2 DEF Before
<1>4. CASE i = k
  <2>1. b[k] < c[k] /\ (k <= Len(a) => a[k] < b[k]) /\ k <= Len(a) + 1
    BY <1>1, <1>2, <1>4
  <2>2. k <= Len(a) => a[k] \in Nat
    OBVIOUS
  <2>3. b[k] \in Nat /\ c[k] \in Nat
    BY <1>4
  <2>4. k <= Len(a) => a[k] < c[k]
    BY <2>1, <2>2, <2>3
  <2>5. \A j \in 1 .. (k - 1) : a[j] = c[j]
    BY <1>1, <1>2, <1>4
  <2> QED BY <2>1, <2>4, <2>5 DEF Before
<1>5. CASE i > k
  <2>1. k \in 1 .. (i - 1) /\ k <= Len(b) /\ a[k] = b[k] /\ k <= Len(a) + 1
    BY <1>1, <1>5
  <2>2. \A j \in 1 .. (k - 1) : a[j] = c[j]
    BY <1>1, <1>2, <1>5
  <2> QED BY <1>2, <2>1, <2>2 DEF Before
<1> QED BY <1>3, <1>4, <1>5

LEMMA BeforeTotal ==
  ASSUME NEW a \in Seq(Nat), NEW b \in Seq(Nat), a # b
  PROVE  Before(a, b) \/ Before(b, a)
<1> DEFINE apart == {i \in 1 .. Len(a) : i <= Len(b) /\ a[i] # b[i]}
<1>1. CASE apart # {}
  <2>1. apart \in SUBSET Nat
    OBVIOUS
  <2> HIDE DEF apart
  <2>2. PICK n \in apart : \A m \in apart : n <= m
    BY <1>1, <2>1, Least
  <2>3. n \in 1 .. Len(a) /\ n \in 1 .. Len(b) /\ a[n] # b[n] /\ a[n] \in Nat /\ b[n] \in Nat
    BY <2>2 DEF apart
  <2>4. \A j \in 1 .. (n - 1) : j \notin apart /\ j \in 1 .. Len(a) /\ j <= Len(b)
    BY <2>1, <2>2, <2>3
  <2>5. \A j \in 1 .. (n - 1) : a[j] = b[j]
    BY <2>4 DEF apart
  <2>6. CASE a[n] < b[n]
    <3>1. n <= Len(a) + 1
      BY <2>3
    <3> QED BY <2>3, <2>5, <2>6, <3>1 DEF Before
  <2>7. CASE b[n] < a[n]
    <3>1. n <= Len(b) + 1 /\ \A j \in 1 .. (n - 1) : b[j] = a[j]
      BY <2>3, <2>5
    <3> QED BY <2>3, <2>7, <3>1 DEF Before
  <2> QED BY <2>3, <2>6, <2>7
<1>2. CASE apart = {}
  <2>1. \A j \in 1 .. Len(a) : j <= Len(b) => a[j] = b[j]
    BY <1>2
  <2>2. CASE Len(a) < Len(b)
    <3>1. PICK n \in 1 .. Len(b) : n = Len(a) + 1
      BY <2>2
    <3>2. \A j \in 1 .. (n - 1) : a[j] = b[j]
      BY <2>1, <2>2, <3>1
    <3> QED BY <3>1, <3>2 DEF Before
  <2>3. CASE Len(b) < Len(a)
    <3>1. PICK n \in 1 .. Len(a) : n = Len(b) + 1
      BY <2>3
    <3>2. \A j \in 1 .. (n - 1) : b[j] = a[j]
      BY <2>1, <3>1
    <3> QED BY <3>1, <3>2 DEF Before
  <2>4. CASE Len(a) = Len(b)
    <3>1. \A j \in 1 .. Len(a) : a[j] = b[j]
      BY <2>1, <2>4
    <3>2. a = b
      BY <2>4, <3>1
    <3> QED BY <3>2
  <2> QED BY <2>2, <2>3, <2>4
<1> QED BY <1>1, <1>2

\* A short key reads as followed by zeros.
LEMMA DigitIs ==
  ASSUME NEW a, KeyOK(a)
  PROVE  \A i \in Nat \ {0} :
            /\ Digit(a, i) \in 0 .. Base - 1
            /\ i <= Len(a) => Digit(a, i) = a[i]
            /\ i > Len(a) => Digit(a, i) = 0
<1>1. Base \in Nat /\ Base > 1
  BY KeysAreSeqs
<1>2. a \in Seq(0 .. Base - 1) /\ Len(a) \in Nat
  BY DEF KeyOK
<1> QED BY <1>1, <1>2 DEF Digit

LEMMA DigitBefore ==
  ASSUME NEW a, KeyOK(a), NEW k \in Seq(Nat), NEW m \in 1 .. Len(k), Digit(a, m) < k[m],
         \A j \in 1 .. (m - 1) : Digit(a, j) = k[j]
  PROVE  Before(a, k)
<1>1. a \in Seq(Nat) /\ Len(a) \in Nat
  BY KeysAreSeqs
<1>2. CASE m <= Len(a)
  <2>1. \A j \in 1 .. (m - 1) : a[j] = k[j]
    BY <1>1, <1>2, DigitIs
  <2>2. a[m] < k[m]
    BY <1>2, DigitIs
  <2> QED BY <1>1, <1>2, <2>1, <2>2 DEF Before
<1>3. CASE m > Len(a)
  <2>1. Len(a) + 1 \in 1 .. Len(k)
    BY <1>1, <1>3
  <2>2. \A j \in 1 .. Len(a) : a[j] = k[j]
    BY <1>1, <1>3, DigitIs
  <2> QED BY <1>1, <2>1, <2>2 DEF Before
<1> QED BY <1>1, <1>2, <1>3

\* Where two keys first differ.
Apart(a, b, n) ==
    /\ n \in 1 .. Len(b) /\ Digit(a, n) < b[n]
    /\ \A j \in 1 .. (n - 1) : Digit(a, j) = b[j]

LEMMA FirstApart ==
  ASSUME NEW a, KeyOK(a), NEW b, EndOK(b), Before(a, b)
  PROVE  \E n \in 1 .. Len(b) : Apart(a, b, n)
<1>1. a \in Seq(Nat) /\ b \in Seq(Nat) /\ Len(a) \in Nat /\ Len(b) \in Nat
  BY KeysAreSeqs
<1>2. PICK i \in 1 .. Len(b) :
        (i <= Len(a) => a[i] < b[i]) /\ i <= Len(a) + 1 /\ \A j \in 1 .. (i - 1) : a[j] = b[j]
  BY DEF Before
<1>3. ASSUME NEW j \in 1 .. (i - 1) PROVE Digit(a, j) = b[j]
  <2>1. j \in Nat \ {0} /\ j <= Len(a) /\ a[j] = b[j]
    BY <1>1, <1>2
  <2> QED BY <2>1, DigitIs
<1>4. CASE i <= Len(a)
  BY <1>1, <1>2, <1>3, <1>4, DigitIs DEF Apart
<1>5. CASE i = Len(a) + 1
  <2> DEFINE more == {j \in i .. Len(b) : b[j] # 0}
  <2>1. b[Len(b)] # 0 /\ Len(b) \in i .. Len(b)
    <3>1. b[Len(b)] # 0
      BY <1>1, <1>2, KeysAreSeqs DEF EndOK, KeyOK, Top
    <3> QED BY <1>1, <3>1
  <2>2. more \in SUBSET Nat /\ more # {}
    BY <1>1, <2>1
  <2> HIDE DEF more
  <2>3. PICK n \in more : \A m \in more : n <= m
    BY <2>2, Least
  <2>4. n \in i .. Len(b) /\ b[n] # 0 /\ b[n] \in Nat /\ n \in 1 .. Len(b)
    BY <1>1, <2>3 DEF more
  <2>5. Digit(a, n) = 0
    BY <1>1, <1>5, <2>4, DigitIs
  <2>6. ASSUME NEW j \in 1 .. (n - 1) PROVE Digit(a, j) = b[j]
    <3>1. CASE j < i
      BY <1>1, <1>3, <3>1
    <3>2. CASE j >= i
      <4>1. j \in i .. Len(b) /\ j \in Nat /\ j \notin more
        BY <1>1, <2>2, <2>3, <2>4, <3>2
      <4>2. b[j] = 0
        BY <4>1 DEF more
      <4> QED BY <1>1, <1>5, <3>2, <4>1, <4>2, DigitIs
    <3> QED BY <1>1, <3>1, <3>2
  <2> QED BY <2>4, <2>5, <2>6 DEF Apart
<1> QED BY <1>1, <1>2, <1>4, <1>5

\* What midpoint picks, its three outcomes.
Halfway(a, k, high) ==
    [i \in 1 .. k |-> IF i < k THEN Digit(a, i) ELSE (Digit(a, k) + high) \div 2]

Roomy(a, n, p) == p > n /\ Digit(a, p) # Base - 1 /\ \A j \in (n + 1) .. (p - 1) : Digit(a, j) = Base - 1

LEMMA MidpointIs ==
  ASSUME NEW a, KeyOK(a), NEW b, EndOK(b), NEW n \in 1 .. Len(b), Apart(a, b, n)
  PROVE  \/ b[n] - Digit(a, n) > 1 /\ Midpoint(a, b) = Halfway(a, n, b[n])
         \/ b[n] - Digit(a, n) <= 1 /\ Len(b) > n /\ Midpoint(a, b) = SubSeq(b, 1, n)
         \/ /\ b[n] - Digit(a, n) <= 1 /\ Len(b) = n
            /\ \E p \in Nat : Roomy(a, n, p) /\ Midpoint(a, b) = Halfway(a, p, Base)
<1>1. a \in Seq(Nat) /\ b \in Seq(Nat) /\ Len(a) \in Nat /\ Len(b) \in Nat /\ Base \in Nat /\ Base > 1
  BY KeysAreSeqs
<1> DEFINE First(i) == Digit(a, i) # b[i] /\ \A j \in 1 .. (i - 1) : Digit(a, j) = b[j]
           High(i) == /\ Digit(a, i) # Base - 1
                      /\ \A j \in (n + 1) .. (i - 1) : Digit(a, j) = Base - 1
           m == CHOOSE i \in 1 .. Len(b) : First(i)
           p == CHOOSE i \in (n + 1) .. (n + Len(a) + 1) : High(i)
<1>2. m = n
  <2>1. First(n)
    <3>1. Digit(a, n) \in Nat
      BY <1>1, DigitIs
    <3>2. b[n] \in Nat
      BY <1>1
    <3> QED BY <3>1, <3>2 DEF Apart
  <2>2. \A i \in 1 .. Len(b) : First(i) => i = n
    <3> SUFFICES ASSUME NEW i \in 1 .. Len(b), First(i), i # n PROVE FALSE
      OBVIOUS
    <3>1. CASE i < n
      BY <2>1, <3>1
    <3>2. CASE n < i
      BY <2>1, <3>2
    <3> QED BY <3>1, <3>2
  <2> HIDE DEF First
  <2> QED BY <2>1, <2>2
<1>3. p \in (n + 1) .. (n + Len(a) + 1) /\ High(p)
  <2> DEFINE low == {i \in (n + 1) .. (n + Len(a) + 1) : Digit(a, i) # Base - 1}
  <2>1. n + Len(a) + 1 \in low
    <3>1. Digit(a, n + Len(a) + 1) = 0
      BY <1>1, DigitIs
    <3> QED BY <1>1, <3>1
  <2>2. low \in SUBSET Nat
    BY <1>1
  <2> HIDE DEF low
  <2>3. PICK i \in low : \A j \in low : i <= j
    BY <2>1, <2>2, Least
  <2>4. i \in (n + 1) .. (n + Len(a) + 1) /\ Digit(a, i) # Base - 1
    BY <2>3 DEF low
  <2>5. ASSUME NEW j \in (n + 1) .. (i - 1) PROVE Digit(a, j) = Base - 1
    <3>1. j \in (n + 1) .. (n + Len(a) + 1) /\ j \notin low
      BY <1>1, <2>2, <2>3, <2>4
    <3> QED BY <3>1 DEF low
  <2>6. High(i)
    BY <2>4, <2>5
  <2> HIDE DEF High
  <2> QED BY <2>4, <2>6
<1>4. Midpoint(a, b) = IF b[m] - Digit(a, m) > 1 THEN Halfway(a, m, b[m])
                       ELSE IF Len(b) > m THEN SubSeq(b, 1, m)
                       ELSE Halfway(a, CHOOSE i \in (m + 1) .. (m + Len(a) + 1) :
                                           /\ Digit(a, i) # Base - 1
                                           /\ \A j \in (m + 1) .. (i - 1) : Digit(a, j) = Base - 1, Base)
  BY DEF Midpoint, Halfway
<1>5. Midpoint(a, b) = IF b[n] - Digit(a, n) > 1 THEN Halfway(a, n, b[n])
                       ELSE IF Len(b) > n THEN SubSeq(b, 1, n)
                       ELSE Halfway(a, p, Base)
  <2> HIDE DEF m
  <2> QED BY <1>2, <1>4
<1>6. p \in Nat /\ Roomy(a, n, p)
  BY <1>1, <1>3 DEF Roomy
<1>7. b[n] \in Nat /\ Digit(a, n) \in Nat
  BY <1>1, DigitIs
<1> HIDE DEF p, m
<1> QED BY <1>1, <1>5, <1>6, <1>7

\* A key that agrees with a up to its last digit, where it is the greater.
LEMMA HalfwayIs ==
  ASSUME NEW a, KeyOK(a), NEW k \in Nat \ {0}, NEW high \in Nat, high <= Base, Digit(a, k) + 1 < high
  PROVE  /\ KeyOK(Halfway(a, k, high)) /\ Len(Halfway(a, k, high)) = k
         /\ Before(a, Halfway(a, k, high))
         /\ \A i \in 1 .. (k - 1) : Halfway(a, k, high)[i] = Digit(a, i)
         /\ Halfway(a, k, high)[k] < high
<1>1. Base \in Nat /\ Base > 1
  BY KeysAreSeqs
<1> DEFINE h == Halfway(a, k, high)
           d == Digit(a, k)
           v == (d + high) \div 2
<1>2. d \in Nat /\ d < v /\ v < high /\ v \in Nat
  <2>1. d \in Nat /\ d + 1 < high
    BY <1>1, DigitIs
  <2> HIDE DEF d
  <2> QED BY <2>1
<1>3. h = [i \in 1 .. k |-> IF i < k THEN Digit(a, i) ELSE v]
  BY DEF Halfway
<1> HIDE DEF h, v
<1>4. \A i \in 1 .. k : h[i] \in 0 .. Base - 1
  <2> SUFFICES ASSUME NEW i \in 1 .. k PROVE h[i] \in 0 .. Base - 1
    OBVIOUS
  <2>1. Digit(a, i) \in 0 .. Base - 1 /\ v \in 0 .. Base - 1
    BY <1>1, <1>2, DigitIs
  <2>2. h[i] = IF i < k THEN Digit(a, i) ELSE v
    BY <1>3
  <2> QED BY <2>1, <2>2
<1>5. h \in Seq(0 .. Base - 1) /\ Len(h) = k
  <2>1. h \in [1 .. k -> 0 .. Base - 1]
    BY <1>3, <1>4
  <2> QED BY <2>1, FunctionsAreSeqs
<1>6. h[k] = v /\ \A i \in 1 .. (k - 1) : h[i] = Digit(a, i)
  BY <1>3
<1>7. KeyOK(h)
  BY <1>2, <1>5, <1>6 DEF KeyOK
<1>8. Before(a, h)
  <2>1. h \in Seq(Nat) /\ k \in 1 .. Len(h)
    BY <1>5, <1>7, KeysAreSeqs
  <2> QED BY <1>2, <1>6, <2>1, DigitBefore
<1> QED BY <1>2, <1>5, <1>6, <1>7, <1>8 DEF h

\* There is always a key between two (midpoint): strictly between, and ending in no
\* lowest digit, so that there is one between it and either of them again.
THEOREM MidpointBetween ==
  ASSUME NEW a, KeyOK(a), NEW b, EndOK(b), Before(a, b)
  PROVE  LET key == Midpoint(a, b)
         IN  KeyOK(key) /\ key # <<>> /\ Before(a, key) /\ Before(key, b)
<1> DEFINE key == Midpoint(a, b)
<1>1. a \in Seq(Nat) /\ b \in Seq(Nat) /\ Len(a) \in Nat /\ Len(b) \in Nat /\ Base \in Nat /\ Base > 1
  BY KeysAreSeqs
<1>2. PICK n \in 1 .. Len(b) : Apart(a, b, n)
  BY FirstApart
<1>3. /\ b[n] \in Nat /\ b[n] <= Base /\ Digit(a, n) \in 0 .. Base - 1 /\ n \in Nat \ {0}
      /\ Digit(a, n) < b[n] /\ \A j \in 1 .. (n - 1) : Digit(a, j) = b[j]
  <2>1. b[n] <= Base
    BY <1>1 DEF EndOK, KeyOK, Top
  <2> QED BY <1>1, <1>2, <2>1, DigitIs DEF Apart
<1> HIDE DEF key
<1>4. ASSUME NEW k \in Nat, k >= n, NEW high \in Nat, high <= Base, Digit(a, k) + 1 < high,
             key = Halfway(a, k, high), k = n => high = b[n]
      PROVE  KeyOK(key) /\ key # <<>> /\ Before(a, key) /\ Before(key, b)
  <2>1. k \in Nat \ {0}
    BY <1>3, <1>4
  <2>2. /\ KeyOK(key) /\ Len(key) = k /\ Before(a, key)
        /\ \A i \in 1 .. (k - 1) : key[i] = Digit(a, i)
        /\ key[k] < high
    BY <1>4, <2>1, HalfwayIs
  <2>3. key[n] < b[n]
    <3>1. CASE k = n
      BY <1>4, <2>2, <3>1
    <3>2. CASE k # n
      <4>1. n \in 1 .. (k - 1)
        BY <1>3, <1>4, <3>2
      <4> QED BY <1>3, <2>2, <4>1
    <3> QED BY <3>1, <3>2
  <2>4. \A j \in 1 .. (n - 1) : key[j] = b[j]
    BY <1>3, <1>4, <2>2
  <2>5. n <= Len(key) + 1 /\ key # <<>>
    BY <1>3, <1>4, <2>2
  <2> QED BY <2>2, <2>3, <2>4, <2>5 DEF Before
<1>5. ASSUME b[n] - Digit(a, n) > 1 /\ key = Halfway(a, n, b[n])
      PROVE  KeyOK(key) /\ key # <<>> /\ Before(a, key) /\ Before(key, b)
  <2>1. Digit(a, n) + 1 < b[n]
    BY <1>3, <1>5
  <2> QED BY <1>3, <1>4, <1>5, <2>1
<1>6. ASSUME b[n] - Digit(a, n) <= 1 /\ Len(b) > n /\ key = SubSeq(b, 1, n)
      PROVE  KeyOK(key) /\ key # <<>> /\ Before(a, key) /\ Before(key, b)
  <2>1. KeyOK(b)
    BY <1>3, <1>6 DEF EndOK, Top
  <2>2. /\ key \in Seq(0 .. Base - 1) /\ Len(key) = n
        /\ \A j \in 1 .. n : key[j] = b[j]
    <3>1. b \in Seq(0 .. Base - 1) /\ n \in Nat /\ n <= Len(b)
      BY <1>1, <1>3, <1>6, <2>1 DEF KeyOK
    <3> QED BY <1>6, <3>1, StartsAreSeqs
  <2>3. KeyOK(key) /\ key # <<>>
    BY <1>3, <2>2 DEF KeyOK
  <2>4. Before(a, key)
    <3>1. key \in Seq(Nat)
      BY <2>3, KeysAreSeqs
    <3> QED BY <1>3, <2>2, <3>1, DigitBefore
  <2>5. Before(key, b)
    <3>1. PICK i \in 1 .. Len(b) : i = n + 1
      BY <1>1, <1>6
    <3>2. \A j \in 1 .. (i - 1) : key[j] = b[j]
      BY <2>2, <3>1
    <3> QED BY <2>2, <3>1, <3>2 DEF Before
  <2> QED BY <2>3, <2>4, <2>5
<1>7. ASSUME \E p \in Nat : Roomy(a, n, p) /\ key = Halfway(a, p, Base)
      PROVE  KeyOK(key) /\ key # <<>> /\ Before(a, key) /\ Before(key, b)
  <2>1. PICK p \in Nat : Roomy(a, n, p) /\ key = Halfway(a, p, Base)
    BY <1>7
  <2>2. p > n /\ Digit(a, p) + 1 < Base
    <3>1. p > n /\ Digit(a, p) # Base - 1
      BY <2>1 DEF Roomy
    <3>2. Digit(a, p) \in 0 .. Base - 1
      BY <1>3, <3>1, DigitIs
    <3> QED BY <1>1, <3>1, <3>2
  <2> QED BY <1>1, <1>3, <1>4, <2>1, <2>2
<1>8. KeyOK(key) /\ key # <<>> /\ Before(a, key) /\ Before(key, b)
  BY <1>2, <1>5, <1>6, <1>7, MidpointIs DEF key
<1> QED BY <1>8 DEF key

LEMMA JitterIs ==
  ASSUME NEW c \in Nat
  PROVE  Jitter(c) \in Seq(0 .. Base - 1) /\ Len(Jitter(c)) = 2 /\ Jitter(c)[2] # 0
<1>1. Base \in Nat /\ Base > 1
  BY KeysAreSeqs
<1> DEFINE d == c % Base
           e == (c \div Base) % (Base - 1)
<1>2. d \in Nat /\ d < Base
  BY <1>1
<1>3. c \div Base \in Nat
  BY <1>1
<1>4. e \in Nat /\ e < Base - 1
  <2> DEFINE q == c \div Base
             w == Base - 1
  <2>1. q \in Nat /\ w \in Nat /\ w > 0
    BY <1>1, <1>3
  <2> HIDE DEF q, w
  <2>2. q % w \in Nat /\ q % w < w
    BY <2>1
  <2> QED BY <2>2 DEF q, w
<1>5. Jitter(c) = <<d, 1 + e>>
  BY DEF Jitter
<1> HIDE DEF d, e
<1> QED BY <1>1, <1>2, <1>4, <1>5

\* A key goes on past one it comes before.
LEMMA GoesOn ==
  ASSUME NEW k, KeyOK(k), NEW j \in Seq(0 .. Base - 1), j # <<>>, j[Len(j)] # 0
  PROVE  /\ KeyOK(k \o j) /\ k \o j # <<>> /\ Before(k, k \o j)
         /\ \A a \in Seq(Nat) : Before(a, k) => Before(a, k \o j)
<1>1. k \in Seq(0 .. Base - 1) /\ Len(k) \in Nat /\ Len(j) \in Nat /\ Len(j) > 0
  BY DEF KeyOK
<1> DEFINE kj == k \o j
<1>2. /\ kj \in Seq(0 .. Base - 1) /\ Len(kj) = Len(k) + Len(j)
      /\ \A i \in 1 .. Len(k) + Len(j) : kj[i] = IF i <= Len(k) THEN k[i] ELSE j[i - Len(k)]
  BY <1>1, ConcatProperties
<1> HIDE DEF kj
<1>3. kj[Len(kj)] = j[Len(j)] /\ kj # <<>>
  <2>1. Len(kj) \in 1 .. Len(k) + Len(j) /\ ~ (Len(kj) <= Len(k)) /\ Len(kj) - Len(k) = Len(j)
    BY <1>1, <1>2
  <2> QED BY <1>1, <1>2, <2>1
<1>4. KeyOK(kj)
  BY <1>2, <1>3 DEF KeyOK
<1>5. \A i \in 1 .. Len(k) : kj[i] = k[i]
  BY <1>1, <1>2
<1>6. Before(k, kj)
  <2>1. PICK i \in 1 .. Len(kj) : i = Len(k) + 1
    BY <1>1, <1>2
  <2>2. \A m \in 1 .. (i - 1) : k[m] = kj[m]
    BY <1>5, <2>1
  <2> QED BY <1>1, <2>1, <2>2 DEF Before
<1>7. ASSUME NEW a \in Seq(Nat), Before(a, k) PROVE Before(a, kj)
  <2>1. PICK i \in 1 .. Len(k) :
          (i <= Len(a) => a[i] < k[i]) /\ i <= Len(a) + 1 /\ \A m \in 1 .. (i - 1) : a[m] = k[m]
    BY <1>7 DEF Before
  <2>2. i \in 1 .. Len(kj) /\ kj[i] = k[i] /\ \A m \in 1 .. (i - 1) : a[m] = kj[m]
    BY <1>1, <1>2, <1>5, <2>1
  <2> QED BY <2>1, <2>2 DEF Before
<1> QED BY <1>3, <1>4, <1>6, <1>7 DEF kj

LEMMA FitBetween ==
  ASSUME NEW a, KeyOK(a), NEW b, EndOK(b), Before(a, b), NEW c, c = None \/ c \in Nat
  PROVE  LET key == Fit(a, b, c)
         IN  KeyOK(key) /\ key # <<>> /\ Before(a, key) /\ Before(key, b)
<1> DEFINE mid == Midpoint(a, b)
<1>1. KeyOK(mid) /\ mid # <<>> /\ Before(a, mid) /\ Before(mid, b)
  BY MidpointBetween
<1>2. Fit(a, b, c) = IF c # None /\ Before(mid \o Jitter(c), b) THEN mid \o Jitter(c) ELSE mid
  BY DEF Fit
<1>3. a \in Seq(Nat)
  BY KeysAreSeqs
<1> HIDE DEF mid
<1>4. CASE c # None /\ Before(mid \o Jitter(c), b)
  <2>1. Jitter(c) \in Seq(0 .. Base - 1) /\ Jitter(c) # <<>> /\ Jitter(c)[Len(Jitter(c))] # 0
    BY <1>4, JitterIs
  <2>2. KeyOK(mid \o Jitter(c)) /\ mid \o Jitter(c) # <<>> /\ Before(a, mid \o Jitter(c))
    BY <1>1, <1>3, <2>1, GoesOn
  <2> QED BY <1>2, <1>4, <2>2
<1>5. CASE ~ (c # None /\ Before(mid \o Jitter(c), b))
  BY <1>1, <1>2, <1>5
<1> QED BY <1>4, <1>5

LEMMA BeforeTop ==
  ASSUME NEW a, KeyOK(a)
  PROVE  Before(a, Top)
<1>1. a \in Seq(0 .. Base - 1) /\ Base \in Nat /\ Len(a) \in Nat
  BY KeysAreSeqs DEF KeyOK
<1>2. 1 \in 1 .. Len(Top) /\ Top[1] = Base
  BY DEF Top
<1>3. 1 <= Len(a) => a[1] < Top[1]
  BY <1>1, <1>2
<1> QED BY <1>1, <1>2, <1>3 DEF Before

\* A key between two, or after the first if there is no room: always one the
\* code may go on from.
LEMMA BetweenIs ==
  ASSUME NEW a, KeyOK(a), NEW b, EndOK(b), NEW c, c = None \/ c \in Nat
  PROVE  LET key == Between(a, b, c)
         IN  /\ KeyOK(key) /\ key # <<>> /\ Before(a, key)
             /\ Before(a, b) => Before(key, b)
<1>1. CASE Before(a, b)
  BY <1>1, FitBetween DEF Between
<1>2. CASE ~ Before(a, b)
  <2> DEFINE f == Fit(<<>>, Top, c)
  <2>1. KeyOK(f) /\ f # <<>>
    BY FitBetween, BeforeTop, KeysAreSeqs DEF EndOK
  <2>2. Between(a, b, c) = a \o f
    BY <1>2 DEF Between
  <2> HIDE DEF f
  <2>3. f \in Seq(0 .. Base - 1) /\ f[Len(f)] # 0
    BY <2>1 DEF KeyOK
  <2> QED BY <1>2, <2>1, <2>2, <2>3, GoesOn
<1> QED BY <1>1, <1>2

-----------------------------------------------------------------------------
(* The keys of the rows from before the document. *)

Goes(f, k) == \A n \in 0 .. k : f[n] = IF n = 0 THEN <<>> ELSE Between(f[n - 1], Top, None)

LEMMA SeedKeysGo ==
  ASSUME NEW k \in Nat
  PROVE  \E f : Goes(f, k)
<1> DEFINE G == {m \in Nat : \E f : Goes(f, m)}
<1>1. 0 \in G
  <2>1. Goes([n \in 0 .. 0 |-> <<>>], 0)
    BY DEF Goes
  <2> QED BY <2>1
<1>2. ASSUME NEW m \in Nat \ {0}, m - 1 \in G PROVE m \in G
  <2>1. PICK f : Goes(f, m - 1)
    BY <1>2
  <2> DEFINE g == [n \in 0 .. m |-> IF n = m THEN Between(f[m - 1], Top, None) ELSE f[n]]
  <2>2. ASSUME NEW n \in 0 .. m
        PROVE  g[n] = IF n = 0 THEN <<>> ELSE Between(g[n - 1], Top, None)
    <3>1. CASE n = m
      <4>1. n # 0 /\ n - 1 \in 0 .. m /\ n - 1 # m
        BY <3>1
      <4> QED BY <3>1, <4>1
    <3>2. CASE n # m
      <4>1. n \in 0 .. m - 1 /\ (n # 0 => n - 1 \in 0 .. m /\ n - 1 # m)
        BY <3>2
      <4>2. f[n] = IF n = 0 THEN <<>> ELSE Between(f[n - 1], Top, None)
        BY <2>1, <4>1 DEF Goes
      <4> QED BY <3>2, <4>1, <4>2
    <3> QED BY <3>1, <3>2
  <2>3. Goes(g, m)
    BY <2>2 DEF Goes
  <2> HIDE DEF g
  <2> QED BY <2>3
<1> HIDE DEF G
<1>3. G \in SUBSET Nat
  BY DEF G
<1>4. G = Nat
  BY <1>1, <1>2, <1>3, CountUp
<1> QED BY <1>4 DEF G

LEMMA SeedKeysAgree ==
  ASSUME NEW f, NEW g, NEW k \in Nat, NEW m \in Nat, Goes(f, k), Goes(g, m), k <= m
  PROVE  f[k] = g[k]
<1> DEFINE G == {n \in Nat : n <= k => f[n] = g[n]}
<1>1. 0 \in G
  BY DEF Goes
<1>2. ASSUME NEW n \in Nat \ {0}, n - 1 \in G PROVE n \in G
  <2>1. CASE n <= k
    <3>1. n - 1 \in Nat /\ n - 1 <= k /\ n # 0 /\ n \in 0 .. k /\ n \in 0 .. m
      BY <2>1
    <3>2. f[n - 1] = g[n - 1]
      BY <1>2, <3>1
    <3>3. f[n] = Between(f[n - 1], Top, None) /\ g[n] = Between(g[n - 1], Top, None)
      BY <3>1 DEF Goes
    <3> QED BY <3>2, <3>3
  <2> QED BY <2>1
<1>3. G \in SUBSET Nat
  OBVIOUS
<1> HIDE DEF G
<1>4. k \in G
  BY <1>1, <1>2, <1>3, CountUp
<1> QED BY <1>4 DEF G

LEMMA SeedKeyIs ==
  /\ SeedKey[0] = <<>>
  /\ \A n \in Nat \ {0} : SeedKey[n] = Between(SeedKey[n - 1], Top, None)
<1> DEFINE f(n) == CHOOSE f : Goes(f, n)
           F == [n \in Nat |-> f(n)[n]]
<1>1. \A n \in Nat : Goes(f(n), n)
  BY SeedKeysGo
<1> HIDE DEF f
<1>2. ASSUME NEW n \in Nat
      PROVE  F[n] = IF n = 0 THEN <<>> ELSE Between(F[n - 1], Top, None)
  <2>1. CASE n = 0
    BY <1>1, <2>1 DEF Goes
  <2>2. CASE n # 0
    <3>1. n - 1 \in Nat /\ n - 1 <= n /\ n \in 0 .. n
      BY <2>2
    <3>2. f(n)[n] = Between(f(n)[n - 1], Top, None)
      BY <1>1, <2>2, <3>1 DEF Goes
    <3>3. f(n)[n - 1] = f(n - 1)[n - 1]
      <4>1. Goes(f(n), n) /\ Goes(f(n - 1), n - 1)
        BY <1>1, <3>1
      <4> QED BY <3>1, <4>1, SeedKeysAgree
    <3> QED BY <2>2, <3>1, <3>2, <3>3
  <2> QED BY <2>1, <2>2
<1>3. F = [n \in Nat |-> IF n = 0 THEN <<>> ELSE Between(F[n - 1], Top, None)]
  BY <1>2
<1> HIDE DEF F
<1>4. SeedKey = [n \in Nat |-> IF n = 0 THEN <<>> ELSE Between(SeedKey[n - 1], Top, None)]
  BY <1>3 DEF SeedKey
<1>5. ASSUME NEW n \in Nat PROVE SeedKey[n] = IF n = 0 THEN <<>> ELSE Between(SeedKey[n - 1], Top, None)
  BY <1>4
<1> QED BY <1>5

\* They are in the order of the rows.
LEMMA SeedKeysInOrder ==
  /\ \A n \in Nat : KeyOK(SeedKey[n])
  /\ \A n \in Nat \ {0} : SeedKey[n] # <<>>
  /\ \A n, m \in Nat : m < n => Before(SeedKey[m], SeedKey[n])
<1> DEFINE G == {n \in Nat : /\ KeyOK(SeedKey[n])
                          /\ \A m \in 0 .. n - 1 : KeyOK(SeedKey[m]) /\ Before(SeedKey[m], SeedKey[n])}
<1>1. 0 \in G
  BY SeedKeyIs, KeysAreSeqs
<1>2. ASSUME NEW n \in Nat \ {0}, n - 1 \in G PROVE n \in G
  <2>1. /\ n - 1 \in Nat /\ KeyOK(SeedKey[n - 1])
        /\ \A m \in 0 .. n - 2 : KeyOK(SeedKey[m]) /\ Before(SeedKey[m], SeedKey[n - 1])
    BY <1>2
  <2>2. SeedKey[n] = Between(SeedKey[n - 1], Top, None)
    BY SeedKeyIs
  <2>3. KeyOK(SeedKey[n]) /\ Before(SeedKey[n - 1], SeedKey[n])
    BY <2>1, <2>2, BetweenIs DEF EndOK
  <2>4. ASSUME NEW m \in 0 .. n - 1 PROVE KeyOK(SeedKey[m]) /\ Before(SeedKey[m], SeedKey[n])
    <3>1. CASE m = n - 1
      BY <2>1, <2>3, <3>1
    <3>2. CASE m # n - 1
      <4>1. m \in 0 .. n - 2
        BY <3>2
      <4>2. KeyOK(SeedKey[m]) /\ Before(SeedKey[m], SeedKey[n - 1])
        BY <2>1, <4>1
      <4> QED BY <2>1, <2>3, <4>2, BeforeTransitive, KeysAreSeqs
    <3> QED BY <3>1, <3>2
  <2> QED BY <2>3, <2>4
<1>3. G \in SUBSET Nat
  OBVIOUS
<1> HIDE DEF G
<1>4. G = Nat
  BY <1>1, <1>2, <1>3, CountUp
<1>5. \A n, m \in Nat : m < n => Before(SeedKey[m], SeedKey[n])
  <2> SUFFICES ASSUME NEW n \in Nat, NEW m \in Nat, m < n PROVE Before(SeedKey[m], SeedKey[n])
    OBVIOUS
  <2>1. n \in G /\ m \in 0 .. n - 1
    BY <1>4
  <2> QED BY <2>1 DEF G
<1>6. \A n \in Nat : KeyOK(SeedKey[n])
  BY <1>4 DEF G
<1>7. \A n \in Nat \ {0} : SeedKey[n] # <<>>
  <2> SUFFICES ASSUME NEW n \in Nat \ {0} PROVE SeedKey[n] # <<>>
    OBVIOUS
  <2>1. n - 1 \in Nat /\ SeedKey[n] = Between(SeedKey[n - 1], Top, None)
    BY SeedKeyIs
  <2> QED BY <1>6, <2>1, BetweenIs DEF EndOK
<1> QED BY <1>5, <1>6, <1>7

-----------------------------------------------------------------------------
(* The last write of a register. *)

\* The items there ever were: each has a name of its own, and of any of them
\* one saw none of the others, one was seen by none of them, and one has the
\* greatest client.
Orderly(A) ==
    /\ \A i \in A : i.name = <<i.name[1], i.reg>> /\ i.name[1] \in Nat
    /\ \A i, j \in A : i.name = j.name => i = j
    /\ \A T \in SUBSET A : T # {} =>
          /\ \E i \in T : \A o \in T : o.name # i.origin
          /\ \E i \in T : \A s \in T : s.origin # i.name
          /\ \E i \in T : \A s \in T : s.name[1] <= i.name[1]

\* What an item saw is there, and in the register it writes.
Whole(S) == \A i \in S : i.origin = None \/ \E o \in S : o.name = i.origin /\ o.reg = i.reg

OneRegister(S) == \A i, j \in S : i.reg = j.reg

Greatest(S, i) == \A s \in S : s.origin = i.origin => s.name[1] <= i.name[1]
Path(S, P) ==
    \A i \in P : Greatest(S, i) /\ (i.origin = None \/ \E o \in P : o.name = i.origin)
Paths(S) == {P \in SUBSET S : Path(S, P)}

\* The end of the path of the greatest clients.
Ends(S, i) == i \in UNION Paths(S) /\ \A s \in S : s.origin # i.name

LEMMA OrderlySubset ==
  ASSUME NEW A, Orderly(A), NEW S \in SUBSET A
  PROVE  Orderly(S)
<1>1. \A T \in SUBSET S : T \in SUBSET A
  OBVIOUS
<1> QED BY <1>1 DEF Orderly

LEMMA AllPathsArePath ==
  ASSUME NEW S
  PROVE  UNION Paths(S) \in Paths(S)
<1> DEFINE U == UNION Paths(S)
<1>1. U \in SUBSET S
  BY DEF Paths
<1>2. ASSUME NEW i \in U
      PROVE  Greatest(S, i) /\ (i.origin = None \/ \E o \in U : o.name = i.origin)
  <2>1. PICK P \in Paths(S) : i \in P
    OBVIOUS
  <2>2. \A o \in P : o \in U
    OBVIOUS
  <2> QED BY <2>1, <2>2 DEF Paths, Path
<1> QED BY <1>1, <1>2 DEF Paths, Path

LEMMA Siblings ==
  ASSUME NEW S, Orderly(S), OneRegister(S), NEW i \in S, NEW j \in S, i.origin = j.origin,
         Greatest(S, i), Greatest(S, j)
  PROVE  i = j
<1>1. i.name[1] <= j.name[1] /\ j.name[1] <= i.name[1]
  BY DEF Greatest
<1>2. i.name[1] \in Nat /\ j.name[1] \in Nat
  BY DEF Orderly
<1>3. i.name[1] = j.name[1]
  BY <1>1, <1>2
<1>4. i.name = <<i.name[1], i.reg>> /\ j.name = <<j.name[1], j.reg>>
  BY DEF Orderly
<1> QED BY <1>3, <1>4 DEF Orderly, OneRegister

\* There is an end.
LEMMA PathEnds ==
  ASSUME NEW S, Orderly(S), OneRegister(S), Whole(S), S # {}
  PROVE  \E i \in S : Ends(S, i)
<1> DEFINE U == UNION Paths(S)
           Top1(T, i) == i \in T /\ \A s \in T : s.name[1] <= i.name[1]
<1>1. U \in SUBSET S /\ U \in Paths(S)
  BY AllPathsArePath DEF Paths
<1>2. U # {}
  <2> DEFINE T == {i \in S : i.origin = None}
  <2>1. PICK r \in S : \A o \in S : o.name # r.origin
    BY DEF Orderly
  <2>2. r \in T
    BY <2>1 DEF Whole
  <2>3. T \in SUBSET S /\ T # {}
    BY <2>2
  <2>4. PICK i \in T : \A s \in T : s.name[1] <= i.name[1]
    BY <2>3 DEF Orderly
  <2>5. {i} \in Paths(S)
    BY <2>4 DEF Paths, Path, Greatest
  <2> QED BY <2>5
<1> HIDE DEF U
<1>3. PICK i \in U : \A s \in U : s.origin # i.name
  BY <1>1, <1>2 DEF Orderly
<1>4. ASSUME NEW c \in S, c.origin = i.name PROVE FALSE
  <2> DEFINE T == {s \in S : s.origin = i.name}
  <2>1. T \in SUBSET S /\ T # {}
    BY <1>4
  <2>2. PICK x \in T : \A s \in T : s.name[1] <= x.name[1]
    BY <2>1 DEF Orderly
  <2>3. x \in S /\ x.origin = i.name /\ Greatest(S, x)
    BY <2>2 DEF Greatest
  <2> DEFINE P == U \cup {x}
  <2>4. P \in Paths(S)
    <3>1. P \in SUBSET S
      BY <1>1, <2>3
    <3>2. ASSUME NEW y \in P
          PROVE  Greatest(S, y) /\ (y.origin = None \/ \E o \in P : o.name = y.origin)
      <4>1. CASE y = x
        BY <1>3, <2>3, <4>1
      <4>2. CASE y \in U
        BY <1>1, <4>2 DEF Paths, Path
      <4> QED BY <4>1, <4>2
    <3> QED BY <3>1, <3>2 DEF Paths, Path
  <2>5. x \in U
    BY <2>4 DEF U
  <2> QED BY <1>3, <2>3, <2>5
<1>5. i \in S /\ Ends(S, i)
  BY <1>1, <1>4 DEF Ends, U
<1> QED BY <1>5

\* And only one.
LEMMA OneEnd ==
  ASSUME NEW S, Orderly(S), OneRegister(S), NEW e, NEW d, Ends(S, e), Ends(S, d)
  PROVE  e = d
<1> DEFINE U == UNION Paths(S)
           Upward(Q) == \A q \in Q : \A o \in U : o.name = q.origin => o \in Q
           C == {x \in U : \A Q \in SUBSET U : e \in Q /\ Upward(Q) => x \in Q}
<1>1. U \in SUBSET S /\ Path(S, U)
  BY AllPathsArePath DEF Paths
<1>2. e \in U /\ d \in U
  BY DEF Ends
<1> HIDE DEF U
<1>3. e \in C /\ C \in SUBSET U
  BY <1>2
<1>4. Upward(C)
  <2> SUFFICES ASSUME NEW q \in C, NEW o \in U, o.name = q.origin,
                      NEW Q \in SUBSET U, e \in Q, Upward(Q)
               PROVE  o \in Q
    OBVIOUS
  <2>1. q \in Q
    OBVIOUS
  <2> QED BY <2>1
\* Whatever leads to e is seen by another that does, unless it is e.
<1>5. ASSUME NEW o \in C, o # e PROVE \E q \in C : q.origin = o.name
  <2> DEFINE Q == C \ {o}
  <2>1. Q \in SUBSET U /\ e \in Q /\ o \notin Q
    BY <1>3, <1>5
  <2>2. ~ Upward(Q)
    <3>1. ASSUME Upward(Q) PROVE FALSE
      BY <2>1, <3>1, <1>5
    <3> QED BY <3>1
  <2>3. PICK q \in Q, p \in U : p.name = q.origin /\ p \notin Q
    BY <2>2
  <2>4. p \in C
    BY <1>4, <2>3
  <2> QED BY <2>3, <2>4
<1> HIDE DEF C
<1>6. ASSUME NEW T, T = U \ C, T # {} PROVE FALSE
  <2>1. T \in SUBSET S /\ C \in SUBSET S /\ C # {}
    BY <1>1, <1>3, <1>6
  <2>2. PICK r \in T : \A o \in T : o.name # r.origin
    BY <1>6, <2>1 DEF Orderly
  <2>3. PICK r0 \in C : \A o \in C : o.name # r0.origin
    BY <2>1 DEF Orderly
  <2>4. r0.origin = None
    BY <1>1, <1>3, <1>4, <2>3 DEF Path
  <2>5. r \in U /\ r \notin C /\ r \in S /\ Greatest(S, r)
    BY <1>1, <1>6, <2>2 DEF Path
  <2>6. \A q \in C : q \in S /\ Greatest(S, q)
    BY <1>1, <1>3 DEF Path
  <2>7. r.origin # None
    BY <2>3, <2>4, <2>5, <2>6, Siblings
  <2>8. PICK o \in U : o.name = r.origin
    BY <1>1, <2>5, <2>7 DEF Path
  <2>9. o \in C
    BY <1>6, <2>2, <2>8
  <2>10. o # e
    BY <2>5, <2>8 DEF Ends
  <2>11. PICK q \in C : q.origin = o.name
    BY <1>5, <2>9, <2>10
  <2>12. q = r
    BY <2>5, <2>6, <2>8, <2>11, Siblings
  <2> QED BY <2>5, <2>11, <2>12
<1>7. d \in C
  BY <1>2, <1>6
<1>8. ASSUME d # e PROVE FALSE
  <2>1. PICK q \in C : q.origin = d.name
    BY <1>5, <1>7, <1>8
  <2> QED BY <1>1, <1>3, <2>1 DEF Ends
<1> QED BY <1>8

\* What is the end among more was the end among what there was before.
LEMMA EndedBefore ==
  ASSUME NEW S2, Orderly(S2), NEW S \in SUBSET S2, Whole(S), NEW i \in S, Ends(S2, i)
  PROVE  Ends(S, i)
<1> DEFINE U == UNION Paths(S2)
           P == U \cap S
<1>1. U \in SUBSET S2 /\ Path(S2, U) /\ i \in U
  BY AllPathsArePath DEF Paths, Ends
<1> HIDE DEF U
<1>2. P \in Paths(S)
  <2> SUFFICES ASSUME NEW x \in P
               PROVE  Greatest(S, x) /\ (x.origin = None \/ \E o \in P : o.name = x.origin)
    BY DEF Paths, Path
  <2>1. Greatest(S, x)
    BY <1>1 DEF Path, Greatest
  <2>2. ASSUME x.origin # None PROVE \E o \in P : o.name = x.origin
    <3>1. PICK o \in U : o.name = x.origin
      BY <1>1, <2>2 DEF Path
    <3>2. PICK p \in S : p.name = x.origin
      BY <2>2 DEF Whole
    <3>3. p = o
      BY <1>1, <3>1, <3>2 DEF Orderly
    <3> QED BY <3>1, <3>2, <3>3
  <2> QED BY <2>1, <2>2
<1>3. i \in P /\ \A s \in S : s.origin # i.name
  BY <1>1 DEF Ends
<1> HIDE DEF P
<1> QED BY <1>2, <1>3 DEF Ends

\* LastWrite is the end of its register.
LEMMA LastWriteIs ==
  ASSUME NEW D, Orderly(D.items), Whole(D.items), NEW reg
  PROVE  /\ Writes(D, reg) = {} => LastWrite(D, reg) = None
         /\ Writes(D, reg) # {} =>
               /\ LastWrite(D, reg) \in Writes(D, reg) /\ Ends(Writes(D, reg), LastWrite(D, reg))
               /\ \A i : Ends(Writes(D, reg), i) => i = LastWrite(D, reg)
<1> DEFINE S == Writes(D, reg)
<1>1. S \in SUBSET D.items /\ OneRegister(S) /\ Orderly(S) /\ Whole(S)
  <2>1. S \in SUBSET D.items /\ OneRegister(S)
    BY DEF Writes, OneRegister
  <2>2. Whole(S)
    BY DEF Writes, Whole
  <2> QED BY <2>1, <2>2, OrderlySubset
<1>2. LastWrite(D, reg) =
        IF S = {} THEN None ELSE CHOOSE i \in UNION Paths(S) : \A s \in S : s.origin # i.name
  BY DEF LastWrite, Paths, Path, Greatest
<1> HIDE DEF S
<1>3. ASSUME S # {}
      PROVE  LastWrite(D, reg) \in S /\ Ends(S, LastWrite(D, reg))
  <2>1. PICK i \in S : Ends(S, i)
    BY <1>1, <1>3, PathEnds
  <2>2. i \in UNION Paths(S) /\ \A s \in S : s.origin # i.name
    BY <2>1 DEF Ends
  <2>3. Ends(S, LastWrite(D, reg))
    BY <1>2, <1>3, <2>2 DEF Ends
  <2>4. LastWrite(D, reg) \in S
    BY <2>3 DEF Ends, Paths
  <2> QED BY <2>3, <2>4
<1> QED BY <1>1, <1>2, <1>3, OneEnd DEF S

-----------------------------------------------------------------------------
(* The places of a list. *)

\* How many of S come before x in the order B.
Rank(S, B, x) == Cardinality({z \in S : <<z, x>> \in B})

\* In a finite set with an order, who comes later has more before them, and as
\* many come before some element as one likes.
LEMMA Ranks ==
  ASSUME NEW S, IsFiniteSet(S), NEW B,
         \A x \in S : <<x, x>> \notin B,
         \A x, y, z \in S : <<x, y>> \in B /\ <<y, z>> \in B => <<x, z>> \in B,
         \A x, y \in S : x # y => <<x, y>> \in B \/ <<y, x>> \in B
  PROVE  /\ \A x \in S : Rank(S, B, x) \in Nat /\ Rank(S, B, x) < Cardinality(S)
         /\ \A x, y \in S : <<x, y>> \in B => Rank(S, B, x) < Rank(S, B, y)
         /\ \A c \in Nat : c < Cardinality(S) => \E x \in S : Rank(S, B, x) = c
<1> DEFINE Pred(x) == {z \in S : <<z, x>> \in B}
           k == Cardinality(S)
           T == 0 .. k - 1
           f == [x \in S |-> Cardinality(Pred(x))]
<1>1. k \in Nat
  BY FS_CardinalityType
<1>2. \A x \in S : Pred(x) \in SUBSET S /\ x \notin Pred(x)
  OBVIOUS
<1>3. ASSUME NEW x \in S, NEW y \in S, <<x, y>> \in B
      PROVE  Pred(x) \in SUBSET Pred(y) /\ x \in Pred(y)
  BY <1>3
<1> HIDE DEF Pred
<1>4. \A x \in S : IsFiniteSet(Pred(x)) /\ Cardinality(Pred(x)) \in Nat
  BY <1>2, FS_Subset, FS_CardinalityType
<1>5. ASSUME NEW x \in S PROVE f[x] \in T /\ f[x] \in Nat /\ f[x] < k
  <2>1. IsFiniteSet(Pred(x)) /\ Cardinality(Pred(x)) <= k /\ (k = Cardinality(Pred(x)) => S = Pred(x))
    BY <1>2, FS_Subset
  <2>2. Cardinality(Pred(x)) # k
    BY <1>2, <2>1
  <2> QED BY <1>1, <1>4, <2>1, <2>2
<1>6. ASSUME NEW x \in S, NEW y \in S, <<x, y>> \in B PROVE f[x] < f[y]
  <2>1. Pred(x) \in SUBSET Pred(y) /\ x \in Pred(y) /\ x \notin Pred(x)
    BY <1>2, <1>3, <1>6
  <2>2. IsFiniteSet(Pred(y))
    BY <1>4
  <2>3. /\ Cardinality(Pred(x)) <= Cardinality(Pred(y))
        /\ Cardinality(Pred(y)) # Cardinality(Pred(x))
    BY <2>1, <2>2, FS_Subset
  <2> QED BY <1>4, <2>3
<1>7. f \in Injection(S, T)
  <2>1. f \in [S -> T]
    BY <1>5
  <2> HIDE DEF f
  <2>2. ASSUME NEW x \in S, NEW y \in S, <<x, y>> \in B PROVE f[x] # f[y]
    <3>1. f[x] \in Nat /\ f[y] \in Nat /\ f[x] < f[y]
      BY <1>5, <1>6, <2>2
    <3> QED BY <3>1
  <2>3. \A x, y \in S : f[x] = f[y] => x = y
    BY Zenon, <2>2
  <2> QED BY <2>1, <2>3 DEF Injection, IsInjective
<1>8. IsFiniteSet(T) /\ Cardinality(T) = k
  <2>1. \A n \in Nat : IsFiniteSet(0 .. n - 1) /\ Cardinality(0 .. n - 1) = n
    BY FS_Interval
  <2> HIDE DEF k, f
  <2> QED BY <1>1, <2>1
<1>9. \A x \in S : f[x] = Cardinality(Pred(x))
  OBVIOUS
<1> HIDE DEF T, k, f
<1>10. f \in Surjection(S, T)
  BY <1>7, <1>8, FS_Injection DEF k
<1>11. ASSUME NEW c \in Nat, c < k PROVE \E x \in S : f[x] = c
  <2>1. c \in T
    BY <1>1, <1>11 DEF T
  <2> QED BY <1>10, <2>1 DEF Surjection
<1>12. /\ \A x \in S : Cardinality(Pred(x)) \in Nat /\ Cardinality(Pred(x)) < k
       /\ \A x, y \in S : <<x, y>> \in B => Cardinality(Pred(x)) < Cardinality(Pred(y))
       /\ \A c \in Nat : c < k => \E x \in S : Cardinality(Pred(x)) = c
  BY <1>5, <1>6, <1>9, <1>11
<1> QED BY Zenon, <1>12 DEF Pred, k, Rank


\* A list as a document reads: every team on it with a key.
ListOK(list) ==
    /\ DOMAIN list \in SUBSET Team
    /\ \A t \in DOMAIN list : KeyOK(list[t].at) /\ list[t].at # <<>>

LEMMA AboveIs ==
  ASSUME NEW list, ListOK(list)
  PROVE  /\ \A t \in DOMAIN list : ~ Above(list, t, t)
         /\ \A t, u, v \in DOMAIN list : Above(list, t, u) /\ Above(list, u, v) => Above(list, t, v)
         /\ \A t, u \in DOMAIN list : t # u => Above(list, t, u) \/ Above(list, u, t)
         /\ \A t, u \in DOMAIN list : Above(list, t, u) => ~ Above(list, u, t)
<1> DEFINE D == DOMAIN list
           K(t) == list[t].at
<1>1. D \in SUBSET Nat /\ \A t \in D : K(t) \in Seq(Nat)
  BY PickDocAssumption, KeysAreSeqs DEF ListOK
<1>2. \A t, u \in D : Above(list, t, u) <=> Before(K(t), K(u)) \/ (K(t) = K(u) /\ t < u)
  BY DEF Above
<1> HIDE DEF K, D
<1>3. \A t \in D : ~ Above(list, t, t)
  BY <1>1, <1>2, BeforeIrreflexive
<1>4. ASSUME NEW t \in D, NEW u \in D, NEW v \in D, Above(list, t, u), Above(list, u, v)
      PROVE  Above(list, t, v)
  <2>1. CASE Before(K(t), K(u)) /\ Before(K(u), K(v))
    BY <1>1, <1>2, <2>1, BeforeTransitive
  <2>2. CASE Before(K(t), K(u)) /\ K(u) = K(v)
    BY <1>2, <2>2
  <2>3. CASE K(t) = K(u) /\ Before(K(u), K(v))
    BY <1>2, <2>3
  <2>4. CASE K(t) = K(u) /\ K(u) = K(v) /\ t < u /\ u < v
    <3>1. t < v
      BY <1>1, <2>4
    <3> QED BY <1>2, <2>4, <3>1
  <2> QED BY <1>2, <1>4, <2>1, <2>2, <2>3, <2>4
<1>5. ASSUME NEW t \in D, NEW u \in D, t # u PROVE Above(list, t, u) \/ Above(list, u, t)
  <2>1. CASE K(t) # K(u)
    BY <1>1, <1>2, <2>1, BeforeTotal
  <2>2. CASE K(t) = K(u)
    <3>1. t < u \/ u < t
      BY <1>1, <1>5
    <3> QED BY <1>2, <2>2, <3>1
  <2> QED BY <2>1, <2>2
<1>6. \A t, u \in D : Above(list, t, u) => ~ Above(list, u, t)
  BY <1>3, <1>4
<1> QED BY <1>3, <1>4, <1>5, <1>6 DEF D

\* The places are those from the first to the last, one each.
LEMMA PlacesAre ==
  ASSUME NEW list, ListOK(list)
  PROVE  /\ Cardinality(DOMAIN list) \in Nat
         /\ \A t \in DOMAIN list : Place(list, t) \in 1 .. Cardinality(DOMAIN list)
         /\ \A t, u \in DOMAIN list : Above(list, t, u) <=> Place(list, t) < Place(list, u)
         /\ \A t, u \in DOMAIN list : Place(list, t) = Place(list, u) => t = u
         /\ \A p \in 1 .. Cardinality(DOMAIN list) : \E t \in DOMAIN list : Place(list, t) = p
<1> DEFINE D == DOMAIN list
           B == {p \in D \X D : Above(list, p[1], p[2])}
           N == Cardinality(D)
<1>1. IsFiniteSet(D) /\ N \in Nat
  BY PickListAssumption, FS_Subset, FS_CardinalityType DEF ListOK
<1>2. \A t, u \in D : <<t, u>> \in B <=> Above(list, t, u)
  OBVIOUS
<1>3. \A t \in D : Place(list, t) = Rank(D, B, t) + 1
  <2>1. \A t \in D : {u \in D : <<u, t>> \in B} = {u \in D : Above(list, u, t)}
    BY <1>2
  <2> QED BY <2>1 DEF Rank, Place
<1> HIDE DEF B
<1>4. /\ \A t \in D : <<t, t>> \notin B
      /\ \A t, u, v \in D : <<t, u>> \in B /\ <<u, v>> \in B => <<t, v>> \in B
      /\ \A t, u \in D : t # u => <<t, u>> \in B \/ <<u, t>> \in B
  BY <1>2, AboveIs
<1> HIDE DEF D
<1>5. /\ \A t \in D : Rank(D, B, t) \in Nat /\ Rank(D, B, t) < N
      /\ \A t, u \in D : <<t, u>> \in B => Rank(D, B, t) < Rank(D, B, u)
      /\ \A c \in Nat : c < N => \E t \in D : Rank(D, B, t) = c
  BY <1>1, <1>4, Ranks
<1>6. \A t \in D : Place(list, t) \in 1 .. N
  BY <1>1, <1>3, <1>5
<1>7. ASSUME NEW t \in D, NEW u \in D, Above(list, t, u) PROVE Place(list, t) < Place(list, u)
  <2>1. Rank(D, B, t) < Rank(D, B, u)
    BY <1>2, <1>5, <1>7
  <2> QED BY <1>3, <1>5, <2>1
<1>8. ASSUME NEW t \in D, NEW u \in D, ~ Above(list, t, u) PROVE ~ (Place(list, t) < Place(list, u))
  <2>1. CASE t = u
    BY <1>6, <2>1
  <2>2. CASE Above(list, u, t)
    BY <1>6, <1>7, <2>2
  <2> QED BY <1>8, <2>1, <2>2, AboveIs DEF D
<1>9. \A t, u \in D : Place(list, t) = Place(list, u) => t = u
  <2> SUFFICES ASSUME NEW t \in D, NEW u \in D, Place(list, t) = Place(list, u), t # u PROVE FALSE
    OBVIOUS
  <2>1. Above(list, t, u) \/ Above(list, u, t)
    BY AboveIs DEF D
  <2> QED BY <1>6, <1>7, <2>1
<1>10. ASSUME NEW p \in 1 .. N PROVE \E t \in D : Place(list, t) = p
  <2>1. p - 1 \in Nat /\ p - 1 < N
    BY <1>1
  <2>2. PICK t \in D : Rank(D, B, t) = p - 1
    BY <1>5, <2>1
  <2> QED BY <1>3, <2>2
<1>11. \A t, u \in D : Above(list, t, u) <=> Place(list, t) < Place(list, u)
  BY <1>7, <1>8
<1> QED BY <1>1, <1>6, <1>9, <1>10, <1>11 DEF D

\* The keys either side of a place: those of the teams there, or the ends.
LEMMA KeyAtIs ==
  ASSUME NEW list, ListOK(list), NEW p \in Nat
  PROVE  /\ p = 0 => KeyAt(list, p) = <<>>
         /\ p > Cardinality(DOMAIN list) => KeyAt(list, p) = Top
         /\ \A t \in DOMAIN list : Place(list, t) = p => KeyAt(list, p) = list[t].at
         /\ p <= Cardinality(DOMAIN list) => KeyOK(KeyAt(list, p))
         /\ p > 0 => EndOK(KeyAt(list, p))
<1> DEFINE N == Cardinality(DOMAIN list)
<1>1. N \in Nat
  BY PlacesAre
<1>2. ASSUME NEW t \in DOMAIN list, Place(list, t) = p PROVE KeyAt(list, p) = list[t].at
  <2>1. p \in 1 .. N
    BY <1>2, PlacesAre
  <2>2. \A u \in DOMAIN list : Place(list, u) = p => u = t
    BY <1>2, PlacesAre
  <2>3. (CHOOSE u \in DOMAIN list : Place(list, u) = p) = t
    BY <1>2, <2>2
  <2>4. p # 0 /\ ~ (p > Cardinality(DOMAIN list))
    BY <1>1, <2>1
  <2>5. KeyAt(list, p) = list[CHOOSE u \in DOMAIN list : Place(list, u) = p].at
    BY <2>4 DEF KeyAt
  <2> QED BY <2>3, <2>5
<1>3. ASSUME p \in 1 .. N PROVE KeyOK(KeyAt(list, p)) /\ EndOK(KeyAt(list, p))
  <2>1. PICK t \in DOMAIN list : Place(list, t) = p
    BY <1>3, PlacesAre
  <2> QED BY <1>2, <2>1 DEF ListOK, EndOK
<1>4. p = 0 => KeyAt(list, p) = <<>>
  BY DEF KeyAt
<1>5. p > N => KeyAt(list, p) = Top
  BY <1>1 DEF KeyAt
<1> QED BY <1>1, <1>2, <1>3, <1>4, <1>5, KeysAreSeqs DEF EndOK

-----------------------------------------------------------------------------
(* What a copy reads as. *)

Writer == {Seed} \cup Client

\* A record id is its pick's: who wrote it, and the team.
IdsOK(S) == \A i \in S : i.reg[1] = "pick" => i.val[2] = <<i.name[1], i.reg[2]>>

\* Every order key is one the code may go on from.
KeysOK(S) == \A i \in S : i.reg[1] = "at" => KeyOK(i.val[2]) /\ i.val[2] # <<>>

\* A pick comes with its key and whether it is crossed off.
Furnished(S) ==
    \A i \in S : i.reg[1] = "pick" =>
        \A f \in {"at", "crossed"} : \E j \in S : j.reg = Field(i.name, f)

GoodDoc(D) ==
    /\ D \in Docs /\ Orderly(D.items) /\ Whole(D.items)
    /\ IdsOK(D.items) /\ KeysOK(D.items) /\ Furnished(D.items)

LEMMA ItemIs ==
  ASSUME NEW i \in AnyItem
  PROVE  /\ i # None /\ i.name # None
         /\ i.name[1] \in Writer /\ i.name[2][1] = i.reg[1]
         /\ i.reg[1] \in {"pick", "at", "crossed", "tag"}
         /\ i.reg[1] = "pick" =>
               /\ i.reg = Pick(i.reg[2]) /\ i.reg[2] \in Team
               /\ i.name \in PickName /\ i.val[2] \in PickId
         /\ i.reg[1] # "pick" =>
               /\ i.reg = Field(i.reg[2], i.reg[1]) /\ i.reg[2] \in PickName
               /\ i.name \in Names(i.reg[1], PickName)
         /\ i.reg[1] = "at" => i.val[2] \in Seq(Nat)
         /\ i.reg[1] = "crossed" => i.val[2] \in BOOLEAN
         /\ i.reg[1] = "tag" => i.val[2] \in Tag
<1>1. i # None
  BY NoneAssumption
<1>2. \/ i \in Items("pick", Team, PickId) \/ i \in Items("at", PickName, Seq(Nat))
      \/ i \in Items("crossed", PickName, BOOLEAN) \/ i \in Items("tag", PickName, Tag)
  BY DEF AnyItem
<1>3. CASE i \in Items("pick", Team, PickId)
  <2>1. i.name \in Names("pick", Team) /\ i.reg \in {"pick"} \X Team /\ i.val \in {"pick"} \X PickId
    BY <1>3 DEF Items
  <2>2. i.name # None /\ i.name \in PickName
    BY <2>1, NoneAssumption DEF PickName
  <2> QED BY <1>1, <2>1, <2>2 DEF Names, Writer, Pick
<1>4. CASE i \in Items("at", PickName, Seq(Nat))
  <2>1. i.name \in Names("at", PickName) /\ i.reg \in {"at"} \X PickName /\ i.val \in {"at"} \X Seq(Nat)
    BY <1>4 DEF Items
  <2>2. i.name # None
    BY <2>1, NoneAssumption
  <2> QED BY <1>1, <2>1, <2>2 DEF Names, Writer, Field
<1>5. CASE i \in Items("crossed", PickName, BOOLEAN)
  <2>1. i.name \in Names("crossed", PickName) /\ i.reg \in {"crossed"} \X PickName /\ i.val \in {"crossed"} \X BOOLEAN
    BY <1>5 DEF Items
  <2>2. i.name # None
    BY <2>1, NoneAssumption
  <2> QED BY <1>1, <2>1, <2>2 DEF Names, Writer, Field
<1>6. CASE i \in Items("tag", PickName, Tag)
  <2>1. i.name \in Names("tag", PickName) /\ i.reg \in {"tag"} \X PickName /\ i.val \in {"tag"} \X Tag
    BY <1>6 DEF Items
  <2>2. i.name # None
    BY <2>1, NoneAssumption
  <2> QED BY <1>1, <2>1, <2>2 DEF Names, Writer, Field
<1> QED BY <1>2, <1>3, <1>4, <1>5, <1>6

LEMMA LastIs ==
  ASSUME NEW D, GoodDoc(D), NEW reg
  PROVE  /\ LastWrite(D, reg) # None =>
               /\ LastWrite(D, reg) \in D.items /\ LastWrite(D, reg).reg = reg
               /\ LastWrite(D, reg) \in AnyItem
         /\ LastWrite(D, reg) = None => \A i \in D.items : i.reg # reg
<1>1. Orderly(D.items) /\ Whole(D.items) /\ D.items \in SUBSET AnyItem
  BY DEF GoodDoc, Docs
<1>2. \A i \in Writes(D, reg) : i # None
  BY <1>1, NoneAssumption DEF Writes
<1>3. CASE Writes(D, reg) = {}
  BY <1>1, <1>3, LastWriteIs DEF Writes
<1>4. CASE Writes(D, reg) # {}
  <2>1. LastWrite(D, reg) \in Writes(D, reg)
    BY <1>1, <1>4, LastWriteIs
  <2> QED BY <1>1, <1>2, <2>1 DEF Writes
<1> QED BY <1>3, <1>4

\* The mark of a pick, a field and what it is without one.
LEMMA ValueIs ==
  ASSUME NEW D, GoodDoc(D), NEW reg, NEW default
  PROVE  \/ Value(D, reg, default) = default
         \/ /\ LastWrite(D, reg) # None /\ LastWrite(D, reg).name \notin D.gone
            /\ Value(D, reg, default) = LastWrite(D, reg).val[2]
            /\ LastWrite(D, reg) \in D.items /\ LastWrite(D, reg).reg = reg
            /\ LastWrite(D, reg) \in AnyItem
BY LastIs DEF Value

\* Only picks and tags are ever marked gone.
LEMMA FieldStays ==
  ASSUME NEW D, GoodDoc(D), NEW i \in AnyItem, i.reg[1] \in {"at", "crossed"}
  PROVE  i.name \notin D.gone
<1>1. D.gone \in SUBSET (PickName \cup Names("tag", PickName))
  BY DEF GoodDoc, Docs
<1>2. i.name[2][1] \in {"at", "crossed"}
  BY ItemIs
<1>3. \A n \in PickName \cup Names("tag", PickName) : n[2][1] \in {"pick", "tag"}
  <2>1. \A n \in PickName : n[2][1] = "pick"
    BY DEF PickName, Names
  <2>2. \A n \in Names("tag", PickName) : n[2][1] = "tag"
    BY DEF Names
  <2> QED BY <2>1, <2>2
<1> QED BY <1>1, <1>2, <1>3

\* The pick a team is on the list by.
PickIs(D, t, i) ==
    /\ i = LastWrite(D, Pick(t)) /\ i \in D.items /\ i \in AnyItem /\ i.reg = Pick(t)
    /\ i.name \notin D.gone /\ i.name = <<i.name[1], Pick(t)>> /\ i.name \in PickName
    /\ i.val[2] = <<i.name[1], t>> /\ i.val[2] \in PickId

LEMMA OnTheList ==
  ASSUME NEW D, GoodDoc(D), NEW t \in Team
  PROVE  /\ t \in DOMAIN Listing(D) <=>
               LastWrite(D, Pick(t)) # None /\ LastWrite(D, Pick(t)).name \notin D.gone
         /\ t \in DOMAIN Listing(D) => PickIs(D, t, LastWrite(D, Pick(t)))
<1> DEFINE i == LastWrite(D, Pick(t))
<1>1. Pick(t)[1] = "pick" /\ Pick(t)[2] = t
  BY DEF Pick
<1>2. ASSUME i # None, i.name \notin D.gone
      PROVE  PickIs(D, t, i)
  <2>1. i \in D.items /\ i.reg = Pick(t) /\ i \in AnyItem
    BY <1>2, LastIs
  <2>2. i.val[2] = <<i.name[1], t>>
    BY <1>1, <2>1 DEF GoodDoc, IdsOK
  <2>3. i.name = <<i.name[1], Pick(t)>>
    BY <2>1 DEF GoodDoc, Orderly
  <2>4. i.name \in PickName /\ i.val[2] \in PickId
    BY <1>1, <2>1, ItemIs
  <2> QED BY <1>2, <2>1, <2>2, <2>3, <2>4 DEF PickIs
<1>3. Value(D, Pick(t), None) = IF i = None \/ i.name \in D.gone THEN None ELSE i.val[2]
  BY DEF Value
<1>4. ASSUME i # None, i.name \notin D.gone PROVE i.val[2] # None
  <2>1. i.val[2] \in PickId
    BY <1>2, <1>4 DEF PickIs
  <2> QED BY <2>1, NoneAssumption
<1>5. t \in DOMAIN Listing(D) <=> Value(D, Pick(t), None) # None
  BY DEF Listing
<1> HIDE DEF i
<1>6. t \in DOMAIN Listing(D) <=> i # None /\ i.name \notin D.gone
  BY <1>3, <1>4, <1>5
<1>7. t \in DOMAIN Listing(D) => PickIs(D, t, i)
  BY <1>2, <1>6
<1> QED BY <1>6, <1>7 DEF i

\* What the list has for a team is what the registers of its pick say.
LEMMA ListingIs ==
  ASSUME NEW D, GoodDoc(D), NEW t \in DOMAIN Listing(D)
  PROVE  LET i == LastWrite(D, Pick(t))
         IN  /\ t \in Team /\ PickIs(D, t, i)
             /\ Listing(D)[t].id = i.val[2] /\ Listing(D)[t].id = <<i.name[1], t>>
             /\ Listing(D)[t].at = Value(D, Field(i.name, "at"), <<>>)
             /\ Listing(D)[t].tag = Value(D, Field(i.name, "tag"), None)
             /\ Listing(D)[t].crossed = Value(D, Field(i.name, "crossed"), FALSE)
             /\ KeyOK(Listing(D)[t].at) /\ Listing(D)[t].at # <<>>
             /\ Listing(D)[t].tag \in Tag \cup {None} /\ Listing(D)[t].crossed \in BOOLEAN
<1> DEFINE i == LastWrite(D, Pick(t))
           r == Listing(D)[t]
<1>1. t \in Team
  BY DEF Listing
<1>2. PickIs(D, t, i)
  BY <1>1, OnTheList
<1>3. r = [id      |-> i.val[2],
           at      |-> Value(D, Field(i.name, "at"), <<>>),
           tag     |-> Value(D, Field(i.name, "tag"), None),
           crossed |-> Value(D, Field(i.name, "crossed"), FALSE)]
  BY DEF Listing
<1>4. /\ r.id = i.val[2] /\ r.at = Value(D, Field(i.name, "at"), <<>>)
      /\ r.tag = Value(D, Field(i.name, "tag"), None)
      /\ r.crossed = Value(D, Field(i.name, "crossed"), FALSE)
  BY <1>3
<1> HIDE DEF i, r
<1>5. r.id = <<i.name[1], t>>
  BY <1>2, <1>4 DEF PickIs
<1>6. KeyOK(r.at) /\ r.at # <<>>
  <2> DEFINE reg == Field(i.name, "at")
             a == LastWrite(D, reg)
  <2>1. reg[1] = "at"
    BY DEF Field
  <2>2. \E j \in D.items : j.reg = reg
    <3>1. i.reg[1] = "pick" /\ i \in D.items
      BY <1>2 DEF PickIs, Pick
    <3> QED BY <3>1 DEF GoodDoc, Furnished
  <2> HIDE DEF reg
  <2>3. a # None /\ a \in D.items /\ a.reg = reg /\ a \in AnyItem
    BY <2>2, LastIs
  <2>4. a.name \notin D.gone
    BY <2>1, <2>3, FieldStays
  <2>5. Value(D, reg, <<>>) = a.val[2]
    BY <2>3, <2>4 DEF Value
  <2>6. KeyOK(a.val[2]) /\ a.val[2] # <<>>
    BY <2>1, <2>3 DEF GoodDoc, KeysOK
  <2> QED BY <1>4, <2>5, <2>6 DEF reg
<1>7. r.tag \in Tag \cup {None}
  <2> DEFINE reg == Field(i.name, "tag")
  <2>1. reg[1] = "tag"
    BY DEF Field
  <2> HIDE DEF reg
  <2>2. Value(D, reg, None) \in Tag \cup {None}
    <3> DEFINE a == LastWrite(D, reg)
    <3>1. \/ Value(D, reg, None) = None
          \/ Value(D, reg, None) = a.val[2] /\ a.reg = reg /\ a \in AnyItem
      BY ValueIs
    <3> HIDE DEF a
    <3>2. a.reg = reg /\ a \in AnyItem => a.val[2] \in Tag
      BY <2>1, ItemIs
    <3> QED BY <3>1, <3>2
  <2> QED BY <1>4, <2>2 DEF reg
<1>8. r.crossed \in BOOLEAN
  <2> DEFINE reg == Field(i.name, "crossed")
  <2>1. reg[1] = "crossed"
    BY DEF Field
  <2> HIDE DEF reg
  <2>2. Value(D, reg, FALSE) \in BOOLEAN
    <3> DEFINE a == LastWrite(D, reg)
    <3>1. \/ Value(D, reg, FALSE) = FALSE
          \/ Value(D, reg, FALSE) = a.val[2] /\ a.reg = reg /\ a \in AnyItem
      BY ValueIs
    <3> HIDE DEF a
    <3>2. a.reg = reg /\ a \in AnyItem => a.val[2] \in BOOLEAN
      BY <2>1, ItemIs
    <3> QED BY <3>1, <3>2
  <2> QED BY <1>4, <2>2 DEF reg
<1> QED BY <1>1, <1>2, <1>4, <1>5, <1>6, <1>7, <1>8 DEF i, r

\* The pick a listed team is on by, and its record id.
OnBy(D, t, l, id) ==
    /\ t \in Team /\ id \in PickId /\ id = <<l.name[1], t>> /\ id[2] = t
    /\ l.name = <<id[1], Pick(t)>> /\ l.name = <<l.name[1], Pick(t)>> /\ l.name \in PickName
    /\ l \in D.items /\ l.reg = Pick(t) /\ l.name \notin D.gone

LEMMA ListedPick ==
  ASSUME NEW D, GoodDoc(D), NEW t \in DOMAIN Listing(D)
  PROVE  OnBy(D, t, LastWrite(D, Pick(t)), Listing(D)[t].id)
<1> DEFINE l == LastWrite(D, Pick(t))
           id == Listing(D)[t].id
<1>1. t \in Team /\ PickIs(D, t, l) /\ id = l.val[2] /\ id = <<l.name[1], t>>
  BY ListingIs
<1> HIDE DEF id, l
<1>2. id[2] = t /\ id[1] = l.name[1]
  BY <1>1
<1>3. OnBy(D, t, l, id)
  BY <1>1, <1>2 DEF PickIs, OnBy
<1> QED BY <1>3 DEF id, l

LEMMA ListingOK ==
  ASSUME NEW D, GoodDoc(D)
  PROVE  /\ ListOK(Listing(D))
         /\ \A t \in DOMAIN Listing(D) : Row(Listing(D), t) \in PickRow /\ Row(Listing(D), t) # None
<1>1. DOMAIN Listing(D) \in SUBSET Team
  BY DEF Listing
<1>2. ListOK(Listing(D))
  BY <1>1, ListingIs DEF ListOK
<1>3. ASSUME NEW t \in DOMAIN Listing(D) PROVE Row(Listing(D), t) \in PickRow
  <2>1. Place(Listing(D), t) \in Nat
    BY <1>2, PlacesAre
  <2>2. t \in Team /\ Listing(D)[t].id \in PickId
    BY ListingIs DEF PickIs
  <2>3. Listing(D)[t].tag \in Tag \cup {None} /\ Listing(D)[t].crossed \in BOOLEAN
    BY ListingIs
  <2> QED BY <2>1, <2>2, <2>3 DEF Row, PickRow, PickId
<1> QED BY <1>2, <1>3, NoneAssumption

-----------------------------------------------------------------------------
(* The changes made. *)

\* The pick a change is about.
PickOf(m) == <<m.id[1], Pick(m.team)>>

\* A pick's key and its cross are first written with it, by who made it.
FirstsAlone(S) ==
    \A i \in S : i.reg[1] \in {"at", "crossed"} /\ i.origin = None => i.name[1] = i.reg[2][1]

WritesOne(m, f) ==
    /\ m.update.gone = {}
    /\ \E i \in m.update.items : m.update.items = {i} /\ i.reg = Field(PickOf(m), f)

\* What the items of one client's change are.
OneClient(c, S) ==
    /\ S \in SUBSET AnyItem
    /\ \A i \in S : i.name = <<c, i.reg>>
    /\ \A i, j \in S : i.reg = j.reg => i = j
    /\ IdsOK(S) /\ KeysOK(S) /\ FirstsAlone(S)

\* What each edit writes or marks gone.
Does(c, m) ==
    /\ m.op = "add" =>
          /\ m.update.gone = {} /\ m.id[1] = c
          /\ {i.reg : i \in m.update.items} = {Pick(m.team), Field(PickOf(m), "at"), Field(PickOf(m), "crossed")}
    /\ m.op = "remove" => m.update.items = {} /\ m.update.gone = {PickOf(m)}
    /\ m.op = "move" => WritesOne(m, "at")
    /\ m.op = "cross" => WritesOne(m, "crossed") /\ \A i \in m.update.items : i.val[2] = m.to
    /\ m.op = "tag" =>
          \/ WritesOne(m, "tag") /\ \A i \in m.update.items : i.val[2] = m.to
          \/ /\ m.to = None /\ m.update.items = {}
             /\ \E n \in m.update.gone : m.update.gone = {n} /\ n[2] = Field(PickOf(m), "tag")

ChangeOK(c, m) ==
    m \in Changes /\ m.id[2] = m.team /\ OneClient(c, m.update.items) /\ Does(c, m)

\* What an update goes on from is there.
SeenIn(D, U) ==
    /\ \A i \in U.items : i.origin = None \/ \E o \in D.items : o.name = i.origin /\ o.reg = i.reg
    /\ \A n \in U.gone : \E i \in D.items : i.name = n

LEMMA EmptyIsGood == GoodDoc(Empty)
<1>1. Empty.items = {} /\ Empty.gone = {} /\ Empty \in Docs
  BY DEF Empty, Docs
<1> QED BY <1>1 DEF GoodDoc, Orderly, Whole, IdsOK, KeysOK, Furnished

\* A write follows the one it saw.
LEMMA ItemMade ==
  ASSUME NEW D, GoodDoc(D), NEW c \in Writer, NEW reg, NEW val
  PROVE  LET i == Item(D, c, reg, val)
         IN  /\ i.name = <<c, reg>> /\ i.reg = reg /\ i.val = <<reg[1], val>>
             /\ i = [name |-> <<c, reg>>, reg |-> reg, val |-> <<reg[1], val>>, origin |-> i.origin]
             /\ i.origin = None \/ \E o \in D.items : o.name = i.origin /\ o.reg = reg /\ o \in AnyItem
             /\ i.origin = None => \A o \in D.items : o.reg # reg
<1> DEFINE i == Item(D, c, reg, val)
           seen == LastWrite(D, reg)
<1>1. i = [name |-> <<c, reg>>, reg |-> reg, val |-> <<reg[1], val>>,
           origin |-> IF seen = None THEN None ELSE seen.name]
  BY DEF Item, Name
<1>2. /\ i.name = <<c, reg>> /\ i.reg = reg /\ i.val = <<reg[1], val>>
      /\ i.origin = IF seen = None THEN None ELSE seen.name
  BY <1>1
<1>3. seen # None => seen \in D.items /\ seen.reg = reg /\ seen \in AnyItem /\ seen.name # None
  BY LastIs, ItemIs
<1>4. seen = None => \A o \in D.items : o.reg # reg
  BY LastIs
<1> HIDE DEF seen
<1>5. i = [name |-> <<c, reg>>, reg |-> reg, val |-> <<reg[1], val>>, origin |-> i.origin]
  BY <1>1
<1> HIDE DEF i
<1> QED BY <1>2, <1>3, <1>4, <1>5 DEF i

LEMMA PickMade ==
  ASSUME NEW D, GoodDoc(D), NEW c \in Writer, NEW t \in Team
  PROVE  Item(D, c, Pick(t), <<c, t>>) \in AnyItem
<1> DEFINE i == Item(D, c, Pick(t), <<c, t>>)
           reg == Pick(t)
<1>1. reg[1] = "pick" /\ reg \in {"pick"} \X Team
  BY DEF Pick
<1> HIDE DEF reg
<1>2. /\ i = [name |-> <<c, reg>>, reg |-> reg, val |-> <<reg[1], <<c, t>>>>, origin |-> i.origin]
      /\ i.origin = None \/ \E o \in D.items : o.name = i.origin /\ o.reg = reg /\ o \in AnyItem
  BY ItemMade DEF reg
<1>3. i.origin \in Names("pick", Team) \cup {None}
  BY <1>1, <1>2, ItemIs DEF PickName
<1>4. <<c, reg>> \in Names("pick", Team) /\ <<reg[1], <<c, t>>>> \in {"pick"} \X PickId
  BY <1>1 DEF Names, Writer, PickId
<1> HIDE DEF i
<1>5. i \in Items("pick", Team, PickId)
  BY <1>1, <1>2, <1>3, <1>4 DEF Items
<1> QED BY <1>5 DEF AnyItem, i

LEMMA FieldMade ==
  ASSUME NEW D, GoodDoc(D), NEW c \in Writer, NEW f, NEW n \in PickName, NEW val,
         \/ f = "at" /\ val \in Seq(Nat)
         \/ f = "crossed" /\ val \in BOOLEAN
         \/ f = "tag" /\ val \in Tag
  PROVE  Item(D, c, Field(n, f), val) \in AnyItem
<1> DEFINE i == Item(D, c, Field(n, f), val)
           reg == Field(n, f)
<1>1. reg[1] = f /\ reg \in {f} \X PickName /\ f # "pick"
  BY DEF Field
<1> HIDE DEF reg
<1>2. /\ i = [name |-> <<c, reg>>, reg |-> reg, val |-> <<reg[1], val>>, origin |-> i.origin]
      /\ i.origin = None \/ \E o \in D.items : o.name = i.origin /\ o.reg = reg /\ o \in AnyItem
  BY ItemMade DEF reg
<1>3. i.origin \in Names(f, PickName) \cup {None}
  BY <1>1, <1>2, ItemIs
<1>4. <<c, reg>> \in Names(f, PickName) /\ <<reg[1], val>> = <<f, val>>
  BY <1>1 DEF Names, Writer
<1> HIDE DEF i
<1>5. ASSUME NEW vals, val \in vals PROVE i \in Items(f, PickName, vals)
  BY <1>1, <1>2, <1>3, <1>4, <1>5 DEF Items
<1> QED BY <1>5 DEF AnyItem, i

\* A pick and its first fields.
Picked(D, c, t, key, S) ==
    /\ OneClient(c, S) /\ Furnished(S)
    /\ \E p, a, x \in S :
          /\ S = {p, a, x} /\ p.reg = Pick(t)
          /\ a.reg = Field(<<c, Pick(t)>>, "at") /\ a.origin = None /\ a.val[2] = key
          /\ x.reg = Field(<<c, Pick(t)>>, "crossed") /\ x.origin = None /\ x.val[2] = FALSE
          /\ p.origin = None \/ \E o \in D.items : o.name = p.origin /\ o.reg = p.reg

LEMMA NewPickIs ==
  ASSUME NEW D, GoodDoc(D), NEW c \in Writer, NEW t \in Team, NEW key, KeyOK(key), key # <<>>
  PROVE  Picked(D, c, t, key, NewPick(D, c, t, key, None, FALSE))
<1> DEFINE S == NewPick(D, c, t, key, None, FALSE)
           n == <<c, Pick(t)>>
           p == Item(D, c, Pick(t), <<c, t>>)
           a == Item(Empty, c, Field(n, "at"), key)
           x == Item(Empty, c, Field(n, "crossed"), FALSE)
<1>1. /\ p.name = n /\ p.reg = Pick(t) /\ p.val = <<Pick(t)[1], <<c, t>>>>
      /\ p.origin = None \/ \E o \in D.items : o.name = p.origin /\ o.reg = p.reg
  BY ItemMade
<1>2. n \in PickName
  BY DEF PickName, Names, Writer, Pick
<1>3. /\ a.name = <<c, Field(n, "at")>> /\ a.reg = Field(n, "at") /\ a.val[2] = key /\ a.origin = None
      /\ x.name = <<c, Field(n, "crossed")>> /\ x.reg = Field(n, "crossed") /\ x.val[2] = FALSE /\ x.origin = None
  <2>1. Empty.items = {}
    BY DEF Empty
  <2> DEFINE ra == Field(n, "at")
             rx == Field(n, "crossed")
  <2> HIDE DEF ra, rx, n
  <2>5. ASSUME NEW reg, NEW val
        PROVE  /\ Item(Empty, c, reg, val).name = <<c, reg>>
               /\ Item(Empty, c, reg, val).reg = reg /\ Item(Empty, c, reg, val).val = <<reg[1], val>>
               /\ \/ Item(Empty, c, reg, val).origin = None
                  \/ \E o \in Empty.items : o.name = Item(Empty, c, reg, val).origin
    BY ItemMade, EmptyIsGood
  <2>2. /\ a.name = <<c, ra>> /\ a.reg = ra /\ a.val = <<ra[1], key>>
        /\ a.origin = None \/ \E o \in Empty.items : o.name = a.origin
    BY <2>5 DEF ra
  <2>6. ASSUME NEW v, v = FALSE
        PROVE  /\ Item(Empty, c, rx, v).name = <<c, rx>>
               /\ Item(Empty, c, rx, v).reg = rx /\ Item(Empty, c, rx, v).val[2] = v
               /\ \/ Item(Empty, c, rx, v).origin = None
                  \/ \E o \in Empty.items : o.name = Item(Empty, c, rx, v).origin
    BY <2>5
  <2>3. /\ x.name = <<c, rx>> /\ x.reg = rx /\ x.val[2] = FALSE
        /\ x.origin = None \/ \E o \in Empty.items : o.name = x.origin
    BY Zenon, <2>6 DEF rx
  <2> HIDE DEF a, x
  <2>4. a.val[2] = key /\ x.val[2] = FALSE
    BY <2>2, <2>3
  <2> QED BY <2>1, <2>2, <2>3, <2>4 DEF ra, rx
<1>4. p \in AnyItem /\ a \in AnyItem /\ x \in AnyItem
  <2>1. key \in Seq(Nat)
    BY KeysAreSeqs
  <2> QED BY <1>2, <2>1, PickMade, FieldMade, EmptyIsGood
<1>5. S = {p, a, x}
  BY <1>1 DEF NewPick
<1> HIDE DEF S, p, a, x
<1>6. /\ p.reg[1] = "pick" /\ p.reg[2] = t /\ a.reg[1] = "at" /\ x.reg[1] = "crossed"
      /\ a.reg[2][1] = c /\ x.reg[2][1] = c
  BY <1>1, <1>3 DEF Pick, Field
<1>7. OneClient(c, S)
  <2>1. \A i \in S : i.name = <<c, i.reg>>
    BY <1>1, <1>3, <1>5
  <2>2. \A i, j \in S : i.reg = j.reg => i = j
    BY <1>5, <1>6
  <2>3. IdsOK(S)
    BY <1>1, <1>5, <1>6 DEF IdsOK
  <2>4. KeysOK(S)
    BY <1>3, <1>5, <1>6 DEF KeysOK
  <2>5. FirstsAlone(S)
    BY <1>3, <1>5, <1>6 DEF FirstsAlone
  <2> QED BY <1>4, <1>5, <2>1, <2>2, <2>3, <2>4, <2>5 DEF OneClient
<1>8. Furnished(S)
  BY <1>1, <1>3, <1>5, <1>6 DEF Furnished
<1>9. Picked(D, c, t, key, S)
  BY <1>1, <1>3, <1>5, <1>7, <1>8 DEF Picked
<1> QED BY <1>9 DEF S

\* One mark written over a pick on the list, whose name is n.
Wrote(D, c, t, n, f, val, U) ==
    /\ U \in Docs /\ U.gone = {} /\ n = <<Listing(D)[t].id[1], Pick(t)>>
    /\ \E i \in U.items : U.items = {i} /\ i.reg = Field(n, f) /\ i.val[2] = val
    /\ OneClient(c, U.items) /\ SeenIn(D, U)

LEMMA WriteIs ==
  ASSUME NEW D, GoodDoc(D), NEW c \in Client, NEW t \in DOMAIN Listing(D), NEW f, NEW val,
         \/ f = "at" /\ KeyOK(val) /\ val # <<>>
         \/ f = "crossed" /\ val \in BOOLEAN
         \/ f = "tag" /\ val \in Tag,
         NEW n, n = LastWrite(D, Pick(t)).name
  PROVE  Wrote(D, c, t, n, f, val, Write(D, c, Field(n, f), val))
<1> DEFINE reg == Field(n, f)
           i == Item(D, c, reg, val)
           U == Write(D, c, reg, val)
           l == LastWrite(D, Pick(t))
<1>1. c \in Writer /\ U = [items |-> {i}, gone |-> {}]
  BY DEF Writer, Write
<1>2. PickIs(D, t, l) /\ n = l.name /\ Listing(D)[t].id = <<l.name[1], t>> /\ n \in PickName
  BY ListingIs DEF PickIs
<1>3. /\ i.name = <<c, reg>> /\ i.reg = reg /\ i.val = <<reg[1], val>>
      /\ i.origin = None \/ \E o \in D.items : o.name = i.origin /\ o.reg = reg
      /\ i.origin = None => \A o \in D.items : o.reg # reg
  BY <1>1, ItemMade
<1>4. i \in AnyItem
  <2>1. \/ f = "at" /\ val \in Seq(Nat)
        \/ f = "crossed" /\ val \in BOOLEAN
        \/ f = "tag" /\ val \in Tag
    BY KeysAreSeqs
  <2> QED BY <1>1, <1>2, <2>1, FieldMade
<1> HIDE DEF i, U
<1>5. reg[1] = f /\ reg[2] = n /\ f # "pick"
  BY DEF Field
<1>6. i.origin = None => f \notin {"at", "crossed"}
  <2>1. l \in D.items /\ l.reg[1] = "pick"
    BY <1>2 DEF PickIs, Pick
  <2>2. f \in {"at", "crossed"} => \E j \in D.items : j.reg = reg
    BY <1>2, <2>1 DEF GoodDoc, Furnished
  <2> QED BY <1>3, <2>2
<1>7. OneClient(c, U.items)
  <2>1. U.items = {i}
    BY <1>1
  <2>2. IdsOK(U.items) /\ KeysOK(U.items) /\ FirstsAlone(U.items)
    BY <1>3, <1>5, <1>6, <2>1 DEF IdsOK, KeysOK, FirstsAlone
  <2> QED BY <1>3, <1>4, <2>1, <2>2 DEF OneClient
<1>8. U \in Docs
  BY <1>1, <1>4 DEF Docs
<1>9. SeenIn(D, U)
  BY <1>1, <1>3 DEF SeenIn
<1>10. n = <<Listing(D)[t].id[1], Pick(t)>>
  BY <1>2 DEF PickIs
<1>11. i.val[2] = val
  BY <1>3
<1>12. Wrote(D, c, t, n, f, val, U)
  BY <1>1, <1>3, <1>7, <1>8, <1>9, <1>10, <1>11 DEF Wrote
<1> QED BY <1>12 DEF U

\* The others of a list are a list, of one less.
LEMMA OthersAre ==
  ASSUME NEW list, ListOK(list), NEW t \in DOMAIN list
  PROVE  /\ ListOK(Others(list, t)) /\ DOMAIN Others(list, t) = DOMAIN list \ {t}
         /\ Cardinality(DOMAIN Others(list, t)) = Cardinality(DOMAIN list) - 1
         /\ Cardinality(DOMAIN list) \in Nat \ {0}
<1>1. DOMAIN Others(list, t) = DOMAIN list \ {t}
  BY DEF Others
<1>2. ListOK(Others(list, t))
  BY DEF Others, ListOK
<1>3. IsFiniteSet(DOMAIN list)
  BY PickListAssumption, FS_Subset DEF ListOK
<1>4. Cardinality(DOMAIN list \ {t}) = Cardinality(DOMAIN list) - 1
  BY <1>3, FS_RemoveElement
<1>5. Cardinality(DOMAIN list) \in Nat \ {0}
  BY <1>3, FS_CardinalityType, FS_EmptySet
<1> QED BY <1>1, <1>2, <1>4, <1>5

\* Where a move goes, and the key it writes.
Target(list, place) == IF place > Cardinality(DOMAIN list) THEN Cardinality(DOMAIN list) ELSE place

LEMMA MoveIs ==
  ASSUME NEW D, GoodDoc(D), NEW c \in Client, NEW t \in DOMAIN Listing(D), NEW place \in Nat \ {0},
         Move(D, c, t, place) # None
  PROVE  LET list  == Listing(D)
             to    == Target(list, place)
             other == Others(list, t)
             key   == Between(KeyAt(other, to - 1), KeyAt(other, to), c)
         IN  /\ to \in 1 .. Cardinality(DOMAIN list) /\ to # Place(list, t)
             /\ Move(D, c, t, place) = Write(D, c, Field(LastWrite(D, Pick(t)).name, "at"), key)
             /\ KeyOK(key) /\ key # <<>>
             /\ KeyOK(KeyAt(other, to - 1)) /\ EndOK(KeyAt(other, to))
<1> DEFINE list  == Listing(D)
           size  == Cardinality(DOMAIN list)
           to    == Target(list, place)
           other == Others(list, t)
           low   == KeyAt(other, to - 1)
           high  == KeyAt(other, to)
<1>1. ListOK(list) /\ t \in DOMAIN list
  BY ListingOK
<1>2. Move(D, c, t, place) =
        IF to = Place(list, t) THEN None
        ELSE Write(D, c, Field(LastWrite(D, Pick(t)).name, "at"), Between(low, high, c))
  BY DEF Move, Target
<1> HIDE DEF list
<1>3. ListOK(other) /\ Cardinality(DOMAIN other) = size - 1 /\ size \in Nat \ {0}
  BY <1>1, OthersAre
<1>4. to \in 1 .. size
  BY <1>3 DEF Target
<1> HIDE DEF to, other
<1>5. to - 1 \in Nat /\ to \in Nat /\ to > 0 /\ to - 1 <= Cardinality(DOMAIN other)
  BY <1>3, <1>4
<1>6. KeyOK(low) /\ EndOK(high)
  BY <1>3, <1>5, KeyAtIs
<1> HIDE DEF low, high
<1>7. KeyOK(Between(low, high, c)) /\ Between(low, high, c) # <<>>
  <2>1. c \in Nat
    BY PickListAssumption
  <2> QED BY <1>6, <2>1, BetweenIs
<1> QED BY <1>2, <1>4, <1>6, <1>7 DEF list, to, other, low, high

EditOK(e) == e \in Edits \cup MoveEdits \cup CrossEdits \cup TagEdits

LEMMA EditIs ==
  ASSUME NEW e, EditOK(e)
  PROVE  /\ e.team \in Team
         /\ e.op \in {"add", "remove", "up", "down", "move", "cross", "tag"}
         /\ e.op = "move" => e.to \in Nat \ {0}
         /\ e.op = "cross" => e.to \in BOOLEAN
         /\ e.op = "tag" => e.to \in Tag \cup {None}
<1>1. CASE e \in Edits
  BY <1>1 DEF Edits
<1>2. CASE e \in MoveEdits
  BY <1>2 DEF MoveEdits
<1>3. CASE e \in CrossEdits
  BY <1>3 DEF CrossEdits
<1>4. CASE e \in TagEdits
  BY <1>4 DEF TagEdits
<1> QED BY <1>1, <1>2, <1>3, <1>4 DEF EditOK

\* Whatever an edit writes to a copy, the change made is one of its kind, and
\* goes on from what the copy has.
ChangeIs(D, c, e, U) == ChangeOK(c, Made(D, c, e, U)) /\ SeenIn(D, U)

LEMMA AddIs ==
  ASSUME NEW D, GoodDoc(D), NEW c \in Client, NEW e, EditOK(e), e.op = "add",
         NEW U, U = Apply(D, c, e, Roster), U # None
  PROVE  ChangeIs(D, c, e, U)
<1> DEFINE t == e.team
           list == Listing(D)
           N == Cardinality(DOMAIN list)
           key == Between(KeyAt(list, N), Top, c)
           S == NewPick(D, c, t, key, None, FALSE)
           m == Made(D, c, e, U)
           n == <<c, Pick(t)>>
<1>1. t \in Team /\ c \in Writer /\ c \in Nat
  BY EditIs, PickListAssumption DEF Writer
<1>2. KeyOK(key) /\ key # <<>>
  <2>1. N \in Nat /\ KeyOK(KeyAt(list, N))
    BY ListingOK, PlacesAre, KeyAtIs
  <2> HIDE DEF N, list
  <2> QED BY <1>1, <2>1, BetweenIs DEF EndOK
<1>3. U = [items |-> S, gone |-> {}]
  <2>1. U = ApplyAdd(D, c, t, Roster)
    BY DEF Apply
  <2> QED BY <2>1 DEF ApplyAdd
<1> HIDE DEF key
<1>4. Picked(D, c, t, key, S)
  BY <1>1, <1>2, NewPickIs
<1> HIDE DEF S, t
<1>5. m = [op |-> "add", team |-> t, update |-> U, to |-> None, id |-> <<c, t>>]
  BY DEF Made, t
<1> HIDE DEF m
<1>6. U \in Docs /\ U.items = S /\ U.gone = {}
  BY <1>3, <1>4 DEF OneClient, Docs, Picked
<1>7. m \in Changes /\ m.id[2] = m.team /\ m.update = U /\ m.id[1] = c /\ m.team = t /\ m.op = "add"
  BY <1>1, <1>5, <1>6 DEF Changes, PickId, Writer
<1>8. PickOf(m) = n
  BY <1>7 DEF PickOf
<1>9. Does(c, m)
  <2>1. {i.reg : i \in S} = {Pick(t), Field(n, "at"), Field(n, "crossed")}
    BY <1>4 DEF Picked
  <2> QED BY <1>6, <1>7, <1>8, <2>1 DEF Does
<1>10. SeenIn(D, U)
  BY <1>4, <1>6 DEF SeenIn, Picked
<1>11. OneClient(c, S)
  BY <1>4 DEF Picked
<1> QED BY <1>11, <1>6, <1>7, <1>9, <1>10 DEF ChangeIs, ChangeOK, m

LEMMA RemoveIs ==
  ASSUME NEW D, GoodDoc(D), NEW c \in Client, NEW e, EditOK(e), e.op = "remove",
         NEW U, U = Apply(D, c, e, Roster), U # None
  PROVE  ChangeIs(D, c, e, U)
<1> DEFINE t == e.team
           list == Listing(D)
           l == LastWrite(D, Pick(t))
           m == Made(D, c, e, U)
<1>1. t \in DOMAIN list /\ U = [items |-> {}, gone |-> {l.name}]
  BY DEF Apply
<1>2. /\ t \in Team /\ list[t].id = <<l.name[1], t>> /\ list[t].id \in PickId
      /\ l.name = <<l.name[1], Pick(t)>> /\ l.name \in PickName /\ l \in D.items
  <2>1. OnBy(D, t, l, list[t].id)
    BY <1>1, ListedPick
  <2> QED BY <2>1 DEF OnBy
<1>3. m = [op |-> "remove", team |-> t, update |-> U, to |-> None, id |-> list[t].id]
  BY DEF Made
<1> HIDE DEF m, l, list
<1>4. U \in Docs /\ U.items = {} /\ U.gone = {l.name}
  BY <1>1, <1>2 DEF Docs
<1>5. m \in Changes /\ m.id[2] = m.team /\ m.update = U /\ PickOf(m) = l.name /\ m.op = "remove"
  BY <1>2, <1>3, <1>4 DEF Changes, PickOf
<1>6. OneClient(c, U.items)
  BY <1>4 DEF OneClient, IdsOK, KeysOK, FirstsAlone
<1>7. Does(c, m) /\ SeenIn(D, U)
  BY <1>2, <1>4, <1>5 DEF Does, SeenIn
<1> QED BY <1>5, <1>6, <1>7 DEF ChangeIs, ChangeOK, m

\* An edit that writes one mark.
LEMMA MarkIs ==
  ASSUME NEW D, GoodDoc(D), NEW c \in Client, NEW e, EditOK(e), e.op # "add", e.op # "remove",
         NEW U, U # None, e.team \in DOMAIN Listing(D), NEW f, NEW val,
         U = Write(D, c, Field(LastWrite(D, Pick(e.team)).name, f), val),
         \/ f = "at" /\ KeyOK(val) /\ val # <<>> /\ e.op \in {"up", "down", "move"}
         \/ f = "crossed" /\ e.op = "cross" /\ val = e.to /\ val \in BOOLEAN
         \/ f = "tag" /\ e.op = "tag" /\ val = e.to /\ val \in Tag
  PROVE  ChangeIs(D, c, e, U)
<1> DEFINE t == e.team
           list == Listing(D)
           n == LastWrite(D, Pick(t)).name
           m == Made(D, c, e, U)
           to == IF e.op \in {"cross", "tag"} THEN e.to ELSE None
           op == IF e.op \in {"up", "down"} THEN "move" ELSE e.op
<1>1. Wrote(D, c, t, n, f, val, U)
  <2>1. \/ f = "at" /\ KeyOK(val) /\ val # <<>>
        \/ f = "crossed" /\ val \in BOOLEAN
        \/ f = "tag" /\ val \in Tag
    OBVIOUS
  <2> QED BY <2>1, WriteIs
<1>2. t \in Team /\ list[t].id \in PickId /\ list[t].id[2] = t
  <2>1. OnBy(D, t, LastWrite(D, Pick(t)), list[t].id)
    BY ListedPick
  <2> QED BY <2>1 DEF OnBy
<1>3. m = [op |-> op, team |-> t, update |-> U, to |-> to, id |-> list[t].id]
  BY DEF Made
<1>4. op \in {"move", "cross", "tag"} /\ to \in Tag \cup BOOLEAN \cup {None}
  BY EditIs
<1>5. /\ op = "move" => f = "at"
      /\ op = "cross" => f = "crossed" /\ to = val
      /\ op = "tag" => f = "tag" /\ to = val
  OBVIOUS
<1> HIDE DEF m, to, op, n
<1>6. /\ m \in Changes /\ m.id[2] = m.team /\ m.update = U /\ m.op = op /\ m.to = to
      /\ PickOf(m) = n
  BY <1>1, <1>2, <1>3, <1>4 DEF Changes, PickOf, Wrote
<1>7. WritesOne(m, f) /\ \A x \in m.update.items : x.val[2] = val
  BY <1>1, <1>6 DEF WritesOne, Wrote
<1>8. Does(c, m)
  BY <1>4, <1>5, <1>6, <1>7 DEF Does
<1> QED BY <1>1, <1>6, <1>8 DEF ChangeIs, ChangeOK, Wrote, m

LEMMA UntagIs ==
  ASSUME NEW D, GoodDoc(D), NEW c \in Client, NEW e, EditOK(e), e.op = "tag", e.to = None,
         NEW U, U = Apply(D, c, e, Roster), U # None
  PROVE  ChangeIs(D, c, e, U)
<1> DEFINE t == e.team
           list == Listing(D)
           n == LastWrite(D, Pick(t)).name
           reg == Field(n, "tag")
           l == LastWrite(D, reg)
           m == Made(D, c, e, U)
<1>1. t \in DOMAIN list /\ list[t].tag # None /\ U = [items |-> {}, gone |-> {l.name}]
  BY DEF Apply
<1>2. /\ t \in Team /\ list[t].id \in PickId /\ list[t].id[2] = t /\ n = <<list[t].id[1], Pick(t)>>
      /\ list[t].tag = Value(D, reg, None)
  <2>1. OnBy(D, t, LastWrite(D, Pick(t)), list[t].id)
    BY <1>1, ListedPick
  <2>2. list[t].tag = Value(D, reg, None)
    BY <1>1 DEF Listing
  <2> QED BY <2>1, <2>2 DEF OnBy
<1>3. l \in D.items /\ l.reg = reg /\ l \in AnyItem
  BY <1>1, <1>2, ValueIs
<1>4. m = [op |-> "tag", team |-> t, update |-> U, to |-> None, id |-> list[t].id]
  BY DEF Made
<1>5. l.name \in Names("tag", PickName) /\ l.name[2] = reg
  <2>1. l.reg[1] = "tag"
    BY <1>3 DEF Field
  <2>2. l.name = <<l.name[1], l.reg>>
    BY <1>3 DEF GoodDoc, Orderly
  <2>3. l.name[2] = reg
    <3> HIDE DEF l, reg
    <3> QED BY <1>3, <2>2
  <2> QED BY <1>3, <2>1, <2>3, ItemIs
<1> HIDE DEF m, l, list, n
<1>6. U \in Docs /\ U.items = {} /\ U.gone = {l.name}
  BY <1>1, <1>5 DEF Docs
<1>7. m \in Changes /\ m.id[2] = m.team /\ m.update = U /\ PickOf(m) = n /\ m.op = "tag" /\ m.to = None
  BY <1>2, <1>4, <1>6 DEF Changes, PickOf
<1>8. OneClient(c, U.items)
  BY <1>6 DEF OneClient, IdsOK, KeysOK, FirstsAlone
<1>9. Does(c, m) /\ SeenIn(D, U)
  BY <1>3, <1>5, <1>6, <1>7 DEF Does, SeenIn
<1> QED BY <1>6, <1>7, <1>8, <1>9 DEF ChangeIs, ChangeOK, m

LEMMA ApplyIs ==
  ASSUME NEW D, GoodDoc(D), NEW c \in Client, NEW e, EditOK(e),
         NEW U, U = Apply(D, c, e, Roster), U # None
  PROVE  ChangeIs(D, c, e, U)
<1> DEFINE t == e.team
           list == Listing(D)
           n == LastWrite(D, Pick(t)).name
           here == Place(list, t)
<1>1. CASE e.op = "add"
  BY <1>1, AddIs
<1>2. CASE e.op = "remove"
  BY <1>2, RemoveIs
<1>3. CASE e.op = "tag" /\ e.to = None
  BY <1>3, UntagIs
<1>4. CASE e.op \in {"up", "down", "move"}
  <2>1. t \in DOMAIN list
    BY <1>4 DEF Apply
  <2>2. here \in Nat \ {0}
    BY <2>1, ListingOK, PlacesAre
  <2> HIDE DEF here
  <2> DEFINE place == IF e.op = "move" THEN e.to
                      ELSE IF e.op = "down" THEN here + 1
                      ELSE IF here = 1 THEN 1 ELSE here - 1
  <2>3. place \in Nat \ {0}
    BY <1>4, <2>2, EditIs
  <2>4. U = Move(D, c, t, place)
    <3>1. CASE e.op = "move"
      BY <2>1, <3>1 DEF Apply
    <3>2. CASE e.op = "down"
      BY <2>1, <3>2 DEF Apply, here
    <3>3. CASE e.op = "up"
      BY <2>1, <3>3 DEF Apply, here
    <3> QED BY <1>4, <3>1, <3>2, <3>3
  <2> HIDE DEF place, list
  <2>5. PICK key : U = Write(D, c, Field(n, "at"), key) /\ KeyOK(key) /\ key # <<>>
    BY <2>1, <2>3, <2>4, MoveIs DEF list
  <2> QED BY <1>4, <2>1, <2>5, MarkIs DEF list
<1>5. CASE e.op = "cross"
  <2>1. t \in DOMAIN list /\ U = Write(D, c, Field(n, "crossed"), e.to) /\ e.to \in BOOLEAN
    BY <1>5, EditIs DEF Apply
  <2> QED BY <1>5, <2>1, MarkIs
<1>6. CASE e.op = "tag" /\ e.to # None
  <2>1. t \in DOMAIN list /\ U = Write(D, c, Field(n, "tag"), e.to) /\ e.to \in Tag
    BY <1>6, EditIs DEF Apply
  <2> QED BY <1>6, <2>1, MarkIs
<1> QED BY <1>1, <1>2, <1>3, <1>4, <1>5, <1>6, EditIs

-----------------------------------------------------------------------------
(* All the items there ever were. *)

\* What one client writes, going on from what there is, leaves all in order.
LEMMA OrderlyGrows ==
  ASSUME NEW A \in SUBSET AnyItem, Orderly(A), Whole(A), NEW c \in Nat, NEW B, OneClient(c, B),
         \A i \in A : i.name[1] # c,
         \A i \in B : i.origin = None \/ \E o \in A : o.name = i.origin /\ o.reg = i.reg
  PROVE  Orderly(A \cup B) /\ Whole(A \cup B)
<1> DEFINE C == A \cup B
<1>1. /\ \A i \in A : i.name # None /\ i.name = <<i.name[1], i.reg>> /\ i.name[1] \in Nat
      /\ \A i \in B : i.name # None /\ i.name = <<c, i.reg>> /\ i.name[1] = c
  <2>1. \A i \in A \cup B : i.name # None
    BY ItemIs DEF OneClient
  <2>2. \A i \in B : i.name = <<c, i.reg>>
    BY DEF OneClient
  <2>3. \A i \in B : i.name[1] = c
    BY <2>2
  <2> QED BY <2>1, <2>2, <2>3 DEF Orderly
<1>2. \A i \in C : i.name = <<i.name[1], i.reg>> /\ i.name[1] \in Nat
  BY <1>1
<1>3. \A i, j \in C : i.name = j.name => i = j
  <2>1. \A i, j \in B : i.name = j.name => i = j
    <3> SUFFICES ASSUME NEW i \in B, NEW j \in B, i.name = j.name PROVE i = j
      OBVIOUS
    <3>1. <<c, i.reg>> = <<c, j.reg>>
      BY <1>1
    <3>2. i.reg = j.reg
      BY <3>1
    <3> QED BY <3>2 DEF OneClient
  <2>2. \A i \in A, j \in B : i.name # j.name
    BY <1>1
  <2> QED BY <2>1, <2>2 DEF Orderly
\* Nothing there was saw a new item, nor did a new one.
<1>4. \A i \in C, j \in B : i.origin # j.name
  <2> SUFFICES ASSUME NEW i \in C, NEW j \in B, i.origin = j.name PROVE FALSE
    OBVIOUS
  <2>1. \A o \in A : o.name # j.name
    BY <1>1
  <2>2. CASE i \in A
    BY <1>1, <2>1, <2>2 DEF Whole
  <2>3. CASE i \in B
    BY <1>1, <2>1, <2>3
  <2> QED BY <2>2, <2>3
<1>5. ASSUME NEW T \in SUBSET C, T # {}
      PROVE  \E i \in T : \A o \in T : o.name # i.origin
  <2> DEFINE Q == T \cap A
  <2>1. CASE Q # {}
    <3>1. Q \in SUBSET A
      OBVIOUS
    <3>2. PICK i \in Q : \A o \in Q : o.name # i.origin
      BY <2>1, <3>1 DEF Orderly
    <3>3. \A o \in T : o.name # i.origin
      BY <1>4, <3>2
    <3> QED BY <3>2, <3>3
  <2>2. CASE Q = {}
    <3>1. PICK i \in T : i \in B
      BY <1>5, <2>2
    <3>2. \A o \in T : o \in B
      BY <2>2
    <3> QED BY <1>4, <3>1, <3>2
  <2> QED BY <2>1, <2>2
<1>6. ASSUME NEW T \in SUBSET C, T # {}
      PROVE  \E i \in T : \A s \in T : s.origin # i.name
  <2>1. CASE \E j \in T : j \in B
    BY <1>4, <2>1
  <2>2. CASE \A j \in T : j \notin B
    <3>1. T \in SUBSET A
      BY <2>2
    <3> QED BY <1>6, <3>1 DEF Orderly
  <2> QED BY <2>1, <2>2
<1>7. ASSUME NEW T \in SUBSET C, T # {}
      PROVE  \E i \in T : \A s \in T : s.name[1] <= i.name[1]
  <2> DEFINE Q == T \cap A
  <2>1. CASE Q = {}
    <3>1. \A i \in T : i.name[1] = c
      BY <1>1, <2>1
    <3> QED BY <1>7, <3>1
  <2>2. CASE Q # {}
    <3>1. Q \in SUBSET A
      OBVIOUS
    <3>2. PICK i \in Q : \A s \in Q : s.name[1] <= i.name[1]
      BY <2>2, <3>1 DEF Orderly
    <3>3. i.name[1] \in Nat /\ i \in T
      BY <1>1, <3>2
    <3>4. CASE \E j \in T : j \in B /\ c > i.name[1]
      <4>1. PICK j \in T : j \in B /\ c > i.name[1]
        BY <3>4
      <4>2. ASSUME NEW s \in T PROVE s.name[1] <= j.name[1]
        <5>1. CASE s \in B
          BY <1>1, <4>1, <5>1
        <5>2. CASE s \in A
          <6>1. s.name[1] <= i.name[1] /\ s.name[1] \in Nat /\ j.name[1] = c
            BY <1>1, <3>2, <4>1, <5>2
          <6> QED BY <3>3, <4>1, <6>1
        <5> QED BY <5>1, <5>2
      <4> QED BY <4>2
    <3>5. CASE \A j \in T : j \in B => ~ (c > i.name[1])
      <4>1. ASSUME NEW s \in T PROVE s.name[1] <= i.name[1]
        <5>1. CASE s \in B
          <6>1. s.name[1] = c /\ ~ (c > i.name[1])
            BY <1>1, <3>5, <5>1
          <6> QED BY <3>3, <6>1
        <5>2. CASE s \in A
          BY <3>2, <5>2
        <5> QED BY <5>1, <5>2
      <4> QED BY <3>3, <4>1
    <3> QED BY <3>4, <3>5
  <2> QED BY <2>1, <2>2
<1>8. Orderly(C)
  BY <1>2, <1>3, <1>5, <1>6, <1>7 DEF Orderly
<1>9. Whole(C)
  BY DEF Whole
<1> QED BY <1>8, <1>9

-----------------------------------------------------------------------------
(* The document made from the rows. *)

SeedDoc == FromEntries({FirstPicks[t] : t \in Team} \ {None}, Seed)

Position(t)  == CHOOSE i \in 1 .. Len(Listed) : Listed[i] = t
Sown(t)      == NewPick(Empty, Seed, t, SeedKey[Position(t)], None, FALSE)
ListedTeams  == {Listed[i] : i \in 1 .. Len(Listed)}

LEMMA FirstRows ==
  /\ Len(Listed) \in Nat /\ ListedTeams \in SUBSET Team
  /\ \A t \in ListedTeams : Position(t) \in 1 .. Len(Listed) /\ Listed[Position(t)] = t
  /\ \A i \in 1 .. Len(Listed) : Listed[i] \in ListedTeams /\ Position(Listed[i]) = i
  /\ \A t \in Team : FirstPicks[t] =
        IF t \in ListedTeams
        THEN [id |-> <<Seed, t>>, team |-> t, tag |-> None, crossed |-> FALSE, position |-> Position(t)]
        ELSE None
  /\ \A t \in ListedTeams : FirstPicks[t] \in PickRow /\ FirstPicks[t] # None
<1>1. Len(Listed) \in Nat /\ ListedTeams \in SUBSET Team
  BY PickListAssumption DEF ListedTeams
<1>2. \A t \in ListedTeams : Position(t) \in 1 .. Len(Listed) /\ Listed[Position(t)] = t
  BY DEF ListedTeams, Position
<1>3. \A i \in 1 .. Len(Listed) : Listed[i] \in ListedTeams
  BY DEF ListedTeams
<1>4. \A i \in 1 .. Len(Listed) : Position(Listed[i]) = i
  BY <1>2, <1>3, PickListAssumption
<1>5. ASSUME NEW t \in Team
      PROVE  FirstPicks[t] =
               IF t \in ListedTeams
               THEN [id |-> <<Seed, t>>, team |-> t, tag |-> None, crossed |-> FALSE, position |-> Position(t)]
               ELSE None
  <2>1. (\A i \in 1 .. Len(Listed) : Listed[i] # t) <=> t \notin ListedTeams
    BY DEF ListedTeams
  <2> QED BY <2>1 DEF FirstPicks, Position
<1>6. ASSUME NEW t \in ListedTeams PROVE FirstPicks[t] \in PickRow
  <2>1. <<Seed, t>> \in ({Seed} \cup Client) \X Team /\ t \in Team /\ Position(t) \in Nat
    BY <1>1, <1>2
  <2>2. FirstPicks[t] = [id |-> <<Seed, t>>, team |-> t, tag |-> None, crossed |-> FALSE, position |-> Position(t)]
    BY <1>1, <1>5
  <2> QED BY <2>1, <2>2 DEF PickRow
<1> QED BY <1>1, <1>2, <1>3, <1>4, <1>5, <1>6, NoneAssumption

LEMMA SeedDocIs ==
  /\ SeedDoc.gone = {}
  /\ SeedDoc.items = UNION {Sown(t) : t \in ListedTeams}
<1> DEFINE rows == {FirstPicks[t] : t \in Team} \ {None}
           Of(r) == NewPick(Empty, Seed, r.team, SeedKey[r.position], r.tag, r.crossed)
<1>1. SeedDoc.gone = {} /\ SeedDoc.items = UNION {Of(r) : r \in rows}
  BY DEF SeedDoc, FromEntries
<1>2. rows = {FirstPicks[t] : t \in ListedTeams}
  <2>1. \A t \in Team : FirstPicks[t] # None => t \in ListedTeams
    BY FirstRows
  <2>2. \A t \in ListedTeams : t \in Team /\ FirstPicks[t] # None
    BY FirstRows
  <2> QED BY <2>1, <2>2
<1>3. ASSUME NEW t \in ListedTeams PROVE Of(FirstPicks[t]) = Sown(t)
  <2> DEFINE r == FirstPicks[t]
  <2>1. r = [id |-> <<Seed, t>>, team |-> t, tag |-> None, crossed |-> FALSE, position |-> Position(t)]
    BY FirstRows
  <2>2. r.team = t /\ r.tag = None /\ r.crossed = FALSE /\ r.position = Position(t)
    BY <2>1
  <2> HIDE DEF r
  <2>3. Of(r) = Sown(t)
    BY <2>2 DEF Sown
  <2> QED BY <2>3 DEF r
<1> HIDE DEF rows, Of
<1>4. {Of(r) : r \in rows} = {Sown(t) : t \in ListedTeams}
  BY <1>2, <1>3
<1> QED BY <1>1, <1>4

LEMMA SownIs ==
  ASSUME NEW t \in ListedTeams
  PROVE  /\ t \in Team /\ KeyOK(SeedKey[Position(t)])
         /\ Picked(Empty, Seed, t, SeedKey[Position(t)], Sown(t))
         /\ \A i \in Sown(t) :
               /\ i \in AnyItem /\ i.name = <<Seed, i.reg>> /\ i.name # None /\ i.origin = None
               /\ i.reg[1] \in {"pick", "at", "crossed"}
               /\ i.reg[1] = "pick" => i.reg = Pick(t)
               /\ i.reg[1] # "pick" => i.reg[2] = <<Seed, Pick(t)>>
<1> DEFINE key == SeedKey[Position(t)]
<1>1. t \in Team /\ Position(t) \in Nat \ {0}
  BY FirstRows
<1>2. KeyOK(key) /\ key # <<>>
  BY <1>1, SeedKeysInOrder
<1>3. Picked(Empty, Seed, t, key, Sown(t))
  BY <1>1, <1>2, NewPickIs, EmptyIsGood DEF Sown, Writer
<1> HIDE DEF key
<1>4. OneClient(Seed, Sown(t)) /\ \A i \in Sown(t) : i.origin = None
  BY <1>3 DEF Picked, Empty
<1>5. \A i \in Sown(t) : i \in AnyItem /\ i.name = <<Seed, i.reg>> /\ i.name # None
  BY <1>4, ItemIs DEF OneClient
<1>6. ASSUME NEW i \in Sown(t)
      PROVE  i.reg = Pick(t) \/ i.reg = Field(<<Seed, Pick(t)>>, "at") \/ i.reg = Field(<<Seed, Pick(t)>>, "crossed")
  BY <1>3 DEF Picked
<1>7. ASSUME NEW i \in Sown(t)
      PROVE  /\ i.reg[1] \in {"pick", "at", "crossed"}
             /\ i.reg[1] = "pick" => i.reg = Pick(t)
             /\ i.reg[1] # "pick" => i.reg[2] = <<Seed, Pick(t)>>
  BY <1>6 DEF Pick, Field
<1> QED BY <1>1, <1>2, <1>3, <1>4, <1>5, <1>7 DEF key

LEMMA SeedDocIsGood ==
  /\ GoodDoc(SeedDoc) /\ FirstsAlone(SeedDoc.items)
  /\ \A i \in SeedDoc.items : i.name[1] = Seed /\ i.origin = None /\ i.reg[1] # "tag"
  /\ \A i, j \in SeedDoc.items : i.reg = j.reg => i = j
<1> DEFINE A == SeedDoc.items
<1>1. \A i \in A : \E t \in ListedTeams : i \in Sown(t)
  BY SeedDocIs
<1>2. \A t \in ListedTeams : \A i \in Sown(t) : i \in A
  BY SeedDocIs
<1> HIDE DEF A
<1>3. \A i \in A : /\ i \in AnyItem /\ i.name = <<Seed, i.reg>> /\ i.name # None /\ i.origin = None
                   /\ i.reg[1] # "tag" /\ i.name[1] = Seed
  BY <1>1, SownIs
<1>4. \A t \in ListedTeams : OneClient(Seed, Sown(t)) /\ Furnished(Sown(t))
  BY SownIs DEF Picked
<1>5. ASSUME NEW i \in A, NEW j \in A, i.reg = j.reg PROVE i = j
  <2>1. PICK t \in ListedTeams : i \in Sown(t)
    BY <1>1
  <2>2. PICK u \in ListedTeams : j \in Sown(u)
    BY <1>1
  <2>3. t = u
    <3>1. CASE i.reg[1] = "pick"
      <4>1. Pick(t) = Pick(u)
        BY <1>5, <2>1, <2>2, <3>1, SownIs
      <4> QED BY <4>1 DEF Pick
    <3>2. CASE i.reg[1] # "pick"
      <4>1. <<Seed, Pick(t)>> = <<Seed, Pick(u)>>
        BY <1>5, <2>1, <2>2, <3>2, SownIs
      <4> QED BY <4>1 DEF Pick
    <3> QED BY <3>1, <3>2
  <2> QED BY <1>4, <1>5, <2>1, <2>2, <2>3 DEF OneClient
<1>6. Orderly(A)
  <2>1. \A i \in A : i.name = <<i.name[1], i.reg>> /\ i.name[1] \in Nat
    BY <1>3 DEF Seed
  <2>2. \A i, j \in A : i.name = j.name => i = j
    <3> SUFFICES ASSUME NEW i \in A, NEW j \in A, i.name = j.name PROVE i = j
      OBVIOUS
    <3>1. <<Seed, i.reg>> = <<Seed, j.reg>>
      BY <1>3
    <3>2. i.reg = j.reg
      BY <3>1
    <3> QED BY <1>5, <3>2
  <2>3. ASSUME NEW T \in SUBSET A, T # {}
        PROVE  /\ \E i \in T : \A o \in T : o.name # i.origin
               /\ \E i \in T : \A s \in T : s.origin # i.name
               /\ \E i \in T : \A s \in T : s.name[1] <= i.name[1]
    <3>1. PICK i \in T : TRUE
      BY <2>3
    <3>2. \A o \in T : o.name # i.origin /\ o.origin # i.name /\ o.name[1] <= i.name[1]
      BY <1>3 DEF Seed
    <3> QED BY <3>2
  <2> QED BY <2>1, <2>2, <2>3 DEF Orderly
<1>7. Whole(A)
  BY <1>3 DEF Whole
<1>8. IdsOK(A) /\ KeysOK(A) /\ FirstsAlone(A)
  BY <1>1, <1>4 DEF OneClient, IdsOK, KeysOK, FirstsAlone
<1>9. Furnished(A)
  <2> SUFFICES ASSUME NEW i \in A, i.reg[1] = "pick", NEW f \in {"at", "crossed"}
               PROVE  \E j \in A : j.reg = Field(i.name, f)
    BY DEF Furnished
  <2>1. PICK t \in ListedTeams : i \in Sown(t)
    BY <1>1
  <2>2. PICK j \in Sown(t) : j.reg = Field(i.name, f)
    BY <1>4, <2>1 DEF Furnished
  <2> QED BY <1>2, <2>2
<1>10. SeedDoc \in Docs
  <2>1. SeedDoc = [items |-> SeedDoc.items, gone |-> SeedDoc.gone]
    BY DEF SeedDoc, FromEntries
  <2> QED BY <1>3, <2>1, SeedDocIs DEF Docs, A
<1> QED BY <1>3, <1>5, <1>6, <1>7, <1>8, <1>9, <1>10 DEF GoodDoc, A

\* It reads as the rows it was made from.
LEMMA SeedLast ==
  ASSUME NEW i \in SeedDoc.items
  PROVE  LastWrite(SeedDoc, i.reg) = i
<1> DEFINE reg == i.reg
<1>1. LastWrite(SeedDoc, reg) # None
  BY SeedDocIsGood, LastIs
<1>2. LastWrite(SeedDoc, reg) \in SeedDoc.items /\ LastWrite(SeedDoc, reg).reg = reg
  BY <1>1, SeedDocIsGood, LastIs
<1> QED BY <1>2, SeedDocIsGood

LEMMA SeedReads ==
  /\ DOMAIN Listing(SeedDoc) = ListedTeams
  /\ \A t \in ListedTeams :
        /\ Listing(SeedDoc)[t].id = <<Seed, t>> /\ Listing(SeedDoc)[t].at = SeedKey[Position(t)]
        /\ Listing(SeedDoc)[t].tag = None /\ Listing(SeedDoc)[t].crossed = FALSE
<1> DEFINE L == Listing(SeedDoc)
<1>1. ASSUME NEW t \in ListedTeams
      PROVE  /\ t \in DOMAIN L
             /\ L[t].id = <<Seed, t>> /\ L[t].at = SeedKey[Position(t)]
             /\ L[t].tag = None /\ L[t].crossed = FALSE
  <2> DEFINE key == SeedKey[Position(t)]
             n == <<Seed, Pick(t)>>
  <2>1. /\ t \in Team /\ Picked(Empty, Seed, t, key, Sown(t))
        /\ \A i \in Sown(t) : i \in SeedDoc.items /\ i.name = <<Seed, i.reg>>
    BY SownIs, SeedDocIs
  <2>2. PICK p, a, x \in Sown(t) :
          /\ p.reg = Pick(t) /\ a.reg = Field(n, "at") /\ a.val[2] = key
          /\ x.reg = Field(n, "crossed") /\ x.val[2] = FALSE
    BY <2>1 DEF Picked
  <2>3. /\ LastWrite(SeedDoc, Pick(t)) = p /\ LastWrite(SeedDoc, Field(n, "at")) = a
        /\ LastWrite(SeedDoc, Field(n, "crossed")) = x
    BY <2>1, <2>2, SeedLast
  <2>4. p # None /\ a # None /\ x # None /\ SeedDoc.gone = {}
    BY <2>1, SownIs, NoneAssumption, SeedDocIs
  <2>5. t \in DOMAIN L
    BY <2>1, <2>3, <2>4, SeedDocIsGood, OnTheList
  <2>6. p.name = n
    BY <2>1, <2>2
  <2>7. /\ L[t].id = <<p.name[1], t>> /\ L[t].at = Value(SeedDoc, Field(n, "at"), <<>>)
        /\ L[t].tag = Value(SeedDoc, Field(n, "tag"), None)
        /\ L[t].crossed = Value(SeedDoc, Field(n, "crossed"), FALSE)
    <3> DEFINE l == LastWrite(SeedDoc, Pick(t))
    <3>1. GoodDoc(SeedDoc)
      BY SeedDocIsGood
    <3>2. /\ L[t].id = <<l.name[1], t>> /\ L[t].at = Value(SeedDoc, Field(l.name, "at"), <<>>)
          /\ L[t].tag = Value(SeedDoc, Field(l.name, "tag"), None)
          /\ L[t].crossed = Value(SeedDoc, Field(l.name, "crossed"), FALSE)
      BY <2>5, <3>1, ListingIs
    <3> HIDE DEF L
    <3> QED BY <2>3, <2>6, <3>2
  <2>8. Value(SeedDoc, Field(n, "at"), <<>>) = key
    BY <2>2, <2>3, <2>4 DEF Value
  <2>9. ASSUME NEW v, v = FALSE PROVE Value(SeedDoc, Field(n, "crossed"), v) = x.val[2]
    BY <2>3, <2>4 DEF Value
  <2>10. Value(SeedDoc, Field(n, "crossed"), FALSE) = FALSE
    BY Zenon, <2>2, <2>9
  <2>11. Value(SeedDoc, Field(n, "tag"), None) = None
    <3> DEFINE reg == Field(n, "tag")
    <3>1. reg[1] = "tag"
      BY DEF Field
    <3> HIDE DEF reg
    <3>2. LastWrite(SeedDoc, reg) = None
      <4>1. ASSUME LastWrite(SeedDoc, reg) # None PROVE FALSE
        <5>1. LastWrite(SeedDoc, reg) \in SeedDoc.items /\ LastWrite(SeedDoc, reg).reg = reg
          BY <4>1, SeedDocIsGood, LastIs
        <5> QED BY <3>1, <5>1, SeedDocIsGood
      <4> QED BY <4>1
    <3>3. Value(SeedDoc, reg, None) = None
      BY <3>2 DEF Value
    <3> QED BY <3>3 DEF reg
  <2>12. p.name[1] = Seed
    BY <2>6
  <2> HIDE DEF L
  <2> QED BY <2>5, <2>7, <2>8, <2>10, <2>11, <2>12
<1>2. ASSUME NEW t \in DOMAIN L PROVE t \in ListedTeams
  <2>1. /\ LastWrite(SeedDoc, Pick(t)) \in SeedDoc.items
        /\ LastWrite(SeedDoc, Pick(t)).reg = Pick(t)
    BY SeedDocIsGood, ListingIs DEF PickIs
  <2>2. PICK u \in ListedTeams : LastWrite(SeedDoc, Pick(t)) \in Sown(u)
    BY <2>1, SeedDocIs
  <2>3. Pick(t) = Pick(u)
    <3>1. Pick(t)[1] = "pick"
      BY DEF Pick
    <3> QED BY <2>1, <2>2, <3>1, SownIs
  <2> QED BY <2>2, <2>3 DEF Pick
<1> QED BY <1>1, <1>2

LEMMA SeedPlaces ==
  ASSUME NEW t \in ListedTeams
  PROVE  Place(Listing(SeedDoc), t) = Position(t)
<1> DEFINE L == Listing(SeedDoc)
           p == Position(t)
           S == {u \in ListedTeams : Position(u) < p}
           f == [i \in 1 .. (p - 1) |-> Listed[i]]
<1>1. p \in 1 .. Len(Listed) /\ Len(Listed) \in Nat
  BY FirstRows
<1>2. ASSUME NEW u \in ListedTeams PROVE Above(L, u, t) <=> Position(u) < p
  <2> DEFINE q == Position(u)
  <2>1. q \in Nat /\ p \in Nat /\ Listed[q] = u /\ Listed[p] = t
    BY FirstRows
  <2>2. L[u].at = SeedKey[q] /\ L[t].at = SeedKey[p]
    BY SeedReads
  <2>3. u \in Nat /\ t \in Nat
    BY FirstRows, PickDocAssumption
  <2> HIDE DEF q, p, L
  <2>4. SeedKey[q] \in Seq(Nat) /\ SeedKey[p] \in Seq(Nat)
    BY <2>1, SeedKeysInOrder, KeysAreSeqs
  <2>5. q < p => Before(SeedKey[q], SeedKey[p])
    BY <2>1, SeedKeysInOrder
  <2>6. p < q => Before(SeedKey[p], SeedKey[q])
    BY <2>1, SeedKeysInOrder
  <2>7. ~ Before(SeedKey[p], SeedKey[p]) /\ ~ Before(SeedKey[q], SeedKey[q])
    BY <2>4, BeforeIrreflexive
  <2>8. ~ (Before(SeedKey[q], SeedKey[p]) /\ Before(SeedKey[p], SeedKey[q]))
    BY <2>4, <2>7, BeforeTransitive
  <2>9. q = p => u = t
    BY <2>1
  <2> QED BY <2>1, <2>2, <2>3, <2>5, <2>6, <2>7, <2>8, <2>9 DEF Above, q
<1>3. DOMAIN L = ListedTeams
  BY SeedReads
<1>4. {u \in DOMAIN L : Above(L, u, t)} = S
  BY <1>2, <1>3
<1>5. f \in Bijection(1 .. (p - 1), S)
  <2>1. \A i \in 1 .. (p - 1) : Listed[i] \in ListedTeams /\ Position(Listed[i]) = i
    BY <1>1, FirstRows
  <2>2. \A u \in ListedTeams : Position(u) \in Nat \ {0} /\ Listed[Position(u)] = u
    BY FirstRows
  <2> HIDE DEF p
  <2>3. f \in [1 .. (p - 1) -> S]
    BY <1>1, <2>1
  <2>4. \A i, j \in 1 .. (p - 1) : f[i] = f[j] => i = j
    BY <2>1
  <2>5. \A u \in S : \E i \in 1 .. (p - 1) : f[i] = u
    BY <1>1, <2>2
  <2> HIDE DEF f, S
  <2> QED BY <2>3, <2>4, <2>5, Fun_IsBij
<1>6. Cardinality(S) = p - 1
  <2>1. p - 1 \in Nat
    BY <1>1
  <2> HIDE DEF f, S, p
  <2> QED BY <1>5, <2>1, FS_CountingElements DEF ExistsBijection
<1>7. Place(L, t) = Cardinality(S) + 1
  BY <1>4 DEF Place
<1> HIDE DEF L, S, p
<1>8. p \in Nat
  BY <1>1
<1> QED BY <1>6, <1>7, <1>8 DEF L, p

\* The rows are the document's before it is first made.
LEMMA SeedRows ==
  ASSUME NEW t \in Team
  PROVE  FirstPicks[t] = IF t \in DOMAIN Listing(SeedDoc) THEN Row(Listing(SeedDoc), t) ELSE None
<1>1. CASE t \in ListedTeams
  BY <1>1, FirstRows, SeedReads, SeedPlaces DEF Row
<1>2. CASE t \notin ListedTeams
  BY <1>2, FirstRows, SeedReads
<1> QED BY <1>1, <1>2

-----------------------------------------------------------------------------
(* The changes made, and the copies that hold some of them.                 *)

\* The clients a change was made by, and all the items there ever were.
Making(mk) == {c \in Client : mk[c] # None}
Every(mk)  == SeedDoc.items \cup UNION {mk[c].update.items : c \in Making(mk)}

AllOK(mk) ==
    /\ mk \in [Client -> Changes \cup {None}]
    /\ \A c \in Making(mk) : ChangeOK(c, mk[c])
    /\ Orderly(Every(mk)) /\ Whole(Every(mk))

\* A copy holds the rows' items, or some of them, and of a change all or nothing.
CopyOK(D, mk) ==
    /\ D \in Docs /\ D.items \in SUBSET Every(mk) /\ Whole(D.items) /\ Furnished(D.items)
    /\ \A i \in D.items :
          i \in SeedDoc.items \/ \E c \in Making(mk) : i \in mk[c].update.items /\ Has(D, mk[c].update)
    /\ \A n \in D.gone : \E c \in Making(mk) : n \in mk[c].update.gone /\ Has(D, mk[c].update)

\* Every item is of a kind, well formed, and by the seed or a client that made a change.
LEMMA EveryIs ==
  ASSUME NEW mk, AllOK(mk)
  PROVE  /\ Every(mk) \in SUBSET AnyItem
         /\ IdsOK(Every(mk)) /\ KeysOK(Every(mk)) /\ FirstsAlone(Every(mk))
         /\ \A i \in Every(mk) : i.name[1] = Seed \/ i.name[1] \in Making(mk)
         /\ \A c \in Making(mk) : mk[c].update.items \in SUBSET Every(mk) /\ OneClient(c, mk[c].update.items)
<1>1. \A c \in Making(mk) : OneClient(c, mk[c].update.items)
  BY DEF AllOK, ChangeOK
<1>2. \A i \in Every(mk) : i \in SeedDoc.items \/ \E c \in Making(mk) : i \in mk[c].update.items
  BY DEF Every
<1>3. \A i \in SeedDoc.items : i \in AnyItem /\ i.name[1] = Seed
  BY SeedDocIsGood DEF GoodDoc, Docs
<1>4. IdsOK(SeedDoc.items) /\ KeysOK(SeedDoc.items) /\ FirstsAlone(SeedDoc.items)
  BY SeedDocIsGood DEF GoodDoc
<1>5. \A c \in Making(mk) : \A i \in mk[c].update.items : i \in AnyItem /\ i.name = <<c, i.reg>>
  BY <1>1 DEF OneClient
<1>6. \A c \in Making(mk) : \A i \in mk[c].update.items : i \in AnyItem /\ i.name[1] = c
  BY <1>5
<1>7. Every(mk) \in SUBSET AnyItem /\ \A i \in Every(mk) : i.name[1] = Seed \/ i.name[1] \in Making(mk)
  BY <1>2, <1>3, <1>6
<1>8. IdsOK(Every(mk)) /\ KeysOK(Every(mk)) /\ FirstsAlone(Every(mk))
  BY <1>1, <1>2, <1>4 DEF OneClient, IdsOK, KeysOK, FirstsAlone
<1>9. \A c \in Making(mk) : mk[c].update.items \in SUBSET Every(mk)
  BY DEF Every
<1> QED BY <1>1, <1>7, <1>8, <1>9

\* A copy reads as a list.
LEMMA CopyIsGood ==
  ASSUME NEW mk, AllOK(mk), NEW D, CopyOK(D, mk)
  PROVE  GoodDoc(D) /\ FirstsAlone(D.items)
<1>1. D \in Docs /\ D.items \in SUBSET Every(mk) /\ Whole(D.items) /\ Furnished(D.items)
  BY DEF CopyOK
<1>2. Orderly(D.items)
  BY <1>1, OrderlySubset DEF AllOK
<1>3. IdsOK(D.items) /\ KeysOK(D.items) /\ FirstsAlone(D.items)
  BY <1>1, EveryIs DEF IdsOK, KeysOK, FirstsAlone
<1> QED BY <1>1, <1>2, <1>3 DEF GoodDoc

LEMMA DocsAre ==
  /\ \A D \in Docs : D = [items |-> D.items, gone |-> D.gone]
  /\ \A D, E \in Docs : /\ Merge(D, E) \in Docs /\ Has(Merge(D, E), D) /\ Has(Merge(D, E), E)
                        /\ Merge(D, E).items = D.items \cup E.items /\ Merge(D, E).gone = D.gone \cup E.gone
  /\ \A D \in Docs : D # None
BY NoneAssumption DEF Docs, Merge, Has

\* A change that brings a pick brings its key and its cross with it.
LEMMA ChangeFurnished ==
  ASSUME NEW c, NEW m, ChangeOK(c, m)
  PROVE  /\ Furnished(m.update.items) /\ m.update \in Docs
         /\ m.op \in {"add", "remove", "move", "cross", "tag"} /\ m.team \in Team /\ m.id \in PickId /\ m # None
<1>1. m \in Changes
  BY DEF ChangeOK
<1>2. /\ m.update \in Docs /\ m.op \in {"add", "remove", "move", "cross", "tag"}
      /\ m.team \in Team /\ m.id \in PickId /\ m # None
  BY <1>1, NoneAssumption DEF Changes
<1> SUFFICES ASSUME NEW i \in m.update.items, i.reg[1] = "pick", NEW f \in {"at", "crossed"}
             PROVE  \E j \in m.update.items : j.reg = Field(i.name, f)
  BY <1>2 DEF Furnished
<1>3. Does(c, m)
  BY DEF ChangeOK
<1>4. ASSUME NEW g \in {"at", "crossed", "tag"}, WritesOne(m, g) PROVE FALSE
  <2>1. i.reg = Field(PickOf(m), g)
    BY <1>4 DEF WritesOne
  <2> QED BY <2>1 DEF Field
<1>5. m.op = "add"
  BY <1>2, <1>3, <1>4 DEF Does
<1>6. {j.reg : j \in m.update.items} = {Pick(m.team), Field(PickOf(m), "at"), Field(PickOf(m), "crossed")}
  BY <1>3, <1>5 DEF Does
<1>7. i.reg = Pick(m.team)
  <2>1. i.reg \in {Pick(m.team), Field(PickOf(m), "at"), Field(PickOf(m), "crossed")}
    BY <1>6
  <2> QED BY <2>1 DEF Field
<1>8. i.name = PickOf(m)
  <2>1. i.name = <<c, i.reg>>
    BY DEF ChangeOK, OneClient
  <2>2. m.id[1] = c
    BY <1>3, <1>5 DEF Does
  <2> QED BY <1>7, <2>1, <2>2 DEF PickOf
<1>9. Field(PickOf(m), f) \in {j.reg : j \in m.update.items}
  BY <1>6
<1> QED BY <1>8, <1>9

With(mk, c, m) == [mk EXCEPT ![c] = m]

\* A change of a new client goes on from a copy and leaves all in order.
LEMMA EveryGrows ==
  ASSUME NEW mk, AllOK(mk), NEW c \in Client, mk[c] = None, NEW m, ChangeOK(c, m),
         NEW D, CopyOK(D, mk), SeenIn(D, m.update)
  PROVE  /\ AllOK(With(mk, c, m)) /\ Making(With(mk, c, m)) = Making(mk) \cup {c}
         /\ With(mk, c, m)[c] = m /\ \A b \in Making(mk) : With(mk, c, m)[b] = mk[b]
         /\ Every(With(mk, c, m)) = Every(mk) \cup m.update.items
<1> DEFINE new == With(mk, c, m)
           B == m.update.items
<1>1. mk \in [Client -> Changes \cup {None}] /\ m \in Changes /\ m # None
  BY ChangeFurnished DEF AllOK, ChangeOK
<1>2. /\ new \in [Client -> Changes \cup {None}] /\ new[c] = m
      /\ Making(new) = Making(mk) \cup {c} /\ c \notin Making(mk) /\ \A b \in Making(mk) : new[b] = mk[b]
  BY <1>1 DEF Making, With
<1> HIDE DEF new
<1>3. Every(new) = Every(mk) \cup B
  BY <1>2 DEF Every
<1>4. \A b \in Making(new) : ChangeOK(b, new[b])
  BY <1>2 DEF AllOK
<1>5. Every(mk) \in SUBSET AnyItem /\ Orderly(Every(mk)) /\ Whole(Every(mk))
  BY EveryIs DEF AllOK
<1>6. c \in Nat /\ c # Seed
  BY PickListAssumption DEF Seed
<1>7. \A i \in Every(mk) : i.name[1] # c
  BY <1>2, <1>6, EveryIs
<1>8. OneClient(c, B)
  BY DEF ChangeOK
<1>9. \A i \in B : i.origin = None \/ \E o \in Every(mk) : o.name = i.origin /\ o.reg = i.reg
  BY DEF SeenIn, CopyOK
<1> HIDE DEF B
<1>10. Orderly(Every(mk) \cup B) /\ Whole(Every(mk) \cup B)
  BY <1>5, <1>6, <1>7, <1>8, <1>9, OrderlyGrows
<1> QED BY <1>2, <1>3, <1>4, <1>10 DEF AllOK, new, B

\* A copy is one still when more changes are made.
LEMMA CopyStays ==
  ASSUME NEW mk, NEW new, Making(mk) \in SUBSET Making(new), \A b \in Making(mk) : new[b] = mk[b],
         Every(mk) \in SUBSET Every(new), NEW D, CopyOK(D, mk)
  PROVE  CopyOK(D, new)
<1>1. D \in Docs /\ D.items \in SUBSET Every(new) /\ Whole(D.items) /\ Furnished(D.items)
  BY DEF CopyOK
<1>2. \A i \in D.items :
         i \in SeedDoc.items \/ \E c \in Making(new) : i \in new[c].update.items /\ Has(D, new[c].update)
  BY DEF CopyOK
<1>3. \A n \in D.gone : \E c \in Making(new) : n \in new[c].update.gone /\ Has(D, new[c].update)
  BY DEF CopyOK
<1> QED BY <1>1, <1>2, <1>3 DEF CopyOK

\* Two copies merge into one, however they overlap.
LEMMA CopiesMerge ==
  ASSUME NEW mk, NEW D, CopyOK(D, mk), NEW E, CopyOK(E, mk)
  PROVE  CopyOK(Merge(D, E), mk)
<1> DEFINE M == Merge(D, E)
<1>1. /\ D \in Docs /\ E \in Docs
      /\ M \in Docs /\ M.items = D.items \cup E.items /\ M.gone = D.gone \cup E.gone
  BY DocsAre DEF CopyOK
<1>2. \A U : Has(D, U) \/ Has(E, U) => Has(M, U)
  BY <1>1 DEF Has
<1> HIDE DEF M
<1>3. M.items \in SUBSET Every(mk) /\ Whole(M.items) /\ Furnished(M.items)
  BY <1>1 DEF CopyOK, Whole, Furnished
<1>4. \A i \in M.items :
         i \in SeedDoc.items \/ \E c \in Making(mk) : i \in mk[c].update.items /\ Has(M, mk[c].update)
  BY <1>1, <1>2 DEF CopyOK
<1>5. \A n \in M.gone : \E c \in Making(mk) : n \in mk[c].update.gone /\ Has(M, mk[c].update)
  BY <1>1, <1>2 DEF CopyOK
<1>6. CopyOK(M, mk)
  BY <1>1, <1>3, <1>4, <1>5 DEF CopyOK
<1> QED BY <1>6 DEF M

\* A copy takes a change that goes on from it.
LEMMA CopyTakes ==
  ASSUME NEW mk, AllOK(mk), NEW D, CopyOK(D, mk), NEW c \in Making(mk), SeenIn(D, mk[c].update)
  PROVE  CopyOK(Merge(D, mk[c].update), mk)
<1> DEFINE U == mk[c].update
           M == Merge(D, U)
<1>1. /\ D \in Docs /\ U \in Docs /\ Furnished(U.items) /\ U.items \in SUBSET Every(mk)
      /\ M \in Docs /\ M.items = D.items \cup U.items /\ M.gone = D.gone \cup U.gone
  <2>1. ChangeOK(c, mk[c])
    BY DEF AllOK
  <2>2. U \in Docs /\ Furnished(U.items)
    BY <2>1, ChangeFurnished
  <2> QED BY <2>2, DocsAre, EveryIs DEF CopyOK
<1>2. Has(M, U) /\ \A V : Has(D, V) => Has(M, V)
  BY <1>1 DEF Has
<1> HIDE DEF M
<1>3. M.items \in SUBSET Every(mk) /\ Furnished(M.items)
  BY <1>1 DEF CopyOK, Furnished
<1>4. Whole(M.items)
  BY <1>1 DEF CopyOK, Whole, SeenIn
<1>5. \A i \in M.items :
         i \in SeedDoc.items \/ \E b \in Making(mk) : i \in mk[b].update.items /\ Has(M, mk[b].update)
  BY <1>1, <1>2 DEF CopyOK
<1>6. \A n \in M.gone : \E b \in Making(mk) : n \in mk[b].update.gone /\ Has(M, mk[b].update)
  BY <1>1, <1>2 DEF CopyOK
<1>7. CopyOK(M, mk)
  BY <1>1, <1>3, <1>4, <1>5, <1>6 DEF CopyOK
<1> QED BY <1>7 DEF M

-----------------------------------------------------------------------------
(* What a merge on the Pi leaves. *)

\* The rows are what the document reads as, and a device's rows are the Pi's.
Reads(D, rows) ==
    \A t \in Team : rows[t] = IF t \in DOMAIN Listing(D) THEN Row(Listing(D), t) ELSE None

Mirrors(rows, table) == table = {rows[t] : t \in Team} \ {None}

\* A record id once deleted: its pick is gone, or another was written over it.
RetiredOK(D, ids) ==
    \A id \in ids : \E i \in D.items :
        /\ i.reg = Pick(id[2]) /\ i.val[2] = id
        /\ i.name \in D.gone \/ i # LastWrite(D, i.reg)

\* Rows that read as a list, each with its team and a record id of that team.
RowsOf(list, rows) == \A t \in Team : rows[t] = IF t \in DOMAIN list THEN Row(list, t) ELSE None
TeamsOwn(list) ==
    /\ DOMAIN list \in SUBSET Team
    /\ \A t \in DOMAIN list : Row(list, t) # None /\ list[t].id[2] = t

Left(rows, list) == [t \in Team |-> IF t \in Outdated(rows, list) THEN None ELSE rows[t]]
Deleted(rows, list) == {rows[t].id : t \in Outdated(rows, list)}
Altered(old, new) == {new[t] : t \in {u \in Team : new[u] # old[u]}}

LEMMA RowIs ==
  ASSUME NEW list, NEW t
  PROVE  /\ Row(list, t).id = list[t].id /\ Row(list, t).team = t
         /\ Row(list, t).tag = list[t].tag /\ Row(list, t).crossed = list[t].crossed
         /\ \A id : id = list[t].id => [Row(list, t) EXCEPT !.id = id] = Row(list, t)
BY DEF Row

\* The rows left, and upserted, are the new list.
LEMMA UpsertsRead ==
  ASSUME NEW old, TeamsOwn(old), NEW rows, RowsOf(old, rows), NEW list, TeamsOwn(list)
  PROVE  RowsOf(list, Upserted(Left(rows, list), list))
<1> DEFINE left == Left(rows, list)
           new == Upserted(left, list)
<1> SUFFICES ASSUME NEW t \in Team
             PROVE  new[t] = IF t \in DOMAIN list THEN Row(list, t) ELSE None
  BY DEF RowsOf
<1>1. left[t] = IF t \in Outdated(rows, list) THEN None ELSE rows[t]
  BY DEF Left
<1>2. t \in Outdated(rows, list) <=> rows[t] # None /\ (t \notin DOMAIN list \/ list[t].id # rows[t].id)
  BY DEF Outdated
<1> HIDE DEF left
<1>3. new[t] = IF t \notin DOMAIN list THEN left[t]
               ELSE IF left[t] = None THEN Row(list, t)
               ELSE [Row(list, t) EXCEPT !.id = left[t].id]
  BY DEF Upserted
<1>4. CASE t \notin DOMAIN list
  BY <1>1, <1>2, <1>3, <1>4
<1>5. CASE t \in DOMAIN list /\ left[t] = None
  BY <1>3, <1>5
<1>6. CASE t \in DOMAIN list /\ left[t] # None
  <2>1. left[t].id = list[t].id
    BY <1>1, <1>2, <1>6
  <2> QED BY <1>3, <1>6, <2>1, RowIs
<1> QED BY <1>4, <1>5, <1>6

\* A device that pulls the deletes and the altered rows has the rows of the Pi.
LEMMA DeviceFollows ==
  ASSUME NEW old, TeamsOwn(old), NEW rows, RowsOf(old, rows), NEW list, TeamsOwn(list),
         NEW new, RowsOf(list, new), NEW table, Mirrors(rows, table)
  PROVE  Mirrors(new, Pulled(table, Deleted(rows, list), Altered(Left(rows, list), new)))
<1> DEFINE left == Left(rows, list)
           out == Outdated(rows, list)
           kept1 == {x \in table : x.id \notin Deleted(rows, list)}
           some == Altered(left, new)
           after == Pulled(table, Deleted(rows, list), some)
<1>1. \A t \in Team : rows[t] # None => rows[t].team = t /\ rows[t].id[2] = t
  BY RowIs DEF RowsOf, TeamsOwn
<1>2. \A t \in Team : new[t] # None => new[t].team = t /\ new[t].id[2] = t /\ t \in DOMAIN list
  BY RowIs DEF RowsOf, TeamsOwn
<1>3. \A t \in Team : left[t] = IF t \in out THEN None ELSE rows[t]
  BY DEF Left
<1>4. \A t \in Team : t \in out <=> rows[t] # None /\ (t \notin DOMAIN list \/ list[t].id # rows[t].id)
  BY DEF Outdated
<1>5. \A x : x \in Deleted(rows, list) <=> \E t \in out : x = rows[t].id
  BY DEF Deleted
<1>6. \A t \in out : t \in Team /\ rows[t] # None
  BY DEF Outdated
<1>7. \A x : x \in table <=> x # None /\ \E t \in Team : x = rows[t]
  BY DEF Mirrors
<1>8. \A x : x \in kept1 <=> x \in table /\ x.id \notin Deleted(rows, list)
  OBVIOUS
<1>9. \A x : x \in some <=> \E t \in Team : new[t] # left[t] /\ x = new[t]
  BY DEF Altered
<1>10. \A x : x \in after <=> (x \in kept1 /\ \A y \in some : x.id # y.id /\ x.team # y.team) \/ x \in some
  BY DEF Pulled, ApplyUpserts
<1> HIDE DEF left, out, kept1, some, after
<1>11. \A x : x \in kept1 <=> \E t \in Team : left[t] # None /\ x = left[t]
  <2>1. ASSUME NEW x \in kept1 PROVE \E t \in Team : left[t] # None /\ x = left[t]
    <3>1. PICK t \in Team : x = rows[t] /\ x # None /\ x.id \notin Deleted(rows, list)
      BY <1>7, <1>8, <2>1
    <3>2. t \notin out
      BY <1>5, <3>1
    <3> QED BY <1>3, <3>1, <3>2
  <2>2. ASSUME NEW t \in Team, left[t] # None PROVE left[t] \in kept1
    <3>1. t \notin out /\ left[t] = rows[t]
      BY <1>3, <2>2
    <3>2. rows[t] \in table
      BY <1>7, <2>2, <3>1
    <3>3. ASSUME NEW u \in out, rows[t].id = rows[u].id PROVE FALSE
      <4>1. t = u
        BY <1>1, <1>6, <2>2, <3>1, <3>3
      <4> QED BY <3>1, <4>1
    <3> QED BY <1>5, <1>8, <3>1, <3>2, <3>3
  <2> QED BY <2>1, <2>2
\* A row that is altered is not taken away, and never None.
<1>12. \A t \in Team : left[t] # None => left[t] = rows[t] /\ t \in DOMAIN list
  BY <1>3, <1>4
<1>13. \A t \in Team : new[t] # left[t] => new[t] # None
  BY <1>12 DEF RowsOf, TeamsOwn
<1>14. ASSUME NEW x \in after PROVE x # None /\ \E t \in Team : x = new[t]
  <2>1. CASE x \in some
    BY <1>9, <1>13, <2>1
  <2>2. CASE x \in kept1 /\ \A y \in some : x.id # y.id /\ x.team # y.team
    <3>1. PICK t \in Team : left[t] # None /\ x = left[t]
      BY <1>11, <2>2
    <3>2. x.team = t
      BY <1>1, <1>12, <3>1
    <3>3. CASE new[t] # left[t]
      <4>1. new[t] \in some /\ new[t].team = t
        BY <1>2, <1>9, <1>13, <3>3
      <4> QED BY <2>2, <3>2, <4>1
    <3> QED BY <3>1, <3>3
  <2> QED BY <1>10, <1>14, <2>1, <2>2
<1>15. ASSUME NEW t \in Team, new[t] # None PROVE new[t] \in after
  <2>1. CASE new[t] # left[t]
    BY <1>9, <1>10, <2>1
  <2>2. CASE new[t] = left[t]
    <3>1. new[t] \in kept1
      BY <1>11, <1>15, <2>2
    <3>2. ASSUME NEW y \in some PROVE new[t].id # y.id /\ new[t].team # y.team
      <4>1. PICK u \in Team : new[u] # left[u] /\ y = new[u]
        BY <1>9
      <4>2. new[u] # None /\ u # t
        BY <1>13, <2>2, <4>1
      <4> QED BY <1>2, <1>15, <4>1, <4>2
    <3> QED BY <1>10, <3>1, <3>2
  <2> QED BY <2>1, <2>2
<1>16. after = {new[t] : t \in Team} \ {None}
  BY <1>14, <1>15
<1> QED BY <1>16 DEF Mirrors, after, some, left

LEMMA ListingOwn ==
  ASSUME NEW D, GoodDoc(D)
  PROVE  TeamsOwn(Listing(D)) /\ \A rows : Reads(D, rows) <=> RowsOf(Listing(D), rows)
<1>1. DOMAIN Listing(D) \in SUBSET Team
  BY DEF Listing
<1>2. \A t \in DOMAIN Listing(D) : Row(Listing(D), t) # None
  BY ListingOK
<1>3. ASSUME NEW t \in DOMAIN Listing(D) PROVE Listing(D)[t].id[2] = t
  BY ListedPick DEF OnBy
<1> QED BY <1>1, <1>2, <1>3 DEF TeamsOwn, Reads, RowsOf

\* A record id that is deleted stays off: the item it was written by stays over-
\* written, or gone.
LEMMA RetiredGrows ==
  ASSUME NEW D, GoodDoc(D), NEW M, GoodDoc(M), Has(M, D), NEW ids, RetiredOK(D, ids),
         NEW rows, Reads(D, rows)
  PROVE  RetiredOK(M, ids \cup Deleted(rows, Listing(M)))
<1>1. D.items \in SUBSET M.items /\ D.gone \in SUBSET M.gone
  BY DEF Has
<1>2. Orderly(M.items) /\ Whole(M.items) /\ Orderly(D.items) /\ Whole(D.items)
  BY DEF GoodDoc
\* The last write there is was the last there was.
<1>3. ASSUME NEW i \in D.items, i = LastWrite(M, i.reg) PROVE i = LastWrite(D, i.reg)
  <2> DEFINE S == Writes(D, i.reg)
             S2 == Writes(M, i.reg)
  <2>1. S \in SUBSET S2 /\ i \in S /\ i \in S2 /\ S2 \in SUBSET M.items
    BY <1>1 DEF Writes
  <2>2. Whole(S)
    BY <1>2 DEF Whole, Writes
  <2>3. Orderly(S2)
    BY <1>2, <2>1, OrderlySubset
  <2>4. Ends(S2, i)
    BY <1>2, <1>3, <2>1, LastWriteIs
  <2>5. Ends(S, i)
    BY <2>1, <2>2, <2>3, <2>4, EndedBefore
  <2> QED BY <1>2, <2>1, <2>5, LastWriteIs
<1>4. ASSUME NEW id \in ids
      PROVE  \E i \in M.items : /\ i.reg = Pick(id[2]) /\ i.val[2] = id
                                /\ i.name \in M.gone \/ i # LastWrite(M, i.reg)
  <2>1. PICK i \in D.items : /\ i.reg = Pick(id[2]) /\ i.val[2] = id
                             /\ i.name \in D.gone \/ i # LastWrite(D, i.reg)
    BY DEF RetiredOK
  <2> QED BY <1>1, <1>3, <2>1
<1>5. ASSUME NEW t \in Outdated(rows, Listing(M))
      PROVE  \E i \in M.items : /\ i.reg = Pick(rows[t].id[2]) /\ i.val[2] = rows[t].id
                                /\ i.name \in M.gone \/ i # LastWrite(M, i.reg)
  <2> DEFINE i == LastWrite(D, Pick(t))
             id == rows[t].id
  <2>1. t \in Team /\ rows[t] # None /\ (t \notin DOMAIN Listing(M) \/ Listing(M)[t].id # rows[t].id)
    BY DEF Outdated
  <2>2. t \in DOMAIN Listing(D) /\ id = Listing(D)[t].id
    BY <2>1, RowIs DEF Reads
  <2>3. OnBy(D, t, i, id) /\ PickIs(D, t, i) /\ Listing(D)[t].id = i.val[2]
    BY <2>2, ListedPick, ListingIs
  <2> HIDE DEF i
  <2>4. i \in M.items /\ i.reg = Pick(t) /\ id[2] = t /\ i.val[2] = id /\ i # None
    <3>1. i \in AnyItem
      BY <2>3 DEF PickIs
    <3> QED BY <1>1, <2>2, <2>3, <3>1, ItemIs DEF OnBy
  <2>5. ASSUME i = LastWrite(M, Pick(t)), i.name \notin M.gone PROVE FALSE
    <3>1. t \in DOMAIN Listing(M)
      BY <2>1, <2>4, <2>5, OnTheList
    <3>2. Listing(M)[t].id = i.val[2]
      BY <2>5, <3>1, ListingIs
    <3> QED BY <2>1, <2>4, <3>1, <3>2
  <2> QED BY <2>4, <2>5
<1> QED BY <1>4, <1>5 DEF RetiredOK, Deleted

-----------------------------------------------------------------------------
(* The inductive invariant. *)

\* The document there is, or the one the rows make.
Stored == IF doc = None THEN SeedDoc ELSE doc

\* The copies that are kept.
KeptOK(copies, mk) ==
    /\ copies \in [Kept -> Docs \cup {None}]
    /\ \A k \in Kept : copies[k] # None => CopyOK(copies[k], mk)

\* A change not yet merged goes on from what the document has.
LeadsOK(D, who, mk) ==
    /\ who \in [Lead -> Client \cup {None}]
    /\ \A l \in Lead : who[l] # None => who[l] \in Making(mk) /\ SeenIn(D, mk[who[l]].update)

\* The document is the rows' and what landed, and no more.
LandedOK(D, mk, who) ==
    /\ who \in SUBSET Making(mk)
    /\ \A c \in who : Has(D, mk[c].update)
    /\ \A i \in D.items : i \in SeedDoc.items \/ \E c \in who : i \in mk[c].update.items
    /\ \A n \in D.gone : \E c \in who : n \in mk[c].update.gone

PickInv ==
    /\ AllOK(made) /\ CopyOK(Stored, made) /\ KeptOK(kept, made)
    /\ LeadsOK(Stored, lead, made) /\ LandedOK(Stored, made, landed)
    /\ Reads(Stored, picks) /\ Mirrors(picks, mirror) /\ RetiredOK(Stored, retired)

LEMMA SeedCopy ==
  ASSUME NEW mk
  PROVE  CopyOK(SeedDoc, mk)
<1>1. SeedDoc \in Docs /\ Whole(SeedDoc.items) /\ Furnished(SeedDoc.items) /\ SeedDoc.gone = {}
  BY SeedDocIsGood, SeedDocIs DEF GoodDoc
<1>2. SeedDoc.items \in SUBSET Every(mk)
  BY DEF Every
<1> QED BY <1>1, <1>2 DEF CopyOK

LEMMA StoredIs ==
  ASSUME CopyOK(Stored, made), Reads(Stored, picks)
  PROVE  /\ StoredDoc = Stored /\ Stored \in Docs /\ Stored # None
         /\ doc \in Docs \cup {None}
<1>1. Stored \in Docs /\ Stored # None
  BY DocsAre DEF CopyOK
<1>2. doc \in Docs \cup {None}
  BY <1>1 DEF Stored
<1>3. CASE doc # None
  BY <1>1, <1>2, <1>3 DEF Stored, StoredDoc
<1>4. CASE doc = None
  <2>1. Stored = SeedDoc
    BY <1>4 DEF Stored
  <2>2. \A t \in Team : picks[t] = FirstPicks[t]
    BY <2>1, SeedRows DEF Reads
  <2>3. {picks[t] : t \in Team} = {FirstPicks[t] : t \in Team}
    BY <2>2
  <2>4. StoredDoc = SeedDoc
    BY <1>4, <2>3 DEF StoredDoc, SeedDoc
  <2> QED BY <1>1, <1>2, <2>1, <2>4
<1> QED BY <1>3, <1>4

LEMMA InitHolds ==
  ASSUME PickInit
  PROVE  PickInv
<1>1. Stored = SeedDoc
  BY DEF PickInit, Stored
<1>2. /\ picks = FirstPicks /\ mirror = {picks[t] : t \in Team} \ {None} /\ retired = {}
      /\ lead = [l \in Lead |-> None] /\ kept = [k \in Kept |-> None]
      /\ made = [c \in Client |-> None] /\ landed = {}
  BY DEF PickInit
<1>3. Making(made) = {}
  BY <1>2 DEF Making
<1>4. Every(made) = SeedDoc.items
  BY <1>3 DEF Every
<1>5. AllOK(made)
  BY <1>2, <1>3, <1>4, SeedDocIsGood DEF AllOK, GoodDoc
<1>6. CopyOK(Stored, made)
  BY <1>1, SeedCopy
<1>7. KeptOK(kept, made)
  BY <1>2 DEF KeptOK
<1>8. LeadsOK(Stored, lead, made)
  BY <1>2 DEF LeadsOK
<1>9. LandedOK(Stored, made, landed)
  BY <1>1, <1>2, SeedDocIs DEF LandedOK
<1>10. Reads(Stored, picks)
  BY <1>1, <1>2, SeedRows DEF Reads
<1>11. Mirrors(picks, mirror) /\ RetiredOK(Stored, retired)
  BY <1>2 DEF Mirrors, RetiredOK
<1> QED BY <1>5, <1>6, <1>7, <1>8, <1>9, <1>10, <1>11 DEF PickInv

\* After a merge, of whatever leaves a good document, the rows read as it does.
LEMMA MergeHolds ==
  ASSUME PickInv, NEW U \in Docs, MergePickList(StoredDoc, U), GoodDoc(Merge(Stored, U))
  PROVE  /\ Stored' = Merge(Stored, U) /\ Has(Merge(Stored, U), Stored) /\ Has(Merge(Stored, U), U)
         /\ Reads(Merge(Stored, U), picks') /\ Mirrors(picks', mirror')
         /\ RetiredOK(Merge(Stored, U), retired')
<1> DEFINE D == Stored
           M == Merge(D, U)
           list == Listing(M)
<1>1. /\ AllOK(made) /\ CopyOK(D, made) /\ Reads(D, picks) /\ Mirrors(picks, mirror)
      /\ RetiredOK(D, retired) /\ GoodDoc(D) /\ GoodDoc(M)
  BY CopyIsGood DEF PickInv
<1>2. StoredDoc = D /\ D \in Docs
  BY <1>1, StoredIs
<1>3. M \in Docs /\ M # None /\ Has(M, D) /\ Has(M, U)
  BY <1>2, DocsAre
<1>4. /\ doc' = M /\ picks' = Upserted(Left(picks, list), list)
      /\ mirror' = Pulled(mirror, Deleted(picks, list), Altered(Left(picks, list), picks'))
      /\ retired' = retired \cup Deleted(picks, list)
  BY <1>2 DEF MergePickList, Left, Deleted, Altered
<1>5. Stored' = M
  BY <1>3, <1>4 DEF Stored
<1> HIDE DEF M, D
<1>6. /\ TeamsOwn(list) /\ TeamsOwn(Listing(D)) /\ RowsOf(Listing(D), picks)
      /\ (RowsOf(list, picks') => Reads(M, picks'))
  BY <1>1, ListingOwn
<1> HIDE DEF list
<1>7. RowsOf(list, picks')
  BY <1>4, <1>6, UpsertsRead
<1>8. Mirrors(picks', mirror')
  BY <1>1, <1>4, <1>6, <1>7, DeviceFollows
<1>9. RetiredOK(M, retired')
  BY <1>1, <1>3, <1>4, RetiredGrows DEF list
<1> QED BY <1>3, <1>5, <1>6, <1>7, <1>8, <1>9 DEF M, D

\* What went on from the document goes on from it as it grows.
LEMMA SeenStays ==
  ASSUME NEW D, NEW M, Has(M, D), NEW U, SeenIn(D, U)
  PROVE  SeenIn(M, U)
BY DEF Has, SeenIn

LEMMA LeadsStay ==
  ASSUME NEW D, NEW who, NEW mk, LeadsOK(D, who, mk), NEW M, Has(M, D)
  PROVE  LeadsOK(M, who, mk)
BY SeenStays DEF LeadsOK

LEMMA SaveHolds ==
  ASSUME PickInv, NEW l \in Lead, Save(l)
  PROVE  PickInv'
<1> DEFINE c == lead[l]
           U == made[c].update
           D == Stored
           M == Merge(D, U)
<1>1. /\ AllOK(made) /\ CopyOK(D, made) /\ KeptOK(kept, made)
      /\ LeadsOK(D, lead, made) /\ LandedOK(D, made, landed)
  BY DEF PickInv
<1>2. /\ lead[l] # None /\ MergePickList(StoredDoc, U) /\ lead' = [lead EXCEPT ![l] = None]
      /\ landed' = landed \cup {c} /\ kept' = kept /\ made' = made
  BY DEF Save
<1>3. c \in Making(made) /\ SeenIn(D, U)
  BY <1>1, <1>2 DEF LeadsOK
<1>4. CopyOK(M, made) /\ GoodDoc(M) /\ U \in Docs
  <2>1. CopyOK(M, made)
    BY <1>1, <1>3, CopyTakes
  <2>2. U \in Docs
    BY <1>1, <1>3, ChangeFurnished DEF AllOK
  <2> QED BY <1>1, <2>1, <2>2, CopyIsGood
<1>5. /\ Stored' = M /\ Has(M, D) /\ Has(M, U)
      /\ Reads(M, picks') /\ Mirrors(picks', mirror') /\ RetiredOK(M, retired')
  BY <1>2, <1>4, MergeHolds
<1>6. M.items = D.items \cup U.items /\ M.gone = D.gone \cup U.gone
  BY DEF Merge
<1> HIDE DEF M, D
<1>7. LeadsOK(M, lead', made)
  <2>1. LeadsOK(M, lead, made)
    BY <1>1, <1>5, LeadsStay
  <2> QED BY <1>2, <2>1 DEF LeadsOK
<1>8. LandedOK(M, made, landed')
  <2>1. landed' \in SUBSET Making(made)
    BY <1>1, <1>2, <1>3 DEF LandedOK
  <2>2. \A b \in landed' : Has(M, made[b].update)
    BY <1>1, <1>2, <1>5 DEF LandedOK, Has
  <2>3. \A i \in M.items : i \in SeedDoc.items \/ \E b \in landed' : i \in made[b].update.items
    BY <1>1, <1>2, <1>6 DEF LandedOK
  <2>4. \A n \in M.gone : \E b \in landed' : n \in made[b].update.gone
    BY <1>1, <1>2, <1>6 DEF LandedOK
  <2> QED BY <2>1, <2>2, <2>3, <2>4 DEF LandedOK
<1> QED BY <1>1, <1>2, <1>4, <1>5, <1>7, <1>8 DEF PickInv

LEMMA NotSavedHolds ==
  ASSUME PickInv, NEW l \in Lead, NotSaved(l)
  PROVE  PickInv'
<1>1. /\ lead' = [lead EXCEPT ![l] = None] /\ doc' = doc /\ picks' = picks /\ mirror' = mirror
      /\ retired' = retired /\ kept' = kept /\ made' = made /\ landed' = landed
  BY DEF NotSaved
<1>2. Stored' = Stored
  BY <1>1 DEF Stored
<1>3. LeadsOK(Stored, lead', made)
  BY <1>1 DEF PickInv, LeadsOK
<1> QED BY <1>1, <1>2, <1>3 DEF PickInv

\* Who reads the document stores it: what it is does not change.
LEMMA ReadHolds ==
  ASSUME PickInv, doc' = StoredDoc
  PROVE  Stored' = Stored /\ StoredDoc = Stored
BY StoredIs DEF PickInv, Stored

\* A new change, whichever copy it goes on from, disturbs nothing there is.
LEMMA NewChange ==
  ASSUME PickInv, NEW c \in Client, made[c] = None, NEW m, ChangeOK(c, m),
         NEW D, CopyOK(D, made), SeenIn(D, m.update), made' = With(made, c, m)
  PROVE  /\ AllOK(made') /\ CopyOK(Stored, made') /\ KeptOK(kept, made')
         /\ LeadsOK(Stored, lead, made') /\ LandedOK(Stored, made', landed)
         /\ c \in Making(made') /\ made'[c] = m /\ \A E : CopyOK(E, made) => CopyOK(E, made')
<1>1. /\ AllOK(made) /\ CopyOK(Stored, made) /\ KeptOK(kept, made)
      /\ LeadsOK(Stored, lead, made) /\ LandedOK(Stored, made, landed)
  BY DEF PickInv
<1>2. /\ AllOK(made') /\ Making(made') = Making(made) \cup {c} /\ made'[c] = m
      /\ \A b \in Making(made) : made'[b] = made[b]
      /\ Every(made') = Every(made) \cup m.update.items
  BY <1>1, EveryGrows
<1>3. ASSUME NEW E, CopyOK(E, made) PROVE CopyOK(E, made')
  <2>1. Making(made) \in SUBSET Making(made') /\ Every(made) \in SUBSET Every(made')
    BY <1>2
  <2> QED BY <1>2, <1>3, <2>1, CopyStays
<1>4. KeptOK(kept, made')
  BY <1>1, <1>3 DEF KeptOK
<1>5. LeadsOK(Stored, lead, made')
  BY <1>1, <1>2 DEF LeadsOK
<1>6. LandedOK(Stored, made', landed)
  BY <1>1, <1>2 DEF LandedOK
<1> QED BY <1>1, <1>2, <1>3, <1>4, <1>5, <1>6

LEMMA BeginHolds ==
  ASSUME PickInv, NEW l \in Lead, NEW c \in Client, NEW e, EditOK(e), Begin(l, c, e)
  PROVE  PickInv'
<1> DEFINE U == Apply(StoredDoc, c, e, Roster)
           m == Made(StoredDoc, c, e, U)
<1>1. /\ made[c] = None /\ doc' = StoredDoc /\ picks' = picks /\ mirror' = mirror
      /\ retired' = retired /\ kept' = kept /\ landed' = landed
      /\ U = None => lead' = lead /\ made' = made
      /\ U # None => lead' = [lead EXCEPT ![l] = c] /\ made' = [made EXCEPT ![c] = m]
  BY DEF Begin
<1>2. Stored' = Stored /\ StoredDoc = Stored
  BY <1>1, ReadHolds
<1>3. CASE U = None
  BY <1>1, <1>2, <1>3 DEF PickInv
<1>4. CASE U # None
  <2>1. AllOK(made) /\ CopyOK(Stored, made) /\ GoodDoc(Stored)
    BY CopyIsGood DEF PickInv
  <2>2. ChangeIs(Stored, c, e, U)
    BY <1>2, <1>4, <2>1, ApplyIs
  <2>3. ChangeOK(c, m) /\ SeenIn(Stored, U)
    BY <1>2, <2>2 DEF ChangeIs
  <2>4. m.update = U
    BY DEF Made
  <2> HIDE DEF m, U
  <2>5. /\ AllOK(made') /\ CopyOK(Stored, made') /\ KeptOK(kept, made')
        /\ LeadsOK(Stored, lead, made') /\ LandedOK(Stored, made', landed)
        /\ c \in Making(made') /\ made'[c] = m
    <3>1. made' = With(made, c, m)
      BY <1>1, <1>4 DEF With
    <3> QED BY <1>1, <2>1, <2>3, <2>4, <3>1, NewChange
  <2>6. LeadsOK(Stored, lead', made')
    BY <1>1, <1>4, <2>3, <2>4, <2>5 DEF LeadsOK
  <2> QED BY <1>1, <1>2, <2>5, <2>6 DEF PickInv
<1> QED BY <1>3, <1>4

LEMMA AmendHolds ==
  ASSUME PickInv, NEW k \in Kept, NEW c \in Client, NEW e, EditOK(e), Amend(k, c, e)
  PROVE  PickInv'
<1> DEFINE D == kept[k]
           U == Apply(D, c, e, Roster)
           m == Made(D, c, e, U)
<1>1. /\ D # None /\ made[c] = None /\ U # None
      /\ kept' = [kept EXCEPT ![k] = Merge(D, U)] /\ made' = [made EXCEPT ![c] = m]
      /\ doc' = doc /\ picks' = picks /\ mirror' = mirror /\ retired' = retired
      /\ lead' = lead /\ landed' = landed
  BY DEF Amend
<1>2. Stored' = Stored
  BY <1>1 DEF Stored
<1>3. AllOK(made) /\ CopyOK(D, made) /\ GoodDoc(D) /\ KeptOK(kept, made)
  BY <1>1, CopyIsGood DEF PickInv, KeptOK
<1>4. ChangeOK(c, m) /\ SeenIn(D, U)
  <2>1. ChangeIs(D, c, e, U)
    BY <1>1, <1>3, ApplyIs
  <2> QED BY <2>1 DEF ChangeIs
<1>5. m.update = U
  BY DEF Made
<1> HIDE DEF m, U
<1>6. /\ AllOK(made') /\ CopyOK(Stored, made') /\ KeptOK(kept, made')
      /\ LeadsOK(Stored, lead, made') /\ LandedOK(Stored, made', landed)
      /\ c \in Making(made') /\ made'[c] = m /\ CopyOK(D, made')
  <2>1. made' = With(made, c, m)
    BY <1>1 DEF With
  <2> QED BY <1>1, <1>3, <1>4, <1>5, <2>1, NewChange
<1>7. CopyOK(Merge(D, U), made')
  BY <1>4, <1>5, <1>6, CopyTakes
<1>8. KeptOK(kept', made')
  BY <1>1, <1>6, <1>7 DEF KeptOK, CopyOK
<1> QED BY <1>1, <1>2, <1>6, <1>8 DEF PickInv

LEMMA FetchHolds ==
  ASSUME PickInv, NEW k \in Kept, Fetch(k)
  PROVE  PickInv'
<1> DEFINE D == IF kept[k] = None THEN Stored ELSE Merge(kept[k], Stored)
<1>1. /\ doc' = StoredDoc /\ picks' = picks /\ mirror' = mirror /\ retired' = retired
      /\ lead' = lead /\ made' = made /\ landed' = landed
      /\ kept' = [kept EXCEPT ![k] = IF @ = None THEN StoredDoc ELSE Merge(@, StoredDoc)]
  BY DEF Fetch
<1>2. Stored' = Stored /\ StoredDoc = Stored
  BY <1>1, ReadHolds
<1>3. kept' = [kept EXCEPT ![k] = D]
  BY <1>1, <1>2
<1>4. CopyOK(Stored, made) /\ KeptOK(kept, made)
  BY DEF PickInv
<1>5. CopyOK(D, made)
  BY <1>4, CopiesMerge DEF KeptOK
<1> HIDE DEF D
<1>6. KeptOK(kept', made)
  BY <1>3, <1>4, <1>5 DEF KeptOK, CopyOK
<1> QED BY <1>1, <1>2, <1>6 DEF PickInv

LEMMA PostHolds ==
  ASSUME PickInv, NEW k \in Kept, Post(k)
  PROVE  PickInv'
<1> DEFINE U == kept[k]
           D == Stored
           M == Merge(D, U)
<1>1. /\ AllOK(made) /\ CopyOK(D, made) /\ KeptOK(kept, made)
      /\ LeadsOK(D, lead, made) /\ LandedOK(D, made, landed)
  BY DEF PickInv
<1>2. /\ U # None /\ MergePickList(StoredDoc, U) /\ lead' = lead /\ kept' = kept /\ made' = made
      /\ landed' = landed \cup {c \in Client : made[c] # None /\ Has(U, made[c].update)}
  BY DEF Post
<1>3. CopyOK(U, made) /\ U \in Docs
  BY <1>1, <1>2 DEF KeptOK, CopyOK
<1>4. CopyOK(M, made) /\ GoodDoc(M)
  BY <1>1, <1>3, CopiesMerge, CopyIsGood
<1>5. /\ Stored' = M /\ Has(M, D) /\ Has(M, U)
      /\ Reads(M, picks') /\ Mirrors(picks', mirror') /\ RetiredOK(M, retired')
  BY <1>2, <1>3, <1>4, MergeHolds
<1>6. M.items = D.items \cup U.items /\ M.gone = D.gone \cup U.gone
  BY DEF Merge
<1> HIDE DEF M, D, U
<1>7. LeadsOK(M, lead', made)
  BY <1>1, <1>2, <1>5, LeadsStay
<1>8. LandedOK(M, made, landed')
  <2>1. landed' \in SUBSET Making(made)
    BY <1>1, <1>2 DEF LandedOK, Making
  <2>2. \A c \in landed' : Has(M, made[c].update)
    BY <1>1, <1>2, <1>5 DEF LandedOK, Has
  <2>3. \A c \in Making(made) : Has(U, made[c].update) => c \in landed'
    BY <1>2 DEF Making
  <2>4. \A i \in M.items : i \in SeedDoc.items \/ \E c \in landed' : i \in made[c].update.items
    BY <1>1, <1>2, <1>3, <1>6, <2>3 DEF LandedOK, CopyOK
  <2>5. \A n \in M.gone : \E c \in landed' : n \in made[c].update.gone
    BY <1>1, <1>2, <1>3, <1>6, <2>3 DEF LandedOK, CopyOK
  <2> QED BY <2>1, <2>2, <2>4, <2>5 DEF LandedOK
<1> QED BY <1>1, <1>2, <1>4, <1>5, <1>7, <1>8 DEF PickInv

LEMMA StutterHolds ==
  ASSUME PickInv, UNCHANGED pickVars
  PROVE  PickInv'
<1>1. /\ doc' = doc /\ picks' = picks /\ mirror' = mirror /\ retired' = retired
      /\ lead' = lead /\ kept' = kept /\ made' = made /\ landed' = landed
  BY DEF pickVars
<1>2. Stored' = Stored
  BY <1>1 DEF Stored
<1> QED BY <1>1, <1>2 DEF PickInv

\* PickInv holds throughout: what there is of the list, on the Pi and in the
\* copies, is the rows it began as and changes made through picklist.rs.
THEOREM PickInvariant == PickAlone => []PickInv
<1>1. PickInit => PickInv
  BY InitHolds
<1>2. PickInv /\ [PickNext]_pickVars => PickInv'
  <2> SUFFICES ASSUME PickInv, [PickNext]_pickVars PROVE PickInv'
    OBVIOUS
  <2>1. ASSUME NEW l \in Lead, NEW c \in Client, AnEdit(Begin, l, c) PROVE PickInv'
    <3>1. PICK e : EditOK(e) /\ Begin(l, c, e)
      BY <2>1 DEF AnEdit, EditOK
    <3> QED BY <3>1, BeginHolds
  <2>2. ASSUME NEW k \in Kept, NEW c \in Client, AnEdit(Amend, k, c) PROVE PickInv'
    <3>1. PICK e : EditOK(e) /\ Amend(k, c, e)
      BY <2>2 DEF AnEdit, EditOK
    <3> QED BY <3>1, AmendHolds
  <2>3. ASSUME NEW l \in Lead, Save(l) \/ NotSaved(l) PROVE PickInv'
    BY <2>3, SaveHolds, NotSavedHolds
  <2>4. ASSUME NEW k \in Kept, Fetch(k) \/ Post(k) PROVE PickInv'
    BY <2>4, FetchHolds, PostHolds
  <2> QED BY <2>1, <2>2, <2>3, <2>4, StutterHolds DEF PickNext
<1> QED BY <1>1, <1>2, PTL DEF PickAlone

-----------------------------------------------------------------------------
(* What follows: types, rows and record ids. *)

LEMMA TypesFollow == PickInv => PickTypeOK
<1> SUFFICES ASSUME PickInv PROVE PickTypeOK
  OBVIOUS
<1>1. /\ AllOK(made) /\ CopyOK(Stored, made) /\ KeptOK(kept, made) /\ GoodDoc(Stored)
      /\ LeadsOK(Stored, lead, made) /\ LandedOK(Stored, made, landed)
      /\ Reads(Stored, picks) /\ Mirrors(picks, mirror)
  BY CopyIsGood DEF PickInv
<1>2. ASSUME NEW t \in Team, picks[t] # None PROVE picks[t] \in PickRow /\ picks[t].team = t
  <2>1. t \in DOMAIN Listing(Stored) /\ picks[t] = Row(Listing(Stored), t)
    BY <1>1, <1>2 DEF Reads
  <2> QED BY <1>1, <2>1, ListingOK, RowIs
<1>3. mirror \in SUBSET PickRow
  BY <1>1, <1>2 DEF Mirrors
<1>4. doc \in Docs \cup {None}
  BY <1>1, StoredIs
<1>5. kept \in [Kept -> Docs \cup {None}] /\ made \in [Client -> Changes \cup {None}]
  BY <1>1 DEF KeptOK, AllOK
<1>6. lead \in [Lead -> Client \cup {None}] /\ landed \in SUBSET Client
      /\ \A l \in Lead : lead[l] # None => made[lead[l]] # None
  BY <1>1 DEF LeadsOK, LandedOK, Making
<1> QED BY <1>2, <1>3, <1>4, <1>5, <1>6 DEF PickTypeOK

\* Every row, copy and change keeps its shape.
THEOREM PickTypes == PickAlone => []PickTypeOK
BY PickInvariant, TypesFollow, PTL

LEMMA ReadsFollow == PickInv => ListReadsAlike
<1> SUFFICES ASSUME PickInv PROVE ListReadsAlike
  OBVIOUS
<1>1. GoodDoc(Stored) /\ Reads(Stored, picks) /\ Mirrors(picks, mirror)
  BY CopyIsGood DEF PickInv
<1> DEFINE L == Listing(Stored)
<1>2. DOMAIN L \in SUBSET Team /\ \A t \in DOMAIN L : Row(L, t) # None
  BY <1>1, ListingOwn DEF TeamsOwn
<1>3. \A t \in Team : picks[t] = IF t \in DOMAIN L THEN Row(L, t) ELSE None
  BY <1>1 DEF Reads
<1>4. {picks[t] : t \in Team} \ {None} = Rows(L)
  <2> HIDE DEF L
  <2> QED BY <1>2, <1>3 DEF Rows
<1> QED BY <1>1, <1>4 DEF ListReadsAlike, Mirrors, Stored

\* ListReadsAlike: after every merge, and on every device that has pulled, the
\* rows are what the document reads as (merge_pick_list, apply_change).
THEOREM RowsReadAlike == PickAlone => []ListReadsAlike
BY PickInvariant, ReadsFollow, PTL

LEMMA RetiredFollow == PickInv => RetiredStayOff
<1> SUFFICES ASSUME PickInv, NEW t \in Team, picks[t] # None, picks[t].id \in retired PROVE FALSE
  BY DEF RetiredStayOff
<1> DEFINE D == Stored
           l == LastWrite(D, Pick(t))
           id == picks[t].id
<1>1. GoodDoc(D) /\ Reads(D, picks) /\ RetiredOK(D, retired)
  BY CopyIsGood DEF PickInv
<1>2. t \in DOMAIN Listing(D) /\ id = Listing(D)[t].id
  BY <1>1, RowIs DEF Reads
<1>3. OnBy(D, t, l, id)
  BY <1>1, <1>2, ListedPick
<1>4. PICK i \in D.items : /\ i.reg = Pick(id[2]) /\ i.val[2] = id
                           /\ i.name \in D.gone \/ i # LastWrite(D, i.reg)
  BY <1>1 DEF RetiredOK
<1> HIDE DEF D, l, id
<1>5. i.reg = Pick(t) /\ l.reg = Pick(t) /\ l \in D.items /\ l.name \notin D.gone
  BY <1>3, <1>4 DEF OnBy
<1>6. i.name = <<i.name[1], Pick(t)>> /\ i.val[2] = <<i.name[1], t>>
  <2>1. Pick(t)[1] = "pick" /\ Pick(t)[2] = t
    BY DEF Pick
  <2> QED BY <1>1, <1>5, <2>1 DEF GoodDoc, Orderly, IdsOK
<1>7. i.name[1] = l.name[1]
  BY <1>3, <1>4, <1>6 DEF OnBy
<1>8. i.name = l.name
  BY <1>3, <1>6, <1>7 DEF OnBy
<1>9. i = l
  BY <1>1, <1>5, <1>8 DEF GoodDoc, Orderly
<1> QED BY <1>4, <1>5, <1>9 DEF l

\* RetiredStayOff: a record id deleted by a merge is on no row again, whatever
\* copy is merged later (merge_pick_list, LastWrite of yrs).
THEOREM RetiredIdsStayOff == PickAlone => []RetiredStayOff
BY PickInvariant, RetiredFollow, PTL

-----------------------------------------------------------------------------
(* What lands. *)

\* A team that was added is on, or its last pick was removed.
LEMMA AddLands ==
  ASSUME PickInv, NEW c \in landed, made[c].op = "add"
  PROVE  \/ picks[made[c].team] # None
         \/ \E o \in landed \ {c} : made[o].op = "remove" /\ made[o].team = made[c].team
<1> DEFINE D == Stored
           m == made[c]
           t == m.team
           l == LastWrite(D, Pick(t))
<1>1. GoodDoc(D) /\ Reads(D, picks) /\ AllOK(made) /\ LandedOK(D, made, landed)
  BY CopyIsGood DEF PickInv
<1>2. c \in Making(made) /\ Has(D, m.update) /\ ChangeOK(c, m)
  BY <1>1 DEF LandedOK, AllOK
<1>3. t \in Team
  BY <1>2, ChangeFurnished
<1>4. \E p \in D.items : p.reg = Pick(t)
  <2>1. Pick(t) \in {i.reg : i \in m.update.items}
    BY <1>2 DEF ChangeOK, Does
  <2> QED BY <1>2, <2>1 DEF Has
<1>5. l # None /\ l \in D.items /\ l.reg = Pick(t)
  BY <1>1, <1>4, LastIs
<1>6. CASE l.name \notin D.gone
  <2>1. t \in DOMAIN Listing(D)
    BY <1>1, <1>3, <1>5, <1>6, OnTheList
  <2>2. picks[t] = Row(Listing(D), t) /\ Row(Listing(D), t) # None
    BY <1>1, <1>3, <2>1, ListingOK DEF Reads
  <2> QED BY <2>2
<1>7. CASE l.name \in D.gone
  <2>1. PICK o \in landed : l.name \in made[o].update.gone
    BY <1>1, <1>7 DEF LandedOK
  <2> DEFINE w == made[o]
  <2>2. ChangeOK(o, w)
    BY <1>1 DEF LandedOK, AllOK
  <2>3. Does(o, w) /\ w.op \in {"add", "remove", "move", "cross", "tag"}
    BY <2>2, ChangeFurnished DEF ChangeOK
  <2>4. l.name = <<l.name[1], Pick(t)>> /\ l.name[2] = Pick(t)
    <3>1. l.name = <<l.name[1], Pick(t)>>
      BY <1>1, <1>5 DEF GoodDoc, Orderly
    <3>2. <<l.name[1], Pick(t)>>[2] = Pick(t)
      OBVIOUS
    <3> QED BY <3>1, <3>2
  <2> HIDE DEF w, l
  <2>5. w.op = "remove" /\ l.name = PickOf(w)
    <3>1. \A f : l.name[2] # Field(PickOf(w), f) \/ f = "pick"
      BY <2>4 DEF Pick, Field
    <3>2. \A f : ~ WritesOne(w, f)
      BY <2>1 DEF WritesOne, w
    <3>3. w.op \notin {"add", "move", "cross"}
      BY <2>1, <2>3, <3>2 DEF Does, w
    <3>4. w.op # "tag"
      <4>1. ASSUME NEW n \in w.update.gone, w.update.gone = {n}, n[2] = Field(PickOf(w), "tag") PROVE FALSE
        BY <2>1, <3>1, <4>1 DEF w
      <4> QED BY <2>3, <3>2, <4>1 DEF Does
    <3> QED BY <2>1, <2>3, <3>3, <3>4 DEF Does, w
  <2>6. w.team = t
    <3>1. Pick(w.team) = Pick(t)
      BY <2>4, <2>5 DEF PickOf
    <3> QED BY <3>1 DEF Pick
  <2>7. o # c
    BY <2>5 DEF w
  <2> QED BY <2>5, <2>6, <2>7 DEF w
<1> QED BY <1>6, <1>7

\* A row that was removed is on no list its removal landed in.
LEMMA RemoveLands ==
  ASSUME PickInv, NEW c \in landed, made[c].op = "remove", NEW t \in Team, picks[t] # None,
         picks[t].id = made[c].id
  PROVE  FALSE
<1> DEFINE D == Stored
           m == made[c]
           l == LastWrite(D, Pick(t))
<1>1. GoodDoc(D) /\ Reads(D, picks) /\ AllOK(made) /\ LandedOK(D, made, landed)
  BY CopyIsGood DEF PickInv
<1>2. Has(D, m.update) /\ ChangeOK(c, m)
  BY <1>1 DEF LandedOK, AllOK
<1>3. PickOf(m) \in D.gone /\ m.id[2] = m.team
  BY <1>2 DEF ChangeOK, Does, Has
<1>4. t \in DOMAIN Listing(D) /\ picks[t].id = Listing(D)[t].id
  BY <1>1, RowIs DEF Reads
<1>5. OnBy(D, t, l, m.id)
  BY <1>1, <1>4, ListedPick
<1>6. l.name = PickOf(m) /\ l.name \notin D.gone
  BY <1>3, <1>5 DEF OnBy, PickOf
<1> QED BY <1>3, <1>6

\* Which changes write a mark of a pick, and which take a tag away.
MarkOf(f) == IF f = "crossed" THEN "cross" ELSE "tag"

LEMMA MarkedBy ==
  ASSUME NEW o, NEW w, ChangeOK(o, w), NEW i \in w.update.items, NEW n, NEW f \in {"crossed", "tag"},
         i.reg = Field(n, f)
  PROVE  /\ n = PickOf(w)
         /\ \/ w.op = MarkOf(f) /\ w.update.items = {i} /\ w.update.gone = {}
            \/ w.op = "add" /\ f = "crossed" /\ i.name[1] = i.reg[2][1]
<1>1. /\ Does(o, w) /\ w.op \in {"add", "remove", "move", "cross", "tag"}
      /\ i.name = <<o, i.reg>>
  BY ChangeFurnished DEF ChangeOK, OneClient
<1>2. i.name[1] = o /\ i.reg[1] = f /\ i.reg[2] = n
  BY <1>1 DEF Field
<1>3. ASSUME NEW g, WritesOne(w, g)
      PROVE  f = g /\ n = PickOf(w) /\ w.update.items = {i} /\ w.update.gone = {}
  <2>1. w.update.items = {i} /\ i.reg = Field(PickOf(w), g) /\ w.update.gone = {}
    BY <1>3 DEF WritesOne
  <2> QED BY <2>1 DEF Field
<1>4. CASE w.op = "add"
  <2>1. i.reg \in {Pick(w.team), Field(PickOf(w), "at"), Field(PickOf(w), "crossed")} /\ w.id[1] = o
    BY <1>1, <1>4 DEF Does
  <2>2. i.reg = Field(PickOf(w), "crossed")
    BY <2>1 DEF Field, Pick
  <2>3. n = PickOf(w) /\ f = "crossed" /\ n[1] = o
    BY <2>1, <2>2 DEF Field, PickOf
  <2> QED BY <1>2, <1>4, <2>3
<1>5. CASE w.op # "add"
  <2>1. \E g : WritesOne(w, g) /\ w.op = IF g = "at" THEN "move" ELSE MarkOf(g)
    <3>1. CASE w.op = "move"
      BY <1>1, <3>1 DEF Does
    <3>2. CASE w.op = "cross"
      <4>1. WritesOne(w, "crossed") /\ MarkOf("crossed") = "cross"
        BY <1>1, <3>2 DEF Does, MarkOf
      <4> QED BY <3>2, <4>1
    <3>3. CASE w.op = "tag"
      <4>1. w.update.items # {}
        OBVIOUS
      <4>2. WritesOne(w, "tag") /\ MarkOf("tag") = "tag"
        BY <1>1, <3>3, <4>1 DEF Does, MarkOf
      <4> QED BY <3>3, <4>2
    <3>4. CASE w.op = "remove"
      BY <1>1, <3>4 DEF Does
    <3> QED BY <1>1, <1>5, <3>1, <3>2, <3>3, <3>4
  <2>2. PICK g : WritesOne(w, g) /\ w.op = IF g = "at" THEN "move" ELSE MarkOf(g)
    BY <2>1
  <2> QED BY <1>3, <2>2
<1> QED BY <1>4, <1>5

LEMMA UntaggedBy ==
  ASSUME NEW o, NEW w, ChangeOK(o, w), NEW nn \in w.update.gone, NEW n, nn[2] = Field(n, "tag")
  PROVE  n = PickOf(w) /\ w.op = "tag" /\ w.update.items = {}
<1>1. Does(o, w) /\ w.op \in {"add", "remove", "move", "cross", "tag"}
  BY ChangeFurnished DEF ChangeOK
<1>2. \A f : ~ WritesOne(w, f)
  BY DEF WritesOne
<1>3. w.op \notin {"add", "move", "cross"}
  BY <1>1, <1>2 DEF Does
<1>4. CASE w.op = "remove"
  <2>1. nn = PickOf(w)
    BY <1>1, <1>4 DEF Does
  <2>2. nn[2] = Pick(w.team)
    BY <2>1 DEF PickOf
  <2> QED BY <2>2 DEF Field, Pick
<1>5. CASE w.op = "tag"
  <2>1. w.update.items = {} /\ nn[2] = Field(PickOf(w), "tag")
    BY <1>1, <1>2, <1>5 DEF Does
  <2> QED BY <1>5, <2>1 DEF Field
<1> QED BY <1>1, <1>3, <1>4, <1>5

\* A register written with its pick has one item no other went on from: when
\* that is the last there is no other.
LEMMA FirstIsSeen ==
  ASSUME NEW S, Orderly(S), Whole(S), OneRegister(S), FirstsAlone(S),
         NEW j \in S, j.reg[1] \in {"at", "crossed"}, j.name[1] = j.reg[2][1], Ends(S, j),
         NEW i \in S
  PROVE  i = j
<1> SUFFICES ASSUME i # j PROVE FALSE
  OBVIOUS
<1> DEFINE T == S \ {j}
<1>1. T \in SUBSET S /\ T # {}
  OBVIOUS
<1>2. PICK e \in T : \A o \in T : o.name # e.origin
  BY <1>1 DEF Orderly
<1>3. e \in S /\ e # j /\ e.reg = j.reg
  BY <1>2 DEF OneRegister
<1>4. CASE e.origin = None
  <2>1. e.name[1] = e.reg[2][1]
    BY <1>3, <1>4 DEF FirstsAlone
  <2>2. e.name = <<e.name[1], e.reg>> /\ j.name = <<j.name[1], j.reg>>
    BY <1>3 DEF Orderly
  <2>3. e.name = j.name
    BY <1>3, <2>1, <2>2
  <2> QED BY <1>3, <2>3 DEF Orderly
<1>5. CASE e.origin # None
  <2>1. PICK o \in S : o.name = e.origin
    BY <1>3, <1>5 DEF Whole
  <2>2. o = j
    BY <1>2, <2>1
  <2> QED BY <1>3, <2>1, <2>2 DEF Ends
<1> QED BY <1>4, <1>5

\* What a landed mark says of the row its pick is on the list by, unless another
\* landed change set it too.
Nobody(c, op) == \A o \in landed \ {c} : ~ (made[o].op = op /\ made[o].team = made[c].team)

LEMMA SameTeam ==
  ASSUME NEW w, NEW m, PickOf(w) = PickOf(m)
  PROVE  w.team = m.team
<1>1. Pick(w.team) = Pick(m.team)
  BY DEF PickOf
<1> QED BY <1>1 DEF Pick

\* The marks of such a row are those of the pick the change meant.
LEMMA MarkedRow ==
  ASSUME PickInv, NEW c \in landed, picks[made[c].team] # None,
         picks[made[c].team].id = made[c].id
  PROVE  /\ GoodDoc(Stored) /\ FirstsAlone(Stored.items) /\ ChangeOK(c, made[c])
         /\ Has(Stored, made[c].update)
         /\ picks[made[c].team].crossed = Value(Stored, Field(PickOf(made[c]), "crossed"), FALSE)
         /\ picks[made[c].team].tag = Value(Stored, Field(PickOf(made[c]), "tag"), None)
<1> DEFINE D == Stored
           m == made[c]
           t == m.team
           l == LastWrite(D, Pick(t))
<1>1. /\ GoodDoc(D) /\ FirstsAlone(D.items) /\ Reads(D, picks) /\ AllOK(made)
      /\ LandedOK(D, made, landed)
  BY CopyIsGood DEF PickInv
<1>2. Has(D, m.update) /\ ChangeOK(c, m)
  BY <1>1 DEF LandedOK, AllOK
<1>3. t \in Team
  BY <1>2, ChangeFurnished
<1>4. t \in DOMAIN Listing(D) /\ picks[t].id = Listing(D)[t].id
      /\ picks[t].tag = Listing(D)[t].tag /\ picks[t].crossed = Listing(D)[t].crossed
  BY <1>1, <1>3, RowIs DEF Reads
<1>5. OnBy(D, t, l, m.id)
  BY <1>1, <1>4, ListedPick
<1>6. l.name = PickOf(m)
  BY <1>5 DEF OnBy, PickOf
<1>7. /\ Listing(D)[t].tag = Value(D, Field(l.name, "tag"), None)
      /\ Listing(D)[t].crossed = Value(D, Field(l.name, "crossed"), FALSE)
  BY <1>1, <1>4, ListingIs
<1> QED BY <1>1, <1>2, <1>4, <1>6, <1>7

\* Its last cross is the change's own: one written with the pick would not be last.
LEMMA CrossLands ==
  ASSUME PickInv, NEW c \in landed, made[c].op = "cross", picks[made[c].team] # None,
         picks[made[c].team].id = made[c].id, Nobody(c, "cross")
  PROVE  picks[made[c].team].crossed = made[c].to
<1> DEFINE D == Stored
           m == made[c]
           n == PickOf(m)
           reg == Field(n, "crossed")
           S == Writes(D, reg)
           j == LastWrite(D, reg)
<1>1. /\ GoodDoc(D) /\ FirstsAlone(D.items) /\ ChangeOK(c, m) /\ Has(D, m.update)
      /\ picks[m.team].crossed = Value(D, reg, FALSE)
  BY MarkedRow
<1>2. LandedOK(D, made, landed) /\ AllOK(made)
  BY DEF PickInv
<1>3. PICK i \in m.update.items : m.update.items = {i} /\ i.reg = reg /\ i.val[2] = m.to
  <2>1. Does(c, m)
    BY <1>1 DEF ChangeOK
  <2>2. WritesOne(m, "crossed") /\ \A i \in m.update.items : i.val[2] = m.to
    BY <2>1 DEF Does
  <2> QED BY <2>2 DEF WritesOne
<1>4. reg[1] = "crossed" /\ reg[2] = n
  BY DEF Field
<1> HIDE DEF m, n
<1>5. i \in D.items
  BY <1>1, <1>3 DEF Has
<1>6. j # None /\ j \in D.items /\ j.reg = reg /\ j \in AnyItem
  BY <1>1, <1>3, <1>5, LastIs
<1>7. j.name \notin D.gone
  BY <1>1, <1>4, <1>6, FieldStays
<1>8. S \in SUBSET D.items /\ i \in S /\ j \in S /\ OneRegister(S) /\ Whole(S) /\ FirstsAlone(S)
  BY <1>1, <1>3, <1>5, <1>6 DEF Writes, OneRegister, Whole, FirstsAlone, GoodDoc
<1>9. Orderly(S)
  BY <1>1, <1>8, OrderlySubset DEF GoodDoc
<1>10. Ends(S, j)
  BY <1>1, <1>8, LastWriteIs DEF GoodDoc
<1>11. ASSUME j.name[1] = j.reg[2][1] PROVE i = j
  BY <1>4, <1>6, <1>8, <1>9, <1>10, <1>11, FirstIsSeen
<1>12. i = j
  <2>1. CASE j \in SeedDoc.items
    <3>1. j.origin = None
      BY <2>1, SeedDocIsGood
    <3>2. j.name[1] = j.reg[2][1]
      BY <1>4, <1>6, <1>8, <3>1 DEF FirstsAlone
    <3> QED BY <1>11, <3>2
  <2>2. ASSUME NEW o \in landed, j \in made[o].update.items PROVE i = j
    <3>1. ChangeOK(o, made[o])
      BY <1>2 DEF LandedOK, AllOK
    <3>2. /\ n = PickOf(made[o])
          /\ \/ made[o].op = "cross"
             \/ j.name[1] = j.reg[2][1]
      BY <1>6, <2>2, <3>1, MarkedBy DEF MarkOf
    <3>3. made[o].team = m.team
      BY <3>2, SameTeam DEF n
    <3>4. CASE o = c
      BY <1>3, <2>2, <3>4 DEF m
    <3> QED BY <1>11, <3>2, <3>3, <3>4 DEF Nobody, m
  <2> QED BY <1>2, <1>6, <2>1, <2>2 DEF LandedOK
<1> HIDE DEF reg, j, D
<1>13. ASSUME NEW v, v = FALSE PROVE Value(D, reg, v) = j.val[2]
  BY <1>6, <1>7 DEF Value, j
<1>14. Value(D, reg, FALSE) = j.val[2]
  BY <1>13
<1>15. j.val[2] = m.to
  BY <1>3, <1>12
<1> QED BY Zenon, <1>1, <1>14, <1>15 DEF m

\* Its last tag is the change's own, or there is none.
LEMMA TagLands ==
  ASSUME PickInv, NEW c \in landed, made[c].op = "tag", picks[made[c].team] # None,
         picks[made[c].team].id = made[c].id, Nobody(c, "tag")
  PROVE  picks[made[c].team].tag = made[c].to
<1> DEFINE D == Stored
           m == made[c]
           n == PickOf(m)
           reg == Field(n, "tag")
           j == LastWrite(D, reg)
<1>1. /\ GoodDoc(D) /\ ChangeOK(c, m) /\ Has(D, m.update) /\ Does(c, m)
      /\ picks[m.team].tag = Value(D, reg, None)
  BY MarkedRow DEF ChangeOK
<1>2. LandedOK(D, made, landed) /\ AllOK(made)
  BY DEF PickInv
<1>3. reg[1] = "tag" /\ reg[2] = n
  BY DEF Field
<1>4. \A o \in landed : ChangeOK(o, made[o])
  BY <1>2 DEF LandedOK, AllOK
\* A tag on the pick is this change's own, and nobody took one away.
<1>5. ASSUME NEW k \in D.items, k.reg = reg PROVE k \in m.update.items
  <2>1. k \notin SeedDoc.items
    BY <1>3, <1>5, SeedDocIsGood
  <2>2. PICK o \in landed : k \in made[o].update.items
    BY <1>2, <1>5, <2>1 DEF LandedOK
  <2>3. n = PickOf(made[o]) /\ made[o].op = "tag"
    BY <1>4, <1>5, <2>2, MarkedBy DEF MarkOf
  <2>4. made[o].team = m.team
    BY <2>3, SameTeam
  <2> QED BY <2>2, <2>3, <2>4 DEF Nobody
<1>6. ASSUME NEW nn \in D.gone, nn[2] = reg PROVE nn \in m.update.gone
  <2>1. PICK o \in landed : nn \in made[o].update.gone
    BY <1>2 DEF LandedOK
  <2>2. n = PickOf(made[o]) /\ made[o].op = "tag"
    BY <1>4, <1>6, <2>1, UntaggedBy
  <2>3. made[o].team = m.team
    BY <2>2, SameTeam
  <2> QED BY <2>1, <2>2, <2>3 DEF Nobody
<1>7. CASE WritesOne(m, "tag") /\ \A i \in m.update.items : i.val[2] = m.to
  <2>1. PICK i \in m.update.items : m.update.items = {i} /\ i.reg = reg /\ i.val[2] = m.to
    BY <1>7 DEF WritesOne
  <2>2. m.update.gone = {} /\ i \in D.items
    BY <1>1, <1>7, <2>1 DEF WritesOne, Has
  <2>3. j # None /\ j \in D.items /\ j.reg = reg
    BY <1>1, <2>1, <2>2, LastIs
  <2>4. j = i
    BY <1>5, <2>1, <2>3
  <2>5. j.name[2] = reg
    <3>1. j.name = <<j.name[1], j.reg>>
      BY <1>1, <2>3 DEF GoodDoc, Orderly
    <3>2. <<j.name[1], j.reg>>[2] = j.reg
      OBVIOUS
    <3> QED BY <2>3, <3>1, <3>2
  <2>6. j.name \notin D.gone
    BY <1>6, <2>2, <2>5
  <2> HIDE DEF reg
  <2>7. Value(D, reg, None) = j.val[2]
    BY <2>3, <2>6 DEF Value
  <2> QED BY <1>1, <2>1, <2>4, <2>7
<1>8. CASE m.to = None /\ m.update.items = {}
  <2>1. j = None
    BY <1>1, <1>5, <1>8, LastIs
  <2>2. Value(D, reg, None) = None
    BY <2>1 DEF Value
  <2> QED BY <1>1, <1>8, <2>2
<1> QED BY <1>1, <1>7, <1>8 DEF Does

LEMMA ChangesFollow == PickInv => ChangesLand
<1> SUFFICES ASSUME PickInv, NEW c \in landed
             PROVE  LET m == made[c]
                        Also(op) == \E o \in landed \ {c} :
                                        made[o].op = op /\ made[o].team = m.team
                    IN  /\ m.op = "add" => picks[m.team] # None \/ Also("remove")
                        /\ m.op = "remove" => \A t \in Team : picks[t] # None => picks[t].id # m.id
                        /\ m.op \in {"cross", "tag"} /\ picks[m.team] # None =>
                               \/ picks[m.team].id # m.id
                               \/ Also(m.op)
                               \/ m.op = "cross" /\ picks[m.team].crossed = m.to
                               \/ m.op = "tag" /\ picks[m.team].tag = m.to
  BY DEF ChangesLand
<1> DEFINE m == made[c]
           Also(op) == \E o \in landed \ {c} : made[o].op = op /\ made[o].team = m.team
<1>1. m.op = "add" => picks[m.team] # None \/ Also("remove")
  BY AddLands
<1>2. m.op = "remove" => \A t \in Team : picks[t] # None => picks[t].id # m.id
  BY RemoveLands
<1>3. \A op : Also(op) \/ Nobody(c, op)
  BY DEF Nobody
<1>4. ASSUME m.op = "cross", picks[m.team] # None, picks[m.team].id = m.id, ~ Also("cross")
      PROVE  picks[m.team].crossed = m.to
  BY <1>3, <1>4, CrossLands
<1>5. ASSUME m.op = "tag", picks[m.team] # None, picks[m.team].id = m.id, ~ Also("tag")
      PROVE  picks[m.team].tag = m.to
  BY <1>3, <1>5, TagLands
<1> QED BY <1>1, <1>2, <1>4, <1>5

\* ChangesLand: of changes made at once, through the page or on copies, each is
\* on the rows once merged, unless another landed that says otherwise (apply,
\* merge, merge_pick_list).
THEOREM EveryChangeLands == PickAlone => []ChangesLand
BY PickInvariant, ChangesFollow, PTL

-----------------------------------------------------------------------------
(* What a move leaves. *)

\* The last write is one of the register's writes alone.
LastOf(S) ==
    IF S = {} THEN None ELSE CHOOSE i \in UNION Paths(S) : \A s \in S : s.origin # i.name

LEMMA LastIsOf ==
  ASSUME NEW D, NEW reg
  PROVE  LastWrite(D, reg) = LastOf(Writes(D, reg))
BY DEF LastWrite, LastOf, Paths, Path, Greatest

\* What goes on from the end is the end.
LEMMA NewEnd ==
  ASSUME NEW S, Orderly(S), Whole(S), NEW l \in S, Ends(S, l), NEW i, NEW c \in Nat,
         i.name[1] = c, i.origin = l.name, i.name # None, \A s \in S : s.name[1] # c
  PROVE  Ends(S \cup {i}, i)
<1> DEFINE S2 == S \cup {i}
<1>1. PICK P \in SUBSET S : Path(S, P) /\ l \in P
  BY DEF Ends, Paths
<1>2. \A s \in S : s.origin # l.name
  BY DEF Ends
<1> DEFINE Q == P \cup {i}
<1>3. ASSUME NEW x \in P
      PROVE  Greatest(S2, x) /\ (x.origin = None \/ \E o \in Q : o.name = x.origin)
  <2>1. Greatest(S, x) /\ (x.origin = None \/ \E o \in P : o.name = x.origin)
    BY <1>1 DEF Path
  <2>2. i.origin # x.origin
    BY <1>2
  <2> QED BY <2>1, <2>2 DEF Greatest
<1>4. Greatest(S2, i) /\ \E o \in Q : o.name = i.origin
  BY <1>1, <1>2 DEF Greatest
<1>5. Q \in Paths(S2)
  BY <1>3, <1>4 DEF Paths, Path
<1>6. ASSUME NEW s \in S2 PROVE s.origin # i.name
  <2>1. CASE s \in S
    BY <2>1 DEF Whole
  <2>2. CASE s = i
    BY <2>2
  <2> QED BY <2>1, <2>2
<1>7. i \in UNION Paths(S2)
  BY <1>5
<1> HIDE DEF S2
<1> QED BY <1>6, <1>7 DEF Ends, S2

\* A write by a new client is its register's last, and no other register's.
LEMMA WrittenOver ==
  ASSUME NEW D, GoodDoc(D), NEW c \in Client, \A i \in D.items : i.name[1] # c,
         NEW reg, NEW val, OneClient(c, {Item(D, c, reg, val)}), LastWrite(D, reg) # None,
         NEW M, M = Merge(D, Write(D, c, reg, val))
  PROVE  /\ LastWrite(M, reg) = Item(D, c, reg, val) /\ M.gone = D.gone
         /\ \A r : r # reg => LastWrite(M, r) = LastWrite(D, r)
<1> DEFINE i == Item(D, c, reg, val)
           l == LastWrite(D, reg)
           S == Writes(D, reg)
<1>1. M.items = D.items \cup {i} /\ M.gone = D.gone
  BY DEF Merge, Write
<1>2. /\ D.items \in SUBSET AnyItem /\ Orderly(D.items) /\ Whole(D.items) /\ c \in Nat
  BY PickListAssumption DEF GoodDoc, Docs
<1>3. i.name = <<c, reg>> /\ i.reg = reg /\ i.origin = l.name
  BY DEF Item, Name
<1>4. l \in D.items /\ l.reg = reg
  BY LastIs
<1>5. i.name[1] = c /\ i.name # None
  BY <1>3, ItemIs DEF OneClient
<1>6. Orderly(M.items) /\ Whole(M.items)
  <2>1. \A k \in {i} : k.origin = None \/ \E o \in D.items : o.name = k.origin /\ o.reg = k.reg
    BY <1>3, <1>4
  <2> HIDE DEF i
  <2>2. OneClient(c, {i})
    BY DEF i
  <2> QED BY <1>1, <1>2, <2>1, <2>2, OrderlyGrows
<1>7. S \in SUBSET D.items /\ l \in S /\ Ends(S, l) /\ Whole(S)
  BY <1>2, <1>4, LastWriteIs DEF Writes, Whole
<1>8. Orderly(S)
  BY <1>2, <1>7, OrderlySubset
<1>9. Writes(M, reg) = S \cup {i}
  BY <1>1, <1>3 DEF Writes
<1>10. \A r : r # reg => Writes(M, r) = Writes(D, r)
  BY <1>1, <1>3 DEF Writes
<1> HIDE DEF i, l, S
<1>11. Ends(S \cup {i}, i)
  <2>1. \A s \in S : s.name[1] # c
    BY <1>7
  <2>2. i.origin = l.name
    BY <1>3
  <2> QED BY <1>2, <1>5, <1>7, <1>8, <2>1, <2>2, NewEnd
<1>12. LastWrite(M, reg) = i
  BY <1>6, <1>9, <1>11, LastWriteIs
<1>13. \A r : r # reg => LastWrite(M, r) = LastWrite(D, r)
  BY <1>10, LastIsOf
<1> QED BY <1>1, <1>12, <1>13 DEF i

\* A team put between its neighbours' keys is at the place between them.
LEMMA PlaceBetween ==
  ASSUME NEW other, ListOK(other), NEW after, NEW t \in Team, t \notin DOMAIN other,
         DOMAIN after = DOMAIN other \cup {t}, \A u \in DOMAIN other : after[u] = other[u],
         NEW key, KeyOK(key), after[t].at = key,
         NEW p \in 1 .. Cardinality(DOMAIN other) + 1,
         Before(KeyAt(other, p - 1), key), Before(key, KeyAt(other, p))
  PROVE  Place(after, t) = p
<1> DEFINE O == DOMAIN other
           N == Cardinality(O)
           K(u) == other[u].at
<1>1. N \in Nat /\ O \in SUBSET Team /\ IsFiniteSet(O)
  BY PlacesAre, PickListAssumption, FS_Subset DEF ListOK
<1>2. key \in Seq(Nat) /\ \A u \in O : K(u) \in Seq(Nat)
  BY KeysAreSeqs DEF ListOK
<1>3. \A u \in O : Place(other, u) \in 1 .. N
  BY PlacesAre
<1>4. \A u, v \in O : Place(other, u) <= Place(other, v) => K(u) = K(v) \/ Before(K(u), K(v))
  <2> SUFFICES ASSUME NEW u \in O, NEW v \in O, Place(other, u) <= Place(other, v)
               PROVE  K(u) = K(v) \/ Before(K(u), K(v))
    OBVIOUS
  <2>1. CASE Place(other, u) = Place(other, v)
    BY <2>1, PlacesAre
  <2>2. CASE Place(other, u) < Place(other, v)
    BY <2>2, PlacesAre DEF Above
  <2> QED BY <1>3, <2>1, <2>2
<1>5. \A u \in O : KeyAt(other, Place(other, u)) = K(u)
  BY <1>1, <1>3, KeyAtIs
<1>6. \A q \in 1 .. N : \E v \in O : Place(other, v) = q
  BY PlacesAre
<1> HIDE DEF O, N, K
<1>7. ASSUME NEW u \in O PROVE Above(after, u, t) <=> Place(other, u) < p
  <2>1. Above(after, u, t) <=> Before(K(u), key) \/ (K(u) = key /\ u < t)
    BY DEF Above, O, K
  <2>2. CASE Place(other, u) < p
    <3>1. p - 1 \in 1 .. N
      BY <1>1, <1>3, <2>2 DEF N, O
    <3>2. PICK v \in O : Place(other, v) = p - 1
      BY <1>6, <3>1
    <3>3. Place(other, u) <= Place(other, v) /\ KeyAt(other, p - 1) = K(v)
      BY <1>3, <1>5, <2>2, <3>1, <3>2
    <3>4. K(u) = K(v) \/ Before(K(u), K(v))
      BY <1>4, <3>3
    <3>5. Before(K(v), key)
      BY <3>3
    <3>6. Before(K(u), key)
      BY <1>2, <3>4, <3>5, BeforeTransitive
    <3> QED BY <2>1, <2>2, <3>6
  <2>3. CASE ~ (Place(other, u) < p)
    <3>1. p \in 1 .. N
      BY <1>1, <1>3, <2>3 DEF N, O
    <3>2. PICK v \in O : Place(other, v) = p
      BY <1>6, <3>1
    <3>3. Place(other, v) <= Place(other, u) /\ KeyAt(other, p) = K(v)
      BY <1>3, <1>5, <2>3, <3>1, <3>2
    <3>4. K(v) = K(u) \/ Before(K(v), K(u))
      BY <1>4, <3>3
    <3>5. Before(key, K(v))
      BY <3>3
    <3>6. Before(key, K(u))
      BY <1>2, <3>4, <3>5, BeforeTransitive
    <3>7. ~ Before(K(u), key) /\ K(u) # key
      BY <1>2, <3>6, BeforeTransitive, BeforeIrreflexive
    <3> QED BY <2>1, <2>3, <3>7
  <2> QED BY <2>2, <2>3
<1>8. ~ Above(after, t, t)
  <2>1. t \in Nat
    BY PickDocAssumption
  <2> QED BY <1>2, <2>1, BeforeIrreflexive DEF Above
<1> DEFINE S == {u \in O : Place(other, u) < p}
<1>9. {u \in DOMAIN after : Above(after, u, t)} = S
  BY <1>7, <1>8 DEF O
<1>10. Cardinality(S) = p - 1
  <2>1. CASE p = N + 1
    <3>1. S = O
      BY <1>1, <1>3, <2>1
    <3> HIDE DEF S
    <3>2. Cardinality(S) = N
      BY <3>1 DEF N
    <3> QED BY <2>1, <3>2, <1>1 DEF N, O
  <2>2. CASE p \in 1 .. N
    <3>1. PICK v \in O : Place(other, v) = p
      BY <1>6, <2>2
    <3>2. S = {u \in O : Above(other, u, v)}
      BY <3>1, PlacesAre DEF O
    <3>3. Place(other, v) = Cardinality(S) + 1
      BY <3>2 DEF Place, O
    <3>4. Cardinality(S) \in Nat
      BY <1>1, FS_Subset, FS_CardinalityType
    <3> HIDE DEF S
    <3> QED BY <3>1, <3>3, <3>4
  <2> QED BY <1>1, <2>1, <2>2 DEF N, O
<1> HIDE DEF S
<1>11. Place(after, t) = Cardinality(S) + 1
  BY <1>9 DEF Place
<1> QED BY <1>1, <1>10, <1>11

\* What two copies read of a register is the same when its last write is.
LEMMA SameValue ==
  ASSUME NEW D, NEW M, M.gone = D.gone, NEW reg, LastWrite(M, reg) = LastWrite(D, reg), NEW default
  PROVE  Value(M, reg, default) = Value(D, reg, default)
BY DEF Value

LEMMA RegistersApart ==
  ASSUME NEW t, NEW n
  PROVE  /\ \A f, u : Pick(u) # Field(n, f) \/ f = "pick"
         /\ \A f, g, o : f # g => Field(o, f) # Field(n, g)
         /\ \A f, g, o : o # n => Field(o, f) # Field(n, g)
BY DEF Pick, Field

\* A key written over a listed team's: all else reads as it did.
LEMMA MovedListing ==
  ASSUME NEW D, GoodDoc(D), NEW c \in Client, \A i \in D.items : i.name[1] # c,
         NEW t \in DOMAIN Listing(D), NEW key, KeyOK(key), key # <<>>,
         NEW M, M = Merge(D, Write(D, c, Field(LastWrite(D, Pick(t)).name, "at"), key))
  PROVE  /\ DOMAIN Listing(M) = DOMAIN Listing(D) /\ Listing(M)[t].at = key
         /\ \A u \in DOMAIN Listing(D) \ {t} : Listing(M)[u] = Listing(D)[u]
<1> DEFINE n == LastWrite(D, Pick(t)).name
           reg == Field(n, "at")
           i == Item(D, c, reg, key)
<1>1. t \in Team /\ OnBy(D, t, LastWrite(D, Pick(t)), Listing(D)[t].id)
  BY ListedPick, ListingIs
<1>2. n \in PickName /\ n[2] = Pick(t)
  <2>1. n = <<n[1], Pick(t)>> /\ n \in PickName
    BY <1>1 DEF OnBy
  <2>2. <<n[1], Pick(t)>>[2] = Pick(t)
    OBVIOUS
  <2> QED BY <2>1, <2>2
<1>3. Wrote(D, c, t, n, "at", key, Write(D, c, reg, key))
  BY WriteIs
<1>4. OneClient(c, {i})
  <2>1. Write(D, c, reg, key).items = {i}
    BY DEF Write
  <2> QED BY <1>3, <2>1 DEF Wrote
<1>5. LastWrite(D, reg) # None
  <2>1. \E j \in D.items : j.reg = reg
    <3> DEFINE p == LastWrite(D, Pick(t))
    <3>1. p \in D.items /\ p.reg[1] = "pick"
      BY <1>1 DEF OnBy, Pick
    <3> HIDE DEF p
    <3>2. \E j \in D.items : j.reg = Field(p.name, "at")
      BY <3>1 DEF GoodDoc, Furnished
    <3> QED BY <3>2 DEF p
  <2> HIDE DEF reg
  <2> QED BY <2>1, LastIs
<1>6. /\ LastWrite(M, reg) = i /\ M.gone = D.gone
      /\ \A r : r # reg => LastWrite(M, r) = LastWrite(D, r)
  <2>1. M = Merge(D, Write(D, c, reg, key))
    OBVIOUS
  <2> HIDE DEF reg
  <2> QED BY <1>4, <1>5, <2>1, WrittenOver
<1>7. \A r, v : r # reg => Value(M, r, v) = Value(D, r, v)
  BY <1>6, SameValue
<1>8. Value(M, reg, <<>>) = key
  <2>1. i.val[2] = key /\ i.name = <<c, reg>>
    BY DEF Item, Name
  <2>2. i \in AnyItem /\ i.reg[1] = "at"
    BY <1>4 DEF OneClient, Item, Field
  <2>3. i.name \notin D.gone
    BY <2>2, FieldStays
  <2>4. i # None
    BY <2>2, ItemIs
  <2> QED BY <1>6, <2>1, <2>3, <2>4 DEF Value
<1> HIDE DEF i
<1>9. \A u : Pick(u) # reg
  BY RegistersApart
<1>10. \A o : Field(o, "tag") # reg /\ Field(o, "crossed") # reg
  BY RegistersApart
<1>11. \A o : o # n => Field(o, "at") # reg
  BY RegistersApart
<1> HIDE DEF reg
<1>12. DOMAIN Listing(M) = DOMAIN Listing(D)
  <2>1. \A u \in Team : Value(M, Pick(u), None) = Value(D, Pick(u), None)
    BY <1>7, <1>9
  <2> QED BY <2>1 DEF Listing
<1>13. \A u : LastWrite(M, Pick(u)) = LastWrite(D, Pick(u))
  BY <1>6, <1>9
<1>14. Listing(M)[t].at = key
  <2>1. Listing(M)[t].at = Value(M, Field(LastWrite(M, Pick(t)).name, "at"), <<>>)
    BY <1>12 DEF Listing
  <2> QED BY <1>8, <1>13, <2>1 DEF reg
<1>15. ASSUME NEW u \in DOMAIN Listing(D), u # t PROVE Listing(M)[u] = Listing(D)[u]
  <2> DEFINE o == LastWrite(D, Pick(u)).name
  <2>1. o # n
    <3>1. OnBy(D, u, LastWrite(D, Pick(u)), Listing(D)[u].id)
      BY ListedPick
    <3>2. o = <<o[1], Pick(u)>>
      BY <3>1 DEF OnBy
    <3>3. o[2] = Pick(u)
      BY <3>2
    <3>4. Pick(u) # Pick(t)
      BY <1>15 DEF Pick
    <3> QED BY <1>2, <3>3, <3>4
  <2>2. /\ Listing(M)[u] = [id |-> LastWrite(M, Pick(u)).val[2],
                            at |-> Value(M, Field(LastWrite(M, Pick(u)).name, "at"), <<>>),
                            tag |-> Value(M, Field(LastWrite(M, Pick(u)).name, "tag"), None),
                            crossed |-> Value(M, Field(LastWrite(M, Pick(u)).name, "crossed"), FALSE)]
        /\ Listing(D)[u] = [id |-> LastWrite(D, Pick(u)).val[2],
                            at |-> Value(D, Field(o, "at"), <<>>),
                            tag |-> Value(D, Field(o, "tag"), None),
                            crossed |-> Value(D, Field(o, "crossed"), FALSE)]
    BY <1>12 DEF Listing
  <2> HIDE DEF o
  <2>3. /\ Value(M, Field(o, "at"), <<>>) = Value(D, Field(o, "at"), <<>>)
        /\ Value(M, Field(o, "tag"), None) = Value(D, Field(o, "tag"), None)
    BY <1>7, <1>10, <1>11, <2>1
  <2>4. Value(M, Field(o, "crossed"), FALSE) = Value(D, Field(o, "crossed"), FALSE)
    BY Zenon, <1>7, <1>10
  <2>5. LastWrite(M, Pick(u)).val[2] = LastWrite(D, Pick(u)).val[2] /\ LastWrite(M, Pick(u)).name = o
    BY <1>13 DEF o
  <2> QED BY <2>2, <2>3, <2>4, <2>5
<1> QED BY <1>12, <1>14, <1>15

LEMMA MovesFollow == PickInv => MovesLand
<1> SUFFICES ASSUME PickInv, doc # None,
                    NEW t \in DOMAIN Listing(doc), NEW p \in 1 .. Cardinality(DOMAIN Listing(doc)),
                    NEW c \in Client, Move(doc, c, t, p) # None, made[c] = None,
                    Before(KeyAt(Others(Listing(doc), t), p - 1), KeyAt(Others(Listing(doc), t), p))
             PROVE  /\ Place(Listing(Merge(doc, Move(doc, c, t, p))), t) = p
                    /\ Others(Listing(Merge(doc, Move(doc, c, t, p))), t) = Others(Listing(doc), t)
  BY DEF MovesLand
<1> DEFINE list == Listing(doc)
           other == Others(list, t)
           low == KeyAt(other, p - 1)
           high == KeyAt(other, p)
           key == Between(low, high, c)
           M == Merge(doc, Move(doc, c, t, p))
           after == Listing(M)
<1>1. AllOK(made) /\ CopyOK(doc, made) /\ GoodDoc(doc)
  BY CopyIsGood DEF PickInv, Stored
<1>2. \A i \in doc.items : i.name[1] # c
  <2>1. c \notin Making(made) /\ c # Seed
    BY PickListAssumption DEF Making, Seed
  <2> QED BY <1>1, <2>1, EveryIs DEF CopyOK
<1>3. ListOK(list) /\ t \in Team
  BY <1>1, ListingOK, ListingIs
<1>4. p \in Nat \ {0} /\ Target(list, p) = p
  <2>1. Cardinality(DOMAIN list) \in Nat
    BY <1>3, PlacesAre
  <2> QED BY <2>1 DEF Target
<1>5. /\ Move(doc, c, t, p) = Write(doc, c, Field(LastWrite(doc, Pick(t)).name, "at"), key)
      /\ KeyOK(key) /\ key # <<>> /\ KeyOK(low) /\ EndOK(high)
  BY <1>1, <1>4, MoveIs
<1>6. Before(low, key) /\ Before(key, high)
  <2>1. c \in Nat
    BY PickListAssumption
  <2> QED BY <1>5, <2>1, BetweenIs
<1> HIDE DEF key
<1>7. /\ DOMAIN after = DOMAIN list /\ after[t].at = key
      /\ \A u \in DOMAIN list \ {t} : after[u] = list[u]
  BY <1>1, <1>2, <1>5, MovedListing
<1>8. /\ ListOK(other) /\ DOMAIN other = DOMAIN list \ {t}
      /\ Cardinality(DOMAIN other) = Cardinality(DOMAIN list) - 1
      /\ Cardinality(DOMAIN list) \in Nat \ {0}
  BY <1>3, OthersAre
<1>9. \A u \in DOMAIN other : other[u] = list[u] /\ after[u] = other[u]
  BY <1>7, <1>8 DEF Others
<1> HIDE DEF after, M
<1>10. Others(after, t) = other
  <2> HIDE DEF list
  <2>1. [u \in DOMAIN list \ {t} |-> after[u]] = [u \in DOMAIN list \ {t} |-> list[u]]
    BY <1>7
  <2> QED BY <1>7, <2>1 DEF Others
<1>11. Place(after, t) = p
  <2>1. p \in 1 .. Cardinality(DOMAIN other) + 1
    BY <1>8
  <2>2. DOMAIN after = DOMAIN other \cup {t} /\ t \notin DOMAIN other
    BY <1>7, <1>8
  <2> HIDE DEF other
  <2> QED BY <1>3, <1>5, <1>6, <1>7, <1>8, <1>9, <2>1, <2>2, PlaceBetween
<1> QED BY <1>10, <1>11 DEF after, M

\* MovesLand: a move puts a team at the place asked for, whenever the keys
\* there differ, and moves no other (Edit::MoveTo, Up and Down, key_between).
THEOREM EveryMoveLands == PickAlone => []MovesLand
BY PickInvariant, MovesFollow, PTL
=============================================================================
