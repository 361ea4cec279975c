------------------------------- MODULE PickDoc -------------------------------
(***************************************************************************)
(* A team's pick list as the document every copy of it merges (L14):       *)
(* tt-core/src/picklist.rs over the yrs library.                           *)
(*                                                                         *)
(* yrs keeps a map as one register per key.  A write is an item that names *)
(* the item it saw last in its register; the last item of the register is  *)
(* its value, and an item is never forgotten, only marked gone.  Here a    *)
(* pick is a register of the list, and its order key, its tag and whether  *)
(* it is crossed off are registers of that pick, so what is written into a *)
(* pick goes with it.                                                      *)
(*                                                                         *)
(* A client is one copy being changed, once.  The list is a function from  *)
(* the teams on it.  Picks this build did not write (no id, a bad key, one *)
(* id on two teams) are left out.                                          *)
(***************************************************************************)
EXTENDS Naturals, Sequences, FiniteSets, Absent

CONSTANTS
    Team,     \* team numbers
    Base      \* DIGITS.len()

ASSUME PickDocAssumption == Team \subseteq Nat /\ Base \in Nat /\ Base > 1

-----------------------------------------------------------------------------
(* Order keys: fractions, as sequences of digits. *)

\* What None stands for as an upper end: after every key.
Top == <<Base>>

Digit(a, i) == IF i <= Len(a) THEN a[i] ELSE 0

\* The order of strings.
Before(a, b) ==
    \E i \in 1..Len(b) :
        /\ i <= Len(a) => a[i] < b[i]
        /\ i <= Len(a) + 1 /\ \A j \in 1..(i - 1) : a[j] = b[j]

\* The digits halfway between a and b, the first before the second, a short a
\* read as followed by zeros.  They are alike up to the n-th; of next-door digits,
\* b's alone is between if b goes on past it, and otherwise a's first that is not
\* the highest, the p-th, has room above it.
Midpoint(a, b) ==
    LET n == CHOOSE i \in 1..Len(b) :
                 Digit(a, i) # b[i] /\ \A j \in 1..(i - 1) : Digit(a, j) = b[j]
        p == CHOOSE i \in (n + 1)..(n + Len(a) + 1) :
                 /\ Digit(a, i) # Base - 1
                 /\ \A j \in (n + 1)..(i - 1) : Digit(a, j) = Base - 1
        Halfway(k, high) ==
            [i \in 1..k |-> IF i < k THEN Digit(a, i) ELSE (Digit(a, k) + high) \div 2]
    IN  IF b[n] - Digit(a, n) > 1 THEN Halfway(n, b[n])
        ELSE IF Len(b) > n THEN SubSeq(b, 1, n)
        ELSE Halfway(p, Base)

Jitter(c) == <<c % Base, 1 + ((c \div Base) % (Base - 1))>>

\* The key between, with the client's jitter where it fits.
Fit(a, b, c) ==
    LET key == Midpoint(a, b)
    IN  IF c # None /\ Before(key \o Jitter(c), b) THEN key \o Jitter(c) ELSE key

\* Two keys of the same value have nothing between them: then after both.
Between(a, b, c) == IF Before(a, b) THEN Fit(a, b, c) ELSE a \o Fit(<<>>, Top, c)

-----------------------------------------------------------------------------
(* The document. *)

Pick(t)         == <<"pick", t>>
Field(pick, f)  == <<f, pick>>
Name(c, reg)    == <<c, reg>>
Empty           == [items |-> {}, gone |-> {}]

Writes(doc, reg) == {i \in doc.items : i.reg = reg}

\* Items that saw the same item are in the order of their clients, each
\* followed by those that saw it: the last is at the end of the path that
\* takes the greatest client every time.
LastWrite(doc, reg) ==
    LET S == Writes(doc, reg)
        Greatest(i) == \A s \in S : s.origin = i.origin => s.name[1] <= i.name[1]
        Paths == {P \in SUBSET S : \A i \in P :
                     Greatest(i) /\ (i.origin = None \/ \E o \in P : o.name = i.origin)}
    IN  IF S = {} THEN None
        ELSE CHOOSE i \in UNION Paths : \A s \in S : s.origin # i.name

Value(doc, reg, default) ==
    LET i == LastWrite(doc, reg)
    IN  IF i = None \/ i.name \in doc.gone THEN default ELSE i.val[2]

\* val is tagged with its register's kind: items of several kinds share a set.
Item(doc, c, reg, val) ==
    LET seen == LastWrite(doc, reg)
    IN  [name |-> Name(c, reg), reg |-> reg, val |-> <<reg[1], val>>,
         origin |-> IF seen = None THEN None ELSE seen.name]

\* Mutant: a team has the one record id, whoever adds it.
NewPickByTeam(doc, c, t, key, tag, crossed) ==
    LET pick == [Item(doc, c, Pick(t), <<c, t>>) EXCEPT !.val = <<"pick", <<0, t>>>>]
        First(f, val) == Item(Empty, c, Field(pick.name, f), val)
    IN  {pick, First("at", key), First("crossed", crossed)}
            \cup (IF tag = None THEN {} ELSE {First("tag", tag)})

\* A pick's own items: its record id and its first fields.
NewPick(doc, c, t, key, tag, crossed) ==
    LET pick == Item(doc, c, Pick(t), <<c, t>>)
        First(f, val) == Item(Empty, c, Field(pick.name, f), val)
    IN  {pick, First("at", key), First("crossed", crossed)}
            \cup (IF tag = None THEN {} ELSE {First("tag", tag)})

\* merge: an update is itself a document.
Merge(doc, update) ==
    [items |-> doc.items \cup update.items, gone |-> doc.gone \cup update.gone]

-----------------------------------------------------------------------------
(* The list it reads as. *)

\* placed.
Listing(doc) ==
    LET pickOf(t) == LastWrite(doc, Pick(t))
    IN  [t \in {u \in Team : Value(doc, Pick(u), None) # None} |->
            [id      |-> pickOf(t).val[2],
             at      |-> Value(doc, Field(pickOf(t).name, "at"), <<>>),
             tag     |-> Value(doc, Field(pickOf(t).name, "tag"), None),
             crossed |-> Value(doc, Field(pickOf(t).name, "crossed"), FALSE)]]

Above(list, t, u) ==
    Before(list[t].at, list[u].at) \/ (list[t].at = list[u].at /\ t < u)

Place(list, t) == Cardinality({u \in DOMAIN list : Above(list, u, t)}) + 1

\* The keys below and above place p of a list; the ends have none of their own.
KeyAt(list, p) ==
    IF p = 0 THEN <<>>
    ELSE IF p > Cardinality(DOMAIN list) THEN Top
    ELSE list[CHOOSE t \in DOMAIN list : Place(list, t) = p].at

Others(list, t) == [u \in DOMAIN list \ {t} |-> list[u]]

\* from_entries: rows stored before there was a document, in their order.
\* Its keys have no jitter.
SeedKey[n \in Nat] == IF n = 0 THEN <<>> ELSE Between(SeedKey[n - 1], Top, None)
FromEntries(rows, c) ==
    [items |-> UNION {NewPick(Empty, c, r.team, SeedKey[r.position], r.tag, r.crossed) : r \in rows},
     gone  |-> {}]

-----------------------------------------------------------------------------
(* apply: the update an edit makes, or None when it is refused or changes   *)
(* nothing.                                                                *)

Write(doc, c, reg, val) == [items |-> {Item(doc, c, reg, val)}, gone |-> {}]

ApplyAdd(doc, c, t, roster) ==
    LET list == Listing(doc)
    IN  IF t \in DOMAIN list \/ (roster # {} /\ t \notin roster) THEN None
        ELSE [items |-> NewPick(doc, c, t,
                            Between(KeyAt(list, Cardinality(DOMAIN list)), Top, c), None, FALSE),
              gone  |-> {}]

\* Mutant: the keys of the list as it stands, the moved team's own among them.
MoveAmongAll(doc, c, t, place) ==
    LET list == Listing(doc)
    IN  IF place = Place(list, t) THEN None
        ELSE Write(doc, c, Field(LastWrite(doc, Pick(t)).name, "at"),
                   Between(KeyAt(list, place - 1), KeyAt(list, place), c))

\* A move, clamped to the list.
Move(doc, c, t, place) ==
    LET list  == Listing(doc)
        size  == Cardinality(DOMAIN list)
        to    == IF place > size THEN size ELSE place
        other == Others(list, t)
    IN  IF to = Place(list, t) THEN None
        ELSE Write(doc, c, Field(LastWrite(doc, Pick(t)).name, "at"),
                   Between(KeyAt(other, to - 1), KeyAt(other, to), c))

\* Up, Down and MoveTo say where to, the others what to write.
Apply(doc, c, e, roster) ==
    LET list == Listing(doc)
        pick == LastWrite(doc, Pick(e.team))
        here == Place(list, e.team)
        Set(f, new) ==
            IF list[e.team][f] = new THEN None ELSE Write(doc, c, Field(pick.name, f), new)
    IN  IF e.op = "add" THEN ApplyAdd(doc, c, e.team, roster)
        ELSE IF e.team \notin DOMAIN list THEN None
        ELSE CASE e.op = "remove" -> [items |-> {}, gone |-> {pick.name}]
               [] e.op = "up"     -> Move(doc, c, e.team, IF here = 1 THEN 1 ELSE here - 1)
               [] e.op = "down"   -> Move(doc, c, e.team, here + 1)
               [] e.op = "move"   -> Move(doc, c, e.team, e.to)
               [] e.op = "cross"  -> Set("crossed", e.to)
               [] e.op = "tag" /\ e.to # None -> Set("tag", e.to)
               [] e.op = "tag" /\ e.to = None ->
                      IF list[e.team].tag = None THEN None
                      ELSE [items |-> {},
                            gone |-> {LastWrite(doc, Field(pick.name, "tag")).name}]
=============================================================================
