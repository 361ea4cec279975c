----------------------------- MODULE Assignments -----------------------------
(***************************************************************************)
(* The assignment grid of one event (L1, L2, L13): lead scouts set a match *)
(* by hand, clear, and have the rest handed out, while the schedule is     *)
(* revised and played and scouts record what they watch.                   *)
(*                                                                         *)
(*   handlers   tt-web/src/assignments.rs                                  *)
(*   storage    tt-repo-sqlite/src/assignments.rs, one call a transaction  *)
(*                                                                         *)
(* Every storage call of a handler is a step of its own: the pool has one  *)
(* connection, and the handler waits for each.                             *)
(***************************************************************************)
EXTENDS Rota

CONSTANTS
    Scout,         \* scouts; with Tablet, everyone People knows
    Ask,           \* requests under way at a time
    FirstSchedule, \* the schedule as first published
    Revised,       \* bound: the teams each match may be given later
    Edited,        \* bound: the matches set by hand, and played while they are
    Named,         \* bound: who is named by hand
    Pools,         \* bound: the pools a lead may tick
    AnyPools,      \* bound: the pools an algorithm is asked about
    Limits         \* bound: the matches a lead asks to have handed out

VARIABLES
    schedule,      \* the event's matches
    rows,          \* scout_assignments
    sightings,     \* stored observations that are not declined
    ask,           \* each request: what it has read, and has still to write
    trouble        \* what has happened that nobody guards against

rotaVars == <<schedule, rows, sightings, ask, trouble>>

Match    == 1..Len(FirstSchedule)
Robot    == UNION {Teams(FirstSchedule[i]) \cup UNION {Range(s) : s \in Revised[i]} : i \in Match}
Assignee == Scout \cup Tablet
Job(i, t, k) == [match |-> i, team |-> t, who |-> k]

\* A match that is being saved.
MatchSave ==
    [at : {"named", "set", "unassign"}, match : Match,
     chosen : UNION {[T -> Assignee \cup {None}] : T \in SUBSET Robot},
     seen : {<<T>> : T \in SUBSET Robot}, todo : SUBSET Robot, stale : BOOLEAN]

ASSUME AssignmentsAssumption ==
    /\ None \notin Assignee \cup Ask \cup MatchSave
    /\ Scout \cap Tablet = {} /\ Edited \subseteq Match /\ Named \subseteq Assignee
    /\ FirstSchedule \in Seq([teams : Seq(Nat), played : BOOLEAN])
    /\ \A i \in Match : Revised[i] \subseteq Seq(Nat)
    /\ \A pool \in Pools \cup AnyPools :
           /\ pool \in Seq(Assignee)
           /\ \A n, m \in 1..Len(pool) : pool[n] = pool[m] => n = m

\* A request: stale once anyone has written since it first read.
Request(at, i, chosen, seen, todo, stale) ==
    [at |-> at, match |-> i, chosen |-> chosen, seen |-> seen, todo |-> todo, stale |-> stale]

RotaInit ==
    /\ schedule = FirstSchedule
    /\ rows = {} /\ sightings = {}
    /\ ask = [q \in Ask |-> None]
    /\ trouble = {}

Sighting == [match : Match, team : Robot, scout : Scout, device : Tablet \cup {None}]

\* A day later: any grid that saves and distributions can leave, and some of
\* the schedule played.  Bound: when all of it is, at most one robot recorded.
GridInit ==
    /\ \E n \in 0..Len(FirstSchedule) :
           schedule = [i \in Match |-> [FirstSchedule[i] EXCEPT !.played = i <= n]]
    /\ \E on \in [UNION {{i} \X Teams(FirstSchedule[i]) : i \in Match} -> Assignee \cup {None}] :
           rows = {Job(p[1], p[2], on[p]) : p \in {x \in DOMAIN on : on[x] # None}}
    /\ \/ sightings = {}
       \/ /\ \A i \in Match : schedule[i].played
          /\ \E s \in {x \in Sighting : x.team \in Teams(FirstSchedule[x.match])} : sightings = {s}
    /\ ask = [q \in Ask |-> None]
    /\ trouble = {"halfway"}

\* Everyone else's reading is out of date.
Outdate(asks, writer) ==
    [q \in Ask |-> IF asks[q] = None \/ q = writer THEN asks[q] ELSE [asks[q] EXCEPT !.stale = TRUE]]

Late(q) == IF ask[q].stale THEN {"overlap"} ELSE {}

\* Mutant: the old rows stay.
SetAssignmentsBeside(set) == rows \cup set

\* set_assignments: each robot's row is replaced, all or none.
SetAssignments(set) ==
    {a \in rows : \A s \in set : s.match # a.match \/ s.team # a.team} \cup set

-----------------------------------------------------------------------------
(* save_match. *)

\* load_match.  The post names the whole match or one of its robots; what it
\* says of robots not in the match is ignored.
SaveMatch(q, i, chosen) ==
    /\ ask[q] = None
    /\ ask' = [ask EXCEPT ![q] = Request("named", i, chosen, <<Teams(schedule[i])>>, {}, FALSE)]
    /\ UNCHANGED <<schedule, rows, sightings, trouble>>

Posts(i) ==
    LET robots == Teams(schedule[i])
    IN  UNION {[T -> Named \cup {None}] : T \in {{t} : t \in robots} \cup {robots}}

Picked(a) == {Job(a.match, t, a.chosen[t]) : t \in {u \in DOMAIN a.chosen : a.chosen[u] # None}}
Blank(a)  == {t \in DOMAIN a.chosen : a.chosen[t] = None}

\* Mutant: the robots a post leaves alone do not count.
CheckMatchAlone(q) ==
    /\ ask[q] # None /\ ask[q].at = "named"
    /\ LET a    == ask[q]
           here == {r \in rows : r.match = a.match}
       IN  ask' = IF Doubled(Picked(a)) # {} THEN [ask EXCEPT ![q] = None]
                  ELSE [ask EXCEPT ![q].at = "set",
                            ![q].todo = Blank(a) \cup ({r.team : r \in here} \ a.seen[1])]
    /\ UNCHANGED <<schedule, rows, sightings, trouble>>

\* event_assignments, and the check that nobody is on two robots: refused, or
\* what to set and what to take off, robots that have left among them.
CheckMatch(q) ==
    /\ ask[q] # None /\ ask[q].at = "named"
    /\ LET a    == ask[q]
           here == {r \in rows : r.match = a.match}
           kept == {r \in here : r.team \in a.seen[1] \ DOMAIN a.chosen}
       IN  ask' = IF Doubled(Picked(a) \cup kept) # {} THEN [ask EXCEPT ![q] = None]
                  ELSE [ask EXCEPT ![q].at = "set",
                            ![q].todo = Blank(a) \cup ({r.team : r \in here} \ a.seen[1])]
    /\ UNCHANGED <<schedule, rows, sightings, trouble>>

SetMatch(q) ==
    /\ ask[q] # None /\ ask[q].at = "set"
    /\ rows' = SetAssignments(Picked(ask[q]))
    /\ ask' = [Outdate(ask, q) EXCEPT
                ![q] = IF ask[q].todo = {} THEN None ELSE [ask[q] EXCEPT !.at = "unassign"]]
    /\ trouble' = trouble \cup Late(q)
    /\ UNCHANGED <<schedule, sightings>>

\* unassign, one robot after another.
Unassign(q, t) ==
    /\ ask[q] # None /\ ask[q].at = "unassign" /\ t \in ask[q].todo
    /\ rows' = {a \in rows : a.match # ask[q].match \/ a.team # t}
    /\ ask' = [Outdate(ask, q) EXCEPT
                ![q] = IF ask[q].todo = {t} THEN None ELSE [ask[q] EXCEPT !.todo = @ \ {t}]]
    /\ trouble' = trouble \cup Late(q)
    /\ UNCHANGED <<schedule, sightings>>

\* The storage stops answering, or the Pi goes down: what is set stays set.
Interrupted(q) ==
    /\ ask[q] # None
    /\ trouble' = trouble \cup (IF ask[q].at = "unassign" THEN {"halfway"} ELSE {})
    /\ ask' = [ask EXCEPT ![q] = None]
    /\ UNCHANGED <<schedule, rows, sightings>>

-----------------------------------------------------------------------------
(* clear_match, clear_all: one call each. *)

ClearMatch(i) ==
    /\ \E a \in rows : a.match = i
    /\ rows' = {a \in rows : a.match # i}
    /\ ask' = Outdate(ask, None)
    /\ UNCHANGED <<schedule, sightings, trouble>>

ClearAll ==
    /\ rows # {}
    /\ rows' = {}
    /\ ask' = Outdate(ask, None)
    /\ UNCHANGED <<schedule, sightings, trouble>>

-----------------------------------------------------------------------------
(* distribute: the schedule, the assignments, and then the picks. *)

DistributeFrom(q, pool, limit) ==
    /\ ask[q] = None
    /\ ask' = [ask EXCEPT ![q] = Request("pool", limit, pool, schedule, {}, FALSE)]
    /\ UNCHANGED <<schedule, rows, sightings, trouble>>

HandOut(q) ==
    /\ ask[q] # None /\ ask[q].at = "pool"
    /\ ask' = [ask EXCEPT ![q] = Request("hand", @.match, <<>>, <<>>,
                    Distribute(@.seen, rows, @.chosen, @.match), @.stale)]
    /\ UNCHANGED <<schedule, rows, sightings, trouble>>

SetHanded(q) ==
    /\ ask[q] # None /\ ask[q].at = "hand"
    /\ rows' = SetAssignments(ask[q].todo)
    /\ ask' = [Outdate(ask, q) EXCEPT ![q] = None]
    /\ trouble' = trouble \cup Late(q)
    /\ UNCHANGED <<schedule, sightings>>

-----------------------------------------------------------------------------
(* What goes on around the grid. *)

\* The upstream sync: a match is revised, which may bring back a robot that
\* somebody was once assigned.
Revise(i, teams) ==
    /\ ~schedule[i].played /\ teams # schedule[i].teams
    /\ schedule' = [schedule EXCEPT ![i].teams = teams]
    /\ ask' = Outdate(ask, None)
    /\ trouble' = trouble \cup
            (IF \E a \in rows : a.match = i /\ a.team \in Range(teams) \ Teams(schedule[i])
             THEN {"return"} ELSE {})
    /\ UNCHANGED <<rows, sightings>>

Play(i) ==
    /\ ~schedule[i].played /\ \A j \in 1..(i - 1) : schedule[j].played
    /\ schedule' = [schedule EXCEPT ![i].played = TRUE]
    /\ ask' = Outdate(ask, None)
    /\ UNCHANGED <<rows, sightings, trouble>>

\* Bound: nothing is followed past the first trouble.
RotaNext ==
    /\ trouble = {}
    /\ \/ \E q \in Ask :
            \/ \E i \in Edited : \E chosen \in Posts(i) : SaveMatch(q, i, chosen)
            \/ CheckMatch(q) \/ SetMatch(q)
            \/ \E t \in Robot : Unassign(q, t)
            \/ \E pool \in Pools, limit \in Limits : DistributeFrom(q, pool, limit)
            \/ HandOut(q) \/ SetHanded(q) \/ Interrupted(q)
       \/ \E i \in Match : ClearMatch(i)
       \/ ClearAll
       \/ \E i \in Match : \E teams \in Revised[i] : Revise(i, teams)
       \/ \E i \in Edited : Play(i)

RotaAlone == RotaInit /\ [][RotaNext]_rotaVars

-----------------------------------------------------------------------------
(* Properties. *)

RotaTypeOK ==
    /\ rows \subseteq [match : Match, team : Robot, who : Assignee]
    /\ \A a, b \in rows : a.match = b.match /\ a.team = b.team => a = b
    /\ sightings \subseteq Sighting
    /\ trouble \subseteq {"overlap", "halfway", "return"}

InMatch(i) == {a \in rows : a.match = i /\ a.team \in Teams(schedule[i])}

\* Nobody is down for two robots of a match, unless a request wrote over what
\* changed after it read, a save was cut off, or the schedule brought a robot
\* back.  A save under way may pass through it.
NobodyDoubled ==
    trouble = {} /\ (\A q \in Ask : ask[q] # None => ask[q].at # "unassign") =>
        \A i \in Match : Doubled(InMatch(i)) = {}

\* What a distribution writes goes to robots nobody has.
HandsOutOpenRobots ==
    [][\A q \in Ask : ask[q] # None /\ ask[q].at = "hand" /\ rows' # rows /\ ask'[q] = None =>
            \A new \in ask[q].todo, old \in rows :
                ~(new.match = old.match /\ new.team = old.team)]_rotaVars

\* Bound: the algorithms are asked about a grid nothing is observed of yet, while
\* no request is under way.
AtRest == sightings = {} /\ ask = [q \in Ask |-> None]

\* From one match filled less to one more: nobody loses a robot, nobody gets a
\* second one of a match, none of the match stays open while somebody in the
\* pool is free, and who is tired gets one only if nobody could rest them.
FairStep(old, new, pool, filled) ==
    \A i \in Match :
        LET fresh == {t \in DOMAIN new[i] : new[i][t] # old[i][t]}
        IN  /\ \A t \in fresh :
                  /\ old[i][t] = None /\ ~OnDuty(old, i, new[i][t])
                  /\ \A u \in fresh : new[i][t] = new[i][u] => t = u
                  /\ \/ RunThrough(old, i, new[i][t]) <= LongestRun
                     \/ \A k \in Range(pool) : OnDuty(new, i, k) \/ RunThrough(old, i, k) > LongestRun
            /\ i \in filled =>
                  \/ \A t \in DOMAIN new[i] : new[i][t] # None
                  \/ \A k \in Range(pool) : OnDuty(new, i, k)

\* Whatever the grid holds: distributing takes no robot from anyone, puts
\* nobody on a second robot of a match, leaves no robot of a match it fills
\* open while somebody in the pool is free, and gives nobody a match too many
\* in a row while somebody else in the pool could rest them.
DealtFairly ==
    AtRest => \A pool \in AnyPools, limit \in {n \in Match : Cardinality(ToFill(schedule, n)) = n} :
        FairStep(Dealt(schedule, rows, pool, limit - 1), Dealt(schedule, rows, pool, limit),
                 pool, ToFill(schedule, limit))

\* On more than one robot of match i.
Twice(duties, i) ==
    {k \in Assignee : \E t, u \in DOMAIN duties[i] : t # u /\ duties[i][t] = k /\ duties[i][u] = k}

Relieved(was, result) ==
    /\ \A i \in Match : Twice(result.duties, i) \subseteq Twice(was, i)
    /\ \A s \in Range(result.said) :
          s.to # None /\ result.duties[s.match][s.team] = s.to =>
              RunThrough(result.duties, s.match, s.to) <= LongestRun

\* Whatever the grid holds: taking all of rotation's suggestions puts nobody
\* on two robots of a match who was not before, and nobody who takes a robot
\* over ends in a run too long.
SuggestionsHold ==
    AtRest => \A relief \in AnyPools :
        Relieved(Duties(schedule, rows), Rotation(schedule, rows, relief))

\* A robot the grid shows as missed is on the agenda of whoever it was given
\* to, as the account or on the tablet, and in their tally: no hole in the
\* data is nobody's.
HolesAreSomebodys ==
    \A i \in Match, k \in Assignee, who \in Scout :
        \A a \in {r \in InMatch(i) : r.who = k} :
            SlotState(schedule, rows, sightings, i, a.team) = "missed" =>
                LET recorded == {<<s.match, s.team>> : s \in {x \in sightings : x.scout = who}}
                IN  /\ k \in Tablet \/ k = who =>
                           a \in Agenda(schedule, rows, {who, k}, recorded).missed
                    /\ Tally(schedule, rows, sightings, k).missed > 0

\* A whole event handed out at once to more people than a match has robots,
\* no more robots than LongestRun, is even to within a match, and gives
\* rotation nothing to say.
FreshRotaIsFair ==
    rows = {} /\ schedule = FirstSchedule =>
        \A n \in 1..6, robots \in 1..LongestRun, people \in 2..(LongestRun + 2) :
            robots < people =>
                LET fresh == [i \in 1..n |-> [teams |-> [x \in 1..robots |-> x], played |-> FALSE]]
                    pool  == [x \in 1..people |-> x]
                    dealt == Dealt(fresh, {}, pool, n)
                IN  /\ \A j, k \in 1..people : Load(dealt, j) <= Load(dealt, k) + 1
                    /\ Rotation(fresh, RowsOf(dealt), pool).said = <<>>
=============================================================================
