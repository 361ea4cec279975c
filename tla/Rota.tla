-------------------------------- MODULE Rota --------------------------------
(***************************************************************************)
(* Who scouts which robot in which match (L1-L6, L13), as the operators of *)
(* tt-core/src/assignments.rs.                                             *)
(*                                                                         *)
(* A schedule is the event's matches in playing order, each with its teams *)
(* in the order of their stations.  Assignments are a set of [match, team, *)
(* who], matches by their place in the schedule.  Duties are the part of   *)
(* it that counts: [match][team] is who watches, or None.                  *)
(***************************************************************************)
EXTENDS Integers, Sequences, FiniteSets, SequencesExt, Absent

CONSTANTS
    LongestRun,  \* LONGEST_RUN
    Uneven,      \* UNEVEN
    Tablet       \* assignees that are tablets: everyone else is a scout

ASSUME RotaAssumption == LongestRun \in Nat \ {0} /\ Uneven \in Nat \ {0}

Teams(m)     == Range(m.teams)

\* Mutant: assignments to robots that have left their match count too.
DutiesAnyRobot(schedule, rows) ==
    [i \in 1..Len(schedule) |->
        [t \in Teams(schedule[i]) \cup {a.team : a \in {x \in rows : x.match = i}} |->
            IF \E a \in rows : a.match = i /\ a.team = t
            THEN (CHOOSE a \in rows : a.match = i /\ a.team = t).who ELSE None]]

Duties(schedule, rows) ==
    [i \in 1..Len(schedule) |->
        [t \in Teams(schedule[i]) |->
            IF \E a \in rows : a.match = i /\ a.team = t
            THEN (CHOOSE a \in rows : a.match = i /\ a.team = t).who ELSE None]]

OnDuty(duties, i, k) == \E t \in DOMAIN duties[i] : duties[i][t] = k

Load(duties, k) ==
    Cardinality({p \in UNION {{i} \X DOMAIN duties[i] : i \in DOMAIN duties} :
                     duties[p[1]][p[2]] = k})

\* run_through: the matches in a row around i, with i.
RunThrough(duties, i, k) ==
    Cardinality({j \in DOMAIN duties :
                     \A x \in DOMAIN duties :
                         (j <= x /\ x < i) \/ (i < x /\ x <= j) => OnDuty(duties, x, k)})

-----------------------------------------------------------------------------
(* distribute. *)

\* Who in the pool has no robot of match i: where they come in it, and what
\* they are ordered by.
Free(duties, i, pool) ==
    {[who |-> pool[n], at |-> n, load |-> Load(duties, pool[n]),
      tired |-> RunThrough(duties, i, pool[n]) > LongestRun] :
        n \in {x \in 1..Len(pool) : ~OnDuty(duties, i, pool[x])}}

\* Mutant: rest does not come first.
SoonerByLoad(f, g) == f.load < g.load \/ (f.load = g.load /\ f.at < g.at)

\* Mutant: nobody looks at who has how many.
SoonerInTurn(f, g) == (~f.tired /\ g.tired) \/ (f.tired = g.tired /\ f.at < g.at)

\* The order in which the free are handed robots.
Sooner(f, g) ==
    \/ ~f.tired /\ g.tired
    \/ f.tired = g.tired /\ (f.load < g.load \/ (f.load = g.load /\ f.at < g.at))

\* Match i's open robots, in order, go to the free, in theirs.
Deal(schedule, duties, i, pool) ==
    LET teams == schedule[i].teams
        open  == {x \in DOMAIN teams : duties[i][teams[x]] = None}
        free  == Free(duties, i, pool)
        Gets(t, f) == \E x \in open :
            /\ teams[x] = t
            /\ Cardinality({y \in open : y < x}) = Cardinality({g \in free : Sooner(g, f)})
    IN  [duties EXCEPT ![i] = [t \in DOMAIN @ |->
            IF \E f \in free : Gets(t, f) THEN (CHOOSE f \in free : Gets(t, f)).who ELSE @[t]]]

\* The next limit unplayed matches.
ToFill(schedule, limit) ==
    {i \in 1..Len(schedule) :
        /\ ~schedule[i].played
        /\ Cardinality({j \in 1..i : ~schedule[j].played}) <= limit}

Dealt(schedule, rows, pool, limit) ==
    LET after[i \in 0..Len(schedule)] ==
            IF i = 0 THEN Duties(schedule, rows)
            ELSE IF i \in ToFill(schedule, limit) THEN Deal(schedule, after[i - 1], i, pool)
            ELSE after[i - 1]
    IN  after[Len(schedule)]

RowsOf(duties) ==
    UNION {{[match |-> i, team |-> t, who |-> duties[i][t]] :
                t \in {u \in DOMAIN duties[i] : duties[i][u] # None}} : i \in DOMAIN duties}

\* The rows to write: those dealt.
Distribute(schedule, rows, pool, limit) ==
    RowsOf(Dealt(schedule, rows, pool, limit)) \ RowsOf(Duties(schedule, rows))

\* doubled: who is on two of the robots of a match.
Doubled(chosen) ==
    {k \in {c.who : c \in chosen} : \E c, d \in chosen : c.team # d.team /\ c.who = k /\ d.who = k}

-----------------------------------------------------------------------------
(* rotation. *)

Smallest(S) == CHOOSE x \in S : \A y \in S : x <= y

\* The matches of k's run that starts at first.
RunFrom(duties, first, k) ==
    {j \in DOMAIN duties : j >= first /\ \A x \in first..j : OnDuty(duties, x, k)}
Starts(duties, k) ==
    {i \in DOMAIN duties : OnDuty(duties, i, k) /\ (i = 1 \/ ~OnDuty(duties, i - 1, k))}

\* long_run: of the first run that goes past the limit in a match to come, that
\* match; or 0.
LongRun(schedule, duties, k) ==
    LET past(first) == {j \in RunFrom(duties, first, k) :
                            j >= first + LongestRun /\ ~schedule[j].played}
        long == {first \in Starts(duties, k) : past(first) # {}}
    IN  IF long = {} THEN 0 ELSE Smallest(past(Smallest(long)))

\* Mutant: nobody looks at who is on duty in the match already.
RelieverBusy(duties, i, from, relief) ==
    LET able == {n \in 1..Len(relief) :
                    relief[n] # from /\ RunThrough(duties, i, relief[n]) <= LongestRun}
    IN  IF able = {} THEN None
        ELSE relief[CHOOSE n \in able : \A m \in able :
                 \/ Load(duties, relief[n]) < Load(duties, relief[m])
                 \/ Load(duties, relief[n]) = Load(duties, relief[m]) /\ n <= m]

\* Who could take match i off from: the lightest, earliest in relief.
Reliever(duties, i, from, relief) ==
    LET able == {n \in 1..Len(relief) :
                    /\ relief[n] # from /\ ~OnDuty(duties, i, relief[n])
                    /\ RunThrough(duties, i, relief[n]) <= LongestRun}
    IN  IF able = {} THEN None
        ELSE relief[CHOOSE n \in able : \A m \in able :
                 \/ Load(duties, relief[n]) < Load(duties, relief[m])
                 \/ Load(duties, relief[n]) = Load(duties, relief[m]) /\ n <= m]

\* The matches to come that from has and somebody much lighter could take.
UnevenMatches(schedule, duties, from, relief) ==
    {i \in DOMAIN duties :
        /\ ~schedule[i].played /\ OnDuty(duties, i, from)
        /\ LET to == Reliever(duties, i, from, relief)
           IN  to # None /\ Load(duties, from) >= Load(duties, to) + Uneven}

\* The one suggestion a scout gets: which match, and who takes it (or None).
Suggestion(schedule, duties, from, relief) ==
    LET long   == LongRun(schedule, duties, from)
        uneven == UnevenMatches(schedule, duties, from, relief)
        Give(i) == [match |-> i, from |-> from, to |-> Reliever(duties, i, from, relief),
                    team |-> Smallest({t \in DOMAIN duties[i] : duties[i][t] = from})]
    IN  IF long # 0 THEN Give(long)
        ELSE IF uneven # {} THEN Give(Smallest(uneven)) ELSE None

Taken(duties, s) ==
    IF s = None \/ s.to = None THEN duties ELSE [duties EXCEPT ![s.match][s.team] = s.to]

\* The scouts with a robot, in the order they first appear in the schedule.
Scouts(duties) ==
    LET on == UNION {Range(duties[i]) : i \in DOMAIN duties} \ (Tablet \cup {None})
        first(k) == Smallest({i \in DOMAIN duties : OnDuty(duties, i, k)})
        lowest(k) == Smallest({t \in DOMAIN duties[first(k)] : duties[first(k)][t] = k})
        Before(k) == {j \in on : first(j) < first(k) \/ (first(j) = first(k) /\ lowest(j) < lowest(k))}
    IN  [n \in 1..Cardinality(on) |-> CHOOSE k \in on : Cardinality(Before(k)) = n - 1]

\* One scout after another, each as though the earlier suggestions were taken.
Rotation(schedule, rows, relief) ==
    LET scouts == Scouts(Duties(schedule, rows))
        after[n \in 0..Len(scouts)] ==
            IF n = 0 THEN [duties |-> Duties(schedule, rows), said |-> <<>>]
            ELSE LET was == after[n - 1]
                     s == Suggestion(schedule, was.duties, scouts[n], relief)
                 IN  [duties |-> Taken(was.duties, s),
                      said |-> IF s = None THEN was.said ELSE Append(was.said, s)]
    IN  after[Len(scouts)]

-----------------------------------------------------------------------------
(* What a scout, and the lead, are shown.  A sighting is [match, team, scout, *)
(* device].                                                                *)

\* Mutant: what the tablet was given is not on it.
AgendaOfAccount(schedule, rows, me, recorded) ==
    LET mine == {a \in rows : /\ a.who \in me \ Tablet /\ a.team \in Teams(schedule[a.match])
                              /\ <<a.match, a.team>> \notin recorded}
    IN  [missed   |-> {a \in mine : schedule[a.match].played},
         upcoming |-> {a \in mine : ~schedule[a.match].played}]

\* agenda: what any of me is assigned and has not recorded, before (missed)
\* or after (upcoming) its match is played.  recorded: (match, team) pairs.
Agenda(schedule, rows, me, recorded) ==
    LET mine == {a \in rows : /\ a.who \in me /\ a.team \in Teams(schedule[a.match])
                              /\ <<a.match, a.team>> \notin recorded}
    IN  [missed   |-> {a \in mine : schedule[a.match].played},
         upcoming |-> {a \in mine : ~schedule[a.match].played}]

SeenBy(s, k) == IF k \in Tablet THEN s.device = k ELSE s.scout = k

SlotState(schedule, rows, sightings, i, t) ==
    LET assigned == \E a \in rows : a.match = i /\ a.team = t
    IN  IF \E s \in sightings : s.match = i /\ s.team = t THEN "recorded"
        ELSE IF schedule[i].played THEN (IF assigned THEN "missed" ELSE "unscouted")
        ELSE IF assigned THEN "assigned" ELSE "open"

\* tallies: one assignee's.
Tally(schedule, rows, sightings, k) ==
    LET mine == {a \in rows : a.who = k /\ a.team \in Teams(schedule[a.match])}
        done == {a \in mine : \E s \in sightings :
                    s.match = a.match /\ s.team = a.team /\ SeenBy(s, k)}
    IN  [recorded |-> Cardinality(done),
         missed   |-> Cardinality({a \in mine \ done : schedule[a.match].played}),
         toCome   |-> Cardinality({a \in mine \ done : ~schedule[a.match].played})]
=============================================================================
