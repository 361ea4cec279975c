------------------------------- MODULE MCBoard -------------------------------
(* The pick list, the assignment grid, the handoff of forms by QR, the        *)
(* answers in a form side by side: they share no state, so a behaviour moves  *)
(* one of them and leaves the others as they start.                          *)
EXTENDS PickList, Assignments, Handoff, SeasonForm, TLC

CONSTANTS s1, s2, t1, q1, q2, u1, u2

VARIABLE part

TwoListed == <<2, 1>>

Unplayed(teams) == [teams |-> teams, played |-> FALSE]
FourMatches     == <<Unplayed(<<1, 2>>), Unplayed(<<1>>), Unplayed(<<3>>), Unplayed(<<2>>)>>
FirstRevised    == <<{<<1, 3>>, <<1, 2>>}, {}, {}, {}>>
TwoPools        == {<<s1, s2>>, <<t1, s2, s1>>}
TabletAndScout  == {<<t1, s1>>}

\* The grid beside the others: nobody is assigned, and a scout watched all the
\* same, so that nothing is asked of the algorithms again and again.
RotaAside ==
    /\ schedule = FirstSchedule /\ rows = {} /\ ask = [q \in Ask |-> None] /\ trouble = {}
    /\ sightings = {[match |-> 1, team |-> 1, scout |-> s1, device |-> None]}

Init ==
    /\ PickInit /\ HandoffInit
    /\ \/ part \in {"picks", "handoff"} /\ RotaAside /\ SheetBlank
       \/ part = "rota" /\ RotaInit /\ SheetBlank
       \/ part = "grid" /\ GridInit /\ SheetBlank
       \/ part = "form" /\ RotaAside /\ SheetInit

Next ==
    /\ UNCHANGED <<part, sheetVars>>
    /\ \/ part = "picks" /\ PickNext /\ UNCHANGED <<rotaVars, handoffVars>>
       \/ part = "rota" /\ RotaNext /\ UNCHANGED <<pickVars, handoffVars>>
       \/ part = "handoff" /\ HandoffNext /\ UNCHANGED <<pickVars, rotaVars>>

boardVars == <<part, pickVars, rotaVars, handoffVars, sheetVars>>

Spec == Init /\ [][Next]_boardVars

\* The assignment grid alone.
RotaSpec ==
    /\ part = "rota" /\ PickInit /\ RotaInit /\ HandoffInit /\ SheetBlank
    /\ [][Next]_boardVars

\* The forms alone, every one as it was filled in.
FormSpec ==
    /\ part = "form" /\ PickInit /\ RotaInit /\ HandoffInit /\ SheetInit
    /\ [][Next]_boardVars

Alike == Permutations({q1, q2}) \cup Permutations({u1, u2})

\* Each row has the values its column may have, one row to a robot, and a
\* lead's request has the change it made; each draft and record is a version
\* of its form.
BoardTypesOK == PickTypeOK /\ RotaTypeOK /\ HandoffTypeOK

\* What is promised of distribute and rotation together, of a fresh rota of any
\* size: it is even; and of every form, that its answers read back however they
\* travel.
EveryFreshRotaIsFair == part = "rota" /\ AtRest => FreshRotaIsFair
EveryFormReadsBack   == part = "form" => FormReadsBack
=============================================================================
