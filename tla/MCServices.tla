----------------------------- MODULE MCServices -----------------------------
(* The Pi's background services, side by side: they share no state that      *)
(* either reads of the other, so a behaviour moves one of them and leaves the *)
(* others as they start.                                                     *)
EXTENDS ChangeFeed, UpstreamSync, Backups, TLC

CONSTANTS p1, g1, e1, b1

VARIABLE part

serviceVars == <<part, feedVars, upstreamVars, backupVars>>

TwoMatchRows == [matches |-> 2, stats |-> 1]
MatchesAndRankings == {{"matches", "rankings"}}

\* The upstream log has all it will have; n changes are there; no connection
\* breaks and no clock is set back.
LateInTheDay(opened, n) ==
    /\ changes = [i \in 1..n |-> [shown |-> TRUE, era |-> SetBacks]]
    /\ upstream = [i \in 1..MaxUpstream |-> TRUE]
    /\ era = SetBacks /\ settled = {}
    /\ tails = [s \in Stream |-> None]
    /\ pages = [p \in Page |-> IF p \in opened THEN BlankPage ELSE [BlankPage EXCEPT !.at = "shut"]]
    /\ breaks = Breaks

BackupsOff == BackupInit /\ clock = 0

Init ==
    \/ part = "backups" /\ UpstreamInit("off", 0, {}, {}, 0) /\ FeedInit({}) /\ BackupInit
    \/ part = "feed" /\ BackupsOff /\ UpstreamInit("off", 0, {}, {}, 0)
       /\ (FeedInit({p1}) \/ LateInTheDay({g1}, 0) \/ LateInTheDay({p1, g1}, 1))
    \/ part = "upstream" /\ BackupsOff /\ FeedInit({})
       /\ \/ UpstreamInit("boot", 0, {}, {}, 0)
          \/ UpstreamInit("loop", MaxVersion, {e1}, {b1}, 0)
          \/ UpstreamInit("loop", 0, {e1}, {b1}, MaxMishaps)

Next ==
    /\ part' = part
    /\ \/ part = "feed" /\ FeedNext /\ UNCHANGED <<upstreamVars, backupVars>>
       \/ part = "upstream" /\ UpstreamNext /\ UNCHANGED <<feedVars, backupVars>>
       \/ part = "backups" /\ BackupNext /\ UNCHANGED <<feedVars, upstreamVars>>

Spec == Init /\ [][Next]_serviceVars /\ FeedFairness /\ UpstreamFairness

\* What each service keeps is of its kind.
ServicesTypesOK == FeedTypeOK /\ UpstreamTypeOK /\ BackupTypeOK
=============================================================================
