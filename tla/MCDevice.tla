------------------------------ MODULE MCDevice ------------------------------
(* What a device keeps beside its outbox, side by side: its courier, its copy *)
(* of the Pi's data and its token.  A behaviour moves one and leaves the      *)
(* others as they start.  The courier moves in two parts, one tablet through  *)
(* crashes, files and pulls, and two tablets feeding one Pi.                 *)
EXTENDS MCCourier, Replica, Tokens, TLC

CONSTANTS o1, teal

VARIABLE part

deviceVars == <<part, vars, replicaVars, tokenVars>>

\* What TBA answers matters only in being the same or not.
Swapped == Permutations(Body)

TealsOwn == [k \in RowKey |-> teal]

DeviceInit == part \in {"files", "tablets", "copy", "tokens"} /\ Init /\ ReplicaInit /\ TokenInit

\* The first tablet alone: the second neither runs nor goes.
Alone == tick'[t2] = tick[t2] /\ pull'[t2] = pull[t2] /\ file'[t2] = file[t2]

\* Two tablets for the first two units of time, nothing going wrong.
Both == pull' = pull /\ mishaps' = mishaps /\ clock' <= 2

Within == IF part = "files" THEN Alone ELSE Both

DeviceNext ==
    /\ part' = part
    /\ \/ part \in {"files", "tablets"} /\ Next /\ Within /\ UNCHANGED <<replicaVars, tokenVars>>
       \/ part = "copy" /\ ReplicaNext /\ UNCHANGED <<vars, tokenVars>>
       \/ part = "tokens" /\ TokenNext /\ UNCHANGED <<vars, replicaVars>>

DeviceSpec == DeviceInit /\ [][DeviceNext]_deviceVars

\* What a device keeps is of its kind, there are cursors only with a file, and
\* the Pi signs with the key it keeps.
DeviceTypesOK == TypeOK /\ ReplicaTypeOK /\ TokenTypeOK
=============================================================================
