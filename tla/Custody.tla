------------------------------ MODULE Custody ------------------------------
(***************************************************************************)
(* What the outbox promises a scout, whatever the network, the schedule    *)
(* and the leads do: a form saved on a device is in the device's hands     *)
(* until it is in the Pi's, and once the Pi has it, as an observation or   *)
(* as a refusal kept for a lead scout (C10), it is never handed back or    *)
(* dropped.                                                                *)
(***************************************************************************)
CONSTANT Record

VARIABLE custody   \* who answers for each record

Custodian == {"nobody", "device", "pi"}

TypeOK == custody \in [Record -> Custodian]

Init == custody = [r \in Record |-> "nobody"]

\* The device saves its file, with new forms in its outbox.
TakeIn(S) ==
    /\ \A r \in S : custody[r] = "nobody"
    /\ custody' = [r \in Record |-> IF r \in S THEN "device" ELSE custody[r]]

\* The Pi records a form, or keeps its refusal.
HandOver(r) ==
    /\ custody[r] # "pi"
    /\ custody' = [custody EXCEPT ![r] = "pi"]

Next == \/ \E S \in SUBSET Record : TakeIn(S)
        \/ \E r \in Record : HandOver(r)

Safety == Init /\ [][Next]_custody
=============================================================================
