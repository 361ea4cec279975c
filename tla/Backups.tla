------------------------------- MODULE Backups -------------------------------
(***************************************************************************)
(* The Pi's timed snapshots (Q4): taken under a partial name, renamed,     *)
(* synced, and pruned by the stamps in their names, while the power may go *)
(* and the clock may come back years out.                                  *)
(*                                                                         *)
(*   tt-repo-sqlite/src/backup.rs, tt-web/src/backups.rs                   *)
(*                                                                         *)
(* Time is in turns of ten minutes.  Snapshots are numbered as they are    *)
(* taken; the folder is on the SSD, which may be missing at any turn.      *)
(***************************************************************************)
EXTENDS Integers, FiniteSets, FiniteSetsExt, Absent

CONSTANTS
    KeepFor,       \* KEEP
    KeepAtLeast,   \* KEEP_AT_LEAST
    MaxStamp,      \* bound: how far the clock goes
    MaxTaken,      \* bound: snapshots begun
    MaxBoots       \* bound: starts of the Pi

ASSUME BackupsAssumption ==
    /\ KeepFor \in Nat /\ KeepAtLeast \in Nat
    /\ MaxStamp \in Nat /\ MaxTaken \in Nat /\ MaxBoots \in Nat
    /\ None \notin Nat

VARIABLES
    clock,    \* the Pi's
    folder,   \* the snapshot under each name: a name is its stamp
    turn,     \* the turn under way: what it does, its `now`, what it has to remove
    loose,    \* a rename that is not durable yet: the name, and what it had before
    taken, boots,
    last,     \* the last snapshot that was reported done
    most      \* the most snapshots there have been

backupVars == <<clock, folder, turn, loose, taken, boots, last, most>>

Stamp   == 0..MaxStamp
InOrder == {s \in Stamp : folder[s] # None}

Turn(step, at, old) == [step |-> step, at |-> at, old |-> old]
NoTurn == Turn("wait", 0, {})

\* Mutant: the newest few by name are kept, and nothing else.
ToPruneAllButNewest(names, at) ==
    {s \in names : Cardinality({o \in names : o > s}) >= KeepAtLeast}
\* to_prune: the old ones, but for the newest few by name.
ToPrune(names, at) ==
    {s \in names : Cardinality({o \in names : o > s}) >= KeepAtLeast /\ at - s > KeepFor}

\* spawn's loop: VACUUM INTO a partial, which no name is given to yet.
Begin ==
    /\ turn.step = "wait" /\ taken < MaxTaken
    /\ turn' = Turn("vacuum", clock, {})
    /\ taken' = taken + 1
    /\ UNCHANGED <<clock, folder, loose, boots, last, most>>

\* The folder missing, the disk full: the next turn tries again.
Fail ==
    /\ turn.step \in {"vacuum", "prune"}
    /\ turn' = NoTurn
    /\ UNCHANGED <<clock, folder, loose, taken, boots, last, most>>

\* The partial, complete and synced, is given its name.
Rename ==
    /\ turn.step = "vacuum"
    /\ loose' = [name |-> turn.at, had |-> folder[turn.at]]
    /\ folder' = [folder EXCEPT ![turn.at] = taken]
    /\ turn' = Turn("renamed", turn.at, {})
    /\ UNCHANGED <<clock, taken, boots, last, most>>

\* The folder is synced; prune reads it.
Done ==
    /\ turn.step = "renamed"
    /\ loose' = None
    /\ last' = taken
    /\ most' = IF Cardinality(InOrder) > most THEN Cardinality(InOrder) ELSE most
    /\ turn' = Turn("prune", turn.at, ToPrune(InOrder, turn.at))
    /\ UNCHANGED <<clock, folder, taken, boots>>

\* One file after another, oldest first.
RemoveOld ==
    /\ turn.step = "prune" /\ turn.old # {}
    /\ folder' = [folder EXCEPT ![Min(turn.old)] = None]
    /\ turn' = Turn("prune", turn.at, turn.old \ {Min(turn.old)})
    /\ UNCHANGED <<clock, loose, taken, boots, last, most>>

Rest ==
    /\ turn.step = "prune" /\ turn.old = {}
    /\ turn' = NoTurn
    /\ UNCHANGED <<clock, folder, loose, taken, boots, last, most>>

\* The power goes: a rename may be undone.  Without its clock the Pi is back at
\* any time.
Reboot ==
    /\ boots < MaxBoots
    /\ boots' = boots + 1
    /\ clock' \in Stamp
    /\ \/ folder' = folder
       \/ loose # None /\ folder' = [folder EXCEPT ![loose.name] = loose.had]
    /\ loose' = None
    /\ turn' = NoTurn
    /\ UNCHANGED <<taken, last, most>>

TenMinutesPass ==
    /\ clock < MaxStamp
    /\ clock' = clock + 1
    /\ UNCHANGED <<folder, turn, loose, taken, boots, last, most>>

BackupInit ==
    /\ clock \in Stamp
    /\ folder = [s \in Stamp |-> None]
    /\ turn = NoTurn /\ loose = None
    /\ taken = 0 /\ boots = 0 /\ last = 0 /\ most = 0

BackupNext ==
    \/ Begin \/ Fail \/ Rename \/ Done \/ RemoveOld \/ Rest
    \/ Reboot \/ TenMinutesPass

BackupSpec == BackupInit /\ [][BackupNext]_backupVars

-----------------------------------------------------------------------------
(* Properties. *)

\* Every variable has its type; a rename waits only to be made durable.
BackupTypeOK ==
    /\ clock \in Stamp
    /\ folder \in [Stamp -> 1..taken \cup {None}]
    /\ turn \in [step : {"wait", "vacuum", "renamed", "prune"}, at : Stamp, old : SUBSET Stamp]
    /\ loose \in [name : Stamp, had : 1..taken \cup {None}] \cup {None}
    /\ loose # None => turn.step = "renamed"
    /\ taken \in 0..MaxTaken /\ boots \in 0..MaxBoots
    /\ last \in 0..taken /\ most \in 0..(MaxStamp + 1)

\* The snapshot that was done last, or one begun after it, is in the folder,
\* and there are never fewer than a few once there have been: whatever the
\* clock said then or says now, and wherever the power goes.
LastCopiesStay ==
    /\ last # 0 => \E s \in InOrder : folder[s] >= last
    /\ Cardinality(InOrder) >= (IF most < KeepAtLeast THEN most ELSE KeepAtLeast)
=============================================================================
