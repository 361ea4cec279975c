------------------------------ MODULE Replica ------------------------------
(***************************************************************************)
(* A device's copy of the Pi's tables (S10, C7): cut for one viewer and      *)
(* downloaded whole, brought up to date by pulls that see what their viewer  *)
(* may, and replaced when the Pi runs a newer schema (S11).                 *)
(*                                                                         *)
(*   the cut        tt-repo-sqlite/src/snapshot.rs, replication.rs           *)
(*   what is seen   tt-web/src/{snapshot,sync}.rs, tt-core/src/notes.rs      *)
(*   the log        0004_changes.sql                                        *)
(*   the device     snapshot.js, sync.js, sw.js; tt-client/src/{sync,opfs,   *)
(*                  worker}.rs                                              *)
(*                                                                         *)
(* Whoever is signed in may change at any time, the tablets being shared.   *)
(* The pages ask for every event.  The upstream log is in Courier, what a    *)
(* pulled row displaces in OutboxSync, changes hidden by a clock set back in *)
(* ChangeFeed.                                                              *)
(***************************************************************************)
EXTENDS Integers, SequencesExt, FiniteSetsExt, Absent

CONSTANTS
    NoteKey, PickKey,  \* keys of observations, with notes, and of pick list entries
    Owner,             \* the team that wrote each
    Viewer,            \* teams people sign in with
    Tab,               \* pages that may download
    PerPage,           \* changes per pull
    MaxLog

Nobody == "nobody"
LastBuild == 2         \* the newest build's schema

RowKey == NoteKey \cup PickKey

\* A row on the Pi, a row as a viewer is sent it, and a copy: whose readers are
\* the teams that have brought it up to date.
PiRow   == [version : Nat, shape : 1 .. LastBuild]
SentRow == [version : Nat, shape : 1 .. LastBuild, notes : BOOLEAN]
Copy    == [rows : [RowKey -> SentRow \cup {None}], team : Viewer, build : 1 .. LastBuild,
            readers : SUBSET Viewer, upto : Nat]

ASSUME ReplicaAssumption ==
    /\ None \notin PiRow \cup SentRow \cup Copy
    /\ PerPage \in Nat \ {0} /\ MaxLog \in Nat

VARIABLES
    build,             \* the schema of the build the Pi runs
    stored,            \* its tables
    logged,            \* its change log
    handouts,          \* the snapshots it hands out, for FRESH, by team
    holder,            \* the team of whoever is signed in, or Nobody
    loaded,            \* the schema on the pages' stamp
    downloads,         \* each page's download
    copy, meta,        \* tealteam.sqlite3, and whether tealteam-sync.json is there
    pulling            \* the service worker's pull

replicaVars == <<build, stored, logged, handouts, holder, loaded, downloads, copy, meta, pulling>>

Idle    == [at |-> "idle", snapshot |-> None]
NoPull  == [at |-> "idle", held |-> None, upto |-> 0, team |-> None]

-----------------------------------------------------------------------------
(* The Pi. *)

Reshape(rows, s) == [k \in RowKey |-> IF rows[k] = None THEN None ELSE [rows[k] EXCEPT !.shape = s]]

Record(k, row) ==
    /\ Len(logged) < MaxLog
    /\ stored' = [stored EXCEPT ![k] = row]
    /\ logged' = Append(logged, [key |-> k, row |-> row])
    /\ UNCHANGED <<build, handouts, holder, loaded, downloads, copy, meta, pulling>>

Upsert(k) == Record(k, [version |-> Len(logged) + 1, shape |-> build])
Delete(k) == stored[k] # None /\ Record(k, None)

\* The Pi restarts on a newer build, which migrates its tables.
Upgrade ==
    /\ build < LastBuild
    /\ build' = build + 1
    /\ stored' = Reshape(stored, build')
    /\ handouts' = [t \in Viewer |-> None]
    /\ UNCHANGED <<logged, holder, loaded, downloads, copy, meta, pulling>>

GoesStale(t) ==
    /\ handouts[t] # None
    /\ handouts' = [handouts EXCEPT ![t] = None]
    /\ UNCHANGED <<build, stored, logged, holder, loaded, downloads, copy, meta, pulling>>

\* Notes::for_viewer.
NotesShown(team, writer) == team # None /\ writer # None /\ team = writer

\* sync::visible: whether a viewer is sent a key's changes at all, and a row as
\* they are sent it.
Sent(k, team) == k \in PickKey => team = Owner[k]

Shown(k, row, team) ==
    IF row = None THEN None
    ELSE [version |-> row.version, shape |-> row.shape,
          notes |-> k \in NoteKey /\ NotesShown(team, Owner[k])]

\* The rows of a viewer's snapshot.
CutFor(rows, team) == [k \in RowKey |-> IF Sent(k, team) THEN Shown(k, rows[k], team) ELSE None]

\* Mutant: the cursor is read after the notes are taken out, whose updates the
\* copy's own triggers log.
CutLate(team) ==
    [rows |-> CutFor(stored, team), team |-> team, build |-> build, readers |-> {},
     upto |-> Len(logged)
              + Cardinality({k \in NoteKey : stored[k] # None /\ ~NotesShown(team, Owner[k])})]

Cut(team) ==
    [rows |-> CutFor(stored, team), team |-> team, build |-> build, readers |-> {},
     upto |-> Len(logged)]

\* Mutant: one snapshot for everyone.
HandoutToAnyone(team) ==
    IF \E t \in Viewer : handouts[t] # None
    THEN (CHOOSE h \in Range(handouts) : h # None) ELSE Cut(team)

\* Cache::get_or_build.
Handout(team) == IF handouts[team] # None THEN handouts[team] ELSE Cut(team)

-----------------------------------------------------------------------------
(* The device's pages. *)

SignIn(who) ==
    /\ who # holder
    /\ holder' = who
    /\ UNCHANGED <<build, stored, logged, handouts, loaded, downloads, copy, meta, pulling>>

\* The pages are loaded again, and their downloads end.
Reload ==
    /\ loaded # build
    /\ loaded' = build
    /\ downloads' = [b \in Tab |-> Idle]
    /\ UNCHANGED <<build, stored, logged, handouts, holder, copy, meta, pulling>>

\* bootstrapIfNeeded, on a device with no copy.
AskSnapshot(b) ==
    /\ downloads[b] = Idle /\ ~meta /\ copy = None
    /\ downloads' = [downloads EXCEPT ![b].at = "asked"]
    /\ UNCHANGED <<build, stored, logged, handouts, holder, loaded, copy, meta, pulling>>

AnswerSnapshot(b) ==
    /\ downloads[b].at = "asked"
    /\ holder # Nobody /\ loaded = build
    /\ handouts' = [handouts EXCEPT ![holder] = Handout(holder)]
    /\ downloads' = [downloads EXCEPT ![b] = [at |-> "answered",
                          snapshot |-> [Handout(holder) EXCEPT !.readers = {holder}]]]
    /\ UNCHANGED <<build, stored, logged, holder, loaded, copy, meta, pulling>>

\* The database first.
SaveSnapshot(b) ==
    /\ downloads[b].at = "answered"
    /\ copy' = downloads[b].snapshot
    /\ downloads' = [downloads EXCEPT ![b] = [at |-> "saved", snapshot |-> None]]
    /\ UNCHANGED <<build, stored, logged, handouts, holder, loaded, meta, pulling>>

SaveMeta(b) ==
    /\ downloads[b].at = "saved"
    /\ meta' = TRUE
    /\ downloads' = [downloads EXCEPT ![b] = Idle]
    /\ UNCHANGED <<build, stored, logged, handouts, holder, loaded, copy, pulling>>

\* Refused, lost, or the page closed.
EndDownload(b) ==
    /\ downloads[b] # Idle
    /\ downloads' = [downloads EXCEPT ![b] = Idle]
    /\ UNCHANGED <<build, stored, logged, handouts, holder, loaded, copy, meta, pulling>>

-----------------------------------------------------------------------------
(* The service worker's pull, on a copy of the whole file. *)

PullOpens ==
    /\ pulling = NoPull /\ copy # None
    /\ pulling' = [NoPull EXCEPT !.at = "opened", !.held = copy]
    /\ UNCHANGED <<build, stored, logged, handouts, holder, loaded, downloads, copy, meta>>

\* Mutant: the copy's schema is not looked at.
AcceptsAny(held) == TRUE

Accepts(held) == held.build = build

\* The changes that are LAG old, a page of them at most.
PullAnswered ==
    /\ pulling.at = "opened"
    /\ holder # Nobody /\ Accepts(pulling.held)
    /\ \E n \in pulling.held.upto .. Len(logged) :
            /\ n <= pulling.held.upto + PerPage
            /\ pulling' = [pulling EXCEPT !.at = "answered", !.upto = n, !.team = holder]
    /\ UNCHANGED <<build, stored, logged, handouts, holder, loaded, downloads, copy, meta>>

\* The copy is of an older schema, so a page replaces it: its next download
\* needs no absent file.
PullRefused(b) ==
    /\ pulling.at = "opened"
    /\ holder # Nobody /\ pulling.held.build < build
    /\ downloads[b] = Idle
    /\ pulling' = NoPull
    /\ downloads' = [downloads EXCEPT ![b].at = "asked"]
    /\ UNCHANGED <<build, stored, logged, handouts, holder, loaded, copy, meta>>

\* apply_change: the row the viewer was sent replaces what is held under its key.
ApplyChange(rows, c, team) ==
    IF Sent(c.key, team) THEN [rows EXCEPT ![c.key] = Shown(c.key, c.row, team)] ELSE rows

\* One change after another.
Applied(held, upto, team) ==
    LET rows[i \in held.upto .. upto] ==
            IF i = held.upto THEN held.rows ELSE ApplyChange(rows[i - 1], logged[i], team)
    IN  [held EXCEPT !.rows = rows[upto], !.upto = upto, !.readers = @ \cup {team}]

\* The changes and their cursor in one transaction, and the file written back
\* whole.  A full page asks for the next.
PullApplied ==
    /\ pulling.at = "answered"
    /\ copy' = Applied(pulling.held, pulling.upto, pulling.team)
    /\ pulling' = IF pulling.upto = pulling.held.upto + PerPage
                  THEN [NoPull EXCEPT !.at = "opened", !.held = copy'] ELSE NoPull
    /\ UNCHANGED <<build, stored, logged, handouts, holder, loaded, downloads, meta>>

\* Signed out, lost, refused, or the worker stopped.
PullEnds ==
    /\ pulling # NoPull
    /\ pulling' = NoPull
    /\ UNCHANGED <<build, stored, logged, handouts, holder, loaded, downloads, copy, meta>>

-----------------------------------------------------------------------------

ReplicaInit ==
    /\ build = 1 /\ loaded = 1
    /\ stored = [k \in RowKey |-> None] /\ logged = <<>>
    /\ handouts = [t \in Viewer |-> None]
    /\ holder = Nobody
    /\ downloads = [b \in Tab |-> Idle]
    /\ copy = None /\ meta = FALSE
    /\ pulling = NoPull

ReplicaNext ==
    \/ \E k \in RowKey : Upsert(k) \/ Delete(k)
    \/ Upgrade
    \/ \E t \in Viewer : GoesStale(t)
    \/ \E who \in Viewer \cup {Nobody} : SignIn(who)
    \/ Reload
    \/ \E b \in Tab : AskSnapshot(b) \/ AnswerSnapshot(b) \/ SaveSnapshot(b) \/ SaveMeta(b)
                      \/ EndDownload(b) \/ PullRefused(b)
    \/ PullOpens \/ PullAnswered \/ PullApplied \/ PullEnds

ReplicaSpec == ReplicaInit /\ [][ReplicaNext]_replicaVars

ReplicaTypeOK ==
    /\ build \in 1..LastBuild /\ loaded \in 1..build
    /\ Len(logged) <= MaxLog
    /\ holder \in Viewer \cup {Nobody}
    /\ meta => copy # None
    /\ pulling.at \in {"idle", "opened", "answered"}
    /\ \A b \in Tab : downloads[b].at \in {"idle", "asked", "answered", "saved"}

\* The tables after the first n changes, in a schema.
TablesAt(n, s) ==
    [k \in RowKey |->
        LET writes == {i \in 1..n : logged[i].key = k}
        IN  IF writes = {} \/ logged[Max(writes)].row = None THEN None
            ELSE [logged[Max(writes)].row EXCEPT !.shape = s]]

\* A copy that only people of the team it was cut for have brought up to date
\* is the Pi's tables as they were at its cursor, as that team may see them and
\* in the copy's own schema; whoever has, nothing is in it that none of them
\* might see (S10, U13).
CopyIsTheCut ==
    copy # None =>
        /\ copy.upto <= Len(logged)
        /\ copy.readers = {copy.team} =>
                copy.rows = CutFor(TablesAt(copy.upto, copy.build), copy.team)
        /\ \A k \in RowKey : copy.rows[k] # None =>
                \E team \in copy.readers, n \in 1..copy.upto :
                    copy.rows[k] = CutFor(TablesAt(n, copy.build), team)[k]
=============================================================================
