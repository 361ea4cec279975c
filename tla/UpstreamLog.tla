---------------------------- MODULE UpstreamLog ----------------------------
(***************************************************************************)
(* The upstream log (S1): FIRST and TBA responses as received, numbered in *)
(* the order they were appended.  The Pi keeps one and so does every       *)
(* device, with the same append:                                           *)
(*                                                                         *)
(*   Pi       tt-repo-sqlite/src/upstream.rs                               *)
(*   device   tt-client/src/upstream.rs                                    *)
(*                                                                         *)
(* Paths and bodies are model values; every response is tagged (ETag).     *)
(***************************************************************************)
EXTENDS Naturals, FiniteSets, Sequences, FiniteSetsExt

CONSTANTS
    Path,   \* the requests made for the events in scope
    Body,   \* what TBA may answer
    Keep    \* UPSTREAM_KEEP_PER_PATH

ASSUME LogAssumption == Keep \in Nat \ {0}

\* Who fetched a response: the Pi's own client, a device, or, on the Pi, a
\* device whose bundle brought it.
Via   == {"pi", "device", "bundle"}
Entry == [path : Path, body : Body, at : Nat, via : Via]
Row   == [seq : Nat, path : Path, body : Body, at : Nat, via : Via]
\* next: the number the next row gets.  AUTOINCREMENT never gives one twice.
Log   == [rows : SUBSET Row, next : Nat]

EmptyLog == [rows |-> {}, next |-> 1]

\* The newest row for a path, in a set, or {}.
Newest(log, p) ==
    {r \in log.rows : r.path = p /\ \A q \in log.rows : q.path = p => q.seq <= r.seq}

Unchanged(log, e) == \E r \in Newest(log, e.path) : r.body = e.body
Stale(log, e)     == \E r \in Newest(log, e.path) : r.at >= e.at

\* A path's rows but its newest Keep go.
Pruned(rows, p) ==
    {r \in rows : r.path = p => Cardinality({q \in rows : q.path = p /\ q.seq > r.seq}) < Keep}

Inserted(log, e) ==
    [rows |-> Pruned(log.rows \cup {[seq |-> log.next, path |-> e.path, body |-> e.body,
                                     at |-> e.at, via |-> e.via]}, e.path),
     next |-> log.next + 1]

\* Mutant: the newer row does not stand in the way.
AppendEvenIfStale(log, e, refuseStale) == IF Unchanged(log, e) THEN log ELSE Inserted(log, e)

\* append_in: a body the same as the newest for its path is skipped and, of a
\* bundle's, one fetched no later than that newest.
AppendIn(log, e, refuseStale) ==
    IF Unchanged(log, e) \/ (refuseStale /\ Stale(log, e)) THEN log ELSE Inserted(log, e)

\* append_upstream.
Appended(log, e) == AppendIn(log, e, FALSE)

\* Rows as they are appended by whom they were sent to.
Under(rows, via) == {[r EXCEPT !.via = via] : r \in rows}

\* Rows appended one after another, in the order of their numbers.
AppendedInOrder(log, rows, refuseStale) ==
    LET last == Max({r.seq : r \in rows} \cup {0})
        logs[n \in 0 .. last] ==
            IF n = 0 THEN log
            ELSE IF \E r \in rows : r.seq = n
                 THEN AppendIn(logs[n - 1], CHOOSE r \in rows : r.seq = n, refuseStale)
                 ELSE logs[n - 1]
    IN  logs[last]
=============================================================================
