---------------------------- MODULE MCOutboxSync ----------------------------
(* Instances of OutboxSync for TLC. *)
EXTENDS OutboxSync, TLC

CONSTANTS d1, d2, r1, r2, w1, a, b, s1, s2

\* Maker: one form, two forms of one tablet, one form of each of two tablets,
\* and a tablet's form beside one saved on the Pi.
OneForm    == r1 :> d1
TwoForms   == r1 :> d1 @@ r2 :> d1
TwoTablets == r1 :> d1 @@ r2 :> d2
FormAndWeb == r1 :> d1 @@ w1 :> Web

\* Scope: every event.
EveryEvent == [d \in Device |-> Slot]

\* The two tablets are alike when each takes its form along.
TabletsAlike == {d1 :> d2 @@ d2 :> d1 @@ r1 :> r2 @@ r2 :> r1}
=============================================================================
