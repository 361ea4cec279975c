----------------------------- MODULE MCCourier -----------------------------
(* Instances of Courier for TLC. *)
EXTENDS Courier

CONSTANTS t1, t2, p1, p2, x, y

\* Clocks: right, and the first tablet's ahead of the Pi's.
RightClocks == [d \in Tablet |-> 0]
FirstAhead  == [d \in Tablet |-> IF d = t1 THEN 1 ELSE 0]

\* What goes wrong goes wrong before TBA has anything new.  TBA's first answer
\* may as well be x: with y it is all the same.
EarlyMishaps == mishaps' # mishaps => clock = 1
LiveInit == Init /\ tba = [p \in Path |-> x]

LiveSpec == LiveInit /\ [][Next /\ EarlyMishaps]_vars /\ Fairness
=============================================================================
