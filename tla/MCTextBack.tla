----------------------------- MODULE MCTextBack -----------------------------
(* Instances of SerialTextBack for TLC. *)
EXTENDS SerialTextBack, TLC

CONSTANTS m1, m2, b1, b2, n1, r1, r2, c1

OneMsg == {m1}
TwoMsgs == {m1, m2}
OneCall == {c1}
SameCall == [m \in Msgs |-> c1]
OneBody == {b1}
TwoBodies == {b1, b2}
OneNumber == {n1}
TwoReqs == {r1, r2}
=============================================================================
