---------------------------- MODULE MCCallIntake ----------------------------
(* Instances of SerialIntake for TLC. *)
EXTENDS SerialIntake, TLC

CONSTANTS c1, c2, r1, r2

OneCall == {c1}
TwoCalls == {c1, c2}
OneReq == {r1}
TwoReqs == {r1, r2}

\* the ways a call can end: answered, or not
MostReports == {"ringing", "in-progress", "completed", "no-answer"}
FewReports == {"ringing", "in-progress", "completed"}

SymReqs == Permutations(Reqs)
=============================================================================
