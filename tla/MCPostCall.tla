----------------------------- MODULE MCPostCall -----------------------------
(* Instances of PostCall for TLC. *)
EXTENDS PostCall, TLC

CONSTANTS c1, i1, r1, r2

OneCall == {c1}
OneItem == {i1}
OneReq == {r1}
TwoReqs == {r1, r2}

RequestsAreAlike == Permutations(Reqs)
=============================================================================
