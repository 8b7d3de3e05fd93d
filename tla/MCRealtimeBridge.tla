-------------------------- MODULE MCRealtimeBridge --------------------------
(* Instances of RealtimeBridge for TLC. *)
EXTENDS RealtimeBridge, TLC

CONSTANTS s1, s2, s3, u1, u2

ThreeStreams == {s1, s2, s3}
TwoUsers == {u1, u2}

\* u1 receives two calls at once, u2 one
TwoAndOne == s1 :> u1 @@ s2 :> u1 @@ s3 :> u2
=============================================================================
