--------------------------- MODULE ApprovalPolicy ---------------------------
(***************************************************************************)
(* What text-back promises: a text is sent after one approval, exactly as  *)
(* it was approved, and at most once.                                      *)
(***************************************************************************)
EXTENDS Sequences

CONSTANTS Msgs, Texts, None

VARIABLES stage, agreed, sent

vars == <<stage, agreed, sent>>

Init ==
    /\ stage = [m \in Msgs |-> "open"]
    /\ agreed = [m \in Msgs |-> None]
    /\ sent = [m \in Msgs |-> <<>>]

Agree(m, t) ==
    /\ stage[m] = "open"
    /\ stage' = [stage EXCEPT ![m] = "approved"]
    /\ agreed' = [agreed EXCEPT ![m] = t]
    /\ UNCHANGED sent

Abandon(m) ==
    /\ stage[m] = "open"
    /\ stage' = [stage EXCEPT ![m] = "cancelled"]
    /\ UNCHANGED <<agreed, sent>>

\* a batch of approved texts goes out together
Send(S) ==
    /\ \A m \in S : stage[m] = "approved"
    /\ stage' = [m \in Msgs |-> IF m \in S THEN "sent" ELSE stage[m]]
    /\ sent' = [m \in Msgs |-> IF m \in S THEN <<agreed[m]>> ELSE sent[m]]
    /\ UNCHANGED agreed

Next ==
    \/ \E m \in Msgs : Abandon(m) \/ \E t \in Texts : Agree(m, t)
    \/ \E S \in SUBSET Msgs : Send(S)

Spec == Init /\ [][Next]_vars
=============================================================================
