----------------------------- MODULE CallRecord -----------------------------
(***************************************************************************)
(* What the backend promises of a call record, whatever webhooks it takes  *)
(* to keep it: a call is recorded once, its status only moves forward      *)
(* along STATE_ORDER, and its end, once recorded, is final.                *)
(***************************************************************************)
EXTENDS Integers

CONSTANTS Calls, Rank, Final   \* Rank orders the statuses, Final are the last

VARIABLES status, over

NotRecorded == "none"

Init ==
    /\ status = [c \in Calls |-> NotRecorded]
    /\ over = {}

\* The call gets its record; a blocked caller's is complete at once
Record(c, s) ==
    /\ status[c] = NotRecorded
    /\ s \in {"twiml_responded", "completed"}
    /\ status' = [status EXCEPT ![c] = s]
    /\ UNCHANGED over

\* A recorded call advances without ending
Advance(c, s) ==
    /\ status[c] # NotRecorded /\ c \notin over
    /\ Rank[s] >= Rank[status[c]]
    /\ status' = [status EXCEPT ![c] = s]
    /\ UNCHANGED over

\* The provider's final status ends it, once
End(c, s) ==
    /\ status[c] # NotRecorded /\ c \notin over
    /\ s \in Final
    /\ status' = [status EXCEPT ![c] = s]
    /\ over' = over \cup {c}

Next == \E c \in Calls, s \in DOMAIN Rank :
    Record(c, s) \/ Advance(c, s) \/ End(c, s)

Spec == Init /\ [][Next]_<<status, over>>
=============================================================================
