----------------------------- MODULE SerialIntake -----------------------------
(***************************************************************************)
(* CallIntake with a history variable that remembers whether two handlers  *)
(* were ever in flight together, and what the backend promises of a call   *)
(* record as long as they were not: CallRecord.                            *)
(***************************************************************************)
EXTENDS CallIntake

VARIABLE overlapped   \* history: two requests were in flight together at some time

Overlap == \E p, q \in Reqs : p # q /\ pc[p] # "idle" /\ pc[q] # "idle"
Hist == overlapped' = (overlapped \/ Overlap')

HistInit == Init /\ overlapped = FALSE
HistSpec == HistInit /\ [][Next /\ Hist]_<<vars, overlapped>>

Record == INSTANCE CallRecord WITH
    Calls <- Sids, Rank <- StateOrder, Final <- TerminalStates,
    status <- callStatus, over <- ended

\* As long as handlers do not overlap they implement the promise about a call
\* record, however late, reordered or repeated the callbacks are.
RecordSpec ==
    Record!Init /\ [][~overlapped' => [Record!Next]_<<callStatus, ended>>]_<<vars, overlapped>>
=============================================================================
