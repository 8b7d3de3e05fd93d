---------------------------- MODULE SerialTextBack ----------------------------
(***************************************************************************)
(* TextBack with a history variable that remembers whether two requests of *)
(* the owner were ever in flight together, and what text-back promises as  *)
(* long as they were not.  The worker overlaps every request all the same. *)
(***************************************************************************)
EXTENDS TextBack

VARIABLE overlapped   \* history: two requests were in flight together at some time

Overlap == \E p, q \in Reqs : p # q /\ pc[p] # "idle" /\ pc[q] # "idle"
Hist == overlapped' = (overlapped \/ Overlap')

HistInit == Init /\ overlapped = FALSE

HistSpec ==
    /\ HistInit
    /\ [][Next /\ Hist]_<<vars, overlapped>>
    /\ WF_<<vars, overlapped>>(WorkerLoad /\ Hist)
    /\ SF_<<vars, overlapped>>(WorkerCommit /\ Hist)

\* As long as requests do not overlap each other, a call has one draft at
\* most; with two, its draft endpoint would fail from then on.
OneDraftPerCall == overlapped \/ \A c \in Calls : Cardinality(DraftsOf(c)) <= 1

\* As long as requests do not overlap each other (they do overlap the worker)
\* text-back implements the approval policy.
PolicySpec ==
    Policy!Init /\ [][~overlapped' => [Policy!Next]_Policy!vars]_<<vars, overlapped>>
=============================================================================
