------------------------------- MODULE MCFeed -------------------------------
(***************************************************************************)
(* The list of calls, a call's detail and the live events of the app: no   *)
(* action of one touches the state of another, so the area is chosen first *)
(* and the state spaces add up.                                            *)
(***************************************************************************)
EXTENDS LiveEvents, CallFeed

CONSTANTS MaxGets,  \* bound on the requests for a page under way
          MaxAsks   \* bound on the requests of the detail under way

VARIABLE area

mcVars == <<area, liveVars, feedVars, detVars>>

MCInit == area \in {"list", "detail", "live"} /\ LiveInit /\ FeedInit

\* The modal is used while nothing is under way; a list has a page too much at most.
NextList ==
  /\ ListNext /\ UNCHANGED liveVars
  /\ Cardinality(gets') <= MaxGets /\ Len(feed'.calls) <= MaxCalls + PageSize
  /\ (pick'.staged # pick.staged => gets = {})

NextDetail ==
  /\ DetailNext \/ NewCall
  /\ UNCHANGED liveVars
  /\ Cardinality(asks') <= MaxAsks

MCNext ==
  /\ \/ area = "list" /\ NextList
     \/ area = "detail" /\ NextDetail
     \/ area = "live" /\ LiveNext /\ UNCHANGED <<feedVars, detVars>>
  /\ UNCHANGED area

MCSpec == MCInit /\ [][MCNext]_mcVars /\ LiveFairness
=============================================================================
