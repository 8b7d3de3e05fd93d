------------------------------ MODULE TextBack ------------------------------
(***************************************************************************)
(* Text-back: the owner of a call drafts a text to the caller, edits it,   *)
(* approves or cancels it, and the SMS worker sends what was approved      *)
(* (api/v1/messages.py, workers/sms_worker.py).                            *)
(*                                                                         *)
(* As in CallIntake every handler reads a row and later writes back the    *)
(* columns it changed, so it is split where it reads (its checks are on    *)
(* what it read) and where it commits.  The worker reads a batch, works on *)
(* the rows it read and commits the whole batch at once.                   *)
(***************************************************************************)
EXTENDS Integers, FiniteSets, Sequences

CONSTANTS
    Msgs,      \* outbound_messages rows that may be inserted
    Calls,
    CallOf,    \* the call a message belongs to
    Bodies, Numbers,
    Reqs,      \* handler slots
    BatchSize, \* _BATCH_SIZE of the worker
    None,      \* SQL NULL
    MaxSends   \* bound of the model: no retry of a message sent this often

ASSUME CallOfAssumption == CallOf \in [Msgs -> Calls]
ASSUME BatchAssumption == BatchSize \in Nat \ {0}
ASSUME MaxSendsAssumption == MaxSends \in Nat
ASSUME NoneAssumption == None \notin Bodies \cup Numbers \cup Msgs

VARIABLES
    msg,        \* msg[m]: status, draft and final body, recipient
    older,      \* pairs <<a, b>>: the approved_at of a is before that of b
    attempts,   \* attempts[m]: the text_send_attempts of m, what each one sent
    pc, loc,    \* handlers: where each stands, what it was asked and read
    batch,      \* rows the worker read; the empty function while it sleeps
    approvals   \* approvals[m]: what the owner's committed approvals said

vars == <<msg, older, attempts, pc, loc, batch, approvals>>

DraftStatuses == {"drafted", "awaiting_approval"}
Statuses == DraftStatuses \cup {"none", "approved", "sent", "failed", "cancelled"}

Texts == [body: Bodies, to: Numbers]
Rows == [st: Statuses, body: Bodies \cup {None}, to: Numbers \cup {None},
         final: Bodies \cup {None}]
Idle == [m |-> None, body |-> None, to |-> None]
Locals == [m: Msgs \cup {None}, body: Bodies \cup {None}, to: Numbers \cup {None}]

\* the batch of a worker that sleeps
Asleep == [m \in {} |-> [body |-> None, to |-> None]]

Init ==
    /\ msg = [m \in Msgs |->
                [st |-> "none", body |-> None, to |-> None, final |-> None]]
    /\ older = {}
    /\ attempts = [m \in Msgs |-> <<>>]
    /\ pc = [r \in Reqs |-> "idle"]
    /\ loc = [r \in Reqs |-> Idle]
    /\ batch = Asleep
    /\ approvals = [m \in Msgs |-> {}]

Goto(r, p, l) ==
    /\ pc[r] = "idle"
    /\ pc' = [pc EXCEPT ![r] = p]
    /\ loc' = [loc EXCEPT ![r] = l]

Finish(r) ==
    /\ pc' = [pc EXCEPT ![r] = "idle"]
    /\ loc' = [loc EXCEPT ![r] = Idle]

----------------------------------------------------------------------------
(* POST /calls/{id}/text-back/draft                                        *)

DraftsOf(c) == {m \in Msgs : CallOf[m] = c /\ msg[m].st \in DraftStatuses}

\* Mutant: only a draft that awaits approval is found
NoDraftAwaiting(c) == \A m \in DraftsOf(c) : msg[m].st # "awaiting_approval"

\* _find_draft_for_call found none; it raises when there are two
NoDraft(c) == DraftsOf(c) = {}

DraftLoad(r, m, t) ==
    /\ msg[m].st = "none" /\ NoDraft(CallOf[m])
    /\ \A q \in Reqs : loc[q].m = m => pc[q] # "draft"   \* m names a new row
    /\ Goto(r, "draft", [m |-> m, body |-> t.body, to |-> t.to])
    /\ UNCHANGED <<msg, older, attempts, batch, approvals>>

DraftCommit(r) == LET l == loc[r] IN
    /\ pc[r] = "draft"
    /\ msg' = [msg EXCEPT ![l.m] =
                 [st |-> "drafted", body |-> l.body, to |-> l.to, final |-> None]]
    /\ Finish(r)
    /\ UNCHANGED <<older, attempts, batch, approvals>>

----------------------------------------------------------------------------
(* PATCH /actions/{id}/text-back                                           *)

Editable(m) == msg[m].st \in DraftStatuses

UpdateLoad(r, m, body, to) ==
    /\ Editable(m)
    /\ Goto(r, "update", [m |-> m, body |-> body, to |-> to])
    /\ UNCHANGED <<msg, older, attempts, batch, approvals>>

UpdateCommit(r) == LET l == loc[r] IN
    /\ pc[r] = "update"
    /\ msg' = [msg EXCEPT
         ![l.m].body = IF l.body = None THEN @ ELSE l.body,
         ![l.m].to = IF l.to = None THEN @ ELSE l.to]
    /\ Finish(r)
    /\ UNCHANGED <<older, attempts, batch, approvals>>

----------------------------------------------------------------------------
(* POST /actions/{id}/approve, retry and cancel                            *)

\* Mutant: a message that failed can be approved, and one being sent too
ApprovableAnew(m) == msg[m].st \in DraftStatuses \cup {"approved", "failed"}

Approvable(m) == msg[m].st \in DraftStatuses

ApproveLoad(r, m, t) ==
    /\ Approvable(m)
    /\ Goto(r, "approve", [m |-> m, body |-> t.body, to |-> t.to])
    /\ UNCHANGED <<msg, older, attempts, batch, approvals>>

\* the columns an approval writes
Approve(m, body, to) ==
    msg' = [msg EXCEPT ![m].st = "approved", ![m].to = to, ![m].final = body]

ApproveCommit(r) == LET l == loc[r] IN
    /\ pc[r] = "approve"
    /\ Approve(l.m, l.body, l.to)
    /\ older' = {p \in older : p[1] # l.m}
                \cup ({m \in Msgs \ {l.m} : msg[m].final # None} \X {l.m})
    /\ approvals' = [approvals EXCEPT ![l.m] =
                       @ \cup {[body |-> l.body, to |-> l.to]}]
    /\ Finish(r)
    /\ UNCHANGED <<attempts, batch>>

RetryLoad(r, m) ==
    /\ msg[m].st = "failed" /\ Len(attempts[m]) < MaxSends
    /\ Goto(r, "retry", [m |-> m, body |-> None, to |-> None])
    /\ UNCHANGED <<msg, older, attempts, batch, approvals>>

RetryCommit(r) ==
    /\ pc[r] = "retry"
    /\ msg' = [msg EXCEPT ![loc[r].m].st = "approved"]
    /\ Finish(r)
    /\ UNCHANGED <<older, attempts, batch, approvals>>

CancelLoad(r, m) ==
    /\ msg[m].st \in DraftStatuses
    /\ Goto(r, "cancel", [m |-> m, body |-> None, to |-> None])
    /\ UNCHANGED <<msg, older, attempts, batch, approvals>>

CancelCommit(r) ==
    /\ pc[r] = "cancel"
    /\ msg' = [msg EXCEPT ![loc[r].m].st = "cancelled"]
    /\ Finish(r)
    /\ UNCHANGED <<older, attempts, batch, approvals>>

----------------------------------------------------------------------------
(* The SMS worker                                                          *)

Waiting == {m \in Msgs : msg[m].st = "approved"}

\* the oldest approvals, at most a batch
Pick == {m \in Waiting :
            Cardinality({n \in Waiting : <<n, m>> \in older}) < BatchSize}

\* Mutant: the draft is preferred to the final body
TextOfDraft(m) == [body |-> msg[m].body, to |-> msg[m].to]

\* what _send_single will send of the row it read
TextOf(m) == [body |-> IF msg[m].final # None THEN msg[m].final ELSE msg[m].body,
              to |-> msg[m].to]

WorkerLoad ==
    /\ batch = Asleep /\ Waiting # {}
    /\ batch' = [m \in Pick |-> TextOf(m)]
    /\ UNCHANGED <<msg, older, attempts, pc, loc, approvals>>

\* Mutant: a message that cannot be sent stays approved
OutcomeSticky(m, ok) == IF ok THEN "sent" ELSE msg[m].st

\* Mutant: Twilio's word for the failure, which the table does not know
OutcomeUndelivered(m, ok) == IF ok THEN "sent" ELSE "undelivered"

\* the status a message of the batch ends in
Outcome(m, ok) == IF ok THEN "sent" ELSE "failed"

\* Each message is sent, or fails before its attempt is recorded
WorkerCommit ==
    /\ batch # Asleep
    /\ \E ok \in SUBSET DOMAIN batch :
        /\ msg' = [m \in Msgs |-> IF m \in DOMAIN batch
                     THEN [msg[m] EXCEPT !.st = Outcome(m, m \in ok)] ELSE msg[m]]
        /\ attempts' = [m \in Msgs |-> IF m \in ok
                          THEN Append(attempts[m], batch[m]) ELSE attempts[m]]
    /\ batch' = Asleep
    /\ UNCHANGED <<older, pc, loc, approvals>>

\* A database error or a restart rolls the batch, or the handler, back
WorkerRollback ==
    /\ batch # Asleep
    /\ batch' = Asleep
    /\ UNCHANGED <<msg, older, attempts, pc, loc, approvals>>

Rollback(r) ==
    /\ pc[r] # "idle"
    /\ Finish(r)
    /\ UNCHANGED <<msg, older, attempts, batch, approvals>>

Commit(r) ==
    \/ DraftCommit(r) \/ UpdateCommit(r) \/ ApproveCommit(r)
    \/ RetryCommit(r) \/ CancelCommit(r) \/ Rollback(r)

Arrive(r, m) ==
    \/ \E t \in Texts : DraftLoad(r, m, t) \/ ApproveLoad(r, m, t)
    \/ \E body \in Bodies \cup {None}, to \in Numbers \cup {None} :
          UpdateLoad(r, m, body, to)
    \/ RetryLoad(r, m) \/ CancelLoad(r, m)

Next ==
    \/ \E r \in Reqs : Commit(r) \/ \E m \in Msgs : Arrive(r, m)
    \/ WorkerLoad \/ WorkerCommit \/ WorkerRollback

Spec == Init /\ [][Next]_vars

\* The worker's loop never ends, and not every batch is rolled back
FairSpec == Spec /\ WF_vars(WorkerLoad) /\ SF_vars(WorkerCommit)
----------------------------------------------------------------------------
(* Properties *)

\* Every variable holds values of its domain.
TypeOK ==
    /\ msg \in [Msgs -> Rows]
    /\ older \in SUBSET (Msgs \X Msgs)
    /\ attempts \in [Msgs -> Seq([body: Bodies \cup {None}, to: Numbers \cup {None}])]
    /\ pc \in [Reqs -> {"idle", "draft", "update", "approve", "retry", "cancel"}]
    /\ loc \in [Reqs -> Locals]
    /\ DOMAIN batch \subseteq Msgs
    /\ \A m \in DOMAIN batch :
          batch[m] \in [body: Bodies \cup {None}, to: Numbers \cup {None}]
    /\ approvals \in [Msgs -> SUBSET Texts]

\* Approval first: no text leaves that the owner did not approve, word for
\* word, for this message, however drafts, edits, approvals, retries and the
\* worker's stale batch overlap.
OnlyApprovedTextIsSent ==
    \A m \in Msgs : \A i \in DOMAIN attempts[m] :
        attempts[m][i].body \in {t.body : t \in approvals[m]}

\* An approved text is sent or fails in the end, whatever fails before it in
\* the worker's batch.  A retry keeps its old approved_at and goes first, so
\* this needs owners who give up on a text that keeps failing.
ApprovedIsSettled ==
    (<>[](\A r \in Reqs : pc[r] # "retry")) =>
        \A m \in Msgs : msg[m].st = "approved" ~> msg[m].st # "approved"

\* The message as its owner sees it, and the text that was approved for it
Stage(m) ==
    IF attempts[m] # <<>> THEN "sent"
    ELSE IF msg[m].st \in {"approved", "failed"} THEN "approved"
    ELSE IF msg[m].st = "cancelled" THEN "cancelled" ELSE "open"

Policy == INSTANCE ApprovalPolicy WITH
    stage <- [m \in Msgs |-> Stage(m)],
    agreed <- [m \in Msgs |-> IF Stage(m) \in {"approved", "sent"}
                              THEN [body |-> msg[m].final, to |-> msg[m].to] ELSE None],
    sent <- attempts

----------------------------------------------------------------------------
(* What the documents say and the code does not keep *)

\* "The system must never send the same action twice"
NeverSentTwice == \A m \in Msgs : Len(attempts[m]) <= 1

=============================================================================
