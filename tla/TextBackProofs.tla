--------------------------- MODULE TextBackProofs ---------------------------
(***************************************************************************)
(* Approval first, for any number of messages, texts and overlapping       *)
(* requests: the worker sends no text that the owner did not approve.      *)
(***************************************************************************)
EXTENDS SerialTextBack, FiniteSetTheorems, TLAPS

Sent == [body: Bodies \cup {None}, to: Numbers \cup {None}]

\* A request for a row that is not inserted yet is alone with it
NewRowsAreOwn ==
    /\ \A r \in Reqs : pc[r] = "draft" =>
          /\ msg[loc[r].m].st = "none"
          /\ \A q \in Reqs : q # r /\ loc[q].m = loc[r].m => pc[q] # "draft"
    /\ \A r \in Reqs : pc[r] \in {"update", "approve", "retry", "cancel"} =>
          msg[loc[r].m].st # "none"
    /\ \A m \in DOMAIN batch : msg[m].st # "none"

\* A request has a message in hand, and the text its kind of request brings
Aimed ==
    \A r \in Reqs :
        /\ pc[r] # "idle" => loc[r].m \in Msgs
        /\ pc[r] \in {"draft", "approve"} =>
              loc[r].body \in Bodies /\ loc[r].to \in Numbers

TypeInv == TypeOK /\ Aimed /\ NewRowsAreOwn

Approved(m) == {t.body : t \in approvals[m]}

\* Where a text to send comes from
FinalIsApproved ==
    /\ \A m \in Msgs : msg[m].final # None => msg[m].final \in Approved(m)
    /\ \A m \in Msgs : msg[m].st \in {"approved", "failed", "sent"} =>
          msg[m].final # None
    /\ \A m \in Msgs : msg[m].st = "none" => msg[m].final = None
    /\ \A r \in Reqs : pc[r] = "retry" => msg[loc[r].m].final # None
    /\ \A m \in DOMAIN batch :
          msg[m].final # None /\ batch[m].body \in Approved(m)

LEMMA TypeInit == Init => TypeInv
<1> SUFFICES ASSUME Init PROVE TypeInv
    OBVIOUS
<1>1. [st |-> "none", body |-> None, to |-> None, final |-> None] \in Rows
    BY DEF Rows, Statuses
<1>2. Idle \in Locals
    BY DEF Idle, Locals
<1>3. msg \in [Msgs -> Rows]
    BY <1>1 DEF Init
<1>4. loc \in [Reqs -> Locals]
    BY <1>2 DEF Init
<1>5. DOMAIN batch = {}
    BY DEF Init, Asleep
<1>6. attempts \in [Msgs -> Seq(Sent)] /\ approvals \in [Msgs -> SUBSET Texts]
    BY DEF Init
<1>7. pc \in [Reqs -> {"idle", "draft", "update", "approve", "retry", "cancel"}]
      /\ \A r \in Reqs : pc[r] = "idle"
    BY DEF Init
<1> QED
    BY <1>3, <1>4, <1>5, <1>6, <1>7
    DEF Init, TypeInv, TypeOK, Sent, Aimed, NewRowsAreOwn

\* A request that starts for a message, and says nothing of the rows
LEMMA StartKeepsTypes ==
    ASSUME TypeInv, NEW r \in Reqs, NEW p \in {"draft", "update", "approve", "retry", "cancel"},
           NEW l \in Locals, Goto(r, p, l), l.m \in Msgs,
           p \in {"draft", "approve"} => l.body \in Bodies /\ l.to \in Numbers,
           p = "draft" => /\ msg[l.m].st = "none"
                          /\ \A q \in Reqs : loc[q].m = l.m => pc[q] # "draft",
           p # "draft" => msg[l.m].st # "none",
           UNCHANGED <<msg, older, attempts, batch, approvals>>
    PROVE  TypeInv'
<1>1. TypeOK'
    BY DEF TypeInv, TypeOK, Goto
<1>2. Aimed'
    BY DEF TypeInv, TypeOK, Aimed, Goto
<1>3. NewRowsAreOwn'
    BY DEF TypeInv, TypeOK, NewRowsAreOwn, Goto
<1> QED
    BY <1>1, <1>2, <1>3 DEF TypeInv

\* A request that ends, after it wrote at most its own row
LEMMA EndKeepsTypes ==
    ASSUME TypeInv, NEW r \in Reqs, pc[r] # "idle", Finish(r),
           NEW row \in Rows,
           msg' = [msg EXCEPT ![loc[r].m] = row],
           row.st = "none" => msg[loc[r].m].st = "none",
           pc[r] # "draft" /\ row # msg[loc[r].m] => row.st # "none",
           older' \in SUBSET (Msgs \X Msgs), approvals' \in [Msgs -> SUBSET Texts],
           UNCHANGED <<attempts, batch>>
    PROVE  TypeInv'
<1>1. Idle \in Locals /\ Idle.m = None
    BY DEF Idle, Locals
<1>2. loc[r].m \in Msgs
    BY DEF TypeInv, Aimed
<1>3. TypeOK'
    BY <1>1, <1>2 DEF TypeInv, TypeOK, Finish
<1>4. Aimed'
    BY <1>1 DEF TypeInv, TypeOK, Aimed, Finish
<1>5. \A q \in Reqs : pc'[q] # "idle" => q # r /\ pc'[q] = pc[q] /\ loc'[q] = loc[q]
    BY DEF TypeInv, TypeOK, Finish
<1>6. ASSUME NEW q \in Reqs, pc'[q] = "draft"
      PROVE  /\ msg'[loc'[q].m].st = "none"
             /\ \A o \in Reqs : o # q /\ loc'[o].m = loc'[q].m => pc'[o] # "draft"
  <2>1. q # r /\ pc[q] = "draft" /\ loc'[q] = loc[q] /\ loc[q].m \in Msgs
    BY <1>5, <1>6 DEF TypeInv, Aimed
  <2>2. msg[loc[q].m].st = "none"
    BY <2>1 DEF TypeInv, NewRowsAreOwn
  <2>3. loc[q].m = loc[r].m => pc[r] # "draft" /\ msg[loc[r].m].st # "none"
    <3>1. loc[q].m = loc[r].m => pc[r] # "draft"
      BY <2>1 DEF TypeInv, NewRowsAreOwn
    <3> QED
      BY <3>1 DEF TypeInv, TypeOK, NewRowsAreOwn
  <2>4. loc[q].m # loc[r].m
    BY <2>2, <2>3
  <2>5. msg'[loc'[q].m].st = "none"
    BY <2>1, <2>2, <2>4, <1>2 DEF TypeInv, TypeOK
  <2>6. \A o \in Reqs : o # q /\ loc'[o].m = loc'[q].m => pc'[o] # "draft"
    BY <2>1, <1>5 DEF TypeInv, NewRowsAreOwn
  <2> QED
    BY <2>5, <2>6
<1>7. ASSUME NEW q \in Reqs, pc'[q] \in {"update", "approve", "retry", "cancel"}
      PROVE  msg'[loc'[q].m].st # "none"
  <2>1. q # r /\ pc[q] = pc'[q] /\ loc'[q] = loc[q] /\ loc[q].m \in Msgs
    BY <1>5, <1>7 DEF TypeInv, Aimed
  <2>2. msg[loc[q].m].st # "none"
    BY <2>1, <1>7 DEF TypeInv, NewRowsAreOwn
  <2> QED
    BY <2>1, <2>2, <1>2 DEF TypeInv, TypeOK
<1>8. \A m \in DOMAIN batch' : msg'[m].st # "none"
    BY <1>2 DEF TypeInv, TypeOK, NewRowsAreOwn
<1>9. NewRowsAreOwn'
    BY <1>6, <1>7, <1>8 DEF NewRowsAreOwn
<1> QED
    BY <1>3, <1>4, <1>9 DEF TypeInv

LEMMA ArriveKeepsTypes ==
    ASSUME TypeInv, NEW r \in Reqs, NEW m \in Msgs, Arrive(r, m)
    PROVE  TypeInv'
<1>1. ASSUME NEW t \in Texts, DraftLoad(r, m, t) PROVE TypeInv'
  <2> DEFINE l == [m |-> m, body |-> t.body, to |-> t.to]
  <2>1. l \in Locals /\ l.m = m /\ l.body \in Bodies /\ l.to \in Numbers
    BY DEF Texts, Locals
  <2>2. Goto(r, "draft", l) /\ UNCHANGED <<msg, older, attempts, batch, approvals>>
    BY <1>1 DEF DraftLoad
  <2>3. msg[m].st = "none" /\ \A q \in Reqs : loc[q].m = m => pc[q] # "draft"
    BY <1>1 DEF DraftLoad
  <2> HIDE DEF l
  <2> QED
    BY <2>1, <2>2, <2>3, StartKeepsTypes
<1>2. ASSUME NEW t \in Texts, ApproveLoad(r, m, t) PROVE TypeInv'
  <2> DEFINE l == [m |-> m, body |-> t.body, to |-> t.to]
  <2>1. l \in Locals /\ l.m = m /\ l.body \in Bodies /\ l.to \in Numbers
    BY DEF Texts, Locals
  <2>2. Goto(r, "approve", l) /\ UNCHANGED <<msg, older, attempts, batch, approvals>>
        /\ msg[m].st # "none"
    BY <1>2 DEF ApproveLoad, Approvable, DraftStatuses
  <2> HIDE DEF l
  <2> QED
    BY <2>1, <2>2, StartKeepsTypes
<1>3. ASSUME NEW b \in Bodies \cup {None}, NEW t \in Numbers \cup {None},
             UpdateLoad(r, m, b, t)
      PROVE  TypeInv'
  <2> DEFINE l == [m |-> m, body |-> b, to |-> t]
  <2>1. l \in Locals /\ l.m = m
    BY DEF Locals
  <2>2. Goto(r, "update", l) /\ UNCHANGED <<msg, older, attempts, batch, approvals>>
        /\ msg[m].st # "none"
    BY <1>3 DEF UpdateLoad, Editable, DraftStatuses
  <2> HIDE DEF l
  <2> QED
    BY <2>1, <2>2, StartKeepsTypes
<1>4. ASSUME RetryLoad(r, m) \/ CancelLoad(r, m) PROVE TypeInv'
  <2> DEFINE l == [m |-> m, body |-> None, to |-> None]
  <2>1. l \in Locals /\ l.m = m
    BY DEF Locals
  <2>2. PICK p \in {"retry", "cancel"} : Goto(r, p, l)
    BY <1>4 DEF RetryLoad, CancelLoad
  <2>3. UNCHANGED <<msg, older, attempts, batch, approvals>> /\ msg[m].st # "none"
    BY <1>4 DEF RetryLoad, CancelLoad, DraftStatuses
  <2> HIDE DEF l
  <2> QED
    BY <2>1, <2>2, <2>3, StartKeepsTypes
<1> QED
    BY <1>1, <1>2, <1>3, <1>4 DEF Arrive

LEMMA CommitKeepsTypes ==
    ASSUME TypeInv, NEW r \in Reqs, Commit(r)
    PROVE  TypeInv'
<1> DEFINE m == loc[r].m
           row == msg[m]
<1>1. pc[r] # "idle" /\ Finish(r) /\ m \in Msgs /\ row \in Rows
      /\ UNCHANGED <<attempts, batch>>
    BY DEF Commit, DraftCommit, UpdateCommit, ApproveCommit, RetryCommit,
           CancelCommit, Rollback, TypeInv, TypeOK, Aimed
<1>2. approvals' \in [Msgs -> SUBSET Texts] /\ older' \in SUBSET (Msgs \X Msgs)
  <2>1. CASE ApproveCommit(r)
    <3>1. [body |-> loc[r].body, to |-> loc[r].to] \in Texts
      BY <2>1 DEF ApproveCommit, TypeInv, Aimed, Texts
    <3> QED
      BY <2>1, <3>1, <1>1 DEF ApproveCommit, TypeInv, TypeOK
  <2>2. CASE ~ApproveCommit(r)
    BY <2>2 DEF Commit, DraftCommit, UpdateCommit, RetryCommit, CancelCommit,
                Rollback, TypeInv, TypeOK
  <2> QED
    BY <2>1, <2>2
<1>3. CASE DraftCommit(r)
  <2> DEFINE new == [st |-> "drafted", body |-> loc[r].body, to |-> loc[r].to,
                     final |-> None]
  <2>1. new \in Rows /\ new.st # "none" /\ msg' = [msg EXCEPT ![m] = new]
        /\ pc[r] = "draft"
    BY <1>3 DEF DraftCommit, TypeInv, TypeOK, Aimed, Locals, Rows, Statuses,
                DraftStatuses
  <2> HIDE DEF new
  <2> QED
    BY <1>1, <1>2, <2>1, EndKeepsTypes
<1>4. CASE UpdateCommit(r)
  <2> DEFINE new == [row EXCEPT
                 !.body = IF loc[r].body = None THEN row.body ELSE loc[r].body,
                 !.to = IF loc[r].to = None THEN row.to ELSE loc[r].to]
  <2>0. loc[r] \in Locals
    BY DEF TypeInv, TypeOK
  <2>1. new \in Rows /\ new.st = row.st
    BY <1>1, <2>0 DEF Rows, Locals
  <2>2. msg' = [msg EXCEPT ![m] = new]
    BY <1>1, <1>4 DEF UpdateCommit, TypeInv, TypeOK, Rows
  <2>3. row.st # "none"
    BY <1>4 DEF UpdateCommit, TypeInv, NewRowsAreOwn
  <2> HIDE DEF new
  <2> QED
    BY <1>1, <1>2, <2>1, <2>2, <2>3, EndKeepsTypes
<1>5. CASE ApproveCommit(r)
  <2> DEFINE new == [row EXCEPT !.st = "approved", !.to = loc[r].to,
                                !.final = loc[r].body]
  <2>0. loc[r].body \in Bodies /\ loc[r].to \in Numbers
    BY <1>5 DEF ApproveCommit, TypeInv, Aimed
  <2>1. new \in Rows /\ new.st = "approved"
    BY <1>1, <2>0 DEF Rows, Statuses, DraftStatuses
  <2>2. msg' = [msg EXCEPT ![m] = new]
    BY <1>1, <1>5 DEF ApproveCommit, Approve, TypeInv, TypeOK, Rows
  <2> HIDE DEF new
  <2> QED
    BY <1>1, <1>2, <2>1, <2>2, EndKeepsTypes
<1>6. CASE RetryCommit(r) \/ CancelCommit(r)
  <2>1. PICK st \in {"approved", "cancelled"} : msg' = [msg EXCEPT ![m].st = st]
    BY <1>6 DEF RetryCommit, CancelCommit
  <2> DEFINE new == [row EXCEPT !.st = st]
  <2>2. new \in Rows /\ new.st # "none"
    BY <1>1 DEF Rows, Statuses, DraftStatuses
  <2>3. msg' = [msg EXCEPT ![m] = new]
    BY <2>1
  <2> HIDE DEF new
  <2> QED
    BY <1>1, <1>2, <2>2, <2>3, EndKeepsTypes
<1>7. CASE Rollback(r)
  <2>1. msg' = [msg EXCEPT ![m] = row]
    BY <1>1, <1>7 DEF Rollback, TypeInv, TypeOK
  <2> QED
    BY <1>1, <1>2, <2>1, EndKeepsTypes
<1> QED
    BY <1>3, <1>4, <1>5, <1>6, <1>7 DEF Commit

\* The text the worker takes from a row
LEMMA TextType ==
    ASSUME TypeInv, NEW m \in Msgs
    PROVE  TextOf(m) \in Sent
<1>1. msg[m] \in Rows
    BY DEF TypeInv, TypeOK
<1> QED
    BY <1>1 DEF TextOf, Sent, Rows

LEMMA WorkerKeepsTypes ==
    ASSUME TypeInv, WorkerLoad \/ WorkerCommit \/ WorkerRollback
    PROVE  TypeInv'
<1>1. CASE WorkerLoad
  <2>1. Pick \subseteq Msgs
    BY DEF Pick, Waiting
  <2>2. \A m \in Pick : TextOf(m) \in Sent
    BY <2>1, TextType
  <2>3. DOMAIN batch' \subseteq Msgs /\ \A m \in DOMAIN batch' : batch'[m] \in Sent
    BY <1>1, <2>1, <2>2 DEF WorkerLoad
  <2> QED
    BY <1>1, <2>3 DEF WorkerLoad, Pick, Waiting, TypeInv, TypeOK, Sent, Aimed,
                      NewRowsAreOwn
<1>2. CASE WorkerCommit
  <2>1. PICK ok \in SUBSET DOMAIN batch :
            /\ msg' = [m \in Msgs |-> IF m \in DOMAIN batch
                     THEN [msg[m] EXCEPT !.st = Outcome(m, m \in ok)] ELSE msg[m]]
            /\ attempts' = [m \in Msgs |-> IF m \in ok
                          THEN Append(attempts[m], batch[m]) ELSE attempts[m]]
    BY <1>2 DEF WorkerCommit
  <2>2. msg' \in [Msgs -> Rows]
    <3>1. ASSUME NEW m \in Msgs, NEW x \in Statuses
          PROVE  [msg[m] EXCEPT !.st = x] \in Rows
      <4>1. msg[m] \in Rows
        BY DEF TypeInv, TypeOK
      <4> QED
        BY <4>1 DEF Rows
    <3>2. \A m \in Msgs : Outcome(m, m \in ok) \in Statuses
      BY DEF Outcome, Statuses
    <3>3. \A m \in Msgs : msg[m] \in Rows
      BY DEF TypeInv, TypeOK
    <3>4. \A m \in Msgs : msg'[m] \in Rows
      BY <2>1, <3>1, <3>2, <3>3
    <3>5. msg' = [m \in Msgs |-> msg'[m]]
      BY <2>1
    <3> QED
      BY <3>4, <3>5
  <2>3. \A m \in ok : m \in Msgs /\ batch[m] \in Sent
    BY DEF TypeInv, TypeOK, Sent
  <2>4. \A m \in ok : Append(attempts[m], batch[m]) \in Seq(Sent)
    <3>1. \A m \in ok : attempts[m] \in Seq(Sent)
      BY <2>3 DEF TypeInv, TypeOK, Sent
    <3> HIDE DEF Sent
    <3> QED
      BY <2>3, <3>1
  <2>5. attempts' \in [Msgs -> Seq(Sent)]
    BY <2>1, <2>4 DEF TypeInv, TypeOK, Sent
  <2>6. DOMAIN batch' = {} /\ UNCHANGED <<older, pc, loc, approvals>>
    BY <1>2 DEF WorkerCommit, Asleep
  <2>7. \A m \in Msgs : msg'[m].st = "none" <=> msg[m].st = "none"
    BY <2>1 DEF Outcome, TypeInv, TypeOK, Rows, NewRowsAreOwn
  <2>8. TypeOK' /\ Aimed'
    BY <2>2, <2>5, <2>6 DEF TypeInv, TypeOK, Sent, Aimed
  <2>9. NewRowsAreOwn'
    BY <2>6, <2>7 DEF TypeInv, Aimed, NewRowsAreOwn
  <2> QED
    BY <2>8, <2>9 DEF TypeInv
<1>3. CASE WorkerRollback
    BY <1>3 DEF WorkerRollback, Asleep, TypeInv, TypeOK, Sent, Aimed, NewRowsAreOwn
<1> QED
    BY <1>1, <1>2, <1>3

LEMMA TypeStep == TypeInv /\ [Next]_vars => TypeInv'
<1> SUFFICES ASSUME TypeInv, [Next]_vars PROVE TypeInv'
    OBVIOUS
<1>1. CASE UNCHANGED vars
    BY <1>1 DEF vars, TypeInv, TypeOK, Aimed, NewRowsAreOwn
<1> QED
    BY <1>1, ArriveKeepsTypes, CommitKeepsTypes, WorkerKeepsTypes DEF Next

\* Every variable of text-back keeps its domain.
THEOREM TextBackTypes == Spec => []TypeOK
<1>1. TypeInv => TypeOK
    BY DEF TypeInv
<1> QED
    BY TypeInit, TypeStep, <1>1, PTL DEF Spec

----------------------------------------------------------------------------

Inv == TypeInv /\ FinalIsApproved /\ OnlyApprovedTextIsSent

LEMMA ApprovedInit == Init => FinalIsApproved /\ OnlyApprovedTextIsSent
    BY DEF Init, Asleep, FinalIsApproved, OnlyApprovedTextIsSent

\* A request's row, its approvals and its place change together or not at all
LEMMA CommitKeepsApproved ==
    ASSUME Inv, TypeInv', NEW r \in Reqs, Commit(r)
    PROVE  FinalIsApproved' /\ OnlyApprovedTextIsSent'
<1>0. PICK c \in Msgs : c = loc[r].m
    BY DEF Commit, DraftCommit, UpdateCommit, ApproveCommit, RetryCommit,
           CancelCommit, Rollback, Inv, TypeInv, Aimed
<1>1. /\ UNCHANGED <<attempts, batch>> /\ c \in Msgs /\ Finish(r)
      /\ \A q \in Reqs : pc'[q] = "retry" => pc[q] = "retry" /\ loc'[q] = loc[q]
      /\ \A m \in Msgs : Approved(m) \subseteq Approved(m)'
      /\ \A m \in Msgs \ {c} : msg'[m] = msg[m]
  <2>1. UNCHANGED <<attempts, batch>> /\ c \in Msgs /\ Finish(r)
    BY DEF Commit, DraftCommit, UpdateCommit, ApproveCommit, RetryCommit,
           CancelCommit, Rollback, Inv, TypeInv, Aimed
  <2>2. \A q \in Reqs : pc'[q] = "retry" => pc[q] = "retry" /\ loc'[q] = loc[q]
    BY <2>1 DEF Finish, Inv, TypeInv, TypeOK
  <2>3. \A m \in Msgs : Approved(m) \subseteq Approved(m)'
    <3>1. \A m \in Msgs : approvals[m] \subseteq approvals'[m]
      <4>1. CASE ApproveCommit(r)
        BY <4>1 DEF ApproveCommit, Inv, TypeInv, TypeOK
      <4>2. CASE ~ApproveCommit(r)
        BY <4>2 DEF Commit, DraftCommit, UpdateCommit, RetryCommit, CancelCommit,
                    Rollback
      <4> QED
        BY <4>1, <4>2
    <3> QED
      BY <3>1 DEF Approved
  <2>4. \A m \in Msgs \ {c} : msg'[m] = msg[m]
    BY <1>0 DEF Commit, DraftCommit, UpdateCommit, ApproveCommit, Approve, RetryCommit,
           CancelCommit, Rollback, Inv, TypeInv, TypeOK
  <2> QED
    BY <2>1, <2>2, <2>3, <2>4
<1>2. OnlyApprovedTextIsSent'
    BY <1>1 DEF OnlyApprovedTextIsSent, Inv, Approved
<1>3. /\ msg'[c].final # None => msg'[c].final \in Approved(c)'
      /\ msg'[c].st \in {"approved", "failed", "sent"} => msg'[c].final # None
      /\ msg'[c].st = "none" => msg'[c].final = None
      /\ msg[c].final # None => msg'[c].final # None
  <2>0. msg[c] \in Rows /\ msg \in [Msgs -> Rows] /\ None \notin Bodies
    BY <1>1, NoneAssumption DEF Inv, TypeInv, TypeOK
  <2>1. CASE DraftCommit(r)
    <3>1. msg'[c].final = None /\ msg'[c].st = "drafted"
      BY <2>0, <2>1, <1>0, <1>1 DEF DraftCommit
    <3>2. msg[c].st = "none" /\ msg[c].final = None
      BY <2>1, <1>0, <1>1 DEF DraftCommit, Inv, TypeInv, NewRowsAreOwn, FinalIsApproved
    <3> QED
      BY <3>1, <3>2
  <2>2. CASE ApproveCommit(r)
    <3>1. msg'[c].final = loc[r].body /\ msg'[c].st = "approved"
      BY <2>0, <2>2, <1>0, <1>1 DEF ApproveCommit, Approve, Rows
    <3>2. loc[r].body \in Approved(c)' /\ loc[r].body # None
      <4>1. loc[r].body \in Bodies
        BY <1>0, <2>2 DEF ApproveCommit, Inv, TypeInv, Aimed
      <4>2. [body |-> loc[r].body, to |-> loc[r].to] \in approvals'[c]
        BY <2>2, <1>0, <1>1 DEF ApproveCommit, Inv, TypeInv, TypeOK
      <4> QED
        BY <4>1, <4>2, <2>0 DEF Approved
    <3> QED
      BY <3>1, <3>2
  <2>3. CASE RetryCommit(r)
    <3>1. msg'[c].final = msg[c].final /\ msg'[c].st = "approved"
      BY <2>0, <2>3, <1>0, <1>1 DEF RetryCommit, Rows
    <3>2. msg[c].final # None
      BY <1>0, <2>3 DEF RetryCommit, Inv, FinalIsApproved
    <3> QED
      BY <3>1, <3>2, <1>1 DEF Inv, FinalIsApproved, Approved
  <2>4. CASE UpdateCommit(r) \/ CancelCommit(r) \/ Rollback(r)
    <3>1. msg'[c].final = msg[c].final /\ msg'[c].st \in {msg[c].st, "cancelled"}
      BY <2>0, <2>4, <1>0, <1>1 DEF UpdateCommit, CancelCommit, Rollback, Rows
    <3> QED
      BY <3>1, <1>1 DEF Inv, FinalIsApproved, Approved
  <2> QED
    BY <2>1, <2>2, <2>3, <2>4 DEF Commit
<1>4. FinalIsApproved'
  <2>1. \A m \in DOMAIN batch : m \in Msgs
    BY DEF Inv, TypeInv, TypeOK
  <2>2. \A q \in Reqs : pc'[q] = "retry" => msg'[loc'[q].m].final # None
    <3>1. \A q \in Reqs : pc[q] = "retry" => loc[q].m \in Msgs
                                          /\ msg[loc[q].m].final # None
      BY DEF Inv, TypeInv, Aimed, FinalIsApproved
    <3> QED
      BY <3>1, <1>1, <1>3
  <2>3. \A m \in DOMAIN batch' : msg'[m].final # None /\ batch'[m].body \in Approved(m)'
    BY <2>1, <1>1, <1>3 DEF Inv, FinalIsApproved
  <2>4. \A m \in Msgs :
           /\ msg'[m].final # None => msg'[m].final \in Approved(m)'
           /\ msg'[m].st \in {"approved", "failed", "sent"} => msg'[m].final # None
           /\ msg'[m].st = "none" => msg'[m].final = None
    BY <1>1, <1>3 DEF Inv, FinalIsApproved, Approved
  <2> QED
    BY <2>2, <2>3, <2>4 DEF FinalIsApproved
<1> QED
    BY <1>2, <1>4

LEMMA ApprovedStep == Inv /\ [Next]_vars /\ TypeInv' => Inv'
<1> SUFFICES ASSUME Inv, [Next]_vars, TypeInv'
             PROVE  FinalIsApproved' /\ OnlyApprovedTextIsSent'
    BY DEF Inv
<1>1. ASSUME NEW r \in Reqs, NEW m \in Msgs, Arrive(r, m)
      PROVE  FinalIsApproved' /\ OnlyApprovedTextIsSent'
  <2>1. UNCHANGED <<msg, older, attempts, batch, approvals>>
    BY <1>1 DEF Arrive, DraftLoad, ApproveLoad, UpdateLoad, RetryLoad, CancelLoad
  <2>2. \A q \in Reqs : pc'[q] = "retry" =>
           \/ pc[q] = "retry" /\ loc'[q] = loc[q]
           \/ msg[loc'[q].m].st = "failed" /\ loc'[q].m \in Msgs
    BY <1>1 DEF Arrive, DraftLoad, ApproveLoad, UpdateLoad, RetryLoad, CancelLoad,
                Goto, Inv, TypeInv, TypeOK
  <2> QED
    BY <2>1, <2>2 DEF Inv, FinalIsApproved, OnlyApprovedTextIsSent, Approved
<1>2. CASE WorkerLoad
  <2>1. \A m \in Pick : m \in Msgs /\ msg[m].st = "approved"
    BY DEF Pick, Waiting
  <2>2. \A m \in Pick : msg[m].final # None /\ TextOf(m).body \in Approved(m)
    BY <2>1 DEF TextOf, Inv, FinalIsApproved
  <2>3. DOMAIN batch' = Pick /\ \A m \in Pick : batch'[m] = TextOf(m)
    BY <1>2 DEF WorkerLoad
  <2>4. UNCHANGED <<msg, older, attempts, pc, loc, approvals>>
    BY <1>2 DEF WorkerLoad
  <2> QED
    BY <2>2, <2>3, <2>4 DEF Inv, FinalIsApproved, OnlyApprovedTextIsSent, Approved
<1>3. CASE WorkerCommit
  <2>1. PICK ok \in SUBSET DOMAIN batch :
            /\ msg' = [m \in Msgs |-> IF m \in DOMAIN batch
                     THEN [msg[m] EXCEPT !.st = Outcome(m, m \in ok)] ELSE msg[m]]
            /\ attempts' = [m \in Msgs |-> IF m \in ok
                          THEN Append(attempts[m], batch[m]) ELSE attempts[m]]
    BY <1>3 DEF WorkerCommit
  <2>2. DOMAIN batch' = {} /\ UNCHANGED <<older, pc, loc, approvals>>
    BY <1>3 DEF WorkerCommit, Asleep
  <2>3. \A m \in Msgs :
           /\ msg'[m].final = msg[m].final
           /\ msg'[m].st = msg[m].st \/ (msg[m].final # None /\ msg'[m].st # "none")
    BY <2>1 DEF Outcome, Inv, TypeInv, TypeOK, Rows, FinalIsApproved
  <2>4. FinalIsApproved'
    <3>1. \A q \in Reqs : pc[q] = "retry" => loc[q].m \in Msgs
      BY DEF Inv, TypeInv, Aimed
    <3> QED
      BY <2>2, <2>3, <3>1 DEF Inv, FinalIsApproved, Approved
  <2>5. ASSUME NEW m \in Msgs, NEW i \in DOMAIN attempts'[m]
        PROVE  attempts'[m][i].body \in Approved(m)
    <3>1. attempts[m] \in Seq(Sent)
      BY DEF Inv, TypeInv, TypeOK, Sent
    <3>2. \A j \in DOMAIN attempts[m] : attempts[m][j].body \in Approved(m)
      BY DEF Inv, OnlyApprovedTextIsSent, Approved
    <3>3. CASE m \in ok
      <4>1. attempts'[m] = Append(attempts[m], batch[m])
            /\ batch[m].body \in Approved(m)
        BY <2>1, <3>3 DEF Inv, FinalIsApproved
      <4>2. attempts'[m][i] = batch[m] \/ (i \in DOMAIN attempts[m]
                                          /\ attempts'[m][i] = attempts[m][i])
        BY <3>1, <4>1
      <4> QED
        BY <3>2, <4>1, <4>2
    <3>4. CASE m \notin ok
      BY <2>1, <3>2, <3>4
    <3> QED
      BY <3>3, <3>4
  <2>6. OnlyApprovedTextIsSent'
    BY <2>2, <2>5 DEF OnlyApprovedTextIsSent, Approved
  <2> QED
    BY <2>4, <2>6
<1>4. CASE WorkerRollback
    BY <1>4 DEF WorkerRollback, Asleep, Inv, FinalIsApproved,
                OnlyApprovedTextIsSent, Approved
<1>5. CASE UNCHANGED vars
    BY <1>5 DEF vars, Inv, FinalIsApproved, OnlyApprovedTextIsSent, Approved
<1> QED
    BY <1>1, <1>2, <1>3, <1>4, <1>5, CommitKeepsApproved DEF Next

\* No text is sent that the owner did not approve, however the requests and
\* the worker overlap (messages.py approve_text_back, sms_worker.py).
THEOREM ApprovalComesFirst == Spec => []OnlyApprovedTextIsSent
<1>1. Init => Inv
    BY TypeInit, ApprovedInit DEF Inv
<1>2. Inv /\ [Next]_vars => Inv'
    BY TypeStep, ApprovedStep DEF Inv
<1>3. Inv => OnlyApprovedTextIsSent
    BY DEF Inv
<1> QED
    BY <1>1, <1>2, <1>3, PTL DEF Spec

----------------------------------------------------------------------------
(* What holds as long as requests do not overlap each other.               *)

SentText(m) == [body |-> msg[m].final, to |-> msg[m].to]

\* One request at a time, and what it read still holds; the worker's batch is
\* as it was read, and a row was sent if and only if it says so
Serial ==
    /\ \A p, q \in Reqs : pc[p] # "idle" /\ pc[q] # "idle" => p = q
    /\ \A r \in Reqs :
          /\ pc[r] = "draft" => DraftsOf(CallOf[loc[r].m]) = {}
          /\ pc[r] \in {"update", "approve", "cancel"} =>
                msg[loc[r].m].st \in DraftStatuses
          /\ pc[r] = "retry" => msg[loc[r].m].st = "failed"
    /\ \A m \in DOMAIN batch : msg[m].st = "approved" /\ batch[m] = TextOf(m)
    /\ \A m \in Msgs :
          attempts[m] = IF msg[m].st = "sent" THEN <<SentText(m)>> ELSE <<>>
    /\ \A c \in Calls : \A m, n \in DraftsOf(c) : m = n

SerialInv == Inv /\ overlapped \in BOOLEAN /\ (~overlapped => Serial)

LEMMA SerialInit == HistInit => SerialInv
<1> SUFFICES ASSUME HistInit PROVE SerialInv
    OBVIOUS
<1>1. Init => Inv
    BY TypeInit, ApprovedInit DEF Inv
<1>2. Serial
    BY DEF HistInit, Init, Serial, Asleep, DraftsOf, DraftStatuses
<1> QED
    BY <1>1, <1>2 DEF HistInit, SerialInv

\* A request that starts reads what it relies on
LEMMA ArriveKeepsSerial ==
    ASSUME Inv, Serial, ~Overlap', NEW r \in Reqs, NEW m \in Msgs, Arrive(r, m)
    PROVE  Serial'
<1>1. UNCHANGED <<msg, older, attempts, batch, approvals>>
    BY DEF Arrive, DraftLoad, ApproveLoad, UpdateLoad, RetryLoad, CancelLoad
<1>2. /\ pc[r] = "idle" /\ pc'[r] # "idle" /\ loc'[r].m = m
      /\ pc'[r] \in {"draft", "update", "approve", "retry", "cancel"}
      /\ pc'[r] = "draft" => DraftsOf(CallOf[m]) = {}
      /\ pc'[r] \in {"update", "approve", "cancel"} => msg[m].st \in DraftStatuses
      /\ pc'[r] = "retry" => msg[m].st = "failed"
      /\ \A q \in Reqs : q # r => pc'[q] = pc[q] /\ loc'[q] = loc[q]
    BY DEF Arrive, DraftLoad, ApproveLoad, UpdateLoad, RetryLoad, CancelLoad, NoDraft,
           Editable, Approvable, Goto, Inv, TypeInv, TypeOK
<1>3. \A p, q \in Reqs : pc'[p] # "idle" /\ pc'[q] # "idle" => p = q
    BY DEF Overlap
<1>4. \A c \in Calls : DraftsOf(c)' = DraftsOf(c)
    BY <1>1 DEF DraftsOf
<1> QED
    BY <1>1, <1>2, <1>3, <1>4 DEF Serial, TextOf, SentText, DraftsOf

\* What a commit does to the row of its request, when nothing came between
LEMMA SerialCommitRow ==
    ASSUME Inv, Serial, NEW r \in Reqs, Commit(r), NEW c \in Msgs, c = loc[r].m
    PROVE  /\ UNCHANGED <<attempts, batch>> /\ pc' = [pc EXCEPT ![r] = "idle"] /\ pc[r] # "idle"
           /\ \A m \in Msgs \ {c} : msg'[m] = msg[m]
           /\ \/ msg' = msg
              \/ msg'[c].st = "drafted" /\ msg[c].st = "none" /\ DraftsOf(CallOf[c]) = {}
              \/ msg'[c].st = msg[c].st /\ msg[c].st \in DraftStatuses
              \/ /\ msg'[c].st \in {"approved", "cancelled"}
                 /\ msg[c].st \in DraftStatuses \cup {"failed"}
<1>0. msg[c] \in Rows /\ msg \in [Msgs -> Rows]
    BY DEF Inv, TypeInv, TypeOK
<1>1. UNCHANGED <<attempts, batch>> /\ pc' = [pc EXCEPT ![r] = "idle"] /\ pc[r] # "idle"
    BY DEF Commit, DraftCommit, UpdateCommit, ApproveCommit, RetryCommit, CancelCommit,
           Rollback, Finish
<1>2. \A m \in Msgs \ {c} : msg'[m] = msg[m]
    BY <1>0 DEF Commit, DraftCommit, UpdateCommit, ApproveCommit, Approve, RetryCommit,
           CancelCommit, Rollback
<1>3. CASE DraftCommit(r)
  <2>1. msg'[c].st = "drafted"
    BY <1>0, <1>3 DEF DraftCommit
  <2>2. msg[c].st = "none" /\ DraftsOf(CallOf[c]) = {}
    BY <1>3 DEF DraftCommit, Serial, Inv, TypeInv, NewRowsAreOwn
  <2> QED
    BY <1>1, <1>2, <2>1, <2>2
<1>4. CASE UpdateCommit(r)
  <2>1. msg'[c].st = msg[c].st
    BY <1>0, <1>4 DEF UpdateCommit, Rows
  <2>2. msg[c].st \in DraftStatuses
    BY <1>4 DEF UpdateCommit, Serial
  <2> QED
    BY <1>1, <1>2, <2>1, <2>2
<1>5. CASE ApproveCommit(r) \/ RetryCommit(r) \/ CancelCommit(r)
  <2>1. msg'[c].st \in {"approved", "cancelled"}
    BY <1>0, <1>5 DEF ApproveCommit, Approve, RetryCommit, CancelCommit, Rows
  <2>2. msg[c].st \in DraftStatuses \cup {"failed"}
    BY <1>5 DEF ApproveCommit, RetryCommit, CancelCommit, Serial
  <2> QED
    BY <1>1, <1>2, <2>1, <2>2
<1>6. CASE Rollback(r)
    BY <1>1, <1>2, <1>6 DEF Rollback
<1> QED
    BY <1>3, <1>4, <1>5, <1>6 DEF Commit

LEMMA CommitKeepsSerial ==
    ASSUME Inv, Serial, NEW r \in Reqs, Commit(r)
    PROVE  Serial'
<1>0. PICK c \in Msgs : c = loc[r].m
    BY DEF Commit, DraftCommit, UpdateCommit, ApproveCommit, RetryCommit,
           CancelCommit, Rollback, Inv, TypeInv, Aimed
<1>1. /\ UNCHANGED <<attempts, batch>> /\ pc' = [pc EXCEPT ![r] = "idle"] /\ pc[r] # "idle"
      /\ \A m \in Msgs \ {c} : msg'[m] = msg[m]
      /\ \/ msg' = msg
         \/ msg'[c].st = "drafted" /\ msg[c].st = "none" /\ DraftsOf(CallOf[c]) = {}
         \/ msg'[c].st = msg[c].st /\ msg[c].st \in DraftStatuses
         \/ /\ msg'[c].st \in {"approved", "cancelled"}
            /\ msg[c].st \in DraftStatuses \cup {"failed"}
    BY <1>0, SerialCommitRow
<1>2. \A q \in Reqs : pc'[q] = "idle"
    BY <1>1 DEF Inv, TypeInv, TypeOK, Serial
<1>3. \A m \in DOMAIN batch' : msg'[m].st = "approved" /\ batch'[m] = TextOf(m)'
  <2>1. \A m \in DOMAIN batch : m \in Msgs /\ msg[m].st = "approved" /\ batch[m] = TextOf(m)
    BY DEF Inv, TypeInv, TypeOK, Serial
  <2>2. \A m \in DOMAIN batch : msg'[m] = msg[m]
    BY <1>1, <2>1 DEF DraftStatuses
  <2> QED
    BY <1>1, <2>1, <2>2 DEF TextOf
<1>4. \A m \in Msgs :
         attempts'[m] = IF msg'[m].st = "sent" THEN <<SentText(m)'>> ELSE <<>>
  <2>1. ASSUME NEW m \in Msgs
        PROVE  msg'[m] = msg[m] \/ (msg[m].st # "sent" /\ msg'[m].st # "sent")
    BY <1>1 DEF DraftStatuses
  <2>2. ASSUME NEW m \in Msgs
        PROVE  attempts[m] = IF msg[m].st = "sent" THEN <<SentText(m)>> ELSE <<>>
    BY DEF Serial
  <2>3. ASSUME NEW m \in Msgs, msg'[m] = msg[m]
        PROVE  attempts'[m] = IF msg'[m].st = "sent" THEN <<SentText(m)'>> ELSE <<>>
    BY <1>1, <2>2, <2>3 DEF SentText
  <2>4. ASSUME NEW m \in Msgs, msg[m].st # "sent", msg'[m].st # "sent"
        PROVE  attempts'[m] = IF msg'[m].st = "sent" THEN <<SentText(m)'>> ELSE <<>>
    BY <1>1, <2>2, <2>4
  <2> QED
    BY <2>1, <2>3, <2>4
<1>5. ASSUME NEW call \in Calls, NEW m \in DraftsOf(call)', NEW n \in DraftsOf(call)'
      PROVE  m = n
  <2>1. m \in Msgs /\ n \in Msgs /\ CallOf[m] = call /\ CallOf[n] = call
        /\ msg'[m].st \in DraftStatuses /\ msg'[n].st \in DraftStatuses
    BY DEF DraftsOf
  <2>2. \A o \in Msgs : msg'[o].st \in DraftStatuses /\ msg[o].st \notin DraftStatuses =>
            o = c /\ DraftsOf(CallOf[c]) = {}
    BY <1>1 DEF DraftStatuses
  <2>3. CASE msg[m].st \in DraftStatuses /\ msg[n].st \in DraftStatuses
    BY <2>1, <2>3 DEF Serial, DraftsOf
  <2>4. CASE msg[m].st \notin DraftStatuses
    BY <2>1, <2>2, <2>4 DEF DraftsOf
  <2>5. CASE msg[n].st \notin DraftStatuses
    BY <2>1, <2>2, <2>5 DEF DraftsOf
  <2> QED
    BY <2>3, <2>4, <2>5
<1> QED
    BY <1>2, <1>3, <1>4, <1>5 DEF Serial

\* What the worker does to the rows of its batch, when it holds them as they were read
LEMMA SerialWorkerCommit ==
    ASSUME Inv, Serial, WorkerCommit
    PROVE  \E ok \in SUBSET DOMAIN batch :
              /\ \A m \in ok : msg'[m].st = "sent" /\ attempts'[m] = <<SentText(m)>>
              /\ \A m \in DOMAIN batch \ ok : msg'[m].st = "failed" /\ attempts'[m] = attempts[m]
              /\ \A m \in Msgs \ DOMAIN batch : msg'[m] = msg[m] /\ attempts'[m] = attempts[m]
              /\ \A m \in Msgs : msg'[m].final = msg[m].final /\ msg'[m].to = msg[m].to
<1>1. PICK ok \in SUBSET DOMAIN batch :
            /\ msg' = [m \in Msgs |-> IF m \in DOMAIN batch
                     THEN [msg[m] EXCEPT !.st = Outcome(m, m \in ok)] ELSE msg[m]]
            /\ attempts' = [m \in Msgs |-> IF m \in ok
                          THEN Append(attempts[m], batch[m]) ELSE attempts[m]]
    BY DEF WorkerCommit
<1>2. \A m \in Msgs : msg[m] \in Rows
    BY DEF Inv, TypeInv, TypeOK
<1>3. \A m \in DOMAIN batch : /\ m \in Msgs /\ attempts[m] = <<>>
                             /\ batch[m] = SentText(m)
    BY DEF Inv, TypeInv, TypeOK, Serial, FinalIsApproved, TextOf, SentText
<1>4. \A m \in Msgs : msg'[m].final = msg[m].final /\ msg'[m].to = msg[m].to
    BY <1>1, <1>2 DEF Rows
<1>5. \A m \in ok : msg'[m].st = "sent" /\ attempts'[m] = <<SentText(m)>>
  <2>1. \A x : Append(<<>>, x) = <<x>>
    OBVIOUS
  <2> QED
    BY <1>1, <1>2, <1>3, <2>1 DEF Rows, Outcome
<1>6. \A m \in DOMAIN batch \ ok : msg'[m].st = "failed" /\ attempts'[m] = attempts[m]
    BY <1>1, <1>2, <1>3 DEF Rows, Outcome
<1> QED
    BY <1>1, <1>4, <1>5, <1>6

LEMMA WorkerKeepsSerial ==
    ASSUME Inv, Serial, WorkerLoad \/ WorkerCommit \/ WorkerRollback
    PROVE  Serial'
<1>1. CASE WorkerLoad
  <2>1. \A m \in Pick : m \in Msgs /\ msg[m].st = "approved"
    BY DEF Pick, Waiting
  <2>2. UNCHANGED <<msg, attempts, pc, loc>> /\ batch' = [m \in Pick |-> TextOf(m)]
    BY <1>1 DEF WorkerLoad
  <2> QED
    BY <2>1, <2>2 DEF Serial, DraftsOf, SentText, TextOf
<1>2. CASE WorkerCommit
  <2>1. PICK ok \in SUBSET DOMAIN batch :
              /\ \A m \in ok : msg'[m].st = "sent" /\ attempts'[m] = <<SentText(m)>>
              /\ \A m \in DOMAIN batch \ ok : msg'[m].st = "failed" /\ attempts'[m] = attempts[m]
              /\ \A m \in Msgs \ DOMAIN batch : msg'[m] = msg[m] /\ attempts'[m] = attempts[m]
              /\ \A m \in Msgs : msg'[m].final = msg[m].final /\ msg'[m].to = msg[m].to
    BY <1>2, SerialWorkerCommit
  <2>2. UNCHANGED <<pc, loc>> /\ DOMAIN batch' = {}
    BY <1>2 DEF WorkerCommit, Asleep
  <2>3. \A m \in DOMAIN batch : m \in Msgs /\ msg[m].st = "approved"
    BY DEF Inv, TypeInv, TypeOK, Serial
  <2>4. \A m \in Msgs : \/ msg'[m] = msg[m]
                        \/ msg[m].st = "approved" /\ msg'[m].st \in {"sent", "failed"}
    BY <2>1, <2>3
  <2>5. \A m \in Msgs : msg'[m].st \in DraftStatuses <=> msg[m].st \in DraftStatuses
    BY <2>4 DEF DraftStatuses
  <2>6. \A c \in Calls : DraftsOf(c)' = DraftsOf(c)
    BY <2>5 DEF DraftsOf
  <2>7. ASSUME NEW r \in Reqs
        PROVE  (/\ pc[r] = "draft" => DraftsOf(CallOf[loc[r].m]) = {}
                /\ pc[r] \in {"update", "approve", "cancel"} =>
                      msg[loc[r].m].st \in DraftStatuses
                /\ pc[r] = "retry" => msg[loc[r].m].st = "failed")'
    <3>1. CASE pc[r] = "idle"
      BY <2>2, <3>1
    <3>2. CASE pc[r] # "idle"
      <4>1. PICK m \in Msgs : m = loc[r].m
        BY <3>2 DEF Inv, TypeInv, Aimed
      <4>2. CallOf[m] \in Calls
        BY CallOfAssumption
      <4>3. DraftsOf(CallOf[loc[r].m])' = DraftsOf(CallOf[m])
        BY <2>2, <2>6, <4>1, <4>2 DEF DraftsOf
      <4> QED
        BY <2>2, <2>4, <2>5, <4>1, <4>3 DEF Serial
    <3> QED
      BY <3>1, <3>2
  <2>8. \A m \in Msgs :
           attempts'[m] = IF msg'[m].st = "sent" THEN <<SentText(m)'>> ELSE <<>>
    BY <2>1, <2>3 DEF Serial, SentText
  <2> QED
    BY <2>2, <2>6, <2>7, <2>8 DEF Serial
<1>3. CASE WorkerRollback
    BY <1>3 DEF WorkerRollback, Asleep, Serial, DraftsOf, SentText, TextOf
<1> QED
    BY <1>1, <1>2, <1>3

LEMMA SerialStep ==
    SerialInv /\ [Next /\ Hist]_<<vars, overlapped>> => SerialInv'
<1> SUFFICES ASSUME SerialInv, [Next /\ Hist]_<<vars, overlapped>> PROVE SerialInv'
    OBVIOUS
<1>1. Inv'
    BY TypeStep, ApprovedStep DEF SerialInv, Inv
<1>2. CASE Next /\ Hist
  <2>1. overlapped' \in BOOLEAN /\ (~overlapped' => ~overlapped /\ ~Overlap')
    BY <1>2 DEF Hist, SerialInv
  <2>2. ASSUME ~overlapped' PROVE Serial'
    <3>1. Inv /\ Serial /\ ~Overlap'
      BY <2>1, <2>2 DEF SerialInv
    <3> QED
      BY <1>2, <3>1, ArriveKeepsSerial, CommitKeepsSerial, WorkerKeepsSerial DEF Next
  <2> QED
    BY <1>1, <2>1, <2>2 DEF SerialInv
<1>3. CASE UNCHANGED <<vars, overlapped>>
    BY <1>1, <1>3 DEF vars, SerialInv, Serial, DraftsOf, SentText, TextOf
<1> QED
    BY <1>2, <1>3

LEMMA SerialAlways == HistSpec => []SerialInv
    BY SerialInit, SerialStep, PTL DEF HistSpec

\* A call never has a second draft while requests wait for each other
\* (messages.py create_text_back_draft, _find_draft_for_call).
THEOREM OneDraftWithoutOverlap == HistSpec => []OneDraftPerCall
<1>1. SerialInv => OneDraftPerCall
  <2> SUFFICES ASSUME SerialInv, ~overlapped, NEW c \in Calls
               PROVE  Cardinality(DraftsOf(c)) <= 1
      BY DEF OneDraftPerCall
  <2>1. CASE DraftsOf(c) = {}
    BY <2>1, FS_EmptySet
  <2>2. CASE DraftsOf(c) # {}
    <3>1. PICK m \in DraftsOf(c) : TRUE
      BY <2>2
    <3>2. \A n \in DraftsOf(c) : n = m
      BY DEF SerialInv, Serial
    <3>3. DraftsOf(c) = {m}
      BY <3>1, <3>2
    <3>4. Cardinality({m}) = 1
      BY FS_Singleton
    <3> QED
      BY <3>3, <3>4
  <2> QED
    BY <2>1, <2>2
<1> QED
    BY <1>1, SerialAlways, PTL

----------------------------------------------------------------------------
(* The approval policy, step by step.                                      *)

\* What the owner agreed to, as the policy sees it
Agreed(m) == IF Stage(m) \in {"approved", "sent"} THEN SentText(m) ELSE None

LEMMA PolicyInit == Init => Policy!Init
<1> SUFFICES ASSUME Init PROVE Policy!Init
    OBVIOUS
<1>1. \A m \in Msgs : Stage(m) = "open"
    BY DEF Init, Stage
<1> QED
    BY <1>1 DEF Init, Policy!Init

\* A message's stage is read off its status
LEMMA StageOfStatus ==
    ASSUME Serial, NEW m \in Msgs
    PROVE  /\ Stage(m) = IF msg[m].st = "sent" THEN "sent"
                         ELSE IF msg[m].st \in {"approved", "failed"} THEN "approved"
                         ELSE IF msg[m].st = "cancelled" THEN "cancelled" ELSE "open"
           /\ msg[m].st # "sent" => attempts[m] = <<>>
<1>1. <<SentText(m)>> # <<>>
    OBVIOUS
<1> QED
    BY <1>1 DEF Serial, Stage

\* Every commit of a request is a step of the policy, or none
LEMMA CommitKeepsPolicy ==
    ASSUME Inv, Serial, Serial', NEW r \in Reqs, Commit(r)
    PROVE  [Policy!Next]_Policy!vars
<1>0. PICK c \in Msgs : c = loc[r].m
    BY DEF Commit, DraftCommit, UpdateCommit, ApproveCommit, RetryCommit,
           CancelCommit, Rollback, Inv, TypeInv, Aimed
<1>1. UNCHANGED attempts /\ \A m \in Msgs \ {c} : msg'[m] = msg[m]
    BY <1>0, SerialCommitRow
<1>2. \A m \in Msgs \ {c} : Stage(m)' = Stage(m) /\ Agreed(m)' = Agreed(m)
    BY <1>1 DEF Stage, Agreed, SentText
<1>3. msg[c] \in Rows /\ msg \in [Msgs -> Rows]
    BY DEF Inv, TypeInv, TypeOK
<1>4. CASE DraftCommit(r) \/ UpdateCommit(r)
  <2>1. Stage(c) = "open" /\ Stage(c)' = "open"
    <3>1. msg[c].st \in DraftStatuses \cup {"none"}
          /\ msg'[c].st \in DraftStatuses
      BY <1>0, <1>3, <1>4 DEF DraftCommit, UpdateCommit, Serial, Inv, TypeInv,
                              NewRowsAreOwn, Rows, DraftStatuses
    <3> QED
      BY <3>1, StageOfStatus DEF Serial, Stage, DraftStatuses
  <2> QED
    BY <1>1, <1>2, <2>1 DEF Policy!vars, Agreed, SentText
<1>5. CASE RetryCommit(r)
  <2>1. msg[c].st = "failed" /\ msg'[c].st = "approved"
        /\ msg'[c].final = msg[c].final /\ msg'[c].to = msg[c].to
    BY <1>0, <1>3, <1>5 DEF RetryCommit, Serial, Rows
  <2>2. Stage(c) = "approved" /\ Stage(c)' = "approved"
    BY <1>1, <2>1, StageOfStatus DEF Stage
  <2> QED
    BY <1>1, <1>2, <2>1, <2>2 DEF Policy!vars, Agreed, SentText
<1>6. CASE CancelCommit(r)
  <2>1. msg[c].st \in DraftStatuses /\ msg'[c].st = "cancelled"
    BY <1>0, <1>3, <1>6 DEF CancelCommit, Serial, Rows
  <2>2. Stage(c) = "open" /\ Stage(c)' = "cancelled"
    BY <1>1, <2>1, StageOfStatus DEF Stage, DraftStatuses
  <2>3. Policy!Abandon(c)
    BY <1>1, <1>2, <2>2 DEF Policy!Abandon, Agreed, SentText
  <2> QED
    BY <2>3 DEF Policy!Next
<1>7. CASE ApproveCommit(r)
  <2>1. PICK t \in Texts : t = [body |-> loc[r].body, to |-> loc[r].to]
    BY <1>7 DEF ApproveCommit, Inv, TypeInv, Aimed, Texts
  <2>2. msg[c].st \in DraftStatuses /\ msg'[c].st = "approved" /\ SentText(c)' = t
    BY <1>0, <1>3, <1>7, <2>1 DEF ApproveCommit, Approve, Serial, Rows, SentText
  <2>3. Stage(c) = "open" /\ Stage(c)' = "approved"
    BY <1>1, <2>2, StageOfStatus DEF Stage, DraftStatuses
  <2>4. Policy!Agree(c, t)
    BY <1>1, <1>2, <2>2, <2>3 DEF Policy!Agree, Agreed, SentText
  <2> QED
    BY <2>1, <2>4 DEF Policy!Next
<1>8. CASE Rollback(r)
  <2>1. UNCHANGED <<msg, attempts>>
    BY <1>8 DEF Rollback
  <2> QED
    BY <2>1 DEF Policy!vars, Stage
<1> QED
    BY <1>4, <1>5, <1>6, <1>7, <1>8 DEF Commit

LEMMA WorkerKeepsPolicy ==
    ASSUME Inv, Serial, Serial', WorkerCommit
    PROVE  Policy!Next
<1>1. PICK ok \in SUBSET DOMAIN batch :
              /\ \A m \in ok : msg'[m].st = "sent" /\ attempts'[m] = <<SentText(m)>>
              /\ \A m \in DOMAIN batch \ ok : msg'[m].st = "failed" /\ attempts'[m] = attempts[m]
              /\ \A m \in Msgs \ DOMAIN batch : msg'[m] = msg[m] /\ attempts'[m] = attempts[m]
              /\ \A m \in Msgs : msg'[m].final = msg[m].final /\ msg'[m].to = msg[m].to
    BY SerialWorkerCommit
<1>2. \A m \in DOMAIN batch : m \in Msgs /\ msg[m].st = "approved"
    BY DEF Inv, TypeInv, TypeOK, Serial
<1>3. \A m \in Msgs : attempts'[m] = IF m \in ok THEN <<SentText(m)>> ELSE attempts[m]
    BY <1>1, <1>2
<1>4. \A m \in Msgs : SentText(m)' = SentText(m)
    BY <1>1 DEF SentText
<1>5. \A m \in DOMAIN batch : Stage(m) = "approved"
    BY <1>2, StageOfStatus
<1>6. \A m \in Msgs : Stage(m)' = IF m \in ok THEN "sent" ELSE Stage(m)
  <2> SUFFICES ASSUME NEW m \in Msgs
               PROVE  Stage(m)' = IF m \in ok THEN "sent" ELSE Stage(m)
      OBVIOUS
  <2>1. CASE m \in ok
    <3>1. <<SentText(m)>> # <<>>
      OBVIOUS
    <3> QED
      BY <1>3, <2>1, <3>1 DEF Stage
  <2>2. CASE m \in DOMAIN batch \ ok
    <3>1. attempts'[m] = <<>> /\ msg'[m].st = "failed"
      BY <1>1, <1>2, <2>2, StageOfStatus
    <3> QED
      BY <1>5, <2>2, <3>1 DEF Stage
  <2>3. CASE m \in Msgs \ DOMAIN batch
    BY <1>1, <2>3 DEF Stage
  <2> QED
    BY <2>1, <2>2, <2>3
<1>7. ok \in SUBSET Msgs
    BY <1>2
<1>8. \A m \in Msgs : Agreed(m)' = Agreed(m)
    BY <1>2, <1>4, <1>5, <1>6 DEF Agreed
<1>9. \A m \in ok : Agreed(m) = SentText(m)
    BY <1>5 DEF Agreed
<1>10. attempts' = [m \in Msgs |-> IF m \in ok THEN <<Agreed(m)>> ELSE attempts[m]]
    BY <1>3, <1>9 DEF WorkerCommit
<1>11. Policy!Send(ok)
    BY <1>5, <1>6, <1>7, <1>8, <1>10 DEF Policy!Send, Agreed, SentText
<1> QED
    BY <1>7, <1>11 DEF Policy!Next

\* As long as requests do not overlap each other, text-back implements the
\* approval policy: one approval, what was approved, sent once (messages.py,
\* sms_worker.py).
THEOREM PolicyIsKept == HistSpec => PolicySpec
<1>1. HistInit => Policy!Init
    BY PolicyInit DEF HistInit
<1>2. SerialInv /\ SerialInv' /\ [Next /\ Hist]_<<vars, overlapped>> =>
          [~overlapped' => [Policy!Next]_Policy!vars]_<<vars, overlapped>>
  <2> SUFFICES ASSUME SerialInv, SerialInv', Next, Hist, ~overlapped'
               PROVE  [Policy!Next]_Policy!vars
      OBVIOUS
  <2>1. Inv /\ Serial /\ Serial'
    BY DEF SerialInv, Hist
  <2>2. ASSUME NEW r \in Reqs, NEW m \in Msgs, Arrive(r, m)
        PROVE  UNCHANGED Policy!vars
    <3>1. UNCHANGED <<msg, attempts>>
      BY <2>2 DEF Arrive, DraftLoad, ApproveLoad, UpdateLoad, RetryLoad, CancelLoad
    <3> QED
      BY <3>1 DEF Policy!vars, Stage
  <2>3. ASSUME WorkerLoad \/ WorkerRollback
        PROVE  UNCHANGED Policy!vars
    BY <2>3 DEF WorkerLoad, WorkerRollback, Policy!vars, Stage
  <2> QED
    BY <2>1, <2>2, <2>3, CommitKeepsPolicy, WorkerKeepsPolicy DEF Next
<1> QED
    BY <1>1, <1>2, SerialAlways, PTL DEF HistSpec, PolicySpec
=============================================================================
