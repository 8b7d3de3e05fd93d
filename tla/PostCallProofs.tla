--------------------------- MODULE PostCallProofs ---------------------------
(***************************************************************************)
(* Proofs about PostCall: types, usage counted once, and nothing left of a *)
(* call that is gone.                                                      *)
(***************************************************************************)
EXTENDS PostCall, FiniteSetTheorems, TLAPS

----------------------------------------------------------------------------
(* Rows: what the worker and the requests make of an artifact is one.      *)

\* A new artifact is one.
LEMMA RowType == NoRow \in Rows /\ \A ref \in BOOLEAN :
    Row("pending", ref) \in Rows /\ Row("processing", ref) \in Rows
BY DEF Row, NoRow, Rows, Statuses, Unfinished

\* process_call_artifacts makes an artifact of an artifact.
LEMMA ProcessedType ==
    ASSUME NEW a \in Rows, NEW f \in Answers
    PROVE  Processed(a, f) \in Rows
<1>1. \A b \in Rows : Transcribed(b, f) \in Rows
    BY DEF Transcribed, Rows, Statuses, Unfinished
<1>2. \A b \in Rows : Summarised(b, f) \in Rows
    <2> SUFFICES ASSUME NEW b \in Rows PROVE Summarised(b, f) \in Rows
        OBVIOUS
    <2>1. [b EXCEPT !.sum = "ready", !.summary = Heard(b, f) # "none",
                    !.facts = TRUE] \in Rows
        BY DEF Rows, Statuses
    <2> QED
        BY <2>1 DEF Summarised
<1>3. \A b \in Rows : Labelled(b, f) \in Rows
    <2> SUFFICES ASSUME NEW b \in Rows PROVE Labelled(b, f) \in Rows
        OBVIOUS
    <2>1. [b EXCEPT !.lab = "ready", !.labels = {"auto"}] \in Rows
        BY DEF Rows, Statuses
    <2> QED
        BY <2>1 DEF Labelled
<1> QED
    BY <1>1, <1>2, <1>3 DEF Processed

\* Whatever the worker read and computed, what it writes is an artifact.
LEMMA WrittenType ==
    ASSUME NEW now \in Rows, NEW was \in Rows, NEW new \in Rows
    PROVE  Written(now, was, new) \in Rows
BY DEF Written, Rows

----------------------------------------------------------------------------
(* Types *)

\* What a request was asked about: a call, or an item of memory
CallOps == {"trigger", "labels", "notes", "regenerate", "refresh", "delete"}
RequestsAim ==
    \A r \in Reqs : /\ loc[r].op \in CallOps => loc[r].on \in Calls
                    /\ loc[r].op \in {"confirm", "forget"} => loc[r].on \in Items

TypeInv == TypeOK /\ RequestsAim

LEMMA TypeInit == Init => TypeInv
<1> SUFFICES ASSUME Init PROVE TypeInv
    OBVIOUS
<1>1. Idle \in Locals /\ NoRow \in Rows
    BY RowType DEF Idle, Locals, Ops
<1>2. RequestsAim
    BY DEF Init, RequestsAim, Idle, CallOps
<1>3. \A i \in Items : memo[i] \in Memos
    BY DEF Init, Memos
<1> QED
    BY <1>1, <1>2, <1>3 DEF Init, TypeInv, TypeOK, Asleep

\* The slot of an idle request is well typed.
LEMMA IdleType == Idle \in Locals /\ Idle.op = "none"
BY RowType DEF Idle, Locals, Ops

\* A request that writes an artifact keeps the types.
LEMMA WriteType ==
    ASSUME TypeInv, NEW r \in Reqs, NEW op \in CallOps, NEW row \in Rows,
           WritesArtifact(r, op, row)
    PROVE  TypeInv'
<1>1. art' \in [Calls -> Rows]
    BY DEF TypeInv, TypeOK, WritesArtifact
<1>2. loc' \in [Reqs -> Locals]
    BY IdleType DEF TypeInv, TypeOK, WritesArtifact
<1>3. RequestsAim'
    BY IdleType DEF TypeInv, TypeOK, RequestsAim, WritesArtifact, CallOps
<1> QED
    BY <1>1, <1>2, <1>3 DEF TypeInv, TypeOK, WritesArtifact

\* A request that writes an item of memory keeps the types.
LEMMA ItemType ==
    ASSUME TypeInv, NEW r \in Reqs, NEW op, NEW item \in Memos,
           WritesItem(r, op, item)
    PROVE  TypeInv'
<1>1. memo' \in [Items -> Memos]
    BY DEF TypeInv, TypeOK, WritesItem
<1>2. loc' \in [Reqs -> Locals]
    BY IdleType DEF TypeInv, TypeOK, WritesItem
<1>3. RequestsAim'
    BY IdleType DEF TypeInv, TypeOK, RequestsAim, WritesItem, CallOps
<1> QED
    BY <1>1, <1>2, <1>3 DEF TypeInv, TypeOK, WritesItem

\* A request has an artifact of its call in view, and read one.
LEMMA Reads ==
    ASSUME TypeInv, NEW r \in Reqs, loc[r].op \in CallOps
    PROVE  Target(r) \in Rows /\ loc[r].row \in Rows
BY DEF TypeInv, TypeOK, RequestsAim, Target, Locals

\* The worker finishes a set of calls, and adds their usage once.
LEMMA FinishedCalls ==
    ASSUME TypeOK, NEW f \in MayAnswer
    PROVE  /\ Finished(f) \subseteq Calls
           /\ IsFiniteSet({c \in Finished(f) : Bills(c)})
           /\ Cardinality({c \in Finished(f) : Bills(c)}) \in Nat
<1>1. Finished(f) \subseteq Calls
    BY DEF Finished, TypeOK
<1>2. IsFiniteSet({c \in Finished(f) : Bills(c)})
    BY <1>1, CallsAssumption, FS_Subset
<1> QED
    BY <1>1, <1>2, FS_CardinalityType

\* What the worker writes back keeps the types.
LEMMA WorkerType ==
    ASSUME TypeInv, NEW f \in MayAnswer, WorkerCommit(f)
    PROVE  TypeInv'
<1>1. f \in [DOMAIN batch -> Answers]
    BY DEF MayAnswer
<1>2. \A c \in DOMAIN batch : Processed(batch[c], f[c]) \in Rows
    BY <1>1, ProcessedType DEF TypeInv, TypeOK
<1>3. \A c \in Calls : c \in DOMAIN batch =>
          Written(art[c], batch[c], Processed(batch[c], f[c])) \in Rows
    BY <1>2, WrittenType DEF TypeInv, TypeOK
<1>4. art' \in [Calls -> Rows]
    BY <1>3 DEF TypeInv, TypeOK, WorkerCommit
<1>5. memo' \in [Items -> Memos]
    <2>1. CASE UNCHANGED memo
        BY <2>1 DEF TypeInv, TypeOK
    <2>2. CASE ~UNCHANGED memo
        <3>1. PICK c \in Finished(f), i \in Items :
                memo' = [memo EXCEPT ![i] = [st |-> "live", sure |-> FALSE, src |-> c]]
            BY <2>2 DEF WorkerCommit, Remembers
        <3>2. c \in Calls
            BY FinishedCalls DEF TypeInv
        <3> QED
            BY <3>1, <3>2 DEF TypeInv, TypeOK, Memos
    <2> QED
        BY <2>1, <2>2
<1>6. minutes' \in Nat /\ billed' \in SUBSET Calls
    <2>1. minutes' = minutes + Cardinality({c \in Finished(f) : Bills(c)})
          /\ billed' = billed \cup {c \in Finished(f) : Bills(c)}
        BY DEF WorkerCommit
    <2>2. minutes \in Nat /\ billed \in SUBSET Calls
        BY DEF TypeInv, TypeOK
    <2>3. /\ Finished(f) \subseteq Calls
          /\ Cardinality({c \in Finished(f) : Bills(c)}) \in Nat
        BY FinishedCalls DEF TypeInv
    <2>4. minutes' \in Nat
        BY <2>1, <2>2, <2>3
    <2> QED
        BY <2>1, <2>2, <2>3, <2>4
<1>7. announced' \in SUBSET Calls
    BY FinishedCalls DEF TypeInv, TypeOK, WorkerCommit, Announces
<1>8. DOMAIN batch' = {}
    BY DEF WorkerCommit, Asleep
<1>9. UNCHANGED <<call, timed, said, loc>>
    BY DEF WorkerCommit
<1> QED
    BY <1>4, <1>5, <1>6, <1>7, <1>8, <1>9 DEF TypeInv, TypeOK, RequestsAim

\* Every action keeps the types and what requests were asked about.
LEMMA TypeStep == TypeInv /\ [Next]_vars => TypeInv'
<1> SUFFICES ASSUME TypeInv, [Next]_vars PROVE TypeInv'
    OBVIOUS
<1>1. CASE UNCHANGED vars
    BY <1>1 DEF TypeInv, TypeOK, RequestsAim, vars
<1>2. ASSUME NEW c \in Calls,
             CallIsTimed(c) \/ ConversationEnds(c) \/ Retire(c) \/ HardDelete(c)
      PROVE  TypeInv'
    <2>1. CASE CallIsTimed(c) \/ ConversationEnds(c)
        BY <2>1 DEF TypeInv, TypeOK, RequestsAim, CallIsTimed, ConversationEnds
    <2>2. CASE Retire(c)
        <3>1. [art[c] EXCEPT !.summary = FALSE, !.ref = FALSE] \in Rows
            BY ZenonT(60) DEF TypeInv, TypeOK, Rows
        <3>2. art' = [art EXCEPT ![c] = [art[c] EXCEPT !.summary = FALSE, !.ref = FALSE]]
            BY <2>2 DEF Retire, TypeInv, TypeOK, Rows
        <3>3. memo' \in [Items -> Memos]
            BY <2>2 DEF Retire, TypeInv, TypeOK, Memos
        <3> QED
            BY <2>2, <3>1, <3>2, <3>3 DEF Retire, TypeInv, TypeOK, RequestsAim
    <2>3. CASE HardDelete(c)
        <3>1. memo' \in [Items -> Memos]
            BY <2>3, ZenonT(60) DEF HardDelete, TypeInv, TypeOK, Memos
        <3> QED
            BY <2>3, <3>1, RowType DEF HardDelete, TypeInv, TypeOK, RequestsAim
    <2> QED
        BY <1>2, <2>1, <2>2, <2>3
<1>3. CASE WorkerLoad
    BY <1>3 DEF WorkerLoad, Pending, TypeInv, TypeOK, RequestsAim
<1>4. ASSUME NEW f \in MayAnswer, WorkerCommit(f) \/ WorkerRollback(f)
      PROVE  TypeInv'
    <2>1. CASE WorkerCommit(f)
        BY <2>1, WorkerType
    <2>2. CASE WorkerRollback(f)
        <3>1. announced' \in SUBSET Calls
            BY <2>2, FinishedCalls DEF WorkerRollback, Announces, TypeInv, TypeOK
        <3>2. DOMAIN batch' = {}
            BY <2>2 DEF WorkerRollback, Asleep
        <3> QED
            BY <2>2, <3>1, <3>2 DEF WorkerRollback, TypeInv, TypeOK, RequestsAim
    <2> QED
        BY <1>4, <2>1, <2>2
<1>5. CASE DeleteAllMemory
    <2>1. memo' \in [Items -> Memos]
        BY <1>5 DEF DeleteAllMemory, TypeInv, TypeOK, Memos
    <2> QED
        BY <1>5, <2>1 DEF DeleteAllMemory, TypeInv, TypeOK, RequestsAim
<1>6. ASSUME NEW i \in Items, CreateItem(i) PROVE TypeInv'
    BY <1>6 DEF CreateItem, TypeInv, TypeOK, RequestsAim, Memos
<1>7. ASSUME NEW r \in Reqs, Arrive(r) PROVE TypeInv'
    <2>1. PICK op \in Ops, on \in Calls \cup Items :
            /\ Asks(r, op, on)
            /\ op \in CallOps => on \in Calls
            /\ op \in {"confirm", "forget"} => on \in Items
        BY <1>7 DEF Arrive, Ops, CallOps
    <2>2. \A c \in Calls : Read(op, art[c]) \in Rows
        BY DEF Read, NoRow, Row, Unfinished, Statuses, TypeInv, TypeOK, Rows
    <2>3. loc' = [loc EXCEPT ![r] = loc'[r]] /\ loc'[r] \in Locals
          /\ loc'[r].op = op /\ loc'[r].on = on
        BY <2>1, <2>2, RowType DEF Asks, TypeInv, TypeOK, Locals
    <2>4. loc' \in [Reqs -> Locals]
        BY <2>3 DEF TypeInv, TypeOK
    <2>5. RequestsAim'
        BY <2>1, <2>3 DEF TypeInv, TypeOK, RequestsAim
    <2> QED
        BY <2>1, <2>4, <2>5 DEF Asks, TypeInv, TypeOK
<1>8. ASSUME NEW r \in Reqs, Commit(r) PROVE TypeInv'
    <2>1. CASE Trigger(r)
        <3>1. PICK ref \in BOOLEAN : WritesArtifact(r, "trigger",
                IF loc[r].row = NoRow THEN Row("processing", ref)
                ELSE [Target(r) EXCEPT
                       !.tr = IF loc[r].row.tr = "pending" THEN "processing" ELSE @,
                       !.sum = IF loc[r].row.sum = "pending" THEN "processing" ELSE @,
                       !.lab = IF loc[r].row.lab = "pending" THEN "processing" ELSE @])
            BY <2>1 DEF Trigger
        <3>2. Target(r) \in Rows
            BY <3>1, Reads DEF WritesArtifact, CallOps
        <3>3. [Target(r) EXCEPT
                 !.tr = IF loc[r].row.tr = "pending" THEN "processing" ELSE @,
                 !.sum = IF loc[r].row.sum = "pending" THEN "processing" ELSE @,
                 !.lab = IF loc[r].row.lab = "pending" THEN "processing" ELSE @] \in Rows
            BY <3>2 DEF Rows, Statuses, Unfinished
        <3> QED
            BY <3>1, <3>3, RowType, WriteType DEF CallOps
    <2>2. CASE PatchLabels(r)
        <3> DEFINE seen == IF loc[r].row = NoRow THEN Row("pending", FALSE)
                           ELSE loc[r].row
                   row == [(IF loc[r].row = NoRow THEN seen ELSE Target(r)) EXCEPT
                             !.labels = seen.labels \cup {"manual"},
                             !.lab = IF Settles(seen) THEN "ready" ELSE @]
        <3>1. WritesArtifact(r, "labels", row)
            BY <2>2 DEF PatchLabels
        <3>2. Target(r) \in Rows /\ seen \in Rows
            BY <3>1, Reads, RowType DEF WritesArtifact, CallOps
        <3>3. row \in Rows
            BY <3>2, ZenonT(60) DEF Rows, Statuses
        <3> QED
            BY <3>1, <3>3, WriteType DEF CallOps
    <2>3. CASE PatchNotes(r)
        <3>1. loc[r].op = "notes"
            BY <2>3 DEF PatchNotes, WritesArtifact
        <3> QED
            BY <2>3, <3>1, Reads, RowType, WriteType DEF PatchNotes, CallOps
    <2>4. CASE RegenerateSummary(r)
        <3>1. Target(r) \in Rows
            BY <2>4, Reads DEF RegenerateSummary, WritesArtifact, CallOps
        <3>2. [Target(r) EXCEPT !.sum = IF loc[r].row.sum = "pending" THEN @
                                        ELSE Requeued] \in Rows
            BY <3>1 DEF Rows, Statuses, Unfinished, Requeued
        <3> QED
            BY <2>4, <3>2, WriteType DEF RegenerateSummary, CallOps
    <2>5. CASE RefreshSummary(r)
        <3>1. Target(r) \in Rows
            BY <2>5, Reads DEF RefreshSummary, WritesArtifact, CallOps
        <3>2. [Target(r) EXCEPT !.summary = TRUE, !.facts = TRUE] \in Rows
            BY <3>1 DEF Rows
        <3> QED
            BY <2>5, <3>2, WriteType DEF RefreshSummary, CallOps
    <2>6. CASE DeleteCall(r)
        <3>1. memo' \in [Items -> Memos]
            BY <2>6 DEF DeleteCall, TypeInv, TypeOK, Memos
        <3>2. loc' \in [Reqs -> Locals] /\ RequestsAim'
            BY <2>6, IdleType DEF DeleteCall, TypeInv, TypeOK, RequestsAim, CallOps
        <3>3. call' \in [Calls -> {"live", "deleted", "gone"}]
            BY <2>6 DEF DeleteCall, TypeInv, TypeOK
        <3> QED
            BY <2>6, <3>1, <3>2, <3>3 DEF DeleteCall, TypeInv, TypeOK
    <2>7. CASE ConfirmItem(r)
        <3>1. PICK sure \in BOOLEAN :
                WritesItem(r, "confirm", [memo[loc[r].on] EXCEPT !.sure = sure])
            BY <2>7 DEF ConfirmItem
        <3>2. [memo[loc[r].on] EXCEPT !.sure = sure] \in Memos
            BY <3>1 DEF WritesItem, TypeInv, TypeOK, RequestsAim, Memos
        <3> QED
            BY <3>1, <3>2, ItemType
    <2>8. CASE DeleteItem(r)
        <3>1. [memo[loc[r].on] EXCEPT !.st = "deleted"] \in Memos
            BY <2>8 DEF DeleteItem, WritesItem, TypeInv, TypeOK, RequestsAim, Memos
        <3> QED
            BY <2>8, <3>1, ItemType DEF DeleteItem
    <2>9. CASE Rollback(r)
        BY <2>9, IdleType DEF Rollback, TypeInv, TypeOK, RequestsAim, CallOps
    <2> QED
        BY <1>8, <2>1, <2>2, <2>3, <2>4, <2>5, <2>6, <2>7, <2>8, <2>9 DEF Commit
<1> QED
    BY <1>1, <1>2, <1>3, <1>4, <1>5, <1>6, <1>7, <1>8 DEF Next

\* Every variable keeps its type, whatever overlaps.
THEOREM PostCallTypes == Spec => []TypeOK
<1>1. TypeInv => TypeOK
    BY DEF TypeInv
<1> QED
    BY <1>1, TypeInit, TypeStep, PTL DEF Spec

----------------------------------------------------------------------------
(* Usage: the minutes of a pass are those of the calls it bills, and it    *)
(* bills none that was billed before.                                      *)

LEMMA BilledStep == TypeInv /\ BilledOnce /\ [Next]_vars => BilledOnce'
<1> SUFFICES ASSUME TypeInv, BilledOnce, [Next]_vars PROVE BilledOnce'
    OBVIOUS
<1>1. ASSUME NEW f \in MayAnswer, WorkerCommit(f) PROVE BilledOnce'
    <2> DEFINE new == {c \in Finished(f) : Bills(c)}
    <2>1. minutes' = minutes + Cardinality(new) /\ billed' = billed \cup new
        BY <1>1 DEF WorkerCommit
    <2>2. IsFiniteSet(new) /\ IsFiniteSet(billed)
        BY FinishedCalls, CallsAssumption, FS_Subset DEF TypeInv, TypeOK
    <2>3. new \cap billed = {}
        BY DEF Bills
    <2> HIDE DEF new
    <2>4. Cardinality(billed \cup new) = Cardinality(billed) + Cardinality(new) - 0
        BY <2>2, <2>3, FS_Union, FS_EmptySet
    <2>5. Cardinality(billed) \in Nat /\ Cardinality(new) \in Nat
        BY <2>2, FS_CardinalityType
    <2> QED
        BY <2>1, <2>4, <2>5 DEF BilledOnce
<1>2. CASE UNCHANGED <<billed, minutes>>
    BY <1>2 DEF BilledOnce
<1>3. ASSUME NEW r \in Reqs, Arrive(r) \/ Commit(r)
      PROVE  UNCHANGED <<billed, minutes>>
    BY <1>3 DEF Arrive, Asks, Commit, Trigger, PatchLabels, PatchNotes,
                RegenerateSummary, RefreshSummary, WritesArtifact, DeleteCall,
                ConfirmItem, DeleteItem, WritesItem, Rollback
<1> QED
    BY <1>1, <1>2, <1>3
    DEF Next, CallIsTimed, ConversationEnds, Retire, HardDelete, WorkerLoad,
        WorkerRollback, DeleteAllMemory, CreateItem, vars

\* A call counts once, however often the worker comes back to it.
THEOREM UsageIsCountedOnce == Spec => []BilledOnce
<1>1. Init => BilledOnce
    BY FS_EmptySet DEF Init, BilledOnce
<1> QED
    BY <1>1, TypeInit, TypeStep, BilledStep, PTL DEF Spec

----------------------------------------------------------------------------
(* Hard deletion: a call that is gone stays gone and gets no artifact; an  *)
(* item that is not live never is again, and a new one is of a call that   *)
(* is there.                                                               *)

LEMMA GoneStep == TypeInv /\ GoneLeavesNothing /\ [Next]_vars => GoneLeavesNothing'
<1> SUFFICES ASSUME TypeInv, GoneLeavesNothing, [Next]_vars,
                    NEW d \in Calls, call'[d] = "gone"
             PROVE  /\ art'[d].tr = "none"
                    /\ \A j \in Items : memo'[j].src = d => memo'[j].st # "live"
    BY DEF GoneLeavesNothing, HasRow, Live
<1> USE DEF TypeInv, TypeOK
<1>0. d \in Calls /\ d # None
    BY NoneAssumption
<1>1. CASE call[d] # "gone"
    <2>1. HardDelete(d)
        <3>1. ASSUME NEW c \in Calls, Retire(c) PROVE FALSE
            BY <1>1, <3>1 DEF Retire
        <3>2. ASSUME NEW c \in Calls, HardDelete(c) PROVE c = d
            BY <1>1, <3>2 DEF HardDelete
        <3>3. ASSUME NEW r \in Reqs, Arrive(r) \/ Commit(r) PROVE FALSE
            BY <1>1, <3>3
            DEF Arrive, Asks, Commit, Trigger, PatchLabels, PatchNotes,
                RegenerateSummary, RefreshSummary, WritesArtifact, DeleteCall,
                ConfirmItem, DeleteItem, WritesItem, Rollback
        <3> QED
            BY <1>1, <3>1, <3>2, <3>3
            DEF Next, CallIsTimed, ConversationEnds, WorkerLoad, WorkerCommit,
                WorkerRollback, DeleteAllMemory, CreateItem, vars
    <2>2. art'[d] = NoRow
        BY <2>1 DEF HardDelete
    <2>3. \A j \in Items : memo[j].src = d => memo'[j].st = "purged"
        BY <2>1 DEF HardDelete, Purges, Memos
    <2>4. \A j \in Items : memo[j].src # d => memo'[j] = memo[j]
        BY <2>1 DEF HardDelete, Purges
    <2> QED
        BY <2>2, <2>3, <2>4 DEF NoRow, Row
<1>2. CASE call[d] = "gone"
    <2>0. art[d].tr = "none" /\ \A j \in Items : memo[j].src = d => memo[j].st # "live"
        BY <1>2 DEF GoneLeavesNothing, HasRow, Live
    <2>1. ASSUME art'[d] = art[d],
                 \A j \in Items : memo'[j] = memo[j] \/ memo'[j].src # d
                                  \/ memo'[j].st # "live"
          PROVE  /\ art'[d].tr = "none"
                 /\ \A j \in Items : memo'[j].src = d => memo'[j].st # "live"
        BY <2>0, <2>1
    <2> DEFINE Kept == /\ art'[d] = art[d]
                       /\ \A j \in Items : memo'[j] = memo[j] \/ memo'[j].src # d
                                           \/ memo'[j].st # "live"
    <2>2. ASSUME NEW c \in Calls, Retire(c) \/ HardDelete(c) PROVE Kept
        <3>1. c # d
            BY <1>2, <2>2 DEF Retire, HardDelete
        <3>2. art'[d] = art[d]
            BY <2>2, <3>1 DEF Retire, HardDelete
        <3>3. \A j \in Items : memo'[j] = memo[j] \/ memo'[j].st # "live"
            BY <2>2 DEF Retire, HardDelete, Memos
        <3> QED
            BY <3>2, <3>3
    <2>3. ASSUME NEW f \in MayAnswer, WorkerCommit(f) PROVE Kept
        <3>1. art'[d] = art[d]
            BY <1>2, <2>3 DEF WorkerCommit
        <3>2. CASE UNCHANGED memo
            BY <3>1, <3>2
        <3>3. CASE ~UNCHANGED memo
            <4>1. PICK c \in Finished(f), i \in Items :
                    memo' = [memo EXCEPT ![i] = [st |-> "live", sure |-> FALSE, src |-> c]]
                BY <2>3, <3>3 DEF WorkerCommit, Remembers
            <4>2. c # d
                BY <1>2 DEF Finished
            <4> QED
                BY <3>1, <4>1, <4>2
        <3> QED
            BY <3>2, <3>3
    <2>4. ASSUME NEW r \in Reqs, Commit(r) PROVE Kept
        <3>1. ASSUME NEW op, NEW row, WritesArtifact(r, op, row) PROVE Kept
            BY <1>2, <3>1 DEF WritesArtifact
        <3>2. ASSUME NEW op, NEW item, WritesItem(r, op, item), loc[r].on \in Items,
                     item = memo[loc[r].on] \/ item.st # "live"
                       \/ (item.src = memo[loc[r].on].src /\ item.st = memo[loc[r].on].st)
              PROVE  Kept
            <4>1. \A j \in Items : j # loc[r].on => memo'[j] = memo[j]
                BY <3>2 DEF WritesItem
            <4>2. memo'[loc[r].on] = item /\ art' = art
                BY <3>2 DEF WritesItem
            <4>3. memo[loc[r].on].st # "live" \/ memo[loc[r].on].src # d
                BY <2>0, <3>2
            <4> QED
                BY <3>2, <4>1, <4>2, <4>3
        <3>3. CASE ConfirmItem(r)
            <4>1. PICK sure \in BOOLEAN :
                    WritesItem(r, "confirm", [memo[loc[r].on] EXCEPT !.sure = sure])
                BY <3>3 DEF ConfirmItem
            <4>2. loc[r].on \in Items /\ memo[loc[r].on] \in Memos
                BY <4>1 DEF WritesItem, RequestsAim
            <4>3. [memo[loc[r].on] EXCEPT !.sure = sure].st = memo[loc[r].on].st
                  /\ [memo[loc[r].on] EXCEPT !.sure = sure].src = memo[loc[r].on].src
                BY <4>2 DEF Memos
            <4> QED
                BY <3>2, <4>1, <4>2, <4>3
        <3>4. CASE DeleteItem(r)
            <4>1. loc[r].on \in Items /\ memo[loc[r].on] \in Memos
                BY <3>4 DEF DeleteItem, WritesItem, RequestsAim
            <4>2. [memo[loc[r].on] EXCEPT !.st = "deleted"].st # "live"
                BY <4>1 DEF Memos
            <4> QED
                BY <3>2, <3>4, <4>1, <4>2 DEF DeleteItem
        <3>5. CASE DeleteCall(r)
            <4>1. \A j \in Items : memo'[j] = memo[j] \/ memo'[j].src # d
                                    \/ memo'[j].st # "live"
                BY <1>0, <3>5 DEF DeleteCall, Memos
            <4> QED
                BY <3>5, <4>1 DEF DeleteCall
        <3>6. CASE Rollback(r)
            BY <3>6 DEF Rollback
        <3> QED
            BY <2>4, <3>1, <3>3, <3>4, <3>5, <3>6
            DEF Commit, Trigger, PatchLabels, PatchNotes, RegenerateSummary,
                RefreshSummary
    <2>5. ASSUME NEW r \in Reqs, Arrive(r) PROVE Kept
        BY <2>5 DEF Arrive, Asks
    <2>6. ASSUME NEW i \in Items, CreateItem(i) PROVE Kept
        BY <1>0, <2>6 DEF CreateItem
    <2>7. ASSUME DeleteAllMemory PROVE Kept
        <3>1. \A j \in Items : memo'[j] = memo[j] \/ memo'[j].st # "live"
            BY <2>7 DEF DeleteAllMemory, Memos
        <3> QED
            BY <2>7, <3>1 DEF DeleteAllMemory
    <2>8. ASSUME UNCHANGED <<art, memo>> PROVE Kept
        BY <2>8
    <2>9. Kept
        <3> HIDE DEF Kept
        <3> QED
            BY <2>2, <2>3, <2>4, <2>5, <2>6, <2>7, <2>8
            DEF Next, CallIsTimed, ConversationEnds, WorkerLoad, WorkerRollback, vars
    <2> QED
        BY <2>1, <2>9
<1> QED
    BY <1>1, <1>2

\* Nothing is left of a hard-deleted call, and nothing in flight brings it back.
THEOREM GoneIsGone == Spec => []GoneLeavesNothing
<1>1. Init => GoneLeavesNothing
    BY DEF Init, GoneLeavesNothing
<1> QED
    BY <1>1, TypeInit, TypeStep, GoneStep, PTL DEF Spec

----------------------------------------------------------------------------
(* Summaries: only the worker makes one ready, with its text, and what it  *)
(* makes of the row is then done as a whole, so it announces the call.     *)

Empty(a) == a.tr = "none" /\ a.sum = "none" /\ a.lab = "none"
Filled(a) == a.tr # "none" /\ a.sum # "none" /\ a.lab # "none"

Found(r) == loc[r].op \in CallOps \ {"delete"} /\ loc[r].row # NoRow

RowsWhole ==
    /\ \A c \in Calls : Empty(art[c]) \/ Filled(art[c])
    /\ \A c \in DOMAIN batch : Filled(batch[c]) /\ (call[c] # "gone" => Filled(art[c]))
    /\ \A r \in Reqs : Found(r) /\ call[loc[r].on] # "gone" => Filled(art[loc[r].on])
    /\ \A r \in Reqs : loc[r].op \in {"regenerate", "refresh"} => loc[r].row # NoRow

SummaryInv ==
    /\ RowsWhole
    /\ \A c \in Calls : art[c].sum = "ready" => c \in announced
    /\ ReadyCanBeRead

\* Writing new over now makes no summary ready, and takes no text.
Keeps(now, new) ==
    /\ Filled(new)
    /\ new.sum = "ready" => now.sum = "ready" /\ (now.summary => new.summary)

\* A request that finds a row finds a whole one, and one that finds none writes over none.
LEMMA TargetIsWhole ==
    ASSUME TypeInv, SummaryInv, NEW r \in Reqs, Found(r), call[loc[r].on] # "gone"
    PROVE  loc[r].on \in Calls /\ Target(r) \in Rows /\ Filled(Target(r))
BY Reads DEF SummaryInv, RowsWhole, Found, Target, TypeInv, RequestsAim

LEMMA WriteKeepsSummary ==
    ASSUME TypeInv, SummaryInv, NEW r \in Reqs, NEW op \in CallOps, NEW row \in Rows,
           WritesArtifact(r, op, row), Keeps(Target(r), row)
    PROVE  SummaryInv'
<1>1. /\ loc[r].on \in Calls /\ art' = [art EXCEPT ![loc[r].on] = row]
      /\ loc' = [loc EXCEPT ![r] = Idle] /\ UNCHANGED <<call, announced, batch>>
      /\ loc[r].op = op
    BY DEF WritesArtifact, TypeInv, RequestsAim
<1>2. \A c \in Calls : art'[c] = art[c] \/ (c = loc[r].on /\ art'[c] = row)
    BY <1>1 DEF TypeInv, TypeOK
<1>3. \A q \in Reqs : loc'[q] = loc[q] \/ loc'[q].op = "none"
    BY <1>1, IdleType DEF TypeInv, TypeOK
<1>4. \A c \in Calls : Filled(art[c]) => Filled(art'[c])
    BY <1>2 DEF Keeps
<1>5. \A c \in Calls : Empty(art'[c]) \/ Filled(art'[c])
    BY <1>2 DEF SummaryInv, RowsWhole, Keeps
<1>6. \A c \in DOMAIN batch : c \in Calls
    BY DEF TypeInv, TypeOK
<1>7. RowsWhole'
  <2>1. \A c \in DOMAIN batch' : Filled(batch'[c]) /\ (call'[c] # "gone" => Filled(art'[c]))
    BY <1>1, <1>4, <1>6 DEF SummaryInv, RowsWhole
  <2>2. ASSUME NEW q \in Reqs, Found(q)', call'[loc'[q].on] # "gone" PROVE Filled(art'[loc'[q].on])
    <3>1. loc'[q] = loc[q] /\ Found(q) /\ call[loc[q].on] # "gone"
      BY <1>1, <1>3, <2>2 DEF Found, CallOps
    <3> QED
      BY <1>4, <3>1, TargetIsWhole DEF SummaryInv, RowsWhole
  <2> QED
    BY <1>3, <1>5, <2>1, <2>2 DEF SummaryInv, RowsWhole
<1>8. \A c \in Calls : art'[c].sum = "ready" => c \in announced'
    BY <1>1, <1>2 DEF SummaryInv, Keeps, Target
<1>9. ReadyCanBeRead'
    BY <1>1, <1>2 DEF SummaryInv, ReadyCanBeRead, Keeps, Target
<1> QED
    BY <1>7, <1>8, <1>9 DEF SummaryInv

\* What the worker makes of a whole row: it is whole, and if it got its summary it has
\* a text and is done.
LEMMA ProcessedIsWhole ==
    ASSUME NEW a \in Rows, Filled(a), NEW f \in Answers
    PROVE  LET p == Processed(a, f) IN
           /\ Filled(p)
           /\ p.sum = a.sum \/ (p.sum = "ready" /\ p.summary /\ Done(p) /\ ~Raises(a, f))
<1> DEFINE t == Transcribed(a, f)
<1>1. t \in Rows /\ Filled(t) /\ t.sum = a.sum /\ t.lab = a.lab /\ t.ref = a.ref
      /\ (a.ref /\ f # "none" => t.tr = "ready" \/ t.tr = a.tr)
      /\ (a.ref /\ f # "none" /\ a.tr \in Unfinished => t.tr = "ready")
    BY DEF Transcribed, Filled, Rows, Statuses, Unfinished
<1>2. a.ref /\ f # "none" => t.tr = "ready"
    BY <1>1 DEF Filled, Rows, Statuses
<1> HIDE DEF t
<1>3. CASE Raises(a, f)
    BY <1>1, <1>3 DEF Processed, t
<1>4. CASE ~Raises(a, f) /\ Summarises(t, f)
  <2> DEFINE u == [t EXCEPT !.sum = "ready", !.summary = Heard(t, f) # "none", !.facts = TRUE]
             v == [u EXCEPT !.lab = "ready", !.labels = {"auto"}]
  <2>1. Heard(t, f) # "none" /\ a.ref /\ f # "none"
    BY <1>1, <1>4 DEF Summarises, Heard
  <2>2. u.sum = "ready" /\ u.summary /\ u.facts /\ u.lab = a.lab /\ u.tr = "ready" /\ u \in Rows
    BY <1>1, <1>2, <2>1 DEF Rows, Statuses
  <2>3. Processed(a, f) = Labelled(u, f)
    BY <1>4 DEF Processed, Summarised, t
  <2> HIDE DEF u
  <2>4. v.sum = "ready" /\ v.summary /\ v.lab = "ready" /\ v.tr = "ready"
    BY <2>2 DEF Rows
  <2>5. Processed(a, f) = IF a.lab \in Unfinished THEN v ELSE u
    BY <2>2, <2>3 DEF Labelled
  <2>6. a.lab \in Unfinished \/ a.lab = "ready"
    BY DEF Filled, Rows, Statuses
  <2> HIDE DEF v
  <2> QED
    BY <1>4, <2>2, <2>4, <2>5, <2>6 DEF Done, Filled
<1>5. CASE ~Raises(a, f) /\ ~Summarises(t, f)
  <2> DEFINE v == [t EXCEPT !.lab = "ready", !.labels = {"auto"}]
  <2>1. Processed(a, f) = Labelled(t, f)
    BY <1>5 DEF Processed, Summarised, t
  <2>2. v.sum = a.sum /\ v.tr = t.tr /\ v.lab = "ready"
    BY <1>1 DEF Rows
  <2>3. Labelled(t, f) = v \/ Labelled(t, f) = t
    BY DEF Labelled
  <2> HIDE DEF v
  <2> QED
    BY <1>1, <2>1, <2>2, <2>3 DEF Filled
<1> QED
    BY <1>3, <1>4, <1>5

LEMMA WorkerKeepsSummary ==
    ASSUME TypeInv, SummaryInv, NEW f \in MayAnswer, WorkerCommit(f)
    PROVE  SummaryInv'
<1>0. DOMAIN batch \subseteq Calls /\ f \in [DOMAIN batch -> Answers]
    BY DEF TypeInv, TypeOK, MayAnswer
<1>1. /\ DOMAIN batch' = {} /\ UNCHANGED <<call, loc>>
      /\ announced' = announced \cup Announces(f)
    BY DEF WorkerCommit, Asleep
<1>2. ASSUME NEW c \in Calls
      PROVE  \/ art'[c] = art[c] /\ (call[c] # "gone" => c \notin DOMAIN batch)
             \/ /\ c \in DOMAIN batch /\ Filled(art'[c])
                /\ art'[c].sum = "ready" => \/ art[c].sum = "ready" /\ art'[c].summary = art[c].summary
                                            \/ c \in announced' /\ art'[c].summary
  <2>1. CASE c \in DOMAIN batch /\ call[c] # "gone"
    <3> DEFINE p == Processed(batch[c], f[c])
    <3>1. batch[c] \in Rows /\ Filled(batch[c]) /\ f[c] \in Answers
          /\ art[c] \in Rows /\ Filled(art[c])
      BY <1>0, <2>1 DEF TypeInv, TypeOK, SummaryInv, RowsWhole
    <3>2. p \in Rows
      BY <3>1, ProcessedType
    <3>3. /\ Filled(p)
          /\ p.sum = batch[c].sum \/ (p.sum = "ready" /\ p.summary /\ Done(p) /\ ~Raises(batch[c], f[c]))
      BY <3>1, ProcessedIsWhole
    <3>4. p.sum # batch[c].sum => c \in announced'
      BY <1>1, <2>1, <3>3 DEF Announces, Finished
    <3>5. art'[c] = Written(art[c], batch[c], p)
      BY <2>1 DEF WorkerCommit
    <3> HIDE DEF p
    <3>6. /\ Filled(art'[c])
          /\ art'[c].sum = IF p.sum = batch[c].sum THEN art[c].sum ELSE p.sum
          /\ art'[c].summary = IF p.sum = batch[c].sum THEN art[c].summary ELSE p.summary
      BY <3>1, <3>2, <3>3, <3>5 DEF Written, Rows, Filled
    <3> QED
      BY <2>1, <3>3, <3>4, <3>6
  <2>2. CASE ~(c \in DOMAIN batch /\ call[c] # "gone")
    BY <2>2 DEF WorkerCommit
  <2> QED
    BY <2>1, <2>2
<1>3. \A c \in Calls : Empty(art'[c]) \/ Filled(art'[c])
    BY <1>2 DEF SummaryInv, RowsWhole
<1>4. ASSUME NEW r \in Reqs, Found(r)', call'[loc'[r].on] # "gone" PROVE Filled(art'[loc'[r].on])
  <2>1. Found(r) /\ call[loc[r].on] # "gone" /\ loc'[r].on = loc[r].on
    BY <1>1, <1>4 DEF Found
  <2>2. loc[r].on \in Calls /\ Filled(art[loc[r].on])
    BY <2>1, TargetIsWhole DEF Target
  <2> QED
    BY <1>2, <2>1, <2>2
<1>5. RowsWhole'
    BY <1>1, <1>3, <1>4 DEF SummaryInv, RowsWhole
<1>6. \A c \in Calls : art'[c].sum = "ready" => c \in announced'
    BY <1>1, <1>2 DEF SummaryInv
<1>7. ReadyCanBeRead'
    BY <1>1, <1>2 DEF SummaryInv, ReadyCanBeRead
<1> QED
    BY <1>5, <1>6, <1>7 DEF SummaryInv

LEMMA SummaryStep == TypeInv /\ SummaryInv /\ [Next]_vars => SummaryInv'
<1> SUFFICES ASSUME TypeInv, SummaryInv, [Next]_vars PROVE SummaryInv'
    OBVIOUS
<1>1. ASSUME UNCHANGED <<art, loc, batch>>, announced \subseteq announced',
             \A c \in Calls : call'[c] = call[c] \/ (call[c] # "gone" /\ call'[c] = "deleted")
      PROVE  SummaryInv'
  <2>1. \A r \in Reqs : Found(r) => loc[r].on \in Calls
    BY DEF Found, TypeInv, RequestsAim
  <2>2. RowsWhole'
    BY <1>1, <2>1 DEF SummaryInv, RowsWhole, Found, TypeInv, TypeOK
  <2> QED
    BY <1>1, <2>2 DEF SummaryInv, ReadyCanBeRead
<1>2. ASSUME NEW c \in Calls, Retire(c) PROVE SummaryInv'
  <2>1. UNCHANGED <<loc, batch, announced>> /\ call[c] = "live" /\ call'[c] = "deleted"
        /\ \A d \in Calls : d # c => call'[d] = call[d] /\ art'[d] = art[d]
    BY <1>2 DEF Retire, TypeInv, TypeOK
  <2>2. art'[c].tr = art[c].tr /\ art'[c].sum = art[c].sum /\ art'[c].lab = art[c].lab
    BY <1>2 DEF Retire, TypeInv, TypeOK, Rows
  <2>3. \A d \in Calls : (Filled(art'[d]) <=> Filled(art[d])) /\ (Empty(art'[d]) <=> Empty(art[d]))
                         /\ art'[d].sum = art[d].sum /\ (call'[d] # "gone" => call[d] # "gone")
    BY <2>1, <2>2 DEF Filled, Empty
  <2>4. \A r \in Reqs : Found(r) => loc[r].on \in Calls
    BY DEF Found, TypeInv, RequestsAim
  <2>5. RowsWhole'
    BY <2>1, <2>3, <2>4 DEF SummaryInv, RowsWhole, Found, TypeInv, TypeOK
  <2>6. ReadyCanBeRead'
    BY <2>1 DEF SummaryInv, ReadyCanBeRead
  <2> QED
    BY <2>1, <2>3, <2>5, <2>6 DEF SummaryInv
<1>3. ASSUME NEW c \in Calls, HardDelete(c) PROVE SummaryInv'
  <2>1. UNCHANGED <<loc, batch, announced>> /\ call'[c] = "gone" /\ art'[c] = NoRow
        /\ \A d \in Calls : d # c => call'[d] = call[d] /\ art'[d] = art[d]
    BY <1>3 DEF HardDelete, TypeInv, TypeOK
  <2>2. Empty(NoRow) /\ NoRow.sum # "ready"
    BY DEF NoRow, Row, Empty
  <2>3. \A r \in Reqs : Found(r) => loc[r].on \in Calls
    BY DEF Found, TypeInv, RequestsAim
  <2>4. RowsWhole'
    BY <2>1, <2>2, <2>3 DEF SummaryInv, RowsWhole, Found, TypeInv, TypeOK
  <2>5. ReadyCanBeRead'
    BY <2>1 DEF SummaryInv, ReadyCanBeRead
  <2> QED
    BY <2>1, <2>2, <2>4, <2>5 DEF SummaryInv
<1>4. CASE WorkerLoad
  <2>1. UNCHANGED <<art, call, announced, loc>>
    BY <1>4 DEF WorkerLoad
  <2>2. ASSUME NEW c \in DOMAIN batch' PROVE Filled(batch'[c]) /\ Filled(art'[c])
    <3>1. c \in Pending /\ batch'[c] = art[c]
      BY <1>4, <2>2 DEF WorkerLoad
    <3>2. ~Empty(art[c]) /\ c \in Calls
      BY <3>1 DEF Pending, Empty, Unfinished
    <3> QED
      BY <2>1, <3>1, <3>2 DEF SummaryInv, RowsWhole
  <2>3. RowsWhole'
    BY <2>1, <2>2 DEF SummaryInv, RowsWhole, Found
  <2> QED
    BY <2>1, <2>3 DEF SummaryInv, ReadyCanBeRead
<1>5. ASSUME NEW f \in MayAnswer, WorkerRollback(f) PROVE SummaryInv'
  <2>1. DOMAIN batch' = {} /\ UNCHANGED <<art, call, loc>> /\ announced \subseteq announced'
    BY <1>5 DEF WorkerRollback, Asleep
  <2>2. RowsWhole'
    BY <2>1 DEF SummaryInv, RowsWhole, Found
  <2> QED
    BY <2>1, <2>2 DEF SummaryInv, ReadyCanBeRead
<1>6. ASSUME NEW r \in Reqs, Arrive(r) PROVE SummaryInv'
  <2>1. PICK op \in Ops, on \in Calls \cup Items :
          /\ Asks(r, op, on) /\ (op \in CallOps => on \in Calls)
          /\ op = "regenerate" => art[on].tr = "ready"
          /\ op = "refresh" => art[on].sum = "ready"
    BY <1>6 DEF Arrive, Ops, CallOps
  <2>2. UNCHANGED <<art, call, announced, batch>> /\ \A q \in Reqs : q # r => loc'[q] = loc[q]
    BY <2>1 DEF Asks, TypeInv, TypeOK
  <2>3. ASSUME Found(r)' PROVE Filled(art[loc'[r].on])
    <3>1. loc'[r].op = op /\ loc'[r].on = on
          /\ loc'[r].row = IF on \in Calls /\ op # "delete" THEN Read(op, art[on]) ELSE NoRow
      BY <2>1 DEF Asks, TypeInv, TypeOK
    <3>2. on \in Calls /\ op # "delete" /\ Read(op, art[on]) # NoRow
      BY <2>1, <2>3, <3>1 DEF Found
    <3>3. art[on].tr # "none"
      BY <3>2 DEF Read
    <3> QED
      BY <3>1, <3>2, <3>3 DEF SummaryInv, RowsWhole, Empty
  <2>4. RowsWhole'
    <3>1. ASSUME NEW q \in Reqs, Found(q)', call'[loc'[q].on] # "gone" PROVE Filled(art'[loc'[q].on])
      <4>1. CASE q = r
        BY <2>2, <2>3, <3>1, <4>1
      <4>2. CASE q # r
        BY <2>2, <3>1, <4>2 DEF SummaryInv, RowsWhole, Found
      <4> QED
        BY <4>1, <4>2
    <3>2. ASSUME NEW q \in Reqs, loc'[q].op \in {"regenerate", "refresh"} PROVE loc'[q].row # NoRow
      <4>1. CASE q = r
        <5>1. op = loc'[r].op /\ on \in Calls /\ loc'[r].row = Read(op, art[on])
          BY <2>1, <3>2, <4>1 DEF Asks, TypeInv, TypeOK, CallOps
        <5>2. art[on].tr = "ready" \/ art[on].sum = "ready"
          BY <2>1, <3>2, <4>1, <5>1
        <5>3. art[on].tr # "none"
          BY <5>1, <5>2 DEF SummaryInv, RowsWhole, Empty, Filled
        <5> QED
          BY <3>2, <4>1, <5>1, <5>3 DEF Read, NoRow, Row
      <4>2. CASE q # r
        BY <2>2, <3>2, <4>2 DEF SummaryInv, RowsWhole
      <4> QED
        BY <4>1, <4>2
    <3> QED
      BY <2>2, <3>1, <3>2 DEF SummaryInv, RowsWhole
  <2> QED
    BY <2>2, <2>4 DEF SummaryInv, ReadyCanBeRead
<1>7. ASSUME NEW r \in Reqs, NEW op, WritesItem(r, op, memo'[loc[r].on]) \/ Rollback(r) \/ DeleteCall(r)
      PROVE  SummaryInv'
  <2>1. UNCHANGED <<art, announced, batch>>
        /\ \A q \in Reqs : loc'[q] = loc[q] \/ loc'[q].op = "none"
    BY <1>7, IdleType DEF WritesItem, Rollback, DeleteCall, TypeInv, TypeOK
  <2>2. \A c \in Calls : call'[c] = call[c] \/ (call[c] # "gone" /\ call'[c] = "deleted")
    BY <1>7 DEF WritesItem, Rollback, DeleteCall, TypeInv, TypeOK
  <2>3. \A q \in Reqs : Found(q)' => Found(q) /\ loc'[q] = loc[q] /\ loc[q].on \in Calls
    BY <2>1 DEF Found, TypeInv, RequestsAim, CallOps
  <2>4. RowsWhole'
    <3>1. \A q \in Reqs : loc'[q].op \in {"regenerate", "refresh"} => loc'[q].row # NoRow
      BY <2>1 DEF SummaryInv, RowsWhole
    <3> QED
      BY <2>1, <2>2, <2>3, <3>1 DEF SummaryInv, RowsWhole, TypeInv, TypeOK
  <2> QED
    BY <2>1, <2>2, <2>4 DEF SummaryInv, ReadyCanBeRead
<1>8. ASSUME NEW r \in Reqs, ConfirmItem(r) \/ DeleteItem(r)
      PROVE  \E op : WritesItem(r, op, memo'[loc[r].on])
  <2>1. PICK op, item : WritesItem(r, op, item) /\ op \in {"confirm", "forget"}
    BY <1>8 DEF ConfirmItem, DeleteItem
  <2>2. memo'[loc[r].on] = item
    BY <2>1 DEF WritesItem, TypeInv, TypeOK, RequestsAim
  <2> QED
    BY <2>1, <2>2
<1>9. ASSUME NEW r \in Reqs, NEW op \in CallOps \ {"delete"}, NEW row, WritesArtifact(r, op, row)
      PROVE  IF loc[r].row = NoRow THEN Target(r) = NoRow
             ELSE Target(r) \in Rows /\ Filled(Target(r)) /\ loc[r].row \in Rows
  <2>1. loc[r].op = op /\ call[loc[r].on] # "gone" /\ (loc[r].row = NoRow => Target(r) = NoRow)
    BY <1>9 DEF WritesArtifact, Target
  <2>2. ASSUME loc[r].row # NoRow PROVE Target(r) \in Rows /\ Filled(Target(r)) /\ loc[r].row \in Rows
    BY <2>1, <2>2, TargetIsWhole, Reads DEF Found
  <2> QED
    BY <2>1, <2>2
<1>10. ASSUME NEW r \in Reqs, Trigger(r) PROVE SummaryInv'
  <2> DEFINE set == [Target(r) EXCEPT
                       !.tr = IF loc[r].row.tr = "pending" THEN "processing" ELSE @,
                       !.sum = IF loc[r].row.sum = "pending" THEN "processing" ELSE @,
                       !.lab = IF loc[r].row.lab = "pending" THEN "processing" ELSE @]
  <2>1. PICK ref \in BOOLEAN : WritesArtifact(r, "trigger",
                IF loc[r].row = NoRow THEN Row("processing", ref) ELSE set)
    BY <1>10 DEF Trigger
  <2>2. CASE loc[r].row = NoRow
    <3>1. Keeps(Target(r), Row("processing", ref))
      BY DEF Keeps, Filled, Row
    <3> QED
      BY <2>1, <2>2, <3>1, RowType, WriteKeepsSummary DEF CallOps
  <2>3. CASE loc[r].row # NoRow
    <3>1. Target(r) \in Rows /\ Filled(Target(r))
      BY <1>9, <2>1, <2>3 DEF CallOps
    <3>2. set \in Rows /\ Keeps(Target(r), set)
      BY <3>1 DEF Keeps, Filled, Rows, Statuses, Unfinished
    <3> QED
      BY <2>1, <2>3, <3>2, WriteKeepsSummary DEF CallOps
  <2> QED
    BY <2>2, <2>3
<1>11. ASSUME NEW r \in Reqs, PatchLabels(r) PROVE SummaryInv'
  <2> DEFINE seen == IF loc[r].row = NoRow THEN Row("pending", FALSE) ELSE loc[r].row
             old == IF loc[r].row = NoRow THEN seen ELSE Target(r)
             row == [old EXCEPT !.labels = seen.labels \cup {"manual"},
                                !.lab = IF Settles(seen) THEN "ready" ELSE @]
  <2>1. WritesArtifact(r, "labels", row)
    BY <1>11 DEF PatchLabels
  <2>2. Row("pending", FALSE) \in Rows /\ Filled(Row("pending", FALSE))
        /\ Row("pending", FALSE).sum # "ready"
    BY RowType DEF Filled, Row
  <2>3. seen \in Rows /\ old \in Rows /\ Filled(old)
        /\ (old.sum = "ready" => old = Target(r))
    BY <1>9, <2>1, <2>2 DEF CallOps
  <2> HIDE DEF seen, old
  <2>4. row \in Rows /\ row.sum = old.sum /\ row.summary = old.summary /\ row.tr = old.tr
        /\ row.lab \in {"ready", old.lab}
    BY <2>3 DEF Rows, Statuses
  <2> HIDE DEF row
  <2>5. Keeps(Target(r), row)
    BY <2>3, <2>4 DEF Keeps, Filled
  <2> QED
    BY <2>1, <2>4, <2>5, WriteKeepsSummary DEF CallOps
<1>12. ASSUME NEW r \in Reqs, PatchNotes(r) PROVE SummaryInv'
  <2> DEFINE row == IF loc[r].row = NoRow THEN Row("pending", FALSE) ELSE Target(r)
  <2>1. WritesArtifact(r, "notes", row)
    BY <1>12 DEF PatchNotes
  <2>2. Row("pending", FALSE) \in Rows /\ Keeps(Target(r), Row("pending", FALSE))
    BY RowType DEF Keeps, Filled, Row
  <2>3. row \in Rows /\ Keeps(Target(r), row)
    BY <1>9, <2>1, <2>2 DEF CallOps, Keeps
  <2> HIDE DEF row
  <2> QED
    BY <2>1, <2>3, WriteKeepsSummary DEF CallOps
<1>13. ASSUME NEW r \in Reqs, RegenerateSummary(r) \/ RefreshSummary(r) PROVE SummaryInv'
  <2> DEFINE new == [Target(r) EXCEPT !.sum = IF loc[r].row.sum = "pending" THEN @ ELSE Requeued]
             made == [Target(r) EXCEPT !.summary = TRUE, !.facts = TRUE]
  <2>1. WritesArtifact(r, "regenerate", new) \/ WritesArtifact(r, "refresh", made)
    BY <1>13 DEF RegenerateSummary, RefreshSummary
  <2>2. loc[r].row # NoRow
    BY <2>1 DEF WritesArtifact, SummaryInv, RowsWhole
  <2>3. Target(r) \in Rows /\ Filled(Target(r))
    BY <1>9, <2>1, <2>2 DEF CallOps
  <2>4. new \in Rows /\ Keeps(Target(r), new)
    BY <2>3 DEF Keeps, Filled, Rows, Statuses, Unfinished, Requeued
  <2>5. made \in Rows /\ Keeps(Target(r), made)
    BY <2>3 DEF Keeps, Filled, Rows
  <2> HIDE DEF new, made
  <2> QED
    BY <2>1, <2>4, <2>5, WriteKeepsSummary DEF CallOps
<1>14. ASSUME NEW r \in Reqs, Commit(r) PROVE SummaryInv'
  BY <1>7, <1>8, <1>10, <1>11, <1>12, <1>13, <1>14 DEF Commit
<1>15. ASSUME NEW f \in MayAnswer, WorkerCommit(f) PROVE SummaryInv'
  BY <1>15, WorkerKeepsSummary
<1>16. CASE \/ UNCHANGED vars \/ DeleteAllMemory \/ \E i \in Items : CreateItem(i)
            \/ \E c \in Calls : CallIsTimed(c) \/ ConversationEnds(c)
  BY <1>1, <1>16 DEF vars, DeleteAllMemory, CreateItem, CallIsTimed, ConversationEnds
<1> QED
  BY <1>2, <1>3, <1>4, <1>5, <1>6, <1>14, <1>15, <1>16 DEF Next

LEMMA SummaryInvariant == Spec => []SummaryInv
<1>1. Init => SummaryInv
  BY IdleType DEF Init, SummaryInv, RowsWhole, Empty, NoRow, Row, ReadyCanBeRead, Found, Asleep, Idle, CallOps
<1> QED
  BY <1>1, TypeInit, TypeStep, SummaryStep, PTL DEF Spec

\* A call that shows as done was announced, whoever wrote the last part
\* (artifact_service.py, calls.py).
THEOREM DoneCallsAreAnnounced == Spec => []DoneIsAnnounced
<1>1. SummaryInv => DoneIsAnnounced
  BY DEF SummaryInv, DoneIsAnnounced, Done
<1> QED
  BY <1>1, SummaryInvariant, PTL

\* A summary that shows as ready has its text while its call is there
\* (artifact_service.py, retention_worker.py).
THEOREM ReadySummariesCanBeRead == Spec => []ReadyCanBeRead
<1>1. SummaryInv => ReadyCanBeRead
  BY DEF SummaryInv
<1> QED
  BY <1>1, SummaryInvariant, PTL
=============================================================================
