------------------------------ MODULE PostCall ------------------------------
(***************************************************************************)
(* What becomes of a call after it ended: the post-call worker fetches the *)
(* conversation from ElevenLabs and writes transcript, summary, labels,    *)
(* usage and memory, while the owner corrects, regenerates and deletes,    *)
(* and the retention and hard-deletion workers clear what has expired      *)
(* (workers/post_call.py, artifact_service.py, calls.py, memory.py,        *)
(* retention_worker.py, hard_deletion_worker.py).                          *)
(*                                                                         *)
(* Requests read at their start and write the columns they changed at      *)
(* their commit.  The worker reads a batch of artifacts, calls the         *)
(* provider for each and commits the batch at once; pushes leave before    *)
(* that.  The two deletion workers run UPDATE and DELETE statements with   *)
(* their condition in the WHERE clause, so each is one step.  All calls    *)
(* are from one caller, whose number is known.                             *)
(***************************************************************************)
EXTENDS Integers, FiniteSets

CONSTANTS
    Calls,
    Items,      \* rows of call_memory_items; none is created when all are used
    Reqs,       \* request slots
    BatchSize,  \* the LIMIT of process_pending_artifacts
    None        \* SQL NULL

ASSUME CallsAssumption == IsFiniteSet(Calls)
ASSUME BatchAssumption == BatchSize \in Nat \ {0}
ASSUME NoneAssumption == None \notin Calls \cup Items

VARIABLES
    call,       \* call[c]: "live", "deleted" (deleted_at is set) or "gone"
    art,        \* art[c]: the call_artifacts row, NoRow if there is none
    memo,       \* memo[i]: a memory item, its source call and confirmation
    timed,      \* calls whose duration_seconds is known
    said,       \* calls whose conversation ElevenLabs has complete
    billed,     \* calls with a call_usage_events row
    minutes,    \* billing_usage.minutes_used, one for each call
    announced,  \* calls for which notify_call_screened ran
    batch,      \* rows the worker read; the empty function while it sleeps
    loc         \* loc[r]: what request r was asked and what it read

vars == <<call, art, memo, timed, said, billed, minutes, announced, batch, loc>>

Unfinished == {"pending", "processing"}
Statuses == Unfinished \cup {"none", "ready"}

\* facts: structured_extraction is there; the transcript's text and the owner's
\* notes are left out
Row(st, ref) ==
    [tr |-> st, sum |-> st, lab |-> st, ref |-> ref, facts |-> FALSE,
     summary |-> FALSE, labels |-> {}]
NoRow == Row("none", FALSE)

Rows == [tr: Statuses, sum: Statuses, lab: Statuses, ref: BOOLEAN,
         facts: BOOLEAN, summary: BOOLEAN, labels: SUBSET {"auto", "manual"}]

HasRow(c) == art[c].tr # "none"
Done(a) == a.tr = "ready" /\ a.sum = "ready" /\ a.lab = "ready"

Memos == [st: {"unused", "live", "deleted", "purged"}, sure: BOOLEAN,
          src: Calls \cup {None}]
Live(i) == memo[i].st = "live"

Ops == {"none", "trigger", "labels", "notes", "regenerate", "refresh",
        "delete", "confirm", "forget"}
Idle == [op |-> "none", on |-> None, row |-> NoRow, sure |-> {}, unsure |-> {}]
Locals == [op: Ops, on: Calls \cup Items \cup {None}, row: Rows,
           sure: SUBSET Items, unsure: SUBSET Items]

\* the batch of a worker that sleeps
Asleep == [c \in {} |-> NoRow]

Init ==
    /\ call = [c \in Calls |-> "live"]
    /\ art = [c \in Calls |-> NoRow]
    /\ memo = [i \in Items |-> [st |-> "unused", sure |-> FALSE, src |-> None]]
    /\ timed = {} /\ said = {} /\ billed = {} /\ announced = {}
    /\ minutes = 0
    /\ batch = Asleep
    /\ loc = [r \in Reqs |-> Idle]

----------------------------------------------------------------------------
(* Twilio and ElevenLabs                                                   *)

\* the completed callback brings the duration
CallIsTimed(c) ==
    /\ c \notin timed /\ call[c] # "gone"
    /\ timed' = timed \cup {c}
    /\ UNCHANGED <<call, art, memo, said, billed, minutes, announced, batch, loc>>

ConversationEnds(c) ==
    /\ c \notin said
    /\ said' = said \cup {c}
    /\ UNCHANGED <<call, art, memo, timed, billed, minutes, announced, batch, loc>>

----------------------------------------------------------------------------
(* process_call_artifacts on the row a, given what the provider answered:  *)
(* nothing, a conversation without an analysis (which raises once a        *)
(* summary is made of it), one without turns, or all of it.                *)

Answers == {"none", "early", "bare", "full"}

Heard(a, f) == IF a.ref THEN f ELSE "none"

Raises(a, f) == Heard(a, f) = "early" /\ a.sum \in Unfinished

Transcribed(a, f) ==
    [a EXCEPT !.tr = IF a.ref /\ @ \in Unfinished
                     THEN IF f = "none" THEN "processing" ELSE "ready" ELSE @]

\* Mutant: a summary is made of nothing
SummarisesBlindly(a, f) == a.sum \in Unfinished /\ a.ref

Summarises(a, f) == a.sum \in Unfinished /\ Heard(a, f) \in {"bare", "full"}

Summarised(a, f) ==
    IF Summarises(a, f)
    THEN [a EXCEPT !.sum = "ready", !.summary = Heard(a, f) # "none", !.facts = TRUE]
    ELSE a

Labelled(a, f) ==
    IF a.lab \in Unfinished /\ (Heard(a, f) = "full" \/ a.facts)
    THEN [a EXCEPT !.lab = "ready", !.labels = {"auto"}] ELSE a

Processed(a, f) ==
    IF Raises(a, f) THEN Transcribed(a, f)
    ELSE Labelled(Summarised(Transcribed(a, f), f), f)

\* Mutant: usage is recorded without its idempotency key
BillsAgain(c) == c \in timed

\* record_usage finds no event with the call's key
Bills(c) == c \in timed /\ c \notin billed

----------------------------------------------------------------------------
(* The post-call worker                                                    *)

\* Mutant: only rows without a transcript are looked for
PendingTranscripts == {c \in Calls : art[c].tr \in Unfinished}

Pending == {c \in Calls : {art[c].tr, art[c].sum, art[c].lab} \cap Unfinished # {}}

\* the SELECT has a LIMIT and no ORDER BY: it may return any such rows
WorkerLoad ==
    /\ batch = Asleep /\ Pending # {}
    /\ \E S \in SUBSET Pending :
        /\ Cardinality(S) = IF Cardinality(Pending) < BatchSize
                            THEN Cardinality(Pending) ELSE BatchSize
        /\ batch' = [c \in S |-> art[c]]
    /\ UNCHANGED <<call, art, memo, timed, said, billed, minutes, announced, loc>>

\* what the provider may answer for each call of the batch
MayAnswer == {f \in [DOMAIN batch -> Answers] : \A c \in DOMAIN batch :
                 f[c] \in (IF c \in said THEN {"none", "full"}
                           ELSE {"none", "early", "bare"})}

\* the calls of the batch that are processed to the end
Finished(f) == {c \in DOMAIN batch : call[c] # "gone" /\ ~Raises(batch[c], f[c])}

\* Mutant: a call is announced with its transcript or not at all
AnnouncesTranscripts(f) ==
    {c \in Finished(f) : Done(Processed(batch[c], f[c])) /\ batch[c].tr # "ready"}

\* notify_call_screened runs for a call when all three parts are done
Announces(f) == {c \in Finished(f) : Done(Processed(batch[c], f[c]))}

\* Each column the worker changed is written, the others are left alone; a
\* summary and labels are written with their status
Written(now, was, new) ==
    [now EXCEPT
        !.tr = IF new.tr = was.tr THEN @ ELSE new.tr,
        !.sum = IF new.sum = was.sum THEN @ ELSE new.sum,
        !.summary = IF new.sum = was.sum THEN @ ELSE new.summary,
        !.facts = IF new.sum = was.sum THEN @ ELSE new.facts,
        !.lab = IF new.lab = was.lab THEN @ ELSE new.lab,
        !.labels = IF new.lab = was.lab THEN @ ELSE new.labels]

\* create_memory_items: one item, unless the caller has one
Remembers(f) ==
    LET known == {c \in Finished(f) : Processed(batch[c], f[c]).facts}
        unused == {i \in Items : memo[i].st = "unused"}
    IN
    IF known = {} \/ unused = {} \/ \E i \in Items : Live(i)
    THEN UNCHANGED memo
    ELSE \E c \in known, i \in unused :
            memo' = [memo EXCEPT ![i] = [st |-> "live", sure |-> FALSE, src |-> c]]

WorkerCommit(f) ==
    /\ batch # Asleep /\ f \in MayAnswer
    /\ art' = [c \in Calls |->
         IF c \in DOMAIN batch /\ call[c] # "gone"
         THEN Written(art[c], batch[c], Processed(batch[c], f[c])) ELSE art[c]]
    /\ minutes' = minutes + Cardinality({c \in Finished(f) : Bills(c)})
    /\ billed' = billed \cup {c \in Finished(f) : Bills(c)}
    /\ announced' = announced \cup Announces(f)
    /\ Remembers(f)
    /\ batch' = Asleep
    /\ UNCHANGED <<call, timed, said, loc>>

\* A database error or a restart: the pushes have left, the rest has not
WorkerRollback(f) ==
    /\ batch # Asleep /\ f \in MayAnswer
    /\ announced' = announced \cup Announces(f)
    /\ batch' = Asleep
    /\ UNCHANGED <<call, art, memo, timed, said, billed, minutes, loc>>

----------------------------------------------------------------------------
(* Requests.  Every one of the owner's looks for a call that is not        *)
(* deleted; the trigger is the webhooks' and does not.                     *)

\* what a request reads of the row a and uses later: for every other column it
\* remembers no more than that there is a row
Read(op, a) ==
    IF a.tr = "none" THEN NoRow
    ELSE [tr |-> IF op = "trigger" THEN a.tr ELSE "ready",
          sum |-> IF op \in {"trigger", "regenerate"} THEN a.sum ELSE "ready",
          lab |-> IF op \in {"trigger", "labels"} THEN a.lab ELSE "ready",
          ref |-> FALSE, facts |-> FALSE, summary |-> FALSE,
          labels |-> IF op = "labels" THEN a.labels ELSE {}]

Asks(r, op, on) ==
    /\ loc[r] = Idle
    /\ loc' = [loc EXCEPT ![r] =
         [op |-> op, on |-> on,
          row |-> IF on \in Calls /\ op # "delete" THEN Read(op, art[on]) ELSE NoRow,
          sure |-> {i \in Items : op = "delete" /\ memo[i].src = on /\ memo[i].sure},
          unsure |-> {i \in Items : op = "delete" /\ memo[i].src = on /\ ~memo[i].sure}]]
    /\ UNCHANGED <<call, art, memo, timed, said, billed, minutes, announced, batch>>

Arrive(r) ==
    \/ \E c \in Calls :
        \/ call[c] # "gone" /\ Asks(r, "trigger", c)
        \/ call[c] = "live" /\ \E op \in {"labels", "notes", "delete"} : Asks(r, op, c)
        \/ call[c] = "live" /\ art[c].tr = "ready" /\ Asks(r, "regenerate", c)
        \/ call[c] = "live" /\ art[c].sum = "ready" /\ art[c].summary
             /\ Asks(r, "refresh", c)
    \/ \E i \in Items, op \in {"confirm", "forget"} : Live(i) /\ Asks(r, op, i)

\* A commit of request r makes row of its call's artifact.  An artifact that was
\* deleted since, or inserted since, makes the handler raise.
WritesArtifact(r, op, row) == LET c == loc[r].on IN
    /\ loc[r].op = op /\ call[c] # "gone"
    /\ loc[r].row = NoRow => art[c] = NoRow
    /\ art' = [art EXCEPT ![c] = row]
    /\ loc' = [loc EXCEPT ![r] = Idle]
    /\ UNCHANGED <<call, memo, timed, said, billed, minutes, announced, batch>>

\* the artifact request r writes to, as it is now
Target(r) == art[loc[r].on]

\* trigger_post_call_processing, with the conversation or with an empty id
Trigger(r) == \E ref \in BOOLEAN :
    WritesArtifact(r, "trigger",
        IF loc[r].row = NoRow THEN Row("processing", ref)
        ELSE [Target(r) EXCEPT
               !.tr = IF loc[r].row.tr = "pending" THEN "processing" ELSE @,
               !.sum = IF loc[r].row.sum = "pending" THEN "processing" ELSE @,
               !.lab = IF loc[r].row.lab = "pending" THEN "processing" ELSE @])

\* an override settles labels nothing has been triggered for
Settles(seen) == seen.lab = "pending"

PatchLabels(r) == LET seen == IF loc[r].row = NoRow THEN Row("pending", FALSE)
                              ELSE loc[r].row IN
    WritesArtifact(r, "labels",
        [(IF loc[r].row = NoRow THEN seen ELSE Target(r)) EXCEPT
            !.labels = seen.labels \cup {"manual"},
            !.lab = IF Settles(seen) THEN "ready" ELSE @])

PatchNotes(r) == WritesArtifact(r, "notes",
    IF loc[r].row = NoRow THEN Row("pending", FALSE) ELSE Target(r))

\* Mutant: a status the worker does not know
QueuedAgain == "queued"

\* the status a summary gets when it is to be made again
Requeued == "pending"

RegenerateSummary(r) == WritesArtifact(r, "regenerate",
    [Target(r) EXCEPT !.sum = IF loc[r].row.sum = "pending" THEN @ ELSE Requeued])

\* refresh_stale_summary of the GET handlers
RefreshSummary(r) == WritesArtifact(r, "refresh",
    [Target(r) EXCEPT !.summary = TRUE, !.facts = TRUE])

\* soft_delete_call: memory the owner confirmed loses its link, the rest goes
DeleteCall(r) == LET c == loc[r].on IN
    /\ loc[r].op = "delete" /\ call[c] # "gone"
    /\ call' = [call EXCEPT ![c] = "deleted"]
    /\ memo' = [i \in Items |->
         IF i \in loc[r].sure THEN [memo[i] EXCEPT !.src = None]
         ELSE IF i \in loc[r].unsure THEN [memo[i] EXCEPT !.st = "deleted"]
         ELSE memo[i]]
    /\ loc' = [loc EXCEPT ![r] = Idle]
    /\ UNCHANGED <<art, timed, said, billed, minutes, announced, batch>>

WritesItem(r, op, item) == LET i == loc[r].on IN
    /\ loc[r].op = op /\ memo[i].st # "purged"
    /\ memo' = [memo EXCEPT ![i] = item]
    /\ loc' = [loc EXCEPT ![r] = Idle]
    /\ UNCHANGED <<call, art, timed, said, billed, minutes, announced, batch>>

\* the owner confirms an item or takes the confirmation back
ConfirmItem(r) == \E sure \in BOOLEAN :
    WritesItem(r, "confirm", [memo[loc[r].on] EXCEPT !.sure = sure])

DeleteItem(r) == WritesItem(r, "forget", [memo[loc[r].on] EXCEPT !.st = "deleted"])

\* the owner writes down something about the caller
CreateItem(i) ==
    /\ memo[i].st = "unused"
    /\ memo' = [memo EXCEPT ![i] = [st |-> "live", sure |-> TRUE, src |-> None]]
    /\ UNCHANGED <<call, art, timed, said, billed, minutes, announced, batch, loc>>

DeleteAllMemory ==
    /\ \E i \in Items : Live(i)
    /\ memo' = [i \in Items |->
                  IF Live(i) THEN [memo[i] EXCEPT !.st = "deleted"] ELSE memo[i]]
    /\ UNCHANGED <<call, art, timed, said, billed, minutes, announced, batch, loc>>

Rollback(r) ==
    /\ loc[r] # Idle
    /\ loc' = [loc EXCEPT ![r] = Idle]
    /\ UNCHANGED <<call, art, memo, timed, said, billed, minutes, announced, batch>>

----------------------------------------------------------------------------
(* Retention and hard deletion                                             *)

Retire(c) ==
    /\ call[c] = "live"
    /\ call' = [call EXCEPT ![c] = "deleted"]
    /\ art' = [art EXCEPT ![c].summary = FALSE, ![c].ref = FALSE]
    /\ memo' = [i \in Items |->
         IF Live(i) /\ memo[i].src = c /\ ~memo[i].sure
         THEN [memo[i] EXCEPT !.st = "deleted"] ELSE memo[i]]
    /\ UNCHANGED <<timed, said, billed, minutes, announced, batch, loc>>

\* Mutant: only items that are marked as deleted are removed with their call
PurgesDeleted(i, c) == memo[i].src = c /\ memo[i].st = "deleted"

\* the memory items that are removed with their call
Purges(i, c) == memo[i].src = c

HardDelete(c) ==
    /\ call[c] = "deleted"
    /\ call' = [call EXCEPT ![c] = "gone"]
    /\ art' = [art EXCEPT ![c] = NoRow]
    /\ memo' = [i \in Items |-> IF Purges(i, c)
                                THEN [memo[i] EXCEPT !.st = "purged"] ELSE memo[i]]
    /\ UNCHANGED <<timed, said, billed, minutes, announced, batch, loc>>

Commit(r) ==
    \/ Trigger(r) \/ PatchLabels(r) \/ PatchNotes(r) \/ RegenerateSummary(r)
    \/ RefreshSummary(r) \/ DeleteCall(r) \/ ConfirmItem(r) \/ DeleteItem(r)
    \/ Rollback(r)

Next ==
    \/ \E c \in Calls : CallIsTimed(c) \/ ConversationEnds(c) \/ Retire(c) \/ HardDelete(c)
    \/ WorkerLoad
    \/ \E f \in MayAnswer : WorkerCommit(f) \/ WorkerRollback(f)
    \/ DeleteAllMemory \/ \E i \in Items : CreateItem(i)
    \/ \E r \in Reqs : Arrive(r) \/ Commit(r)

Spec == Init /\ [][Next]_vars

\* The worker's loop never ends; not every batch is rolled back and not every
\* fetch of a complete conversation fails
FairSpec ==
    /\ Spec /\ WF_vars(WorkerLoad)
    /\ SF_vars(\E f \in MayAnswer :
                 WorkerCommit(f) /\ \A c \in DOMAIN batch \cap said : f[c] = "full")
----------------------------------------------------------------------------
(* Properties *)

\* Every variable holds values of its domain.
TypeOK ==
    /\ call \in [Calls -> {"live", "deleted", "gone"}]
    /\ art \in [Calls -> Rows]
    /\ memo \in [Items -> Memos]
    /\ timed \in SUBSET Calls /\ said \in SUBSET Calls
    /\ billed \in SUBSET Calls /\ announced \in SUBSET Calls
    /\ minutes \in Nat
    /\ DOMAIN batch \subseteq Calls /\ \A c \in DOMAIN batch : batch[c] \in Rows
    /\ loc \in [Reqs -> Locals]

\* A call counts once towards the owner's minutes, however often the worker
\* comes back to it, regenerates its summary or repeats a batch.
BilledOnce == minutes = Cardinality(billed)

\* A call is never finished in silence: when its three parts show as ready,
\* notify_call_screened ran for it, whoever wrote the last part and although
\* the worker, which alone calls it, only looks at unfinished calls.
DoneIsAnnounced == \A c \in Calls : Done(art[c]) => c \in announced

\* A summary that shows as ready can be read, as long as the call is there:
\* no overlap of worker, regeneration, refresh and retention leaves a status
\* without its text.
ReadyCanBeRead ==
    \A c \in Calls : call[c] = "live" /\ art[c].sum = "ready" => art[c].summary

\* Hard deletion is complete: nothing of the call is left, and nothing that was
\* in flight brings a part of it back.
GoneLeavesNothing ==
    \A c \in Calls : call[c] = "gone" =>
        /\ ~HasRow(c)
        /\ \A i \in Items : memo[i].src = c => ~Live(i)

\* A triggered call is finished once its conversation is complete, unless it
\* is deleted, although other calls of the batch may never be.
Settled(c) == Done(art[c]) \/ call[c] # "live"
CallsAreSettled ==
    \A c \in Calls : art[c].ref /\ c \in said ~> Settled(c)
=============================================================================
