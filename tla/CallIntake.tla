----------------------------- MODULE CallIntake -----------------------------
(***************************************************************************)
(* The life of a screened call on the backend: the webhooks by which       *)
(* Twilio, ElevenLabs and the realtime bridge drive a call record, its AI  *)
(* session and the artifact record that starts post-call processing        *)
(* (call_service.py, webhooks.py, internal.py, artifact_service.py).       *)
(*                                                                         *)
(* Every handler is one READ COMMITTED transaction that first SELECTs ORM  *)
(* rows and later writes back only the columns it changed, without a       *)
(* version check.  So each handler is split where it reads and where it    *)
(* commits: loc[r] is what request r read, and a commit overwrites the     *)
(* committed rows from it.  The flush that precedes a commit only takes    *)
(* row locks; it is folded into the commit.  A handler that breaks one of  *)
(* the database's unique constraints raises and get_db rolls it back.      *)
(***************************************************************************)
EXTENDS Integers, FiniteSets, Sequences, Functions

CONSTANTS
    Sids,       \* Twilio CallSids; a conversation is named by the call it records
    Reqs,       \* handler slots: the requests that can be in flight together
    Reports,    \* the statuses Twilio may report (keys of TWILIO_STATUS_MAP)
    UseBridge,  \* ENABLE_REALTIME_BRIDGE
    NoSid       \* SQL NULL for a conversation id

ProviderStatus == {"queued", "ringing", "in-progress", "completed", "busy",
                   "failed", "no-answer", "canceled"}

ASSUME ReportsAssumption == Reports \subseteq ProviderStatus
ASSUME BridgeAssumption == UseBridge \in BOOLEAN
ASSUME NoSidAssumption == NoSid \notin Sids

TerminalStates == {"completed", "partial", "failed", "canceled"}

CallStates == {"created", "inbound_received", "twiml_responded",
               "in_progress"} \cup TerminalStates

\* "none" stands for a call that has no row yet
StateOrder == [s \in CallStates \cup {"none"} |->
    IF s \in TerminalStates THEN 10
    ELSE IF s = "in_progress" THEN 3
    ELSE IF s = "twiml_responded" THEN 2
    ELSE IF s = "inbound_received" THEN 1
    ELSE IF s = "created" THEN 0 ELSE -1]

\* Mutant: the transition only protects final states, not the order
IsValidTransitionUnordered(current, new) ==
    current \in TerminalStates => new \in TerminalStates

IsValidTransition(current, new) ==
    /\ current \in TerminalStates => new \in TerminalStates
    /\ StateOrder[new] >= StateOrder[current]

MapTwilioStatus == [p \in ProviderStatus |->
    IF p = "queued" THEN "created"
    ELSE IF p = "ringing" THEN "inbound_received"
    ELSE IF p = "in-progress" THEN "in_progress"
    ELSE IF p \in {"completed", "canceled"} THEN p ELSE "failed"]

IsFinal(p) == MapTwilioStatus[p] \in TerminalStates

\* Mutant: ended_at is written with every status update
SetsEndedAtAlways(p) == TRUE

\* the statuses for which the status handler computes an ended_at
SetsEndedAt(p) == IsFinal(p)

\* call_events rows, by their dedupe key (call, event_type, provider_status)
EventKeys == ({"provider_status_update"} \X ProviderStatus) \cup
    {<<"call_started", "ringing">>, <<"twiml_responded", "null">>,
     <<"call_blocked", "blocked">>}

Update(p) == <<"provider_status_update", p>>

BridgeEvents == {"stream_connected", "ai_session_created", "stream_ended",
                 "stream_error"}

SessionStates == {"none", "connected", "active", "completed", "failed"}

VARIABLES
    reported,    \* reported[c]: statuses Twilio has announced for c (the provider)
    talks,       \* conversations ElevenLabs has started, oldest first (the provider)
    callStatus,  \* calls.status, "none" before the row exists
    ended,       \* calls whose ended_at is set
    events,      \* events[c]: the dedupe keys of c's call_events rows
    session,     \* session[c]: status and provider_session_id of the AI session
    opened,      \* calls in the order their AI session was inserted (started_at)
    artifact,    \* artifact[c]: transcript_status and transcript_provider_ref
    pc,          \* pc[r]: where request r stands
    loc,         \* loc[r]: what request r was sent and what it read
    acked        \* acked[c]: final statuses answered 200 by a handler that found c

rows == <<callStatus, ended, events, session, opened, artifact>>
provider == <<reported, talks>>
vars == <<provider, rows, pc, loc, acked>>

Convs == Sids \cup {NoSid}

Locals == [sid: Convs, arg: ProviderStatus \cup BridgeEvents \cup {"none"},
           dur: BOOLEAN, conv: Convs, status: CallStates \cup {"none"},
           apply: BOOLEAN, sess: SessionStates, sconv: Convs, art: BOOLEAN]

\* A request for call c that has read nothing yet (NoSid: no request)
Fresh(c) == [sid |-> c, arg |-> "none", dur |-> FALSE, conv |-> NoSid,
             status |-> "none", apply |-> FALSE, sess |-> "none",
             sconv |-> NoSid, art |-> FALSE]

\* The handler has answered, and forgets what it read
Finish(r) ==
    /\ pc' = [pc EXCEPT ![r] = "idle"]
    /\ loc' = [loc EXCEPT ![r] = Fresh(NoSid)]

Init ==
    /\ reported = [c \in Sids |-> {}]
    /\ talks = <<>>
    /\ callStatus = [c \in Sids |-> "none"]
    /\ ended = {}
    /\ events = [c \in Sids |-> {}]
    /\ session = [c \in Sids |-> [st |-> "none", conv |-> NoSid]]
    /\ opened = <<>>
    /\ artifact = [c \in Sids |-> [st |-> "none", ref |-> NoSid]]
    /\ pc = [r \in Reqs |-> "idle"]
    /\ loc = [r \in Reqs |-> Fresh(NoSid)]
    /\ acked = [c \in Sids |-> {}]

----------------------------------------------------------------------------
(* The providers.  A callback may be delivered late, twice, out of order   *)
(* or never: a handler may start for anything reported so far.             *)

\* Twilio's view of a call only moves forward and ends in one final status
TwilioReport(c, p) ==
    /\ p \in Reports \ reported[c]
    /\ \A q \in reported[c] : ~IsFinal(q)
    /\ p # "ringing" => "ringing" \in reported[c]
    /\ p = "in-progress" => callStatus[c] # "none"   \* the TwiML came back
    /\ p = "completed" => "in-progress" \in reported[c]
    /\ IsFinal(p) /\ p # "completed" => "in-progress" \notin reported[c]
    /\ reported' = [reported EXCEPT ![c] = @ \cup {p}]
    /\ UNCHANGED <<talks, rows, pc, loc, acked>>

\* ElevenLabs opens the conversation of a call that was handed to it
TalkStarts(c) ==
    /\ session[c].st # "none" /\ c \notin Range(talks)
    /\ talks' = Append(talks, c)
    /\ UNCHANGED <<reported, rows, pc, loc, acked>>

----------------------------------------------------------------------------
(* POST /twilio/voice/inbound: one transaction for the call record and,    *)
(* when the caller can be screened, a second one for the AI session.       *)

\* Twilio asks, and asks again, while the call waits for its TwiML
InboundLoad(r, c) ==
    /\ pc[r] = "idle" /\ reported[c] = {"ringing"}
    /\ loc' = [loc EXCEPT ![r] = [Fresh(c) EXCEPT !.status = callStatus[c]]]
    /\ pc' = [pc EXCEPT ![r] = "inbound"]
    /\ UNCHANGED <<provider, rows, acked>>

\* create_or_get_call found no row; the INSERT needs the sid still unused
MayInsertCall(r) ==
    loc[r].status = "none" => callStatus[loc[r].sid] = "none"

InboundEvents == {<<"call_started", "ringing">>, <<"twiml_responded", "null">>}

InboundCommit(r) == LET c == loc[r].sid IN
    /\ pc[r] = "inbound" /\ MayInsertCall(r)
    /\ IF loc[r].status = "none"
       THEN /\ callStatus' = [callStatus EXCEPT ![c] = "twiml_responded"]
            /\ events' = [events EXCEPT ![c] = @ \cup InboundEvents]
       ELSE UNCHANGED <<callStatus, events>>
    /\ \/ /\ pc' = [pc EXCEPT ![r] = "screen"]
          /\ loc' = [loc EXCEPT ![r] = Fresh(c)]
       \/ Finish(r)   \* billing inactive, or no agent to answer the call
    /\ UNCHANGED <<provider, ended, session, opened, artifact, acked>>

\* The caller is blocked and log_blocked_attempts is set
InboundBlocked(r) ==
    LET c == loc[r].sid
        current == IF loc[r].status = "none" THEN "inbound_received"
                   ELSE loc[r].status
        blocked == <<"call_blocked", "blocked">>
        moves == /\ IsValidTransition(current, "completed")
                 /\ blocked \notin events[c]
        next == IF moves THEN "completed" ELSE current
    IN
    /\ pc[r] = "inbound" /\ MayInsertCall(r)
    /\ callStatus' = IF next # loc[r].status
                     THEN [callStatus EXCEPT ![c] = next] ELSE callStatus
    /\ events' = IF moves THEN [events EXCEPT ![c] = @ \cup {blocked}] ELSE events
    /\ Finish(r)
    /\ UNCHANGED <<provider, ended, session, opened, artifact, acked>>

SessionLoad(r) ==
    /\ pc[r] = "screen"
    /\ loc' = [loc EXCEPT ![r] = [@ EXCEPT !.sess = session[loc[r].sid].st]]
    /\ pc' = [pc EXCEPT ![r] = "connect"]
    /\ UNCHANGED <<provider, rows, acked>>

\* Mutant: an existing session is reset, its conversation with it
CreateAiSessionReset(r, conv) == LET c == loc[r].sid IN
    /\ session' = [session EXCEPT ![c] = [st |-> "connected", conv |-> conv]]
    /\ opened' = IF loc[r].sess = "none" THEN Append(opened, c) ELSE opened

\* Mutant: the default status of the function is inserted
CreateAiSessionPending(r, conv) == LET c == loc[r].sid IN
    /\ session' = [session EXCEPT ![c] = [st |-> "pending", conv |-> conv]]
    /\ opened' = IF loc[r].sess = "none" THEN Append(opened, c) ELSE opened

\* create_ai_session: insert, or write the columns that differ from those read
CreateAiSession(r, conv) == LET c == loc[r].sid IN
    IF loc[r].sess = "none"
    THEN /\ session[c].st = "none"
         /\ session' = [session EXCEPT ![c] = [st |-> "connected", conv |-> conv]]
         /\ opened' = Append(opened, c)
    ELSE /\ session' = [session EXCEPT ![c] =
              [st   |-> IF loc[r].sess = "connected" THEN @.st ELSE "connected",
               conv |-> IF conv \in {NoSid, loc[r].sconv} THEN @.conv ELSE conv]]
         /\ UNCHANGED opened

SessionCommit(r) ==
    /\ pc[r] = "connect"
    /\ CreateAiSession(r, NoSid)
    /\ Finish(r)
    /\ UNCHANGED <<provider, callStatus, ended, events, artifact, acked>>

----------------------------------------------------------------------------
(* trigger_post_call_processing, with get_or_create_artifact: the unique   *)
(* call_id makes the second of two concurrent INSERTs fail.                *)

MayTrigger(r) ==
    ~loc[r].art => artifact[loc[r].sid].st = "none"

\* Mutant: a repeated trigger starts the artifact over
TriggerAfresh(c, conv, known) ==
    artifact' = [artifact EXCEPT ![c] = [st |-> "processing", ref |-> conv]]

Trigger(c, conv, known) ==
    artifact' = [artifact EXCEPT ![c] =
        IF known
        THEN [st |-> IF @.st = "pending" THEN "processing" ELSE @.st, ref |-> @.ref]
        ELSE [st |-> "processing", ref |-> conv]]

----------------------------------------------------------------------------
(* POST /twilio/voice/status                                               *)

StatusLoad(r, c, p, d) ==
    /\ pc[r] = "idle" /\ p \in reported[c] /\ callStatus[c] # "none"
    /\ d => p = "completed"
    /\ loc' = [loc EXCEPT ![r] = [Fresh(c) EXCEPT
                 !.arg = p, !.dur = d, !.status = callStatus[c]]]
    /\ pc' = [pc EXCEPT ![r] = "check"]
    /\ UNCHANGED <<provider, rows, acked>>

\* Mutant: events are deduplicated by type alone
SeenTypeOnly(c, p) == \E q \in ProviderStatus : Update(q) \in events[c]

\* the dedupe query of transition_call_status
Seen(c, p) == Update(p) \in events[c]

\* transition_call_status decides on the row read before, then on call_events
\* The session is read when there is a duration, to find the conversation
StatusCheck(r) ==
    LET c == loc[r].sid
        p == loc[r].arg
        sess == IF loc[r].dur THEN session[c] ELSE [st |-> "none", conv |-> NoSid]
    IN
    /\ pc[r] = "check"
    /\ loc' = [loc EXCEPT ![r] = [@ EXCEPT
         !.apply = IsValidTransition(loc[r].status, MapTwilioStatus[p]) /\ ~Seen(c, p),
         !.sess = sess.st,
         !.sconv = sess.conv]]
    /\ pc' = [pc EXCEPT ![r] = IF loc[r].dur THEN "lookup" ELSE "settle"]
    /\ UNCHANGED <<provider, rows, acked>>

\* _find_elevenlabs_conversation takes the newest conversation, whoever's it is
StatusLookup(r) ==
    LET newest == IF talks = <<>> THEN {} ELSE {talks[Len(talks)]} IN
    /\ pc[r] = "lookup"
    /\ \E conv \in {NoSid} \cup newest :
         loc' = [loc EXCEPT ![r] = [@ EXCEPT
             !.conv = IF loc[r].sess # "none" /\ loc[r].sconv = NoSid
                      THEN conv ELSE NoSid,
             !.art = artifact[loc[r].sid].st # "none"]]
    /\ pc' = [pc EXCEPT ![r] = "settle"]
    /\ UNCHANGED <<provider, rows, acked>>

StatusCommit(r) ==
    LET c == loc[r].sid
        p == loc[r].arg
        new == MapTwilioStatus[p]
        conv == IF loc[r].conv # NoSid THEN loc[r].conv ELSE loc[r].sconv
        triggers == loc[r].dur /\ conv # NoSid
    IN
    /\ pc[r] = "settle"
    /\ loc[r].apply => Update(p) \notin events[c]
    /\ IF loc[r].apply
       THEN /\ events' = [events EXCEPT ![c] = @ \cup {Update(p)}]
            /\ callStatus' = IF new # loc[r].status
                             THEN [callStatus EXCEPT ![c] = new] ELSE callStatus
            /\ ended' = IF SetsEndedAt(p) THEN ended \cup {c} ELSE ended
       ELSE UNCHANGED <<events, callStatus, ended>>
    /\ session' = IF loc[r].conv # NoSid
                  THEN [session EXCEPT ![c] =
                          [st |-> IF loc[r].sess = "completed" THEN @.st
                                  ELSE "completed",
                           conv |-> loc[r].conv]]
                  ELSE session
    /\ IF triggers THEN MayTrigger(r) /\ Trigger(c, conv, loc[r].art)
       ELSE UNCHANGED artifact
    /\ acked' = IF IsFinal(p) THEN [acked EXCEPT ![c] = @ \cup {p}] ELSE acked
    /\ Finish(r)
    /\ UNCHANGED <<provider, opened>>

----------------------------------------------------------------------------
(* POST /elevenlabs/conversation: conversation k is over                   *)

Linked(k) == {c \in Sids : session[c].st # "none" /\ session[c].conv = k}

\* the fallback: the newest connected session without a conversation
NewestUnlinked ==
    LET Open(i) == session[opened[i]].st = "connected" /\ session[opened[i]].conv = NoSid
    IN {opened[i] : i \in {j \in DOMAIN opened :
            Open(j) /\ \A n \in DOMAIN opened : Open(n) => n <= j}}

\* scalar_one_or_none raises when two sessions are linked to k
ConvLoad(r, k) ==
    /\ pc[r] = "idle" /\ k \in Range(talks) /\ Cardinality(Linked(k)) <= 1
    /\ \E c \in IF Linked(k) # {} THEN Linked(k) ELSE NewestUnlinked :
         loc' = [loc EXCEPT ![r] = [Fresh(c) EXCEPT
           !.conv = k, !.sconv = session[c].conv, !.art = artifact[c].st # "none"]]
    /\ pc' = [pc EXCEPT ![r] = "conv"]
    /\ UNCHANGED <<provider, rows, acked>>

ConvCommit(r) == LET c == loc[r].sid IN
    /\ pc[r] = "conv" /\ MayTrigger(r)
    /\ session' = IF loc[r].sconv = NoSid
                  THEN [session EXCEPT ![c].conv = loc[r].conv] ELSE session
    /\ Trigger(c, loc[r].conv, loc[r].art)
    /\ Finish(r)
    /\ UNCHANGED <<provider, callStatus, ended, events, opened, acked>>

----------------------------------------------------------------------------
(* POST /internal/events: the bridge posts its events without waiting for  *)
(* the previous answer, so they arrive in any order.                       *)

BridgeLoad(r, c, e, conv) ==
    /\ UseBridge /\ pc[r] = "idle" /\ session[c].st # "none"
    /\ conv \in {NoSid} \cup (Range(talks) \cap {c})
    /\ e \in {"stream_connected", "ai_session_created"} => conv = NoSid
    /\ loc' = [loc EXCEPT ![r] = [Fresh(c) EXCEPT
         !.arg = e, !.conv = conv, !.sess = session[c].st,
         !.sconv = session[c].conv,
         !.art = e = "stream_ended" /\ artifact[c].st # "none"]]
    /\ pc' = [pc EXCEPT ![r] = "bridge"]
    /\ UNCHANGED <<provider, rows, acked>>

BridgeStatus == [e \in BridgeEvents |->
    IF e = "stream_connected" THEN "connected"
    ELSE IF e = "ai_session_created" THEN "active"
    ELSE IF e = "stream_ended" THEN "completed" ELSE "failed"]

BridgeCommit(r) ==
    LET c == loc[r].sid
        new == BridgeStatus[loc[r].arg]
        conv == loc[r].conv
    IN
    /\ pc[r] = "bridge"
    /\ session' = [session EXCEPT ![c] =
         [st   |-> IF new = loc[r].sess THEN @.st ELSE new,
          conv |-> IF conv \in {NoSid, loc[r].sconv} THEN @.conv ELSE conv]]
    /\ IF loc[r].arg = "stream_ended"
       THEN MayTrigger(r) /\ Trigger(c, conv, loc[r].art)
       ELSE UNCHANGED artifact
    /\ Finish(r)
    /\ UNCHANGED <<provider, callStatus, ended, events, opened, acked>>

----------------------------------------------------------------------------
\* PATCH /calls/{id} with notes or labels before any artifact row exists
PatchCall(c) ==
    /\ callStatus[c] # "none" /\ artifact[c].st = "none"
    /\ artifact' = [artifact EXCEPT ![c] = [st |-> "pending", ref |-> NoSid]]
    /\ UNCHANGED <<provider, callStatus, ended, events, session, opened, pc,
                   loc, acked>>

\* A lost unique-constraint race, an exception or a restart: get_db rolls back
Rollback(r) ==
    /\ pc[r] # "idle"
    /\ Finish(r)
    /\ UNCHANGED <<provider, rows, acked>>

Step(r) ==
    \/ InboundCommit(r) \/ InboundBlocked(r)
    \/ SessionLoad(r) \/ SessionCommit(r)
    \/ StatusCheck(r) \/ StatusLookup(r) \/ StatusCommit(r)
    \/ ConvCommit(r) \/ BridgeCommit(r) \/ Rollback(r)

Arrive(r) == \E c \in Sids :
    \/ InboundLoad(r, c)
    \/ \E p \in Reports, d \in BOOLEAN : StatusLoad(r, c, p, d)
    \/ ConvLoad(r, c)
    \/ \E e \in BridgeEvents, conv \in Convs : BridgeLoad(r, c, e, conv)

Next ==
    \/ \E c \in Sids, p \in Reports : TwilioReport(c, p)
    \/ \E c \in Sids : TalkStarts(c) \/ PatchCall(c)
    \/ \E r \in Reqs : Arrive(r) \/ Step(r)

Spec == Init /\ [][Next]_vars
----------------------------------------------------------------------------
(* Properties *)

\* Every variable holds values of its domain.
TypeOK ==
    /\ reported \in [Sids -> SUBSET ProviderStatus]
    /\ talks \in Seq(Sids)
    /\ callStatus \in [Sids -> CallStates \cup {"none"}]
    /\ ended \in SUBSET Sids
    /\ events \in [Sids -> SUBSET EventKeys]
    /\ session \in [Sids -> [st: SessionStates, conv: Convs]]
    /\ opened \in Seq(Sids)
    /\ artifact \in [Sids -> [st: {"none", "pending", "processing"}, ref: Convs]]
    /\ pc \in [Reqs -> {"idle", "inbound", "screen", "connect", "check",
                        "lookup", "settle", "conv", "bridge"}]
    /\ loc \in [Reqs -> Locals]
    /\ acked \in [Sids -> SUBSET ProviderStatus]

\* The end of a call is never lost once Twilio was answered 200 for it: the
\* call has its ended_at and its event, whatever ran beside the handler and
\* however often the callback came (webhooks.py, twilio_voice_status).
AckedEndIsRecorded ==
    \A c \in Sids : \A p \in acked[c] : c \in ended /\ Update(p) \in events[c]

\* calls.ended_at and the event log tell the same story: a call has an end
\* exactly when a final provider status is in its log.
EndedMatchesLog ==
    \A c \in Sids :
        c \in ended <=> \E p \in ProviderStatus : IsFinal(p) /\ Update(p) \in events[c]

\* The transcript the worker will fetch was taken from a linked session: no
\* handler makes an artifact point to a conversation while the call's AI
\* session has none, and no retry unlinks the session afterwards.
ArtifactRefIsLinked ==
    \A c \in Sids : artifact[c].ref # NoSid => session[c].conv # NoSid

\* Once a post-call trigger ran, nothing undoes it: the artifact stays
\* processing and keeps the conversation it was created with.
TriggerIsStable ==
    [][\A c \in Sids : artifact[c].st = "processing" => artifact'[c] = artifact[c]]_vars

----------------------------------------------------------------------------
(* What the documents say and the code does not keep *)

\* "Transcript belongs to one Call record": no two calls fetch the same one.
TranscriptOfOneCall ==
    \A c, d \in Sids : c # d /\ artifact[c].ref # NoSid =>
                            artifact[c].ref # artifact[d].ref

----------------------------------------------------------------------------
(* What a request may rely on while the rows change under it: the parts    *)
(* that make the invariants above inductive.                               *)

\* A status handler has a known call and a status of Twilio's in hand
StatusPhases == {"check", "lookup", "settle"}

RequestsAim ==
    \A r \in Reqs :
        /\ pc[r] # "idle" => loc[r].sid \in Sids
        /\ pc[r] \in StatusPhases => /\ loc[r].arg \in ProviderStatus
                                     /\ loc[r].status \in CallStates
        /\ pc[r] = "bridge" => loc[r].arg \in BridgeEvents

\* A handler skips the transition to an end only if the end is in the log
SkippedEndIsLogged ==
    \A r \in Reqs :
        /\ pc[r] \in {"lookup", "settle"}
        /\ ~loc[r].apply
        /\ IsFinal(loc[r].arg)
        => Update(loc[r].arg) \in events[loc[r].sid]

\* Request r goes on because it found a session
FoundSession(r) ==
    \/ pc[r] \in {"conv", "bridge"}
    \/ pc[r] \in {"lookup", "connect"} /\ loc[r].sess # "none"
    \/ pc[r] = "settle" /\ loc[r].conv # NoSid

\* What request r saw of its session still holds when it commits
SeenSession(r) ==
    /\ pc[r] \in {"lookup", "settle", "conv", "bridge"} /\ loc[r].sconv # NoSid
          => session[loc[r].sid].conv # NoSid
    /\ FoundSession(r) => session[loc[r].sid].st # "none"
    /\ pc[r] = "conv" => loc[r].conv # NoSid
    /\ pc[r] = "check" => loc[r].conv = NoSid

\* A session is never deleted here, and its link never removed
LinksLast ==
    /\ \A c \in Sids : session[c].st = "none" => session[c].conv = NoSid
    /\ \A r \in Reqs : SeenSession(r)

=============================================================================
