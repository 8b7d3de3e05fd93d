--------------------------- MODULE RealtimeBridge ---------------------------
(***************************************************************************)
(* The realtime bridge (realtime/src): one Node process that joins each    *)
(* Twilio media stream to an ElevenLabs conversation and reports the       *)
(* stream's life to the backend and to the owner's app.                    *)
(*                                                                         *)
(* Node runs one callback at a time, so an action is one callback.  The    *)
(* start handler is the exception: it awaits the agent's configuration,    *)
(* and every other callback of the stream may run before it resumes.       *)
(* A call has one stream, so activeSessions, keyed by call, is the set of  *)
(* their streams.                                                          *)
(***************************************************************************)
EXTENDS Integers, FiniteSets, Sequences

CONSTANTS
    Streams,      \* Twilio media websockets
    Users,
    Owner,        \* Owner[s]: the user whose call s carries
    MaxSessions,  \* config.maxConcurrentSessions
    MaxPerUser    \* config.maxSessionsPerUser

ASSUME OwnerAssumption == Owner \in [Streams -> Users]
ASSUME CapAssumption == MaxSessions \in Nat /\ MaxPerUser \in Nat

VARIABLES
    sock,     \* readyState of the Twilio websocket; "lost" in a restart
    start,    \* where the stream's start message stands
    ctx,      \* streams whose sessionCtx is set
    active,   \* activeSessions
    count,    \* userSessionCounts, 0 for a user without an entry
    agent,    \* readyState of the ElevenLabs websocket
    ref,      \* streams whose elSession is set
    talking,  \* streams whose conversation ElevenLabs has begun
    emitted,  \* emitted[s]: event types posted to the backend, in order
    shown     \* shown[s]: CALL_STARTED and CALL_ENDED fanned out, in order

vars == <<sock, start, ctx, active, count, agent, ref, talking, emitted, shown>>

Init ==
    /\ sock = [s \in Streams |-> "none"]
    /\ start = [s \in Streams |-> "none"]
    /\ ctx = {} /\ active = {}
    /\ count = [u \in Users |-> 0]
    /\ agent = [s \in Streams |-> "none"]
    /\ ref = {} /\ talking = {}
    /\ emitted = [s \in Streams |-> <<>>]
    /\ shown = [s \in Streams |-> <<>>]

----------------------------------------------------------------------------
(* cleanup(reason): w and a are the readyStates of the two sockets when it *)
(* runs.  A second cleanup of the stream returns at once.                  *)

\* Mutant: an error is posted under the other name the backend knows
PostedAsFailure(s, e) ==
    [emitted EXCEPT ![s] = Append(@, IF e = "stream_error" THEN "ai_session_failed" ELSE e)]

Posted(s, e) == [emitted EXCEPT ![s] = Append(@, e)]
Shown(s, e) == [shown EXCEPT ![s] = Append(@, e)]

\* Mutant: the early return is missing
HasSessionIgnored(s) == TRUE

HasSession(s) == s \in ctx

\* Mutant: the entry of a user with one session is left behind
FreeSlotLeaky(s) == LET u == Owner[s] IN
    /\ active' = active \ {s}
    /\ count' = IF count[u] <= 1 THEN count ELSE [count EXCEPT ![u] = @ - 1]

FreeSlot(s) == LET u == Owner[s] IN
    /\ active' = active \ {s}
    /\ count' = [count EXCEPT ![u] = IF @ <= 1 THEN 0 ELSE @ - 1]

\* closeElevenLabsSession leaves a socket that is still connecting alone
Cleanup(s, e, w, a) ==
    IF HasSession(s)
    THEN /\ FreeSlot(s)
         /\ agent' = [agent EXCEPT ![s] =
                        IF s \in ref /\ a = "open" THEN "closing" ELSE a]
         /\ sock' = [sock EXCEPT ![s] = IF w = "open" THEN "closing" ELSE w]
         /\ ref' = ref \ {s}
         /\ ctx' = ctx \ {s}
         /\ shown' = Shown(s, "CALL_ENDED")
         /\ emitted' = Posted(s, e)
    ELSE /\ agent' = [agent EXCEPT ![s] = a]
         /\ sock' = [sock EXCEPT ![s] = w]
         /\ UNCHANGED <<active, count, ref, ctx, shown, emitted>>

----------------------------------------------------------------------------
(* The Twilio side of a stream.  Twilio sends start once, then stop, and   *)
(* closes the socket or loses it.                                          *)

TwilioConnects(s) ==
    /\ sock[s] = "none"
    /\ sock' = [sock EXCEPT ![s] = "open"]
    /\ UNCHANGED <<start, ctx, active, count, agent, ref, talking,
                   emitted, shown>>

\* Mutant: the caps are off by one
AdmitsOneMore(s) ==
    /\ Cardinality(active) <= MaxSessions
    /\ count[Owner[s]] < MaxPerUser

Admits(s) ==
    /\ Cardinality(active) < MaxSessions
    /\ count[Owner[s]] < MaxPerUser

\* The start message up to the await
StreamStarts(s) ==
    /\ sock[s] = "open" /\ start[s] = "none"
    /\ Admits(s)
    /\ start' = [start EXCEPT ![s] = "fetching"]
    /\ ctx' = ctx \cup {s}
    /\ active' = active \cup {s}
    /\ count' = [count EXCEPT ![Owner[s]] = @ + 1]
    /\ UNCHANGED <<sock, agent, ref, talking, emitted, shown>>

\* An invalid session token, or no room
StreamRefused(s) ==
    /\ sock[s] = "open" /\ start[s] = "none"
    /\ start' = [start EXCEPT ![s] = "refused"]
    /\ sock' = [sock EXCEPT ![s] = "closing"]
    /\ UNCHANGED <<ctx, active, count, agent, ref, talking, emitted, shown>>

\* Mutant: the caller's phone is taken from the message, not from sessionCtx
ResumeUnchecked(s) ==
    /\ shown' = Shown(s, "CALL_STARTED")
    /\ ref' = ref \cup {s}
    /\ agent' = [agent EXCEPT ![s] = "connecting"]
    /\ emitted' = [emitted EXCEPT ![s] =
                     @ \o <<"stream_connected", "ai_session_created">>]

\* The rest of the start handler: stream_connected is posted before
\* sessionCtx.callerPhone throws on a stream that was cleaned up meanwhile
Resume(s) ==
    IF s \in ctx
    THEN /\ shown' = Shown(s, "CALL_STARTED")
         /\ ref' = ref \cup {s}
         /\ agent' = [agent EXCEPT ![s] = "connecting"]
         /\ emitted' = [emitted EXCEPT ![s] =
                          @ \o <<"stream_connected", "ai_session_created">>]
    ELSE /\ emitted' = Posted(s, "stream_connected")
         /\ UNCHANGED <<shown, ref, agent>>

\* fetchAgentRuntime answers with an agent
AgentFound(s) ==
    /\ start[s] = "fetching"
    /\ start' = [start EXCEPT ![s] = "done"]
    /\ Resume(s)
    /\ UNCHANGED <<sock, ctx, active, count, talking>>

\* fetchAgentRuntime fails, times out, or names no agent
AgentMissing(s) ==
    /\ start[s] = "fetching"
    /\ start' = [start EXCEPT ![s] = "done"]
    /\ Cleanup(s, "stream_ended",
               IF sock[s] = "open" THEN "closing" ELSE sock[s], agent[s])
    /\ UNCHANGED <<talking>>

TwilioStops(s) ==
    /\ sock[s] \in {"open", "closing"} /\ start[s] \in {"fetching", "done"}
    /\ Cleanup(s, "stream_ended", sock[s], agent[s])
    /\ UNCHANGED <<start, talking>>

TwilioErrors(s) ==
    /\ sock[s] = "open"
    /\ Cleanup(s, "stream_error", "closing", agent[s])
    /\ UNCHANGED <<start, talking>>

\* Mutant: the close handler only cleans up once the agent is connected
ClosedWithAgent(s) ==
    IF s \in ref THEN Cleanup(s, "stream_ended", "closed", agent[s])
    ELSE /\ sock' = [sock EXCEPT ![s] = "closed"]
         /\ UNCHANGED <<ctx, active, count, agent, ref, emitted, shown>>

Closed(s) == Cleanup(s, "stream_ended", "closed", agent[s])

TwilioCloses(s) ==
    /\ sock[s] \in {"open", "closing"}
    /\ Closed(s)
    /\ UNCHANGED <<start, talking>>

----------------------------------------------------------------------------
(* The ElevenLabs side                                                     *)

\* The socket opens: the bridge sends the prompt, the conversation begins
AgentOpens(s) ==
    /\ agent[s] = "connecting"
    /\ agent' = [agent EXCEPT ![s] = "open"]
    /\ talking' = talking \cup {s}
    /\ UNCHANGED <<sock, start, ctx, active, count, ref, emitted, shown>>

\* The error event; the close event follows
AgentErrors(s) ==
    /\ agent[s] \in {"connecting", "open"}
    /\ Cleanup(s, "stream_error", sock[s], "closing")
    /\ UNCHANGED <<start, talking>>

AgentCloses(s) ==
    /\ agent[s] \in {"open", "closing"}
    /\ Cleanup(s, "stream_ended", sock[s], "closed")
    /\ talking' = talking \ {s}
    /\ UNCHANGED start

\* uncaughtException, a deployment: both sockets of every stream are lost
Restart ==
    /\ sock' = [s \in Streams |->
                  IF sock[s] \in {"open", "closing"} THEN "lost" ELSE sock[s]]
    /\ start' = [s \in Streams |->
                   IF start[s] = "fetching" THEN "done" ELSE start[s]]
    /\ agent' = [s \in Streams |->
                   IF agent[s] = "none" THEN "none" ELSE "closed"]
    /\ ctx' = {} /\ active' = {} /\ ref' = {} /\ talking' = {}
    /\ count' = [u \in Users |-> 0]
    /\ UNCHANGED <<emitted, shown>>

Callback(s) ==
    \/ TwilioConnects(s) \/ StreamStarts(s) \/ StreamRefused(s)
    \/ AgentFound(s) \/ AgentMissing(s)
    \/ TwilioStops(s) \/ TwilioErrors(s) \/ TwilioCloses(s)
    \/ AgentOpens(s) \/ AgentErrors(s) \/ AgentCloses(s)

Next == Restart \/ \E s \in Streams : Callback(s)

Spec == Init /\ [][Next]_vars

\* Every call ends, and TCP tells the bridge: its websocket is closed
FairSpec == Spec /\ \A s \in Streams : WF_vars(TwilioCloses(s))
----------------------------------------------------------------------------
(* Properties *)

Ended(s) == {i \in DOMAIN emitted[s] : emitted[s][i] \in {"stream_ended", "stream_error"}}

SocketStates == {"none", "open", "closing", "closed", "lost"}

\* Every variable holds values of its domain.
TypeOK ==
    /\ sock \in [Streams -> SocketStates]
    /\ start \in [Streams -> {"none", "refused", "fetching", "done"}]
    /\ ctx \in SUBSET Streams /\ active \in SUBSET Streams
    /\ count \in [Users -> Nat]
    /\ agent \in [Streams -> {"none", "connecting", "open", "closing", "closed"}]
    /\ ref \in SUBSET Streams /\ talking \in SUBSET Streams
    /\ emitted \in [Streams -> Seq({"stream_connected", "ai_session_created",
                                    "stream_ended", "stream_error"})]
    /\ shown \in [Streams -> Seq({"CALL_STARTED", "CALL_ENDED"})]

\* The bridge never holds more streams than its caps allow, in all and for
\* one user, although they are only tested before the await and a slot may
\* be freed by any of seven callbacks (twilioMedia.ts:108-121, 242-268).
CapsHold ==
    /\ Cardinality(active) <= MaxSessions
    /\ \A u \in Users : Cardinality({s \in active : Owner[s] = u}) <= MaxPerUser

\* The books balance: a stream has a slot while it has a session, and the
\* counter of a user, which lives beside the map and is never recomputed,
\* is the number of that user's slots.  A drift would lock the user out.
SlotsBalance ==
    /\ active = ctx
    /\ \A u \in Users : count[u] = Cardinality({s \in active : Owner[s] = u})

\* The backend hears of the end of a stream exactly once: not while the
\* stream has a session, and not twice when stop, close and the agent's
\* close all arrive.  Only a restart of the bridge loses it.
EndReportedOnce ==
    \A s \in Streams :
        /\ s \in ctx => Ended(s) = {}
        /\ start[s] \in {"fetching", "done"} /\ s \notin ctx /\ sock[s] # "lost"
              => Cardinality(Ended(s)) = 1

\* The owner's app is never told that a call started after it was told that
\* the call ended, even when the caller hangs up during the await.
AppSeesOrder ==
    \A s \in Streams : shown[s] \in {<<>>, <<"CALL_STARTED">>, <<"CALL_ENDED">>,
                                     <<"CALL_STARTED", "CALL_ENDED">>}

\* A slot is given back once the call is over, whatever its agent does.
SlotsAreFreed == \A s \in Streams : s \in active ~> s \notin active

Pool == INSTANCE SessionPool WITH
    held <- active,
    released <- {s \in Streams : start[s] \in {"fetching", "done"} /\ s \notin active}

\* The two maps of the process implement the pool of slots: a stream takes a
\* slot once, below both caps, and gives it back once.
PoolSpec == Pool!Spec
=============================================================================
