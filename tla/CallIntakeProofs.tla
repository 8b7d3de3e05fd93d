-------------------------- MODULE CallIntakeProofs --------------------------
(***************************************************************************)
(* The safety invariants of CallIntake for every set of calls and every    *)
(* number of overlapping requests.  The argument has three layers: the     *)
(* types and what each request aims at; the event log and the end of a     *)
(* call; the links between sessions, conversations and artifacts.          *)
(***************************************************************************)
EXTENDS SerialIntake, TLAPS

\* Facts about the status tables

\* map_twilio_status yields a call state for every status Twilio reports.
LEMMA MapIsCallState ==
    \A p \in ProviderStatus : MapTwilioStatus[p] \in CallStates
BY DEF MapTwilioStatus, CallStates, TerminalStates, ProviderStatus

\* A final status is never refused: every state may move to an end
\* (is_valid_transition).
LEMMA EndIsAlwaysValid ==
    \A s \in CallStates, p \in ProviderStatus :
        IsFinal(p) => IsValidTransition(s, MapTwilioStatus[p])
<1>1. \A s \in CallStates : StateOrder[s] <= 10
    BY DEF StateOrder, CallStates, TerminalStates
<1>2. \A s \in TerminalStates : s \in CallStates /\ StateOrder[s] = 10
    BY DEF StateOrder, CallStates, TerminalStates
<1>3. \A s \in CallStates : StateOrder[s] \in Int
    BY DEF StateOrder, CallStates, TerminalStates
<1> QED
    BY <1>1, <1>2, <1>3 DEF IsFinal, IsValidTransition

----------------------------------------------------------------------------
(* Layer 1: types *)

TypeInv == TypeOK /\ RequestsAim

LEMMA FreshType == \A c \in Convs : Fresh(c) \in Locals
BY DEF Fresh, Locals, Convs, SessionStates

LEMMA TypeInit == Init => TypeInv
<1> SUFFICES ASSUME Init PROVE TypeInv
    OBVIOUS
<1>1. loc \in [Reqs -> Locals]
    BY FreshType DEF Init, Convs
<1> QED
    BY <1>1 DEF Init, TypeInv, TypeOK, RequestsAim, Convs, SessionStates,
                CallStates, StatusPhases

\* A field of a request's local state may be replaced by another of its type.
LEMMA FieldType ==
    ASSUME NEW x \in Locals
    PROVE  /\ \A v \in ProviderStatus \cup BridgeEvents \cup {"none"} :
                [x EXCEPT !.arg = v] \in Locals
           /\ \A v \in BOOLEAN : [x EXCEPT !.dur = v] \in Locals
           /\ \A v \in Convs : [x EXCEPT !.conv = v] \in Locals
           /\ \A v \in CallStates \cup {"none"} : [x EXCEPT !.status = v] \in Locals
           /\ \A v \in BOOLEAN : [x EXCEPT !.apply = v] \in Locals
           /\ \A v \in SessionStates : [x EXCEPT !.sess = v] \in Locals
           /\ \A v \in Convs : [x EXCEPT !.sconv = v] \in Locals
           /\ \A v \in BOOLEAN : [x EXCEPT !.art = v] \in Locals
BY DEF Locals

\* What a request is sent or reads keeps its slot well typed.
LEMMA LocType ==
    ASSUME loc \in [Reqs -> Locals], NEW r \in Reqs, NEW x \in Locals,
           loc' = [loc EXCEPT ![r] = x]
    PROVE  loc' \in [Reqs -> Locals]
OBVIOUS

ArtifactType == [st: {"none", "pending", "processing"}, ref: Convs]

\* trigger_post_call_processing leaves a well-typed artifact.
LEMMA TriggerType ==
    ASSUME artifact \in [Sids -> ArtifactType],
           NEW c \in Sids, NEW conv \in Convs, NEW known \in BOOLEAN,
           Trigger(c, conv, known)
    PROVE  artifact' \in [Sids -> ArtifactType]
<1>1. [st |-> IF artifact[c].st = "pending" THEN "processing" ELSE artifact[c].st,
       ref |-> artifact[c].ref] \in ArtifactType
    BY DEF ArtifactType
<1>2. [st |-> "processing", ref |-> conv] \in ArtifactType
    BY DEF ArtifactType
<1> QED
    BY <1>1, <1>2 DEF Trigger

\* A status handler writes its own event to the log, or nothing.
LEMMA StatusLogs ==
    ASSUME NEW r \in Reqs, StatusCommit(r)
    PROVE  \/ events' = [events EXCEPT ![loc[r].sid] = @ \cup {Update(loc[r].arg)}]
           \/ events' = events
BY DEF StatusCommit

\* Every action keeps the types; the request's aim tells which row it writes.
LEMMA TypeStep == TypeInv /\ [Next]_vars => TypeOK'
<1> SUFFICES ASSUME TypeInv, [Next]_vars PROVE TypeOK'
    OBVIOUS
<1> USE DEF TypeInv, TypeOK
<1>1. ASSUME NEW c \in Sids, NEW p \in Reports, TwilioReport(c, p) PROVE TypeOK'
    BY <1>1, ReportsAssumption DEF TwilioReport, rows
<1>2. ASSUME NEW c \in Sids, TalkStarts(c) PROVE TypeOK'
    BY <1>2 DEF TalkStarts, rows
<1>3. ASSUME NEW c \in Sids, PatchCall(c) PROVE TypeOK'
    BY <1>3 DEF PatchCall, provider, Convs
<1>4. ASSUME NEW r \in Reqs, NEW c \in Sids, InboundLoad(r, c) PROVE TypeOK'
  <2>1. [Fresh(c) EXCEPT !.status = callStatus[c]] \in Locals
    <3>1. Fresh(c) \in Locals
      BY FreshType DEF Convs
    <3> QED
      BY <3>1, FieldType
  <2>2. loc' \in [Reqs -> Locals]
    BY <1>4, <2>1, LocType DEF InboundLoad
  <2> QED
    BY <1>4, <2>2 DEF InboundLoad, provider, rows
<1>5. ASSUME NEW r \in Reqs, InboundCommit(r) PROVE TypeOK'
  <2>1. loc[r].sid \in Sids
    BY <1>5 DEF InboundCommit, RequestsAim
  <2>2. callStatus' \in [Sids -> CallStates \cup {"none"}]
    BY <1>5, <2>1 DEF InboundCommit, CallStates
  <2>3. InboundEvents \in SUBSET EventKeys
    BY DEF InboundEvents, EventKeys
  <2>4. events' \in [Sids -> SUBSET EventKeys]
    BY <1>5, <2>1, <2>3, SMTT(30) DEF InboundCommit
  <2>5. loc' \in [Reqs -> Locals]
    BY <1>5, <2>1, FreshType, LocType DEF InboundCommit, Finish, Convs
  <2> QED
    BY <1>5, <2>2, <2>4, <2>5 DEF InboundCommit, Finish, provider
<1>6. ASSUME NEW r \in Reqs, InboundBlocked(r) PROVE TypeOK'
  <2> DEFINE c == loc[r].sid
  <2>1. callStatus' \in [Sids -> CallStates \cup {"none"}]
    BY <1>6 DEF InboundBlocked, Locals, CallStates, TerminalStates
  <2>2. events' \in [Sids -> SUBSET EventKeys]
    BY <1>6 DEF InboundBlocked, EventKeys
  <2> QED
    BY <1>6, <2>1, <2>2, FreshType DEF InboundBlocked, Finish, provider, Convs
<1>7. ASSUME NEW r \in Reqs, SessionLoad(r) PROVE TypeOK'
  <2>1. loc[r].sid \in Sids
    BY <1>7 DEF SessionLoad, RequestsAim
  <2>2. [loc[r] EXCEPT !.sess = session[loc[r].sid].st] \in Locals
    BY <2>1, ZenonT(60) DEF Locals
  <2>3. loc' \in [Reqs -> Locals]
    BY <1>7, <2>2, LocType DEF SessionLoad
  <2> QED
    BY <1>7, <2>3 DEF SessionLoad, provider, rows
<1>8. ASSUME NEW r \in Reqs, SessionCommit(r) PROVE TypeOK'
  <2>1. loc[r].sid \in Sids
    BY <1>8 DEF SessionCommit, RequestsAim
  <2>2. session' \in [Sids -> [st: SessionStates, conv: Convs]]
    <3>1. \A x \in [st: SessionStates, conv: Convs] :
            [session EXCEPT ![loc[r].sid] = x] \in [Sids -> [st: SessionStates, conv: Convs]]
      BY <2>1
    <3>2. [st |-> "connected", conv |-> NoSid] \in [st: SessionStates, conv: Convs]
      BY DEF SessionStates, Convs
    <3>3. [st |-> IF loc[r].sess = "connected" THEN session[loc[r].sid].st
                  ELSE "connected", conv |-> session[loc[r].sid].conv]
            \in [st: SessionStates, conv: Convs]
      BY <2>1 DEF SessionStates
    <3> QED
      BY <1>8, <3>1, <3>2, <3>3, ZenonT(60) DEF SessionCommit, CreateAiSession
  <2>3. opened' \in Seq(Sids)
    <3>1. Append(opened, loc[r].sid) \in Seq(Sids)
      BY <2>1
    <3> QED
      BY <1>8, <3>1 DEF SessionCommit, CreateAiSession
  <2> QED
    BY <1>8, <2>2, <2>3, FreshType DEF SessionCommit, Finish, provider, Convs
<1>9. ASSUME NEW r \in Reqs, NEW c \in Sids, NEW p \in Reports, NEW d \in BOOLEAN,
             StatusLoad(r, c, p, d) PROVE TypeOK'
  <2>1. [Fresh(c) EXCEPT !.arg = p, !.dur = d, !.status = callStatus[c]] \in Locals
    <3>1. Fresh(c) \in Locals /\ p \in ProviderStatus
      BY FreshType, ReportsAssumption DEF Convs
    <3>2. [Fresh(c) EXCEPT !.arg = p] \in Locals
      BY <3>1, FieldType
    <3>3. [Fresh(c) EXCEPT !.arg = p, !.dur = d] \in Locals
      BY <3>2, FieldType
    <3> QED
      BY <3>3, FieldType
  <2>2. loc' \in [Reqs -> Locals]
    BY <1>9, <2>1, LocType DEF StatusLoad
  <2> QED
    BY <1>9, <2>2 DEF StatusLoad, provider, rows
<1>10. ASSUME NEW r \in Reqs, StatusCheck(r) PROVE TypeOK'
  <2>1. loc[r].sid \in Sids
    BY <1>10 DEF StatusCheck, RequestsAim
  <2> DEFINE ok == /\ IsValidTransition(loc[r].status, MapTwilioStatus[loc[r].arg])
                   /\ ~Seen(loc[r].sid, loc[r].arg)
  <2>2. ok \in BOOLEAN
    OBVIOUS
  <2> DEFINE sess == IF loc[r].dur THEN session[loc[r].sid]
                     ELSE [st |-> "none", conv |-> NoSid]
             x == [loc[r] EXCEPT !.apply = ok, !.sess = sess.st, !.sconv = sess.conv]
  <2>3. loc' = [loc EXCEPT ![r] = x]
    BY <1>10 DEF StatusCheck
  <2>6. sess.st \in SessionStates /\ sess.conv \in Convs
    BY <2>1 DEF SessionStates, Convs
  <2> HIDE DEF ok, sess
  <2>4. x \in Locals
    <3>1. [loc[r] EXCEPT !.apply = ok] \in Locals
      BY <2>2, FieldType
    <3>2. [loc[r] EXCEPT !.apply = ok, !.sess = sess.st] \in Locals
      BY <2>6, <3>1, FieldType
    <3> QED
      BY <2>6, <3>2, FieldType
  <2>5. loc' \in [Reqs -> Locals]
    BY <2>3, <2>4, LocType
  <2> QED
    BY <1>10, <2>5 DEF StatusCheck, provider, rows
<1>11. ASSUME NEW r \in Reqs, StatusLookup(r) PROVE TypeOK'
  <2>1. \A i \in DOMAIN talks : talks[i] \in Sids
    OBVIOUS
  <2>2. talks # <<>> => talks[Len(talks)] \in Sids
    BY <2>1
  <2>3. PICK conv \in Convs, b \in BOOLEAN :
          loc' = [loc EXCEPT ![r] = [@ EXCEPT
             !.conv = IF loc[r].sess # "none" /\ loc[r].sconv = NoSid
                      THEN conv ELSE NoSid,
             !.art = b]]
    BY <1>11, <2>2 DEF StatusLookup, Convs
  <2>5. [loc[r] EXCEPT !.conv = IF loc[r].sess # "none" /\ loc[r].sconv = NoSid
                                THEN conv ELSE NoSid, !.art = b] \in Locals
    <3> DEFINE v == IF loc[r].sess # "none" /\ loc[r].sconv = NoSid
                    THEN conv ELSE NoSid
    <3>1. [loc[r] EXCEPT !.conv = v] \in Locals
      BY FieldType DEF Convs
    <3> QED
      BY <3>1, FieldType
  <2>4. loc' \in [Reqs -> Locals]
    BY <2>3, <2>5, LocType
  <2> QED
    BY <1>11, <2>4 DEF StatusLookup, provider, rows
<1>12. ASSUME NEW r \in Reqs, StatusCommit(r) PROVE TypeOK'
  <2>1. /\ loc[r].sid \in Sids
        /\ loc[r].arg \in ProviderStatus
        /\ loc[r].conv \in Convs /\ loc[r].sconv \in Convs
    BY <1>12 DEF StatusCommit, RequestsAim, StatusPhases, Locals
  <2>2. events' \in [Sids -> SUBSET EventKeys]
    <3>1. Update(loc[r].arg) \in EventKeys
      BY <2>1 DEF Update, EventKeys
    <3>2. \/ events' = [events EXCEPT ![loc[r].sid] = @ \cup {Update(loc[r].arg)}]
          \/ events' = events
      BY <1>12, StatusLogs
    <3>3. events \in [Sids -> SUBSET EventKeys]
      OBVIOUS
    <3> DEFINE c == loc[r].sid
               e == Update(loc[r].arg)
    <3>4. events[c] \cup {e} \in SUBSET EventKeys
      BY <2>1, <3>1, <3>3
    <3> HIDE DEF c, e
    <3> QED
      BY <2>1, <3>2, <3>3, <3>4 DEF c, e
  <2>3. callStatus' \in [Sids -> CallStates \cup {"none"}]
    BY <1>12, <2>1, MapIsCallState DEF StatusCommit
  <2>4. session' \in [Sids -> [st: SessionStates, conv: Convs]]
    BY <1>12, <2>1 DEF StatusCommit, SessionStates
  <2>5. artifact' \in [Sids -> [st: {"none", "pending", "processing"}, ref: Convs]]
    <3>1. loc[r].art \in BOOLEAN
      BY DEF Locals
    <3> QED
      BY <1>12, <2>1, <3>1, TriggerType DEF StatusCommit, ArtifactType
  <2>6. ended' \in SUBSET Sids /\ acked' \in [Sids -> SUBSET ProviderStatus]
    BY <1>12, <2>1 DEF StatusCommit
  <2> QED
    BY <1>12, <2>2, <2>3, <2>4, <2>5, <2>6, FreshType
    DEF StatusCommit, Finish, provider, Convs
<1>13. ASSUME NEW r \in Reqs, NEW k \in Sids, ConvLoad(r, k) PROVE TypeOK'
  <2>1. PICK c \in Sids, b \in BOOLEAN :
          loc' = [loc EXCEPT ![r] =
                    [Fresh(c) EXCEPT !.conv = k, !.sconv = session[c].conv, !.art = b]]
    <3>1. Linked(k) \subseteq Sids /\ NewestUnlinked \subseteq Sids
      BY DEF Linked, NewestUnlinked
    <3>2. PICK c \in Sids : loc' = [loc EXCEPT ![r] = [Fresh(c) EXCEPT
            !.conv = k, !.sconv = session[c].conv, !.art = artifact[c].st # "none"]]
      BY <1>13, <3>1 DEF ConvLoad
    <3> QED
      BY <3>2
  <2>2. loc' \in [Reqs -> Locals]
    <3>1. [Fresh(c) EXCEPT !.conv = k, !.sconv = session[c].conv, !.art = b] \in Locals
      <4>1. Fresh(c) \in Locals /\ k \in Convs
        BY FreshType DEF Convs
      <4>2. [Fresh(c) EXCEPT !.conv = k] \in Locals
        BY <4>1, FieldType
      <4>3. [Fresh(c) EXCEPT !.conv = k, !.sconv = session[c].conv] \in Locals
        BY <4>2, FieldType
      <4> QED
        BY <4>3, FieldType
    <3> QED
      BY <2>1, <3>1, LocType
  <2> QED
    BY <1>13, <2>2 DEF ConvLoad, provider, rows
<1>14. ASSUME NEW r \in Reqs, ConvCommit(r) PROVE TypeOK'
  <2>1. loc[r].sid \in Sids /\ loc[r].conv \in Convs
    BY <1>14 DEF ConvCommit, RequestsAim, Locals
  <2>2. session' \in [Sids -> [st: SessionStates, conv: Convs]]
    BY <1>14, <2>1 DEF ConvCommit
  <2>3. artifact' \in [Sids -> [st: {"none", "pending", "processing"}, ref: Convs]]
    <3>1. loc[r].art \in BOOLEAN
      BY DEF Locals
    <3> QED
      BY <1>14, <2>1, <3>1, TriggerType DEF ConvCommit, ArtifactType
  <2> QED
    BY <1>14, <2>2, <2>3, FreshType DEF ConvCommit, Finish, provider, Convs
<1>15. ASSUME NEW r \in Reqs, NEW c \in Sids, NEW e \in BridgeEvents,
              NEW conv \in Convs, BridgeLoad(r, c, e, conv) PROVE TypeOK'
  <2> DEFINE known == e = "stream_ended" /\ artifact[c].st # "none"
  <2>1. loc' = [loc EXCEPT ![r] = [Fresh(c) EXCEPT
                  !.arg = e, !.conv = conv, !.sess = session[c].st,
                  !.sconv = session[c].conv, !.art = known]]
    BY <1>15 DEF BridgeLoad
  <2>2. known \in BOOLEAN
    OBVIOUS
  <2> HIDE DEF known
  <2>3. loc' \in [Reqs -> Locals]
    BY <2>1, <2>2 DEF Locals, Fresh, Convs
  <2> QED
    BY <1>15, <2>3 DEF BridgeLoad, provider, rows
<1>16. ASSUME NEW r \in Reqs, BridgeCommit(r) PROVE TypeOK'
  <2>1. /\ loc[r].sid \in Sids /\ loc[r].conv \in Convs
        /\ loc[r].arg \in BridgeEvents
    BY <1>16 DEF BridgeCommit, RequestsAim, Locals
  <2>2. BridgeStatus[loc[r].arg] \in SessionStates
    BY <2>1 DEF BridgeStatus, SessionStates
  <2>3. session' \in [Sids -> [st: SessionStates, conv: Convs]]
    BY <1>16, <2>1, <2>2 DEF BridgeCommit
  <2>4. artifact' \in [Sids -> [st: {"none", "pending", "processing"}, ref: Convs]]
    <3>1. loc[r].art \in BOOLEAN
      BY DEF Locals
    <3> QED
      BY <1>16, <2>1, <3>1, TriggerType DEF BridgeCommit, ArtifactType
  <2> QED
    BY <1>16, <2>3, <2>4, FreshType DEF BridgeCommit, Finish, provider, Convs
<1>17. ASSUME NEW r \in Reqs, Rollback(r) PROVE TypeOK'
    BY <1>17, FreshType DEF Rollback, Finish, provider, rows, Convs
<1>18. CASE UNCHANGED vars
    BY <1>18 DEF vars, provider, rows
<1> QED
    BY <1>1, <1>2, <1>3, <1>4, <1>5, <1>6, <1>7, <1>8, <1>9, <1>10, <1>11,
       <1>12, <1>13, <1>14, <1>15, <1>16, <1>17, <1>18
    DEF Next, Arrive, Step

\* A request keeps the call and the arguments it was sent with.
LEMMA AimStep == TypeInv /\ [Next]_vars => RequestsAim'
<1> SUFFICES ASSUME TypeInv, [Next]_vars PROVE RequestsAim'
    OBVIOUS
<1> USE DEF TypeInv, TypeOK, RequestsAim, StatusPhases
<1>1. ASSUME NEW r \in Reqs, Finish(r) PROVE RequestsAim'
    BY <1>1 DEF Finish
<1>2. ASSUME UNCHANGED <<pc, loc>> PROVE RequestsAim'
    BY <1>2
<1>3. ASSUME NEW r \in Reqs, NEW c \in Sids, InboundLoad(r, c) PROVE RequestsAim'
    BY <1>3 DEF InboundLoad, Fresh
<1>4. ASSUME NEW r \in Reqs, InboundCommit(r) PROVE RequestsAim'
  <2>1. loc[r].sid \in Sids
    BY <1>4 DEF InboundCommit
  <2>2. CASE Finish(r)
    BY <1>1, <2>2
  <2>3. CASE pc' = [pc EXCEPT ![r] = "screen"] /\ loc' = [loc EXCEPT ![r] = Fresh(loc[r].sid)]
    BY <2>1, <2>3 DEF Fresh
  <2> QED
    BY <1>4, <2>2, <2>3 DEF InboundCommit
<1>5. ASSUME NEW r \in Reqs, SessionLoad(r) PROVE RequestsAim'
    BY <1>5 DEF SessionLoad, Locals
<1>6. ASSUME NEW r \in Reqs, NEW c \in Sids, NEW p \in Reports, NEW d \in BOOLEAN,
             StatusLoad(r, c, p, d) PROVE RequestsAim'
    BY <1>6, ReportsAssumption DEF StatusLoad, Fresh, CallStates
<1>7. ASSUME NEW r \in Reqs, StatusCheck(r) PROVE RequestsAim'
    BY <1>7 DEF StatusCheck, Locals
<1>8. ASSUME NEW r \in Reqs, StatusLookup(r) PROVE RequestsAim'
    BY <1>8 DEF StatusLookup, Locals
<1>9. ASSUME NEW r \in Reqs, NEW k \in Sids, ConvLoad(r, k) PROVE RequestsAim'
  <2>1. Linked(k) \subseteq Sids /\ NewestUnlinked \subseteq Sids
    BY DEF Linked, NewestUnlinked
  <2> QED
    BY <1>9, <2>1 DEF ConvLoad, Fresh
<1>10. ASSUME NEW r \in Reqs, NEW c \in Sids, NEW e \in BridgeEvents,
              NEW conv \in Convs, BridgeLoad(r, c, e, conv) PROVE RequestsAim'
    BY <1>10 DEF BridgeLoad, Fresh
<1>11. ASSUME NEW r \in Reqs, Step(r) PROVE RequestsAim'
    BY <1>1, <1>4, <1>5, <1>7, <1>8, <1>11
    DEF Step, InboundBlocked, SessionCommit, StatusCommit, ConvCommit,
        BridgeCommit, Rollback
<1>12. ASSUME NEW r \in Reqs, Arrive(r) PROVE RequestsAim'
    BY <1>3, <1>6, <1>9, <1>10, <1>12 DEF Arrive
<1> QED
    BY <1>2, <1>11, <1>12 DEF Next, TwilioReport, TalkStarts, PatchCall, vars

\* Every variable keeps its type, whatever requests overlap.
THEOREM TypeCorrect == Spec => []TypeOK
<1>1. TypeInv /\ [Next]_vars => TypeInv'
    BY TypeStep, AimStep DEF TypeInv
<1>2. Spec => []TypeInv
    BY <1>1, TypeInit, PTL DEF Spec
<1>3. TypeInv => TypeOK
    BY DEF TypeInv
<1> QED
    BY <1>2, <1>3, PTL

----------------------------------------------------------------------------
(* Layer 2: the event log and the end of a call.  A handler that skipped   *)
(* the transition to an end did so because the end was logged, since no    *)
(* state refuses an end; and events are only added.                        *)

LogInv == EndedMatchesLog /\ AckedEndIsRecorded /\ SkippedEndIsLogged

LEMMA LogInit == Init => LogInv
BY DEF Init, LogInv, EndedMatchesLog, AckedEndIsRecorded, SkippedEndIsLogged, Fresh

\* The log of a call only grows.
LEMMA EventsGrow ==
    TypeInv /\ [Next]_vars => \A c \in Sids : events[c] \subseteq events'[c]
<1> SUFFICES ASSUME TypeInv, [Next]_vars
             PROVE  \A c \in Sids : events[c] \subseteq events'[c]
    OBVIOUS
<1> USE DEF TypeInv, TypeOK
<1>1. ASSUME NEW r \in Reqs, NEW c \in Sids, NEW s,
             events' = [events EXCEPT ![c] = events[c] \cup s]
      PROVE  \A k \in Sids : events[k] \subseteq events'[k]
    BY <1>1
<1>2. ASSUME NEW r \in Reqs, InboundCommit(r)
      PROVE  \A k \in Sids : events[k] \subseteq events'[k]
    BY <1>2 DEF InboundCommit
<1>3. ASSUME NEW r \in Reqs, InboundBlocked(r)
      PROVE  \A k \in Sids : events[k] \subseteq events'[k]
    BY <1>3 DEF InboundBlocked
<1>4. ASSUME NEW r \in Reqs, StatusCommit(r)
      PROVE  \A k \in Sids : events[k] \subseteq events'[k]
  <2>1. \/ events' = [events EXCEPT ![loc[r].sid] = @ \cup {Update(loc[r].arg)}]
        \/ events' = events
    BY <1>4, StatusLogs
  <2> QED
    BY <2>1, SMTT(30)
<1>5. CASE UNCHANGED events
    BY <1>5
<1>6. ASSUME NEW r \in Reqs, Arrive(r) PROVE UNCHANGED events
    BY <1>6 DEF Arrive, InboundLoad, StatusLoad, ConvLoad, BridgeLoad, rows
<1>7. ASSUME NEW r \in Reqs, Step(r)
      PROVE  \/ UNCHANGED events
             \/ InboundCommit(r) \/ InboundBlocked(r) \/ StatusCommit(r)
    BY <1>7 DEF Step, SessionLoad, SessionCommit, StatusCheck, StatusLookup,
                ConvCommit, BridgeCommit, Rollback, rows
<1> QED
    BY <1>2, <1>3, <1>4, <1>5, <1>6, <1>7
    DEF Next, TwilioReport, TalkStarts, PatchCall, rows, vars

LEMMA LogStep == TypeInv /\ LogInv /\ [Next]_vars => LogInv'
<1> SUFFICES ASSUME TypeInv, LogInv, [Next]_vars PROVE LogInv'
    OBVIOUS
<1>1. \A c \in Sids : events[c] \subseteq events'[c]
    BY EventsGrow
\* the actions that write neither the log, nor ended_at, nor an answer
<1>2. ASSUME UNCHANGED <<ended, events, acked>>
      PROVE  EndedMatchesLog' /\ AckedEndIsRecorded'
    BY <1>2 DEF LogInv, EndedMatchesLog, AckedEndIsRecorded
<1>3. ASSUME NEW r \in Reqs, Finish(r) PROVE SkippedEndIsLogged'
    BY <1>1, <1>3 DEF Finish, LogInv, SkippedEndIsLogged, TypeInv, TypeOK, RequestsAim
<1>4. ASSUME UNCHANGED <<pc, loc>> PROVE SkippedEndIsLogged'
    BY <1>1, <1>4 DEF LogInv, SkippedEndIsLogged, TypeInv, RequestsAim
<1>5. ASSUME NEW r \in Reqs, NEW s \in {"inbound", "screen", "connect", "check",
                                        "conv", "bridge"},
             NEW x, loc' = [loc EXCEPT ![r] = x], pc' = [pc EXCEPT ![r] = s]
      PROVE  SkippedEndIsLogged'
    BY <1>1, <1>5 DEF LogInv, SkippedEndIsLogged, TypeInv, TypeOK, RequestsAim
<1>6. ASSUME NEW r \in Reqs, StatusCheck(r) PROVE SkippedEndIsLogged'
  <2> DEFINE c == loc[r].sid
             p == loc[r].arg
  <2>1. loc[r] \in Locals /\ c \in Sids /\ p \in ProviderStatus
        /\ loc[r].status \in CallStates
    BY <1>6 DEF StatusCheck, TypeInv, TypeOK, RequestsAim, StatusPhases
  <2>2. IsFinal(p) => IsValidTransition(loc[r].status, MapTwilioStatus[p])
    BY <2>1, EndIsAlwaysValid
  <2>3. loc'[r].sid = c /\ loc'[r].arg = p
        /\ loc'[r].apply = (IsValidTransition(loc[r].status, MapTwilioStatus[p])
                            /\ ~Seen(c, p))
    BY <1>6, <2>1 DEF StatusCheck, TypeInv, TypeOK, Locals
  <2>4. ~loc'[r].apply /\ IsFinal(p) => Update(p) \in events'[c]
    BY <1>1, <2>1, <2>2, <2>3 DEF Seen
  <2>5. \A q \in Reqs \ {r} : loc'[q] = loc[q] /\ pc'[q] = pc[q]
    BY <1>6 DEF StatusCheck, TypeInv, TypeOK
  <2> QED
    BY <1>1, <2>3, <2>4, <2>5 DEF LogInv, SkippedEndIsLogged, TypeInv, RequestsAim
<1>7. ASSUME NEW r \in Reqs, StatusLookup(r) PROVE SkippedEndIsLogged'
  <2>1. loc'[r].sid = loc[r].sid /\ loc'[r].arg = loc[r].arg
        /\ loc'[r].apply = loc[r].apply /\ pc[r] = "lookup"
    BY <1>7 DEF StatusLookup, TypeInv, TypeOK, Locals
  <2>2. \A q \in Reqs \ {r} : loc'[q] = loc[q] /\ pc'[q] = pc[q]
    BY <1>7 DEF StatusLookup, TypeInv, TypeOK
  <2> QED
    BY <1>1, <2>1, <2>2 DEF LogInv, SkippedEndIsLogged, TypeInv, RequestsAim
<1>8. ASSUME NEW r \in Reqs, StatusCommit(r) PROVE LogInv'
  <2> DEFINE c == loc[r].sid
             p == loc[r].arg
  <2>1. c \in Sids /\ p \in ProviderStatus /\ pc[r] = "settle"
    BY <1>8 DEF StatusCommit, TypeInv, RequestsAim, StatusPhases
  <2>2. ASSUME loc[r].apply PROVE EndedMatchesLog'
    <3>1. events' = [events EXCEPT ![c] = @ \cup {Update(p)}]
          /\ ended' = IF IsFinal(p) THEN ended \cup {c} ELSE ended
      BY <1>8, <2>2 DEF StatusCommit, SetsEndedAt
    <3>2. \A q \in ProviderStatus : Update(q) = Update(p) => q = p
      BY DEF Update
    <3>3. \A k \in Sids, q \in ProviderStatus :
            Update(q) \in events'[k] <=> Update(q) \in events[k] \/ (k = c /\ q = p)
      BY <2>1, <3>1, <3>2 DEF TypeInv, TypeOK
    <3>4. \A k \in Sids : k \in ended' <=> k \in ended \/ (k = c /\ IsFinal(p))
      BY <2>1, <3>1
    <3> HIDE DEF c, p
    <3> QED
      BY <2>1, <3>3, <3>4 DEF LogInv, EndedMatchesLog
  <2>3. ASSUME ~loc[r].apply PROVE EndedMatchesLog'
    <3>1. events' = events /\ ended' = ended
      BY <1>8, <2>3 DEF StatusCommit
    <3> QED
      BY <3>1 DEF LogInv, EndedMatchesLog
  <2>4. EndedMatchesLog'
    BY <2>2, <2>3
  <2>5. IsFinal(p) => Update(p) \in events'[c]
    BY <1>1, <1>8, <2>1 DEF StatusCommit, LogInv, SkippedEndIsLogged, TypeInv, TypeOK
  <2>6. acked' = IF IsFinal(p) THEN [acked EXCEPT ![c] = @ \cup {p}] ELSE acked
    BY <1>8 DEF StatusCommit
  <2>7. AckedEndIsRecorded'
    BY <1>1, <2>1, <2>4, <2>5, <2>6
    DEF LogInv, AckedEndIsRecorded, EndedMatchesLog, TypeInv, TypeOK
  <2> QED
    BY <1>3, <1>8, <2>4, <2>7 DEF StatusCommit, LogInv
<1>9. ASSUME NEW r \in Reqs, InboundCommit(r) PROVE LogInv'
  <2>1. loc[r].sid \in Sids
    BY <1>9 DEF InboundCommit, TypeInv, RequestsAim
  <2>2. \A q \in ProviderStatus : Update(q) \notin InboundEvents
    BY DEF Update, InboundEvents
  <2>3. \A c \in Sids, q \in ProviderStatus :
          Update(q) \in events'[c] <=> Update(q) \in events[c]
    <3>1. \/ events' = [events EXCEPT ![loc[r].sid] = @ \cup InboundEvents]
          \/ events' = events
      BY <1>9 DEF InboundCommit
    <3> QED
      BY <2>1, <2>2, <3>1 DEF TypeInv, TypeOK
  <2>4. EndedMatchesLog' /\ AckedEndIsRecorded'
    BY <1>9, <2>3 DEF InboundCommit, LogInv, EndedMatchesLog, AckedEndIsRecorded,
                      TypeInv, TypeOK
  <2>5. CASE Finish(r)
    BY <1>3, <2>4, <2>5 DEF LogInv
  <2>6. CASE pc' = [pc EXCEPT ![r] = "screen"] /\ loc' = [loc EXCEPT ![r] = Fresh(loc[r].sid)]
    BY <1>1, <2>4, <2>6 DEF LogInv, SkippedEndIsLogged, TypeInv, TypeOK, RequestsAim
  <2> QED
    BY <1>9, <2>5, <2>6 DEF InboundCommit
<1>10. ASSUME NEW r \in Reqs, InboundBlocked(r) PROVE LogInv'
  <2>1. loc[r].sid \in Sids
    BY <1>10 DEF InboundBlocked, TypeInv, RequestsAim
  <2>2. \A q \in ProviderStatus : Update(q) # <<"call_blocked", "blocked">>
    BY DEF Update
  <2>3. \A c \in Sids, q \in ProviderStatus :
          Update(q) \in events'[c] <=> Update(q) \in events[c]
    BY <1>10, <2>1, <2>2 DEF InboundBlocked, TypeInv, TypeOK
  <2>4. EndedMatchesLog' /\ AckedEndIsRecorded'
    BY <1>10, <2>3 DEF InboundBlocked, LogInv, EndedMatchesLog,
                       AckedEndIsRecorded, TypeInv, TypeOK
  <2> QED
    BY <1>3, <1>10, <2>4 DEF InboundBlocked, LogInv
<1>11. ASSUME NEW r \in Reqs, Step(r) PROVE LogInv'
  <2>1. CASE StatusCheck(r)
    BY <1>2, <1>6, <2>1 DEF StatusCheck, rows, LogInv
  <2>2. CASE StatusLookup(r)
    BY <1>2, <1>7, <2>2 DEF StatusLookup, rows, LogInv
  <2>3. CASE SessionLoad(r)
    BY <1>2, <1>5, <2>3 DEF SessionLoad, rows, LogInv
  <2>4. CASE SessionCommit(r) \/ ConvCommit(r) \/ BridgeCommit(r) \/ Rollback(r)
    BY <1>2, <1>3, <2>4
    DEF SessionCommit, ConvCommit, BridgeCommit, Rollback, rows, LogInv
  <2> QED
    BY <1>8, <1>9, <1>10, <1>11, <2>1, <2>2, <2>3, <2>4 DEF Step
<1>12. ASSUME NEW r \in Reqs, Arrive(r) PROVE LogInv'
  <2>1. UNCHANGED <<ended, events, acked>>
    BY <1>12 DEF Arrive, InboundLoad, StatusLoad, ConvLoad, BridgeLoad, rows
  <2>2. ASSUME NEW c \in Sids, InboundLoad(r, c) PROVE SkippedEndIsLogged'
    BY <1>5, <2>2 DEF InboundLoad
  <2>3. ASSUME NEW c \in Sids, NEW p \in Reports, NEW d \in BOOLEAN,
               StatusLoad(r, c, p, d) PROVE SkippedEndIsLogged'
    BY <1>5, <2>3 DEF StatusLoad
  <2>4. ASSUME NEW k \in Sids, ConvLoad(r, k) PROVE SkippedEndIsLogged'
    BY <1>5, <2>4 DEF ConvLoad
  <2>5. ASSUME NEW c \in Sids, NEW e \in BridgeEvents, NEW conv \in Convs,
               BridgeLoad(r, c, e, conv) PROVE SkippedEndIsLogged'
    BY <1>5, <2>5 DEF BridgeLoad
  <2> QED
    BY <1>2, <1>12, <2>1, <2>2, <2>3, <2>4, <2>5 DEF Arrive, LogInv
<1> QED
    BY <1>2, <1>4, <1>11, <1>12
    DEF Next, TwilioReport, TalkStarts, PatchCall, rows, vars, LogInv

\* The end of a call is never lost once Twilio was answered for it.
THEOREM EndsAreKept == Spec => []AckedEndIsRecorded
<1>1. TypeInv /\ LogInv /\ [Next]_vars => (TypeInv /\ LogInv)'
    BY TypeStep, AimStep, LogStep DEF TypeInv
<1>2. Init => TypeInv /\ LogInv
    BY TypeInit, LogInit
<1>3. TypeInv /\ LogInv => AckedEndIsRecorded
    BY DEF LogInv
<1> QED
    BY <1>1, <1>2, <1>3, PTL DEF Spec

\* ended_at and the event log agree.
THEOREM EndsMatchTheLog == Spec => []EndedMatchesLog
<1>1. TypeInv /\ LogInv /\ [Next]_vars => (TypeInv /\ LogInv)'
    BY TypeStep, AimStep, LogStep DEF TypeInv
<1>2. Init => TypeInv /\ LogInv
    BY TypeInit, LogInit
<1>3. TypeInv /\ LogInv => EndedMatchesLog
    BY DEF LogInv
<1> QED
    BY <1>1, <1>2, <1>3, PTL DEF Spec

----------------------------------------------------------------------------
(* Layer 3: sessions, conversations and artifacts.  A session's link is    *)
(* never removed, so what a request saw linked still is when it commits.   *)

LinkInv == LinksLast /\ ArtifactRefIsLinked

LEMMA LinkInit == Init => LinkInv
BY DEF Init, LinkInv, LinksLast, SeenSession, FoundSession, ArtifactRefIsLinked, Fresh

\* What no step may do to the sessions.
LinksGrow == \A c \in Sids :
    /\ session[c].conv # NoSid => session'[c].conv # NoSid
    /\ session[c].st # "none" => session'[c].st # "none"
    /\ session'[c].st = "none" => session'[c].conv = NoSid

LEMMA LinkStep == TypeInv /\ LinkInv /\ [Next]_vars => LinkInv'
<1> SUFFICES ASSUME TypeInv, LinkInv, [Next]_vars PROVE LinkInv'
    OBVIOUS
<1>1. ASSUME LinksGrow, NEW r \in Reqs, NEW x \in Locals, NEW s,
             loc' = [loc EXCEPT ![r] = x], pc' = [pc EXCEPT ![r] = s], SeenSession(r)'
      PROVE  LinksLast'
  <2>1. \A q \in Reqs : SeenSession(q)'
    <3>1. \A q \in Reqs \ {r} : loc'[q] = loc[q] /\ pc'[q] = pc[q]
      BY <1>1 DEF TypeInv, TypeOK
    <3>2. \A q \in Reqs : pc[q] # "idle" => loc[q].sid \in Sids
      BY DEF TypeInv, RequestsAim
    <3>3. \A q \in Reqs \ {r} : FoundSession(q)' => FoundSession(q)
      BY <3>1 DEF FoundSession
    <3>4. \A q \in Reqs : FoundSession(q) => pc[q] # "idle"
      BY DEF FoundSession
    <3>5. ASSUME NEW q \in Reqs \ {r} PROVE SeenSession(q)'
      BY <1>1, <3>1, <3>2, <3>3, <3>4, <3>5
      DEF LinkInv, LinksLast, SeenSession, LinksGrow
    <3> QED
      BY <1>1, <3>5
  <2> QED
    BY <1>1, <2>1 DEF LinksLast, LinksGrow, SeenSession, FoundSession
<1>2. ASSUME LinksGrow, UNCHANGED <<pc, loc>> PROVE LinksLast'
    BY <1>2 DEF TypeInv, RequestsAim, LinkInv, LinksLast, SeenSession, FoundSession, LinksGrow
<1>3. ASSUME LinksGrow, NEW r \in Reqs, Finish(r) PROVE LinksLast'
  <2>1. SeenSession(r)'
    BY <1>3 DEF Finish, SeenSession, FoundSession, TypeInv, TypeOK
  <2>2. Fresh(NoSid) \in Locals
    BY FreshType DEF Convs
  <2> QED
    BY <1>1, <1>3, <2>1, <2>2 DEF Finish
<1>4. ASSUME UNCHANGED session PROVE LinksGrow
    BY <1>4 DEF LinksGrow, LinkInv, LinksLast
<1>5. ASSUME LinksGrow, UNCHANGED artifact PROVE ArtifactRefIsLinked'
    BY <1>5 DEF LinkInv, ArtifactRefIsLinked, LinksGrow
\* a trigger with a conversation that the session has, or with none
<1>6. ASSUME LinksGrow, NEW c \in Sids, NEW conv \in Convs, NEW known \in BOOLEAN,
             Trigger(c, conv, known),
             conv # NoSid => session'[c].conv # NoSid
      PROVE  ArtifactRefIsLinked'
  <2>1. \A k \in Sids \ {c} : artifact'[k] = artifact[k]
    BY <1>6 DEF Trigger, TypeInv, TypeOK
  <2>2. artifact'[c].ref \in {artifact[c].ref, conv}
    BY <1>6 DEF Trigger, TypeInv, TypeOK
  <2> QED
    BY <1>6, <2>1, <2>2 DEF LinkInv, ArtifactRefIsLinked, LinksGrow
\* one session row is written: its link and its row only come to be
<1>7. ASSUME NEW c \in Sids, NEW st \in SessionStates, NEW conv \in Convs,
             session' = [session EXCEPT ![c] = [st |-> st, conv |-> conv]],
             session[c].conv # NoSid => conv # NoSid,
             st # "none"
      PROVE  LinksGrow
    BY <1>7 DEF LinksGrow, LinkInv, LinksLast, TypeInv, TypeOK
<1>8. ASSUME NEW r \in Reqs, SessionCommit(r) PROVE LinkInv'
  <2> DEFINE c == loc[r].sid
  <2>1. c \in Sids
    BY <1>8 DEF SessionCommit, TypeInv, RequestsAim
  <2>2. session[c] \in [st: SessionStates, conv: Convs]
    BY <2>1 DEF TypeInv, TypeOK
  <2>3. LinksGrow
    <3>1. CASE loc[r].sess = "none"
      <4>1. session[c].st = "none"
            /\ session' = [session EXCEPT ![c] = [st |-> "connected", conv |-> NoSid]]
        BY <1>8, <3>1 DEF SessionCommit, CreateAiSession
      <4> QED
        BY <1>7, <2>1, <4>1 DEF SessionStates, Convs, LinkInv, LinksLast
    <3>2. CASE loc[r].sess # "none"
      <4> DEFINE st == IF loc[r].sess = "connected" THEN session[c].st
                       ELSE "connected"
      <4>1. session' = [session EXCEPT ![c] = [st |-> st, conv |-> session[c].conv]]
        BY <1>8, <3>2 DEF SessionCommit, CreateAiSession
      <4>2. c \in Sids /\ loc[r].sess \in SessionStates
        BY <2>1 DEF TypeInv, TypeOK, Locals
      <4>3. st \in SessionStates /\ st # "none"
        BY <1>8, <2>2, <3>2
        DEF SessionCommit, LinkInv, LinksLast, SeenSession, FoundSession, SessionStates
      <4> HIDE DEF c, st
      <4> QED
        BY <1>7, <2>1, <2>2, <4>1, <4>3
    <3> QED
      BY <3>1, <3>2
  <2> QED
    BY <1>3, <1>5, <1>8, <2>3 DEF SessionCommit, LinkInv
<1>9. ASSUME NEW r \in Reqs, StatusCommit(r) PROVE LinkInv'
  <2> DEFINE c == loc[r].sid
  <2>1. c \in Sids /\ loc[r] \in Locals /\ SeenSession(r) /\ pc[r] = "settle"
    BY <1>9 DEF StatusCommit, TypeInv, TypeOK, RequestsAim, LinkInv, LinksLast
  <2>2. LinksGrow
    <3>1. CASE loc[r].conv = NoSid
      BY <1>4, <1>9, <3>1 DEF StatusCommit
    <3>2. CASE loc[r].conv # NoSid
      <4> DEFINE st == IF loc[r].sess = "completed" THEN session[c].st ELSE "completed"
      <4>1. session' = [session EXCEPT ![c] = [st |-> st, conv |-> loc[r].conv]]
        BY <1>9, <3>2 DEF StatusCommit
      <4>2. st # "none" /\ st \in SessionStates
        BY <2>1, <3>2 DEF SeenSession, FoundSession, SessionStates, TypeInv, TypeOK
      <4>3. loc[r].conv \in Convs
        BY <2>1 DEF Locals
      <4> HIDE DEF c, st
      <4> QED
        BY <1>7, <2>1, <3>2, <4>1, <4>2, <4>3
    <3> QED
      BY <3>1, <3>2
  <2>3. ArtifactRefIsLinked'
    <3> DEFINE conv == IF loc[r].conv # NoSid THEN loc[r].conv ELSE loc[r].sconv
    <3>1. CASE UNCHANGED artifact
      BY <1>5, <2>2, <3>1
    <3>2. CASE Trigger(c, conv, loc[r].art)
      <4>1. session'[c].conv # NoSid \/ conv = NoSid
        BY <1>9, <2>1, <2>2 DEF StatusCommit, SeenSession, FoundSession, LinksGrow, TypeInv, TypeOK
      <4>2. conv \in Convs /\ loc[r].art \in BOOLEAN
        BY <2>1 DEF Locals
      <4> HIDE DEF c, conv
      <4> QED
        BY <1>6, <2>1, <2>2, <3>2, <4>1, <4>2
    <3> QED
      BY <1>9, <3>1, <3>2 DEF StatusCommit
  <2> QED
    BY <1>3, <1>9, <2>2, <2>3 DEF StatusCommit, LinkInv
<1>10. ASSUME NEW r \in Reqs, ConvCommit(r) PROVE LinkInv'
  <2> DEFINE c == loc[r].sid
  <2>1. c \in Sids /\ loc[r] \in Locals /\ SeenSession(r) /\ pc[r] = "conv"
    BY <1>10 DEF ConvCommit, TypeInv, TypeOK, RequestsAim, LinkInv, LinksLast
  <2>2. loc[r].conv \in Convs /\ loc[r].art \in BOOLEAN /\ loc[r].conv # NoSid
    BY <2>1 DEF Locals, SeenSession, FoundSession
  <2>3. LinksGrow /\ session'[c].conv # NoSid
    <3>1. CASE loc[r].sconv = NoSid
      <4>1. session' = [session EXCEPT ![c].conv = loc[r].conv]
        BY <1>10, <3>1 DEF ConvCommit
      <4>2. session[c].st # "none"
        BY <2>1 DEF SeenSession, FoundSession
      <4> HIDE DEF c
      <4> QED
        BY <2>1, <2>2, <4>1, <4>2 DEF LinksGrow, LinkInv, LinksLast, TypeInv, TypeOK
    <3>2. CASE loc[r].sconv # NoSid
      BY <1>4, <1>10, <2>1, <3>2 DEF ConvCommit, SeenSession, FoundSession
    <3> QED
      BY <3>1, <3>2
  <2>4. Trigger(c, loc[r].conv, loc[r].art)
    BY <1>10 DEF ConvCommit
  <2> HIDE DEF c
  <2>5. ArtifactRefIsLinked'
    BY <1>6, <2>1, <2>2, <2>3, <2>4
  <2> QED
    BY <1>3, <1>10, <2>3, <2>5 DEF ConvCommit, LinkInv
<1>11. ASSUME NEW r \in Reqs, BridgeCommit(r) PROVE LinkInv'
  <2> DEFINE c == loc[r].sid
             conv == loc[r].conv
             new == BridgeStatus[loc[r].arg]
             st == IF new = loc[r].sess THEN session[c].st ELSE new
             link == IF conv \in {NoSid, loc[r].sconv} THEN session[c].conv ELSE conv
  <2>1. c \in Sids /\ loc[r] \in Locals /\ SeenSession(r) /\ pc[r] = "bridge"
    BY <1>11 DEF BridgeCommit, TypeInv, TypeOK, RequestsAim, LinkInv, LinksLast
  <2>2. conv \in Convs /\ loc[r].art \in BOOLEAN
    BY <2>1 DEF Locals
  <2>3. new \in SessionStates \ {"none"}
    BY <2>1 DEF BridgeStatus, SessionStates, TypeInv, RequestsAim
  <2>4. session[c] \in [st: SessionStates, conv: Convs]
    BY <2>1 DEF TypeInv, TypeOK
  <2>5. session' = [session EXCEPT ![c] = [st |-> st, conv |-> link]]
    BY <1>11 DEF BridgeCommit
  <2>6. st \in SessionStates /\ st # "none"
    BY <2>1, <2>3, <2>4 DEF SeenSession, FoundSession
  <2>7. link \in Convs /\ (session[c].conv # NoSid => link # NoSid)
    BY <2>2, <2>4
  <2>8. conv # NoSid => link # NoSid
    BY <2>1 DEF SeenSession, FoundSession
  <2>9. UNCHANGED artifact \/ Trigger(c, conv, loc[r].art)
    BY <1>11 DEF BridgeCommit
  <2> HIDE DEF c, conv, st, link
  <2>10. LinksGrow
    BY <1>7, <2>1, <2>5, <2>6, <2>7
  <2>11. session'[c].conv = link
    BY <2>1, <2>5 DEF TypeInv, TypeOK
  <2>12. ArtifactRefIsLinked'
    BY <1>5, <1>6, <2>1, <2>2, <2>8, <2>9, <2>10, <2>11
  <2> QED
    BY <1>3, <1>11, <2>10, <2>12 DEF BridgeCommit, LinkInv
\* the steps that read
<1>12. ASSUME NEW r \in Reqs, NEW x \in Locals, NEW s, UNCHANGED rows,
              loc' = [loc EXCEPT ![r] = x], pc' = [pc EXCEPT ![r] = s],
              SeenSession(r)'
       PROVE  LinkInv'
    BY <1>1, <1>4, <1>5, <1>12 DEF rows, LinkInv
\* what the read saw is what the rows hold
<1>13. ASSUME NEW r \in Reqs, Arrive(r) PROVE LinkInv'
  <2>1. ASSUME NEW x, NEW s, UNCHANGED rows,
               loc' = [loc EXCEPT ![r] = x], pc' = [pc EXCEPT ![r] = s],
               SeenSession(r)'
        PROVE  LinkInv'
    <3>1. loc'[r] = x /\ loc' \in [Reqs -> Locals]
      BY <1>13, <2>1, TypeStep DEF TypeInv, TypeOK, Next
    <3> QED
      BY <1>12, <2>1, <3>1
  <2>2. ASSUME NEW c \in Sids, InboundLoad(r, c) PROVE LinkInv'
    <3>1. SeenSession(r)'
      BY <2>2 DEF InboundLoad, SeenSession, FoundSession, TypeInv, TypeOK
    <3> QED
      BY <2>1, <2>2, <3>1 DEF InboundLoad
  <2>3. ASSUME NEW c \in Sids, NEW p \in Reports, NEW d \in BOOLEAN,
               StatusLoad(r, c, p, d) PROVE LinkInv'
    <3>1. loc'[r].conv = NoSid /\ pc'[r] = "check"
      BY <2>3 DEF StatusLoad, Fresh, TypeInv, TypeOK
    <3>2. SeenSession(r)'
      BY <3>1 DEF SeenSession, FoundSession
    <3> QED
      BY <2>1, <2>3, <3>2 DEF StatusLoad
  <2>4. ASSUME NEW k \in Sids, ConvLoad(r, k) PROVE LinkInv'
    <3>1. PICK c \in IF Linked(k) # {} THEN Linked(k) ELSE NewestUnlinked :
            loc' = [loc EXCEPT ![r] = [Fresh(c) EXCEPT
              !.conv = k, !.sconv = session[c].conv, !.art = artifact[c].st # "none"]]
      BY <2>4 DEF ConvLoad
    <3>2. c \in Sids /\ session[c].st # "none"
      BY DEF Linked, NewestUnlinked, TypeInv, TypeOK
    <3>3. loc'[r].sid = c /\ loc'[r].conv = k /\ loc'[r].sconv = session[c].conv
      BY <3>1 DEF Fresh, TypeInv, TypeOK
    <3>4. SeenSession(r)'
      BY <2>4, <3>2, <3>3, NoSidAssumption
      DEF ConvLoad, SeenSession, FoundSession, rows, TypeInv, TypeOK
    <3> QED
      BY <2>1, <2>4, <3>1, <3>4 DEF ConvLoad
  <2>5. ASSUME NEW c \in Sids, NEW e \in BridgeEvents, NEW conv \in Convs,
               BridgeLoad(r, c, e, conv) PROVE LinkInv'
    <3>1. loc'[r].sid = c /\ loc'[r].sconv = session[c].conv
      BY <2>5 DEF BridgeLoad, Fresh, TypeInv, TypeOK
    <3>2. SeenSession(r)'
      BY <2>5, <3>1 DEF BridgeLoad, SeenSession, FoundSession, rows, TypeInv, TypeOK
    <3> QED
      BY <2>1, <2>5, <3>2 DEF BridgeLoad
  <2> QED
    BY <1>13, <2>2, <2>3, <2>4, <2>5 DEF Arrive
<1>14. ASSUME NEW r \in Reqs, Step(r) PROVE LinkInv'
  <2> USE DEF TypeInv, TypeOK, RequestsAim
  <2>1. CASE SessionLoad(r)
    <3>1. loc'[r].sid = loc[r].sid /\ loc'[r].sess = session[loc[r].sid].st
      BY <2>1 DEF SessionLoad, Locals
    <3>2. SeenSession(r)'
      BY <2>1, <3>1 DEF SessionLoad, SeenSession, FoundSession, rows
    <3>3. loc'[r] \in Locals
      BY <1>14, TypeStep DEF Next
    <3> QED
      BY <1>12, <2>1, <3>2, <3>3 DEF SessionLoad
  <2>2. CASE StatusCheck(r)
    <3> DEFINE sess == IF loc[r].dur THEN session[loc[r].sid]
                       ELSE [st |-> "none", conv |-> NoSid]
    <3>5. PICK ok : loc' = [loc EXCEPT ![r] = [@ EXCEPT
                      !.apply = ok, !.sess = sess.st, !.sconv = sess.conv]]
      BY <2>2 DEF StatusCheck
    <3>6. loc[r] \in Locals
      OBVIOUS
    <3> HIDE DEF sess
    <3>1. /\ loc'[r].sid = loc[r].sid /\ loc'[r].sess = sess.st
          /\ loc'[r].sconv = sess.conv
          /\ loc'[r].conv = loc[r].conv
      BY <3>5, <3>6 DEF Locals
    <3> USE DEF sess
    <3>2. loc[r].conv = NoSid
      BY <2>2 DEF StatusCheck, LinkInv, LinksLast, SeenSession
    <3>3. SeenSession(r)'
      BY <2>2, <3>1, <3>2 DEF StatusCheck, SeenSession, FoundSession, rows
    <3>4. loc'[r] \in Locals
      BY <1>14, TypeStep DEF Next
    <3> QED
      BY <1>12, <2>2, <3>3, <3>4 DEF StatusCheck
  <2>3. CASE StatusLookup(r)
    <3>1. /\ loc'[r].sid = loc[r].sid /\ loc'[r].sess = loc[r].sess
          /\ loc'[r].sconv = loc[r].sconv
          /\ loc'[r].conv # NoSid => loc[r].sess # "none"
      BY <2>3 DEF StatusLookup, Locals
    <3>2. pc[r] = "lookup" /\ pc'[r] = "settle" /\ session' = session
      BY <2>3 DEF StatusLookup, rows
    <3>3. SeenSession(r)
      BY DEF LinkInv, LinksLast
    <3>4. SeenSession(r)'
      BY <3>1, <3>2, <3>3 DEF SeenSession, FoundSession
    <3>5. loc'[r] \in Locals
      BY <1>14, TypeStep DEF Next
    <3>6. loc' = [loc EXCEPT ![r] = loc'[r]]
      BY <2>3 DEF StatusLookup
    <3> QED
      BY <1>12, <2>3, <3>4, <3>5, <3>6 DEF StatusLookup
  <2>4. CASE InboundCommit(r)
    <3>1. UNCHANGED <<session, artifact>>
      BY <2>4 DEF InboundCommit
    <3>2. CASE Finish(r)
      BY <1>3, <1>4, <1>5, <3>1, <3>2 DEF LinkInv
    <3>3. CASE pc' = [pc EXCEPT ![r] = "screen"] /\ loc' = [loc EXCEPT ![r] = Fresh(loc[r].sid)]
      <4>1. SeenSession(r)'
        BY <3>3 DEF SeenSession, FoundSession
      <4>2. Fresh(loc[r].sid) \in Locals
        BY <2>4, FreshType DEF InboundCommit, Convs
      <4> QED
        BY <1>1, <1>4, <1>5, <3>1, <3>3, <4>1, <4>2 DEF LinkInv
    <3> QED
      BY <2>4, <3>2, <3>3 DEF InboundCommit
  <2>5. CASE InboundBlocked(r) \/ Rollback(r)
    BY <1>3, <1>4, <1>5, <2>5 DEF InboundBlocked, Rollback, rows, LinkInv
  <2> QED
    BY <1>8, <1>9, <1>10, <1>11, <1>14, <2>1, <2>2, <2>3, <2>4, <2>5 DEF Step
<1>15. ASSUME NEW c \in Sids, PatchCall(c) PROVE LinkInv'
  <2>1. artifact'[c].ref = NoSid
    BY <1>15 DEF PatchCall, TypeInv, TypeOK
  <2>2. \A k \in Sids \ {c} : artifact'[k] = artifact[k]
    BY <1>15 DEF PatchCall, TypeInv, TypeOK
  <2>3. ArtifactRefIsLinked'
    BY <1>15, <2>1, <2>2 DEF PatchCall, LinkInv, ArtifactRefIsLinked
  <2> QED
    BY <1>2, <1>4, <1>15, <2>3 DEF PatchCall, LinkInv
<1> QED
    BY <1>2, <1>4, <1>5, <1>13, <1>14, <1>15
    DEF Next, TwilioReport, TalkStarts, rows, vars, LinkInv

\* An artifact's conversation was taken from a session that is still linked.
THEOREM TranscriptsAreLinked == Spec => []ArtifactRefIsLinked
<1>1. TypeInv /\ LinkInv /\ [Next]_vars => (TypeInv /\ LinkInv)'
    BY TypeStep, AimStep, LinkStep DEF TypeInv
<1>2. Init => TypeInv /\ LinkInv
    BY TypeInit, LinkInit
<1>3. TypeInv /\ LinkInv => ArtifactRefIsLinked
    BY DEF LinkInv
<1> QED
    BY <1>1, <1>2, <1>3, PTL DEF Spec

\* A trigger leaves an artifact that is processing as it is.
LEMMA TriggerKeeps ==
    ASSUME TypeInv, NEW c \in Sids, NEW conv, NEW r \in Reqs, loc[r].sid = c,
           MayTrigger(r), Trigger(c, conv, loc[r].art),
           NEW k \in Sids, artifact[k].st = "processing"
    PROVE  artifact'[k] = artifact[k]
<1>1. CASE k # c
    BY <1>1 DEF Trigger, TypeInv, TypeOK
<1>2. CASE k = c
  <2>1. loc[r].art
    BY <1>2 DEF MayTrigger
  <2>2. artifact'[c] = [st |-> "processing", ref |-> artifact[c].ref]
    BY <1>2, <2>1 DEF Trigger, TypeInv, TypeOK
  <2>3. artifact[c] \in [st: {"none", "pending", "processing"}, ref: Convs]
    BY DEF TypeInv, TypeOK
  <2>4. artifact[c] = [st |-> "processing", ref |-> artifact[c].ref]
    BY <1>2, <2>3
  <2> QED
    BY <1>2, <2>2, <2>4
<1> QED
    BY <1>1, <1>2

\* Nothing undoes a post-call trigger.
THEOREM TriggersAreStable == Spec => TriggerIsStable
<1>1. ASSUME TypeInv, [Next]_vars
      PROVE  \A c \in Sids : artifact[c].st = "processing" => artifact'[c] = artifact[c]
  <2> SUFFICES ASSUME NEW k \in Sids, artifact[k].st = "processing"
               PROVE  artifact'[k] = artifact[k]
    OBVIOUS
  <2> USE <1>1
  <2>1. CASE UNCHANGED artifact
    BY <2>1
  <2>2. ASSUME NEW c \in Sids, PatchCall(c) PROVE artifact'[k] = artifact[k]
    BY <2>2 DEF PatchCall, TypeInv, TypeOK
  <2>3. ASSUME NEW r \in Reqs, StatusCommit(r) PROVE artifact'[k] = artifact[k]
    BY <2>1, <2>3, TriggerKeeps DEF StatusCommit, TypeInv, RequestsAim, StatusPhases
  <2>4. ASSUME NEW r \in Reqs, ConvCommit(r) PROVE artifact'[k] = artifact[k]
    BY <2>4, TriggerKeeps DEF ConvCommit, TypeInv, RequestsAim
  <2>5. ASSUME NEW r \in Reqs, BridgeCommit(r) PROVE artifact'[k] = artifact[k]
    BY <2>1, <2>5, TriggerKeeps DEF BridgeCommit, TypeInv, RequestsAim
  <2>6. ASSUME NEW r \in Reqs, Arrive(r) PROVE UNCHANGED artifact
    BY <2>6 DEF Arrive, InboundLoad, StatusLoad, ConvLoad, BridgeLoad, rows
  <2>7. ASSUME NEW r \in Reqs, Step(r)
        PROVE  UNCHANGED artifact \/ StatusCommit(r) \/ ConvCommit(r) \/ BridgeCommit(r)
    BY <2>7 DEF Step, InboundCommit, InboundBlocked, SessionLoad, SessionCommit,
                StatusCheck, StatusLookup, Rollback, rows
  <2> QED
    BY <2>1, <2>2, <2>3, <2>4, <2>5, <2>6, <2>7
    DEF Next, TwilioReport, TalkStarts, rows, vars
<1>2. TypeInv /\ [Next]_vars => TypeInv'
    BY TypeStep, AimStep DEF TypeInv
<1> QED
    BY <1>1, <1>2, TypeInit, PTL DEF Spec, TriggerIsStable

----------------------------------------------------------------------------
(* Layer 4: what Twilio reported, and the call record as its readers see   *)
(* it while handlers do not overlap.                                       *)

\* A call has one final status at most, and the log holds what was reported
ReportInv ==
    /\ \A c \in Sids : \A p, q \in reported[c] : IsFinal(p) /\ IsFinal(q) => p = q
    /\ \A c \in Sids, p \in ProviderStatus : Update(p) \in events[c] => p \in reported[c]
    /\ \A r \in Reqs : pc[r] \in StatusPhases => loc[r].arg \in reported[loc[r].sid]

LEMMA ReportInit == Init => ReportInv
    BY DEF Init, ReportInv, StatusPhases

\* Only handlers touch the handlers, the record and the log
LEMMA OtherSteps ==
    ASSUME [Next]_vars
    PROVE  \/ \E r \in Reqs : Arrive(r) \/ Step(r)
           \/ UNCHANGED <<pc, loc, callStatus, ended, events>>
<1>1. ASSUME NEW c \in Sids, NEW p \in Reports, TwilioReport(c, p)
      PROVE  UNCHANGED <<pc, loc, callStatus, ended, events>>
    BY <1>1 DEF TwilioReport, rows
<1>2. ASSUME NEW c \in Sids, TalkStarts(c) \/ PatchCall(c)
      PROVE  UNCHANGED <<pc, loc, callStatus, ended, events>>
    BY <1>2 DEF TalkStarts, PatchCall, rows
<1>3. CASE UNCHANGED vars
    BY <1>3 DEF vars, rows
<1> QED
    BY <1>1, <1>2, <1>3 DEF Next

\* Where a step leaves the status handlers that run
LEMMA StatusHandlers ==
    ASSUME TypeInv, [Next]_vars, NEW r \in Reqs, pc'[r] \in StatusPhases
    PROVE  \/ /\ pc[r] \in StatusPhases
              /\ loc'[r].sid = loc[r].sid /\ loc'[r].arg = loc[r].arg
           \/ loc'[r].arg \in reported[loc'[r].sid] /\ UNCHANGED <<reported, events>>
<1> USE DEF TypeInv, TypeOK, StatusPhases
<1>1. CASE UNCHANGED <<pc, loc>>
    BY <1>1
<1>2. ASSUME NEW q \in Reqs, Step(q)
      PROVE  /\ pc[r] \in StatusPhases
             /\ loc'[r].sid = loc[r].sid /\ loc'[r].arg = loc[r].arg
  <2>1. CASE q # r
    BY <1>2, <2>1
    DEF Step, InboundCommit, InboundBlocked, SessionLoad, SessionCommit, StatusCheck,
        StatusLookup, StatusCommit, ConvCommit, BridgeCommit, Rollback, Finish
  <2>2. CASE q = r
    <3>1. StatusCheck(r) \/ StatusLookup(r)
      BY <1>2, <2>2
      DEF Step, InboundCommit, InboundBlocked, SessionLoad, SessionCommit, StatusCommit,
          ConvCommit, BridgeCommit, Rollback, Finish
    <3>2. CASE StatusCheck(r)
      BY <3>2 DEF StatusCheck, Locals
    <3>3. CASE StatusLookup(r)
      BY <3>3 DEF StatusLookup, Locals
    <3> QED
      BY <3>1, <3>2, <3>3
  <2> QED
    BY <2>1, <2>2
<1>3. ASSUME NEW q \in Reqs, Arrive(q), q # r
      PROVE  /\ pc[r] \in StatusPhases
             /\ loc'[r].sid = loc[r].sid /\ loc'[r].arg = loc[r].arg
  <2>1. \E l, h : loc' = [loc EXCEPT ![q] = l] /\ pc' = [pc EXCEPT ![q] = h]
    <3>1. PICK c \in Sids :
              \/ InboundLoad(q, c)
              \/ \E p \in Reports, d \in BOOLEAN : StatusLoad(q, c, p, d)
              \/ ConvLoad(q, c)
              \/ \E e \in BridgeEvents, conv \in Convs : BridgeLoad(q, c, e, conv)
      BY <1>3 DEF Arrive
    <3>2. CASE InboundLoad(q, c)
      BY <3>2 DEF InboundLoad
    <3>3. CASE \E p \in Reports, d \in BOOLEAN : StatusLoad(q, c, p, d)
      BY <3>3 DEF StatusLoad
    <3>4. CASE ConvLoad(q, c) \/ \E e \in BridgeEvents, conv \in Convs : BridgeLoad(q, c, e, conv)
      BY <3>4 DEF ConvLoad, BridgeLoad
    <3> QED
      BY <3>1, <3>2, <3>3, <3>4
  <2> QED
    BY <1>3, <2>1
<1>4. ASSUME Arrive(r)
      PROVE  loc'[r].arg \in reported[loc'[r].sid] /\ UNCHANGED <<reported, events>>
  <2>1. PICK c \in Sids, p \in Reports, d \in BOOLEAN : StatusLoad(r, c, p, d)
    BY <1>4 DEF Arrive, InboundLoad, ConvLoad, BridgeLoad
  <2>2. loc'[r].sid = c /\ loc'[r].arg = p
    BY <2>1 DEF StatusLoad, Fresh
  <2> QED
    BY <2>1, <2>2 DEF StatusLoad, provider, rows
<1>5. (\E q \in Reqs : Arrive(q) \/ Step(q)) \/ UNCHANGED <<pc, loc>>
    BY OtherSteps
<1>6. ASSUME NEW q \in Reqs, Arrive(q)
      PROVE  \/ /\ pc[r] \in StatusPhases
                /\ loc'[r].sid = loc[r].sid /\ loc'[r].arg = loc[r].arg
             \/ loc'[r].arg \in reported[loc'[r].sid] /\ UNCHANGED <<reported, events>>
  <2>1. CASE q = r
    BY <1>4, <1>6, <2>1
  <2>2. CASE q # r
    BY <1>3, <1>6, <2>2
  <2> QED
    BY <2>1, <2>2
<1> QED
    BY <1>1, <1>2, <1>5, <1>6

\* A status enters the log only through its handler
LEMMA LoggedByHandler ==
    ASSUME TypeInv, [Next]_vars, NEW c \in Sids, NEW p \in ProviderStatus,
           Update(p) \in events'[c], Update(p) \notin events[c]
    PROVE  \E r \in Reqs : pc[r] \in StatusPhases /\ loc[r].sid = c /\ loc[r].arg = p
<1> USE DEF TypeInv, TypeOK
<1>1. ASSUME NEW r \in Reqs, StatusCommit(r)
      PROVE  pc[r] \in StatusPhases /\ loc[r].sid = c /\ loc[r].arg = p
  <2>1. events' = [events EXCEPT ![loc[r].sid] = @ \cup {Update(loc[r].arg)}]
    BY <1>1, StatusLogs
  <2>2. loc[r].sid = c /\ Update(p) = Update(loc[r].arg)
    BY <2>1
  <2>3. pc[r] \in StatusPhases
    BY <1>1 DEF StatusCommit, StatusPhases
  <2> QED
    BY <2>2, <2>3 DEF Update
<1>2. ASSUME NEW r \in Reqs, InboundCommit(r) \/ InboundBlocked(r) PROVE FALSE
  <2>1. Update(p) \notin InboundEvents /\ Update(p) # <<"call_blocked", "blocked">>
    BY DEF Update, InboundEvents
  <2>2. PICK e \in {InboundEvents, {<<"call_blocked", "blocked">>}} :
            \/ events' = events
            \/ \E k : events' = [events EXCEPT ![k] = @ \cup e]
    <3>1. CASE InboundCommit(r)
      BY <3>1 DEF InboundCommit
    <3>2. CASE InboundBlocked(r)
      BY <3>2 DEF InboundBlocked
    <3> QED
      BY <1>2, <3>1, <3>2
  <2>3. Update(p) \notin e
    BY <2>1, <2>2
  <2>4. ASSUME NEW k, events' = [events EXCEPT ![k] = @ \cup e] PROVE FALSE
    <3>1. events'[c] \in {events[c], events[c] \cup e}
      BY <2>4
    <3> QED
      BY <2>3, <3>1
  <2> QED
    BY <2>2, <2>4
<1>3. ASSUME NEW r \in Reqs, Arrive(r) PROVE UNCHANGED events
    BY <1>3 DEF Arrive, InboundLoad, StatusLoad, ConvLoad, BridgeLoad, rows
<1>4. ASSUME NEW r \in Reqs, Step(r)
      PROVE  \/ UNCHANGED events
             \/ InboundCommit(r) \/ InboundBlocked(r) \/ StatusCommit(r)
    BY <1>4 DEF Step, SessionLoad, SessionCommit, StatusCheck, StatusLookup,
                ConvCommit, BridgeCommit, Rollback, rows
<1> QED
    BY <1>1, <1>2, <1>3, <1>4, OtherSteps

LEMMA ReportStep == TypeInv /\ ReportInv /\ [Next]_vars => ReportInv'
<1> SUFFICES ASSUME TypeInv, ReportInv, [Next]_vars PROVE ReportInv'
    OBVIOUS
<1> USE DEF TypeInv, TypeOK
<1>1. CASE UNCHANGED reported
  <2>1. \A c \in Sids, p \in ProviderStatus : Update(p) \in events'[c] => p \in reported[c]
    <3> SUFFICES ASSUME NEW c \in Sids, NEW p \in ProviderStatus, Update(p) \in events'[c]
                 PROVE  p \in reported[c]
        OBVIOUS
    <3>1. CASE Update(p) \in events[c]
      BY <3>1 DEF ReportInv
    <3>2. CASE Update(p) \notin events[c]
      <4>1. PICK r \in Reqs : pc[r] \in StatusPhases /\ loc[r].sid = c /\ loc[r].arg = p
        BY <3>2, LoggedByHandler
      <4> QED
        BY <4>1 DEF ReportInv
    <3> QED
      BY <3>1, <3>2
  <2>2. \A r \in Reqs : pc'[r] \in StatusPhases => loc'[r].arg \in reported[loc'[r].sid]
    BY StatusHandlers DEF ReportInv
  <2> QED
    BY <1>1, <2>1, <2>2 DEF ReportInv
<1>2. ASSUME NEW c \in Sids, NEW p \in Reports, TwilioReport(c, p) PROVE ReportInv'
  <2>1. /\ reported' = [reported EXCEPT ![c] = reported[c] \cup {p}]
        /\ UNCHANGED <<events, pc, loc>>
        /\ \A q \in reported[c] : ~IsFinal(q)
    BY <1>2 DEF TwilioReport, rows
  <2>2. \A d \in Sids : reported[d] \subseteq reported'[d]
    BY <2>1
  <2>3. \A d \in Sids : \A x, y \in reported'[d] : IsFinal(x) /\ IsFinal(y) => x = y
    BY <2>1 DEF ReportInv
  <2>4. \A r \in Reqs : pc[r] \in StatusPhases => loc[r].sid \in Sids
    BY DEF RequestsAim, StatusPhases
  <2> QED
    BY <2>1, <2>2, <2>3, <2>4 DEF ReportInv
<1>3. ASSUME NEW r \in Reqs, Arrive(r) \/ Step(r) PROVE UNCHANGED reported
    BY <1>3 DEF Arrive, InboundLoad, StatusLoad, ConvLoad, BridgeLoad, Step, InboundCommit,
                InboundBlocked, SessionLoad, SessionCommit, StatusCheck, StatusLookup,
                StatusCommit, ConvCommit, BridgeCommit, Rollback, provider
<1> QED
    BY <1>1, <1>2, <1>3 DEF Next, TalkStarts, PatchCall, vars, provider

\* One handler at a time: what it read is still so
Serial ==
    /\ \A p, q \in Reqs : pc[p] # "idle" /\ pc[q] # "idle" => p = q
    /\ \A r \in Reqs :
          /\ pc[r] \in StatusPhases \cup {"inbound"} =>
                loc[r].status = callStatus[loc[r].sid]
          /\ pc[r] = "inbound" => loc[r].sid \notin ended
          /\ pc[r] \in {"lookup", "settle"} /\ loc[r].apply =>
                IsValidTransition(loc[r].status, MapTwilioStatus[loc[r].arg])
    /\ \A c \in Sids : callStatus[c] = "none" =>
          <<"call_blocked", "blocked">> \notin events[c]
    /\ \A c \in ended : callStatus[c] \in TerminalStates

RecordInv == TypeInv /\ LogInv /\ ReportInv

SerialInv == RecordInv /\ overlapped \in BOOLEAN /\ (~overlapped => Serial)

LEMMA SerialInit == HistInit => SerialInv
<1> SUFFICES ASSUME HistInit PROVE SerialInv
    OBVIOUS
<1>1. Serial
    BY DEF HistInit, Init, Serial, StatusPhases
<1> QED
    BY <1>1, TypeInit, LogInit, ReportInit DEF HistInit, SerialInv, RecordInv

\* An answer to Twilio's question is the record of the call, or its end if blocked
LEMMA InboundIsRecord ==
    ASSUME RecordInv, Serial, NEW r \in Reqs, InboundCommit(r) \/ InboundBlocked(r)
    PROVE  [Record!Next]_<<callStatus, ended>>
<1>1. PICK c \in Sids : c = loc[r].sid
    BY DEF InboundCommit, InboundBlocked, RecordInv, TypeInv, RequestsAim
<1>2. loc[r].status = callStatus[c] /\ c \notin ended /\ UNCHANGED ended
      /\ callStatus[c] \in CallStates \cup {"none"}
    BY <1>1 DEF InboundCommit, InboundBlocked, Serial, RecordInv, TypeInv, TypeOK
<1>3. \A s \in CallStates : s \in DOMAIN StateOrder
    BY DEF StateOrder
<1>4. CASE InboundCommit(r)
  <2>1. callStatus' = callStatus
        \/ (callStatus[c] = "none" /\ callStatus' = [callStatus EXCEPT ![c] = "twiml_responded"])
    BY <1>1, <1>2, <1>4 DEF InboundCommit
  <2>2. "twiml_responded" \in DOMAIN StateOrder
    BY <1>3 DEF CallStates
  <2> QED
    BY <1>2, <2>1, <2>2 DEF Record!Next, Record!Record, Record!NotRecorded
<1>5. CASE InboundBlocked(r)
  <2>1. "completed" \in DOMAIN StateOrder /\ "completed" \in CallStates
    BY <1>3 DEF CallStates, TerminalStates
  <2>2. CASE callStatus[c] = "none"
    <3>1. IsValidTransition("inbound_received", "completed")
      BY DEF IsValidTransition, StateOrder, CallStates, TerminalStates
    <3>2. <<"call_blocked", "blocked">> \notin events[c]
      BY <2>2 DEF Serial
    <3>3. callStatus' = [callStatus EXCEPT ![c] = "completed"]
      BY <1>1, <1>2, <1>5, <2>2, <3>1, <3>2 DEF InboundBlocked
    <3> QED
      BY <1>2, <2>1, <2>2, <3>3 DEF Record!Next, Record!Record, Record!NotRecorded
  <2>3. CASE callStatus[c] # "none"
    <3>1. \/ callStatus' = callStatus
          \/ /\ callStatus' = [callStatus EXCEPT ![c] = "completed"]
             /\ IsValidTransition(callStatus[c], "completed")
      BY <1>1, <1>2, <1>5, <2>3 DEF InboundBlocked
    <3> QED
      BY <1>2, <2>1, <2>3, <3>1
      DEF Record!Next, Record!Advance, Record!NotRecorded, IsValidTransition
  <2> QED
    BY <2>2, <2>3
<1> QED
    BY <1>4, <1>5

\* A status callback moves the record on, or ends it
LEMMA StatusIsRecord ==
    ASSUME RecordInv, Serial, NEW r \in Reqs, StatusCommit(r)
    PROVE  [Record!Next]_<<callStatus, ended>>
<1>1. CASE ~loc[r].apply
    BY <1>1 DEF StatusCommit
<1>2. CASE loc[r].apply
  <2>1. PICK c \in Sids, p \in ProviderStatus : c = loc[r].sid /\ p = loc[r].arg
    BY DEF StatusCommit, RecordInv, TypeInv, RequestsAim, StatusPhases
  <2>2. PICK new \in CallStates : new = MapTwilioStatus[p]
    BY MapIsCallState
  <2>3. /\ loc[r].status = callStatus[c] /\ callStatus[c] \in CallStates
        /\ IsValidTransition(callStatus[c], new)
        /\ Update(p) \notin events[c] /\ p \in reported[c]
    BY <1>2, <2>1, <2>2
    DEF StatusCommit, Serial, RecordInv, ReportInv, TypeInv, RequestsAim, StatusPhases
  <2>4. /\ callStatus' = [callStatus EXCEPT ![c] = new]
        /\ ended' = IF IsFinal(p) THEN ended \cup {c} ELSE ended
    BY <1>2, <2>1, <2>2, <2>3 DEF StatusCommit, SetsEndedAt, RecordInv, TypeInv, TypeOK
  <2>5. c \notin ended
    <3> SUFFICES ASSUME c \in ended PROVE FALSE
        OBVIOUS
    <3>1. PICK q \in ProviderStatus : IsFinal(q) /\ Update(q) \in events[c]
      BY DEF RecordInv, LogInv, EndedMatchesLog
    <3>2. IsFinal(p)
      BY <2>2, <2>3 DEF Serial, IsValidTransition, IsFinal
    <3>3. p = q
      BY <2>3, <3>1, <3>2 DEF RecordInv, ReportInv
    <3> QED
      BY <2>3, <3>1, <3>3
  <2>6. new \in DOMAIN StateOrder /\ callStatus[c] # "none"
    BY <2>3 DEF StateOrder, CallStates, TerminalStates
  <2>7. CASE IsFinal(p)
    <3>1. Record!End(c, new)
      BY <2>2, <2>4, <2>5, <2>6, <2>7 DEF Record!End, Record!NotRecorded, IsFinal
    <3> QED
      BY <2>6, <3>1 DEF Record!Next
  <2>8. CASE ~IsFinal(p)
    <3>1. Record!Advance(c, new)
      BY <2>3, <2>4, <2>5, <2>6, <2>8
      DEF Record!Advance, Record!NotRecorded, IsValidTransition
    <3> QED
      BY <2>6, <3>1 DEF Record!Next
  <2> QED
    BY <2>7, <2>8
<1> QED
    BY <1>1, <1>2

\* No other step writes the record
LEMMA StepIsRecord ==
    ASSUME RecordInv, Serial, [Next]_vars
    PROVE  [Record!Next]_<<callStatus, ended>>
<1>1. ASSUME NEW r \in Reqs, Arrive(r) PROVE UNCHANGED <<callStatus, ended>>
    BY <1>1 DEF Arrive, InboundLoad, StatusLoad, ConvLoad, BridgeLoad, rows
<1>2. ASSUME NEW r \in Reqs, Step(r)
      PROVE  \/ UNCHANGED <<callStatus, ended>>
             \/ InboundCommit(r) \/ InboundBlocked(r) \/ StatusCommit(r)
    BY <1>2 DEF Step, SessionLoad, SessionCommit, StatusCheck, StatusLookup,
                ConvCommit, BridgeCommit, Rollback, rows
<1>3. UNCHANGED <<callStatus, ended>> => [Record!Next]_<<callStatus, ended>>
    OBVIOUS
<1> QED
    BY <1>1, <1>2, <1>3, OtherSteps, InboundIsRecord, StatusIsRecord

\* The handler that takes a step is alone afterwards, and still right in what it read
LEMMA HandlerKeepsReads ==
    ASSUME RecordInv, Serial, ~Overlap', NEW r \in Reqs, Arrive(r) \/ Step(r)
    PROVE  \A q \in Reqs :
             (/\ pc[q] \in StatusPhases \cup {"inbound"} =>
                    loc[q].status = callStatus[loc[q].sid]
              /\ pc[q] = "inbound" => loc[q].sid \notin ended
              /\ pc[q] \in {"lookup", "settle"} /\ loc[q].apply =>
                    IsValidTransition(loc[q].status, MapTwilioStatus[loc[q].arg]))'
<1> USE DEF RecordInv, TypeInv, TypeOK, StatusPhases
<1>1. \A q \in Reqs \ {r} : pc'[q] = "idle"
  <2>1. ASSUME Arrive(r) PROVE pc'[r] # "idle"
    BY <2>1 DEF Arrive, InboundLoad, StatusLoad, ConvLoad, BridgeLoad
  <2>2. ASSUME Step(r) PROVE pc[r] # "idle" /\ \A q \in Reqs \ {r} : pc'[q] = pc[q]
    BY <2>2 DEF Step, InboundCommit, InboundBlocked, SessionLoad, SessionCommit, StatusCheck,
                StatusLookup, StatusCommit, ConvCommit, BridgeCommit, Rollback, Finish
  <2> QED
    BY <2>1, <2>2 DEF Serial, Overlap
<1>2. CASE Arrive(r)
  <2>1. UNCHANGED <<callStatus, ended>>
    BY <1>2 DEF Arrive, InboundLoad, StatusLoad, ConvLoad, BridgeLoad, rows
  <2>2. ASSUME NEW c \in Sids, InboundLoad(r, c)
        PROVE  /\ pc'[r] = "inbound" /\ loc'[r].sid = c /\ loc'[r].status = callStatus[c]
               /\ c \notin ended
    <3>1. pc'[r] = "inbound" /\ loc'[r].sid = c /\ loc'[r].status = callStatus[c]
      BY <2>2 DEF InboundLoad, Fresh
    <3>2. ~IsFinal("ringing") /\ reported[c] = {"ringing"}
      BY <2>2 DEF InboundLoad, IsFinal, MapTwilioStatus, TerminalStates, ProviderStatus
    <3>3. c \notin ended
      BY <3>2 DEF LogInv, EndedMatchesLog, ReportInv
    <3> QED
      BY <3>1, <3>3
  <2>3. ASSUME NEW c \in Sids, NEW p \in Reports, NEW d \in BOOLEAN, StatusLoad(r, c, p, d)
        PROVE  pc'[r] = "check" /\ loc'[r].sid = c /\ loc'[r].status = callStatus[c]
    BY <2>3 DEF StatusLoad, Fresh
  <2>4. ASSUME NEW c \in Sids, NEW e \in BridgeEvents, NEW k \in Convs,
               ConvLoad(r, c) \/ BridgeLoad(r, c, e, k)
        PROVE  pc'[r] \in {"conv", "bridge"}
    BY <2>4 DEF ConvLoad, BridgeLoad
  <2>5. "stream_ended" \in BridgeEvents /\ NoSid \in Convs
    BY DEF BridgeEvents, Convs
  <2>6. ASSUME NEW q \in Reqs \ {r}
        PROVE  pc'[q] \notin StatusPhases \cup {"inbound"}
    BY <1>1
  <2>7. /\ pc'[r] \in StatusPhases \cup {"inbound"} =>
                loc'[r].status = callStatus'[loc'[r].sid]
        /\ pc'[r] = "inbound" => loc'[r].sid \notin ended'
        /\ pc'[r] \notin {"lookup", "settle"}
    <3>1. CASE \E c \in Sids : InboundLoad(r, c)
      BY <2>1, <2>2, <3>1
    <3>2. CASE \E c \in Sids, p \in Reports, d \in BOOLEAN : StatusLoad(r, c, p, d)
      BY <2>1, <2>3, <3>2
    <3>3. CASE \E c \in Sids : \/ ConvLoad(r, c)
                               \/ \E e \in BridgeEvents, k \in Convs : BridgeLoad(r, c, e, k)
      <4>1. pc'[r] \in {"conv", "bridge"}
        BY <2>4, <2>5, <3>3
      <4> QED
        BY <4>1
    <3> QED
      BY <1>2, <3>1, <3>2, <3>3 DEF Arrive
  <2> QED
    BY <2>6, <2>7
<1>3. CASE Step(r)
  <2>1. CASE StatusCheck(r)
    <3>1. /\ UNCHANGED <<callStatus, ended>> /\ pc[r] = "check" /\ pc'[r] \in {"lookup", "settle"}
          /\ loc'[r].sid = loc[r].sid /\ loc'[r].arg = loc[r].arg
          /\ loc'[r].status = loc[r].status
          /\ loc'[r].apply => IsValidTransition(loc[r].status, MapTwilioStatus[loc[r].arg])
      <4>1. UNCHANGED <<callStatus, ended>> /\ pc[r] = "check"
            /\ pc'[r] \in {"lookup", "settle"}
        BY <2>1 DEF StatusCheck, rows
      <4>2. loc[r] \in Locals
        OBVIOUS
      <4>3. /\ loc'[r].sid = loc[r].sid /\ loc'[r].arg = loc[r].arg
            /\ loc'[r].status = loc[r].status
        BY <2>1, <4>2 DEF StatusCheck, Locals
      <4>4. loc'[r].apply = (/\ IsValidTransition(loc[r].status, MapTwilioStatus[loc[r].arg])
                             /\ ~Seen(loc[r].sid, loc[r].arg))
        BY <2>1, <4>2 DEF StatusCheck, Locals
      <4> QED
        BY <4>1, <4>3, <4>4
    <3>2. IsValidTransition(loc[r].status, MapTwilioStatus[loc[r].arg])' <=>
              IsValidTransition(loc[r].status, MapTwilioStatus[loc[r].arg])
      BY <3>1 DEF IsValidTransition
    <3> QED
      BY <1>1, <3>1, <3>2 DEF Serial
  <2>2. CASE StatusLookup(r)
    <3>1. /\ UNCHANGED <<callStatus, ended>> /\ pc[r] = "lookup" /\ pc'[r] = "settle"
          /\ loc'[r].sid = loc[r].sid /\ loc'[r].arg = loc[r].arg
          /\ loc'[r].status = loc[r].status /\ loc'[r].apply = loc[r].apply
      BY <2>2 DEF StatusLookup, rows, Locals
    <3>2. IsValidTransition(loc[r].status, MapTwilioStatus[loc[r].arg])' <=>
              IsValidTransition(loc[r].status, MapTwilioStatus[loc[r].arg])
      BY <3>1 DEF IsValidTransition
    <3> QED
      BY <1>1, <3>1, <3>2 DEF Serial
  <2>3. CASE ~StatusCheck(r) /\ ~StatusLookup(r)
    <3>1. pc'[r] \in {"idle", "screen", "connect"}
      BY <1>3, <2>3 DEF Step, InboundCommit, InboundBlocked, SessionLoad, SessionCommit,
                        StatusCommit, ConvCommit, BridgeCommit, Rollback, Finish
    <3> QED
      BY <1>1, <3>1
  <2> QED
    BY <2>1, <2>2, <2>3
<1> QED
    BY <1>2, <1>3

\* A call without a record was not blocked, whatever step comes
LEMMA BlockedHasRecord ==
    ASSUME RecordInv, Serial, [Next]_vars, [Record!Next]_<<callStatus, ended>>,
           NEW c \in Sids, callStatus'[c] = "none"
    PROVE  <<"call_blocked", "blocked">> \notin events'[c]
<1> USE DEF RecordInv, TypeInv, TypeOK
<1>1. callStatus[c] = "none"
  <2>1. CASE UNCHANGED callStatus
    BY <2>1
  <2>2. ASSUME NEW k \in Sids, NEW s \in DOMAIN StateOrder,
               Record!Record(k, s) \/ Record!End(k, s)
        PROVE  callStatus[c] = "none"
    BY <2>2 DEF Record!Record, Record!End, TerminalStates
  <2>3. ASSUME NEW k \in Sids, NEW s \in DOMAIN StateOrder, Record!Advance(k, s)
        PROVE  callStatus[c] = "none"
    <3>1. StateOrder["none"] = -1 /\ \A x \in CallStates : StateOrder[x] \in Nat
      BY DEF StateOrder, CallStates, TerminalStates
    <3>2. callStatus[k] \in CallStates
      BY <2>3 DEF Record!Advance, Record!NotRecorded
    <3>3. s # "none"
      BY <2>3, <3>1, <3>2 DEF Record!Advance
    <3> QED
      BY <2>3, <3>3 DEF Record!Advance
  <2> QED
    BY <2>1, <2>2, <2>3 DEF Record!Next
<1>2. <<"call_blocked", "blocked">> \notin events[c]
    BY <1>1 DEF Serial
<1>3. ASSUME NEW r \in Reqs, StatusCommit(r) PROVE <<"call_blocked", "blocked">> \notin events'[c]
  <2>1. PICK e, k : e = Update(loc[r].arg) /\ k = loc[r].sid
    OBVIOUS
  <2>2. e # <<"call_blocked", "blocked">>
    BY <2>1 DEF Update
  <2>3. events' = [events EXCEPT ![k] = events[k] \cup {e}] \/ events' = events
    BY <1>3, <2>1, StatusLogs
  <2>4. CASE events' = events
    BY <1>2, <2>4
  <2>5. CASE events' = [events EXCEPT ![k] = events[k] \cup {e}]
    <3>1. CASE c = k
      BY <1>2, <2>2, <2>5, <3>1
    <3>2. CASE c # k
      BY <1>2, <2>5, <3>2
    <3> QED
      BY <3>1, <3>2
  <2> QED
    BY <2>3, <2>4, <2>5
<1>4. ASSUME NEW r \in Reqs, InboundCommit(r)
      PROVE  <<"call_blocked", "blocked">> \notin events'[c]
  <2>1. <<"call_blocked", "blocked">> \notin InboundEvents
    BY DEF InboundEvents
  <2> QED
    BY <1>2, <1>4, <2>1 DEF InboundCommit
<1>5. ASSUME NEW r \in Reqs, InboundBlocked(r), loc[r].sid = c PROVE FALSE
  <2>1. loc[r].status = "none"
    BY <1>1, <1>5 DEF InboundBlocked, Serial
  <2>2. callStatus'[c] # "none"
    BY <1>5, <2>1 DEF InboundBlocked
  <2> QED
    BY <2>2
<1>6. ASSUME NEW r \in Reqs, InboundBlocked(r), loc[r].sid # c PROVE events'[c] = events[c]
    BY <1>6 DEF InboundBlocked
<1>7. ASSUME NEW r \in Reqs, Arrive(r) PROVE UNCHANGED events
    BY <1>7 DEF Arrive, InboundLoad, StatusLoad, ConvLoad, BridgeLoad, rows
<1>8. ASSUME NEW r \in Reqs, Step(r)
      PROVE  \/ UNCHANGED events
             \/ InboundCommit(r) \/ InboundBlocked(r) \/ StatusCommit(r)
    BY <1>8 DEF Step, SessionLoad, SessionCommit, StatusCheck, StatusLookup,
                ConvCommit, BridgeCommit, Rollback, rows
<1> QED
    BY <1>2, <1>3, <1>4, <1>5, <1>6, <1>7, <1>8
    DEF Next, TwilioReport, TalkStarts, PatchCall, rows, vars

LEMMA SerialStep == SerialInv /\ [Next /\ Hist]_<<vars, overlapped>> => SerialInv'
<1> SUFFICES ASSUME SerialInv, [Next /\ Hist]_<<vars, overlapped>> PROVE SerialInv'
    OBVIOUS
<1>1. [Next]_vars
    OBVIOUS
<1>2. RecordInv'
    BY <1>1, TypeStep, AimStep, LogStep, ReportStep DEF SerialInv, RecordInv, TypeInv
<1>3. overlapped' \in BOOLEAN /\ (~overlapped' => ~overlapped)
    BY DEF Hist, SerialInv
<1>4. ASSUME ~overlapped' PROVE Serial'
  <2>1. RecordInv /\ Serial
    BY <1>3, <1>4 DEF SerialInv
  <2>2. [Record!Next]_<<callStatus, ended>>
    BY <1>1, <2>1, StepIsRecord
  <2>3. \A c \in ended' : callStatus'[c] \in TerminalStates
    <3>1. /\ \A c \in ended : callStatus[c] \in TerminalStates /\ c \in Sids
          /\ callStatus \in [Sids -> CallStates \cup {"none"}]
      BY <2>1 DEF Serial, RecordInv, TypeInv, TypeOK
    <3>2. CASE UNCHANGED <<callStatus, ended>>
      BY <3>1, <3>2
    <3>3. ASSUME NEW k \in Sids, NEW s \in DOMAIN StateOrder,
                 Record!Record(k, s) \/ Record!Advance(k, s)
          PROVE  \A c \in ended' : callStatus'[c] \in TerminalStates
      <4>1. k \notin ended /\ UNCHANGED ended
        BY <3>1, <3>3 DEF Record!Record, Record!Advance, Record!NotRecorded, TerminalStates
      <4>2. callStatus' = [callStatus EXCEPT ![k] = s]
        BY <3>3 DEF Record!Record, Record!Advance
      <4> QED
        BY <3>1, <4>1, <4>2
    <3>4. ASSUME NEW k \in Sids, NEW s \in DOMAIN StateOrder, Record!End(k, s)
          PROVE  \A c \in ended' : callStatus'[c] \in TerminalStates
      <4>1. s \in TerminalStates /\ ended' = ended \cup {k}
            /\ callStatus' = [callStatus EXCEPT ![k] = s]
        BY <3>4 DEF Record!End
      <4> QED
        BY <3>1, <4>1
    <3> QED
      BY <2>2, <3>2, <3>3, <3>4 DEF Record!Next
  <2>4. \A c \in Sids : callStatus'[c] = "none" =>
            <<"call_blocked", "blocked">> \notin events'[c]
    BY <1>1, <2>1, <2>2, BlockedHasRecord
  <2>5. CASE UNCHANGED <<pc, loc, callStatus, ended>>
    BY <2>1, <2>3, <2>4, <2>5 DEF Serial, IsValidTransition
  <2>6. ASSUME NEW r \in Reqs, Arrive(r) \/ Step(r), Hist PROVE Serial'
    <3>1. ~Overlap'
      BY <1>4, <2>6 DEF Hist
    <3> QED
      BY <2>1, <2>3, <2>4, <2>6, <3>1, HandlerKeepsReads DEF Serial, Overlap
  <2> QED
    BY <2>5, <2>6 DEF Next, TwilioReport, TalkStarts, PatchCall, rows, vars
<1> QED
    BY <1>2, <1>3, <1>4 DEF SerialInv

\* Handlers that do not overlap keep the promise about a call record: recorded
\* once, moved only forward, ended once (call_service.py transition_call_status).
THEOREM RecordIsKept == HistSpec => RecordSpec
<1>1. HistInit => Record!Init
    BY DEF HistInit, Init, Record!Init, Record!NotRecorded
<1>2. SerialInv /\ SerialInv' /\ [Next /\ Hist]_<<vars, overlapped>> =>
          [~overlapped' => [Record!Next]_<<callStatus, ended>>]_<<vars, overlapped>>
  <2> SUFFICES ASSUME SerialInv, Next, Hist, ~overlapped'
               PROVE  [Record!Next]_<<callStatus, ended>>
      OBVIOUS
  <2>1. RecordInv /\ Serial
    BY DEF SerialInv, Hist
  <2> QED
    BY <2>1, StepIsRecord
<1> QED
    BY <1>1, <1>2, SerialInit, SerialStep, PTL DEF HistSpec, RecordSpec
=============================================================================
