------------------------ MODULE RealtimeBridgeProofs ------------------------
(***************************************************************************)
(* The slots of the realtime bridge for any number of streams and users:   *)
(* the counters balance, the caps hold, and the two maps of the process    *)
(* implement SessionPool.                                                  *)
(***************************************************************************)
EXTENDS RealtimeBridge, FiniteSetTheorems, SequenceTheorems, TLAPS

\* A stream has a session only after its start message.
StartedFirst == \A s \in ctx : start[s] \in {"fetching", "done"}

BridgeInv == TypeOK /\ SlotsBalance /\ StartedFirst /\ IsFiniteSet(active)

Mine(u) == {s \in active : Owner[s] = u}

LEMMA BridgeInit == Init => BridgeInv
<1> SUFFICES ASSUME Init PROVE BridgeInv
    OBVIOUS
<1>1. TypeOK
    BY DEF Init, TypeOK, SocketStates
<1>2. \A u \in Users : {s \in active : Owner[s] = u} = {}
    BY DEF Init
<1>3. IsFiniteSet({}) /\ Cardinality({}) = 0
    BY FS_EmptySet
<1> QED
    BY <1>1, <1>2, <1>3 DEF Init, BridgeInv, SlotsBalance, StartedFirst

\* A user's slots are finitely many.
LEMMA MineFinite ==
    ASSUME BridgeInv, NEW u \in Users
    PROVE  IsFiniteSet(Mine(u)) /\ Cardinality(Mine(u)) \in Nat
<1>1. IsFiniteSet(Mine(u))
    BY FS_Subset DEF BridgeInv, Mine
<1> QED
    BY <1>1, FS_CardinalityType

\* FreeSlot takes the slot away and keeps the books.
LEMMA FreeSlotKeeps ==
    ASSUME BridgeInv, NEW s \in ctx, FreeSlot(s), ctx' = ctx \ {s}
    PROVE  /\ SlotsBalance'
           /\ count' \in [Users -> Nat]
           /\ IsFiniteSet(active')
<1> DEFINE o == Owner[s]
<1>1. s \in active /\ s \in Streams /\ o \in Users
    BY OwnerAssumption DEF BridgeInv, SlotsBalance, TypeOK
<1>2. IsFiniteSet(active')
    BY FS_RemoveElement DEF FreeSlot, BridgeInv
<1>3. active' = ctx'
    BY DEF FreeSlot, BridgeInv, SlotsBalance
<1>4. \A u \in Users \ {o} : Mine(u)' = Mine(u)
    BY <1>1 DEF FreeSlot, Mine
<1>5. Mine(o)' = Mine(o) \ {s} /\ s \in Mine(o)
    BY <1>1 DEF FreeSlot, Mine
<1>6. Cardinality(Mine(o)') = Cardinality(Mine(o)) - 1
    BY <1>1, <1>5, MineFinite, FS_RemoveElement
<1>7. Cardinality(Mine(o)) \in Nat /\ Cardinality(Mine(o)') \in Nat
    BY <1>1, <1>5, MineFinite, FS_RemoveElement, FS_CardinalityType
<1>8. \A u \in Users : count[u] = Cardinality(Mine(u)) /\ count[u] \in Nat
    BY DEF BridgeInv, SlotsBalance, Mine, TypeOK
<1>9. count' = [count EXCEPT ![o] = Cardinality(Mine(o)')]
  <2>1. (IF count[o] <= 1 THEN 0 ELSE count[o] - 1) = Cardinality(Mine(o)')
    BY <1>1, <1>6, <1>7, <1>8
  <2>2. count' = [count EXCEPT ![o] = IF count[o] <= 1 THEN 0 ELSE count[o] - 1]
    BY DEF FreeSlot
  <2> QED
    BY <2>1, <2>2
<1>10. \A u \in Users : count'[u] = Cardinality(Mine(u)')
    BY <1>1, <1>4, <1>8, <1>9 DEF BridgeInv, TypeOK
<1>11. count' \in [Users -> Nat]
    BY <1>1, <1>7, <1>9 DEF BridgeInv, TypeOK
<1> QED
    BY <1>2, <1>3, <1>10, <1>11 DEF SlotsBalance, Mine

EventTypes == {"stream_connected", "ai_session_created", "stream_ended", "stream_error"}

AppEvents == {"CALL_STARTED", "CALL_ENDED"}

StartStates == {"none", "refused", "fetching", "done"}

AgentStates == {"none", "connecting", "open", "closing", "closed"}

\* One more event for the backend, or for the app, keeps the logs typed.
LEMMA PostedType ==
    ASSUME TypeOK, NEW s \in Streams, NEW e \in EventTypes
    PROVE  Posted(s, e) \in [Streams -> Seq(EventTypes)]
<1>1. emitted[s] \in Seq(EventTypes)
    BY DEF TypeOK, EventTypes
<1>2. Append(emitted[s], e) \in Seq(EventTypes)
    BY <1>1
<1> QED
    BY <1>2 DEF TypeOK, Posted, EventTypes

LEMMA ShownType ==
    ASSUME TypeOK, NEW s \in Streams, NEW e \in AppEvents
    PROVE  Shown(s, e) \in [Streams -> Seq(AppEvents)]
<1>1. shown[s] \in Seq(AppEvents)
    BY DEF TypeOK, AppEvents
<1>2. Append(shown[s], e) \in Seq(AppEvents)
    BY <1>1
<1> QED
    BY <1>2 DEF TypeOK, Shown, AppEvents

\* cleanup() keeps types and books, whether or not the stream has a session.
LEMMA CleanupKeeps ==
    ASSUME BridgeInv, TypeOK, NEW s \in Streams, NEW e \in EventTypes,
           NEW w \in SocketStates, NEW a \in AgentStates,
           Cleanup(s, e, w, a), talking' \in SUBSET Streams,
           start' \in [Streams -> StartStates],
           \A t \in ctx : start'[t] \in {"fetching", "done"}
    PROVE  BridgeInv'
<1>1. CASE HasSession(s)
  <2>1. s \in ctx /\ FreeSlot(s) /\ ctx' = ctx \ {s}
    BY <1>1 DEF Cleanup, HasSession
  <2>2. SlotsBalance' /\ count' \in [Users -> Nat] /\ IsFiniteSet(active')
    BY <2>1, FreeSlotKeeps
  <2>3. active' \in SUBSET Streams /\ ctx' \in SUBSET Streams
    BY <2>1 DEF FreeSlot, BridgeInv, TypeOK
  <2>4. emitted' \in [Streams -> Seq(EventTypes)]
    BY <1>1, PostedType DEF Cleanup
  <2>5. shown' \in [Streams -> Seq(AppEvents)]
    BY <1>1, ShownType DEF Cleanup, AppEvents
  <2>6. sock' \in [Streams -> SocketStates] /\ agent' \in [Streams -> AgentStates]
    BY <1>1, ZenonT(60) DEF Cleanup, BridgeInv, TypeOK, SocketStates, AgentStates
  <2>7. ref' \in SUBSET Streams /\ StartedFirst'
    BY <1>1, <2>1 DEF Cleanup, BridgeInv, TypeOK, StartedFirst
  <2> QED
    BY <2>2, <2>3, <2>4, <2>5, <2>6, <2>7
    DEF BridgeInv, TypeOK, EventTypes, AgentStates, AppEvents, StartStates
<1>2. CASE ~HasSession(s)
    BY <1>2, ZenonT(60) DEF Cleanup, BridgeInv, TypeOK, SocketStates, AgentStates,
                StartStates, SlotsBalance, StartedFirst
<1> QED
    BY <1>1, <1>2

LEMMA BridgeStep == BridgeInv /\ [Next]_vars => BridgeInv'
<1> SUFFICES ASSUME BridgeInv, [Next]_vars PROVE BridgeInv'
    OBVIOUS
<1>1. ASSUME NEW s \in Streams, TwilioConnects(s) PROVE BridgeInv'
    BY <1>1 DEF TwilioConnects, BridgeInv, TypeOK, SocketStates, SlotsBalance,
                StartedFirst
<1>2. ASSUME NEW s \in Streams, StreamStarts(s) PROVE BridgeInv'
  <2> DEFINE o == Owner[s]
  <2>1. s \notin active /\ o \in Users
    BY <1>2, OwnerAssumption DEF StreamStarts, BridgeInv, SlotsBalance, StartedFirst
  <2>2. \A u \in Users \ {o} : Mine(u)' = Mine(u)
    BY <1>2 DEF StreamStarts, Mine
  <2>3. Mine(o)' = Mine(o) \cup {s} /\ s \notin Mine(o)
    BY <1>2, <2>1 DEF StreamStarts, Mine
  <2>4. Cardinality(Mine(o)') = Cardinality(Mine(o)) + 1
    BY <2>1, <2>3, MineFinite, FS_AddElement
  <2>5. \A u \in Users : count[u] = Cardinality(Mine(u))
    BY DEF BridgeInv, SlotsBalance, Mine
  <2>6. \A u \in Users : count'[u] = Cardinality(Mine(u)')
    BY <1>2, <2>1, <2>2, <2>4, <2>5 DEF StreamStarts, BridgeInv, TypeOK
  <2>7. SlotsBalance'
    BY <1>2, <2>6 DEF StreamStarts, BridgeInv, SlotsBalance, Mine
  <2>8. IsFiniteSet(active')
    BY <1>2, FS_AddElement DEF StreamStarts, BridgeInv
  <2>9. TypeOK'
    BY <1>2, <2>1 DEF StreamStarts, BridgeInv, TypeOK
  <2>10. StartedFirst'
    BY <1>2 DEF StreamStarts, BridgeInv, StartedFirst, TypeOK
  <2> QED
    BY <2>7, <2>8, <2>9, <2>10 DEF BridgeInv
<1>3. ASSUME NEW s \in Streams, StreamRefused(s) PROVE BridgeInv'
    BY <1>3 DEF StreamRefused, BridgeInv, TypeOK, SocketStates, SlotsBalance,
                StartedFirst
<1>4. ASSUME NEW s \in Streams, AgentFound(s) PROVE BridgeInv'
  <2>1. emitted' \in [Streams -> Seq(EventTypes)]
    <3>1. <<"stream_connected", "ai_session_created">> \in Seq(EventTypes)
      BY DEF EventTypes
    <3>2. emitted[s] \o <<"stream_connected", "ai_session_created">> \in Seq(EventTypes)
      BY <3>1 DEF BridgeInv, TypeOK, EventTypes
    <3>3. Append(emitted[s], "stream_connected") \in Seq(EventTypes)
      BY DEF BridgeInv, TypeOK, EventTypes
    <3> QED
      BY <1>4, <3>2, <3>3 DEF AgentFound, Resume, Posted, BridgeInv, TypeOK, EventTypes
  <2>2. shown' \in [Streams -> Seq(AppEvents)]
    <3>1. Shown(s, "CALL_STARTED") \in [Streams -> Seq(AppEvents)]
      BY ShownType DEF BridgeInv, AppEvents
    <3> QED
      BY <1>4, <3>1 DEF AgentFound, Resume, BridgeInv, TypeOK, AppEvents
  <2>3. ref' \in SUBSET Streams /\ agent' \in [Streams -> AgentStates]
    BY <1>4 DEF AgentFound, Resume, BridgeInv, TypeOK, AgentStates
  <2>4. start' \in [Streams -> {"none", "refused", "fetching", "done"}]
        /\ StartedFirst'
    BY <1>4 DEF AgentFound, BridgeInv, TypeOK, StartedFirst
  <2>5. UNCHANGED <<sock, ctx, active, count, talking>>
    BY <1>4 DEF AgentFound
  <2> QED
    BY <2>1, <2>2, <2>3, <2>4, <2>5
    DEF BridgeInv, TypeOK, SlotsBalance, EventTypes, AgentStates, AppEvents
<1>5. ASSUME NEW s \in Streams, AgentMissing(s) PROVE BridgeInv'
  <2> DEFINE w == IF sock[s] = "open" THEN "closing" ELSE sock[s]
  <2>1. w \in SocketStates /\ agent[s] \in AgentStates
    BY DEF BridgeInv, TypeOK, SocketStates, AgentStates
  <2>2. Cleanup(s, "stream_ended", w, agent[s]) /\ talking' \in SUBSET Streams
    BY <1>5 DEF AgentMissing, BridgeInv, TypeOK
  <2>3. start' \in [Streams -> StartStates]
        /\ \A t \in ctx : start'[t] \in {"fetching", "done"}
    BY <1>5 DEF AgentMissing, BridgeInv, TypeOK, StartedFirst, StartStates
  <2>4. "stream_ended" \in EventTypes
    BY DEF EventTypes
  <2> HIDE DEF w
  <2> QED
    BY <2>1, <2>2, <2>3, <2>4, CleanupKeeps DEF BridgeInv
<1>6. ASSUME NEW s \in Streams, TwilioStops(s) PROVE BridgeInv'
    BY <1>6, CleanupKeeps
    DEF TwilioStops, EventTypes, AgentStates, StartStates, StartedFirst, BridgeInv,
        TypeOK
<1>7. ASSUME NEW s \in Streams, TwilioErrors(s) PROVE BridgeInv'
    BY <1>7, CleanupKeeps
    DEF TwilioErrors, EventTypes, AgentStates, SocketStates, StartStates, StartedFirst,
        BridgeInv, TypeOK
<1>8. ASSUME NEW s \in Streams, TwilioCloses(s) PROVE BridgeInv'
    BY <1>8, CleanupKeeps
    DEF TwilioCloses, Closed, EventTypes, AgentStates, SocketStates, StartStates, StartedFirst,
        BridgeInv, TypeOK
<1>9. ASSUME NEW s \in Streams, AgentOpens(s) PROVE BridgeInv'
    BY <1>9 DEF AgentOpens, BridgeInv, TypeOK, SlotsBalance, StartedFirst
<1>10. ASSUME NEW s \in Streams, AgentErrors(s) PROVE BridgeInv'
    BY <1>10, CleanupKeeps
    DEF AgentErrors, EventTypes, AgentStates, StartStates, StartedFirst, BridgeInv,
        TypeOK
<1>11. ASSUME NEW s \in Streams, AgentCloses(s) PROVE BridgeInv'
    BY <1>11, CleanupKeeps
    DEF AgentCloses, EventTypes, AgentStates, StartStates, StartedFirst, BridgeInv,
        TypeOK
<1>12. CASE Restart
  <2>1. TypeOK' /\ StartedFirst'
    BY <1>12 DEF Restart, BridgeInv, TypeOK, StartedFirst, SocketStates
  <2>2. \A u \in Users : {s \in active' : Owner[s] = u} = {}
    BY <1>12 DEF Restart
  <2> QED
    BY <1>12, <2>1, <2>2, FS_EmptySet DEF Restart, BridgeInv, SlotsBalance
<1>13. CASE UNCHANGED vars
    BY <1>13 DEF vars, BridgeInv, TypeOK, SlotsBalance, StartedFirst
<1> QED
    BY <1>1, <1>2, <1>3, <1>4, <1>5, <1>6, <1>7, <1>8, <1>9, <1>10, <1>11,
       <1>12, <1>13 DEF Next, Callback

LEMMA BridgeInvariant == Spec => []BridgeInv
    BY BridgeInit, BridgeStep, PTL DEF Spec

\* Every variable of the bridge keeps its domain, for any number of streams.
THEOREM TypesHold == Spec => []TypeOK
<1>1. BridgeInv => TypeOK
    BY DEF BridgeInv
<1> QED
    BY BridgeInvariant, <1>1, PTL

\* The map of sessions and the per-user counters never drift apart
\* (twilioMedia.ts:127-131, 262-268).
THEOREM SlotsAlwaysBalance == Spec => []SlotsBalance
<1>1. BridgeInv => SlotsBalance
    BY DEF BridgeInv
<1> QED
    BY BridgeInvariant, <1>1, PTL

----------------------------------------------------------------------------
(* The caps and the refinement need only what a step does to the slots. *)

Over == {s \in Streams : start[s] \in {"fetching", "done"} /\ s \notin active}

Takes(s) ==
    /\ s \notin active \cup Over /\ Admits(s)
    /\ active' = active \cup {s} /\ Over' = Over

GivesBack(S) ==
    /\ S # {} /\ S \subseteq active
    /\ active' = active \ S /\ Over' = Over \cup S

SlotStep ==
    \/ \E s \in Streams : Takes(s)
    \/ \E S \in SUBSET active : GivesBack(S)
    \/ active' = active /\ Over' = Over

\* cleanup() gives the stream's slot back, if it has one.
LEMMA CleanupGivesBack ==
    ASSUME BridgeInv, NEW s \in Streams, NEW e, NEW w, NEW a,
           Cleanup(s, e, w, a),
           \A t \in Streams : start'[t] \in {"fetching", "done"}
                            <=> start[t] \in {"fetching", "done"}
    PROVE  SlotStep
<1>1. CASE HasSession(s)
  <2>1. s \in active /\ start[s] \in {"fetching", "done"}
    BY <1>1 DEF HasSession, BridgeInv, SlotsBalance, StartedFirst
  <2>2. active' = active \ {s}
    BY <1>1 DEF Cleanup, FreeSlot
  <2>3. Over' = Over \cup {s}
    BY <2>1, <2>2 DEF Over
  <2>4. GivesBack({s})
    BY <2>1, <2>2, <2>3 DEF GivesBack
  <2> QED
    BY <2>1, <2>4 DEF SlotStep
<1>2. CASE ~HasSession(s)
  <2>1. active' = active
    BY <1>2 DEF Cleanup
  <2> QED
    BY <2>1 DEF SlotStep, Over
<1> QED
    BY <1>1, <1>2

LEMMA SlotSteps == BridgeInv /\ [Next]_vars => SlotStep
<1> SUFFICES ASSUME BridgeInv, [Next]_vars PROVE SlotStep
    OBVIOUS
<1>1. ASSUME NEW s \in Streams,
             TwilioConnects(s) \/ StreamRefused(s) \/ AgentFound(s) \/ AgentOpens(s)
      PROVE  SlotStep
  <2>1. active' = active
    BY <1>1 DEF TwilioConnects, StreamRefused, AgentFound, AgentOpens
  <2>2. \A t \in Streams : start'[t] \in {"fetching", "done"}
                         <=> start[t] \in {"fetching", "done"}
    BY <1>1 DEF TwilioConnects, StreamRefused, AgentFound, AgentOpens,
                BridgeInv, TypeOK
  <2> QED
    BY <2>1, <2>2 DEF SlotStep, Over
<1>2. ASSUME NEW s \in Streams, StreamStarts(s) PROVE SlotStep
  <2>1. s \notin active /\ start[s] = "none"
    BY <1>2 DEF StreamStarts, BridgeInv, SlotsBalance, StartedFirst
  <2>2. active' = active \cup {s} /\ Admits(s)
    BY <1>2 DEF StreamStarts
  <2>3. Over' = Over /\ s \notin Over
    BY <1>2, <2>1, <2>2 DEF StreamStarts, Over, BridgeInv, TypeOK
  <2> QED
    BY <2>1, <2>2, <2>3 DEF SlotStep, Takes
<1>3. ASSUME NEW s \in Streams,
             TwilioStops(s) \/ TwilioErrors(s) \/ TwilioCloses(s)
             \/ AgentErrors(s) \/ AgentCloses(s)
      PROVE  SlotStep
  <2>1. start' = start
    BY <1>3 DEF TwilioStops, TwilioErrors, TwilioCloses, AgentErrors, AgentCloses
  <2>2. \E e, w, a : Cleanup(s, e, w, a)
    BY <1>3 DEF TwilioStops, TwilioErrors, TwilioCloses, Closed, AgentErrors,
                AgentCloses
  <2> QED
    BY <2>1, <2>2, CleanupGivesBack
<1>4. ASSUME NEW s \in Streams, AgentMissing(s) PROVE SlotStep
  <2>1. \A t \in Streams : start'[t] \in {"fetching", "done"}
                         <=> start[t] \in {"fetching", "done"}
    BY <1>4 DEF AgentMissing, BridgeInv, TypeOK
  <2>2. \E e, w, a : Cleanup(s, e, w, a)
    BY <1>4 DEF AgentMissing
  <2> QED
    BY <2>1, <2>2, CleanupGivesBack
<1>5. CASE Restart
  <2>1. active' = active \ active
    BY <1>5 DEF Restart
  <2>2. \A t \in Streams : start'[t] \in {"fetching", "done"}
                         <=> start[t] \in {"fetching", "done"}
    BY <1>5 DEF Restart, BridgeInv, TypeOK
  <2>3. \A t \in active : t \in Streams /\ start[t] \in {"fetching", "done"}
    BY DEF BridgeInv, SlotsBalance, StartedFirst, TypeOK
  <2>4. Over' = Over \cup active
    BY <2>1, <2>2, <2>3 DEF Over
  <2>5. CASE active = {}
    BY <2>1, <2>4, <2>5 DEF SlotStep
  <2>6. CASE active # {}
    BY <2>1, <2>4, <2>6 DEF SlotStep, GivesBack
  <2> QED
    BY <2>5, <2>6
<1>6. CASE UNCHANGED vars
    BY <1>6 DEF vars, SlotStep, Over
<1> QED
    BY <1>1, <1>2, <1>3, <1>4, <1>5, <1>6 DEF Next, Callback

\* A step keeps the caps: the counter it tests is the number of slots.
LEMMA CapsStep == BridgeInv /\ CapsHold /\ SlotStep => CapsHold'
<1> SUFFICES ASSUME BridgeInv, CapsHold, SlotStep PROVE CapsHold'
    OBVIOUS
<1>1. ASSUME NEW s \in Streams, Takes(s) PROVE CapsHold'
  <2>1. Cardinality(active') <= MaxSessions
    <3>1. Cardinality(active') = Cardinality(active) + 1
      BY <1>1, FS_AddElement DEF Takes, BridgeInv
    <3>2. Cardinality(active) \in Nat
      BY FS_CardinalityType DEF BridgeInv
    <3> QED
      BY <1>1, <3>1, <3>2, CapAssumption DEF Takes, Admits
  <2>2. ASSUME NEW u \in Users PROVE Cardinality(Mine(u)') <= MaxPerUser
    <3>1. CASE u = Owner[s]
      <4>1. Mine(u)' = Mine(u) \cup {s} /\ s \notin Mine(u)
        BY <1>1, <3>1 DEF Takes, Mine
      <4>2. Cardinality(Mine(u)') = Cardinality(Mine(u)) + 1
        BY <4>1, MineFinite, FS_AddElement
      <4>3. Cardinality(Mine(u)) < MaxPerUser
        BY <1>1, <3>1 DEF Takes, Admits, BridgeInv, SlotsBalance, Mine
      <4> QED
        BY <4>2, <4>3, MineFinite, CapAssumption
    <3>2. CASE u # Owner[s]
      <4>1. Mine(u)' = Mine(u)
        BY <1>1, <3>2 DEF Takes, Mine
      <4> QED
        BY <4>1 DEF CapsHold, Mine
    <3> QED
      BY <3>1, <3>2
  <2> QED
    BY <2>1, <2>2 DEF CapsHold, Mine
<1>2. ASSUME NEW S \in SUBSET active, GivesBack(S) PROVE CapsHold'
  <2>1. Cardinality(active') <= Cardinality(active) /\ Cardinality(active') \in Nat
        /\ Cardinality(active) \in Nat
    BY <1>2, FS_Subset, FS_CardinalityType DEF GivesBack, BridgeInv
  <2>2. ASSUME NEW u \in Users PROVE Cardinality(Mine(u)') <= MaxPerUser
    <3>1. Mine(u)' \subseteq Mine(u)
      BY <1>2 DEF GivesBack, Mine
    <3>2. Cardinality(Mine(u)') <= Cardinality(Mine(u))
          /\ Cardinality(Mine(u)') \in Nat /\ Cardinality(Mine(u)) \in Nat
      BY <3>1, MineFinite, FS_Subset, FS_CardinalityType
    <3>3. Cardinality(Mine(u)) <= MaxPerUser
      BY DEF CapsHold, Mine
    <3> QED
      BY <3>2, <3>3, CapAssumption
  <2> QED
    BY <2>1, <2>2, CapAssumption DEF CapsHold, Mine
<1>3. CASE active' = active
    BY <1>3 DEF CapsHold
<1> QED
    BY <1>1, <1>2, <1>3 DEF SlotStep

\* The bridge never holds more streams than its caps, whatever they are and
\* however many streams arrive (twilioMedia.ts:108-121).
THEOREM CapsAlwaysHold == Spec => []CapsHold
<1>1. Init => CapsHold
  <2> SUFFICES ASSUME Init PROVE CapsHold
    OBVIOUS
  <2>1. \A u \in Users : {s \in active : Owner[s] = u} = {}
    BY DEF Init
  <2> QED
    BY <2>1, FS_EmptySet, CapAssumption DEF Init, CapsHold
<1>2. BridgeInv /\ CapsHold /\ [Next]_vars => CapsHold'
    BY SlotSteps, CapsStep
<1> QED
    BY BridgeInvariant, <1>1, <1>2, PTL DEF Spec

\* The sessions and the counters of the process implement SessionPool, for
\* any number of streams and any caps.
THEOREM BridgeImplementsPool == Spec => PoolSpec
<1>1. Init => Pool!Init
    BY DEF Init, Pool!Init
<1>2. BridgeInv /\ [Next]_vars => [Pool!Next]_<<active, Over>>
  <2> SUFFICES ASSUME BridgeInv, SlotStep
               PROVE  [Pool!Next]_<<active, Over>>
    BY SlotSteps
  <2>1. ASSUME NEW s \in Streams, Takes(s) PROVE Pool!Next
    <3>1. count[Owner[s]] = Cardinality({t \in active : Owner[t] = Owner[s]})
      BY OwnerAssumption DEF BridgeInv, SlotsBalance
    <3>0. \A S : Pool!Cardinality(S) = Cardinality(S)
      BY DEF Pool!Cardinality, Cardinality
    <3>2. Pool!Acquire(s)
      BY <2>1, <3>0, <3>1 DEF Takes, Over, Admits, Pool!Acquire, Pool!HeldBy
    <3> QED
      BY <3>2 DEF Pool!Next
  <2>2. ASSUME NEW S \in SUBSET active, GivesBack(S) PROVE Pool!Next
    <3>1. Pool!Release(S)
      BY <2>2 DEF GivesBack, Over, Pool!Release
    <3> QED
      BY <3>1 DEF Pool!Next
  <2>3. CASE active' = active /\ Over' = Over
    BY <2>3
  <2> QED
    BY <2>1, <2>2, <2>3 DEF SlotStep
<1> QED
    BY BridgeInvariant, <1>1, <1>2, PTL DEF Spec, PoolSpec, Pool!Spec, Over

----------------------------------------------------------------------------
(* The reports: what the backend and the app heard of each stream. *)

Started(s) == start[s] \in {"fetching", "done"}

Reported(s) ==
    /\ s \in ctx => /\ Ended(s) = {} /\ sock[s] \in {"open", "closing"}
                    /\ shown[s] \in {<<>>, <<"CALL_STARTED">>}
                    /\ start[s] = "fetching" => shown[s] = <<>>
    /\ ~Started(s) => emitted[s] = <<>> /\ shown[s] = <<>>
    /\ Started(s) /\ s \notin ctx /\ sock[s] # "lost" => Cardinality(Ended(s)) = 1
    /\ shown[s] \in {<<>>, <<"CALL_STARTED">>, <<"CALL_ENDED">>,
                     <<"CALL_STARTED", "CALL_ENDED">>}

ReportInv == \A s \in Streams : Reported(s)

EndTypes == {"stream_ended", "stream_error"}

\* What one more event makes of the ends that were posted.
LEMMA EndedPosted ==
    ASSUME TypeOK, NEW s \in Streams, NEW e \in EventTypes,
           emitted'[s] = Append(emitted[s], e)
    PROVE  Ended(s)' = IF e \in EndTypes THEN Ended(s) \cup {Len(emitted[s]) + 1} ELSE Ended(s)
<1> DEFINE l == emitted[s]
           k == Append(l, e)
<1>1. l \in Seq(EventTypes) /\ Len(l) \in Nat
    BY DEF TypeOK, EventTypes
<1>2. /\ DOMAIN l = 1 .. Len(l) /\ DOMAIN k = 1 .. Len(l) + 1
      /\ \A i \in 1 .. Len(l) : k[i] = l[i]
      /\ k[Len(l) + 1] = e
    BY <1>1
<1>3. Ended(s) = {i \in DOMAIN l : l[i] \in EndTypes}
      /\ Ended(s)' = {i \in DOMAIN k : k[i] \in EndTypes}
    BY DEF Ended, EndTypes
<1> HIDE DEF l, k
<1>4. DOMAIN k = DOMAIN l \cup {Len(l) + 1}
    BY <1>1, <1>2
<1>5. ASSUME e \in EndTypes PROVE {i \in DOMAIN k : k[i] \in EndTypes}
                                    = {i \in DOMAIN l : l[i] \in EndTypes} \cup {Len(l) + 1}
    BY <1>2, <1>4, <1>5
<1>6. ASSUME e \notin EndTypes PROVE {i \in DOMAIN k : k[i] \in EndTypes}
                                       = {i \in DOMAIN l : l[i] \in EndTypes}
    BY <1>2, <1>4, <1>6
<1> QED
    BY <1>3, <1>5, <1>6 DEF l

LEMMA AppendedOne == ASSUME NEW S, NEW a \in S PROVE Append(<<>>, a) = <<a>>
OBVIOUS

LEMMA AppendedTwo == ASSUME NEW S, NEW a \in S, NEW b \in S PROVE Append(<<a>>, b) = <<a, b>>
<1>1. <<a>> \in Seq(S) /\ Len(<<a>>) = 1 /\ <<a>>[1] = a
    OBVIOUS
<1>2. PICK p : p = <<a>>
    OBVIOUS
<1>3. p \in Seq(S) /\ Len(p) = 1 /\ p[1] = a
    BY <1>1, <1>2
<1>4. PICK q : q = Append(p, b)
    OBVIOUS
<1>5. q \in Seq(S) /\ Len(q) = 2 /\ q[1] = a /\ q[2] = b
  <2>1. \A s \in Seq(S) : /\ Append(s, b) \in Seq(S) /\ Len(Append(s, b)) = Len(s) + 1
                          /\ \A i \in 1 .. Len(s) : Append(s, b)[i] = s[i]
                          /\ Append(s, b)[Len(s) + 1] = b
    BY AppendProperties
  <2>2. q \in Seq(S) /\ Len(q) = Len(p) + 1
        /\ (\A i \in 1 .. Len(p) : q[i] = p[i]) /\ q[Len(p) + 1] = b
    BY <1>3, <1>4, <2>1
  <2> QED
    BY <1>3, <2>2
<1>6. <<a, b>> \in Seq(S) /\ Len(<<a, b>>) = 2 /\ <<a, b>>[1] = a /\ <<a, b>>[2] = b
    OBVIOUS
<1>7. \A i \in 1 .. Len(q) : q[i] = <<a, b>>[i]
    BY <1>5, <1>6
<1>8. q = <<a, b>>
    BY <1>5, <1>6, <1>7, SeqEqual
<1> QED
    BY <1>2, <1>4, <1>8

\* Another stream's callback leaves the reports of a stream alone.
LEMMA OthersReported ==
    ASSUME NEW s \in Streams, Reported(s), s \in ctx' <=> s \in ctx,
           emitted'[s] = emitted[s], shown'[s] = shown[s], sock'[s] = sock[s],
           start'[s] = start[s]
    PROVE  Reported(s)'
BY DEF Reported, Ended, Started

\* cleanup() posts the end of a stream that has a session, and only then.
LEMMA CleanupReports ==
    ASSUME BridgeInv, ReportInv, NEW s \in Streams, NEW e \in EndTypes, NEW w, NEW a,
           Cleanup(s, e, w, a), w # "lost" => sock[s] # "lost",
           start' = start \/ (start[s] = "fetching" /\ start' = [start EXCEPT ![s] = "done"])
    PROVE  ReportInv'
<1>0. TypeOK /\ e \in EventTypes /\ (Started(s) <=> Started(s)')
    BY DEF BridgeInv, EndTypes, EventTypes, Started, TypeOK
<1>1. sock' = [sock EXCEPT ![s] = sock'[s]] /\ sock'[s] \in {w, "closing"}
      /\ (s \notin ctx => sock'[s] = w)
    BY <1>0 DEF Cleanup, HasSession, TypeOK
<1>2. Reported(s)'
  <2>1. CASE s \in ctx
    <3>1. s \notin ctx' /\ Started(s)' /\ Reported(s)
      BY <1>0, <2>1 DEF Cleanup, HasSession, BridgeInv, StartedFirst, Started, ReportInv
    <3>2. emitted'[s] = Append(emitted[s], e) /\ shown'[s] = Append(shown[s], "CALL_ENDED")
      BY <1>0, <2>1 DEF Cleanup, HasSession, Posted, Shown, TypeOK
    <3>3. Ended(s)' = {Len(emitted[s]) + 1}
      BY <1>0, <2>1, <3>1, <3>2, EndedPosted DEF Reported
    <3>4. Cardinality(Ended(s)') = 1
      BY <3>3, FS_Singleton
    <3>5. shown'[s] \in {<<"CALL_ENDED">>, <<"CALL_STARTED", "CALL_ENDED">>}
      <4>1. Append(<<>>, "CALL_ENDED") = <<"CALL_ENDED">>
            /\ Append(<<"CALL_STARTED">>, "CALL_ENDED") = <<"CALL_STARTED", "CALL_ENDED">>
        <5>1. "CALL_STARTED" \in AppEvents /\ "CALL_ENDED" \in AppEvents
          BY DEF AppEvents
        <5>2. Append(<<>>, "CALL_ENDED") = <<"CALL_ENDED">>
          BY <5>1, AppendedOne
        <5>3. Append(<<"CALL_STARTED">>, "CALL_ENDED") = <<"CALL_STARTED", "CALL_ENDED">>
          BY <5>1, AppendedTwo
        <5> QED
          BY <5>2, <5>3
      <4>2. shown[s] = <<>> \/ shown[s] = <<"CALL_STARTED">>
        BY <2>1, <3>1 DEF Reported
      <4> QED
        BY <3>2, <4>1, <4>2
    <3> QED
      BY <3>1, <3>4, <3>5 DEF Reported
  <2>2. CASE s \notin ctx
    <3>1. UNCHANGED <<ctx, emitted, shown>> /\ sock'[s] = w /\ Reported(s)
      BY <1>1, <2>2 DEF Cleanup, HasSession, ReportInv
    <3> QED
      BY <1>0, <2>2, <3>1 DEF Reported, Ended
  <2> QED
    BY <2>1, <2>2
<1>3. ASSUME NEW t \in Streams, t # s PROVE Reported(t)'
  <2>1. (t \in ctx' <=> t \in ctx) /\ emitted'[t] = emitted[t] /\ shown'[t] = shown[t]
    BY <1>0, <1>3 DEF Cleanup, Posted, Shown, TypeOK
  <2>2. sock'[t] = sock[t] /\ start'[t] = start[t]
    BY <1>0, <1>1, <1>3 DEF TypeOK
  <2> QED
    BY <2>1, <2>2, OthersReported DEF ReportInv
<1> QED
    BY <1>2, <1>3 DEF ReportInv

LEMMA ReportStep == BridgeInv /\ ReportInv /\ [Next]_vars => ReportInv'
<1> SUFFICES ASSUME BridgeInv, ReportInv, [Next]_vars PROVE ReportInv'
    OBVIOUS
<1>0. TypeOK
    BY DEF BridgeInv
<1>1. ASSUME NEW s \in Streams, TwilioConnects(s) \/ StreamRefused(s) \/ StreamStarts(s)
      PROVE  ReportInv'
  <2>1. UNCHANGED <<emitted, shown>> /\ \A t \in Streams \ {s} :
          (t \in ctx' <=> t \in ctx) /\ sock'[t] = sock[t] /\ start'[t] = start[t]
    BY <1>0, <1>1 DEF TwilioConnects, StreamRefused, StreamStarts, TypeOK
  <2>2. \A t \in Streams \ {s} : Reported(t)'
    BY <2>1, OthersReported DEF ReportInv
  <2>3. sock[s] # "lost" /\ s \notin ctx /\ Reported(s)
    BY <1>1 DEF TwilioConnects, StreamRefused, StreamStarts, ReportInv, Reported, BridgeInv,
                StartedFirst
  <2>4. ASSUME TwilioConnects(s) PROVE Reported(s)'
    BY <1>0, <2>3, <2>4 DEF TwilioConnects, Reported, Started, Ended, TypeOK
  <2>5. ASSUME StreamRefused(s) PROVE Reported(s)'
    BY <1>0, <2>3, <2>5 DEF StreamRefused, Reported, Started, Ended, TypeOK
  <2>6. ASSUME StreamStarts(s) PROVE Reported(s)'
    <3>1. ~Started(s) /\ sock'[s] = "open" /\ s \in ctx'
      BY <2>6 DEF StreamStarts, Started
    <3>2. emitted'[s] = <<>> /\ shown'[s] = <<>>
      BY <2>3, <2>6, <3>1 DEF StreamStarts, Reported
    <3>3. Ended(s)' = {} /\ Started(s)'
      BY <1>0, <2>6, <3>2 DEF StreamStarts, Ended, Started, TypeOK
    <3> QED
      BY <3>1, <3>2, <3>3 DEF Reported
  <2> QED
    BY <1>1, <2>2, <2>4, <2>5, <2>6 DEF ReportInv
<1>2. ASSUME NEW s \in Streams, AgentFound(s) PROVE ReportInv'
  <2>1. UNCHANGED <<sock, ctx>> /\ start[s] = "fetching" /\ start'[s] = "done"
        /\ \A t \in Streams \ {s} : start'[t] = start[t] /\ emitted'[t] = emitted[t]
                                    /\ shown'[t] = shown[t]
    BY <1>0, <1>2 DEF AgentFound, Resume, Posted, Shown, TypeOK
  <2>2. \A t \in Streams \ {s} : Reported(t)'
    BY <2>1, OthersReported DEF ReportInv
  <2>3. Reported(s) /\ Started(s) /\ Started(s)'
    BY <2>1 DEF ReportInv, Started
  <2>4. ASSUME s \in ctx PROVE Reported(s)'
    <3>1. shown'[s] = Append(shown[s], "CALL_STARTED") /\ shown[s] = <<>>
      BY <1>0, <1>2, <2>1, <2>3, <2>4 DEF AgentFound, Resume, Shown, Reported, TypeOK
    <3>2. emitted'[s] = emitted[s] \o <<"stream_connected", "ai_session_created">>
      BY <1>0, <1>2, <2>4 DEF AgentFound, Resume, TypeOK
    <3>3. Ended(s)' = {}
      <4> DEFINE l == emitted[s]
                 k == l \o <<"stream_connected", "ai_session_created">>
      <4>1. l \in Seq(EventTypes) /\ Len(l) \in Nat
        BY <1>0 DEF TypeOK, EventTypes
      <4>2. /\ DOMAIN l = 1 .. Len(l) /\ DOMAIN k = 1 .. Len(l) + 2
            /\ \A i \in 1 .. Len(l) : k[i] = l[i]
            /\ k[Len(l) + 1] = "stream_connected" /\ k[Len(l) + 2] = "ai_session_created"
        BY <4>1
      <4>3. \A i \in DOMAIN l : l[i] \notin EndTypes
        BY <2>3, <2>4 DEF Reported, Ended, EndTypes
      <4>4. Ended(s)' = {i \in DOMAIN k : k[i] \in EndTypes}
        BY <3>2 DEF Ended, EndTypes
      <4> HIDE DEF l, k
      <4>5. \A i \in DOMAIN k : i \in DOMAIN l \/ i = Len(l) + 1 \/ i = Len(l) + 2
        BY <4>1, <4>2
      <4>6. \A i \in DOMAIN k : k[i] \notin EndTypes
        BY <4>2, <4>3, <4>5 DEF EndTypes
      <4> QED
        BY <4>4, <4>6
    <3> QED
      BY <2>1, <2>3, <2>4, <3>1, <3>3 DEF Reported
  <2>5. ASSUME s \notin ctx PROVE Reported(s)'
    <3>1. emitted'[s] = Append(emitted[s], "stream_connected") /\ shown'[s] = shown[s]
      BY <1>0, <1>2, <2>5 DEF AgentFound, Resume, Posted, TypeOK
    <3>2. Ended(s)' = Ended(s)
      BY <1>0, <3>1, EndedPosted DEF EventTypes, EndTypes
    <3> QED
      BY <2>1, <2>3, <2>5, <3>1, <3>2 DEF Reported
  <2> QED
    BY <2>2, <2>4, <2>5 DEF ReportInv
<1>3. ASSUME NEW s \in Streams, AgentOpens(s) PROVE ReportInv'
    BY <1>3, OthersReported DEF AgentOpens, ReportInv
<1>4. ASSUME NEW s \in Streams,
             AgentMissing(s) \/ TwilioStops(s) \/ TwilioErrors(s) \/ TwilioCloses(s)
             \/ AgentErrors(s) \/ AgentCloses(s)
      PROVE  ReportInv'
  <2>1. start' = start \/ (start[s] = "fetching" /\ start' = [start EXCEPT ![s] = "done"])
    BY <1>4 DEF AgentMissing, TwilioStops, TwilioErrors, TwilioCloses, AgentErrors, AgentCloses
  <2>2. \E e \in EndTypes : \E w, a : Cleanup(s, e, w, a) /\ (w # "lost" => sock[s] # "lost")
    BY <1>4 DEF AgentMissing, TwilioStops, TwilioErrors, TwilioCloses, Closed, AgentErrors,
                AgentCloses, EndTypes
  <2> QED
    BY <2>1, <2>2, CleanupReports
<1>5. CASE Restart
  <2> SUFFICES ASSUME NEW s \in Streams PROVE Reported(s)'
    BY DEF ReportInv
  <2>1. UNCHANGED <<emitted, shown>> /\ ctx' = {} /\ (Started(s)' <=> Started(s))
        /\ Ended(s)' = Ended(s)
    BY <1>0, <1>5 DEF Restart, Started, Ended, TypeOK
  <2>2. sock'[s] # "lost" => sock[s] # "lost" /\ s \notin ctx
    BY <1>0, <1>5 DEF Restart, ReportInv, Reported, TypeOK
  <2>3. Reported(s)
    BY DEF ReportInv
  <2> QED
    BY <2>1, <2>2, <2>3 DEF Reported
<1>6. CASE UNCHANGED vars
    BY <1>6, OthersReported DEF vars, ReportInv
<1> QED
    BY <1>1, <1>2, <1>3, <1>4, <1>5, <1>6 DEF Next, Callback

LEMMA ReportInvariant == Spec => []ReportInv
<1>1. Init => ReportInv
    BY DEF Init, ReportInv, Reported, Started
<1> QED
    BY BridgeInvariant, ReportStep, <1>1, PTL DEF Spec

\* The end of every stream is reported once, whichever of the callbacks of the stream
\* come, and in whatever order; only a restart loses it (twilioMedia.ts:242-285).
THEOREM EndIsReportedOnce == Spec => []EndReportedOnce
<1>1. ReportInv => EndReportedOnce
    BY DEF ReportInv, Reported, Started, EndReportedOnce
<1> QED
    BY ReportInvariant, <1>1, PTL

\* The app hears of a call's start before its end, also when the caller hangs up while
\* the start handler waits for the agent (twilioMedia.ts:140-190).
THEOREM AppIsToldInOrder == Spec => []AppSeesOrder
<1>1. ReportInv => AppSeesOrder
    BY DEF ReportInv, Reported, AppSeesOrder
<1> QED
    BY ReportInvariant, <1>1, PTL
=============================================================================
