----------------------------- MODULE SetupProofs -----------------------------
(***************************************************************************)
(* Proofs about the settings screens and the step-up dialog: what "saved"  *)
(* means, what a save may replace, and what a code is good for.  The first *)
(* invariant follows a save from the button through the request, with the  *)
(* revision it expects, to the answer.                                     *)
(***************************************************************************)
EXTENDS SettingsScreens, StepUp, SequenceTheorems, TLAPS

Written(f, v) == \E i \in 1 .. Now : hist[i].f = f /\ hist[i].v = v

(* The document and the saves under way: the revision a save expects is    *)
(* that of the version its value was chosen from.                          *)

PutFields == {"pc", "f", "v", "base", "want", "at"}

PutSound(r) ==
  /\ DOMAIN r = PutFields
  /\ r.pc = "fresh" => r.base = 0
  /\ r.base # 0 => r.base \in 1 .. Now /\ r.want = Revision(r.base)
  /\ r.pc = "loaded" => r.at \in 1 .. Now /\ r.want = Revision(r.at)
  /\ r.pc = "stored" => r.at \in 1 .. Now /\ Written(r.f, r.v)

SyncSound ==
  /\ \E S : hist \in Seq(S)
  /\ Now >= 1 /\ store \in 0 .. Now
  /\ DOMAIN get = Loads /\ \A g \in Loads : get[g] \in 0 .. Now
  /\ DOMAIN put = Puts /\ \A p \in Puts : PutSound(put[p])

(* The form shows the store's version, and the handler waits for the save  *)
(* it started.                                                             *)

FollowsStore(s) == s \in FormScreens \ {"ProfileSettings"}

AllScreens == FormScreens \cup SwitchScreens \cup {"Account"}

FormSound ==
  /\ scr \in AllScreens
  /\ DOMAIN form = {"base", "on", "det", "edit", "dirty"}
  /\ form.base = IF FollowsStore(scr) THEN store ELSE 0

FlowFields == {"scr", "v", "base", "todo", "with", "ok", "said", "gone"}

\* What a handler has done so far; q is put, which it may be waiting for.
FlowSoundFor(fl, q) ==
  /\ DOMAIN fl = FlowFields
  /\ fl.with = "other" /\ fl.todo # <<>> => fl.scr = "ProfileSettings" /\ fl.base = 0
  /\ fl.with # "none" => fl.said = "busy"
  /\ fl.said \in {"saved", "modal"} => fl.ok \/ fl.scr = "ProfileSettings"
  /\ fl.scr # "ProfileSettings" /\ fl.with \in Puts
       => q[fl.with].pc # "idle" /\ q[fl.with].f = fl.scr /\ q[fl.with].v = fl.v
  /\ fl.scr # "ProfileSettings" /\ fl.with \notin Puts /\ fl.said # "nothing" /\ fl.ok
       => Written(fl.scr, fl.v)

SettingsInv == SyncSound /\ FormSound /\ FlowSoundFor(flow, put)

LEMMA SettingsStart == SettingsInit => SettingsInv
<1> SUFFICES ASSUME SettingsInit PROVE SettingsInv
  OBVIOUS
<1>1. PICK e : e = [rev |-> 1, f |-> "any", v |-> Default]
  OBVIOUS
<1>2. hist = <<e>> /\ hist \in Seq({e}) /\ Len(hist) = 1
  BY <1>1 DEF SettingsInit, SyncInit
<1>3. SyncSound
  <2>1. \A p \in Puts : put[p] = NoPut
    BY DEF SettingsInit, SyncInit
  <2>2. PutSound(NoPut)
    BY DEF PutSound, NoPut, PutFields
  <2>3. store = 0 /\ DOMAIN get = Loads /\ DOMAIN put = Puts /\ \A g \in Loads : get[g] = 0
    BY DEF SettingsInit, SyncInit
  <2>4. \E S : hist \in Seq(S)
    BY <1>2
  <2>5. Now = 1
    BY <1>2 DEF Now
  <2> QED
    BY <2>1, <2>2, <2>3, <2>4, <2>5 DEF SyncSound
<1>4. FormSound
  BY DEF FormSound, SettingsInit, NoForm, FollowsStore, FormScreens, AllScreens
<1>5. FlowSoundFor(flow, put)
  BY SettingsAssumption DEF SettingsAssumption, FlowSoundFor, FlowFields, SettingsInit, NoFlow
<1> QED
  BY <1>3, <1>4, <1>5 DEF SettingsInv

----------------------------------------------------------------------------
(* The document only grows. *)

Grown == hist' = hist \/ \E e : hist' = Append(hist, e)

LEMMA HistoryGrows ==
  ASSUME SyncSound, NEW e, hist' = Append(hist, e)
  PROVE  /\ \E S : hist' \in Seq(S)
         /\ Now \in Nat /\ Now' = Now + 1 /\ hist'[Now + 1] = e
         /\ \A i \in 1 .. Now : hist'[i] = hist[i]
<1>1. PICK S : hist \in Seq(S)
  BY DEF SyncSound
<1>2. hist \in Seq(S \cup {e})
  BY <1>1
<1>3. hist' \in Seq(S \cup {e}) /\ Len(hist') = Len(hist) + 1 /\ Len(hist) \in Nat
      /\ hist'[Len(hist) + 1] = e /\ \A i \in 1 .. Len(hist) : hist'[i] = hist[i]
  BY <1>2, AppendProperties
<1> QED
  BY <1>3 DEF Now

LEMMA Durable ==
  ASSUME SyncSound, Grown
  PROVE  /\ \E S : hist' \in Seq(S)
         /\ Now \in Nat /\ Now' \in Nat /\ Now' >= Now
         /\ \A f, v : Written(f, v) => Written(f, v)'
         /\ \A i \in 0 .. Now : Revision(i)' = Revision(i)
         /\ \A r : PutSound(r) => PutSound(r)'
<1>1. /\ \E S : hist' \in Seq(S)
      /\ Now \in Nat /\ Now' \in Nat /\ Now' >= Now
      /\ \A i \in 1 .. Now : hist'[i] = hist[i]
  <2>1. CASE hist' = hist
    <3>1. PICK S : hist \in Seq(S)
      BY DEF SyncSound
    <3>2. Now \in Nat /\ Now' = Now
      BY <3>1, <2>1 DEF Now
    <3> QED
      BY <3>1, <3>2, <2>1
  <2>2. CASE \E e : hist' = Append(hist, e)
    <3>1. PICK e : hist' = Append(hist, e)
      BY <2>2
    <3>2. /\ \E S : hist' \in Seq(S)
          /\ Now \in Nat /\ Now' = Now + 1
          /\ \A i \in 1 .. Now : hist'[i] = hist[i]
      BY <3>1, HistoryGrows
    <3> QED
      BY <3>2
  <2> QED
    BY <2>1, <2>2 DEF Grown
<1>2. \A f, v : Written(f, v) => Written(f, v)'
  BY <1>1 DEF Written
<1>3. \A i \in 0 .. Now : Revision(i)' = Revision(i)
  BY <1>1 DEF Revision
<1>4. ASSUME NEW r, PutSound(r) PROVE PutSound(r)'
  BY <1>1, <1>2, <1>3, <1>4 DEF PutSound
<1> QED
  BY <1>1, <1>2, <1>3, <1>4

\* The step of one part keeps the whole, once what it writes is sound.
LEMMA SyncKeeps ==
  ASSUME SyncSound, Grown, store' \in 0 .. Now',
         DOMAIN get' = Loads, \A g \in Loads : get'[g] \in 0 .. Now',
         DOMAIN put' = Puts, \A p \in Puts : put'[p] = put[p] \/ PutSound(put[p])'
  PROVE  SyncSound'
<1>1. /\ \E S : hist' \in Seq(S)
      /\ Now \in Nat /\ Now' \in Nat /\ Now' >= Now
      /\ \A r : PutSound(r) => PutSound(r)'
  BY Durable
<1>2. \A p \in Puts : PutSound(put[p])'
  <2> SUFFICES ASSUME NEW p \in Puts PROVE PutSound(put[p])'
    OBVIOUS
  <2>1. PutSound(put[p])
    BY DEF SyncSound
  <2>2. ASSUME put'[p] = put[p] PROVE PutSound(put[p])'
    BY <1>1, <2>1, <2>2 DEF PutSound
  <2> QED
    BY <2>2
<1> QED
  BY <1>1, <1>2 DEF SyncSound

----------------------------------------------------------------------------
(* The operations of the store and the server. *)

\* What an operation on put[p] leaves of the other saves.
Only(p) == \A q \in Puts \ {p} : put'[q] = put[q]

\* The group and the value of a save stay while it is under way.
Goes(p) == put'[p].pc # "idle" /\ put'[p].f = put[p].f /\ put'[p].v = put[p].v

LEMMA OtherDeviceKeeps ==
  ASSUME SyncSound, NEW f, NEW v, OtherDevice(f, v)
  PROVE  SyncSound' /\ Grown
<1>1. Grown
  BY DEF OtherDevice, Commit, Grown
<1>2. Now \in Nat /\ Now' \in Nat /\ Now' >= Now
  BY <1>1, Durable
<1>3. UNCHANGED <<store, get, put>>
  BY DEF OtherDevice
<1> QED
  BY <1>1, <1>2, <1>3, SyncKeeps DEF SyncSound

LEMMA PutLoadKeeps ==
  ASSUME SyncSound, NEW p \in Puts, PutLoad(p)
  PROVE  SyncSound' /\ Grown /\ Only(p) /\ Goes(p) /\ store' = store
<1>1. PutSound(put[p]) /\ DOMAIN put = Puts
  BY DEF SyncSound
<1>2. hist' = hist /\ Grown
  BY DEF PutLoad, Grown
<1>3. Now \in Nat /\ Now' = Now /\ Now >= 1
  BY <1>2, Durable DEF SyncSound, Now
<1>4. DOMAIN put[p] = PutFields
  BY <1>1 DEF PutSound
<1>5. /\ DOMAIN put'[p] = PutFields
      /\ put'[p].pc \in {"loaded", "conflict"} /\ put'[p].at = Now
      /\ put'[p].pc = "loaded" => put[p].want = Revision(Now)
      /\ put'[p].f = put[p].f /\ put'[p].v = put[p].v
      /\ put'[p].base = put[p].base /\ put'[p].want = put[p].want
  BY <1>1, <1>4 DEF PutLoad, PutFields
<1>6. PutSound(put[p])'
  BY <1>1, <1>2, <1>3, <1>5 DEF PutSound, Revision
<1>7. Only(p) /\ DOMAIN put' = Puts
  BY <1>1 DEF PutLoad, Only
<1>8. UNCHANGED <<store, get>>
  BY DEF PutLoad
<1> QED
  BY <1>2, <1>3, <1>5, <1>6, <1>7, <1>8, SyncKeeps DEF SyncSound, Only, Goes

LEMMA PutCommitKeeps ==
  ASSUME SyncSound, NEW p \in Puts, PutCommit(p)
  PROVE  SyncSound' /\ Grown /\ Only(p) /\ Goes(p) /\ store' = store
<1>1. PutSound(put[p]) /\ DOMAIN put = Puts
  BY DEF SyncSound
<1>2. PICK e : e = [rev |-> Revision(put[p].at) + 1, f |-> put[p].f, v |-> put[p].v]
  OBVIOUS
<1>3. hist' = Append(hist, e) /\ e.f = put[p].f /\ e.v = put[p].v
  BY <1>2 DEF PutCommit, Commit
<1>4. Grown
  BY <1>3 DEF Grown
<1>5. Now \in Nat /\ Now' = Now + 1 /\ hist'[Now + 1] = e
  BY <1>3, HistoryGrows
<1>6. \A i \in 0 .. Now : Revision(i)' = Revision(i)
  BY <1>4, Durable
<1>7. DOMAIN put[p] = PutFields
  BY <1>1 DEF PutSound
<1>8. /\ DOMAIN put'[p] = PutFields
      /\ put'[p].pc = "stored" /\ put'[p].at = Now + 1
      /\ put'[p].f = put[p].f /\ put'[p].v = put[p].v
      /\ put'[p].base = put[p].base /\ put'[p].want = put[p].want
  BY <1>1, <1>7 DEF PutCommit, PutFields
<1>9. PutSound(put[p])'
  <2>1. Written(put[p].f, put[p].v)'
    BY <1>3, <1>5, <1>8 DEF Written
  <2>2. put'[p].base # 0
          => put'[p].base \in 1 .. Now' /\ put'[p].want = Revision(put[p].base)'
    BY <1>1, <1>5, <1>6, <1>8 DEF PutSound, Revision
  <2> QED
    BY <1>5, <1>8, <2>1, <2>2 DEF PutSound
<1>10. Only(p) /\ DOMAIN put' = Puts
  BY <1>1 DEF PutCommit, Only
<1>11. UNCHANGED <<store, get>>
  BY DEF PutCommit
<1> QED
  BY <1>4, <1>5, <1>8, <1>9, <1>10, <1>11, SyncKeeps DEF SyncSound, Only, Goes

LEMMA PutFreshKeeps ==
  ASSUME SyncSound, NEW p \in Puts, PutFresh(p)
  PROVE  SyncSound' /\ Grown /\ Only(p) /\ Goes(p)
<1>1. PutSound(put[p]) /\ DOMAIN put = Puts
  BY DEF SyncSound
<1>2. hist' = hist /\ Grown
  BY DEF PutFresh, Grown
<1>3. Now \in Nat /\ Now' = Now /\ Now >= 1
  BY <1>2, Durable DEF SyncSound, Now
<1>4. DOMAIN put[p] = PutFields
  BY <1>1 DEF PutSound
<1>5. /\ DOMAIN put'[p] = PutFields /\ put'[p].pc = "sent"
      /\ put'[p].f = put[p].f /\ put'[p].v = put[p].v /\ put'[p].base = put[p].base
  BY <1>1, <1>4 DEF PutFresh, PutFields
<1>6. PutSound(put[p])'
  BY <1>1, <1>5 DEF PutSound, PutFresh
<1>7. Only(p) /\ DOMAIN put' = Puts /\ store' = Now /\ get' = get
  BY <1>1 DEF PutFresh, Only
<1> QED
  BY <1>2, <1>3, <1>5, <1>6, <1>7, SyncKeeps DEF SyncSound, Only, Goes

\* A save that is over leaves nothing behind.
LEMMA PutEnds ==
  ASSUME SyncSound, NEW p \in Puts, put' = [put EXCEPT ![p] = NoPut],
         UNCHANGED <<hist, get>>, store' \in 0 .. Now
  PROVE  SyncSound' /\ Grown /\ Only(p)
<1>1. DOMAIN put' = Puts /\ put'[p] = NoPut /\ Only(p)
  BY DEF SyncSound, Only
<1>2. Now' = Now /\ Grown
  BY DEF Now, Grown
<1>3. PutSound(put[p])'
  BY <1>1 DEF PutSound, NoPut, PutFields
<1> QED
  BY <1>1, <1>2, <1>3, SyncKeeps DEF SyncSound, Only

LEMMA LoadKeeps ==
  ASSUME SyncSound, UNCHANGED <<hist, put>>, store' \in 0 .. Now,
         NEW g, NEW i \in 0 .. Now, get' = [get EXCEPT ![g] = i]
  PROVE  SyncSound' /\ Grown
<1>1. Now' = Now /\ Grown
  BY DEF Now, Grown
<1>2. DOMAIN get' = Loads /\ \A h \in Loads : get'[h] \in 0 .. Now
  BY DEF SyncSound
<1> QED
  BY <1>1, <1>2, SyncKeeps DEF SyncSound

\* The value of a press was chosen from the version the store has, or from none.
LEMMA StartPutKeeps ==
  ASSUME SyncSound, NEW p \in Puts, NEW f, NEW v, NEW b \in {0, store},
         StartPut(p, f, v, b)
  PROVE  /\ SyncSound' /\ Grown /\ Only(p) /\ UNCHANGED store
         /\ put[p].pc = "idle"
         /\ put'[p].pc # "idle" /\ put'[p].f = f /\ put'[p].v = v
<1>1. PICK r : r = [pc |-> IF store = 0 THEN "fresh" ELSE "sent", f |-> f, v |-> v,
                    base |-> b, want |-> Revision(store), at |-> 0]
  OBVIOUS
<1>2. put' = [put EXCEPT ![p] = r] /\ UNCHANGED <<hist, store, get>> /\ put[p] = NoPut
  BY <1>1 DEF StartPut
<1>3. /\ DOMAIN r = PutFields /\ r.pc \in {"fresh", "sent"} /\ r.f = f /\ r.v = v
      /\ r.base = b /\ r.want = Revision(store)
      /\ r.pc = "fresh" => store = 0
  BY <1>1 DEF PutFields
<1>4. Now \in Nat /\ Now' = Now /\ Grown
  BY <1>2, Durable DEF Now, Grown
<1>5. put'[p] = r /\ DOMAIN put' = Puts /\ Only(p)
  BY <1>2 DEF SyncSound, Only
<1>6. PutSound(put[p])'
  BY <1>2, <1>3, <1>4, <1>5 DEF PutSound, Revision, SyncSound
<1> QED
  BY <1>2, <1>3, <1>4, <1>5, <1>6, SyncKeeps DEF SyncSound, Only, NoPut

----------------------------------------------------------------------------
(* The form and the handler. *)

LEMMA FormFollows ==
  ASSUME FormSound, NEW fl, Follow(fl)
  PROVE  FormSound' /\ flow' = fl
<1>1. PICK x : x = IF store' # store THEN FormFrom(store') ELSE form
  OBVIOUS
<1>2. DOMAIN x = DOMAIN form /\ x.base = IF FollowsStore(scr) THEN store' ELSE 0
  BY <1>1 DEF FormSound, FormFrom, FollowsStore
<1>3. PICK d : form' = [x EXCEPT !.dirty = d]
  BY <1>1 DEF Follow
<1>4. DOMAIN form' = DOMAIN x /\ form'.base = x.base
  BY <1>2, <1>3 DEF FormSound
<1>5. scr' = scr /\ flow' = fl
  BY DEF Follow
<1> QED
  BY <1>2, <1>4, <1>5 DEF FormSound, FollowsStore

\* A handler that goes on as it was, whatever happens to the save it waits for.
LEMMA FlowRests ==
  ASSUME SettingsInv, Grown, flow' = flow,
         flow.with \in Puts => put[flow.with].pc = "idle" \/ Goes(flow.with)
  PROVE  FlowSoundFor(flow, put)'
<1>1. \A f, v : Written(f, v) => Written(f, v)'
  BY Durable DEF SettingsInv
<1>2. FlowSoundFor(flow, put)
  BY DEF SettingsInv
<1> QED
  BY <1>1, <1>2 DEF FlowSoundFor, Goes

LEMMA FlowRestsBut ==
  ASSUME SettingsInv, Grown, flow' = flow, NEW p \in Puts, Only(p),
         p # flow.with \/ put[p].pc = "idle" \/ Goes(p)
  PROVE  FlowSoundFor(flow, put)'
<1>1. ASSUME flow.with \in Puts, flow.with # p PROVE put[flow.with].pc = "idle" \/ Goes(flow.with)
  BY <1>1 DEF Only, Goes
<1> QED
  BY <1>1, FlowRests

LEMMA NoFlowSound ==
  ASSUME SettingsInv, flow' = NoFlow
  PROVE  FlowSoundFor(flow, put)'
BY SettingsAssumption DEF SettingsAssumption, FlowSoundFor, FlowFields, NoFlow

\* The end of a handler that is written as it says.
LEMMA EndedSound ==
  ASSUME NEW fl, DOMAIN fl = FlowFields, fl.with = "none", fl.todo = <<>>,
         fl.ok /\ fl.scr # "ProfileSettings" => Written(fl.scr, fl.v)',
         flow' = Ended(fl)
  PROVE  FlowSoundFor(flow, put)'
<1>1. CASE flow' = NoFlow
  BY <1>1, SettingsAssumption DEF SettingsAssumption, FlowSoundFor, FlowFields, NoFlow
<1>2. CASE flow' # NoFlow
  <2>1. PICK w \in {"modal", "saved"} : flow' = [fl EXCEPT !.said = w]
    BY <1>2 DEF Ended
  <2>2. fl.ok \/ fl.scr = "ProfileSettings"
    BY <1>2 DEF Ended
  <2>3. /\ DOMAIN flow' = FlowFields /\ flow'.with = "none" /\ flow'.todo = <<>>
        /\ flow'.said = w /\ flow'.ok = fl.ok /\ flow'.scr = fl.scr /\ flow'.v = fl.v
        /\ flow'.base = fl.base
    BY <2>1 DEF FlowFields
  <2>4. "none" \notin Puts
    BY SettingsAssumption DEF SettingsAssumption
  <2> QED
    BY <2>1, <2>2, <2>3, <2>4 DEF FlowSoundFor
<1> QED
  BY <1>1, <1>2

LEMMA ReturnedSound ==
  ASSUME SettingsInv, Grown, NEW p \in Puts, Only(p), NEW ok \in BOOLEAN,
         ok => Written(put[p].f, put[p].v), flow' = Returned(p, ok)
  PROVE  FlowSoundFor(flow, put)'
<1>1. CASE flow.with # p
  BY <1>1, FlowRestsBut DEF Returned
<1>2. CASE flow.with = p
  <2>1. PICK fl : fl = [flow EXCEPT !.with = "none", !.ok = ok]
    OBVIOUS
  <2>2. FlowSoundFor(flow, put)
    BY DEF SettingsInv
  <2>3. "none" \notin Puts /\ "other" \notin Puts
    BY SettingsAssumption DEF SettingsAssumption
  <2>4. /\ DOMAIN fl = FlowFields /\ fl.with = "none" /\ fl.ok = ok /\ fl.said = "busy"
        /\ fl.scr = flow.scr /\ fl.v = flow.v /\ fl.todo = flow.todo
    BY <1>2, <2>1, <2>2, <2>3 DEF FlowSoundFor, FlowFields
  <2>5. ok /\ fl.scr # "ProfileSettings" => Written(fl.scr, fl.v)'
    <3>1. \A f, v : Written(f, v) => Written(f, v)'
      BY Durable DEF SettingsInv
    <3> QED
      BY <3>1, <1>2, <2>2, <2>3, <2>4 DEF FlowSoundFor
  <2>6. CASE fl.todo = <<>>
    <3>1. flow' = Ended(fl)
      BY <1>2, <2>1, <2>4, <2>6 DEF Returned
    <3> QED
      BY <2>4, <2>5, <2>6, <3>1, EndedSound
  <2>7. CASE fl.todo # <<>>
    <3>1. flow' = [fl EXCEPT !.with = "other", !.todo = <<>>]
      BY <1>2, <2>1, <2>4, <2>7 DEF Returned
    <3>2. /\ DOMAIN flow' = FlowFields /\ flow'.with = "other" /\ flow'.todo = <<>>
          /\ flow'.said = "busy" /\ flow'.ok = ok
          /\ flow'.scr = fl.scr /\ flow'.v = fl.v
      BY <2>4, <3>1 DEF FlowFields
    <3> QED
      BY <2>3, <2>5, <3>2 DEF FlowSoundFor
  <2> QED
    BY <2>6, <2>7
<1> QED
  BY <1>1, <1>2

----------------------------------------------------------------------------
(* The steps. *)

LEMMA LoadStepKeeps ==
  ASSUME SettingsInv, NEW g \in Loads, Loaded(g) \/ LoadFailed(g), Follow(flow)
  PROVE  SettingsInv'
<1>1. SyncSound /\ get[g] \in 0 .. Now /\ store \in 0 .. Now /\ Now \in Nat
  BY Durable DEF SettingsInv, SyncSound, Grown, Loaded, LoadFailed
<1>2. /\ UNCHANGED <<hist, put>> /\ store' \in 0 .. Now /\ 0 \in 0 .. Now
      /\ get' = [get EXCEPT ![g] = 0]
  BY <1>1 DEF Loaded, LoadFailed
<1>3. SyncSound' /\ Grown
  BY <1>1, <1>2, LoadKeeps
<1>4. FormSound' /\ flow' = flow
  BY FormFollows DEF SettingsInv
<1>5. flow.with \in Puts => put[flow.with].pc = "idle" \/ Goes(flow.with)
  BY <1>2 DEF Goes
<1>6. FlowSoundFor(flow, put)'
  BY <1>3, <1>4, <1>5, FlowRests
<1> QED
  BY <1>3, <1>4, <1>6 DEF SettingsInv

LEMMA PutStepKeeps ==
  ASSUME SettingsInv, NEW p \in Puts, PutFresh(p) \/ PutLoad(p) \/ PutCommit(p), Follow(flow)
  PROVE  SettingsInv'
<1>1. SyncSound' /\ Grown /\ Only(p) /\ Goes(p)
  BY PutFreshKeeps, PutLoadKeeps, PutCommitKeeps DEF SettingsInv
<1>2. FormSound' /\ flow' = flow
  BY FormFollows DEF SettingsInv
<1>3. FlowSoundFor(flow, put)'
  BY <1>1, <1>2, FlowRestsBut
<1> QED
  BY <1>1, <1>2, <1>3 DEF SettingsInv

LEMMA AnswerKeeps ==
  ASSUME SettingsInv, NEW p \in Puts, NEW ok \in BOOLEAN, Follow(Returned(p, ok)),
         \/ ok /\ PutAnswer(p)
         \/ ~ok /\ (PutUnfetched(p) \/ PutLost(p) \/ PutConflict(p))
  PROVE  SettingsInv'
<1>1. SyncSound /\ PutSound(put[p]) /\ store \in 0 .. Now /\ Now >= 1 /\ Now \in Nat
  <2>1. PICK S : hist \in Seq(S)
    BY DEF SettingsInv, SyncSound
  <2> QED
    BY <2>1 DEF SettingsInv, SyncSound, Now
<1>2. put' = [put EXCEPT ![p] = NoPut] /\ UNCHANGED <<hist, get>>
  BY DEF PutAnswer, PutUnfetched, PutLost, PutConflict, Finish
<1>3. ok => put[p].at \in 1 .. Now /\ Written(put[p].f, put[p].v)
  BY <1>1 DEF PutAnswer, PutSound
<1>4. store' \in 0 .. Now
  <2>1. CASE ok
    BY <1>1, <1>3, <2>1 DEF PutAnswer
  <2>2. CASE ~ok
    BY <1>1, <2>2 DEF PutUnfetched, PutLost, PutConflict
  <2> QED
    BY <2>1, <2>2
<1>5. SyncSound' /\ Grown /\ Only(p)
  BY <1>1, <1>2, <1>4, PutEnds
<1>6. FormSound' /\ flow' = Returned(p, ok)
  BY FormFollows DEF SettingsInv
<1>7. FlowSoundFor(flow, put)'
  BY <1>3, <1>5, <1>6, ReturnedSound
<1> QED
  BY <1>5, <1>6, <1>7 DEF SettingsInv

LEMMA ElsewhereKeeps ==
  ASSUME SettingsInv, NEW f, NEW v, Elsewhere(f, v)
  PROVE  SettingsInv'
<1>1. SyncSound' /\ Grown
  BY OtherDeviceKeeps DEF SettingsInv, Elsewhere
<1>2. UNCHANGED <<store, put, scr, form, flow>>
  BY DEF Elsewhere, OtherDevice, screenVars
<1>3. flow.with \in Puts => put[flow.with].pc = "idle" \/ Goes(flow.with)
  BY <1>2 DEF Goes
<1>4. FlowSoundFor(flow, put)'
  BY <1>1, <1>2, <1>3, FlowRests
<1>5. FormSound'
  BY <1>2 DEF SettingsInv, FormSound, FollowsStore
<1> QED
  BY <1>1, <1>4, <1>5 DEF SettingsInv

\* A screen that is left leaves its handler running.
LEMMA EnterKeeps ==
  ASSUME SettingsInv, NEW s \in AllScreens, Enter(s), flow' \in {Left, NoFlow}
  PROVE  SettingsInv'
<1>1. UNCHANGED <<hist, store, put>> /\ scr' = s
  BY DEF Enter
<1>2. SyncSound' /\ Grown
  <2>1. SyncSound /\ store \in 0 .. Now
    BY DEF SettingsInv, SyncSound
  <2>2. Now \in Nat /\ Now' = Now /\ Grown
    BY <1>1, <2>1, Durable DEF Now, Grown
  <2>3. CASE s = "Settings"
    <3>1. get' = get
      BY <2>3 DEF Enter
    <3> QED
      BY <1>1, <2>1, <2>2, <3>1, SyncKeeps DEF SyncSound
  <2>4. CASE s # "Settings"
    <3>1. PICK g : get' = [get EXCEPT ![g] = Now]
      BY <2>4 DEF Enter, StartLoad
    <3>2. Now \in 0 .. Now
      BY <2>2
    <3> QED
      BY <1>1, <2>1, <2>2, <3>1, <3>2, LoadKeeps
  <2> QED
    BY <2>3, <2>4
<1>3. FormSound'
  BY <1>1 DEF SettingsInv, FormSound, FollowsStore, Enter, NoForm
<1>4. FlowSoundFor(flow, put)'
  <2>1. CASE flow' = flow
    BY <1>1, <1>2, <2>1, FlowRests DEF Goes
  <2>2. CASE flow' = NoFlow
    BY <2>2, NoFlowSound
  <2>3. CASE flow' = [flow EXCEPT !.gone = TRUE]
    BY <1>1, <2>3 DEF SettingsInv, FlowSoundFor, FlowFields, Written, Now
  <2> QED
    BY <2>1, <2>2, <2>3 DEF Left
<1> QED
  BY <1>2, <1>3, <1>4 DEF SettingsInv

LEMMA EditKeeps ==
  ASSUME SettingsInv, UNCHANGED <<hist, store, get, put, scr>>, flow' \in {flow, NoFlow},
         DOMAIN form' = DOMAIN form, form'.base = form.base
  PROVE  SettingsInv'
<1>1. SyncSound' /\ Grown
  BY DEF SettingsInv, SyncSound, PutSound, Written, Revision, Now, Grown
<1>2. FormSound'
  BY DEF SettingsInv, FormSound, FollowsStore
<1>3. FlowSoundFor(flow, put)'
  <2>1. CASE flow' = flow
    BY <1>1, <2>1, FlowRests DEF Goes
  <2>2. CASE flow' = NoFlow
    BY <2>2, NoFlowSound
  <2> QED
    BY <2>1, <2>2
<1> QED
  BY <1>1, <1>2, <1>3 DEF SettingsInv

LEMMA DisconnectKeeps ==
  ASSUME SettingsInv, Disconnect
  PROVE  SettingsInv'
<1>1. Grown /\ UNCHANGED <<store, get, put, scr, form, flow>>
  BY DEF Disconnect, Commit, Grown
<1>2. Now \in Nat /\ Now' \in Nat /\ Now' >= Now
  BY <1>1, Durable DEF SettingsInv
<1>3. SyncSound'
  BY <1>1, <1>2, SyncKeeps DEF SettingsInv, SyncSound
<1>4. FormSound'
  BY <1>1 DEF SettingsInv, FormSound, FollowsStore
<1>5. FlowSoundFor(flow, put)'
  BY <1>1, FlowRests DEF Goes
<1> QED
  BY <1>3, <1>4, <1>5 DEF SettingsInv

\* The next call of a handler: a save of what the press saw, or a call with no revision.
LEMMA CallKeeps ==
  ASSUME SettingsInv, NEW fl, Call(fl), UNCHANGED <<scr, form>>,
         DOMAIN fl = FlowFields, fl.said = "busy", fl.base \in {0, store},
         fl.scr = "ProfileSettings" => fl.base = 0,
         fl.scr # "ProfileSettings" => Head(fl.todo) = "put"
  PROVE  SettingsInv'
<1>1. ASSUME Head(fl.todo) = "put" PROVE SettingsInv'
  <2>1. PICK p \in Puts : /\ StartPut(p, fl.scr, fl.v, fl.base)
                          /\ flow' = [fl EXCEPT !.todo = Tail(fl.todo), !.with = p]
    BY <1>1 DEF Call
  <2>2. /\ SyncSound' /\ UNCHANGED store
        /\ put'[p].pc # "idle" /\ put'[p].f = fl.scr /\ put'[p].v = fl.v
    BY <2>1, StartPutKeeps DEF SettingsInv
  <2>3. FormSound'
    BY <2>2 DEF SettingsInv, FormSound, FollowsStore
  <2>4. /\ DOMAIN flow' = FlowFields /\ flow'.with = p /\ flow'.said = "busy"
        /\ flow'.scr = fl.scr /\ flow'.v = fl.v
    BY <2>1 DEF FlowFields
  <2>5. p # "other"
    BY SettingsAssumption DEF SettingsAssumption
  <2>6. FlowSoundFor(flow, put)'
    BY <2>2, <2>4, <2>5 DEF FlowSoundFor
  <2> QED
    BY <2>2, <2>3, <2>6 DEF SettingsInv
<1>2. ASSUME Head(fl.todo) # "put" PROVE SettingsInv'
  <2>1. /\ flow' = [fl EXCEPT !.todo = Tail(fl.todo), !.with = "other"]
        /\ UNCHANGED <<hist, store, get, put>>
    BY <1>2 DEF Call, syncVars
  <2>2. SyncSound' /\ FormSound'
    BY <2>1 DEF SettingsInv, SyncSound, PutSound, Written, Revision, Now, FormSound,
                FollowsStore
  <2>3. /\ DOMAIN flow' = FlowFields /\ flow'.with = "other" /\ flow'.said = "busy"
        /\ flow'.scr = "ProfileSettings" /\ flow'.base = 0
    BY <1>2, <2>1 DEF FlowFields
  <2>4. FlowSoundFor(flow, put)'
    BY <2>3, SettingsAssumption DEF FlowSoundFor, SettingsAssumption
  <2> QED
    BY <2>2, <2>4 DEF SettingsInv
<1> QED
  BY <1>1, <1>2

LEMMA SaveKeeps ==
  ASSUME SettingsInv, Save
  PROVE  SettingsInv'
<1>1. PICK fl : fl = [NoFlow EXCEPT !.scr = scr, !.todo = Handler, !.base = form.base,
                                    !.said = "busy", !.v = [on |-> form.on, det |-> form.det]]
  OBVIOUS
<1>2. Call(fl) /\ UNCHANGED <<scr, form>>
  BY <1>1 DEF Save
<1>3. /\ DOMAIN fl = FlowFields /\ fl.said = "busy" /\ fl.base = form.base
      /\ fl.scr = scr /\ fl.todo = Handler
  BY <1>1 DEF NoFlow, FlowFields
<1>4. scr \in AllScreens /\ form.base \in {0, store}
      /\ (scr = "ProfileSettings" => form.base = 0)
  BY DEF SettingsInv, FormSound, FollowsStore
<1>5. scr \notin {"Settings", "PrivacySettings", "Account"} /\ Handler # <<>>
  BY DEF Save, Offered, Offers, SettingsOffers, PrivacyOffers, If
<1>6. scr # "ProfileSettings" => Head(Handler) = "put"
  BY <1>4, <1>5 DEF AllScreens, FormScreens, SwitchScreens, Handler, BusinessHoursSave,
     QuietHoursSave, UrgentSave, MemorySave, BookingSave, AssistantSave
<1> QED
  BY <1>2, <1>3, <1>4, <1>6, CallKeeps

LEMMA SaveOtherKeeps ==
  ASSUME SettingsInv, SaveOther
  PROVE  SettingsInv'
<1>1. PICK fl : fl = [flow EXCEPT !.with = "none"]
  OBVIOUS
<1>2. /\ DOMAIN fl = FlowFields /\ fl.with = "none" /\ fl.said = "busy" /\ fl.scr = flow.scr
      /\ fl.v = flow.v /\ fl.todo = flow.todo /\ fl.ok = flow.ok /\ fl.base = flow.base
      /\ FlowSoundFor(flow, put) /\ flow.with = "other"
  BY <1>1 DEF SaveOther, SettingsInv, FlowSoundFor, FlowFields
<1>3. ASSUME UNCHANGED syncVars
      PROVE  SyncSound' /\ \A f, v : Written(f, v) => Written(f, v)'
  BY <1>3 DEF syncVars, SettingsInv, SyncSound, PutSound, Written, Revision, Now
<1>4. ASSUME fl.todo = <<>>, UNCHANGED syncVars, Follow(Ended(fl)) PROVE SettingsInv'
  <2>1. FormSound' /\ flow' = Ended(fl)
    BY <1>4, FormFollows DEF SettingsInv
  <2>2. fl.ok /\ fl.scr # "ProfileSettings" => Written(fl.scr, fl.v)'
    BY <1>2, <1>3, <1>4, SettingsAssumption DEF FlowSoundFor, SettingsAssumption
  <2>3. FlowSoundFor(flow, put)'
    BY <1>2, <1>4, <2>1, <2>2, EndedSound
  <2> QED
    BY <1>3, <1>4, <2>1, <2>3 DEF SettingsInv
<1>5. ASSUME fl.todo # <<>>, Call(fl), UNCHANGED <<scr, form>> PROVE SettingsInv'
  <2>1. fl.scr = "ProfileSettings" /\ fl.base = 0
    BY <1>2, <1>5 DEF FlowSoundFor
  <2> QED
    BY <1>2, <1>5, <2>1, CallKeeps
<1>6. ASSUME UNCHANGED syncVars, Follow(NoFlow) PROVE SettingsInv'
  BY <1>3, <1>6, FormFollows, NoFlowSound DEF SettingsInv
<1> QED
  BY <1>1, <1>4, <1>5, <1>6 DEF SaveOther

LEMMA ToggleKeeps ==
  ASSUME SettingsInv, NEW p \in Puts, NEW v, Toggle(p, v)
  PROVE  SettingsInv'
<1>1. UNCHANGED <<scr, form, flow>> /\ StartPut(p, scr, v, store)
  BY DEF Toggle, screenVars
<1>2. SyncSound' /\ Grown /\ Only(p) /\ UNCHANGED store /\ put[p].pc = "idle"
  BY <1>1, StartPutKeeps DEF SettingsInv
<1>3. FormSound'
  BY <1>1, <1>2 DEF SettingsInv, FormSound, FollowsStore
<1>4. FlowSoundFor(flow, put)'
  BY <1>1, <1>2, FlowRestsBut
<1> QED
  BY <1>2, <1>3, <1>4 DEF SettingsInv

\* Typing, and what comes back for the screen alone, changes neither the version the form
\* shows nor any save.
Types ==
  \/ Switch \/ ApplyPattern \/ AddInterval \/ Touch \/ PickZone
  \/ Connect \/ CalendarExpires \/ AgentLoaded \/ ProfileLoaded
  \/ \E d \in Details : Detail(d) \/ RemoveInterval(d) \/ Unfold(d)

LEMMA TypingKeeps ==
  ASSUME SettingsInv, Types
  PROVE  SettingsInv'
<1>1. UNCHANGED <<hist, store, get, put, scr>> /\ flow' \in {flow, NoFlow}
  BY DEF Types, Switch, ApplyPattern, AddInterval, Touch, PickZone, Connect, CalendarExpires,
     AgentLoaded, ProfileLoaded, Detail, RemoveInterval, Unfold, Edited, syncVars
<1>2. DOMAIN form = {"base", "on", "det", "edit", "dirty"}
  BY DEF SettingsInv, FormSound
<1>3. DOMAIN form' = DOMAIN form /\ form'.base = form.base
  <2>1. CASE Switch \/ ApplyPattern \/ AddInterval \/ Touch
    BY <1>2, <2>1 DEF Switch, ApplyPattern, AddInterval, Touch
  <2>2. CASE PickZone
    BY <1>2, <2>2 DEF PickZone
  <2>3. CASE Connect \/ CalendarExpires \/ AgentLoaded \/ ProfileLoaded
    BY <1>2, <2>3 DEF Connect, CalendarExpires, AgentLoaded, ProfileLoaded
  <2>4. CASE \E d \in Details : Detail(d) \/ RemoveInterval(d) \/ Unfold(d)
    BY <1>2, <2>4 DEF Detail, RemoveInterval, Unfold
  <2> QED
    BY <2>1, <2>2, <2>3, <2>4 DEF Types
<1> QED
  BY <1>1, <1>3, EditKeeps

LEMMA SettingsStep ==
  ASSUME SettingsInv, [SettingsNext]_settingsVars
  PROVE  SettingsInv'
<1>1. CASE UNCHANGED settingsVars
  BY <1>1 DEF settingsVars, syncVars, screenVars, SettingsInv, SyncSound, PutSound, Written,
     Revision, Now, FormSound, FollowsStore, FlowSoundFor
<1>2. ASSUME Background PROVE SettingsInv'
  <2>1. ASSUME NEW g \in Loads, Loaded(g) \/ LoadFailed(g), Follow(flow) PROVE SettingsInv'
    BY <2>1, LoadStepKeeps
  <2>2. ASSUME NEW p \in Puts, PutFresh(p) \/ PutLoad(p) \/ PutCommit(p), Follow(flow)
        PROVE  SettingsInv'
    BY <2>2, PutStepKeeps
  <2>3. ASSUME NEW p \in Puts, PutAnswer(p), Follow(Returned(p, TRUE)) PROVE SettingsInv'
    BY <2>3, AnswerKeeps
  <2>4. ASSUME NEW p \in Puts, PutUnfetched(p) \/ PutLost(p), Follow(Returned(p, FALSE))
        PROVE  SettingsInv'
    BY <2>4, AnswerKeeps
  <2> QED
    BY <1>2, <2>1, <2>2, <2>3, <2>4 DEF Background
<1>3. ASSUME NEW p \in Puts, Conflict(p) PROVE SettingsInv'
  BY <1>3, AnswerKeeps DEF Conflict
<1>4. ASSUME GoBack \/ CloseItself PROVE SettingsInv'
  <2>1. Parent(scr) \in AllScreens
    BY DEF Parent, AllScreens, SwitchScreens
  <2> QED
    BY <1>4, <2>1, EnterKeeps DEF GoBack, CloseItself
<1>5. ASSUME NEW s \in FormScreens \cup SwitchScreens, Open(s) PROVE SettingsInv'
  <2>1. s \in AllScreens
    BY DEF AllScreens
  <2> QED
    BY <1>5, <2>1, EnterKeeps DEF Open
<1>6. ASSUME Types PROVE SettingsInv'
  BY <1>6, TypingKeeps
<1>7. ASSUME Disconnect \/ Save \/ SaveOther PROVE SettingsInv'
  BY <1>7, DisconnectKeeps, SaveKeeps, SaveOtherKeeps
<1>8. ASSUME NEW f, NEW v, Elsewhere(f, v) PROVE SettingsInv'
  BY <1>8, ElsewhereKeeps
<1>9. ASSUME NEW p \in Puts, NEW v, Toggle(p, v) PROVE SettingsInv'
  BY <1>9, ToggleKeeps
<1> QED
  BY <1>1, <1>2, <1>3, <1>4, <1>5, <1>6, <1>7, <1>8, <1>9 DEF SettingsNext, Types

----------------------------------------------------------------------------
(* The theorems. *)

\* A screen that says "saved" has its group in the document as it was when the user
\* pressed Save, for every number of requests, other devices and lost answers
\* (settingsStore.updateSettings, the handleSave of the screens).
THEOREM SaysSavedOnceStored == SettingsSpec => []SavedIsStored
<1>1. SettingsInv => SavedIsStored
  BY SettingsAssumption DEF SettingsInv, FlowSoundFor, SavedIsStored, Written,
     SettingsAssumption
<1> QED
  BY <1>1, SettingsStart, SettingsStep, PTL DEF SettingsSpec

\* The revision a save expects is that of the version its value was chosen from; so, when
\* no two transactions wrote the same revision, a save that commits on what it read
\* replaces exactly that version (patch_settings).
LEMMA CommitsOnItsBase ==
  ASSUME SettingsInv, RevisionsDiffer, NEW p \in Puts,
         put[p].pc = "loaded", put[p].base # 0, put[p].at = Now
  PROVE  put[p].base = Now
<1>1. PutSound(put[p])
  BY DEF SettingsInv, SyncSound
<1>2. put[p].base \in 1 .. Now /\ put[p].at \in 1 .. Now
      /\ Revision(put[p].base) = Revision(put[p].at)
  BY <1>1 DEF PutSound
<1>3. hist[put[p].base].rev = hist[put[p].at].rev
  BY <1>2 DEF Revision
<1> QED
  BY <1>2, <1>3 DEF RevisionsDiffer

\* A save never overwrites a setting with something chosen from an older value of it, for
\* every number of requests under way and whatever the other devices write
\* (settingsStore.updateSettings, patch_settings).
THEOREM SavesReplaceWhatWasShown == SettingsSpec => NoBlindOverwrite
<1>1. SettingsInv =>
        \A p \in Puts :
          put[p].pc = "loaded" /\ put'[p].pc = "stored" /\ put[p].base # 0
            /\ put[p].at = Now /\ RevisionsDiffer
          => ValueAt(Now, put[p].f) = ValueAt(put[p].base, put[p].f)
  BY CommitsOnItsBase
<1> QED
  BY <1>1, SettingsStart, SettingsStep, PTL DEF SettingsSpec, NoBlindOverwrite

----------------------------------------------------------------------------
(* The dialog: what is under way was asked for. *)

Change(c) ==
  /\ DOMAIN c = {"act", "of", "here"}
  /\ <<c.act, c.of>> \in asked
  /\ c.act = "pin" /\ c.of # Nobody => c.of \in typed

StepUpInv ==
  /\ \A c \in verify \cup sent : Change(c)
  /\ pend \in typed \cup {Nobody}

LEMMA StepUpStart == StepUpInit => StepUpInv
  BY DEF StepUpInit, StepUpInv

\* A screen that is left changes nothing of the changes but who waits for them.
LEMMA VisitKeeps ==
  ASSUME StepUpInv, NEW s, Visit(s)
  PROVE  StepUpInv'
<1>1. ASSUME NEW c \in verify \cup sent
      PROVE  Change([c EXCEPT !.here = FALSE])
  BY <1>1 DEF StepUpInv, Change
<1>2. \A c \in verify' \cup sent' : \E d \in verify \cup sent : c = [d EXCEPT !.here = FALSE]
  BY DEF Visit
<1>3. \A c : Change(c) => Change(c)'
  BY DEF Visit, Change
<1> QED
  BY <1>1, <1>2, <1>3 DEF Visit, StepUpInv

LEMMA PressVerifyKeeps ==
  ASSUME StepUpInv, PressVerify
  PROVE  StepUpInv'
<1> DEFINE new == [act |-> ask, of |-> Subject, here |-> TRUE]
<1>1. \A c \in verify \cup sent : Change(c)'
  BY DEF PressVerify, StepUpInv, Change
<1>2. DOMAIN new = {"act", "of", "here"} /\ new.act = ask /\ new.of = Subject
  OBVIOUS
<1>3. ask = "pin" /\ Subject # Nobody => Subject \in typed
  BY DEF StepUpInv, Subject
<1>4. verify' = verify \cup {new} /\ asked' = asked \cup {<<ask, Subject>>}
      /\ UNCHANGED <<sent, typed, pend>>
  BY DEF PressVerify
<1> HIDE DEF new
<1>5. (DOMAIN new = {"act", "of", "here"} /\ <<new.act, new.of>> \in asked'
       /\ (new.act = "pin" /\ new.of # Nobody => new.of \in typed'))
  BY <1>2, <1>3, <1>4
<1> QED
  BY <1>1, <1>4, <1>5 DEF StepUpInv, Change

\* Every other step takes changes away, sends what was verified, or types a PIN.
LEMMA OthersKeep ==
  ASSUME StepUpInv, verify' \subseteq verify, sent' \subseteq verify \cup sent,
         asked' = asked, typed \subseteq typed',
         pend' \in {pend, Nobody} \/ pend' \in typed'
  PROVE  StepUpInv'
  BY DEF StepUpInv, Change

LEMMA StepUpStep == StepUpInv /\ [StepUpNext]_stepUpVars => StepUpInv'
<1> SUFFICES ASSUME StepUpInv, [StepUpNext]_stepUpVars PROVE StepUpInv'
  OBVIOUS
<1>1. CASE UNCHANGED stepUpVars
  BY <1>1, OthersKeep DEF stepUpVars
<1>2. CASE PinButton \/ DisablePin \/ CancelPad \/ ConfirmRemove \/ CancelStepUp
  BY <1>2, OthersKeep DEF PinButton, DisablePin, CancelPad, ConfirmRemove, CancelStepUp
<1>3. CASE PressVerify
  BY <1>3, PressVerifyKeeps
<1>4. ASSUME NEW s, Visit(s) PROVE StepUpInv'
  BY <1>4, VisitKeeps
<1>5. ASSUME NEW p \in Pins, TypePin(p) PROVE StepUpInv'
  BY <1>5, OthersKeep DEF TypePin
<1>6. ASSUME NEW w, AskPassword(w) \/ PickDevice(w) PROVE StepUpInv'
  BY <1>6, OthersKeep DEF AskPassword, PickDevice
<1>7. ASSUME NEW c \in verify, Granted(c) \/ Refused(c) PROVE StepUpInv'
  BY <1>7, OthersKeep DEF Granted, Refused
<1>8. ASSUME NEW c \in sent, Answered(c) PROVE StepUpInv'
  BY <1>8, OthersKeep DEF Answered, PinAnswered, PasswordAnswered, RemoveAnswered
<1> QED
  BY <1>1, <1>2, <1>3, <1>4, <1>5, <1>6, <1>7, <1>8 DEF StepUpNext

\* A change is only sent with the token of a code that was typed for it, to that PIN,
\* password or device, and a PIN only after it was typed twice, however the dialog is
\* cancelled and opened again (PrivacySettingsScreen, DeviceListScreen).
THEOREM StepUpServesItsChange == StepUpSpec => []StepUpForThis
<1>1. StepUpInv => StepUpForThis
  BY DEF StepUpInv, StepUpForThis, Change
<1> QED
  BY <1>1, StepUpStart, StepUpStep, PTL DEF StepUpSpec
=============================================================================
