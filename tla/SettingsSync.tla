---------------------------- MODULE SettingsSync ----------------------------
(***************************************************************************)
(* The settings document, PATCH /settings with its expected revision, and  *)
(* the settingsStore every settings screen of the mobile client shares.    *)
(* The document is the sequence of its committed changes, so a version the *)
(* client holds is an index into it; 0 is the document nobody has loaded.  *)
(* Other devices of the user write at any time.                            *)
(***************************************************************************)
EXTENDS Integers, Sequences, FiniteSetsExt

CONSTANTS Details,   \* what a group of settings can be set to besides on and off
          Loads,     \* slots for GET /settings in flight
          Puts,      \* slots for updateSettings in flight
          MaxRows    \* bound on the committed changes

ASSUME SettingsAssumption ==
  /\ MaxRows \in Nat /\ Details \subseteq Nat /\ Details # {}
  /\ Puts # {} /\ Puts \cap {"none", "other"} = {}

VARIABLES hist,    \* user_settings: the committed changes, each with its revision
          store,   \* settingsStore.settings, as an index into hist
          saving,  \* settingsStore.saving
          get,     \* GETs in flight: the oldest version each may answer
          put      \* updateSettings calls in flight

syncVars == <<hist, store, saving, get, put>>

\* Every screen owns one group of columns; "any" is a group no screen here shows.
Values  == [on : BOOLEAN, det : Details]
Default == [on |-> FALSE, det |-> CHOOSE d \in Details : \A e \in Details : d <= e]

Now == Len(hist)
Revision(i) == IF i = 0 THEN 0 ELSE hist[i].rev
ValueAt(i, f) ==
  LET writes == {j \in 1 .. i : hist[j].f = f}
  IN  IF writes = {} THEN Default ELSE hist[Max(writes)].v
CanCommit == Now < MaxRows
Commit(rev, f, v) == hist' = Append(hist, [rev |-> rev, f |-> f, v |-> v])

NoPut == [pc |-> "idle", f |-> "any", v |-> Default, base |-> 0, want |-> 0, at |-> 0]

SyncInit ==
  /\ hist = <<[rev |-> 1, f |-> "any", v |-> Default]>>
  /\ store = 0 /\ saving = FALSE
  /\ get = [g \in Loads |-> 0] /\ put = [p \in Puts |-> NoPut]

----------------------------------------------------------------------------
(* The server. *)

\* Another device saves group f.
OtherDevice(f, v) ==
  /\ CanCommit /\ Commit(Revision(Now) + 1, f, v)
  /\ UNCHANGED <<store, saving, get, put>>

\* patch_settings reads the row and compares revisions ...
PutLoad(p) ==
  /\ put[p].pc = "sent"
  /\ put' = [put EXCEPT ![p].pc = IF put[p].want = Revision(Now) THEN "loaded"
                                                               ELSE "conflict",
                        ![p].at = Now]
  /\ UNCHANGED <<hist, store, saving, get>>

\* ... and writes the changed columns and the revision it read plus one.
PutCommit(p) ==
  /\ put[p].pc = "loaded" /\ CanCommit
  /\ Commit(Revision(put[p].at) + 1, put[p].f, put[p].v)
  /\ put' = [put EXCEPT ![p].pc = "stored", ![p].at = Now + 1]
  /\ UNCHANGED <<store, saving, get>>

----------------------------------------------------------------------------
(* settingsStore. *)

FreeLoad == \E g \in Loads : get[g] = 0
StartLoad == LET g == CHOOSE g \in Loads : get[g] = 0
             IN  get' = [get EXCEPT ![g] = Now]

\* loadSettings: the answer is some version between the request and now ...
Loaded(g) ==
  /\ get[g] # 0
  /\ store' \in get[g] .. Now
  /\ get' = [get EXCEPT ![g] = 0]
  /\ UNCHANGED <<hist, saving, put>>

\* ... or an error.
LoadFailed(g) ==
  /\ get[g] # 0
  /\ get' = [get EXCEPT ![g] = 0]
  /\ UNCHANGED <<hist, store, saving, put>>

\* updateSettings of value v of group f, which the user saw as version b had it: without
\* settings it fetches them first, then goes on with whatever revision they have.
StartPut(p, f, v, b) ==
  /\ put[p] = NoPut
  /\ put' = [put EXCEPT ![p] = [pc |-> IF store = 0 THEN "fresh" ELSE "sent",
                                f |-> f, v |-> v, base |-> b,
                                want |-> Revision(store), at |-> 0]]
  /\ saving' = (saving \/ store # 0)
  /\ UNCHANGED <<hist, store, get>>

PutFresh(p) ==
  /\ put[p].pc = "fresh"
  /\ store' = Now /\ saving' = TRUE
  /\ put' = [put EXCEPT ![p].pc = "sent", ![p].want = Revision(Now)]
  /\ UNCHANGED <<hist, get>>

PutUnfetched(p) ==
  /\ put[p].pc = "fresh"
  /\ put' = [put EXCEPT ![p] = NoPut]
  /\ UNCHANGED <<hist, store, saving, get>>

Finish(p) == saving' = FALSE /\ put' = [put EXCEPT ![p] = NoPut] /\ UNCHANGED <<hist, get>>

\* set({settings: result.settings}); updateSettings returns true.
PutAnswer(p) == put[p].pc = "stored" /\ store' = put[p].at /\ Finish(p)

\* REVISION_CONFLICT: fetch the settings again, which may fail, and return false.
PutConflict(p) ==
  /\ put[p].pc = "conflict" /\ Finish(p)
  /\ store' \in {store, Now}

\* Any other error returns false: not received, rolled back, or the answer to a stored
\* change lost.
PutLost(p) ==
  /\ put[p].pc \in {"sent", "loaded", "stored"} /\ Finish(p)
  /\ UNCHANGED store
=============================================================================
