----------------------------- MODULE AuthSession -----------------------------
(***************************************************************************)
(* The mobile client's session: the tokens in the keychain, the 401        *)
(* interceptor of api/client.ts with its single refresh and its queue of   *)
(* failed requests, the restore at start-up, sign-out, the copy of the     *)
(* refresh token kept for biometric sign-in, and the server's rotating     *)
(* sessions behind them.  A token pair is the number of the session that   *)
(* issued it; 0 stands for no token.  Every await is a step boundary: the  *)
(* keychain is written one item at a time.                                 *)
(***************************************************************************)
EXTENDS Integers, FiniteSets

CONSTANTS Calls,        \* request slots of the screens
          MaxSession    \* bound on the sessions the server ever issues

ASSUME AuthAssumption == /\ MaxSession \in Nat
                         /\ Calls \cap {"login", "logout"} = {}

VARIABLES server,   \* newest session: its number, whether it is live, its access token's age
          kc,       \* keychain: access, refresh and biometric refresh token
          st,       \* authStore.state
          rq,       \* the requests of apiClient
          rf,       \* the interceptor's refresh (isRefreshing is rf.pc # "idle")
          ui,       \* the restore, sign-in or sign-out in progress
          excused   \* history: since sign-in the session was ended or replaced, or an
                    \* answer or a keychain write of it was lost

authVars == <<server, kc, st, rq, rf, ui, excused>>

Tokens   == 0 .. MaxSession
Requests == Calls \cup {"login", "logout"}
PutSteps == {"put_acc", "put_ref", "look_bio", "put_bio"}
DelSteps == {"del_acc", "del_ref", "del_bio"}
States   == {"loading", "unauthenticated", "mfa_required", "mfa_enrollment",
             "authenticated"}
RequestSteps == {"idle", "sent", "waiting", "refreshing", "answered", "rejected"}
RefreshSteps == {"idle", "read", "sent", "rotated", "refused", "stored", "cleared"}
                  \cup PutSteps \cup DelSteps
FlowSteps == {"idle", "read", "me", "sent", "rotated", "refused", "logout", "login",
              "copy_bio", "stored", "cleared"} \cup PutSteps \cup DelSteps

NoFlow == [pc |-> "idle", acc |-> 0, tok |-> 0]
NoCall == [pc |-> "idle", tok |-> 0, retry |-> FALSE]

AuthTypeOK ==
  /\ server \in [sess : Tokens, live : BOOLEAN, stale : BOOLEAN]
  /\ kc \in [acc : Tokens, ref : Tokens, bio : Tokens]
  /\ st \in States
  /\ rq \in [Requests -> [pc : RequestSteps, tok : Tokens, retry : BOOLEAN]]
  /\ rf \in [pc : RefreshSteps, tok : Tokens]
  /\ ui \in [pc : FlowSteps, acc : Tokens, tok : Tokens]
  /\ excused \in BOOLEAN

AuthInit ==
  /\ server = [sess |-> 0, live |-> FALSE, stale |-> FALSE]
  /\ kc = [acc |-> 0, ref |-> 0, bio |-> 0]
  /\ st = "loading"
  /\ rq = [r \in Requests |-> NoCall]
  /\ rf = [pc |-> "idle", tok |-> 0]
  /\ ui = [NoFlow EXCEPT !.pc = "read"]
  /\ excused = FALSE

----------------------------------------------------------------------------
(* The server's side of a session. *)

Accepted(t)  == t # 0 /\ t = server.sess /\ server.live /\ ~server.stale
Rotates(t)   == t # 0 /\ t = server.sess /\ server.live
NewSession   == server' = [sess |-> server.sess + 1, live |-> TRUE, stale |-> FALSE]
Ended        == [server EXCEPT !.live = FALSE, !.stale = FALSE]
CanIssue     == server.sess < MaxSession

\* The access token of the live session reaches its 15 minutes.
AccessExpires ==
  /\ server.live /\ ~server.stale
  /\ server' = [server EXCEPT !.stale = TRUE]
  /\ UNCHANGED <<kc, st, rq, rf, ui, excused>>

\* Another device signs in, or removes this one: every session of the user ends.
RevokedElsewhere ==
  /\ server.live
  /\ server' = Ended
  /\ excused' = TRUE
  /\ UNCHANGED <<kc, st, rq, rf, ui>>

----------------------------------------------------------------------------
(* storeTokens and clearTokens, one keychain call per step. *)

KeychainAfter(pc, t) ==
  CASE pc = "put_acc" -> [kc EXCEPT !.acc = t]
    [] pc = "put_ref" -> [kc EXCEPT !.ref = t]
    [] pc = "put_bio" -> [kc EXCEPT !.bio = t]
    [] pc = "del_acc" -> [kc EXCEPT !.acc = 0]
    [] pc = "del_ref" -> [kc EXCEPT !.ref = 0]
    [] pc = "del_bio" -> [kc EXCEPT !.bio = 0]
    [] pc = "look_bio" -> kc

StepAfter(pc) ==
  CASE pc = "put_acc" -> "put_ref"
    [] pc = "put_ref" -> "look_bio"
    [] pc = "look_bio" -> IF kc.bio # 0 THEN "put_bio" ELSE "stored"
    [] pc = "put_bio" -> "stored"
    [] pc = "del_acc" -> "del_ref"
    [] pc = "del_ref" -> "del_bio"
    [] pc = "del_bio" -> "cleared"

----------------------------------------------------------------------------
(* Requests through apiClient. *)

\* The request interceptor puts the access token it finds in the keychain.
SendCall(r) ==
  /\ st = "authenticated" /\ rq[r].pc = "idle"
  /\ rq' = [rq EXCEPT ![r] = [pc |-> "sent", tok |-> kc.acc, retry |-> FALSE]]
  /\ UNCHANGED <<server, kc, st, rf, ui, excused>>

\* A slot whose request was sent by a screen is free again once it is settled.
Settled(r, how) == IF r \in Calls THEN NoCall ELSE [NoCall EXCEPT !.pc = how]

\* A request passes get_current_user and its handler.  Signing out ends the session.
CallAnswered(r) ==
  /\ r # "login" /\ rq[r].pc = "sent" /\ Accepted(rq[r].tok)
  /\ rq' = [rq EXCEPT ![r] = Settled(r, "answered")]
  /\ server' = IF r = "logout" THEN Ended ELSE server
  /\ UNCHANGED <<kc, st, rf, ui, excused>>

\* The response never arrives: timeout or no network.
CallLost(r) ==
  /\ rq[r].pc = "sent"
  /\ rq' = [rq EXCEPT ![r] = Settled(r, "rejected")]
  /\ UNCHANGED <<server, kc, st, rf, ui, excused>>

\* Mutant: isRefreshing is not looked at, every 401 starts a refresh.
Refused401NoLock(r) ==
  IF rq[r].retry
  THEN /\ rq' = [rq EXCEPT ![r] = Settled(r, "rejected")]
       /\ UNCHANGED rf
  ELSE /\ rq' = [rq EXCEPT ![r] = [pc |-> "refreshing", tok |-> 0, retry |-> TRUE]]
       /\ rf' = [pc |-> "read", tok |-> 0]

\* What the response interceptor does with a 401: reject a retried request, queue
\* behind the refresh that runs, or start the refresh itself.
Refused401(r) ==
  IF rq[r].retry
  THEN /\ rq' = [rq EXCEPT ![r] = Settled(r, "rejected")]
       /\ UNCHANGED rf
  ELSE IF rf.pc # "idle"
       THEN /\ rq' = [rq EXCEPT ![r].pc = "waiting", ![r].tok = 0]
            /\ UNCHANGED rf
       ELSE /\ rq' = [rq EXCEPT ![r] = [pc |-> "refreshing", tok |-> 0, retry |-> TRUE]]
            /\ rf' = [pc |-> "read", tok |-> 0]

\* The token is expired or its session has ended.
CallRefused(r) ==
  /\ r # "login" /\ rq[r].pc = "sent" /\ ~Accepted(rq[r].tok)
  /\ Refused401(r)
  /\ UNCHANGED <<server, kc, st, ui, excused>>

----------------------------------------------------------------------------
(* The refresh of the interceptor. *)

\* processQueue with an error, and the start of clearTokens.
FailRefresh ==
  /\ rf' = [pc |-> "del_acc", tok |-> 0]
  /\ rq' = [r \in Requests |-> IF rq[r].pc = "waiting" THEN Settled(r, "rejected")
                                                       ELSE rq[r]]

ReadRefreshToken ==
  /\ rf.pc = "read"
  /\ IF kc.ref = 0 THEN FailRefresh
                   ELSE rf' = [pc |-> "sent", tok |-> kc.ref] /\ UNCHANGED rq
  /\ UNCHANGED <<server, kc, st, ui, excused>>

\* refresh_session: the token rotates, or it is refused because its session ended.
RefreshRotates ==
  /\ rf.pc = "sent" /\ Rotates(rf.tok) /\ CanIssue
  /\ NewSession
  /\ rf' = [pc |-> "rotated", tok |-> server.sess + 1]
  /\ UNCHANGED <<kc, st, rq, ui, excused>>

RefreshRefused ==
  /\ rf.pc = "sent" /\ ~Rotates(rf.tok)
  /\ rf' = [rf EXCEPT !.pc = "refused"]
  /\ UNCHANGED <<server, kc, st, rq, ui, excused>>

RefreshAnswer ==
  /\ \/ rf.pc = "rotated" /\ rf' = [rf EXCEPT !.pc = "put_acc"] /\ UNCHANGED rq
     \/ rf.pc = "refused" /\ FailRefresh
  /\ UNCHANGED <<server, kc, st, ui, excused>>

\* No answer, whether or not the server has rotated the token.
RefreshLost ==
  /\ rf.pc \in {"sent", "rotated", "refused"}
  /\ excused' = (excused \/ rf.pc = "rotated")
  /\ FailRefresh
  /\ UNCHANGED <<server, kc, st, ui>>

RefreshKeychain ==
  /\ rf.pc \in PutSteps \cup DelSteps
  /\ kc' = KeychainAfter(rf.pc, rf.tok)
  /\ rf' = [rf EXCEPT !.pc = StepAfter(rf.pc)]
  /\ UNCHANGED <<server, st, rq, ui, excused>>

\* processQueue: the queued requests and the one that started the refresh are sent
\* again, each with the access token the keychain holds by then.
Resent(r) ==
  [rq[r] EXCEPT !.pc = "sent", !.tok = IF kc.acc # 0 THEN kc.acc ELSE rf.tok]

\* Mutant: the queue is forgotten when the refresh succeeds.
RefreshStoredForgets ==
  /\ rf.pc = "stored"
  /\ rq' = [r \in Requests |-> IF rq[r].pc = "refreshing" THEN Resent(r) ELSE rq[r]]
  /\ rf' = [pc |-> "idle", tok |-> 0]
  /\ UNCHANGED <<server, kc, st, ui, excused>>

RefreshStored ==
  /\ rf.pc = "stored"
  /\ rq' = [r \in Requests |-> IF rq[r].pc \in {"waiting", "refreshing"} THEN Resent(r)
                                                                        ELSE rq[r]]
  /\ rf' = [pc |-> "idle", tok |-> 0]
  /\ UNCHANGED <<server, kc, st, ui, excused>>

\* clearTokens is done: the request that started the refresh is rejected.  Whatever
\* was queued since processQueue stays in failedQueue.
RefreshCleared ==
  /\ rf.pc = "cleared"
  /\ rq' = [r \in Requests |-> IF rq[r].pc = "refreshing" THEN Settled(r, "rejected")
                                                          ELSE rq[r]]
  /\ rf' = [pc |-> "idle", tok |-> 0]
  /\ UNCHANGED <<server, kc, st, ui, excused>>

Interceptor ==
  \/ ReadRefreshToken \/ RefreshRotates \/ RefreshRefused \/ RefreshAnswer
  \/ RefreshLost \/ RefreshKeychain \/ RefreshStored \/ RefreshCleared

----------------------------------------------------------------------------
(* tryRestoreSession, at every start of the app. *)

Enter(s) == st' = s /\ ui' = NoFlow

RestoreRead ==
  /\ ui.pc = "read"
  /\ IF kc.ref = 0
     THEN Enter("unauthenticated")
     ELSE /\ ui' = [pc |-> IF kc.acc # 0 THEN "me" ELSE "sent",
                    acc |-> kc.acc, tok |-> kc.ref]
          /\ UNCHANGED st
  /\ UNCHANGED <<server, kc, rq, rf, excused>>

\* GET /me with the stored access token; any failure falls through to a refresh.
RestoreMe ==
  /\ ui.pc = "me"
  /\ \/ Accepted(ui.acc) /\ Enter("authenticated")
     \/ ui' = [ui EXCEPT !.pc = "sent"] /\ UNCHANGED st
  /\ UNCHANGED <<server, kc, rq, rf, excused>>

RestoreServer ==
  /\ ui.pc = "sent"
  /\ \/ /\ Rotates(ui.tok) /\ CanIssue
        /\ NewSession
        /\ ui' = [ui EXCEPT !.pc = "rotated", !.tok = server.sess + 1]
     \/ /\ ~Rotates(ui.tok)
        /\ ui' = [ui EXCEPT !.pc = "refused"]
        /\ UNCHANGED server
  /\ UNCHANGED <<kc, st, rq, rf, excused>>

RestoreAnswer ==
  /\ \/ ui.pc = "rotated" /\ ui' = [ui EXCEPT !.pc = "put_acc", !.acc = 0]
     \/ ui.pc = "refused" /\ ui' = [NoFlow EXCEPT !.pc = "del_acc"]
  /\ UNCHANGED <<server, kc, st, rq, rf, excused>>

\* Mutant: a lost answer without a stored access token sets no state.
RestoreLostSilent ==
  /\ ui.pc \in {"sent", "rotated", "refused"}
  /\ st' = IF ui.acc # 0 THEN "authenticated" ELSE st
  /\ ui' = NoFlow
  /\ excused' = (excused \/ ui.pc = "rotated")
  /\ UNCHANGED <<server, kc, rq, rf>>

\* A network error or a 5xx keeps the tokens and trusts the access token, if any.
RestoreLost ==
  /\ ui.pc \in {"sent", "rotated", "refused"}
  /\ Enter(IF ui.acc # 0 THEN "authenticated" ELSE "unauthenticated")
  /\ excused' = (excused \/ ui.pc = "rotated")
  /\ UNCHANGED <<server, kc, rq, rf>>

Restore == RestoreRead \/ RestoreMe \/ RestoreServer \/ RestoreAnswer \/ RestoreLost

----------------------------------------------------------------------------
(* The keychain steps of a flow and what follows them. *)

FlowKeychain ==
  /\ ui.pc \in PutSteps \cup DelSteps
  /\ kc' = KeychainAfter(ui.pc, ui.tok)
  /\ ui' = [ui EXCEPT !.pc = StepAfter(ui.pc)]
  /\ UNCHANGED <<server, st, rq, rf, excused>>

FlowStored ==
  /\ ui.pc = "stored" /\ Enter("authenticated")
  /\ UNCHANGED <<server, kc, rq, rf, excused>>

FlowCleared ==
  /\ ui.pc = "cleared" /\ Enter("unauthenticated")
  /\ UNCHANGED <<server, kc, rq, rf, excused>>

FlowStep == FlowKeychain \/ FlowStored \/ FlowCleared

----------------------------------------------------------------------------
(* Sign-out and the biometric copy, from the account screens. *)

\* handleLogout: POST /auth/logout as a request like any other.
SignOut ==
  /\ st = "authenticated" /\ ui.pc = "idle" /\ rq["logout"].pc = "idle"
  /\ ui' = [NoFlow EXCEPT !.pc = "logout"]
  /\ rq' = [rq EXCEPT !["logout"] = [pc |-> "sent", tok |-> kc.acc, retry |-> FALSE]]
  /\ excused' = TRUE
  /\ UNCHANGED <<server, kc, st, rf>>

\* Whatever the answer, signOut disconnects and clears the tokens.
SignOutAnswer ==
  /\ ui.pc = "logout" /\ rq["logout"].pc \in {"answered", "rejected"}
  /\ ui' = [ui EXCEPT !.pc = "del_acc"]
  /\ rq' = [rq EXCEPT !["logout"] = NoCall]
  /\ UNCHANGED <<server, kc, st, rf, excused>>

\* handleBiometricToggle: on copies the refresh token, read before it is written.
BiometricOn ==
  /\ st = "authenticated" /\ ui.pc = "idle" /\ kc.ref # 0
  /\ ui' = [NoFlow EXCEPT !.pc = "copy_bio", !.tok = kc.ref]
  /\ UNCHANGED <<server, kc, st, rq, rf, excused>>

BiometricCopied ==
  /\ ui.pc = "copy_bio"
  /\ kc' = [kc EXCEPT !.bio = ui.tok]
  /\ ui' = NoFlow
  /\ UNCHANGED <<server, st, rq, rf, excused>>

BiometricOff ==
  /\ st = "authenticated" /\ ui.pc = "idle" /\ kc.bio # 0
  /\ kc' = [kc EXCEPT !.bio = 0]
  /\ UNCHANGED <<server, st, rq, rf, ui, excused>>

----------------------------------------------------------------------------
\* The operating system ends the app: only the keychain survives, and the next start
\* restores the session.
Busy == rf.pc # "idle" \/ ui.pc \notin {"idle", "login", "read", "me", "logout"}

KillApp ==
  /\ st' = "loading"
  /\ rq' = [r \in Requests |-> NoCall]
  /\ rf' = [pc |-> "idle", tok |-> 0]
  /\ ui' = [NoFlow EXCEPT !.pc = "read"]
  /\ excused' = (excused \/ Busy)
  /\ UNCHANGED <<server, kc>>
=============================================================================
