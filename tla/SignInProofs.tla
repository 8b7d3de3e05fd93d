---------------------------- MODULE SignInProofs ----------------------------
(***************************************************************************)
(* Proofs about the mobile client's session, for any number of requests in *)
(* flight, of sessions, refreshes, kills and devices: the client never     *)
(* loses a session by racing with itself, and a fresh enrolment is entered *)
(* only with its recovery codes confirmed.                                 *)
(***************************************************************************)
EXTENDS SignIn, TLAPS

----------------------------------------------------------------------------
(* Types. *)

LEMMA KeychainType ==
  ASSUME AuthTypeOK, NEW pc \in PutSteps \cup DelSteps, NEW t \in Tokens
  PROVE  /\ KeychainAfter(pc, t) \in [acc : Tokens, ref : Tokens, bio : Tokens]
         /\ StepAfter(pc) \in PutSteps \cup DelSteps \cup {"stored", "cleared"}
<1>1. kc \in [acc : Tokens, ref : Tokens, bio : Tokens] /\ 0 \in Tokens
  BY AuthAssumption DEF AuthTypeOK, Tokens
<1>2. KeychainAfter(pc, t) \in [acc : Tokens, ref : Tokens, bio : Tokens]
  BY <1>1 DEF KeychainAfter, PutSteps, DelSteps
<1>3. StepAfter(pc) \in PutSteps \cup DelSteps \cup {"stored", "cleared"}
  BY DEF StepAfter, PutSteps, DelSteps
<1> QED  BY <1>2, <1>3

LEMMA InterceptorType ==
  ASSUME AuthTypeOK, Interceptor
  PROVE  AuthTypeOK'
<1> USE AuthAssumption
<1> DEFINE Call == [pc : RequestSteps, tok : Tokens, retry : BOOLEAN]
<1>1. /\ server \in [sess : Tokens, live : BOOLEAN, stale : BOOLEAN]
      /\ kc \in [acc : Tokens, ref : Tokens, bio : Tokens]
      /\ rq \in [Requests -> Call]
      /\ rf \in [pc : RefreshSteps, tok : Tokens] /\ 0 \in Tokens
  BY DEF AuthTypeOK, Tokens
<1>2. \A r \in Requests : Settled(r, "rejected") \in Call
  BY <1>1 DEF Settled, NoCall, RequestSteps
<1>3. \A r \in Requests : Resent(r) \in Call
  BY <1>1 DEF Resent, RequestSteps
<1> HIDE DEF Call
<1>4. FailRefresh => /\ rf' \in [pc : RefreshSteps, tok : Tokens]
                     /\ rq' \in [Requests -> Call]
  BY <1>1, <1>2 DEF FailRefresh, RefreshSteps, DelSteps
<1>5. ASSUME ReadRefreshToken PROVE AuthTypeOK'
  BY <1>1, <1>4, <1>5 DEF ReadRefreshToken, AuthTypeOK, RefreshSteps, Call
<1>6. ASSUME RefreshRotates PROVE AuthTypeOK'
  <2>1. server.sess + 1 \in Tokens
    BY <1>1, <1>6 DEF RefreshRotates, CanIssue, Tokens
  <2> QED  BY <2>1, <1>1, <1>6 DEF RefreshRotates, NewSession, AuthTypeOK, RefreshSteps
<1>7. ASSUME RefreshRefused PROVE AuthTypeOK'
  BY <1>1, <1>7 DEF RefreshRefused, AuthTypeOK, RefreshSteps
<1>8. ASSUME RefreshAnswer PROVE AuthTypeOK'
  BY <1>1, <1>4, <1>8 DEF RefreshAnswer, AuthTypeOK, RefreshSteps, PutSteps, Call
<1>9. ASSUME RefreshLost PROVE AuthTypeOK'
  BY <1>1, <1>4, <1>9 DEF RefreshLost, AuthTypeOK, Call
<1>10. ASSUME RefreshKeychain PROVE AuthTypeOK'
  <2>1. PICK pc \in PutSteps \cup DelSteps, t \in Tokens : pc = rf.pc /\ t = rf.tok
    BY <1>1, <1>10 DEF RefreshKeychain
  <2>2. /\ KeychainAfter(pc, t) \in [acc : Tokens, ref : Tokens, bio : Tokens]
        /\ StepAfter(pc) \in PutSteps \cup DelSteps \cup {"stored", "cleared"}
    BY KeychainType
  <2> QED  BY <2>1, <2>2, <1>1, <1>10 DEF RefreshKeychain, AuthTypeOK, RefreshSteps
<1>11. ASSUME RefreshStored PROVE AuthTypeOK'
  <2>1. rq' \in [Requests -> Call]
    BY <1>1, <1>3, <1>11 DEF RefreshStored
  <2> QED  BY <2>1, <1>11 DEF RefreshStored, AuthTypeOK, RefreshSteps, Call, Tokens
<1>12. ASSUME RefreshCleared PROVE AuthTypeOK'
  <2>1. rq' \in [Requests -> Call]
    BY <1>1, <1>2, <1>12 DEF RefreshCleared
  <2> QED  BY <2>1, <1>12 DEF RefreshCleared, AuthTypeOK, RefreshSteps, Call, Tokens
<1> QED  BY <1>5, <1>6, <1>7, <1>8, <1>9, <1>10, <1>11, <1>12 DEF Interceptor

LEMMA FlowType ==
  ASSUME AuthTypeOK, Restore \/ FlowStep
  PROVE  AuthTypeOK'
<1> USE AuthAssumption
<1>1. /\ server \in [sess : Tokens, live : BOOLEAN, stale : BOOLEAN]
      /\ kc \in [acc : Tokens, ref : Tokens, bio : Tokens]
      /\ ui \in [pc : FlowSteps, acc : Tokens, tok : Tokens] /\ 0 \in Tokens
      /\ NoFlow \in [pc : FlowSteps, acc : Tokens, tok : Tokens]
  BY DEF AuthTypeOK, Tokens, NoFlow, FlowSteps
<1>2. \A s \in States : Enter(s) => ui' = NoFlow /\ st' \in States
  BY DEF Enter
<1>3. {"unauthenticated", "authenticated"} \subseteq States
  BY DEF States
<1>4. ASSUME RestoreRead PROVE AuthTypeOK'
  BY <1>1, <1>2, <1>3, <1>4 DEF RestoreRead, AuthTypeOK, FlowSteps
<1>5. ASSUME RestoreMe PROVE AuthTypeOK'
  <2>1. ui' \in [pc : FlowSteps, acc : Tokens, tok : Tokens] /\ st' \in States
    <3>1. CASE Enter("authenticated")
      BY <3>1, <1>1, <1>2, <1>3
    <3>2. CASE ui' = [ui EXCEPT !.pc = "sent"] /\ UNCHANGED st
      BY <3>2, <1>1 DEF FlowSteps, AuthTypeOK
    <3> QED  BY <3>1, <3>2, <1>5 DEF RestoreMe
  <2> QED  BY <2>1, <1>5 DEF RestoreMe, AuthTypeOK
<1>6. ASSUME RestoreServer PROVE AuthTypeOK'
  <2>1. CanIssue => server.sess + 1 \in Tokens
    BY <1>1 DEF CanIssue, Tokens
  <2>2. ASSUME CanIssue, NewSession, ui' = [ui EXCEPT !.pc = "rotated", !.tok = server.sess + 1]
        PROVE  AuthTypeOK'
    BY <2>1, <2>2, <1>1, <1>6 DEF RestoreServer, NewSession, AuthTypeOK, FlowSteps
  <2>3. ASSUME ui' = [ui EXCEPT !.pc = "refused"], UNCHANGED server
        PROVE  AuthTypeOK'
    BY <2>3, <1>1, <1>6 DEF RestoreServer, AuthTypeOK, FlowSteps
  <2> QED  BY <2>2, <2>3, <1>6 DEF RestoreServer
<1>7. ASSUME RestoreAnswer PROVE AuthTypeOK'
  BY <1>1, <1>7 DEF RestoreAnswer, AuthTypeOK, FlowSteps, PutSteps, DelSteps, NoFlow
<1>8. ASSUME RestoreLost PROVE AuthTypeOK'
  BY <1>1, <1>2, <1>3, <1>8 DEF RestoreLost, AuthTypeOK
<1>9. ASSUME FlowKeychain PROVE AuthTypeOK'
  <2>1. PICK pc \in PutSteps \cup DelSteps, t \in Tokens : pc = ui.pc /\ t = ui.tok
    BY <1>1, <1>9 DEF FlowKeychain
  <2>2. /\ KeychainAfter(pc, t) \in [acc : Tokens, ref : Tokens, bio : Tokens]
        /\ StepAfter(pc) \in PutSteps \cup DelSteps \cup {"stored", "cleared"}
    BY KeychainType
  <2> QED  BY <2>1, <2>2, <1>1, <1>9 DEF FlowKeychain, AuthTypeOK, FlowSteps
<1>10. ASSUME FlowStored \/ FlowCleared PROVE AuthTypeOK'
  BY <1>1, <1>2, <1>3, <1>10 DEF FlowStored, FlowCleared, AuthTypeOK
<1> QED
  <2>1. ASSUME Restore PROVE AuthTypeOK'
    BY <1>4, <1>5, <1>6, <1>7, <1>8, <2>1 DEF Restore
  <2>2. ASSUME FlowStep PROVE AuthTypeOK'
    BY <1>9, <1>10, <2>2 DEF FlowStep
  <2> QED  BY <2>1, <2>2

\* What the response interceptor does with a 401 leaves the types alone.
LEMMA RefusedType ==
  ASSUME AuthTypeOK, NEW r \in Requests, Refused401(r)
  PROVE  /\ rq' \in [Requests -> [pc : RequestSteps, tok : Tokens, retry : BOOLEAN]]
         /\ rf' \in [pc : RefreshSteps, tok : Tokens]
<1>1. 0 \in Tokens /\ rq \in [Requests -> [pc : RequestSteps, tok : Tokens, retry : BOOLEAN]]
  BY AuthAssumption DEF AuthTypeOK, Tokens
<1>2. Settled(r, "rejected") \in [pc : RequestSteps, tok : Tokens, retry : BOOLEAN]
  BY <1>1 DEF Settled, NoCall, RequestSteps
<1>3. [rq EXCEPT ![r].pc = "waiting", ![r].tok = 0]
         \in [Requests -> [pc : RequestSteps, tok : Tokens, retry : BOOLEAN]]
  BY <1>1 DEF RequestSteps
<1>4. [rq EXCEPT ![r] = [pc |-> "refreshing", tok |-> 0, retry |-> TRUE]]
         \in [Requests -> [pc : RequestSteps, tok : Tokens, retry : BOOLEAN]]
  BY <1>1 DEF RequestSteps
<1>5. [pc |-> "read", tok |-> 0] \in [pc : RefreshSteps, tok : Tokens]
  BY <1>1 DEF RefreshSteps
<1>6. rf \in [pc : RefreshSteps, tok : Tokens]
  BY DEF AuthTypeOK
<1>7. CASE rq[r].retry
  BY <1>1, <1>2, <1>6, <1>7 DEF Refused401
<1>8. CASE ~rq[r].retry /\ rf.pc # "idle"
  BY <1>3, <1>6, <1>8 DEF Refused401
<1>9. CASE ~rq[r].retry /\ rf.pc = "idle"
  BY <1>4, <1>5, <1>9 DEF Refused401
<1> QED  BY <1>7, <1>8, <1>9

LEMMA RequestType ==
  ASSUME AuthTypeOK, NEW r \in Requests,
         (r \in Calls /\ SendCall(r)) \/ CallAnswered(r) \/ CallLost(r) \/ CallRefused(r)
  PROVE  AuthTypeOK'
<1>1. /\ server \in [sess : Tokens, live : BOOLEAN, stale : BOOLEAN]
      /\ kc \in [acc : Tokens, ref : Tokens, bio : Tokens] /\ 0 \in Tokens
      /\ rq \in [Requests -> [pc : RequestSteps, tok : Tokens, retry : BOOLEAN]]
  BY AuthAssumption DEF AuthTypeOK, Tokens
<1>2. \A how \in RequestSteps :
         Settled(r, how) \in [pc : RequestSteps, tok : Tokens, retry : BOOLEAN]
  BY <1>1 DEF Settled, NoCall, RequestSteps
<1>3. {"sent", "answered", "rejected"} \subseteq RequestSteps
  BY DEF RequestSteps
<1>4. ASSUME SendCall(r) PROVE AuthTypeOK'
  BY <1>1, <1>3, <1>4 DEF SendCall, AuthTypeOK
<1>5. ASSUME CallAnswered(r) PROVE AuthTypeOK'
  BY <1>1, <1>2, <1>3, <1>5 DEF CallAnswered, AuthTypeOK, Ended
<1>6. ASSUME CallLost(r) PROVE AuthTypeOK'
  BY <1>1, <1>2, <1>3, <1>6 DEF CallLost, AuthTypeOK
<1>7. ASSUME CallRefused(r) PROVE AuthTypeOK'
  BY <1>7, RefusedType DEF CallRefused, AuthTypeOK
<1> QED  BY <1>4, <1>5, <1>6, <1>7

Account ==
  AccessExpires \/ RevokedElsewhere \/ SignOut \/ SignOutAnswer \/ BiometricOn
    \/ BiometricCopied \/ BiometricOff

LEMMA AccountType ==
  ASSUME AuthTypeOK, Account \/ KillApp
  PROVE  AuthTypeOK'
<1> USE AuthAssumption
<1>1. /\ server \in [sess : Tokens, live : BOOLEAN, stale : BOOLEAN]
      /\ kc \in [acc : Tokens, ref : Tokens, bio : Tokens]
      /\ rq \in [Requests -> [pc : RequestSteps, tok : Tokens, retry : BOOLEAN]]
      /\ ui \in [pc : FlowSteps, acc : Tokens, tok : Tokens] /\ 0 \in Tokens
      /\ NoFlow \in [pc : FlowSteps, acc : Tokens, tok : Tokens]
      /\ NoCall \in [pc : RequestSteps, tok : Tokens, retry : BOOLEAN]
      /\ "logout" \in Requests
  BY DEF AuthTypeOK, Tokens, NoFlow, NoCall, RequestSteps, FlowSteps, Requests
<1>2. ASSUME AccessExpires PROVE AuthTypeOK'
  BY <1>1, <1>2 DEF AccessExpires, AuthTypeOK
<1>3. ASSUME RevokedElsewhere PROVE AuthTypeOK'
  BY <1>1, <1>3 DEF RevokedElsewhere, Ended, AuthTypeOK
<1>4. ASSUME SignOut PROVE AuthTypeOK'
  BY <1>1, <1>4 DEF SignOut, AuthTypeOK, FlowSteps, RequestSteps
<1>5. ASSUME SignOutAnswer PROVE AuthTypeOK'
  BY <1>1, <1>5 DEF SignOutAnswer, AuthTypeOK, FlowSteps, DelSteps
<1>6. ASSUME BiometricOn PROVE AuthTypeOK'
  BY <1>1, <1>6 DEF BiometricOn, AuthTypeOK, FlowSteps
<1>7. ASSUME BiometricCopied PROVE AuthTypeOK'
  BY <1>1, <1>7 DEF BiometricCopied, AuthTypeOK
<1>8. ASSUME BiometricOff PROVE AuthTypeOK'
  BY <1>1, <1>8 DEF BiometricOff, AuthTypeOK
<1>9. ASSUME KillApp PROVE AuthTypeOK'
  BY <1>1, <1>9 DEF KillApp, AuthTypeOK, States, RefreshSteps, FlowSteps
<1> QED  BY <1>2, <1>3, <1>4, <1>5, <1>6, <1>7, <1>8, <1>9 DEF Account

(* The screens of the signed-out stack. *)

LEMMA Blank ==
  /\ NoForm \in [mode : {"email", "pin"}, pin : BOOLEAN, bio : BOOLEAN, call : Forms]
  /\ NoMfa \in [chal : BOOLEAN, setup : BOOLEAN, pend : Tokens, saved : BOOLEAN]
<1>1. 0 \in Tokens
  BY AuthAssumption DEF Tokens
<1>2. NoForm \in [mode : {"email", "pin"}, pin : BOOLEAN, bio : BOOLEAN, call : Forms]
  BY DEF NoForm, Forms
<1>3. NoMfa \in [chal : BOOLEAN, setup : BOOLEAN, pend : Tokens, saved : BOOLEAN]
  BY <1>1 DEF NoMfa
<1> QED  BY <1>2, <1>3

LEMMA ScreensType ==
  ASSUME AuthTypeOK', SignInTypeOK, ScreensFollow
  PROVE  SignInTypeOK'
<1>1. scr' \in SignedOutScreens \cup SignedInScreens
  BY DEF ScreensFollow, SignInTypeOK, SignedOutScreens, SignedInScreens
<1> QED  BY <1>1, Blank DEF ScreensFollow, SignInTypeOK

LEMMA BackgroundType ==
  ASSUME TypeOK, Background
  PROVE  TypeOK'
<1>1. ASSUME NEW r \in Requests, CallAnswered(r) \/ CallLost(r) \/ CallRefused(r)
      PROVE  AuthTypeOK'
  BY <1>1, RequestType DEF TypeOK
<1>2. ASSUME NEW r \in Calls, SendCall(r) PROVE AuthTypeOK'
  <2>1. r \in Requests
    BY DEF Requests
  <2> QED  BY <1>2, <2>1, RequestType DEF TypeOK
<1>3. ASSUME Restore \/ FlowStep PROVE AuthTypeOK'
  BY <1>3, FlowType DEF TypeOK
<1>4. ASSUME Interceptor PROVE AuthTypeOK'
  BY <1>4, InterceptorType DEF TypeOK
<1>5. ASSUME Account PROVE AuthTypeOK'
  BY <1>5, AccountType DEF TypeOK
<1>6. AuthTypeOK'
  BY <1>1, <1>2, <1>3, <1>4, <1>5 DEF Background, Account
<1> QED  BY <1>6, ScreensType DEF Background, TypeOK

LEMMA KilledType == TypeOK /\ Killed => TypeOK'
<1> SUFFICES ASSUME TypeOK, Killed PROVE TypeOK'
  OBVIOUS
<1>1. AuthTypeOK'
  BY AccountType DEF Killed, TypeOK
<1>2. SignInTypeOK'
  BY Blank DEF Killed, TypeOK, SignInTypeOK, SignedOutScreens
<1> QED  BY <1>1, <1>2 DEF TypeOK

LEMMA UserType == TypeOK /\ User => TypeOK'
<1> SUFFICES ASSUME TypeOK, User PROVE TypeOK'
  OBVIOUS
<1> USE AuthAssumption, PinAssumption
<1> DEFINE FormType == [mode : {"email", "pin"}, pin : BOOLEAN, bio : BOOLEAN, call : Forms]
<1>1. /\ form \in FormType /\ mfa \in [chal : BOOLEAN, setup : BOOLEAN, pend : Tokens, saved : BOOLEAN]
      /\ NoForm \in FormType /\ enrolled \in BOOLEAN
      /\ scr \in SignedOutScreens \cup SignedInScreens
      /\ kc \in [acc : Tokens, ref : Tokens, bio : Tokens] /\ 0 \in Tokens
      /\ server \in [sess : Tokens, live : BOOLEAN, stale : BOOLEAN]
      /\ "login" \in Requests
  BY DEF TypeOK, SignInTypeOK, AuthTypeOK, NoForm, Forms, Tokens, Requests
<1>2. ASSUME NEW s \in SignedOutScreens, Navigate(s) PROVE TypeOK'
  <2>1. MountLogin \in FormType
    BY <1>1 DEF MountLogin, Tokens
  <2>2. form' \in FormType
    BY <1>1, <1>2, <2>1 DEF Navigate
  <2> QED  BY <1>1, <1>2, <2>2 DEF Navigate, TypeOK, SignInTypeOK, AuthTypeOK, authVars
<1>3. ASSUME NEW f \in Forms, Submit(f) PROVE TypeOK'
  <2>1. ui' \in [pc : FlowSteps, acc : Tokens, tok : Tokens]
    BY <1>1, <1>3 DEF Submit, NoFlow, FlowSteps
  <2>2. rq' \in [Requests -> [pc : RequestSteps, tok : Tokens, retry : BOOLEAN]]
    BY <1>1, <1>3 DEF Submit, RequestSteps, TypeOK, AuthTypeOK
  <2>3. form' \in FormType
    BY <1>1, <1>3 DEF Submit
  <2> QED  BY <1>3, <2>1, <2>2, <2>3 DEF Submit, TypeOK, SignInTypeOK, AuthTypeOK
<1>4. ASSUME SwitchMode \/ BiometricGone PROVE TypeOK'
  <2>1. form' \in FormType
    <3>1. CASE SwitchMode
      <4>1. \/ form' = [form EXCEPT !.mode = "pin"] \/ form' = [form EXCEPT !.mode = "email"]
        BY <3>1 DEF SwitchMode
      <4> QED  BY <1>1, <4>1
    <3>2. CASE BiometricGone
      BY <1>1, <3>2 DEF BiometricGone
    <3> QED  BY <1>4, <3>1, <3>2
  <2> QED
    BY <1>4, <2>1 DEF SwitchMode, BiometricGone, TypeOK, SignInTypeOK, AuthTypeOK, authVars
<1>5. ASSUME CodesSaved PROVE TypeOK'
  BY <1>1, <1>5 DEF CodesSaved, TypeOK, SignInTypeOK, AuthTypeOK, authVars
<1>6. ASSUME ActivatePendingTokens PROVE TypeOK'
  <2>1. ui' \in [pc : FlowSteps, acc : Tokens, tok : Tokens]
    BY <1>1, <1>6 DEF ActivatePendingTokens, NoFlow, FlowSteps, PutSteps
  <2>2. excused' \in BOOLEAN
    BY <1>6 DEF ActivatePendingTokens
  <2> QED
    BY <1>6, <2>1, <2>2 DEF ActivatePendingTokens, TypeOK, SignInTypeOK, AuthTypeOK, signInVars
<1> QED  BY <1>2, <1>3, <1>4, <1>5, <1>6 DEF User

LEMMA AnswerType == TypeOK /\ (LoginAnswer \/ LoginRejected) => TypeOK'
<1> SUFFICES ASSUME TypeOK, LoginAnswer \/ LoginRejected PROVE TypeOK'
  OBVIOUS
<1> USE AuthAssumption
<1> DEFINE FormType == [mode : {"email", "pin"}, pin : BOOLEAN, bio : BOOLEAN, call : Forms]
           Call == [pc : RequestSteps, tok : Tokens, retry : BOOLEAN]
           Flow == [pc : FlowSteps, acc : Tokens, tok : Tokens]
           Server == [sess : Tokens, live : BOOLEAN, stale : BOOLEAN]
           Mfa == [chal : BOOLEAN, setup : BOOLEAN, pend : Tokens, saved : BOOLEAN]
<1>1. /\ form \in FormType /\ mfa \in Mfa
      /\ scr \in SignedOutScreens \cup SignedInScreens
      /\ kc \in [acc : Tokens, ref : Tokens, bio : Tokens] /\ 0 \in Tokens
      /\ server \in Server /\ rq \in [Requests -> Call] /\ "login" \in Requests
      /\ NoFlow \in Flow /\ NoCall \in Call /\ "none" \in Forms
  BY DEF TypeOK, SignInTypeOK, AuthTypeOK, NoFlow, NoCall, FlowSteps, RequestSteps, Forms,
         Tokens, Requests
<1>2. Settle => rq' \in [Requests -> Call] /\ form' \in FormType
  BY <1>1 DEF Settle
<1>3. CanIssue => server.sess + 1 \in Tokens
  BY <1>1 DEF CanIssue, Tokens
<1>4. \A n \in Tokens : GrantedNow(n) => /\ ui' \in Flow /\ excused' \in BOOLEAN
                                         /\ UNCHANGED <<st, scr, mfa>>
  BY <1>1 DEF GrantedNow, FlowSteps, PutSteps
<1>5. CanIssue /\ NewSession => server' \in Server
  BY <1>3 DEF NewSession
<1>6. Ended \in Server
  BY <1>1 DEF Ended
<1>7. {"mfa_required", "mfa_enrollment"} \subseteq States
      /\ {"MfaVerify", "MfaEnroll", "RecoveryCodes", "CheckEmail"} \subseteq SignedOutScreens
  BY DEF States, SignedOutScreens
<1> HIDE DEF FormType, Call, Flow, Server
<1>8. ASSUME FirstFactor PROVE TypeOK'
  <2>1. st' \in States /\ scr' \in SignedOutScreens \cup SignedInScreens /\ mfa' \in Mfa
    BY <1>1, <1>7, <1>8 DEF FirstFactor
  <2> QED
    BY <2>1, <1>1, <1>2, <1>8
    DEF FirstFactor, TypeOK, SignInTypeOK, AuthTypeOK, FormType, Call, Flow
<1>9. ASSUME PinLogin \/ TotpVerified \/ BiometricLogin PROVE TypeOK'
  <2>1. Settle /\ CanIssue /\ NewSession /\ GrantedNow(server.sess + 1)
        /\ UNCHANGED <<kc, rf, enrolled>>
    BY <1>9 DEF PinLogin, TotpVerified, BiometricLogin
  <2>2. ui' \in Flow /\ excused' \in BOOLEAN /\ UNCHANGED <<st, scr, mfa>>
    BY <1>3, <1>4, <2>1
  <2> QED
    BY <2>1, <2>2, <1>2, <1>5 DEF TypeOK, SignInTypeOK, AuthTypeOK, FormType, Call, Flow, Server
<1>10. ASSUME RecoveryUsed \/ PasswordReset PROVE TypeOK'
  <2>1. /\ Settle /\ server' = Ended /\ ui' = NoFlow /\ excused' = TRUE
        /\ UNCHANGED <<kc, rf, mfa>>
    BY <1>10 DEF RecoveryUsed, PasswordReset
  <2>2. st' \in States /\ scr' \in SignedOutScreens \cup SignedInScreens /\ enrolled' \in BOOLEAN
    BY <1>1, <1>7, <1>10 DEF RecoveryUsed, PasswordReset, TypeOK, SignInTypeOK, AuthTypeOK
  <2> QED
    BY <2>1, <2>2, <1>1, <1>2, <1>6
    DEF TypeOK, SignInTypeOK, AuthTypeOK, FormType, Call, Flow, Server
<1>11. ASSUME EnrolmentStarted \/ MailSent PROVE TypeOK'
  <2>1. /\ Settle /\ ui' = NoFlow /\ UNCHANGED <<server, kc, st, rf, excused, enrolled>>
    BY <1>11 DEF EnrolmentStarted, MailSent
  <2>2. scr' \in SignedOutScreens \cup SignedInScreens /\ mfa' \in Mfa
    BY <1>1, <1>7, <1>11 DEF EnrolmentStarted, MailSent
  <2> QED
    BY <2>1, <2>2, <1>1, <1>2 DEF TypeOK, SignInTypeOK, AuthTypeOK, FormType, Call, Flow
<1>12. ASSUME EnrolmentConfirmed PROVE TypeOK'
  <2>1. mfa' \in Mfa /\ server' \in Server
    BY <1>1, <1>3, <1>5, <1>12 DEF EnrolmentConfirmed
  <2> QED
    BY <2>1, <1>1, <1>2, <1>7, <1>12
    DEF EnrolmentConfirmed, TypeOK, SignInTypeOK, AuthTypeOK, FormType, Call, Flow, Server
<1>13. ASSUME LoginRefused PROVE TypeOK'
  BY <1>1, <1>13, RefusedType DEF LoginRefused, TypeOK, AuthTypeOK, SignInTypeOK, signInVars
<1>14. ASSUME LoginRejected PROVE TypeOK'
  <2>1. kc' \in [acc : Tokens, ref : Tokens, bio : Tokens]
    BY <1>1, <1>14 DEF LoginRejected
  <2> QED
    BY <2>1, <1>1, <1>2, <1>14
    DEF LoginRejected, TypeOK, SignInTypeOK, AuthTypeOK, FormType, Call, Flow
<1> QED
  BY <1>8, <1>9, <1>10, <1>11, <1>12, <1>13, <1>14 DEF LoginAnswer

LEMMA SignInTypesInit == Init => TypeOK
<1> USE AuthAssumption
<1> SUFFICES ASSUME Init PROVE TypeOK
  OBVIOUS
<1>1. AuthTypeOK
  <2>1. 0 \in Tokens
    BY DEF Tokens
  <2>2. /\ NoCall \in [pc : RequestSteps, tok : Tokens, retry : BOOLEAN]
        /\ [NoFlow EXCEPT !.pc = "read"] \in [pc : FlowSteps, acc : Tokens, tok : Tokens]
    BY <2>1 DEF NoCall, NoFlow, RequestSteps, FlowSteps
  <2> QED
    BY <2>1, <2>2 DEF Init, AuthInit, AuthTypeOK, States, RefreshSteps
<1>2. SignInTypeOK
  BY Blank DEF Init, SignInInit, SignInTypeOK, SignedOutScreens
<1> QED  BY <1>1, <1>2 DEF TypeOK

LEMMA SignInTypesStep == TypeOK /\ [Next]_vars => TypeOK'
<1> SUFFICES ASSUME TypeOK, [Next]_vars PROVE TypeOK'
  OBVIOUS
<1>1. CASE UNCHANGED vars
  BY <1>1 DEF vars, authVars, signInVars, TypeOK, AuthTypeOK, SignInTypeOK
<1> QED
  BY <1>1, BackgroundType, KilledType, UserType, AnswerType DEF Next

\* Every variable keeps to its domain.
THEOREM SignInTypes == Spec => []TypeOK
BY SignInTypesInit, SignInTypesStep, PTL DEF Spec

----------------------------------------------------------------------------
(* Where each flow can be under way: a restore while the splash screen is shown, a form *)
(* while signed out, a sign-out or a copy while signed in; and the stack shown is that  *)
(* of the state.                                                                        *)

Restoring == {"read", "me", "sent", "rotated", "refused"}
SignedOut == {"unauthenticated", "mfa_required", "mfa_enrollment"}
Storing   == PutSteps \cup {"stored"}
Clearing  == DelSteps \cup {"cleared"}

FlowFrame ==
  /\ st = "loading" => /\ rf.pc = "idle" /\ \A r \in Requests : rq[r].pc = "idle"
                       /\ ui.pc \in Restoring \cup Storing \cup Clearing
  /\ ui.pc \in Restoring => st = "loading"
  /\ ui.pc = "login" => st \in SignedOut
  /\ ui.pc \in {"logout", "copy_bio"} => st = "authenticated"
  /\ ui.pc \in Storing => st # "authenticated"
  /\ rq["login"].pc # "idle" => ui.pc = "login"

ScreenFrame ==
  /\ st = "loading" => scr = "Welcome" /\ mfa.pend = 0
  /\ st = "authenticated" => scr = "Home"

\* A pending session was issued, and is entered with its codes confirmed.
CodesInv ==
  /\ mfa.pend <= server.sess
  /\ ui.pc \in Storing /\ mfa.pend # 0 /\ ui.tok = mfa.pend => mfa.saved

Frame == FlowFrame /\ ScreenFrame /\ CodesInv

LEMMA KeychainSteps ==
  /\ \A pc \in PutSteps : StepAfter(pc) \in Storing \ {"put_acc"}
  /\ \A pc \in DelSteps : StepAfter(pc) \in Clearing \ {"del_acc"}
<1>1. \A pc \in PutSteps : StepAfter(pc) \in Storing \ {"put_acc"}
  BY DEF StepAfter, PutSteps, Storing
<1>2. \A pc \in DelSteps : StepAfter(pc) \in Clearing \ {"del_acc"}
  BY DEF StepAfter, DelSteps, Clearing
<1> QED  BY <1>1, <1>2

\* What a step of the session does to the flow that is under way.
FlowMoves ==
  /\ FlowFrame'
  /\ st' = "loading" => st = "loading"
  /\ server'.sess >= server.sess
  /\ ui'.pc \in Storing => st = "loading" \/ (ui.pc \in Storing /\ ui'.tok = ui.tok)
  /\ st # "authenticated" /\ st' = "authenticated" => st = "loading" \/ ui.pc \in Storing

LEMMA RestoreFrame ==
  ASSUME AuthTypeOK, FlowFrame, Restore \/ FlowStep
  PROVE  FlowMoves
<1>1. /\ server.sess \in Nat /\ ui \in [pc : FlowSteps, acc : Tokens, tok : Tokens]
  BY AuthAssumption DEF AuthTypeOK, Tokens
<1>2. /\ NoFlow.pc = "idle"
      /\ \A s \in States : Enter(s) => ui'.pc = "idle" /\ st' = s
  BY DEF NoFlow, Enter
<1> USE DEF FlowMoves, FlowFrame, Restoring, Storing, Clearing, SignedOut, PutSteps, DelSteps, States
<1>3. ASSUME RestoreRead PROVE FlowMoves
  BY <1>1, <1>2, <1>3 DEF RestoreRead
<1>4. ASSUME RestoreMe PROVE FlowMoves
  <2>1. CASE Enter("authenticated")
    BY <1>1, <1>2, <1>4, <2>1 DEF RestoreMe
  <2>2. CASE ui' = [ui EXCEPT !.pc = "sent"] /\ UNCHANGED st
    BY <1>1, <1>4, <2>2 DEF RestoreMe
  <2> QED  BY <1>4, <2>1, <2>2 DEF RestoreMe
<1>5. ASSUME RestoreServer PROVE FlowMoves
  <2>1. \/ ui' = [ui EXCEPT !.pc = "rotated", !.tok = server.sess + 1] /\ NewSession
        \/ ui' = [ui EXCEPT !.pc = "refused"] /\ UNCHANGED server
    BY <1>5 DEF RestoreServer
  <2>2. ui'.pc \in {"rotated", "refused"}
    BY <1>1, <2>1
  <2>3. server'.sess >= server.sess
    BY <1>1, <2>1 DEF NewSession
  <2> QED  BY <1>1, <1>5, <2>2, <2>3 DEF RestoreServer
<1>6. ASSUME RestoreAnswer PROVE FlowMoves
  <2>1. ui' = [ui EXCEPT !.pc = "put_acc", !.acc = 0] \/ ui' = [NoFlow EXCEPT !.pc = "del_acc"]
    BY <1>6 DEF RestoreAnswer
  <2>2. ui'.pc \in {"put_acc", "del_acc"}
    BY <1>1, <2>1 DEF NoFlow
  <2> QED  BY <1>1, <1>6, <2>2 DEF RestoreAnswer
<1>7. ASSUME RestoreLost PROVE FlowMoves
  BY <1>1, <1>2, <1>7 DEF RestoreLost
<1>8. ASSUME FlowKeychain PROVE FlowMoves
  <2>1. ui'.pc = StepAfter(ui.pc) /\ ui'.tok = ui.tok /\ UNCHANGED <<server, st, rq, rf>>
    BY <1>1, <1>8 DEF FlowKeychain
  <2>2. ui.pc \in PutSteps => ui'.pc \in Storing
    BY <2>1, KeychainSteps
  <2>3. ui.pc \in DelSteps => ui'.pc \in Clearing
    BY <2>1, KeychainSteps
  <2> QED
    BY <1>1, <1>8, <2>1, <2>2, <2>3 DEF FlowKeychain
<1>9. ASSUME FlowStored \/ FlowCleared PROVE FlowMoves
  BY <1>1, <1>2, <1>9 DEF FlowStored, FlowCleared
<1>10. ASSUME Restore PROVE FlowMoves
  BY <1>3, <1>4, <1>5, <1>6, <1>7, <1>10 DEF Restore
<1>11. ASSUME FlowStep PROVE FlowMoves
  BY <1>8, <1>9, <1>11 DEF FlowStep
<1> QED  BY <1>10, <1>11

\* The interceptor is at rest until the splash screen has ended, and starts nothing new.
LEMMA InterceptorFrame ==
  ASSUME AuthTypeOK, FlowFrame, Interceptor
  PROVE  FlowMoves
<1>1. server.sess \in Nat /\ rq \in [Requests -> [pc : RequestSteps, tok : Tokens, retry : BOOLEAN]]
      /\ "login" \in Requests
  BY AuthAssumption DEF AuthTypeOK, Tokens, Requests
<1>2. rf.pc # "idle" /\ UNCHANGED <<st, ui>> /\ server'.sess >= server.sess
  BY <1>1 DEF Interceptor, ReadRefreshToken, RefreshRotates, RefreshRefused, RefreshAnswer,
              RefreshLost, RefreshKeychain, RefreshStored, RefreshCleared, NewSession, PutSteps, DelSteps
<1>3. rq["login"].pc = "idle" => rq'["login"].pc = "idle"
  <2>1. \/ FailRefresh \/ UNCHANGED rq
        \/ RefreshStored \/ RefreshCleared
    BY DEF Interceptor, ReadRefreshToken, RefreshRotates, RefreshRefused, RefreshAnswer,
           RefreshLost, RefreshKeychain
  <2> QED
    BY <1>1, <2>1 DEF FailRefresh, RefreshStored, RefreshCleared
<1> QED
  BY <1>2, <1>3 DEF FlowMoves, FlowFrame

LEMMA RequestFrame ==
  ASSUME AuthTypeOK, FlowFrame, NEW r \in Requests,
         (r \in Calls /\ SendCall(r)) \/ CallAnswered(r) \/ CallLost(r) \/ CallRefused(r)
  PROVE  FlowMoves
<1>1. server.sess \in Nat /\ server \in [sess : Tokens, live : BOOLEAN, stale : BOOLEAN]
      /\ rq \in [Requests -> [pc : RequestSteps, tok : Tokens, retry : BOOLEAN]]
  BY AuthAssumption DEF AuthTypeOK, Tokens
<1>2. UNCHANGED <<st, ui>> /\ server'.sess = server.sess
  BY <1>1 DEF SendCall, CallAnswered, CallLost, CallRefused, Ended
<1>3. st # "loading"
  BY DEF SendCall, CallAnswered, CallLost, CallRefused, FlowFrame
<1>4. r = "login" => rq[r].pc # "idle"
  BY AuthAssumption DEF SendCall, CallAnswered, CallLost, CallRefused
<1>5. r # "login" => rq'["login"] = rq["login"]
  <2>1. \A n : [rq EXCEPT ![r] = n]["login"] = rq["login"] \/ r = "login"
    BY <1>1 DEF Requests
  <2>2. [rq EXCEPT ![r].pc = "waiting", ![r].tok = 0]["login"] = rq["login"] \/ r = "login"
    BY <1>1 DEF Requests
  <2> QED
    BY <2>1, <2>2 DEF SendCall, CallAnswered, CallLost, CallRefused, Refused401
<1> QED
  BY <1>1, <1>2, <1>3, <1>4, <1>5 DEF FlowMoves, FlowFrame

\* The account screens and the server's clock.
LEMMA AccountFrame ==
  ASSUME AuthTypeOK, FlowFrame, Account
  PROVE  FlowMoves
<1>1. server.sess \in Nat /\ server \in [sess : Tokens, live : BOOLEAN, stale : BOOLEAN]
      /\ rq \in [Requests -> [pc : RequestSteps, tok : Tokens, retry : BOOLEAN]]
      /\ ui \in [pc : FlowSteps, acc : Tokens, tok : Tokens]
  BY AuthAssumption DEF AuthTypeOK, Tokens
<1>2. UNCHANGED <<st, rf>> /\ server'.sess = server.sess
  BY <1>1 DEF Account, AccessExpires, RevokedElsewhere, SignOut, SignOutAnswer, BiometricOn,
              BiometricCopied, BiometricOff, Ended
<1>3. CASE SignOut
  <2>1. st = "authenticated" /\ ui'.pc = "logout" /\ rq'["login"] = rq["login"] /\ ui.pc = "idle"
    BY <1>1, <1>3 DEF SignOut, NoFlow, Requests
  <2> QED
    BY <1>1, <1>2, <2>1 DEF FlowMoves, FlowFrame, Restoring, Storing, PutSteps
<1>4. CASE SignOutAnswer \/ BiometricOn \/ BiometricCopied
  <2>1. st = "authenticated" /\ ui'.pc \in {"del_acc", "copy_bio", "idle"} /\ ui.pc # "login"
    <3>1. CASE SignOutAnswer
      BY <1>1, <3>1 DEF SignOutAnswer, FlowFrame
    <3>2. CASE BiometricOn
      BY <1>1, <3>2 DEF BiometricOn, NoFlow
    <3>3. CASE BiometricCopied
      BY <1>1, <3>3 DEF BiometricCopied, NoFlow, FlowFrame
    <3> QED  BY <1>4, <3>1, <3>2, <3>3
  <2>2. rq'["login"] = rq["login"]
    BY <1>1, <1>4 DEF SignOutAnswer, BiometricOn, BiometricCopied, Requests
  <2> QED
    BY <1>1, <1>2, <2>1, <2>2 DEF FlowMoves, FlowFrame, Restoring, Storing, PutSteps
<1>5. CASE AccessExpires \/ RevokedElsewhere \/ BiometricOff
  <2>1. UNCHANGED <<ui, rq>>
    BY <1>5 DEF AccessExpires, RevokedElsewhere, BiometricOff
  <2> QED
    BY <1>1, <1>2, <2>1 DEF FlowMoves, FlowFrame
<1> QED
  BY <1>3, <1>4, <1>5 DEF Account

LEMMA BackgroundMoves ==
  ASSUME AuthTypeOK, FlowFrame, Background
  PROVE  FlowMoves
<1>1. ASSUME NEW r \in Requests, CallAnswered(r) \/ CallLost(r) \/ CallRefused(r) PROVE FlowMoves
  BY <1>1, RequestFrame
<1>2. ASSUME NEW r \in Calls, SendCall(r) PROVE FlowMoves
  BY <1>2, RequestFrame DEF Requests
<1>3. ASSUME Restore \/ FlowStep PROVE FlowMoves
  BY <1>3, RestoreFrame
<1>4. ASSUME Interceptor PROVE FlowMoves
  BY <1>4, InterceptorFrame
<1>5. ASSUME Account PROVE FlowMoves
  BY <1>5, AccountFrame
<1> QED  BY <1>1, <1>2, <1>3, <1>4, <1>5 DEF Background, Account

LEMMA BackgroundFrame ==
  ASSUME TypeOK, Frame, Background
  PROVE  Frame'
<1>1. FlowMoves
  BY BackgroundMoves DEF TypeOK, Frame
<1>2. /\ NoMfa.pend = 0
      /\ mfa' = mfa \/ mfa' = NoMfa
      /\ scr' = IF st' = "authenticated" THEN "Home"
                ELSE IF st = "authenticated" THEN "Welcome" ELSE scr
  BY DEF Background, ScreensFollow, NoMfa
<1>3. ScreenFrame'
  BY <1>1, <1>2 DEF FlowMoves, Frame, ScreenFrame
<1>4. CodesInv'
  <2>1. mfa.pend \in Nat /\ server.sess \in Nat /\ server'.sess \in Nat
    BY BackgroundType DEF TypeOK, AuthTypeOK, SignInTypeOK, Tokens
  <2> QED
    BY <1>1, <1>2, <2>1 DEF FlowMoves, Frame, ScreenFrame, CodesInv
<1> QED  BY <1>1, <1>3, <1>4 DEF FlowMoves, Frame

LEMMA KilledFrame ==
  ASSUME TypeOK, Killed
  PROVE  Frame'
<1>1. server.sess \in Nat /\ server' = server
  BY DEF TypeOK, AuthTypeOK, Tokens, Killed, KillApp
<1>2. /\ st' = "loading" /\ scr' = "Welcome" /\ mfa'.pend = 0
      /\ ui'.pc = "read" /\ rf'.pc = "idle" /\ \A r \in Requests : rq'[r].pc = "idle"
  BY DEF Killed, KillApp, NoMfa, NoFlow, NoCall
<1> QED
  BY <1>1, <1>2 DEF Frame, FlowFrame, ScreenFrame, CodesInv, Restoring, Storing, PutSteps, Requests

LEMMA UserFrame ==
  ASSUME TypeOK, Frame, User
  PROVE  Frame'
<1>1. /\ ui \in [pc : FlowSteps, acc : Tokens, tok : Tokens]
      /\ rq \in [Requests -> [pc : RequestSteps, tok : Tokens, retry : BOOLEAN]]
      /\ mfa \in [chal : BOOLEAN, setup : BOOLEAN, pend : Tokens, saved : BOOLEAN]
  BY DEF TypeOK, AuthTypeOK, SignInTypeOK
<1>2. ASSUME NEW s \in SignedOutScreens, Navigate(s) PROVE Frame'
  BY <1>2 DEF Navigate, Frame, FlowFrame, ScreenFrame, CodesInv, authVars
<1>3. ASSUME NEW f \in Forms, Submit(f) PROVE Frame'
  <2>1. ui'.pc = "login" /\ st \in SignedOut /\ UNCHANGED <<server, st, rf, scr, mfa>>
    BY <1>3 DEF Submit, NoFlow, SignedOut
  <2> QED
    BY <2>1 DEF Frame, FlowFrame, ScreenFrame, CodesInv, SignedOut, Restoring, Storing, PutSteps
<1>4. ASSUME SwitchMode \/ BiometricGone PROVE Frame'
  BY <1>4 DEF SwitchMode, BiometricGone, Frame, FlowFrame, ScreenFrame, CodesInv, authVars
<1>5. ASSUME CodesSaved PROVE Frame'
  <2>1. mfa'.pend = mfa.pend /\ mfa'.saved = TRUE /\ UNCHANGED <<authVars, scr>>
    BY <1>1, <1>5 DEF CodesSaved
  <2> QED
    BY <2>1 DEF Frame, FlowFrame, ScreenFrame, CodesInv, authVars
<1>6. ASSUME ActivatePendingTokens PROVE Frame'
  <2>1. /\ ui'.pc = "put_acc" /\ mfa.saved /\ ui.pc = "idle" /\ scr = "RecoveryCodes"
        /\ UNCHANGED <<server, st, rf, rq, scr, mfa>>
    BY <1>6 DEF ActivatePendingTokens, NoFlow, signInVars
  <2>2. st # "loading" /\ st # "authenticated"
    BY <2>1 DEF Frame, ScreenFrame
  <2> QED
    BY <2>1, <2>2 DEF Frame, FlowFrame, ScreenFrame, CodesInv, Restoring, Storing, PutSteps
<1> QED  BY <1>2, <1>3, <1>4, <1>5, <1>6 DEF User

LEMMA AnswerFrame ==
  ASSUME TypeOK, Frame, LoginAnswer \/ LoginRejected
  PROVE  Frame'
<1>1. /\ rq \in [Requests -> [pc : RequestSteps, tok : Tokens, retry : BOOLEAN]]
      /\ server \in [sess : Tokens, live : BOOLEAN, stale : BOOLEAN] /\ server.sess \in Nat
      /\ mfa \in [chal : BOOLEAN, setup : BOOLEAN, pend : Tokens, saved : BOOLEAN]
      /\ mfa.pend \in Nat /\ "login" \in Requests /\ NoFlow.pc = "idle"
  BY AuthAssumption DEF TypeOK, AuthTypeOK, SignInTypeOK, Tokens, Requests, NoFlow
<1>2. ui.pc = "login" /\ st \in SignedOut
  BY DEF LoginAnswer, LoginRejected, FirstFactor, PinLogin, TotpVerified, RecoveryUsed,
         EnrolmentStarted, EnrolmentConfirmed, BiometricLogin, MailSent, PasswordReset,
         LoginRefused, Pending, Frame, FlowFrame
<1>3. st # "loading" /\ st # "authenticated"
  BY <1>2 DEF SignedOut
<1>4. ASSUME Settle, ui'.pc \in {"idle", "put_acc"}, st' \in SignedOut
      PROVE  FlowFrame' /\ ScreenFrame'
  <2>1. rq'["login"].pc = "idle"
    BY <1>1, <1>4 DEF Settle, NoCall
  <2> QED
    BY <1>4, <2>1 DEF FlowFrame, ScreenFrame, SignedOut, Restoring, Storing, PutSteps
<1>5. ASSUME FirstFactor PROVE Frame'
  <2>1. /\ Settle /\ ui'.pc = "idle" /\ st' \in SignedOut
        /\ server' = server /\ mfa'.pend = mfa.pend
    BY <1>1, <1>5 DEF FirstFactor, SignedOut
  <2> QED
    BY <1>4, <2>1 DEF Frame, CodesInv, Storing, PutSteps
<1>6. ASSUME PinLogin \/ TotpVerified \/ BiometricLogin PROVE Frame'
  <2>1. /\ Settle /\ ui'.pc = "put_acc" /\ ui'.tok = server.sess + 1 /\ UNCHANGED <<st, mfa>>
        /\ server'.sess = server.sess + 1
    <3>1. Settle /\ NewSession /\ GrantedNow(server.sess + 1)
      BY <1>6 DEF PinLogin, TotpVerified, BiometricLogin
    <3> QED  BY <3>1 DEF GrantedNow, NewSession, NoFlow
  <2> QED
    BY <1>1, <1>2, <1>4, <2>1 DEF Frame, CodesInv
<1>7. ASSUME RecoveryUsed \/ PasswordReset \/ EnrolmentStarted \/ MailSent \/ LoginRejected
      PROVE  Frame'
  <2>1. Settle /\ ui'.pc = "idle" /\ st' \in SignedOut
    BY <1>1, <1>2, <1>7 DEF RecoveryUsed, PasswordReset, EnrolmentStarted, MailSent,
       LoginRejected, SignedOut
  <2>2. server'.sess = server.sess /\ mfa'.pend = mfa.pend
    BY <1>1, <1>7 DEF RecoveryUsed, PasswordReset, EnrolmentStarted, MailSent,
       LoginRejected, Ended
  <2> QED
    BY <1>4, <2>1, <2>2 DEF Frame, CodesInv, Storing, PutSteps
<1>8. ASSUME EnrolmentConfirmed PROVE Frame'
  <2>1. /\ Settle /\ ui'.pc = "idle" /\ st' = st
        /\ server'.sess = server.sess + 1 /\ mfa'.pend = server.sess + 1
    BY <1>1, <1>8 DEF EnrolmentConfirmed, NewSession
  <2> QED
    BY <1>1, <1>2, <1>4, <2>1 DEF Frame, CodesInv, Storing, PutSteps
<1>9. ASSUME LoginRefused PROVE Frame'
  BY <1>2, <1>3, <1>9 DEF LoginRefused, Frame, FlowFrame, ScreenFrame, CodesInv, signInVars
<1> QED  BY <1>5, <1>6, <1>7, <1>8, <1>9 DEF LoginAnswer

----------------------------------------------------------------------------
(* While nothing excuses it, the client holds what the server will rotate next: the     *)
(* keychain has the newest pair, or exactly one flow is on its way to put it there.      *)

Writing == {"rotated", "put_acc", "put_ref"}

Good == kc.ref # 0 => kc.acc # 0 /\ Rotates(kc.ref)

\* The interceptor's refresh uses the stored token and carries a good one back.
Refreshing ==
  /\ rf.pc # "refused"
  /\ rf.pc \in Writing => Rotates(rf.tok)
  /\ rf.pc = "put_ref" => kc.acc # 0
  /\ rf.pc = "sent" => rf.tok = kc.ref /\ kc.ref # 0

\* So does a restore, and nobody is signing out.
Flowing ==
  /\ ui.pc \notin {"refused", "logout"} \cup Clearing
  /\ ui.pc \in Writing => Rotates(ui.tok)
  /\ ui.pc = "put_ref" => kc.acc # 0
  /\ ui.pc \in {"me", "sent"} => ui.tok = kc.ref /\ kc.ref # 0 /\ ui.acc = kc.acc

\* The two never write at once.
OneWriter ==
  /\ rq["logout"].pc = "idle"
  /\ st # "authenticated" => /\ \A r \in Calls : rq[r].pc = "idle"
                             /\ rf.pc \in {"idle", "read"} \cup Clearing
  /\ ui.pc \in Storing => rf.pc = "idle"

Kept ==
  /\ rf.pc \notin Writing \cup {"del_ref"} /\ ui.pc \notin Writing => Good
  /\ st \in SignedOut /\ ui.pc \in {"idle", "login"} => kc.ref = 0

Calm  == Refreshing /\ Flowing /\ OneWriter /\ Kept
Sound == ~excused => Calm

\* What one keychain call writes, and the call after it.
LEMMA KeychainWrites ==
  ASSUME AuthTypeOK, NEW pc \in PutSteps \cup DelSteps, NEW t, NEW k, k = KeychainAfter(pc, t)
  PROVE  /\ k.acc = IF pc = "put_acc" THEN t ELSE IF pc = "del_acc" THEN 0 ELSE kc.acc
         /\ k.ref = IF pc = "put_ref" THEN t ELSE IF pc = "del_ref" THEN 0 ELSE kc.ref
         /\ pc = "put_acc" => StepAfter(pc) = "put_ref"
         /\ pc \in PutSteps \ {"put_acc"} => StepAfter(pc) \in Storing \ Writing
         /\ pc = "del_acc" => StepAfter(pc) = "del_ref"
         /\ pc \in DelSteps \ {"del_acc"} => StepAfter(pc) \in Clearing \ {"del_acc", "del_ref"}
<1>1. kc \in [acc : Tokens, ref : Tokens, bio : Tokens]
  BY DEF AuthTypeOK
<1>2. /\ k.acc = IF pc = "put_acc" THEN t ELSE IF pc = "del_acc" THEN 0 ELSE kc.acc
      /\ k.ref = IF pc = "put_ref" THEN t ELSE IF pc = "del_ref" THEN 0 ELSE kc.ref
  BY <1>1 DEF KeychainAfter, PutSteps, DelSteps
<1>3. /\ pc = "put_acc" => StepAfter(pc) = "put_ref"
      /\ pc \in PutSteps \ {"put_acc"} => StepAfter(pc) \in Storing \ Writing
  BY DEF StepAfter, PutSteps, Storing, Writing
<1>4. /\ pc = "del_acc" => StepAfter(pc) = "del_ref"
      /\ pc \in DelSteps \ {"del_acc"} => StepAfter(pc) \in Clearing \ {"del_acc", "del_ref"}
  BY DEF StepAfter, DelSteps, Clearing
<1> QED  BY <1>2, <1>3, <1>4

LEMMA RestoreCalm ==
  ASSUME AuthTypeOK, FlowFrame, Calm, Restore, ~excused'
  PROVE  ~excused /\ Calm'
<1>1. /\ ui \in [pc : FlowSteps, acc : Tokens, tok : Tokens]
      /\ server \in [sess : Tokens, live : BOOLEAN, stale : BOOLEAN] /\ server.sess \in Nat
      /\ st \in States
  BY AuthAssumption DEF AuthTypeOK, Tokens
<1>2. /\ NoFlow.pc = "idle"
      /\ \A s : Enter(s) => ui'.pc = "idle" /\ st' = s
  BY DEF NoFlow, Enter
<1>3. /\ ui.pc \in Restoring /\ st = "loading" /\ rf.pc = "idle"
      /\ \A r \in Requests : rq[r].pc = "idle"
      /\ UNCHANGED <<kc, rf, rq>>
  BY DEF Restore, RestoreRead, RestoreMe, RestoreServer, RestoreAnswer, RestoreLost, Restoring,
         FlowFrame
<1>4. ui.pc # "rotated" => Good
  BY <1>3 DEF Calm, Kept, Restoring, Writing
<1> USE DEF Calm, Refreshing, Flowing, OneWriter, Kept, SignedOut, Storing, Clearing, Writing, PutSteps,
        DelSteps, Requests
<1>5. ASSUME RestoreRead PROVE ~excused /\ Calm'
  <2>1. kc.ref = 0 \/ (ui'.pc \in {"me", "sent"} /\ ui'.tok = kc.ref /\ ui'.acc = kc.acc /\ UNCHANGED st)
    BY <1>5 DEF RestoreRead
  <2>2. kc.ref = 0 => ui'.pc = "idle" /\ st' = "unauthenticated"
    BY <1>2, <1>5 DEF RestoreRead
  <2>3. Good'
    BY <1>3, <1>4, <1>5 DEF RestoreRead, Good, Rotates
  <2> QED
    BY <1>3, <1>5, <2>1, <2>2, <2>3 DEF RestoreRead
<1>6. ASSUME RestoreMe PROVE ~excused /\ Calm'
  <2>1. \/ ui'.pc = "idle" /\ st' = "authenticated"
        \/ ui'.pc = "sent" /\ ui'.tok = ui.tok /\ ui'.acc = ui.acc /\ st' = st
    BY <1>1, <1>2, <1>6 DEF RestoreMe
  <2>2. Good'
    BY <1>3, <1>4, <1>6 DEF RestoreMe, Good, Rotates
  <2> QED
    BY <1>3, <1>6, <2>1, <2>2 DEF RestoreMe
<1>7. ASSUME RestoreServer PROVE ~excused /\ Calm'
  <2>1. Rotates(ui.tok)
    BY <1>4, <1>7 DEF RestoreServer, Good
  <2>2. NewSession /\ ui' = [ui EXCEPT !.pc = "rotated", !.tok = server.sess + 1]
    BY <1>7, <2>1 DEF RestoreServer
  <2>3. ui'.pc = "rotated" /\ Rotates(ui.tok)'
    BY <1>1, <2>2 DEF NewSession, Rotates
  <2> QED
    BY <1>3, <1>7, <2>3 DEF RestoreServer
<1>8. ASSUME RestoreAnswer PROVE ~excused /\ Calm'
  <2>1. ui.pc = "rotated" /\ ui'.pc = "put_acc" /\ ui'.tok = ui.tok
    BY <1>1, <1>8 DEF RestoreAnswer
  <2> QED
    BY <1>3, <1>8, <2>1 DEF RestoreAnswer, Rotates
<1>9. ASSUME RestoreLost PROVE ~excused /\ Calm'
  <2>1. ~excused /\ ui.pc = "sent"
    BY <1>9 DEF RestoreLost
  <2>2. ui.acc # 0 /\ ui'.pc = "idle" /\ st' = "authenticated"
    BY <1>2, <1>4, <1>9, <2>1 DEF RestoreLost, Good
  <2>3. Good'
    BY <1>3, <1>4, <1>9, <2>1 DEF RestoreLost, Good, Rotates
  <2> QED
    BY <1>3, <1>9, <2>1, <2>2, <2>3 DEF RestoreLost
<1> QED  BY <1>5, <1>6, <1>7, <1>8, <1>9 DEF Restore

LEMMA FlowStepCalm ==
  ASSUME AuthTypeOK, FlowFrame, Calm, FlowStep, ~excused'
  PROVE  ~excused /\ Calm'
<1>1. /\ ui \in [pc : FlowSteps, acc : Tokens, tok : Tokens]
      /\ kc \in [acc : Tokens, ref : Tokens, bio : Tokens]
  BY DEF AuthTypeOK
<1>2. /\ ui.pc \in Storing /\ rf.pc = "idle" /\ UNCHANGED <<server, rf, rq, excused>>
      /\ st # "authenticated"
  BY DEF FlowStep, FlowKeychain, FlowStored, FlowCleared, Calm, Flowing, OneWriter, Storing, Clearing,
         FlowFrame
<1>3. ~excused
  BY <1>2
<1>4. ASSUME FlowKeychain PROVE Calm'
  <2>1. PICK pc \in PutSteps : pc = ui.pc
    BY <1>2, <1>4 DEF FlowKeychain, Calm, Flowing, Clearing
  <2>2. PICK t, k : t = ui.tok /\ k = kc' /\ k = KeychainAfter(pc, t)
    BY <1>4, <2>1 DEF FlowKeychain
  <2>3. /\ k.acc = IF pc = "put_acc" THEN t ELSE kc.acc
        /\ k.ref = IF pc = "put_ref" THEN t ELSE kc.ref
        /\ pc = "put_acc" => StepAfter(pc) = "put_ref"
        /\ pc # "put_acc" => StepAfter(pc) \in Storing \ Writing
    BY <2>1, <2>2, KeychainWrites DEF PutSteps, DelSteps
  <2>4. ui'.pc = StepAfter(pc) /\ ui'.tok = t /\ st' = st
    BY <1>1, <1>4, <2>1, <2>2 DEF FlowKeychain
  <2>5. pc = "put_acc" => t # 0 /\ Rotates(ui.tok)'
    BY <1>2, <2>1, <2>2, <2>4 DEF Calm, Flowing, Writing, Rotates
  <2>6. pc # "put_acc" => Good'
    <3>1. CASE pc = "put_ref"
      BY <1>2, <2>1, <2>2, <2>3, <3>1 DEF Calm, Flowing, Writing, Rotates, Good
    <3>2. CASE pc \notin {"put_acc", "put_ref"}
      BY <1>2, <2>1, <2>2, <2>3, <3>2 DEF Calm, Kept, Writing, Rotates, Good, PutSteps
    <3> QED  BY <3>1, <3>2
  <2>7. Refreshing' /\ OneWriter'
    BY <1>2, <2>4 DEF Calm, Refreshing, OneWriter, Writing
  <2>8. CASE pc = "put_acc"
    <3>1. ui'.pc = "put_ref" /\ kc'.acc # 0
      BY <2>2, <2>3, <2>4, <2>5, <2>8
    <3>2. Flowing' /\ Kept'
      BY <2>5, <2>8, <3>1 DEF Flowing, Kept, Writing, Clearing, DelSteps
    <3> QED  BY <2>7, <3>2 DEF Calm
  <2>9. CASE pc # "put_acc"
    <3>1. ui'.pc \in Storing \ Writing /\ Good'
      BY <2>3, <2>4, <2>6, <2>9
    <3>2. Flowing' /\ Kept'
      BY <3>1 DEF Flowing, Kept, Writing, Clearing, DelSteps, Storing, PutSteps
    <3> QED  BY <2>7, <3>2 DEF Calm
  <2> QED  BY <2>8, <2>9
<1>5. ASSUME FlowStored PROVE Calm'
  <2>1. ui'.pc = "idle" /\ st' = "authenticated" /\ UNCHANGED kc /\ ui.pc = "stored"
    BY <1>5 DEF FlowStored, Enter, NoFlow
  <2>2. Good /\ Good'
    BY <1>2, <2>1 DEF Calm, Kept, Good, Rotates, Writing
  <2> QED
    BY <1>2, <2>1, <2>2 DEF Calm, Refreshing, Flowing, OneWriter, Kept, Writing, Clearing, DelSteps,
                            Storing, PutSteps, SignedOut
<1>6. ~FlowCleared
  BY <1>2 DEF FlowCleared, Storing, PutSteps
<1> QED  BY <1>3, <1>4, <1>5, <1>6 DEF FlowStep

LEMMA InterceptorCalm ==
  ASSUME AuthTypeOK, FlowFrame, Calm, Interceptor, ~excused'
  PROVE  ~excused /\ Calm'
<1>1. /\ rf \in [pc : RefreshSteps, tok : Tokens]
      /\ kc \in [acc : Tokens, ref : Tokens, bio : Tokens]
      /\ rq \in [Requests -> [pc : RequestSteps, tok : Tokens, retry : BOOLEAN]]
      /\ server \in [sess : Tokens, live : BOOLEAN, stale : BOOLEAN] /\ server.sess \in Nat
      /\ st \in States
  BY AuthAssumption DEF AuthTypeOK, Tokens
<1>2. /\ UNCHANGED <<st, ui>> /\ rf.pc # "idle"
      /\ rf.pc # "refused"
  BY DEF Interceptor, ReadRefreshToken, RefreshRotates, RefreshRefused, RefreshAnswer,
         RefreshLost, RefreshKeychain, RefreshStored, RefreshCleared, PutSteps, DelSteps, Calm, Refreshing
<1>3. st \in SignedOut \cup {"authenticated"} /\ ui.pc \in {"idle", "login", "copy_bio"}
  BY <1>1, <1>2 DEF FlowFrame, Calm, Flowing, OneWriter, States, SignedOut, Restoring, FlowSteps,
                    Storing, Clearing, AuthTypeOK
<1>4. st # "authenticated" => kc.ref = 0 /\ rf.pc \in {"read"} \cup Clearing
  BY <1>2, <1>3 DEF FlowFrame, Calm, Kept, OneWriter
\* A request that is idle stays so.
<1>5. \A r \in Requests : rq[r].pc = "idle" => rq'[r].pc = "idle"
  <2>1. FailRefresh \/ UNCHANGED rq \/ RefreshStored \/ RefreshCleared
    BY DEF Interceptor, ReadRefreshToken, RefreshRotates, RefreshRefused, RefreshAnswer,
           RefreshLost, RefreshKeychain
  <2> QED
    BY <1>1, <2>1 DEF FailRefresh, RefreshStored, RefreshCleared
<1>6. ASSUME ~excused, rf'.pc \in {"idle", "read"} \cup Clearing \/ st = "authenticated", Refreshing',
             kc'.ref = kc.ref \/ st = "authenticated",
             kc'.ref = 0 \/ rf'.pc \in Writing \cup {"del_ref"} \/ Good'
      PROVE  ~excused /\ Calm'
  <2>1. OneWriter'
    BY <1>2, <1>3, <1>5, <1>6 DEF Calm, OneWriter, Requests, Storing, PutSteps
  <2>2. Flowing'
    BY <1>2, <1>3 DEF Calm, Flowing, Writing, Clearing, DelSteps
  <2>3. kc'.ref = 0 => Good'
    BY DEF Good
  <2>4. Kept'
    BY <1>2, <1>3, <1>4, <1>6, <2>3 DEF Kept, SignedOut
  <2> QED  BY <1>6, <2>1, <2>2, <2>4 DEF Calm
\* No keychain call: the good token stays good, or is on its way.
<1>7. ASSUME ~excused, kc' = kc, server' = server,
             rf.pc \notin Writing \cup {"del_ref"} \/ rf'.pc \in Writing \cup {"del_ref"}
      PROVE  kc'.ref = 0 \/ rf'.pc \in Writing \cup {"del_ref"} \/ Good'
  BY <1>3, <1>7 DEF Calm, Kept, Good, Rotates, Writing
<1>8. ASSUME ReadRefreshToken PROVE ~excused /\ Calm'
  <2>1. /\ ~excused /\ kc' = kc /\ server' = server /\ rf.pc = "read"
    BY <1>8 DEF ReadRefreshToken
  <2>2. \/ kc.ref = 0 /\ rf'.pc = "del_acc"
        \/ kc.ref # 0 /\ rf'.pc = "sent" /\ rf'.tok = kc.ref
    BY <1>8 DEF ReadRefreshToken, FailRefresh
  <2>3. Refreshing'
    BY <2>1, <2>2 DEF Refreshing, Writing
  <2>4. rf'.pc \in {"idle", "read"} \cup Clearing \/ st = "authenticated"
    BY <1>3, <1>4, <2>2 DEF Clearing, DelSteps
  <2> QED  BY <1>6, <1>7, <2>1, <2>3, <2>4 DEF Writing
<1>9. ASSUME RefreshRotates PROVE ~excused /\ Calm'
  <2>1. ~excused /\ kc' = kc /\ rf'.pc = "rotated" /\ rf'.tok = server.sess + 1 /\ NewSession
        /\ rf.pc = "sent"
    BY <1>9 DEF RefreshRotates
  <2>2. Refreshing'
    BY <1>1, <2>1 DEF Refreshing, Writing, NewSession, Rotates
  <2>3. st = "authenticated"
    BY <1>3, <1>4, <2>1 DEF Clearing, DelSteps
  <2> QED  BY <1>6, <2>1, <2>2, <2>3 DEF Writing
<1>10. ~RefreshRefused
  BY <1>3 DEF RefreshRefused, Calm, Refreshing, Kept, Writing, Good

<1>11. ASSUME RefreshAnswer PROVE ~excused /\ Calm'
  <2>1. /\ ~excused /\ kc' = kc /\ server' = server /\ rf.pc = "rotated"
        /\ rf'.pc = "put_acc" /\ rf'.tok = rf.tok
    BY <1>1, <1>2, <1>11 DEF RefreshAnswer
  <2>2. Refreshing'
    BY <2>1 DEF Calm, Refreshing, Writing, Rotates
  <2>3. st = "authenticated"
    BY <1>3, <1>4, <2>1 DEF Clearing, DelSteps
  <2> QED  BY <1>6, <2>1, <2>2, <2>3 DEF Writing
<1>12. ASSUME RefreshLost PROVE ~excused /\ Calm'
  <2>1. ~excused /\ kc' = kc /\ server' = server /\ rf.pc = "sent" /\ rf'.pc = "del_acc"
    BY <1>2, <1>12 DEF RefreshLost, FailRefresh
  <2>2. Refreshing'
    BY <2>1 DEF Refreshing, Writing
  <2>3. st = "authenticated"
    BY <1>3, <1>4, <2>1 DEF Clearing, DelSteps
  <2> QED  BY <1>6, <1>7, <2>1, <2>2, <2>3 DEF Writing
<1>13. ASSUME RefreshKeychain PROVE ~excused /\ Calm'
  <2>1. PICK pc \in PutSteps \cup DelSteps : pc = rf.pc
    BY <1>13 DEF RefreshKeychain
  <2>2. PICK t, k : t = rf.tok /\ k = kc' /\ k = KeychainAfter(pc, t)
    BY <1>13, <2>1 DEF RefreshKeychain
  <2>3. /\ k.acc = IF pc = "put_acc" THEN t ELSE IF pc = "del_acc" THEN 0 ELSE kc.acc
        /\ k.ref = IF pc = "put_ref" THEN t ELSE IF pc = "del_ref" THEN 0 ELSE kc.ref
        /\ pc = "put_acc" => StepAfter(pc) = "put_ref"
        /\ pc \in PutSteps \ {"put_acc"} => StepAfter(pc) \in Storing \ Writing
        /\ pc = "del_acc" => StepAfter(pc) = "del_ref"
        /\ pc \in DelSteps \ {"del_acc"} => StepAfter(pc) \in Clearing \ {"del_acc", "del_ref"}
    BY <2>1, <2>2, KeychainWrites
  <2>4. rf'.pc = StepAfter(pc) /\ rf'.tok = t /\ server' = server /\ ~excused
    BY <1>1, <1>13, <2>1, <2>2 DEF RefreshKeychain
  <2>5. CASE pc \in PutSteps
    <3>1. st = "authenticated" /\ pc \notin DelSteps
      BY <1>3, <1>4, <2>1, <2>5 DEF Clearing, DelSteps, PutSteps
    <3>2. pc = "put_acc" => rf'.pc = "put_ref" /\ kc'.acc # 0 /\ Rotates(rf.tok)'
      BY <2>1, <2>2, <2>3, <2>4 DEF Calm, Refreshing, Writing, Rotates
    <3>3. pc # "put_acc" => rf'.pc \in Storing \ Writing /\ Good'
      <4>1. CASE pc = "put_ref"
        BY <2>1, <2>2, <2>3, <2>4, <2>5, <4>1 DEF Calm, Refreshing, Writing, Rotates, Good
      <4>2. CASE pc \notin {"put_acc", "put_ref"}
        <5>1. Good
          BY <1>3, <2>1, <2>5, <4>2 DEF Calm, Kept, Writing, PutSteps
        <5>2. kc'.acc = kc.acc /\ kc'.ref = kc.ref
          BY <2>2, <2>3, <2>5, <3>1, <4>2 DEF DelSteps
        <5> QED  BY <2>3, <2>4, <2>5, <4>2, <5>1, <5>2 DEF Good, Rotates
      <4> QED  BY <4>1, <4>2
    <3>4. Refreshing'
      <4>1. CASE pc = "put_acc"
        BY <3>2, <4>1 DEF Refreshing
      <4>2. CASE pc # "put_acc"
        BY <3>3, <4>2 DEF Refreshing, Storing, PutSteps, Writing
      <4> QED  BY <4>1, <4>2
    <3> QED  BY <1>6, <2>4, <3>1, <3>2, <3>3, <3>4 DEF Writing
  <2>6. CASE pc \in DelSteps
    <3>1. rf'.pc \in Clearing
      BY <2>3, <2>4, <2>6 DEF Clearing, DelSteps
    <3>2. Refreshing'
      BY <3>1 DEF Refreshing, Writing, Clearing, DelSteps
    <3>3. kc'.ref = kc.ref \/ st = "authenticated"
      BY <1>3, <1>4, <2>2, <2>3, <2>6 DEF DelSteps, PutSteps
    <3>4. kc'.ref = 0 \/ rf'.pc \in Writing \cup {"del_ref"} \/ Good'
      <4>1. CASE pc = "del_acc"
        BY <2>3, <2>4, <4>1
      <4>2. CASE pc = "del_ref"
        BY <2>2, <2>3, <4>2
      <4>3. CASE pc = "del_bio"
        <5>1. Good
          BY <1>3, <2>1, <4>3 DEF Calm, Kept, Writing
        <5>2. kc'.acc = kc.acc /\ kc'.ref = kc.ref
          BY <2>2, <2>3, <4>3
        <5> QED  BY <2>4, <5>1, <5>2 DEF Good, Rotates
      <4> QED  BY <2>6, <4>1, <4>2, <4>3 DEF DelSteps
    <3> QED  BY <1>6, <2>4, <3>1, <3>2, <3>3, <3>4
  <2> QED  BY <2>5, <2>6
<1>14. ASSUME RefreshStored \/ RefreshCleared PROVE ~excused /\ Calm'
  <2>1. /\ ~excused /\ kc' = kc /\ server' = server /\ rf.pc \in {"stored", "cleared"}
        /\ rf'.pc = "idle"
    BY <1>14 DEF RefreshStored, RefreshCleared
  <2>2. Refreshing'
    BY <2>1 DEF Refreshing, Writing
  <2> QED  BY <1>6, <1>7, <2>1, <2>2 DEF Writing
<1> QED
  BY <1>8, <1>9, <1>10, <1>11, <1>12, <1>13, <1>14 DEF Interceptor

\* Requests of the screens are made while signed in, and start a refresh that reads the
\* keychain first.
LEMMA RequestCalm ==
  ASSUME AuthTypeOK, FlowFrame, Calm, NEW r \in Requests,
         (r \in Calls /\ SendCall(r)) \/ CallAnswered(r) \/ CallLost(r) \/ CallRefused(r)
         \/ (Pending /\ r = "login" /\ Refused401(r) /\ UNCHANGED <<server, kc, st, ui, excused>>)
  PROVE  Calm'
<1>1. /\ rq \in [Requests -> [pc : RequestSteps, tok : Tokens, retry : BOOLEAN]]
      /\ server \in [sess : Tokens, live : BOOLEAN, stale : BOOLEAN]
  BY DEF AuthTypeOK
<1>2. /\ UNCHANGED <<kc, st, ui>>
      /\ rf' = rf \/ (rf.pc = "idle" /\ rf'.pc = "read")
      /\ \A q \in Requests \ {r} : rq'[q] = rq[q]
      /\ r # "logout" /\ server' = server
  <2>1. \A n : \A q \in Requests \ {r} : [rq EXCEPT ![r] = n][q] = rq[q]
    BY <1>1
  <2>3. r # "logout"
    BY AuthAssumption DEF SendCall, CallAnswered, CallLost, CallRefused, Calm, OneWriter
  <2>4. CASE Refused401(r) /\ UNCHANGED <<server, kc, st, ui>>
    <3>1. rf' = rf \/ (rf.pc = "idle" /\ rf'.pc = "read")
      BY <2>4 DEF Refused401
    <3>2. \A q \in Requests \ {r} : rq'[q] = rq[q]
      <4>1. \/ \E n : rq' = [rq EXCEPT ![r] = n]
            \/ rq' = [rq EXCEPT ![r].pc = "waiting", ![r].tok = 0]
        BY <2>4 DEF Refused401
      <4>2. CASE \E n : rq' = [rq EXCEPT ![r] = n]
        BY <2>1, <4>2
      <4>3. CASE rq' = [rq EXCEPT ![r].pc = "waiting", ![r].tok = 0]
        BY <1>1, <4>3
      <4> QED  BY <4>1, <4>2, <4>3
    <3> QED  BY <2>3, <2>4, <3>1, <3>2
  <2>5. CASE SendCall(r) \/ CallAnswered(r) \/ CallLost(r)
    BY <2>1, <2>3, <2>5 DEF SendCall, CallAnswered, CallLost
  <2> QED  BY <2>4, <2>5 DEF CallRefused
<1>3. ui.pc \notin Storing /\ (r = "login" \/ st = "authenticated")
  <2>1. r = "login" \/ st = "authenticated"
    BY <1>2 DEF SendCall, CallAnswered, CallLost, CallRefused, Calm, OneWriter, Requests
  <2>2. r = "login" => ui.pc = "login"
    BY AuthAssumption DEF SendCall, CallAnswered, CallLost, CallRefused, Pending, FlowFrame
  <2> QED
    BY <2>1, <2>2 DEF FlowFrame, Storing, PutSteps
<1>4. r = "login" => r \notin Calls
  BY AuthAssumption
<1>5. Refreshing'
  BY <1>2 DEF Calm, Refreshing, Writing, Rotates
<1>6. Flowing'
  BY <1>2 DEF Calm, Flowing, Writing, Rotates
<1>7. OneWriter'
  BY <1>2, <1>3, <1>4 DEF Calm, OneWriter, Requests
<1>8. Kept'
  BY <1>2 DEF Calm, Kept, Writing, Good, Rotates
<1> QED  BY <1>5, <1>6, <1>7, <1>8 DEF Calm

LEMMA AccountCalm ==
  ASSUME AuthTypeOK, FlowFrame, Calm, Account, ~excused'
  PROVE  ~excused /\ Calm'
<1>1. /\ ui \in [pc : FlowSteps, acc : Tokens, tok : Tokens]
      /\ kc \in [acc : Tokens, ref : Tokens, bio : Tokens]
      /\ server \in [sess : Tokens, live : BOOLEAN, stale : BOOLEAN]
  BY DEF AuthTypeOK
<1>2. ~RevokedElsewhere /\ ~SignOut /\ ~SignOutAnswer
  BY DEF RevokedElsewhere, SignOut, SignOutAnswer, Calm, Flowing
<1>3. /\ UNCHANGED <<st, rq, rf, excused>>
      /\ kc'.acc = kc.acc /\ kc'.ref = kc.ref
      /\ server'.sess = server.sess /\ server'.live = server.live
  BY <1>1, <1>2 DEF Account, AccessExpires, BiometricOn, BiometricCopied, BiometricOff
<1>4. ui' = ui \/ (st = "authenticated" /\ ui'.pc \in {"idle", "copy_bio"} /\ ui.pc \notin Writing)
  <2>1. CASE BiometricOn
    BY <2>1 DEF BiometricOn, NoFlow, Writing
  <2>2. CASE BiometricCopied
    BY <2>2 DEF BiometricCopied, NoFlow, FlowFrame, Writing
  <2>3. CASE AccessExpires \/ BiometricOff
    BY <2>3 DEF AccessExpires, BiometricOff
  <2> QED  BY <1>2, <2>1, <2>2, <2>3 DEF Account
<1>5. Refreshing'
  BY <1>3 DEF Calm, Refreshing, Writing, Rotates
<1>6. Flowing'
  BY <1>3, <1>4 DEF Calm, Flowing, Writing, Rotates, Clearing, DelSteps
<1>7. OneWriter'
  BY <1>3, <1>4 DEF Calm, OneWriter, Storing, PutSteps
<1>8. Kept'
  BY <1>3, <1>4 DEF Calm, Kept, Writing, Good, Rotates, SignedOut
<1> QED  BY <1>3, <1>5, <1>6, <1>7, <1>8 DEF Calm

LEMMA BackgroundSound ==
  ASSUME TypeOK, Frame, Sound, Background
  PROVE  Sound'
<1> SUFFICES ASSUME ~excused' PROVE Calm'
  BY DEF Sound
<1>1. AuthTypeOK /\ FlowFrame
  BY DEF TypeOK, Frame
<1>2. ~excused
  BY DEF Background, Restore, RestoreRead, RestoreMe, RestoreServer, RestoreAnswer, RestoreLost,
         FlowStep, FlowKeychain, FlowStored, FlowCleared, Interceptor, ReadRefreshToken,
         RefreshRotates, RefreshRefused, RefreshAnswer, RefreshLost, RefreshKeychain,
         RefreshStored, RefreshCleared, AccessExpires, RevokedElsewhere, SignOut, SignOutAnswer,
         BiometricOn, BiometricCopied, BiometricOff, SendCall, CallAnswered, CallLost, CallRefused
<1>3. Calm
  BY <1>2 DEF Sound
<1>4. ASSUME NEW r \in Requests, CallAnswered(r) \/ CallLost(r) \/ CallRefused(r) PROVE Calm'
  BY <1>1, <1>3, <1>4, RequestCalm
<1>5. ASSUME NEW r \in Calls, SendCall(r) PROVE Calm'
  BY <1>1, <1>3, <1>5, RequestCalm DEF Requests
<1>6. ASSUME Restore PROVE Calm'
  BY <1>1, <1>3, <1>6, RestoreCalm
<1>7. ASSUME FlowStep PROVE Calm'
  BY <1>1, <1>3, <1>7, FlowStepCalm
<1>8. ASSUME Interceptor PROVE Calm'
  BY <1>1, <1>3, <1>8, InterceptorCalm
<1>9. ASSUME Account PROVE Calm'
  BY <1>1, <1>3, <1>9, AccountCalm
<1> QED  BY <1>4, <1>5, <1>6, <1>7, <1>8, <1>9 DEF Background, Account

\* A killed app finds in the keychain what its flows had finished writing.
LEMMA KilledSound ==
  ASSUME TypeOK, Frame, Sound, Killed
  PROVE  Sound'
<1> SUFFICES ASSUME ~excused' PROVE Calm'
  BY DEF Sound
<1>1. /\ ~excused /\ rf.pc = "idle" /\ ui.pc \in {"idle", "login", "read", "me", "logout"}
      /\ UNCHANGED <<server, kc>>
  BY DEF Killed, KillApp, Busy
<1>2. Good'
  BY <1>1 DEF Sound, Calm, Kept, Writing, Good, Rotates
<1>3. st' = "loading" /\ ui'.pc = "read" /\ rf'.pc = "idle" /\ \A r \in Requests : rq'[r].pc = "idle"
  BY DEF Killed, KillApp, NoFlow, NoCall
<1> QED
  BY <1>2, <1>3 DEF Calm, Refreshing, Flowing, OneWriter, Kept, Writing, Clearing, DelSteps, Storing,
                    PutSteps, SignedOut, Requests

\* A flow that begins with a fresh pair while nothing else is under way is sound.
LEMMA FreshStart ==
  ASSUME ui'.pc = "put_acc", Rotates(ui.tok)', st' # "authenticated", Quiet'
  PROVE  Calm'
BY DEF Quiet, Calm, Refreshing, Flowing, OneWriter, Kept, Writing, Clearing, DelSteps, Storing, PutSteps

LEMMA UserSound ==
  ASSUME TypeOK, Frame, Sound, User
  PROVE  Sound'
<1>1. ASSUME NEW s \in SignedOutScreens, Navigate(s) PROVE Sound'
  BY <1>1 DEF Navigate, authVars, Sound, Calm, Refreshing, Flowing, OneWriter, Kept, Good, Rotates
<1>2. ASSUME SwitchMode \/ BiometricGone \/ CodesSaved PROVE Sound'
  BY <1>2 DEF SwitchMode, BiometricGone, CodesSaved, authVars, Sound, Calm, Refreshing, Flowing,
              OneWriter, Kept, Good, Rotates
<1>3. ASSUME NEW f \in Forms, Submit(f) PROVE Sound'
  <2>1. /\ ui.pc = "idle" /\ ui'.pc = "login" /\ st \in SignedOut
        /\ UNCHANGED <<server, kc, st, rf, excused>>
    BY <1>3 DEF Submit, NoFlow, SignedOut
  <2>2. \A r \in Requests \ {"login"} : rq'[r] = rq[r]
    BY <1>3 DEF Submit, TypeOK, AuthTypeOK
  <2>3. OneWriter => OneWriter'
    BY <2>1, <2>2, AuthAssumption DEF OneWriter, Requests, Storing, PutSteps
  <2> QED
    BY <2>1, <2>3 DEF Sound, Calm, Refreshing, Flowing, Kept, Good, Rotates, Writing, Clearing,
                      DelSteps
<1>4. ASSUME ActivatePendingTokens PROVE Sound'
  <2>1. /\ ui'.pc = "put_acc" /\ ui'.tok = mfa.pend /\ UNCHANGED <<server, st, rq, rf>>
        /\ scr = "RecoveryCodes" /\ (~excused' => Quiet /\ Rotates(mfa.pend))
    BY <1>4 DEF ActivatePendingTokens, NoFlow
  <2>2. st' # "authenticated"
    BY <2>1 DEF Frame, ScreenFrame
  <2>3. ~excused' => Rotates(ui.tok)' /\ Quiet'
    BY <2>1 DEF Rotates, Quiet
  <2> QED
    BY <2>1, <2>2, <2>3, FreshStart DEF Sound
<1> QED  BY <1>1, <1>2, <1>3, <1>4 DEF User

LEMMA AnswerSound ==
  ASSUME TypeOK, Frame, Sound, LoginAnswer \/ LoginRejected
  PROVE  Sound'
<1>1. /\ rq \in [Requests -> [pc : RequestSteps, tok : Tokens, retry : BOOLEAN]]
      /\ kc \in [acc : Tokens, ref : Tokens, bio : Tokens]
      /\ server.sess \in Nat /\ "login" \in Requests /\ NoFlow.pc = "idle"
  BY AuthAssumption DEF TypeOK, AuthTypeOK, Tokens, Requests, NoFlow
<1>2. ui.pc = "login" /\ st \in SignedOut /\ st # "authenticated"
  BY DEF LoginAnswer, LoginRejected, FirstFactor, PinLogin, TotpVerified, RecoveryUsed,
         EnrolmentStarted, EnrolmentConfirmed, BiometricLogin, MailSent, PasswordReset,
         LoginRefused, Pending, Frame, FlowFrame, SignedOut
<1>3. Settle => \A r \in Requests \ {"login"} : rq'[r] = rq[r]
  BY <1>1 DEF Settle
<1>4. Calls \cup {"logout"} \subseteq Requests \ {"login"}
  BY AuthAssumption DEF Requests
\* The form is closed, and nothing has been written.
<1>5. ASSUME Settle, ui'.pc = "idle", st' \in SignedOut, UNCHANGED <<rf, excused>>,
             kc'.ref = kc.ref, kc'.acc = kc.acc
      PROVE  Sound'
  <2> SUFFICES ASSUME Calm PROVE Calm'
    BY <1>5 DEF Sound
  <2>1. kc.ref = 0 /\ rf.pc \in {"idle", "read"} \cup Clearing
    BY <1>2 DEF Calm, Kept, OneWriter
  <2>2. Refreshing'
    BY <1>5, <2>1 DEF Calm, Refreshing, Writing, Clearing, DelSteps
  <2>3. Flowing'
    BY <1>5 DEF Flowing, Writing, Clearing, DelSteps
  <2>4. OneWriter'
    <3>1. \A r \in Calls \cup {"logout"} : rq'[r] = rq[r]
      BY <1>3, <1>4, <1>5
    <3>2. \A r \in Calls \cup {"logout"} : rq[r].pc = "idle"
      BY <1>2 DEF Calm, OneWriter
    <3> QED
      BY <1>5, <2>1, <3>1, <3>2 DEF OneWriter, Storing, PutSteps
  <2>5. Kept'
    BY <1>5, <2>1 DEF Kept, Good
  <2> QED  BY <2>2, <2>3, <2>4, <2>5 DEF Calm
<1>6. ASSUME FirstFactor PROVE Sound'
  <2>1. Settle /\ ui'.pc = "idle" /\ st' \in SignedOut /\ UNCHANGED <<rf, excused, kc>>
    BY <1>1, <1>6 DEF FirstFactor, SignedOut
  <2> QED  BY <1>5, <2>1
<1>7. ASSUME PinLogin \/ TotpVerified \/ BiometricLogin PROVE Sound'
  <2>1. Settle /\ NewSession /\ GrantedNow(server.sess + 1) /\ UNCHANGED rf
    BY <1>7 DEF PinLogin, TotpVerified, BiometricLogin
  <2>2. /\ ui'.pc = "put_acc" /\ ui'.tok = server.sess + 1 /\ st' = st
        /\ ~excused' => Quiet
    BY <2>1 DEF GrantedNow, NoFlow
  <2>3. Rotates(ui.tok)'
    BY <1>1, <2>1, <2>2 DEF NewSession, Rotates
  <2>4. ~excused' => Quiet'
    BY <1>3, <1>4, <2>1, <2>2 DEF Quiet
  <2> QED  BY <1>2, <2>2, <2>3, <2>4, FreshStart DEF Sound
<1>8. ASSUME RecoveryUsed \/ PasswordReset PROVE Sound'
  BY <1>8 DEF RecoveryUsed, PasswordReset, Sound
<1>9. ASSUME EnrolmentStarted \/ MailSent \/ EnrolmentConfirmed PROVE Sound'
  <2>1. Settle /\ ui'.pc = "idle" /\ UNCHANGED <<rf, excused, kc, st>>
    BY <1>1, <1>9 DEF EnrolmentStarted, MailSent, EnrolmentConfirmed
  <2> QED  BY <1>2, <1>5, <2>1
<1>10. ASSUME LoginRefused PROVE Sound'
  <2>1. Calm => Calm'
    BY <1>1, <1>10, RequestCalm DEF LoginRefused, TypeOK, Frame
  <2> QED  BY <1>10, <2>1 DEF LoginRefused, Sound
<1>11. ASSUME LoginRejected PROVE Sound'
  <2>1. Settle /\ ui'.pc = "idle" /\ UNCHANGED <<rf, excused, st>>
    BY <1>1, <1>11 DEF LoginRejected
  <2>2. kc'.ref = kc.ref /\ kc'.acc = kc.acc
    BY <1>1, <1>11 DEF LoginRejected
  <2> QED  BY <1>2, <1>5, <2>1, <2>2
<1> QED  BY <1>6, <1>7, <1>8, <1>9, <1>10, <1>11 DEF LoginAnswer

----------------------------------------------------------------------------

SignInInv == TypeOK /\ Frame /\ Sound

LEMMA SignInInvInit == Init => SignInInv
<1> SUFFICES ASSUME Init PROVE SignInInv
  OBVIOUS
<1>1. TypeOK
  BY SignInTypesInit
<1>2. /\ st = "loading" /\ scr = "Welcome" /\ mfa.pend = 0 /\ kc.ref = 0 /\ server.sess = 0
      /\ ui.pc = "read" /\ rf.pc = "idle" /\ \A r \in Requests : rq[r].pc = "idle"
  BY DEF Init, AuthInit, SignInInit, NoMfa, NoFlow, NoCall
<1>3. Frame
  BY <1>2 DEF Frame, FlowFrame, ScreenFrame, CodesInv, Restoring, Storing, PutSteps, Requests
<1>4. Sound
  BY <1>2 DEF Sound, Calm, Refreshing, Flowing, OneWriter, Kept, Good, Writing, Clearing, DelSteps,
              Storing, PutSteps, SignedOut, Requests
<1> QED  BY <1>1, <1>3, <1>4 DEF SignInInv

LEMMA SignInInvStep == SignInInv /\ [Next]_vars => SignInInv'
<1> SUFFICES ASSUME SignInInv, [Next]_vars PROVE SignInInv'
  OBVIOUS
<1>1. TypeOK /\ Frame /\ Sound
  BY DEF SignInInv
<1>2. TypeOK'
  BY <1>1, SignInTypesStep
<1>3. CASE UNCHANGED vars
  BY <1>1, <1>2, <1>3 DEF vars, authVars, signInVars, SignInInv, Frame, FlowFrame, ScreenFrame,
     CodesInv, Sound, Calm, Refreshing, Flowing, OneWriter, Kept, Good, Rotates
<1>4. CASE Background
  BY <1>1, <1>2, <1>4, BackgroundFrame, BackgroundSound DEF SignInInv
<1>5. CASE Killed
  BY <1>1, <1>2, <1>5, KilledFrame, KilledSound DEF SignInInv
<1>6. CASE User
  BY <1>1, <1>2, <1>6, UserFrame, UserSound DEF SignInInv
<1>7. CASE LoginAnswer \/ LoginRejected
  BY <1>1, <1>2, <1>7, AnswerFrame, AnswerSound DEF SignInInv
<1> QED  BY <1>3, <1>4, <1>5, <1>6, <1>7 DEF Next

LEMMA AlwaysSound == Spec => []SignInInv
BY SignInInvInit, SignInInvStep, PTL DEF Spec

\* The server refuses a refresh token only when the client could not help it: the
\* session was ended or replaced from outside, or an answer or a write was lost.
THEOREM SessionIsKept == Spec => []NoSelfSignOut
<1>1. SignInInv => NoSelfSignOut
  <2> SUFFICES ASSUME SignInInv, ~excused PROVE "refused" \notin {rf.pc, ui.pc}
    BY DEF NoSelfSignOut
  <2> QED  BY DEF SignInInv, Sound, Calm, Refreshing, Flowing
<1> QED  BY <1>1, AlwaysSound, PTL

\* The session of a fresh enrolment opens the app only after its recovery codes were
\* confirmed.
THEOREM CodesAreSaved == Spec => CodesBeforeHome
<1>1. SignInInv /\ [Next]_vars =>
        [mfa.pend # 0 /\ st # "authenticated" /\ st' = "authenticated" /\ ui.tok = mfa.pend
           => mfa.saved]_vars
  <2> SUFFICES ASSUME SignInInv, Next, mfa.pend # 0, st # "authenticated",
                      st' = "authenticated", ui.tok = mfa.pend
               PROVE  mfa.saved
    BY DEF vars, authVars
  <2>1. Background
    BY DEF Next, Killed, KillApp, User, Navigate, Submit, SwitchMode, BiometricGone, CodesSaved,
           ActivatePendingTokens, LoginAnswer, FirstFactor, PinLogin, TotpVerified, RecoveryUsed,
           EnrolmentStarted, EnrolmentConfirmed, BiometricLogin, MailSent, PasswordReset,
           LoginRefused, LoginRejected, GrantedNow, authVars
  <2>2. FlowMoves
    BY <2>1, BackgroundMoves DEF SignInInv, TypeOK, Frame
  <2> QED
    BY <2>2 DEF FlowMoves, SignInInv, Frame, ScreenFrame, CodesInv
<1> QED
  BY <1>1, AlwaysSound, PTL DEF Spec, CodesBeforeHome
=============================================================================
