------------------------------- MODULE SignIn -------------------------------
(***************************************************************************)
(* The signed-out screens of the mobile client on top of AuthSession:      *)
(* welcome, registration, sign-in with password, PIN, Google or biometrics,*)
(* the second factor and its enrolment, recovery codes and password reset. *)
(* A form is submitted through apiClient as the request "login", so a 401  *)
(* for a wrong password passes the response interceptor like any other.    *)
(***************************************************************************)
EXTENDS AuthSession

CONSTANT HasPin   \* the account has a PIN set on some device

ASSUME PinAssumption == HasPin \in BOOLEAN

VARIABLES scr,       \* the screen on top of the navigation stack
          form,      \* local state of the login screen, and the call in flight
          mfa,       \* the part of authStore that enrolment and challenge use
          enrolled   \* server: the account has an active authenticator

signInVars == <<scr, form, mfa, enrolled>>
vars == <<authVars, signInVars>>

SignedOutScreens == {"Welcome", "Register", "CheckEmail", "Login", "ForgotPassword",
                     "EmailVerification", "PasswordResetConfirm", "MfaVerify",
                     "MfaEnroll", "RecoveryCodes"}
SignedInScreens  == {"Home"}
Forms == {"none", "password", "pin", "google", "biometric", "totp", "recovery",
          "start", "confirm", "register", "forgot", "verify", "reset"}

NoForm == [mode |-> "email", pin |-> FALSE, bio |-> FALSE, call |-> "none"]
NoMfa  == [chal |-> FALSE, setup |-> FALSE, pend |-> 0, saved |-> FALSE]

SignInTypeOK ==
  /\ scr \in SignedOutScreens \cup SignedInScreens
  /\ form \in [mode : {"email", "pin"}, pin : BOOLEAN, bio : BOOLEAN, call : Forms]
  /\ mfa \in [chal : BOOLEAN, setup : BOOLEAN, pend : Tokens,
              saved : BOOLEAN]
  /\ enrolled \in BOOLEAN

SignInInit == scr = "Welcome" /\ form = NoForm /\ mfa = NoMfa /\ enrolled = FALSE

----------------------------------------------------------------------------
(* Navigation. *)

\* RootNavigator shows one of two stacks; leaving one drops its screens.
ScreensFollow ==
  /\ scr' = IF st' = "authenticated" THEN "Home"
            ELSE IF st = "authenticated" THEN "Welcome" ELSE scr
  /\ form' = IF st' = "authenticated" THEN NoForm ELSE form
  /\ mfa' = IF st' = "authenticated" /\ st # "authenticated" THEN NoMfa ELSE mfa
  /\ UNCHANGED enrolled

\* The links a signed-out screen offers.  CheckEmail is Register after success.
WelcomeLinks    == {"Register", "Login"}
LoginLinks      == {"ForgotPassword", "Register"}
RegisterLinks   == {"Login"}
CheckEmailLinks == {"Login"}
ForgotLinks     == {"Login"}
EmailLinks      == {"Login"}
ResetLinks      == {"Login"}
VerifyLinks     == {"Login"}

Links(s) ==
  CASE s = "Welcome" -> WelcomeLinks
    [] s = "Login" -> IF form.mode = "email" THEN LoginLinks ELSE {}
    [] s = "Register" -> RegisterLinks
    [] s = "CheckEmail" -> CheckEmailLinks
    [] s = "ForgotPassword" -> ForgotLinks
    [] s = "EmailVerification" -> EmailLinks
    [] s = "PasswordResetConfirm" -> ResetLinks
    [] s = "MfaVerify" -> VerifyLinks
    [] OTHER -> {}

\* Links in e-mails open their screen from anywhere in the signed-out stack.
DeepLinks == {"EmailVerification", "PasswordResetConfirm"}

\* checkPinAvailability, when the login screen mounts: once someone has signed in here,
\* ask the server for a PIN and the keychain for the biometric token.
MountLogin ==
  [NoForm EXCEPT !.pin = HasPin /\ server.sess > 0, !.bio = server.sess > 0 /\ kc.bio # 0]

Navigate(s) ==
  /\ st \in {"unauthenticated", "mfa_required", "mfa_enrollment"}
  /\ s \in Links(scr) \cup DeepLinks /\ s # scr
  /\ scr' = s
  /\ form' = IF s = "Login" THEN [MountLogin EXCEPT !.call = form.call]
                            ELSE [NoForm EXCEPT !.call = form.call]
  /\ UNCHANGED <<authVars, mfa, enrolled>>

\* What the login screen offers to press.
LoginButtons ==
  {"password", "google"} \cup (IF form.bio THEN {"biometric"} ELSE {})
                         \cup (IF form.pin THEN {"pin_mode"} ELSE {})

\* The keypad replaces the form until "sign in with email instead".
PinButtons == {"pin", "email_mode"} \cup (IF form.bio THEN {"biometric"} ELSE {})

SwitchMode ==
  /\ scr = "Login"
  /\ \/ form.mode = "email" /\ "pin_mode" \in LoginButtons
        /\ form' = [form EXCEPT !.mode = "pin"]
     \/ form.mode = "pin" /\ "email_mode" \in PinButtons
        /\ form' = [form EXCEPT !.mode = "email"]
  /\ UNCHANGED <<authVars, scr, mfa, enrolled>>

----------------------------------------------------------------------------
(* Submitting a form. *)

RegisterButtons == {"register", "google"}
VerifyButtons   == {"totp", "recovery"}
EnrollButtons   == IF mfa.setup THEN {"confirm"} ELSE {"start"}

Buttons ==
  CASE scr = "Login" -> IF form.mode = "email" THEN LoginButtons ELSE PinButtons
    [] scr = "Register" -> RegisterButtons
    [] scr = "MfaVerify" -> VerifyButtons
    [] scr = "MfaEnroll" -> EnrollButtons
    [] scr = "PasswordResetConfirm" -> {"reset"}
    [] scr = "ForgotPassword" -> {"forgot"}
    [] scr = "EmailVerification" -> {"verify"}
    [] OTHER -> {}

\* A button shows its spinner and is disabled while its call is in flight.
Submit(f) ==
  /\ st \in {"unauthenticated", "mfa_required", "mfa_enrollment"}
  /\ f \in Buttons \cap Forms /\ ui.pc = "idle" /\ form.call = "none"
  /\ f = "biometric" => kc.bio # 0
  /\ ui' = [NoFlow EXCEPT !.pc = "login", !.tok = IF f = "biometric" THEN kc.bio ELSE 0]
  /\ rq' = [rq EXCEPT !["login"] = [pc |-> "sent", tok |-> kc.acc, retry |-> FALSE]]
  /\ form' = [form EXCEPT !.call = f]
  /\ UNCHANGED <<server, kc, st, rf, excused, scr, mfa, enrolled>>

\* Biometric sign-in without a stored token only takes the button away.
BiometricGone ==
  /\ scr = "Login" /\ form.bio /\ kc.bio = 0 /\ ui.pc = "idle"
  /\ form' = [form EXCEPT !.bio = FALSE]
  /\ UNCHANGED <<authVars, scr, mfa, enrolled>>

Pending == ui.pc = "login" /\ rq["login"].pc = "sent"
Settle  == rq' = [rq EXCEPT !["login"] = NoCall] /\ form' = [form EXCEPT !.call = "none"]

\* Nothing of an earlier session is still under way when a new one begins.
Quiet == rf.pc = "idle" /\ \A r \in Calls \cup {"logout"} : rq[r].pc = "idle"

\* The call is answered and the app goes on with session n: setAuthenticated.
GrantedNow(n) ==
  /\ ui' = [NoFlow EXCEPT !.pc = "put_acc", !.tok = n]
  /\ excused' = ~Quiet
  /\ UNCHANGED <<st, scr, mfa>>

\* handleLoginResponse for password and Google: a challenge, or enrolment first.
FirstFactor ==
  /\ Pending /\ form.call \in {"password", "google"}
  /\ Settle /\ ui' = NoFlow
  /\ IF enrolled
     THEN st' = "mfa_required" /\ scr' = "MfaVerify" /\ mfa' = [mfa EXCEPT !.chal = TRUE]
     ELSE st' = "mfa_enrollment" /\ scr' = "MfaEnroll" /\ UNCHANGED mfa
  /\ UNCHANGED <<server, kc, rf, excused, enrolled>>

\* The PIN opens a session at once.
PinLogin ==
  /\ Pending /\ form.call = "pin" /\ CanIssue
  /\ Settle /\ NewSession /\ GrantedNow(server.sess + 1)
  /\ UNCHANGED <<kc, rf, enrolled>>

TotpVerified ==
  /\ Pending /\ form.call = "totp" /\ mfa.chal /\ enrolled /\ CanIssue
  /\ Settle /\ NewSession /\ GrantedNow(server.sess + 1)
  /\ UNCHANGED <<kc, rf, enrolled>>

\* A recovery code resets the second factor and ends every session.
RecoveryUsed ==
  /\ Pending /\ form.call = "recovery" /\ mfa.chal /\ enrolled
  /\ Settle /\ ui' = NoFlow
  /\ enrolled' = FALSE
  /\ server' = Ended
  /\ excused' = TRUE
  /\ st' = "mfa_enrollment" /\ scr' = "MfaEnroll"
  /\ UNCHANGED <<kc, rf, mfa>>

\* initializeTotp, run when the enrolment screen mounts without a secret.
EnrolmentStarted ==
  /\ Pending /\ form.call = "start" /\ ~enrolled
  /\ Settle /\ ui' = NoFlow
  /\ mfa' = [mfa EXCEPT !.setup = TRUE]
  /\ UNCHANGED <<server, kc, st, rf, excused, scr, enrolled>>

\* Mutant: the session of an enrolment is entered at once.
EnrolmentConfirmedAtOnce ==
  /\ Pending /\ form.call = "confirm" /\ ~enrolled /\ CanIssue
  /\ Settle /\ NewSession
  /\ ui' = [NoFlow EXCEPT !.pc = "put_acc", !.tok = server.sess + 1]
  /\ enrolled' = TRUE
  /\ mfa' = [mfa EXCEPT !.pend = server.sess + 1, !.saved = FALSE]
  /\ scr' = "RecoveryCodes"
  /\ UNCHANGED <<kc, st, rf, excused>>

\* The confirmed enrolment opens a session whose tokens wait for the recovery codes.
EnrolmentConfirmed ==
  /\ Pending /\ form.call = "confirm" /\ ~enrolled /\ CanIssue
  /\ Settle /\ ui' = NoFlow /\ NewSession
  /\ enrolled' = TRUE
  /\ mfa' = [mfa EXCEPT !.pend = server.sess + 1, !.saved = FALSE]
  /\ scr' = "RecoveryCodes"
  /\ UNCHANGED <<kc, st, rf, excused>>

\* refreshTokenApi with the biometric copy.
BiometricLogin ==
  /\ Pending /\ form.call = "biometric" /\ Rotates(ui.tok) /\ CanIssue
  /\ Settle /\ NewSession /\ GrantedNow(server.sess + 1)
  /\ UNCHANGED <<kc, rf, enrolled>>

\* Registration and a forgotten password only send a mail; its link opens the screen
\* that confirms it.
MailSent ==
  /\ Pending /\ form.call \in {"register", "forgot", "verify"}
  /\ Settle /\ ui' = NoFlow
  /\ scr' = IF form.call = "register" THEN "CheckEmail" ELSE scr
  /\ UNCHANGED <<server, kc, st, rf, excused, mfa, enrolled>>

\* A reset ends every session and may ask for the second factor, whose challenge the
\* screen does not keep.

PasswordReset ==
  /\ Pending /\ form.call = "reset"
  /\ Settle /\ ui' = NoFlow
  /\ server' = Ended
  /\ excused' = TRUE
  /\ scr' = IF enrolled THEN "MfaVerify" ELSE scr
  /\ UNCHANGED <<kc, st, rf, mfa, enrolled>>

\* Which forms the server can answer with 401: wrong credentials, code or token.
RefusedForm ==
  \/ form.call \in {"password", "google", "pin", "totp", "recovery", "start", "confirm"}
  \/ form.call = "biometric" /\ ~Rotates(ui.tok)

LoginRefused ==
  /\ Pending /\ RefusedForm
  /\ Refused401("login")
  /\ UNCHANGED <<server, kc, st, ui, excused, signInVars>>

\* The catch of the form.  The biometric one throws its token away, whatever failed.
LoginRejected ==
  /\ ui.pc = "login" /\ rq["login"].pc = "rejected"
  /\ Settle /\ ui' = NoFlow
  /\ kc' = IF form.call = "biometric" THEN [kc EXCEPT !.bio = 0] ELSE kc
  /\ UNCHANGED <<server, st, rf, excused, scr, mfa, enrolled>>

\* proceedToLogin, after the alert or the button says the codes are saved.
CodesSaved ==
  /\ scr = "RecoveryCodes" /\ ~mfa.saved
  /\ mfa' = [mfa EXCEPT !.saved = TRUE]
  /\ UNCHANGED <<authVars, scr, form, enrolled>>

ActivatePendingTokens ==
  /\ scr = "RecoveryCodes" /\ mfa.saved /\ mfa.pend # 0 /\ ui.pc = "idle"
  /\ ui' = [NoFlow EXCEPT !.pc = "put_acc", !.tok = mfa.pend]
  /\ excused' = ~(Quiet /\ Rotates(mfa.pend))
  /\ UNCHANGED <<server, kc, st, rq, rf, signInVars>>

LoginAnswer ==
  \/ FirstFactor \/ PinLogin \/ TotpVerified \/ RecoveryUsed \/ EnrolmentStarted
  \/ EnrolmentConfirmed \/ BiometricLogin \/ MailSent \/ PasswordReset \/ LoginRefused

----------------------------------------------------------------------------
(* The whole client. *)

Background ==
  /\ \/ Restore \/ FlowStep \/ Interceptor \/ AccessExpires \/ RevokedElsewhere
     \/ SignOut \/ SignOutAnswer \/ BiometricOn \/ BiometricCopied \/ BiometricOff
     \/ \E r \in Calls : SendCall(r)
     \/ \E r \in Requests : CallAnswered(r) \/ CallLost(r) \/ CallRefused(r)
  /\ ScreensFollow

Killed == KillApp /\ scr' = "Welcome" /\ form' = NoForm /\ mfa' = NoMfa /\ UNCHANGED enrolled

User ==
  \/ \E s \in SignedOutScreens : Navigate(s)
  \/ \E f \in Forms : Submit(f)
  \/ SwitchMode \/ BiometricGone \/ CodesSaved \/ ActivatePendingTokens

Init == AuthInit /\ SignInInit
Next == Background \/ Killed \/ User \/ LoginAnswer \/ LoginRejected

\* The network answers or gives up and the keychain calls return.
Fairness ==
  /\ WF_vars(Restore /\ ScreensFollow)
  /\ WF_vars(FlowStep /\ ScreensFollow)
  /\ WF_vars(Interceptor /\ ScreensFollow)

Spec == Init /\ [][Next]_vars
LiveSpec == Spec /\ Fairness

----------------------------------------------------------------------------
(* Properties. *)

TypeOK == AuthTypeOK /\ SignInTypeOK

\* The client never loses a session by racing with itself: the server refuses a
\* refresh token only after the session was ended or replaced from outside the
\* interceptor, or after an answer or a write was lost (api/client.ts, authStore.ts).
NoSelfSignOut == "refused" \in {rf.pc, ui.pc} => excused

\* The recovery codes of a fresh enrolment are confirmed before its session opens the
\* app (MfaEnrollScreen, RecoveryCodesScreen, activatePendingTokens).
CodesBeforeHome ==
  [][mfa.pend # 0 /\ st # "authenticated" /\ st' = "authenticated" /\ ui.tok = mfa.pend
       => mfa.saved]_vars

\* Whatever is queued behind a running refresh is sent again or rejected, unless that
\* refresh fails (failedQueue and processQueue of api/client.ts).
QueueSettles ==
  rf.pc # "idle" ~> rf.pc = "cleared" \/ \A r \in Requests : rq[r].pc # "waiting"

\* The splash screen ends (tryRestoreSession).
LeavesLoading == st = "loading" ~> st # "loading"
=============================================================================
