------------------------------- MODULE StepUp -------------------------------
(***************************************************************************)
(* The step-up dialog of the privacy and device screens: an authenticator  *)
(* code is typed for one change (a new PIN, a new password, the removal of *)
(* a device), POST /auth/step-up answers later, and the change is sent     *)
(* with the token it gave.  The dialog can be cancelled and opened for     *)
(* something else while the answer is under way.                           *)
(***************************************************************************)
EXTENDS Naturals

CONSTANTS Pins,      \* PINs the user may type
          Passwords, \* passwords the user may type
          Devices    \* the other devices of the account

VARIABLES at,     \* the screen: Account, PrivacySettings or DeviceList
          pad,    \* the PIN keypad: its mode, and the first PIN typed
          pend,   \* pendingPin
          ask,    \* what the dialog is open for
          target, \* the new password, or removeTarget
          verify, \* codes being verified: the change of the press, and whether its
                  \* screen is still there
          sent,   \* changes sent with a token, likewise
          pinOn,  \* pinStatus.pin_enabled, as loaded
          asked,  \* history: what the dialog was open for when a code was submitted
          typed   \* history: the PINs typed twice in a row

stepUpVars == <<at, pad, pend, ask, target, verify, sent, pinOn, asked, typed>>

Nobody == "none"
NoPad  == [mode |-> "none", first |-> Nobody]

StepUpInit ==
  /\ at = "Account" /\ pad = NoPad /\ pend = Nobody /\ ask = "none" /\ target = Nobody
  /\ verify = {} /\ sent = {} /\ pinOn \in BOOLEAN /\ asked = {} /\ typed = {}

Here(S)   == {c \in S : c.here}
Saving(a) == \E c \in Here(sent) : c.act = a

----------------------------------------------------------------------------
(* What the screens show: the dialog, the keypad or the screen itself. *)

PrivacyShows == IF ask # "none" THEN "dialog" ELSE IF pad.mode # "none" THEN "keypad"
                ELSE "screen"

\* While a device is being removed an overlay takes every touch.
DevicesShow == IF ask # "none" THEN "dialog" ELSE IF Saving("remove") THEN "overlay"
               ELSE IF target # Nobody THEN "confirm" ELSE "list"

Shows == CASE at = "PrivacySettings" -> PrivacyShows [] at = "DeviceList" -> DevicesShow
           [] OTHER -> "links"

AccountRows == {"PrivacySettings", "DeviceList"}

\* A screen is opened or left; what it was waiting for goes on without it.
Visit(s) ==
  /\ (Shows = "links" /\ s \in AccountRows) \/ (at \in AccountRows /\ s = "Account")
  /\ at' = s /\ pad' = NoPad /\ pend' = Nobody /\ ask' = "none" /\ target' = Nobody
  /\ verify' = {[c EXCEPT !.here = FALSE] : c \in verify}
  /\ sent' = {[c EXCEPT !.here = FALSE] : c \in sent}
  /\ UNCHANGED <<pinOn, asked, typed>>

----------------------------------------------------------------------------
(* The keypad. *)

PinRow == IF pinOn THEN {"change", "disable"} ELSE {"create"}

PinButton ==
  /\ Shows = "screen" /\ PinRow \cap {"change", "create"} # {}
  /\ pad' = [pad EXCEPT !.mode = "setup"]
  /\ UNCHANGED <<at, pend, ask, target, verify, sent, pinOn, asked, typed>>

\* DELETE /auth/pin takes no code.
DisablePin ==
  /\ Shows = "screen" /\ "disable" \in PinRow
  /\ pinOn' = FALSE
  /\ UNCHANGED <<at, pad, pend, ask, target, verify, sent, asked, typed>>

\* handlePinDigit, at the sixth digit: the first PIN is asked for again, two that differ
\* start over, two that agree go to the dialog (submitPin).
TypePin(pin) ==
  /\ Shows = "keypad" /\ ~Saving("pin")
  /\ \/ /\ pad.mode = "setup"
        /\ pad' = [mode |-> "confirm", first |-> pin]
        /\ UNCHANGED <<ask, pend, typed>>
     \/ /\ pad.mode = "confirm" /\ pin # pad.first
        /\ pad' = [mode |-> "setup", first |-> Nobody]
        /\ UNCHANGED <<ask, pend, typed>>
     \/ /\ pad.mode = "confirm" /\ pin = pad.first
        /\ pad' = [pad EXCEPT !.mode = "none"]
        /\ ask' = "pin" /\ pend' = pin /\ typed' = typed \cup {pin}
  /\ UNCHANGED <<at, target, verify, sent, pinOn, asked>>

CancelPad ==
  /\ Shows = "keypad" /\ pad' = NoPad
  /\ UNCHANGED <<at, pend, ask, target, verify, sent, pinOn, asked, typed>>

----------------------------------------------------------------------------
(* Opening the dialog. *)

\* handlePasswordSave, once the two fields agree.
AskPassword(new) ==
  /\ Shows = "screen" /\ ~Saving("password")
  /\ ask' = "password" /\ target' = new
  /\ UNCHANGED <<at, pad, pend, verify, sent, pinOn, asked, typed>>

PickDevice(d) ==
  /\ Shows = "list" /\ target' = d
  /\ UNCHANGED <<at, pad, pend, ask, verify, sent, pinOn, asked, typed>>

\* The sheet is confirmed (handleRemove) or dismissed.
ConfirmRemove ==
  /\ Shows = "confirm"
  /\ \/ ask' = "remove" /\ UNCHANGED target
     \/ UNCHANGED ask /\ target' = Nobody
  /\ UNCHANGED <<at, pad, pend, verify, sent, pinOn, asked, typed>>

----------------------------------------------------------------------------
(* The dialog. *)

Subject == IF ask = "pin" THEN pend ELSE target

\* handleStepUpVerify up to its await: the closure keeps what the dialog is open for.
PressVerify ==
  /\ Shows = "dialog" /\ Here(verify) = {}
  /\ verify' = verify \cup {[act |-> ask, of |-> Subject, here |-> TRUE]}
  /\ asked' = asked \cup {<<ask, Subject>>}
  /\ UNCHANGED <<at, pad, pend, ask, target, sent, pinOn, typed>>

\* cancelStepUp: with a PIN pending it goes back to the keypad, whatever was asked.
CancelStepUp ==
  /\ Shows = "dialog"
  /\ ask' = "none" /\ pend' = Nobody
  /\ target' = IF ask = "remove" THEN Nobody ELSE target
  /\ pad' = IF pend # Nobody THEN [mode |-> "setup", first |-> Nobody] ELSE pad
  /\ UNCHANGED <<at, verify, sent, pinOn, asked, typed>>

\* Mutant: the change is read when the answer arrives.
GrantedLate(c) ==
  /\ c \in verify /\ verify' = verify \ {c}
  /\ ask' = IF c.here THEN "none" ELSE ask
  /\ sent' = sent \cup {[act |-> ask, of |-> Subject, here |-> c.here]}
  /\ UNCHANGED <<at, pad, pend, target, pinOn, asked, typed>>

\* The code was right: whatever dialog is open by then closes, and the change of the
\* press is sent.
Granted(c) ==
  /\ c \in verify /\ verify' = verify \ {c}
  /\ ask' = IF c.here THEN "none" ELSE ask
  /\ sent' = IF c.act = "remove" /\ c.of = Nobody THEN sent ELSE sent \cup {c}
  /\ UNCHANGED <<at, pad, pend, target, pinOn, asked, typed>>

Refused(c) ==
  /\ c \in verify /\ verify' = verify \ {c}
  /\ UNCHANGED <<at, pad, pend, ask, target, sent, pinOn, asked, typed>>

\* The change is answered.  A PIN, set or not, leaves no digits behind, not even those
\* of one typed since; a password that was changed empties the form; a removal forgets
\* the device that is picked by now.
PinAnswered(c) ==
  /\ c.act = "pin" /\ c.here
  /\ pad' = [pad EXCEPT !.first = Nobody] /\ pend' = Nobody
  /\ pinOn' \in {pinOn, TRUE} /\ UNCHANGED target
PasswordAnswered(c) ==
  /\ c.act = "password" /\ c.here
  /\ target' \in {target, Nobody} /\ UNCHANGED <<pad, pend, pinOn>>
RemoveAnswered(c) ==
  /\ c.act = "remove" /\ c.here
  /\ target' = Nobody /\ UNCHANGED <<pad, pend, pinOn>>

Answered(c) ==
  /\ c \in sent /\ sent' = sent \ {c}
  /\ \/ PinAnswered(c) \/ PasswordAnswered(c) \/ RemoveAnswered(c)
     \/ ~c.here /\ UNCHANGED <<pad, pend, target, pinOn>>
  /\ UNCHANGED <<at, ask, verify, asked, typed>>

StepUpNext ==
  \/ PinButton \/ DisablePin \/ CancelPad \/ ConfirmRemove \/ PressVerify \/ CancelStepUp
  \/ \E s \in AccountRows \cup {"Account"} : Visit(s)
  \/ \E p \in Pins : TypePin(p)
  \/ \E w \in Passwords : AskPassword(w)
  \/ \E d \in Devices : PickDevice(d)
  \/ \E c \in verify : Granted(c) \/ Refused(c)
  \/ \E c \in sent : Answered(c)

StepUpSpec == StepUpInit /\ [][StepUpNext]_stepUpVars

----------------------------------------------------------------------------
(* Properties. *)

\* A change is only ever sent with the token of a code that was typed for that change, to
\* that PIN, password or device, however often the dialog was cancelled and opened again
\* before the answer; and a PIN only after it was typed twice (handleStepUpVerify of
\* PrivacySettingsScreen and DeviceListScreen).
StepUpForThis ==
  \A c \in sent : /\ <<c.act, c.of>> \in asked
                  /\ c.act = "pin" /\ c.of # Nobody => c.of \in typed
=============================================================================
