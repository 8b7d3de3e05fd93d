--------------------------- MODULE SettingsScreens ---------------------------
(***************************************************************************)
(* The settings screens of the mobile client on top of SettingsSync.  A    *)
(* form screen copies its group of settings into local state whenever the  *)
(* store's settings change and saves the whole group; a switch screen      *)
(* saves at once.  "Offers" is what a screen lets the user press.          *)
(***************************************************************************)
EXTENDS SettingsSync

VARIABLES scr,   \* the screen on top of the stack
          form,  \* its local state: the version it shows, the group, what is open, dirty
          flow,  \* the save handler that runs
          cal    \* the connection to Google Calendar

screenVars == <<scr, form, flow, cal>>
settingsVars == <<syncVars, screenVars>>

FormScreens == {"BusinessHours", "QuietHours", "UrgentNotifications", "MemorySettings",
                "CalendarBookingSettings", "AssistantSettings", "ProfileSettings"}
SwitchScreens == {"Settings", "PrivacySettings"}

NoForm == [base |-> 0, on |-> FALSE, det |-> Default.det, edit |-> 0, dirty |-> FALSE]
NoFlow == [scr |-> "any", v |-> Default, base |-> 0, todo |-> <<>>, with |-> "none",
           ok |-> TRUE, said |-> "nothing", gone |-> FALSE]

SettingsInit ==
  /\ SyncInit
  /\ scr = "Account" /\ form = NoForm /\ flow = NoFlow /\ cal \in {"none", "connected"}

----------------------------------------------------------------------------
(* What each screen's save handler calls, in order. *)

BusinessHoursSave == <<"put">>
QuietHoursSave    == <<"put">>
UrgentSave        == <<"put">>
MemorySave        == <<"put">>
BookingSave       == <<"put">>

\* Without an agent it only says so; a refused PATCH of the settings does not keep it
\* from changing the agent, which has no revision.
AssistantSave == IF form.on THEN <<"put", "agent">> ELSE <<>>

\* The settings only have the phone number, and only if one was typed.
ProfileSave == IF form.det = Default.det THEN <<"me">> ELSE <<"me", "put">>

Handler ==
  CASE scr = "BusinessHours" -> BusinessHoursSave
    [] scr = "QuietHours" -> QuietHoursSave
    [] scr = "UrgentNotifications" -> UrgentSave
    [] scr = "MemorySettings" -> MemorySave
    [] scr = "CalendarBookingSettings" -> BookingSave
    [] scr = "AssistantSettings" -> AssistantSave
    [] scr = "ProfileSettings" -> ProfileSave

\* The hours go back when the message of their success is dismissed.
ClosesItself == {"BusinessHours", "QuietHours"}

\* The business hours do not track edits.
Tracks(s) == s # "BusinessHours"

----------------------------------------------------------------------------
(* What each screen offers. *)

If(c, S) == IF c THEN S ELSE {}
Free == ~saving
Busy == flow.todo # <<>> \/ flow.with # "none"

\* Days and times only appear while the switch is on; saving does not wait for an edit.
BusinessHoursOffers == {"switch"} \cup If(form.on, {"detail"}) \cup If(Free, {"save"})

\* Here "det" counts the intervals, and "edit" is the one that is unfolded.
MaxIntervals == Max(Details)
QuietHoursOffers ==
  {"switch"} \cup If(form.on, {"pattern", "vip"})
             \cup If(form.on /\ form.det < MaxIntervals, {"add"})
             \cup If(form.dirty /\ Free, {"save"})
QuietHoursIntervals ==
  If(form.on, {"unfold"} \cup If(form.det > 1, {"remove"})
                         \cup If(form.edit \in 1 .. form.det, {"times"}))

UrgentOffers == {"switch", "detail"} \cup If(form.dirty /\ Free, {"save"})

MemoryOffers == {"switch"} \cup If(form.on, {"detail"}) \cup If(form.dirty /\ Free, {"save"})

BookingCalendar == IF cal = "connected" THEN {"disconnect"} ELSE {"connect"}
BookingOffers ==
  {"switch"} \cup If(form.on, {"detail"}) \cup If(form.dirty /\ Free, {"save"})

\* "on" says that the agent is loaded: the voices and the agent are requests of their own.
AssistantVoices  == {"detail"}
AssistantManners == {"detail"}
AssistantTexts   == {"detail"}
AssistantSaveButton == If(form.dirty /\ ~Busy, {"save"})
AssistantOffers ==
  {"agent"} \cup AssistantVoices \cup AssistantManners \cup AssistantTexts
            \cup AssistantSaveButton

\* "on" says that the profile is loaded; a time zone is picked on a list that replaces
\* the screen ("edit").
ProfileWaits  == IF form.on THEN {} ELSE {"profile"}
ProfilePicker == {"zone", "close"}
ProfileFields == {"detail", "open"} \cup If(form.dirty /\ ~Busy, {"save"})
ProfileOffers ==
  IF ~form.on THEN ProfileWaits
  ELSE IF form.edit = 1 THEN ProfilePicker ELSE ProfileFields

\* Theme and text approval; privacy of notifications and spam blocking.  No switch waits
\* for another.  The privacy screen shows nothing without settings.
SettingsOffers == {"toggle"}
PrivacyOffers  == If(store # 0, {"toggle"})

Offers ==
  CASE scr = "BusinessHours" -> BusinessHoursOffers
    [] scr = "QuietHours" -> QuietHoursOffers \cup QuietHoursIntervals
    [] scr = "UrgentNotifications" -> UrgentOffers
    [] scr = "MemorySettings" -> MemoryOffers
    [] scr = "CalendarBookingSettings" -> BookingOffers \cup BookingCalendar
    [] scr = "AssistantSettings" -> AssistantOffers
    [] scr = "ProfileSettings" -> ProfileOffers
    [] scr = "Settings" -> SettingsOffers
    [] scr = "PrivacySettings" -> PrivacyOffers
    [] scr = "Account" -> {}

Offered(c) == c \in Offers /\ flow.said # "modal"

AccountLinks  == {"Settings", "ProfileSettings", "PrivacySettings"}
SettingsLinks == {"AssistantSettings", "BusinessHours", "QuietHours", "UrgentNotifications",
                  "CalendarBookingSettings", "MemorySettings"}
Links == CASE scr = "Account" -> AccountLinks [] scr = "Settings" -> SettingsLinks
           [] OTHER -> {}
Parent(s) == IF s \in SettingsLinks THEN "Settings" ELSE "Account"

----------------------------------------------------------------------------
(* The [settings] effects. *)

\* Mutant: the screen copies the settings only the first time they are there.
FormFromOnce(i) ==
  IF scr \in FormScreens \ {"ProfileSettings"} /\ form.base = 0
  THEN [form EXCEPT !.base = i, !.det = ValueAt(i, scr).det,
                    !.on = IF scr = "AssistantSettings" THEN form.on ELSE ValueAt(i, scr).on]
  ELSE form

\* set({settings}): a mounted form copies its group again, edited or not.
FormFrom(i) ==
  IF scr \in FormScreens \ {"ProfileSettings"}
  THEN [form EXCEPT !.base = i, !.det = ValueAt(i, scr).det,
                    !.on = IF scr = "AssistantSettings" THEN form.on ELSE ValueAt(i, scr).on]
  ELSE form

\* What the screen says when its handler ends; the profile screen does not look at what
\* updateSettings returned.
Ended(fl) ==
  IF (fl.ok \/ fl.scr = "ProfileSettings") /\ ~fl.gone
  THEN [fl EXCEPT !.said = IF fl.scr \in ClosesItself THEN "modal" ELSE "saved"]
  ELSE NoFlow

\* updateSettings returned to the handler that waits for it, which calls the rest.
Returned(p, ok) ==
  IF flow.with # p THEN flow
  ELSE LET fl == [flow EXCEPT !.with = "none", !.ok = ok]
       IN  IF fl.todo = <<>> THEN Ended(fl) ELSE [fl EXCEPT !.with = "other", !.todo = <<>>]

Follow(fl) ==
  /\ flow' = fl
  /\ form' = [IF store' # store THEN FormFrom(store') ELSE form
              EXCEPT !.dirty = form.dirty /\ (fl.said \in {"nothing", "busy"} \/ flow = fl)]
  /\ UNCHANGED <<scr, cal>>

Background ==
  \/ \E g \in Loads : (Loaded(g) \/ LoadFailed(g)) /\ Follow(flow)
  \/ \E p \in Puts :
       \/ (PutFresh(p) \/ PutLoad(p) \/ PutCommit(p)) /\ Follow(flow)
       \/ PutAnswer(p) /\ Follow(Returned(p, TRUE))
       \/ (PutUnfetched(p) \/ PutLost(p)) /\ Follow(Returned(p, FALSE))

\* Mutant: the conflict is reported as a success once the settings are fetched again.
ConflictAsSaved(p) == PutConflict(p) /\ Follow(Returned(p, TRUE))
Conflict(p) == PutConflict(p) /\ Follow(Returned(p, FALSE))

Elsewhere(f, v) == OtherDevice(f, v) /\ UNCHANGED screenVars

----------------------------------------------------------------------------
(* Moving between screens. *)

\* A screen mounts, or Account gets the focus: it shows what the store has, and all but
\* Settings load.
Enter(s) ==
  /\ scr' = s
  /\ form' = IF s \in FormScreens \ {"ProfileSettings"} /\ store # 0
             THEN [NoForm EXCEPT !.base = store, !.det = ValueAt(store, s).det,
                                 !.on = s # "AssistantSettings" /\ ValueAt(store, s).on]
             ELSE NoForm
  /\ IF s = "Settings" THEN UNCHANGED get ELSE FreeLoad /\ StartLoad
  /\ UNCHANGED <<hist, store, saving, put, cal>>

\* The handler of a screen that is left goes on without it.
Left == IF flow.said = "busy" THEN [flow EXCEPT !.gone = TRUE] ELSE NoFlow

Open(s)  == s \in Links /\ Enter(s) /\ flow' = Left
GoBack   == scr # "Account" /\ Enter(Parent(scr)) /\ flow' = Left

\* The message of a success is dismissed.
CloseItself == flow.said = "modal" /\ Enter(Parent(scr)) /\ flow' = NoFlow

----------------------------------------------------------------------------
(* Editing. *)

Edited == UNCHANGED <<syncVars, scr, cal>>
          /\ flow' = IF flow.said = "saved" THEN NoFlow ELSE flow
Dirty == Tracks(scr)

Switch ==
  /\ Offered("switch")
  /\ form' = [form EXCEPT !.on = ~form.on, !.dirty = Dirty]
  /\ Edited

Detail(d) ==
  /\ Offered("detail") /\ d # form.det
  /\ form' = [form EXCEPT !.det = d, !.dirty = Dirty]
  /\ Edited

\* Quiet hours: a pattern replaces all the intervals; removing one does not move the
\* index of the one that is unfolded, unless it is that one.
ApplyPattern ==
  /\ Offered("pattern")
  /\ form' = [form EXCEPT !.on = TRUE, !.det = 1, !.edit = 1, !.dirty = TRUE]
  /\ Edited
AddInterval ==
  /\ Offered("add")
  /\ form' = [form EXCEPT !.det = form.det + 1, !.edit = form.det + 1, !.dirty = TRUE]
  /\ Edited
RemoveInterval(i) ==
  /\ Offered("remove") /\ i <= form.det
  /\ form' = [form EXCEPT !.det = form.det - 1, !.dirty = TRUE,
                          !.edit = IF form.edit = i THEN 1 ELSE form.edit]
  /\ Edited
Unfold(i) ==
  /\ Offered("unfold") /\ i <= form.det
  /\ form' = [form EXCEPT !.edit = IF form.edit = i THEN 0 ELSE i]
  /\ Edited
Touch ==
  /\ \E c \in {"times", "vip"} : Offered(c)
  /\ ~form.dirty
  /\ form' = [form EXCEPT !.dirty = TRUE]
  /\ Edited

\* Google's consent page comes back with the calendar connected; access may run out.
Connect ==
  /\ Offered("connect") /\ cal' = "connected"
  /\ UNCHANGED <<syncVars, scr, form, flow>>
CalendarExpires ==
  /\ scr = "CalendarBookingSettings" /\ cal = "connected" /\ cal' = "reauth"
  /\ UNCHANGED <<syncVars, scr, form, flow>>

\* The server takes booking off in the same document; the app reloads the status only.
Disconnect ==
  /\ Offered("disconnect") /\ cal' = "none"
  /\ LET v == ValueAt(Now, "CalendarBookingSettings")
     IN  IF v.on THEN CanCommit /\ Commit(Revision(Now) + 1, "CalendarBookingSettings",
                                          [v EXCEPT !.on = FALSE])
                 ELSE UNCHANGED hist
  /\ UNCHANGED <<store, saving, get, put, scr, form, flow>>

AgentLoaded ==
  /\ Offered("agent") /\ ~form.on
  /\ form' = [form EXCEPT !.on = TRUE]
  /\ UNCHANGED <<syncVars, scr, flow, cal>>
ProfileLoaded ==
  /\ Offered("profile")
  /\ form' = [form EXCEPT !.on = TRUE]
  /\ UNCHANGED <<syncVars, scr, flow, cal>>
PickZone ==
  /\ \/ Offered("open") /\ form' = [form EXCEPT !.edit = 1]
     \/ Offered("zone") /\ form' = [form EXCEPT !.edit = 0, !.dirty = TRUE]
     \/ Offered("close") /\ form' = [form EXCEPT !.edit = 0]
  /\ Edited

----------------------------------------------------------------------------
(* Saving. *)

\* The next call of the handler fl, at once: with the revision the store has now, but
\* the values of the press.
Call(fl) ==
  IF Head(fl.todo) = "put"
  THEN \E p \in Puts : /\ StartPut(p, fl.scr, fl.v, fl.base)
                       /\ flow' = [fl EXCEPT !.todo = Tail(fl.todo), !.with = p]
  ELSE flow' = [fl EXCEPT !.todo = Tail(fl.todo), !.with = "other"] /\ UNCHANGED syncVars

Save ==
  /\ Offered("save") /\ ~Busy /\ Handler # <<>>
  /\ Call([NoFlow EXCEPT !.scr = scr, !.todo = Handler, !.base = form.base, !.said = "busy",
                         !.v = [on |-> form.on, det |-> form.det]])
  /\ UNCHANGED <<scr, form, cal>>

\* PATCH /me and PATCH /agents/{id}: no revision is compared, and an error ends the
\* handler.
SaveOther ==
  /\ flow.with = "other"
  /\ LET fl == [flow EXCEPT !.with = "none"]
     IN  \/ fl.todo = <<>> /\ UNCHANGED syncVars /\ Follow(Ended(fl))
         \/ fl.todo # <<>> /\ Call(fl) /\ UNCHANGED <<scr, form, cal>>
         \/ UNCHANGED syncVars /\ Follow(NoFlow)

\* A switch or a row of buttons saves at once what the user saw the other way.
Toggle(p, v) ==
  /\ Offered("toggle") /\ v # ValueAt(store, scr)
  /\ StartPut(p, scr, v, store)
  /\ UNCHANGED screenVars

SettingsNext ==
  \/ Background \/ GoBack \/ CloseItself
  \/ Switch \/ ApplyPattern \/ AddInterval \/ Touch
  \/ Connect \/ CalendarExpires \/ Disconnect \/ AgentLoaded \/ ProfileLoaded \/ PickZone
  \/ Save \/ SaveOther
  \/ \E p \in Puts : Conflict(p)
  \/ \E s \in FormScreens \cup SwitchScreens : Open(s)
  \/ \E d \in Details : Detail(d) \/ RemoveInterval(d) \/ Unfold(d)
  \/ \E f \in FormScreens \cup SwitchScreens \cup {"any"}, v \in Values : Elsewhere(f, v)
  \/ \E p \in Puts, v \in Values : Toggle(p, v)

SettingsSpec == SettingsInit /\ [][SettingsNext]_settingsVars

----------------------------------------------------------------------------
(* Properties. *)

\* A revision number stands for one version of the settings: no two transactions wrote
\* the same one (patch_settings).
RevisionsDiffer == \A i, j \in 1 .. Now : hist[i].rev = hist[j].rev => i = j

\* A save never overwrites a setting with something chosen from an older value of it:
\* what the server replaces is what the screen had shown when the user chose, unless
\* the screen had nothing to show or two transactions overlapped on the server
\* (settingsStore.updateSettings, the [settings] effects of the screens).
NoBlindOverwrite ==
  [][\A p \in Puts :
       put[p].pc = "loaded" /\ put'[p].pc = "stored" /\ put[p].base # 0
         /\ put[p].at = Now /\ RevisionsDiffer
       => ValueAt(Now, put[p].f) = ValueAt(put[p].base, put[p].f)]_settingsVars

\* A screen that says "saved" has its group in the document as it was when the user
\* pressed Save, whatever answers were lost or settings fetched meanwhile; only the
\* profile screen says so of a phone number it knows nothing of (handleSave).
SavedIsStored ==
  flow.said \in {"saved", "modal"} /\ flow.scr # "ProfileSettings"
    => \E i \in 1 .. Now : hist[i].f = flow.scr /\ hist[i].v = flow.v
=============================================================================
