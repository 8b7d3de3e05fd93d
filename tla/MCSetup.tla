------------------------------ MODULE MCSetup ------------------------------
(***************************************************************************)
(* The three parts of the app that set an account up, each on its own: no  *)
(* action of one touches the state of another, so the area is chosen first *)
(* and the state spaces add up.                                            *)
(***************************************************************************)
EXTENDS SettingsScreens, StepUp, Onboarding

CONSTANTS Screens,    \* settings screens to open, Settings and Account aside
          MaxRequests \* bound on the changes and codes under way in StepUp

VARIABLES area,  \* the part that is explored
          Seen   \* the settings screens opened in this behaviour

mcVars == <<area, Seen, settingsVars, stepUpVars, onbVars>>
Areas == {"settings", "step-up", "onboarding"}

MCInit ==
  /\ area \in Areas
  /\ Seen \in IF area = "settings" THEN {{"Account", "Settings", s} : s \in Screens} ELSE {{}}
  /\ SettingsInit /\ cal = IF "CalendarBookingSettings" \in Seen THEN "connected" ELSE "none"
  /\ StepUpInit /\ (area # "step-up" => pinOn)
  /\ OnbInit

----------------------------------------------------------------------------
\* One settings screen per behaviour, reached through Settings; one save at a time on a
\* form, two on switches; another device changes "any" group, or switches the group shown;
\* Google's page is visited between saves.
InFlight(f) == {p \in Puts : f[p] # NoPut}
PutsAreAlike == Permutations(Puts)
OnForm == scr \in FormScreens
NextSettings ==
  /\ SettingsNext /\ UNCHANGED <<stepUpVars, onbVars>>
  /\ scr' \in Seen
  /\ (scr' # scr => /\ (scr = "Settings" => scr' \in SettingsLinks)
                    /\ Cardinality(InFlight(put)) <= IF scr' \in FormScreens THEN 0 ELSE 1)
  /\ (OnForm => Cardinality(InFlight(put')) <= 1)
  /\ (form' # form /\ UNCHANGED <<scr, put, store>> => InFlight(put) = {})
  /\ (cal' # cal /\ hist' = hist => InFlight(put) = {})
  /\ (hist' # hist /\ put' = put =>
        LET c == Last(hist')
        IN  IF c.f = "any" THEN c.v = Default
            ELSE c.f = scr /\ c.v.on # ValueAt(Now, scr).on /\ c.v.det = Default.det)
  /\ (scr \in SwitchScreens => \A p \in Puts : put'[p].v.det = Default.det)

NextStepUp ==
  /\ StepUpNext /\ UNCHANGED <<settingsVars, onbVars>>
  /\ Cardinality(verify') + Cardinality(sent') <= MaxRequests

\* One handler at a time; the screens without the guide only before the first step; the
\* gesture back only where a handler runs or without the guide; forwarding only on the
\* stack of a resumed setup.
Forwarding == <<modes, shown, ver, local.fwd, local.poll, local.left>>
NextOnboarding ==
  /\ OnbNext /\ UNCHANGED <<settingsVars, stepUpVars>>
  /\ Cardinality(runs') <= 1
  /\ (\A i \in 2 .. Len(stack') : stack'[i].guided \/ done = {})
  /\ (bill' \notin {bill, NoBill} => On("PlanSelection") \/ On("PaymentMethod"))
  /\ (Forwarding' # Forwarding =>
        (sub = "basic" /\ Len(stack) <= 4) \/ stack' = <<Screen("Home", FALSE)>>)
  /\ (On("CallModes") /\ Len(stack') > Len(stack) => Len(stack) <= 2 \/ IsComplete)
  /\ (BackGesture => runs # {} \/ ~Top.guided)

MCNext ==
  /\ \/ area = "settings" /\ NextSettings
     \/ area = "step-up" /\ NextStepUp
     \/ area = "onboarding" /\ NextOnboarding
  /\ UNCHANGED <<area, Seen>>

MCSpec == MCInit /\ [][MCNext]_mcVars
=============================================================================
