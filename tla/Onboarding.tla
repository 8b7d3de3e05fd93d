----------------------------- MODULE Onboarding -----------------------------
(***************************************************************************)
(* The guided setup of the mobile client: the server's list of completed   *)
(* steps, the stack of screens that complete them one request at a time,   *)
(* and what the screens change on the way (plan, card, number, call modes, *)
(* forwarding).  The same screens are opened from Home without the guide.  *)
(***************************************************************************)
EXTENDS Integers, SequencesExt

CONSTANTS Plans,        \* the price list
          CardPlans,    \* plans that require a credit card
          LimitedPlans, \* plans of the initial setup only
          Modes         \* switches of the call modes screen

ASSUME OnboardingAssumption ==
  CardPlans \subseteq Plans /\ LimitedPlans \subseteq Plans /\ "none" \notin Plans

VARIABLES done,   \* onboarding_state.steps_completed
          sub,    \* the plan of the active subscription, or "none"
          card,   \* a payment method is stored
          number, \* an AI number is active
          modes,  \* call_mode_config
          ver,    \* the last forwarding verification: none, pending or passed
          stack,  \* the screens, Home at the bottom
          fresh,  \* Home's mount effect waits for loadOnboarding
          bill,   \* billingStore: the plan, its card, whether payment methods are listed
          local,  \* state of the mounted screens, reset when they mount
          shown,  \* callModes as the app shows them
          runs    \* handlers that run

serverVars == <<done, sub, card, number, modes, ver>>
navVars    == <<stack, local>>
appVars    == <<stack, fresh, bill, local, shown, runs>>
onbVars    == <<serverVars, appVars>>

Steps == <<"settings_configured", "privacy_review", "assistant_setup", "calendar_setup",
           "plan_selected", "payment_method_added", "number_provisioned",
           "forwarding_configured", "call_modes_configured", "onboarding_complete">>
Before(s) == {Steps[i] : i \in {i \in DOMAIN Steps : \A j \in 1 .. i : Steps[j] # s}}

NoBill  == [sub |-> "none", card |-> FALSE, listed |-> FALSE]
Screen(p, g) == [page |-> p, guided |-> g]

\* What the screens keep: the plan to confirm, the plan to pay and whether it is active,
\* the number that is shown, the verification: its status, whether it polls, and whether a
\* poll of a screen that has gone goes on.
NoLocal == [confirm |-> "none", pay |-> "none", paid |-> "checking",
            looking |-> TRUE, has |-> FALSE, fwd |-> "idle", poll |-> FALSE,
            left |-> "off",
            cancel |-> "closed"]

ModeA == [m \in Modes |-> m = "mode_a"]

OnbInit ==
  /\ done = {} /\ sub = "none" /\ card = FALSE /\ number = FALSE /\ modes = ModeA
  /\ ver = "none"
  /\ stack = <<Screen("Home", FALSE)>> /\ fresh = TRUE
  /\ bill = NoBill /\ local = NoLocal /\ shown = ModeA /\ runs = {}

Top == Last(stack)
On(p) == Top.page = p
OnStack(p, stk) == \E i \in DOMAIN stk : stk[i].page = p

----------------------------------------------------------------------------
(* Navigation. *)

\* navigate: back to the screen if it is on the stack, else on top.
GoTo(p, g) ==
  LET below == SelectInSeq(stack, LAMBDA s : s.page = p)
  IN  Append(IF below = 0 THEN stack ELSE SubSeq(stack, 1, below - 1), Screen(p, g))
Popped == IF Len(stack) > 1 THEN Front(stack) ELSE stack

\* A screen that is no longer mounted forgets its state, its timers included; the number
\* screen looks again whenever it gets the focus.
Kept(stk) ==
  LET off(p) == ~OnStack(p, stk)
  IN  [local EXCEPT
        !.confirm = IF Last(stk).page # "PlanSelection" THEN "none" ELSE @,
        !.pay     = IF off("PaymentMethod") THEN "none" ELSE @,
        !.paid    = IF off("PaymentMethod") THEN "checking" ELSE @,
        !.has     = IF off("NumberProvision") THEN FALSE ELSE @,
        !.looking = IF Last(stk).page = "NumberProvision" /\ stk # stack THEN TRUE ELSE @,
        !.fwd     = IF off("ForwardingVerify") THEN "idle" ELSE @,
        !.poll    = IF off("ForwardingVerify") THEN FALSE ELSE @,
        !.cancel  = IF off("SubscriptionStatus") THEN "closed" ELSE @]
Move(stk) == stack' = stk /\ local' = Kept(stk)

ToStay == [kind |-> "stay", page |-> "Home"]
ToNext(p) == [kind |-> "next", page |-> p]
ToOpen(p) == [kind |-> "open", page |-> p]
ToBack == [kind |-> "back", page |-> "Home"]

Lead(to) ==
  CASE to.kind = "stay" -> UNCHANGED navVars
    [] to.kind = "next" -> Move(GoTo(to.page, TRUE))
    [] to.kind = "open" -> Move(GoTo(to.page, FALSE))
    [] to.kind = "back" -> Move(Popped)

BackGesture ==
  /\ Len(stack) > 1 /\ Move(Popped)
  /\ UNCHANGED <<serverVars, fresh, bill, shown, runs>>

----------------------------------------------------------------------------
(* Handlers: the requests they make in order, "must" when a failure ends   *)
(* them, and where they lead.                                              *)

Req(do, on, must) == [do |-> do, on |-> on, must |-> must]
Must(do, on) == Req(do, on, TRUE)
May(do, on)  == Req(do, on, FALSE)
Does(p, key, calls, to) == [page |-> p, key |-> key, calls |-> calls, to |-> to]

\* The number is sent only if one was typed; it is not looked at whether it was saved.
ProfileContinue ==
  {Does("OnboardingSettings", "continue",
            <<Must("me", "me")>> \o put \o <<Must("step", "settings_configured")>>,
            ToNext("OnboardingPrivacy")) : put \in {<<>>, <<May("put", "settings")>>}}

PrivacyContinue ==
  {Does("OnboardingPrivacy", "continue",
            <<Must("put", "settings"), Must("step", "privacy_review")>>,
            ToNext("OnboardingAssistantSetup"))}

AssistantContinue ==
  {Does("OnboardingAssistantSetup", "continue",
            <<May("put", "settings")>> \o agent \o <<Must("step", "assistant_setup")>>,
            ToNext("OnboardingCalendarSetup")) : agent \in {<<>>, <<Must("put", "agent")>>}}
AssistantSkip ==
  {Does("OnboardingAssistantSetup", "continue", <<Must("step", "assistant_setup")>>,
            ToNext("OnboardingCalendarSetup"))}

CalendarContinue ==
  {Does("OnboardingCalendarSetup", "continue",
            <<Must("put", "settings"), Must("step", "calendar_setup")>>,
            ToNext("PlanSelection"))}
CalendarSkip ==
  {Does("OnboardingCalendarSetup", "continue", <<Must("step", "calendar_setup")>>,
            ToNext("PlanSelection"))}

HasSub  == bill.sub # "none"
HasCard == bill.listed \/ bill.card
Visible == IF Top.guided THEN Plans ELSE Plans \ LimitedPlans

\* Both steps are asked for whatever the first one answers.
PaySteps(key, call, unguided) ==
  IF Top.guided
  THEN Does("PlanSelection", key,
                <<call, May("step", "plan_selected"), May("step", "payment_method_added")>>,
                ToNext("NumberProvision"))
  ELSE Does("PlanSelection", key, <<call>>, unguided)

Resubscribe == {Does("PlanSelection", p, IF bill.listed THEN <<Must("subscribe", p)>> ELSE <<>>,
                         IF bill.listed THEN ToBack ELSE ToOpen("PaymentMethodsList"))
                  : p \in Visible \cap {bill.sub}}

\* Without a listed payment method the store refuses, and nothing is sent.
FreePlan == {PaySteps(p, IF bill.listed THEN Must("subscribe", p) ELSE Must("refused", p),
                      ToOpen("SubscriptionStatus"))
               : p \in IF HasSub THEN {} ELSE Visible \ CardPlans}

\* The sheet, once a plan was selected.
Confirm ==
  IF local.confirm = "none" THEN {}
  ELSE {IF HasSub THEN PaySteps("confirm", Must("change", local.confirm), ToBack)
        ELSE IF bill.listed THEN PaySteps("confirm", Must("subscribe", local.confirm), ToBack)
        ELSE Does("PlanSelection", "confirm", <<>>, ToOpen("PaymentMethodsList"))}

\* Here only the second step is asked for.
PaymentSubscribe ==
  IF local.paid # "no" THEN {}
  ELSE {Does("PaymentMethod", "continue",
                 <<Must("subscribe", local.pay)>>
                   \o (IF Top.guided THEN <<May("step", "payment_method_added")>> ELSE <<>>),
                 IF Top.guided THEN ToNext("NumberProvision") ELSE ToBack)}
SkipAlreadyActive ==
  IF local.paid # "yes" THEN {}
  ELSE {Does("PaymentMethod", "continue", <<>>,
                 IF Top.guided THEN ToNext("NumberProvision") ELSE ToBack)}

\* Mutant: the step is asked for whether or not the number was provisioned.
ProvisionAnyway ==
  IF local.looking \/ local.has THEN {}
  ELSE {Does("NumberProvision", "provision",
                 <<May("provision", "number")>>
                   \o (IF Top.guided THEN <<May("step", "number_provisioned")>> ELSE <<>>),
                 ToStay)}

Provision ==
  IF local.looking \/ local.has THEN {}
  ELSE {Does("NumberProvision", "provision",
                 <<Must("provision", "number")>>
                   \o (IF Top.guided THEN <<May("step", "number_provisioned")>> ELSE <<>>),
                 ToStay)}
NumberContinue ==
  IF local.looking \/ ~local.has THEN {}
  ELSE {Does("NumberProvision", "continue", <<>>,
                 IF Top.guided THEN ToNext("CallModes") ELSE ToBack)}

GuideNext == {Does("ForwardingSetupGuide", "next", <<>>,
                       [kind |-> IF Top.guided THEN "next" ELSE "open",
                        page |-> "ForwardingVerify"])}
GuideSkip == IF Top.guided
             THEN {Does("ForwardingSetupGuide", "skip",
                            <<May("step", "forwarding_configured")>>, ToNext("CallModes"))}
             ELSE {}

VerifySkip == IF Top.guided /\ local.fwd # "success"
              THEN {Does("ForwardingVerify", "skip",
                             <<May("step", "forwarding_configured")>>, ToNext("CallModes"))}
              ELSE {}
VerifyContinue == IF local.fwd # "success" THEN {}
                  ELSE {Does("ForwardingVerify", "continue", <<>>,
                                 IF Top.guided THEN ToNext("CallModes") ELSE ToBack)}
\* A poll that finds the verification asks for the step by itself.
VerifySuccess == Does("ForwardingVerify", "success", <<May("step", "forwarding_configured")>>,
                      ToNext("CallModes"))

\* Mutant: what the last step answered is not looked at.
ModesContinueAnyway ==
  {IF Top.guided
   THEN Does("CallModes", "continue",
                 <<May("step", "forwarding_configured"), May("step", "call_modes_configured"),
                   May("step", "onboarding_complete")>>, ToNext("OnboardingComplete"))
   ELSE Does("CallModes", "continue", <<>>, ToBack)}
ModesContinue ==
  {IF Top.guided
   THEN Does("CallModes", "continue",
                 <<Must("step", "forwarding_configured"), Must("step", "call_modes_configured"),
                   Must("step", "onboarding_complete")>>, ToNext("OnboardingComplete"))
   ELSE Does("CallModes", "continue", <<>>, ToBack)}
ModesGuide == IF shown["mode_b"]
              THEN {Does("CallModes", "guide", <<>>,
                             [kind |-> IF Top.guided THEN "next" ELSE "open",
                              page |-> "ForwardingSetupGuide"])}
              ELSE {}

HomeLinks == {Does("Home", "link", <<>>, ToOpen(p))
                : p \in {"PlanSelection", "CallModes", "SubscriptionStatus", "NumberProvision"}}
BillingLinks == {Does("SubscriptionStatus", "link", <<>>, ToOpen(p))
                   : p \in {"PlanSelection", "PaymentMethodsList"}}

Handlers ==
  CASE On("Home") -> HomeLinks
    [] On("OnboardingSettings") -> ProfileContinue
    [] On("OnboardingPrivacy") -> PrivacyContinue
    [] On("OnboardingAssistantSetup") -> AssistantContinue \cup AssistantSkip
    [] On("OnboardingCalendarSetup") -> CalendarContinue \cup CalendarSkip
    [] On("PlanSelection") -> IF local.confirm = "none" THEN Resubscribe \cup FreePlan
                                                        ELSE Confirm
    [] On("PaymentMethod") -> PaymentSubscribe \cup SkipAlreadyActive
    [] On("NumberProvision") -> Provision \cup NumberContinue
    [] On("ForwardingSetupGuide") -> GuideNext \cup GuideSkip
    [] On("ForwardingVerify") -> VerifySkip \cup VerifyContinue
    [] On("CallModes") -> ModesContinue \cup ModesGuide
    [] On("SubscriptionStatus") -> IF local.cancel = "closed" THEN BillingLinks ELSE {}
    [] OTHER -> {}

\* A button waits while its own handler runs; those of other plans do not.
Press(h) ==
  /\ \A r \in runs : r.page = h.page => r.key # h.key
  /\ IF h.calls = <<>> THEN Lead(h.to) /\ UNCHANGED runs
                       ELSE runs' = runs \cup {h} /\ UNCHANGED navVars
  /\ UNCHANGED <<serverVars, fresh, bill, shown>>

----------------------------------------------------------------------------
(* Requests. *)

\* complete_step: every earlier step is there, or this one already is.
MayComplete(s) == s \in done \/ Before(s) \subseteq done
MaySubscribe(p) == sub \in {"none", p}
MayChange(p) == p \notin LimitedPlans /\ p # sub /\ (sub # "none" \/ card)
MayProvision == sub # "none" /\ card

Accepts(c) ==
  CASE c.do = "step" -> MayComplete(c.on)
    [] c.do = "subscribe" -> MaySubscribe(c.on)
    [] c.do = "change" -> MayChange(c.on)
    [] c.do = "provision" -> MayProvision
    [] c.do = "verify" -> number
    [] c.do = "refused" -> FALSE
    [] OTHER -> TRUE

\* Mode B, once on, has to be verified again.
ModesAfter(c) == IF c.do \in {"mode_on", "mode_off"} THEN [modes EXCEPT ![c.on] = c.do = "mode_on"]
                                                   ELSE modes
VerAfter(c) == IF c.do = "verify" THEN "pending"
               ELSE IF c.do = "mode_on" /\ c.on = "mode_b" /\ ~modes["mode_b"] /\ ver = "passed"
               THEN "none" ELSE ver

Served(c) ==
  /\ Accepts(c)
  /\ done' = IF c.do = "step" THEN done \cup {c.on} ELSE done
  /\ sub' = IF c.do \in {"subscribe", "change"} THEN c.on ELSE sub
  /\ card' = (card \/ c.do = "subscribe")
  /\ number' = (number \/ c.do = "provision")
  /\ modes' = ModesAfter(c) /\ ver' = VerAfter(c)

\* Refused, not received, or done with the answer lost.
NotAnswered(c) == UNCHANGED serverVars \/ (Served(c) /\ serverVars' # serverVars)

\* What a screen does with the answer before its handler goes on.  A verification that
\* starts when its screen has gone polls all the same.
LocalAfter(r, c, ok) ==
  [local EXCEPT
     !.confirm = IF r.key = "confirm" THEN "none" ELSE @,
     !.has  = @ \/ (ok /\ c.do = "provision" /\ OnStack("NumberProvision", stack)),
     !.fwd  = IF c.do = "verify" /\ ~ok /\ OnStack("ForwardingVerify", stack) THEN "idle" ELSE @,
     !.poll = @ \/ (ok /\ c.do = "verify" /\ OnStack("ForwardingVerify", stack)),
     !.left = IF ok /\ c.do = "verify" /\ ~OnStack("ForwardingVerify", stack)
              THEN r.to.page ELSE @]

ShownAfter(c, ok) ==
  IF c.do \notin {"mode_on", "mode_off"} THEN shown
  ELSE IF ok THEN modes' ELSE [shown EXCEPT ![c.on] = c.do = "mode_off"]

Heard(r, ok) ==
  LET c == Head(r.calls)
      on == ok \/ ~c.must
  IN  /\ bill' = IF ok /\ c.do \in {"subscribe", "change"}
                 THEN [bill EXCEPT !.sub = sub', !.card = card'] ELSE bill
      /\ shown' = ShownAfter(c, ok)
      /\ runs' = (runs \ {r}) \cup IF on /\ Len(r.calls) > 1
                                   THEN {[r EXCEPT !.calls = Tail(r.calls)]} ELSE {}
      /\ IF on /\ Len(r.calls) = 1 /\ r.to.kind # "stay"
         THEN /\ Lead(r.to)
         ELSE UNCHANGED stack /\ local' = LocalAfter(r, c, ok)

Request(r) ==
  /\ \/ Served(Head(r.calls)) /\ Heard(r, TRUE)
     \/ NotAnswered(Head(r.calls)) /\ Heard(r, FALSE)
  /\ UNCHANGED fresh

----------------------------------------------------------------------------
(* The screens' other actions. *)

Only(l) == local' = l /\ UNCHANGED <<serverVars, stack, fresh, bill, shown, runs>>

\* Home mounts: the first step that is missing is gone to, wherever the user is by now.
FirstMissing == Steps[CHOOSE i \in DOMAIN Steps : Steps[i] \notin done /\ Before(Steps[i]) \subseteq done]
ScreenOf(s) ==
  CASE s = "settings_configured" -> "OnboardingSettings"
    [] s = "privacy_review" -> "OnboardingPrivacy"
    [] s = "assistant_setup" -> "OnboardingAssistantSetup"
    [] s = "calendar_setup" -> "OnboardingCalendarSetup"
    [] s \in {"plan_selected", "payment_method_added"} -> "PlanSelection"
    [] s = "number_provisioned" -> "NumberProvision"
    [] OTHER -> "CallModes"
IsComplete == "onboarding_complete" \in done

Resume ==
  /\ fresh /\ fresh' = FALSE
  /\ \/ /\ ~IsComplete /\ FirstMissing # "onboarding_complete"
        /\ Move(GoTo(ScreenOf(FirstMissing), TRUE)) /\ UNCHANGED runs
     \/ /\ ~IsComplete /\ FirstMissing = "onboarding_complete"
        /\ runs' = runs \cup {Does("Home", "complete", <<May("step", "onboarding_complete")>>, ToStay)}
        /\ UNCHANGED navVars
     \/ UNCHANGED <<navVars, runs>>
  /\ UNCHANGED <<serverVars, bill, shown>>

\* Home, the plans and the subscription load the billing status and the payment methods,
\* each of which may fail.
BillLoaded ==
  /\ Top.page \in {"Home", "PlanSelection", "SubscriptionStatus"}
  /\ bill' \in {[sub |-> sub, card |-> card, listed |-> bill.listed],
                [bill EXCEPT !.listed = card]}
  /\ UNCHANGED <<serverVars, stack, fresh, local, shown, runs>>

\* handleSelectPlan, for a plan that is not the current one and not free.
SelectPlan(p) ==
  /\ On("PlanSelection") /\ local.confirm = "none" /\ p \in Visible \ {bill.sub}
  /\ \A r \in runs : r.key # p
  /\ \/ HasSub \/ p \in CardPlans
  /\ IF HasSub \/ HasCard
     THEN local' = [local EXCEPT !.confirm = p] /\ UNCHANGED stack
     ELSE /\ stack' = GoTo("PaymentMethod", Top.guided)
          /\ local' = [local EXCEPT !.pay = p, !.paid = "checking"]
  /\ UNCHANGED <<serverVars, fresh, bill, shown, runs>>

DismissConfirm == local.confirm # "none" /\ Only([local EXCEPT !.confirm = "none"])

\* The two requests of checkExistingSubscription; a failed one leaves what was there.
PaymentChecked ==
  /\ On("PaymentMethod") /\ local.paid = "checking"
  /\ bill' \in {[sub |-> sub, card |-> card, listed |-> card], bill}
  /\ local' = [local EXCEPT !.paid = IF bill'.sub = local.pay THEN "yes" ELSE "no"]
  /\ UNCHANGED <<serverVars, stack, fresh, shown, runs>>

NumbersLooked ==
  /\ On("NumberProvision") /\ local.looking
  /\ \E has \in {number, local.has} : Only([local EXCEPT !.looking = FALSE, !.has = has])

ModesLoaded ==
  /\ On("CallModes") /\ shown' = modes
  /\ UNCHANGED <<serverVars, stack, fresh, bill, local, runs>>

\* A switch moves at once and back if the request fails.
ToggleMode(m) ==
  /\ On("CallModes")
  /\ shown' = [shown EXCEPT ![m] = ~shown[m]]
  /\ runs' = runs \cup {Does("CallModes", m, <<Must(IF shown[m] THEN "mode_off" ELSE "mode_on", m)>>, ToStay)}
  /\ UNCHANGED <<serverVars, stack, fresh, bill, local>>

StartVerification ==
  /\ On("ForwardingVerify") /\ local.fwd = "idle"
  /\ local' = [local EXCEPT !.fwd = "verifying"]
  /\ runs' = runs \cup {Does("ForwardingVerify", "start", <<Must("verify", "forwarding")>>,
                            [ToStay EXCEPT !.page = IF Top.guided THEN "CallModes" ELSE "Home"])}
  /\ UNCHANGED <<serverVars, stack, fresh, bill, shown>>

\* The forwarded call arrives at the number.
ForwardedCall ==
  /\ ver = "pending" /\ ver' = "passed"
  /\ UNCHANGED <<done, sub, card, number, modes, appVars>>

\* No attempt is ever given the status the screen would take for a failure.
PollPassed ==
  /\ ver = "passed"
  /\ \/ /\ local.poll
        /\ local' = [local EXCEPT !.poll = FALSE, !.fwd = "success"]
        /\ runs' = runs \cup IF Screen("ForwardingVerify", TRUE) \in Range(stack)
                             THEN {VerifySuccess} ELSE {}
     \/ /\ local.left # "off"
        /\ local' = [local EXCEPT !.left = "off"]
        /\ runs' = runs \cup IF local.left = "CallModes" THEN {VerifySuccess} ELSE {}
  /\ UNCHANGED <<serverVars, stack, fresh, bill, shown>>

\* The timer's callback tests the status of the press, which was not "verifying" yet.
PollTimeout ==
  /\ local.poll \/ local.left # "off"
  /\ Only([local EXCEPT !.poll = FALSE, !.left = "off"])

\* The list of payment methods has a state of its own.  The last card of a subscription
\* is not removed.
AddCard ==
  /\ On("PaymentMethodsList") /\ ~card /\ card' = TRUE
  /\ UNCHANGED <<done, sub, number, modes, ver, appVars>>
RemoveCard ==
  /\ On("PaymentMethodsList") /\ card /\ sub = "none" /\ card' = FALSE
  /\ UNCHANGED <<done, sub, number, modes, ver, appVars>>

\* The store has no "cancel": the handler throws after it marked the sheet as busy.
CancelSubscription ==
  /\ On("SubscriptionStatus") /\ HasSub /\ local.cancel # "busy"
  /\ Only([local EXCEPT !.cancel = IF @ = "closed" THEN "open" ELSE "busy"])

GetStarted ==
  /\ On("OnboardingComplete")
  /\ stack' = <<Screen("Home", FALSE)>> /\ fresh' = TRUE /\ local' = Kept(stack')
  /\ UNCHANGED <<serverVars, bill, shown, runs>>

KillApp ==
  /\ stack' = <<Screen("Home", FALSE)>> /\ fresh' = TRUE
  /\ bill' = NoBill /\ local' = NoLocal /\ shown' = ModeA /\ runs' = {}
  /\ UNCHANGED serverVars

OnbNext ==
  \/ BackGesture \/ Resume \/ BillLoaded \/ DismissConfirm \/ PaymentChecked
  \/ NumbersLooked \/ ModesLoaded \/ StartVerification \/ ForwardedCall \/ PollPassed
  \/ PollTimeout \/ AddCard \/ RemoveCard \/ CancelSubscription \/ GetStarted \/ KillApp
  \/ \E h \in Handlers : Press(h)
  \/ \E r \in runs : Request(r)
  \/ \E p \in Plans : SelectPlan(p)
  \/ \E m \in Modes : ToggleMode(m)

OnbSpec == OnbInit /\ [][OnbNext]_onbVars

----------------------------------------------------------------------------
(* Properties. *)

Required(p) ==
  CASE p = "OnboardingPrivacy" -> Before("privacy_review")
    [] p = "OnboardingAssistantSetup" -> Before("assistant_setup")
    [] p = "OnboardingCalendarSetup" -> Before("calendar_setup")
    [] p = "PlanSelection" -> Before("plan_selected")
    [] p = "OnboardingComplete" -> Range(Steps)
    [] OTHER -> {}

\* A screen of the guide is only reached when the server has every step before it: none of
\* the first five is skipped by a failed or lost answer, a handler that outlives its
\* screen or a restart, and "You're all set" is only said of a setup that is complete
\* (the handleContinue of the screens, Home's resume).
GuidedInOrder == \A s \in Range(stack) : s.guided => Required(s.page) \subseteq done

\* The server takes the client's word for a step; yet no step is marked that did not
\* happen: a plan has a subscription, a payment method is stored, a number is active.
StepsAreTrue ==
  /\ "plan_selected" \in done => sub # "none"
  /\ "payment_method_added" \in done => card
  /\ "number_provisioned" \in done => number
=============================================================================
