-------------------------- MODULE OnboardingProofs --------------------------
(***************************************************************************)
(* Proofs about the guided setup: the steps the server has are true, and   *)
(* no screen of the guide is reached without the steps before it.  The     *)
(* invariant is about what the handlers under way have yet to ask for.     *)
(***************************************************************************)
EXTENDS Onboarding, SequenceTheorems, NaturalsInduction, WellFoundedInduction, TLAPS

IsSeq(q) == \E S : q \in Seq(S)

(* What a handler has yet to ask for. *)

\* A step that may be asked for now, and no change to "no plan".
Sound(c) ==
  /\ c.do = "step" /\ c.on = "plan_selected" => sub # "none"
  /\ c.do = "step" /\ c.on = "number_provisioned" => number
  /\ c.do = "change" => c.on # "none"

\* Call c, which the handler does not go on without, makes the step of call d true.
Pays(c) ==
  /\ c.must
  /\ c.do = "refused" \/ (c.do \in {"subscribe", "change"} /\ c.on # "none")
Brings(c, d) ==
  \/ d.do = "step" /\ d.on = "plan_selected" /\ Pays(c)
  \/ d.do = "step" /\ d.on = "number_provisioned" /\ c.must /\ c.do = "provision"

CallsSound(q) ==
  /\ IsSeq(q)
  /\ \A i \in 1 .. Len(q) : Sound(q[i]) \/ (i > 1 /\ Brings(q[1], q[i]))

\* A handler leads on in the guide only after the step its screen is about.
Opens(c, p) ==
  /\ c.must /\ c.do = "step"
  /\ Required(p) \subseteq Before(c.on) \cup {c.on}

LeadsOn(q, to) ==
  /\ to.kind \in {"stay", "next", "open", "back"}
  /\ to.kind = "next" =>
       \/ Required(to.page) = {}
       \/ Len(q) >= 1 /\ Opens(q[Len(q)], to.page)

HandlerSound(h) ==
  /\ DOMAIN h = {"page", "key", "calls", "to"}
  /\ CallsSound(h.calls) /\ LeadsOn(h.calls, h.to)

(* The server and the stack. *)

DoneSound ==
  /\ \A s \in done : Before(s) \subseteq done
  /\ {"plan_selected", "payment_method_added"} \cap done # {} => sub # "none"
  /\ sub # "none" => card
  /\ "number_provisioned" \in done => number

StackSound ==
  /\ IsSeq(stack)
  /\ \A i \in 1 .. Len(stack) : stack[i].guided => Required(stack[i].page) \subseteq done

RunsSound == \A r \in runs : HandlerSound(r) /\ Len(r.calls) >= 1

OnbInv == DoneSound /\ StackSound /\ RunsSound

----------------------------------------------------------------------------
(* The order of the steps. *)

LEMMA BeforeIsEarlier ==
  ASSUME NEW i \in 1 .. 10
  PROVE  Before(Steps[i]) \subseteq {Steps[j] : j \in 1 .. (i - 1)}
<1>1. DOMAIN Steps = 1 .. 10
  BY DEF Steps
<1> QED
  BY <1>1 DEF Before

LEMMA EarlySteps ==
  /\ Before("privacy_review") \subseteq {"settings_configured"}
  /\ Before("assistant_setup") \subseteq {"settings_configured", "privacy_review"}
  /\ Before("calendar_setup")
       \subseteq {"settings_configured", "privacy_review", "assistant_setup"}
  /\ Before("plan_selected") \subseteq {"settings_configured", "privacy_review",
                                        "assistant_setup", "calendar_setup"}
<1>1. Steps[1] = "settings_configured" /\ Steps[2] = "privacy_review"
      /\ Steps[3] = "assistant_setup" /\ Steps[4] = "calendar_setup"
      /\ Steps[5] = "plan_selected"
  BY DEF Steps
<1>2. Before(Steps[2]) \subseteq {Steps[j] : j \in 1 .. 1}
      /\ Before(Steps[3]) \subseteq {Steps[j] : j \in 1 .. 2}
      /\ Before(Steps[4]) \subseteq {Steps[j] : j \in 1 .. 3}
      /\ Before(Steps[5]) \subseteq {Steps[j] : j \in 1 .. 4}
  BY BeforeIsEarlier
<1>3. /\ 1 .. 1 = {1} /\ 1 .. 2 = {1, 2} /\ 1 .. 3 = {1, 2, 3} /\ 1 .. 4 = {1, 2, 3, 4}
  OBVIOUS
<1> QED
  BY <1>1, <1>2, <1>3

\* The other way round, for the steps that are relied on.
LEMMA LateSteps ==
  /\ "settings_configured" \in Before("privacy_review")
  /\ {"settings_configured", "privacy_review"} \subseteq Before("assistant_setup")
  /\ {"settings_configured", "privacy_review", "assistant_setup"}
       \subseteq Before("calendar_setup")
  /\ {"settings_configured", "privacy_review", "assistant_setup", "calendar_setup"}
       \subseteq Before("payment_method_added")
  /\ "plan_selected" \in Before("payment_method_added")
  /\ Range(Steps) \subseteq Before("onboarding_complete") \cup {"onboarding_complete"}
BY DEF Before, Steps, Range

LEMMA LeastOf ==
  ASSUME NEW I \in SUBSET Nat, I # {}
  PROVE  \E i \in I : \A j \in I : i <= j
<1>1. PICK i \in I : \A j \in I : ~(<<j, i>> \in OpToRel(<, Nat))
  BY NatLessThanWellFounded, WFMin
<1>2. \A j \in I : ~(j < i)
  BY <1>1 DEF OpToRel
<1>3. \A j \in I : i <= j
  <2> SUFFICES ASSUME NEW j \in I PROVE i <= j
    OBVIOUS
  <2>1. i \in Nat /\ j \in Nat /\ ~(j < i)
    BY <1>2
  <2> QED
    BY <2>1
<1> QED
  BY <1>3

\* Home finds a step to go on with.
LEMMA AStepIsMissing ==
  ASSUME "onboarding_complete" \notin done
  PROVE  \E i \in DOMAIN Steps : Steps[i] = FirstMissing /\ Before(FirstMissing) \subseteq done
<1>1. DOMAIN Steps = 1 .. 10 /\ Steps[10] = "onboarding_complete"
  BY DEF Steps
<1>2. PICK I : I = {i \in 1 .. 10 : Steps[i] \notin done}
  OBVIOUS
<1>3. I \in SUBSET Nat /\ 10 \in I
  BY <1>1, <1>2
<1>4. PICK i \in I : \A j \in I : i <= j
  BY <1>3, LeastOf
<1>5. i \in 1 .. 10 /\ Steps[i] \notin done /\ \A j \in 1 .. (i - 1) : Steps[j] \in done
  BY <1>2, <1>4
<1>6. Before(Steps[i]) \subseteq done
  BY <1>5, BeforeIsEarlier
<1>7. PICK k : k = CHOOSE j \in DOMAIN Steps :
                     Steps[j] \notin done /\ Before(Steps[j]) \subseteq done
  OBVIOUS
<1>8. k \in DOMAIN Steps /\ Before(Steps[k]) \subseteq done
  BY <1>1, <1>5, <1>6, <1>7
<1>9. FirstMissing = Steps[k]
  BY <1>7 DEF FirstMissing
<1> QED
  BY <1>8, <1>9

----------------------------------------------------------------------------
(* The stack. *)

LEMMA PrefixIsSeq ==
  ASSUME NEW q, IsSeq(q), NEW n \in Int, n <= Len(q)
  PROVE  /\ IsSeq(SubSeq(q, 1, n))
         /\ Len(SubSeq(q, 1, n)) = IF 1 <= n THEN n ELSE 0
         /\ \A i \in 1 .. Len(SubSeq(q, 1, n)) : i \in 1 .. Len(q) /\ SubSeq(q, 1, n)[i] = q[i]
<1>1. PICK S : q \in Seq(S)
  BY DEF IsSeq
<1>2. Len(q) \in Nat /\ \A i \in 1 .. n : q[i] \in S
  BY <1>1, ElementOfSeq
<1>3. /\ SubSeq(q, 1, n) \in Seq(S)
      /\ Len(SubSeq(q, 1, n)) = IF 1 <= n THEN n - 1 + 1 ELSE 0
      /\ \A i \in 1 .. n - 1 + 1 : SubSeq(q, 1, n)[i] = q[1 + i - 1]
  BY <1>2, SubSeqProperties
<1> QED
  BY <1>2, <1>3 DEF IsSeq

\* Going to a screen keeps some of the stack and puts that screen on top.
LEMMA GoToIsSeq ==
  ASSUME IsSeq(stack), NEW p, NEW g
  PROVE  /\ IsSeq(GoTo(p, g))
         /\ \A i \in 1 .. Len(GoTo(p, g)) :
              \/ i \in 1 .. Len(stack) /\ GoTo(p, g)[i] = stack[i]
              \/ GoTo(p, g)[i] = Screen(p, g)
<1>1. PICK below : below = SelectInSeq(stack, LAMBDA s : s.page = p)
  OBVIOUS
<1>2. below \in 0 .. Len(stack) /\ Len(stack) \in Nat
  <2>1. PICK I : I = {i \in 1 .. Len(stack) : stack[i].page = p}
    OBVIOUS
  <2>2. below = IF I # {} THEN Min(I) ELSE 0
    BY <1>1, <2>1 DEF SelectInSeq
  <2>3. Len(stack) \in Nat
    BY DEF IsSeq
  <2>4. I # {} => Min(I) \in I
    BY <2>1, LeastOf DEF Min
  <2> QED
    BY <2>1, <2>2, <2>3, <2>4
<1>3. PICK q : q = IF below = 0 THEN stack ELSE SubSeq(stack, 1, below - 1)
  OBVIOUS
<1>4. IsSeq(q) /\ \A i \in 1 .. Len(q) : i \in 1 .. Len(stack) /\ q[i] = stack[i]
  BY <1>2, <1>3, PrefixIsSeq
<1>5. GoTo(p, g) = Append(q, Screen(p, g))
  BY <1>1, <1>3 DEF GoTo
<1>6. PICK S : q \in Seq(S)
  BY <1>4 DEF IsSeq
<1>7. q \in Seq(S \cup {Screen(p, g)}) /\ Screen(p, g) \in S \cup {Screen(p, g)}
  BY <1>6
<1>8. /\ GoTo(p, g) \in Seq(S \cup {Screen(p, g)})
      /\ Len(GoTo(p, g)) = Len(q) + 1 /\ Len(q) \in Nat
      /\ \A i \in 1 .. Len(q) : GoTo(p, g)[i] = q[i]
      /\ GoTo(p, g)[Len(q) + 1] = Screen(p, g)
  BY <1>5, <1>7, AppendProperties
<1> QED
  BY <1>4, <1>8 DEF IsSeq

LEMMA StackGoesOn ==
  ASSUME StackSound, done \subseteq done', NEW p, NEW g, stack' = GoTo(p, g),
         g => Required(p) \subseteq done'
  PROVE  StackSound'
<1>1. /\ IsSeq(stack')
      /\ \A i \in 1 .. Len(stack') : \/ i \in 1 .. Len(stack) /\ stack'[i] = stack[i]
                                     \/ stack'[i] = Screen(p, g)
  BY GoToIsSeq DEF StackSound
<1>2. \A i \in 1 .. Len(stack') :
        stack'[i].guided => Required(stack'[i].page) \subseteq done'
  BY <1>1 DEF StackSound, Screen
<1> QED
  BY <1>1, <1>2 DEF StackSound, IsSeq

LEMMA StackStays ==
  ASSUME StackSound, done \subseteq done', stack' \in {stack, Popped}
  PROVE  StackSound'
<1>1. IsSeq(stack') /\ \A i \in 1 .. Len(stack') : i \in 1 .. Len(stack) /\ stack'[i] = stack[i]
  <2>1. CASE stack' = stack
    BY <2>1 DEF StackSound
  <2>2. CASE stack' = SubSeq(stack, 1, Len(stack) - 1)
    <3>1. Len(stack) \in Nat
      BY DEF StackSound, IsSeq
    <3> QED
      BY <2>2, <3>1, PrefixIsSeq DEF StackSound
  <2> QED
    BY <2>1, <2>2 DEF Popped, Front
<1>2. \A i \in 1 .. Len(stack') :
        stack'[i].guided => Required(stack'[i].page) \subseteq done'
  BY <1>1 DEF StackSound
<1> QED
  BY <1>1, <1>2 DEF StackSound, IsSeq

\* Where a handler leads, once what its screen requires is there.
LEMMA LeadKeeps ==
  ASSUME StackSound, done \subseteq done', NEW to, Lead(to),
         to.kind \in {"stay", "next", "open", "back"},
         to.kind = "next" => Required(to.page) \subseteq done'
  PROVE  StackSound'
<1>1. CASE to.kind = "stay"
  BY <1>1, StackStays DEF Lead, navVars
<1>2. CASE to.kind = "next"
  BY <1>2, StackGoesOn DEF Lead, Move
<1>3. CASE to.kind = "open"
  BY <1>3, StackGoesOn DEF Lead, Move
<1>4. CASE to.kind = "back"
  BY <1>4, StackStays DEF Lead, Move
<1> QED
  BY <1>1, <1>2, <1>3, <1>4

----------------------------------------------------------------------------
(* The handlers of the screens. *)

AllSound(q) == IsSeq(q) /\ \A i \in 1 .. Len(q) : Sound(q[i])

LEMMA SoundCalls ==
  ASSUME NEW q, AllSound(q)
  PROVE  CallsSound(q)
<1>1. Len(q) \in Nat
  BY DEF AllSound, IsSeq
<1> QED
  BY <1>1 DEF AllSound, CallsSound, Sound

LEMMA OneCall ==
  ASSUME NEW c
  PROVE  /\ IsSeq(<<c>>) /\ Len(<<c>>) = 1 /\ <<c>>[1] = c
         /\ Sound(c) => AllSound(<<c>>)
<1>1. PICK q : q = <<c>>
  OBVIOUS
<1>2. q \in Seq({c}) /\ Len(q) = 1 /\ q[1] = c
  BY <1>1
<1>3. IsSeq(q) /\ (Sound(c) => AllSound(q))
  BY <1>2 DEF IsSeq, AllSound
<1> QED
  BY <1>1, <1>2, <1>3

LEMMA NoCalls == AllSound(<<>>) /\ Len(<<>>) = 0
<1>1. <<>> \in Seq({}) /\ Len(<<>>) = 0
  OBVIOUS
<1> QED
  BY <1>1 DEF IsSeq, AllSound

LEMMA Joined ==
  ASSUME NEW q, NEW r, AllSound(q), AllSound(r)
  PROVE  /\ AllSound(q \o r) /\ Len(q \o r) = Len(q) + Len(r)
         /\ Len(r) >= 1 => (q \o r)[Len(q \o r)] = r[Len(r)]
<1>1. PICK S, T : q \in Seq(S) /\ r \in Seq(T)
  BY DEF AllSound, IsSeq
<1>2. q \in Seq(S \cup T) /\ r \in Seq(S \cup T)
  BY <1>1
<1>3. /\ q \o r \in Seq(S \cup T) /\ Len(q \o r) = Len(q) + Len(r)
      /\ \A i \in 1 .. Len(q) + Len(r) :
           (q \o r)[i] = IF i <= Len(q) THEN q[i] ELSE r[i - Len(q)]
  BY <1>2, ConcatProperties
<1>4. Len(q) \in Nat /\ Len(r) \in Nat
  BY <1>1
<1>5. ASSUME NEW i \in 1 .. Len(q) + Len(r) PROVE Sound((q \o r)[i])
  <2>1. CASE i <= Len(q)
    BY <1>3, <1>4, <2>1 DEF AllSound
  <2>2. CASE ~(i <= Len(q))
    <3>1. i - Len(q) \in 1 .. Len(r) /\ (q \o r)[i] = r[i - Len(q)]
      BY <1>3, <1>4, <2>2
    <3> QED
      BY <3>1 DEF AllSound
  <2> QED
    BY <2>1, <2>2
<1> QED
  BY <1>3, <1>4, <1>5 DEF AllSound, IsSeq

LEMMA Pair ==
  ASSUME NEW a, NEW b
  PROVE  <<a>> \o <<b>> = <<a, b>>
<1>1. <<a>> \in Seq({a, b}) /\ <<b>> \in Seq({a, b}) /\ <<a, b>> \in Seq({a, b})
      /\ Len(<<a>>) = 1 /\ Len(<<b>>) = 1 /\ <<a>>[1] = a /\ <<b>>[1] = b
      /\ Len(<<a, b>>) = 2 /\ <<a, b>>[1] = a /\ <<a, b>>[2] = b
  OBVIOUS
<1>2. PICK q : q = <<a>> \o <<b>>
  OBVIOUS
<1>3. q \in Seq({a, b}) /\ Len(q) = 2 /\ q[1] = a /\ q[2] = b
  BY <1>1, <1>2, ConcatProperties
<1>4. PICK r : r = <<a, b>>
  OBVIOUS
<1>5. r \in Seq({a, b}) /\ Len(r) = 2 /\ r[1] = a /\ r[2] = b
  BY <1>1, <1>4
<1>6. q = r
  BY <1>3, <1>5, SeqEqual
<1> QED
  BY <1>2, <1>4, <1>6

\* A first call that brings what the others ask for.
LEMMA TwoCalls ==
  ASSUME NEW a, NEW b, Sound(a), Sound(b) \/ Brings(a, b)
  PROVE  CallsSound(<<a>> \o <<b>>)
<1>1. <<a>> \in Seq({a, b}) /\ <<b>> \in Seq({a, b})
      /\ Len(<<a>>) = 1 /\ Len(<<b>>) = 1 /\ <<a>>[1] = a /\ <<b>>[1] = b
  OBVIOUS
<1>2. PICK q : q = <<a>> \o <<b>>
  OBVIOUS
<1>3. q \in Seq({a, b}) /\ Len(q) = 2 /\ q[1] = a /\ q[2] = b
  BY <1>1, <1>2, ConcatProperties
<1>4. CallsSound(q)
  BY <1>3 DEF CallsSound, IsSeq, Sound
<1> QED
  BY <1>2, <1>4

LEMMA ThreeCalls ==
  ASSUME NEW a, NEW b, NEW c, Sound(a), Sound(b) \/ Brings(a, b), Sound(c) \/ Brings(a, c)
  PROVE  /\ CallsSound(<<a, b, c>>)
         /\ Len(<<a, b, c>>) = 3 /\ <<a, b, c>>[3] = c
<1>1. PICK q : q = <<a, b, c>>
  OBVIOUS
<1>2. q \in Seq({a, b, c}) /\ Len(q) = 3 /\ q[1] = a /\ q[2] = b /\ q[3] = c
  BY <1>1
<1>3. CallsSound(q)
  BY <1>2 DEF CallsSound, IsSeq, Sound
<1> QED
  BY <1>1, <1>2, <1>3

\* What a step opens, and the screens that require none.
LEMMA WhatStepsOpen ==
  /\ Opens(Must("step", "settings_configured"), "OnboardingPrivacy")
  /\ Opens(Must("step", "privacy_review"), "OnboardingAssistantSetup")
  /\ Opens(Must("step", "assistant_setup"), "OnboardingCalendarSetup")
  /\ Opens(Must("step", "calendar_setup"), "PlanSelection")
  /\ Opens(Must("step", "onboarding_complete"), "OnboardingComplete")
<1>1. /\ Required("OnboardingPrivacy") = Before("privacy_review")
      /\ Required("OnboardingAssistantSetup") = Before("assistant_setup")
      /\ Required("OnboardingCalendarSetup") = Before("calendar_setup")
      /\ Required("PlanSelection") = Before("plan_selected")
      /\ Required("OnboardingComplete") = Range(Steps)
  BY DEF Required
<1>2. \A s : Must("step", s).must /\ Must("step", s).do = "step" /\ Must("step", s).on = s
  BY DEF Must, Req
<1> QED
  BY <1>1, <1>2, EarlySteps, LateSteps DEF Opens

LEMMA FreeScreens ==
  \A p \in {"Home", "PaymentMethod", "PaymentMethodsList", "SubscriptionStatus",
            "NumberProvision", "CallModes", "ForwardingSetupGuide", "ForwardingVerify",
            "OnboardingSettings"} : Required(p) = {}
BY DEF Required

LEMMA DoesSound ==
  ASSUME NEW p, NEW k, NEW q, NEW to, CallsSound(q), LeadsOn(q, to)
  PROVE  HandlerSound(Does(p, k, q, to))
BY DEF HandlerSound, Does

LEMMA DoesNothing ==
  ASSUME NEW p, NEW k, NEW to, to.kind \in {"stay", "next", "open", "back"},
         to.kind = "next" => Required(to.page) = {}
  PROVE  HandlerSound(Does(p, k, <<>>, to))
BY NoCalls, SoundCalls, DoesSound DEF LeadsOn

\* A handler that ends with the step of its screen.
LEMMA DoesStep ==
  ASSUME NEW p, NEW k, NEW q, AllSound(q), NEW s, NEW next, Opens(Must("step", s), next),
         s \notin {"plan_selected", "number_provisioned"}
  PROVE  /\ HandlerSound(Does(p, k, q \o <<Must("step", s)>>, ToNext(next)))
         /\ HandlerSound(Does(p, k, <<Must("step", s)>>, ToNext(next)))
<1>1. PICK c : c = Must("step", s)
  OBVIOUS
<1>2. Sound(c)
  BY <1>1 DEF Sound, Must, Req
<1>3. AllSound(<<c>>) /\ Len(<<c>>) = 1 /\ <<c>>[1] = c
  BY <1>2, OneCall
<1>4. Len(q) \in Nat
  BY DEF AllSound, IsSeq
<1>5. PICK r : r = q \o <<c>>
  OBVIOUS
<1>6. AllSound(r) /\ Len(r) >= 1 /\ r[Len(r)] = c
  BY <1>3, <1>4, <1>5, Joined
<1>7. ToNext(next).kind = "next" /\ ToNext(next).page = next
  BY DEF ToNext
<1>8. LeadsOn(r, ToNext(next)) /\ LeadsOn(<<c>>, ToNext(next))
  BY <1>1, <1>3, <1>6, <1>7 DEF LeadsOn
<1> QED
  BY <1>1, <1>3, <1>5, <1>6, <1>8, SoundCalls, DoesSound

LEMMA QuietCalls ==
  ASSUME NEW do \in {"me", "put", "verify", "refused", "subscribe", "provision",
                     "mode_on", "mode_off"}, NEW on
  PROVE  /\ Sound(Must(do, on)) /\ AllSound(<<Must(do, on)>>)
         /\ Sound(May(do, on)) /\ AllSound(<<May(do, on)>>)
<1>1. Sound(Must(do, on)) /\ Sound(May(do, on))
  BY DEF Sound, Must, May, Req
<1> QED
  BY <1>1, OneCall

LEMMA EarlyHandlers ==
  \A h \in ProfileContinue \cup PrivacyContinue \cup AssistantContinue \cup AssistantSkip
             \cup CalendarContinue \cup CalendarSkip : HandlerSound(h)
<1>1. ASSUME NEW h \in ProfileContinue PROVE HandlerSound(h)
  <2>1. PICK p \in {<<>>, <<May("put", "settings")>>} :
          h = Does("OnboardingSettings", "continue",
                   <<Must("me", "me")>> \o p \o <<Must("step", "settings_configured")>>,
                   ToNext("OnboardingPrivacy"))
    BY <1>1 DEF ProfileContinue
  <2>2. AllSound(p) /\ AllSound(<<Must("me", "me")>>)
    BY NoCalls, QuietCalls
  <2>3. AllSound(<<Must("me", "me")>> \o p)
    BY <2>2, Joined
  <2> QED
    BY <2>1, <2>3, WhatStepsOpen, DoesStep
<1>2. ASSUME NEW h \in PrivacyContinue PROVE HandlerSound(h)
  <2>1. h = Does("OnboardingPrivacy", "continue",
                 <<Must("put", "settings")>> \o <<Must("step", "privacy_review")>>,
                 ToNext("OnboardingAssistantSetup"))
    BY <1>2, Pair DEF PrivacyContinue
  <2> QED
    BY <2>1, QuietCalls, WhatStepsOpen, DoesStep
<1>3. ASSUME NEW h \in AssistantContinue PROVE HandlerSound(h)
  <2>1. PICK a \in {<<>>, <<Must("put", "agent")>>} :
          h = Does("OnboardingAssistantSetup", "continue",
                   <<May("put", "settings")>> \o a \o <<Must("step", "assistant_setup")>>,
                   ToNext("OnboardingCalendarSetup"))
    BY <1>3 DEF AssistantContinue
  <2>2. AllSound(a) /\ AllSound(<<May("put", "settings")>>)
    BY NoCalls, QuietCalls
  <2>3. AllSound(<<May("put", "settings")>> \o a)
    BY <2>2, Joined
  <2> QED
    BY <2>1, <2>3, WhatStepsOpen, DoesStep
<1>4. ASSUME NEW h \in CalendarContinue PROVE HandlerSound(h)
  <2>1. h = Does("OnboardingCalendarSetup", "continue",
                 <<Must("put", "settings")>> \o <<Must("step", "calendar_setup")>>,
                 ToNext("PlanSelection"))
    BY <1>4, Pair DEF CalendarContinue
  <2> QED
    BY <2>1, QuietCalls, WhatStepsOpen, DoesStep
<1>5. ASSUME NEW h \in AssistantSkip \cup CalendarSkip PROVE HandlerSound(h)
  BY <1>5, NoCalls, WhatStepsOpen, DoesStep DEF AssistantSkip, CalendarSkip
<1> QED
  BY <1>1, <1>2, <1>3, <1>4, <1>5

\* A handler whose calls are sound and which opens what requires nothing.
LEMMA DoesFreely ==
  ASSUME NEW p, NEW k, NEW q, NEW to, CallsSound(q),
         to.kind \in {"stay", "next", "open", "back"},
         to.kind = "next" => Required(to.page) = {}
  PROVE  HandlerSound(Does(p, k, q, to))
BY DoesSound DEF LeadsOn

LEMMA Leads ==
  /\ ToStay.kind = "stay" /\ ToBack.kind = "back"
  /\ \A p : /\ ToOpen(p).kind = "open"
            /\ ToNext(p).kind = "next" /\ ToNext(p).page = p
BY DEF ToStay, ToBack, ToOpen, ToNext

LEMMA PayingHandler ==
  ASSUME NEW k, NEW c, NEW to, to.kind \in {"open", "back"}, Sound(c), Pays(c)
  PROVE  HandlerSound(PaySteps(k, c, to))
<1>1. PICK a : a = May("step", "plan_selected")
  OBVIOUS
<1>2. PICK b : b = May("step", "payment_method_added")
  OBVIOUS
<1>3. Brings(c, a) /\ Sound(b)
  BY <1>1, <1>2 DEF Brings, Sound, May, Req
<1>4. CallsSound(<<c, a, b>>) /\ CallsSound(<<c>>)
  BY <1>3, ThreeCalls, OneCall, SoundCalls
<1>5. CASE Top.guided
  <2>1. PaySteps(k, c, to) = Does("PlanSelection", k, <<c, a, b>>, ToNext("NumberProvision"))
    BY <1>1, <1>2, <1>5 DEF PaySteps
  <2> QED
    BY <1>4, <2>1, DoesFreely, Leads, FreeScreens
<1>6. CASE ~Top.guided
  <2>1. PaySteps(k, c, to) = Does("PlanSelection", k, <<c>>, to)
    BY <1>6 DEF PaySteps
  <2> QED
    BY <1>4, <2>1, DoesFreely
<1> QED
  BY <1>5, <1>6

LEMMA PlanHandlers ==
  \A h \in Resubscribe \cup FreePlan \cup Confirm : HandlerSound(h)
<1>1. \A p : Pays(Must("subscribe", p)) <=> p # "none"
  BY DEF Pays, Must, Req
<1>2. \A p : Pays(Must("refused", p))
  BY DEF Pays, Must, Req
<1>3. \A p : p # "none" => Sound(Must("change", p)) /\ Pays(Must("change", p))
  BY DEF Pays, Sound, Must, Req
<1>4. ASSUME NEW h \in Resubscribe PROVE HandlerSound(h)
  <2>1. PICK p : h = Does("PlanSelection", p,
                          IF bill.listed THEN <<Must("subscribe", p)>> ELSE <<>>,
                          IF bill.listed THEN ToBack ELSE ToOpen("PaymentMethodsList"))
    BY <1>4 DEF Resubscribe
  <2>2. CallsSound(<<Must("subscribe", p)>>) /\ CallsSound(<<>>)
    BY QuietCalls, NoCalls, SoundCalls
  <2> QED
    BY <2>1, <2>2, DoesFreely, Leads
<1>5. ASSUME NEW h \in FreePlan PROVE HandlerSound(h)
  <2>1. PICK p \in Visible :
          h = PaySteps(p, IF bill.listed THEN Must("subscribe", p) ELSE Must("refused", p),
                       ToOpen("SubscriptionStatus"))
    BY <1>5 DEF FreePlan
  <2>2. p # "none"
    BY OnboardingAssumption DEF OnboardingAssumption, Visible
  <2>3. PICK c : c = IF bill.listed THEN Must("subscribe", p) ELSE Must("refused", p)
    OBVIOUS
  <2>4. Sound(c) /\ Pays(c)
    BY <1>1, <1>2, <2>2, <2>3, QuietCalls
  <2> QED
    BY <2>1, <2>3, <2>4, PayingHandler, Leads
<1>6. ASSUME NEW h \in Confirm PROVE HandlerSound(h)
  <2>1. local.confirm # "none"
    BY <1>6 DEF Confirm
  <2>2. \/ h = PaySteps("confirm", Must("change", local.confirm), ToBack)
        \/ h = PaySteps("confirm", Must("subscribe", local.confirm), ToBack)
        \/ h = Does("PlanSelection", "confirm", <<>>, ToOpen("PaymentMethodsList"))
    BY <1>6 DEF Confirm
  <2>3. PICK c, d : c = Must("change", local.confirm) /\ d = Must("subscribe", local.confirm)
    OBVIOUS
  <2>4. Sound(c) /\ Pays(c) /\ Sound(d) /\ Pays(d)
    BY <1>1, <1>3, <2>1, <2>3, QuietCalls
  <2>5. HandlerSound(PaySteps("confirm", c, ToBack)) /\ HandlerSound(PaySteps("confirm", d, ToBack))
    BY <2>4, PayingHandler, Leads
  <2>6. HandlerSound(Does("PlanSelection", "confirm", <<>>, ToOpen("PaymentMethodsList")))
    BY DoesNothing, Leads
  <2> QED
    BY <2>2, <2>3, <2>5, <2>6
<1> QED
  BY <1>4, <1>5, <1>6

LEMMA NumberHandlers ==
  \A h \in PaymentSubscribe \cup SkipAlreadyActive \cup Provision \cup NumberContinue :
    HandlerSound(h)
<1>1. ASSUME NEW h \in PaymentSubscribe PROVE HandlerSound(h)
  <2>1. PICK c : c = Must("subscribe", local.pay)
    OBVIOUS
  <2>2. PICK q \in {<<>>, <<May("step", "payment_method_added")>>},
             to \in {ToNext("NumberProvision"), ToBack} :
          h = Does("PaymentMethod", "continue", <<c>> \o q, to)
    BY <1>1, <2>1 DEF PaymentSubscribe
  <2>3. AllSound(<<c>>)
    BY <2>1, QuietCalls
  <2>4. Sound(May("step", "payment_method_added"))
    BY DEF Sound, May, Req
  <2>5. AllSound(q)
    BY <2>4, NoCalls, OneCall
  <2>6. CallsSound(<<c>> \o q)
    BY <2>3, <2>5, Joined, SoundCalls
  <2> QED
    BY <2>2, <2>6, DoesFreely, Leads, FreeScreens
<1>2. ASSUME NEW h \in SkipAlreadyActive \cup NumberContinue PROVE HandlerSound(h)
  BY <1>2, DoesNothing, Leads, FreeScreens DEF SkipAlreadyActive, NumberContinue
<1>3. ASSUME NEW h \in Provision PROVE HandlerSound(h)
  <2>1. PICK c : c = Must("provision", "number")
    OBVIOUS
  <2>2. PICK d : d = May("step", "number_provisioned")
    OBVIOUS
  <2>3. PICK q \in {<<>>, <<d>>} : h = Does("NumberProvision", "provision", <<c>> \o q, ToStay)
    BY <1>3, <2>1, <2>2 DEF Provision
  <2>4. Sound(c) /\ AllSound(<<c>>) /\ Brings(c, d)
    BY <2>1, <2>2, QuietCalls DEF Brings, Must, May, Req
  <2>5. CallsSound(<<c>> \o q)
    <3>1. CASE q = <<>>
      BY <2>4, <3>1, NoCalls, Joined, SoundCalls
    <3>2. CASE q = <<d>>
      BY <2>4, <3>2, TwoCalls
    <3> QED
      BY <3>1, <3>2
  <2> QED
    BY <2>3, <2>5, DoesFreely, Leads
<1> QED
  BY <1>1, <1>2, <1>3

LEMMA ForwardingHandlers ==
  /\ \A h \in GuideNext \cup GuideSkip \cup VerifySkip \cup VerifyContinue : HandlerSound(h)
  /\ HandlerSound(VerifySuccess)
<1>1. PICK c : c = May("step", "forwarding_configured")
  OBVIOUS
<1>2. Sound(c)
  BY <1>1 DEF Sound, May, Req
<1>3. CallsSound(<<c>>)
  BY <1>2, OneCall, SoundCalls
<1>4. \A p, k : HandlerSound(Does(p, k, <<c>>, ToNext("CallModes")))
  BY <1>3, DoesFreely, Leads, FreeScreens
<1>5. ASSUME NEW h \in GuideSkip \cup VerifySkip PROVE HandlerSound(h)
  BY <1>1, <1>4, <1>5 DEF GuideSkip, VerifySkip
<1>6. ASSUME NEW h \in GuideNext PROVE HandlerSound(h)
  <2>1. PICK to : to = [kind |-> IF Top.guided THEN "next" ELSE "open",
                        page |-> "ForwardingVerify"]
    OBVIOUS
  <2>2. h = Does("ForwardingSetupGuide", "next", <<>>, to)
    BY <1>6, <2>1 DEF GuideNext
  <2>3. to.kind \in {"next", "open"} /\ Required(to.page) = {}
    BY <2>1, FreeScreens
  <2> QED
    BY <2>2, <2>3, DoesNothing
<1>7. ASSUME NEW h \in VerifyContinue PROVE HandlerSound(h)
  BY <1>7, DoesNothing, Leads, FreeScreens DEF VerifyContinue
<1>8. HandlerSound(VerifySuccess)
  BY <1>1, <1>4 DEF VerifySuccess
<1> QED
  BY <1>5, <1>6, <1>7, <1>8

LEMMA ModesHandlers ==
  \A h \in ModesContinue \cup ModesGuide \cup HomeLinks \cup BillingLinks : HandlerSound(h)
<1>1. ASSUME NEW h \in ModesContinue PROVE HandlerSound(h)
  <2>1. CASE Top.guided
    <3>1. PICK a : a = Must("step", "forwarding_configured")
      OBVIOUS
    <3>2. PICK b : b = Must("step", "call_modes_configured")
      OBVIOUS
    <3>3. PICK c : c = Must("step", "onboarding_complete")
      OBVIOUS
    <3>4. h = Does("CallModes", "continue", <<a, b, c>>, ToNext("OnboardingComplete"))
      BY <1>1, <2>1, <3>1, <3>2, <3>3 DEF ModesContinue
    <3>5. Sound(a) /\ Sound(b) /\ Sound(c)
      BY <3>1, <3>2, <3>3 DEF Sound, Must, Req
    <3>6. CallsSound(<<a, b, c>>) /\ Len(<<a, b, c>>) = 3 /\ <<a, b, c>>[3] = c
      BY <3>5, ThreeCalls
    <3>7. LeadsOn(<<a, b, c>>, ToNext("OnboardingComplete"))
      BY <3>3, <3>6, WhatStepsOpen, Leads DEF LeadsOn
    <3> QED
      BY <3>4, <3>6, <3>7, DoesSound
  <2>2. CASE ~Top.guided
    BY <1>1, <2>2, DoesNothing, Leads DEF ModesContinue
  <2> QED
    BY <2>1, <2>2
<1>2. ASSUME NEW h \in ModesGuide PROVE HandlerSound(h)
  <2>1. PICK to : to = [kind |-> IF Top.guided THEN "next" ELSE "open",
                        page |-> "ForwardingSetupGuide"]
    OBVIOUS
  <2>2. h = Does("CallModes", "guide", <<>>, to)
    BY <1>2, <2>1 DEF ModesGuide
  <2>3. to.kind \in {"next", "open"} /\ Required(to.page) = {}
    BY <2>1, FreeScreens
  <2> QED
    BY <2>2, <2>3, DoesNothing
<1>3. ASSUME NEW h \in HomeLinks \cup BillingLinks PROVE HandlerSound(h)
  BY <1>3, DoesNothing, Leads DEF HomeLinks, BillingLinks
<1> QED
  BY <1>1, <1>2, <1>3

LEMMA HandlersAreSound == \A h \in Handlers : HandlerSound(h)
<1> SUFFICES ASSUME NEW h \in Handlers PROVE HandlerSound(h)
  OBVIOUS
<1>1. h \in ProfileContinue \cup PrivacyContinue \cup AssistantContinue \cup AssistantSkip
              \cup CalendarContinue \cup CalendarSkip \cup Resubscribe \cup FreePlan
              \cup Confirm \cup PaymentSubscribe \cup SkipAlreadyActive \cup Provision
              \cup NumberContinue \cup GuideNext \cup GuideSkip \cup VerifySkip
              \cup VerifyContinue \cup ModesContinue \cup ModesGuide \cup HomeLinks
              \cup BillingLinks
  BY DEF Handlers, On
<1> QED
  BY <1>1, EarlyHandlers, PlanHandlers, NumberHandlers, ForwardingHandlers, ModesHandlers

----------------------------------------------------------------------------
(* The steps. *)

LEMMA HomeAlone ==
  ASSUME NEW stk, stk = <<Screen("Home", FALSE)>>
  PROVE  IsSeq(stk) /\ \A i \in 1 .. Len(stk) : ~stk[i].guided
<1>1. PICK s : s = Screen("Home", FALSE)
  OBVIOUS
<1>2. IsSeq(stk) /\ Len(stk) = 1 /\ stk[1] = s
  BY <1>1, OneCall
<1>3. ~s.guided
  BY <1>1 DEF Screen
<1>4. \A i \in 1 .. Len(stk) : i = 1
  BY <1>2
<1>5. \A i \in 1 .. Len(stk) : ~stk[i].guided
  BY <1>2, <1>3, <1>4
<1> QED
  BY <1>2, <1>5

LEMMA OnboardingStart == OnbInit => OnbInv
<1> SUFFICES ASSUME OnbInit PROVE OnbInv
  OBVIOUS
<1>1. DoneSound /\ RunsSound
  BY DEF OnbInit, DoneSound, RunsSound
<1>2. stack = <<Screen("Home", FALSE)>>
  BY DEF OnbInit
<1>3. StackSound
  BY <1>2, HomeAlone DEF StackSound
<1> QED
  BY <1>1, <1>3 DEF OnbInv

\* What a handler has yet to ask for stays true once it is.
Lasts == (sub # "none" => sub' # "none") /\ (number => number')

LEMMA SoundnessLasts ==
  ASSUME Lasts
  PROVE  /\ \A c : Sound(c) => Sound(c)'
         /\ \A h : HandlerSound(h) => HandlerSound(h)'
<1>1. \A c : Sound(c) => Sound(c)'
  BY DEF Lasts, Sound
<1>2. ASSUME NEW q, CallsSound(q) PROVE CallsSound(q)'
  BY <1>1, <1>2 DEF CallsSound
<1> QED
  BY <1>1, <1>2 DEF HandlerSound

\* A step of the app alone: the handlers it starts are sound.
LEMMA AppKeeps ==
  ASSUME OnbInv, UNCHANGED <<done, sub, number>>, sub # "none" => card', StackSound',
         \A r \in runs' : r \in runs \/ (HandlerSound(r) /\ Len(r.calls) >= 1)
  PROVE  OnbInv'
<1>1. \A h : HandlerSound(h) => HandlerSound(h)'
  BY SoundnessLasts DEF Lasts
<1>2. RunsSound'
  BY <1>1 DEF OnbInv, RunsSound
<1>3. DoneSound'
  BY DEF OnbInv, DoneSound
<1> QED
  BY <1>2, <1>3 DEF OnbInv

\* What the server does of a call: steps are only added, in order, and the plan, its card
\* and the number stay.
LEMMA ServedKeeps ==
  ASSUME DoneSound, NEW c, Sound(c), Served(c)
  PROVE  /\ DoneSound' /\ Lasts /\ done \subseteq done'
         /\ c.do = "step" => Before(c.on) \cup {c.on} \subseteq done'
         /\ c.do \in {"subscribe", "change"} /\ c.on # "none" => sub' # "none"
         /\ c.do = "provision" => number'
         /\ c.do # "refused"
<1>1. CASE c.do = "step"
  <2>1. /\ c.on \in done \/ Before(c.on) \subseteq done
        /\ done' = done \cup {c.on} /\ UNCHANGED sub
        /\ (number => number') /\ (card => card')
    BY <1>1 DEF Served, Accepts, MayComplete
  <2>2. c.on = "payment_method_added" => sub # "none"
    BY <2>1, LateSteps DEF DoneSound
  <2>3. \A s \in done' : Before(s) \subseteq done'
    BY <2>1 DEF DoneSound
  <2> QED
    BY <1>1, <2>1, <2>2, <2>3 DEF DoneSound, Sound, Lasts
<1>2. CASE c.do = "subscribe"
  <2>1. sub \in {"none", c.on} /\ sub' = c.on /\ card' /\ UNCHANGED done /\ (number => number')
    BY <1>2 DEF Served, Accepts, MaySubscribe
  <2> QED
    BY <1>2, <2>1 DEF DoneSound, Lasts
<1>3. CASE c.do = "change"
  <2>1. (sub # "none" \/ card) /\ sub' = c.on /\ (card => card') /\ UNCHANGED done
        /\ (number => number') /\ c.on # "none"
    BY <1>3 DEF Served, Accepts, MayChange, Sound
  <2> QED
    BY <1>3, <2>1 DEF DoneSound, Lasts
<1>4. CASE c.do \notin {"step", "subscribe", "change"}
  <2>1. UNCHANGED <<done, sub>> /\ (card => card') /\ (number => number')
        /\ (c.do = "provision" => number') /\ c.do # "refused"
    BY <1>4 DEF Served, Accepts
  <2> QED
    BY <1>4, <2>1 DEF DoneSound, Lasts
<1> QED
  BY <1>1, <1>2, <1>3, <1>4

LEMMA RequestKeeps ==
  ASSUME OnbInv, NEW r \in runs, Request(r)
  PROVE  OnbInv'
<1>1. PICK q : q = r.calls
  OBVIOUS
<1>2. PICK c : c = Head(q)
  OBVIOUS
<1>3. PICK ok \in BOOLEAN : /\ Heard(r, ok)
                            /\ ok => Served(c)
                            /\ ~ok => UNCHANGED serverVars \/ Served(c)
  BY <1>1, <1>2 DEF Request, NotAnswered
<1>4. PICK on : on = (ok \/ ~c.must)
  OBVIOUS
<1>5. HandlerSound(r) /\ CallsSound(q) /\ LeadsOn(q, r.to) /\ Len(q) >= 1
  BY <1>1 DEF OnbInv, RunsSound, HandlerSound
<1>6. PICK S : q \in Seq(S)
  BY <1>5 DEF CallsSound, IsSeq
<1>7. /\ c = q[1] /\ Tail(q) \in Seq(S) /\ Len(Tail(q)) = Len(q) - 1 /\ Len(q) \in Nat
      /\ \A i \in 1 .. Len(q) - 1 : Tail(q)[i] = q[i + 1]
  <2>1. q # <<>> /\ Len(q) \in Nat
    BY <1>5, <1>6
  <2> QED
    BY <1>2, <1>6, <2>1, HeadTailProperties
<1>8. Sound(c)
  BY <1>5, <1>7 DEF CallsSound
<1>9. DoneSound' /\ Lasts /\ done \subseteq done'
  <2>1. CASE Served(c)
    BY <1>8, <2>1, ServedKeeps DEF OnbInv
  <2>2. CASE UNCHANGED serverVars
    BY <2>2 DEF serverVars, OnbInv, DoneSound, Lasts
  <2> QED
    BY <1>3, <2>1, <2>2
<1>10. (on /\ c.must) =>
         /\ c.do = "step" => Before(c.on) \cup {c.on} \subseteq done'
         /\ c.do \in {"subscribe", "change"} /\ c.on # "none" => sub' # "none"
         /\ c.do = "provision" => number'
         /\ c.do # "refused"
  BY <1>3, <1>4, <1>8, ServedKeeps DEF OnbInv
<1>11. ASSUME on, NEW d, Brings(c, d) PROVE Sound(d)'
  BY <1>10, <1>11 DEF Brings, Pays, Sound
<1>12. StackSound'
  <2>1. CASE on /\ Len(q) = 1 /\ r.to.kind # "stay"
    <3>1. Lead(r.to)
      BY <1>1, <1>2, <1>3, <1>4, <2>1 DEF Heard
    <3>2. r.to.kind = "next" => Required(r.to.page) \subseteq done'
      BY <1>5, <1>7, <1>10, <2>1 DEF LeadsOn, Opens
    <3>3. r.to.kind \in {"stay", "next", "open", "back"}
      BY <1>5 DEF LeadsOn
    <3> QED
      BY <1>9, <3>1, <3>2, <3>3, LeadKeeps DEF OnbInv
  <2>2. CASE ~(on /\ Len(q) = 1 /\ r.to.kind # "stay")
    <3>1. stack' = stack
      BY <1>1, <1>2, <1>3, <1>4, <2>2 DEF Heard
    <3> QED
      BY <1>9, <3>1, StackStays DEF OnbInv
  <2> QED
    BY <2>1, <2>2
<1>13. RunsSound'
  <2>1. PICK t : t = [r EXCEPT !.calls = Tail(q)]
    OBVIOUS
  <2>2. DOMAIN t = {"page", "key", "calls", "to"} /\ t.calls = Tail(q) /\ t.to = r.to
    BY <1>5, <2>1 DEF HandlerSound
  <2>3. runs' = (runs \ {r}) \cup IF on /\ Len(q) > 1 THEN {t} ELSE {}
    BY <1>1, <1>2, <1>3, <1>4, <2>1 DEF Heard
  <2>4. ASSUME on, Len(q) > 1 PROVE HandlerSound(t)' /\ Len(t.calls) >= 1
    <3>1. ASSUME NEW i \in 1 .. Len(q) - 1 PROVE Sound(Tail(q)[i])'
      <4>1. Tail(q)[i] = q[i + 1] /\ i + 1 \in 1 .. Len(q)
        BY <1>7
      <4>2. Sound(q[i + 1]) \/ Brings(c, q[i + 1])
        BY <1>5, <1>7, <4>1 DEF CallsSound
      <4>3. PICK d : d = q[i + 1]
        OBVIOUS
      <4>4. Sound(d)'
        BY <1>9, <1>11, <2>4, <4>2, <4>3, SoundnessLasts
      <4> QED
        BY <4>1, <4>3, <4>4
    <3>2. PICK u : u = Tail(q)
      OBVIOUS
    <3>3. CallsSound(u)'
      BY <1>7, <3>1, <3>2 DEF CallsSound, IsSeq
    <3>4. LeadsOn(u, r.to)
      <4>1. Len(u) >= 1 /\ u[Len(u)] = q[Len(q)]
        BY <1>7, <2>4, <3>2
      <4> QED
        BY <1>5, <4>1 DEF LeadsOn
    <3> QED
      BY <1>7, <2>2, <2>4, <3>2, <3>3, <3>4 DEF HandlerSound
  <2>5. ASSUME NEW h \in runs PROVE HandlerSound(h)' /\ Len(h.calls) >= 1
    BY <1>9, SoundnessLasts DEF OnbInv, RunsSound
  <2> QED
    BY <2>3, <2>4, <2>5 DEF RunsSound
<1> QED
  BY <1>9, <1>12, <1>13 DEF OnbInv

LEMMA PressKeeps ==
  ASSUME OnbInv, NEW h \in Handlers, Press(h)
  PROVE  OnbInv'
<1>1. HandlerSound(h)
  BY HandlersAreSound
<1>2. UNCHANGED <<done, sub, number, card>>
  BY DEF Press, serverVars
<1>3. CASE h.calls = <<>>
  <2>1. Lead(h.to) /\ runs' = runs
    BY <1>3 DEF Press
  <2>2. h.to.kind \in {"stay", "next", "open", "back"}
        /\ (h.to.kind = "next" => Required(h.to.page) = {})
    BY <1>1, <1>3, NoCalls DEF HandlerSound, LeadsOn
  <2>3. StackSound'
    BY <1>2, <2>1, <2>2, LeadKeeps DEF OnbInv
  <2> QED
    BY <1>2, <2>1, <2>3, AppKeeps DEF OnbInv, DoneSound
<1>4. CASE h.calls # <<>>
  <2>1. runs' = runs \cup {h} /\ stack' = stack
    BY <1>4 DEF Press, navVars
  <2>2. Len(h.calls) >= 1
    BY <1>1, <1>4 DEF HandlerSound, CallsSound, IsSeq
  <2>3. StackSound'
    BY <1>2, <2>1, StackStays DEF OnbInv
  <2> QED
    BY <1>1, <1>2, <2>1, <2>2, <2>3, AppKeeps DEF OnbInv, DoneSound
<1> QED
  BY <1>3, <1>4

\* The screens' other actions start handlers of one call that lead nowhere but ahead.
LEMMA OneCallHandler ==
  ASSUME NEW p, NEW k, NEW c, Sound(c), NEW to,
         to.kind \in {"stay", "next", "open", "back"},
         to.kind = "next" => Required(to.page) = {}
  PROVE  HandlerSound(Does(p, k, <<c>>, to)) /\ Len(Does(p, k, <<c>>, to).calls) >= 1
<1>1. CallsSound(<<c>>) /\ Len(<<c>>) = 1
  BY OneCall, SoundCalls
<1>2. HandlerSound(Does(p, k, <<c>>, to))
  BY <1>1, DoesFreely
<1>3. Does(p, k, <<c>>, to).calls = <<c>>
  BY DEF Does
<1>4. Len(Does(p, k, <<c>>, to).calls) = 1
  BY <1>1, <1>3
<1> QED
  BY <1>2, <1>4

LEMMA ResumeKeeps ==
  ASSUME OnbInv, Resume
  PROVE  OnbInv'
<1>1. UNCHANGED <<done, sub, number, card>>
  BY DEF Resume, serverVars
<1>2. CASE "onboarding_complete" \notin done /\ stack' = GoTo(ScreenOf(FirstMissing), TRUE)
            /\ runs' = runs
  <2>1. PICK f : f = FirstMissing
    OBVIOUS
  <2>2. Before(f) \subseteq done
    BY <1>2, <2>1, AStepIsMissing
  <2>3. Required(ScreenOf(f)) \subseteq done
    <3>1. CASE f \in {"settings_configured", "number_provisioned"}
      BY <3>1, FreeScreens DEF ScreenOf
    <3>2. CASE f \in {"privacy_review", "assistant_setup", "calendar_setup", "plan_selected"}
      BY <2>2, <3>2 DEF ScreenOf, Required
    <3>3. CASE f = "payment_method_added"
      BY <2>2, <3>3, LateSteps, EarlySteps DEF ScreenOf, Required
    <3>4. CASE f \notin {"settings_configured", "number_provisioned", "privacy_review",
                        "assistant_setup", "calendar_setup", "plan_selected",
                        "payment_method_added"}
      BY <3>4, FreeScreens DEF ScreenOf
    <3> QED
      BY <3>1, <3>2, <3>3, <3>4
  <2>4. StackSound'
    BY <1>1, <1>2, <2>1, <2>3, StackGoesOn DEF OnbInv
  <2> QED
    BY <1>1, <1>2, <2>4, AppKeeps DEF OnbInv, DoneSound
<1>3. CASE stack' = stack /\
           runs' = runs \cup {Does("Home", "complete", <<May("step", "onboarding_complete")>>,
                                   ToStay)}
  <2>1. PICK h : h = Does("Home", "complete", <<May("step", "onboarding_complete")>>, ToStay)
    OBVIOUS
  <2>2. Sound(May("step", "onboarding_complete"))
    BY DEF Sound, May, Req
  <2>3. HandlerSound(h) /\ Len(h.calls) >= 1
    BY <2>1, <2>2, OneCallHandler, Leads
  <2>4. StackSound'
    BY <1>1, <1>3, StackStays DEF OnbInv
  <2> QED
    BY <1>1, <1>3, <2>1, <2>3, <2>4, AppKeeps DEF OnbInv, DoneSound
<1>4. CASE stack' = stack /\ runs' = runs
  <2>1. StackSound'
    BY <1>1, <1>4, StackStays DEF OnbInv
  <2> QED
    BY <1>1, <1>4, <2>1, AppKeeps DEF OnbInv, DoneSound
<1> QED
  BY <1>2, <1>3, <1>4 DEF Resume, IsComplete, Move, navVars

\* A switch, the start of a verification and a poll that found it passed.
LEMMA StartsKeep ==
  ASSUME OnbInv, (\E m \in Modes : ToggleMode(m)) \/ StartVerification \/ PollPassed
  PROVE  OnbInv'
<1>1. UNCHANGED <<done, sub, number, card, stack>>
  BY DEF ToggleMode, StartVerification, PollPassed, serverVars
<1>2. \A r \in runs' : r \in runs \/ (HandlerSound(r) /\ Len(r.calls) >= 1)
  <2>1. CASE \E m \in Modes : ToggleMode(m)
    <3>1. PICK m \in Modes, do \in {"mode_off", "mode_on"} :
            runs' = runs \cup {Does("CallModes", m, <<Must(do, m)>>, ToStay)}
      BY <2>1 DEF ToggleMode
    <3>2. Sound(Must(do, m))
      BY QuietCalls
    <3>3. PICK h : h = Does("CallModes", m, <<Must(do, m)>>, ToStay)
      OBVIOUS
    <3>4. HandlerSound(h) /\ Len(h.calls) >= 1
      BY <3>2, <3>3, OneCallHandler, Leads
    <3> QED
      BY <3>1, <3>3, <3>4
  <2>2. CASE StartVerification
    <3>1. PICK p : runs' = runs \cup {Does("ForwardingVerify", "start",
                                           <<Must("verify", "forwarding")>>,
                                           [ToStay EXCEPT !.page = p])}
      BY <2>2 DEF StartVerification
    <3>2. PICK to : to = [ToStay EXCEPT !.page = p]
      OBVIOUS
    <3>3. to.kind = "stay"
      BY <3>2 DEF ToStay
    <3>4. PICK h : h = Does("ForwardingVerify", "start", <<Must("verify", "forwarding")>>, to)
      OBVIOUS
    <3>5. Sound(Must("verify", "forwarding"))
      BY QuietCalls
    <3>6. HandlerSound(h) /\ Len(h.calls) >= 1
      BY <3>3, <3>4, <3>5, OneCallHandler
    <3> QED
      BY <3>1, <3>2, <3>4, <3>6
  <2>3. CASE PollPassed
    <3>1. runs' \subseteq runs \cup {VerifySuccess}
      BY <2>3 DEF PollPassed
    <3>2. PICK c : c = May("step", "forwarding_configured")
      OBVIOUS
    <3>3. Sound(c)
      BY <3>2 DEF Sound, May, Req
    <3>4. VerifySuccess = Does("ForwardingVerify", "success", <<c>>, ToNext("CallModes"))
      BY <3>2 DEF VerifySuccess
    <3>5. HandlerSound(VerifySuccess) /\ Len(VerifySuccess.calls) >= 1
      BY <3>3, <3>4, OneCallHandler, Leads, FreeScreens
    <3> QED
      BY <3>1, <3>5
  <2> QED
    BY <2>1, <2>2, <2>3
<1>3. StackSound'
  BY <1>1, StackStays DEF OnbInv
<1> QED
  BY <1>1, <1>2, <1>3, AppKeeps DEF OnbInv, DoneSound

LEMMA QuietStepsKeep ==
  ASSUME OnbInv, UNCHANGED <<done, sub, number, stack>>, runs' \in {runs, {}},
         sub # "none" => card'
  PROVE  OnbInv'
<1>1. StackSound'
  BY StackStays DEF OnbInv
<1> QED
  BY <1>1, AppKeeps

LEMMA MovesKeep ==
  ASSUME OnbInv, BackGesture \/ GetStarted \/ KillApp \/ \E p \in Plans : SelectPlan(p)
  PROVE  OnbInv'
<1>1. UNCHANGED <<done, sub, number, card>> /\ runs' \in {runs, {}}
  BY DEF BackGesture, GetStarted, KillApp, SelectPlan, serverVars
<1>2. StackSound'
  <2>1. CASE stack' \in {stack, Popped}
    BY <1>1, <2>1, StackStays DEF OnbInv
  <2>2. CASE stack' = <<Screen("Home", FALSE)>>
    BY <2>2, HomeAlone DEF StackSound, IsSeq
  <2>3. CASE stack' = GoTo("PaymentMethod", Top.guided)
    BY <1>1, <2>3, StackGoesOn, FreeScreens DEF OnbInv
  <2> QED
    BY <2>1, <2>2, <2>3 DEF BackGesture, GetStarted, KillApp, SelectPlan, Move
<1> QED
  BY <1>1, <1>2, AppKeeps DEF OnbInv, DoneSound

LEMMA OnboardingStep ==
  ASSUME OnbInv, [OnbNext]_onbVars
  PROVE  OnbInv'
<1>1. CASE UNCHANGED onbVars
  BY <1>1, QuietStepsKeep DEF onbVars, serverVars, appVars, OnbInv, DoneSound
<1>2. ASSUME \/ BillLoaded \/ DismissConfirm \/ PaymentChecked \/ NumbersLooked \/ ModesLoaded
             \/ ForwardedCall \/ PollTimeout \/ AddCard \/ RemoveCard \/ CancelSubscription
      PROVE  OnbInv'
  <2>1. UNCHANGED <<done, sub, number, stack, runs>> /\ (sub # "none" => card')
    BY <1>2 DEF BillLoaded, DismissConfirm, PaymentChecked, NumbersLooked, ModesLoaded,
       ForwardedCall, PollTimeout, AddCard, RemoveCard, CancelSubscription, Only, serverVars,
       appVars, OnbInv, DoneSound
  <2> QED
    BY <2>1, QuietStepsKeep
<1>3. ASSUME BackGesture \/ GetStarted \/ KillApp \/ \E p \in Plans : SelectPlan(p)
      PROVE  OnbInv'
  BY <1>3, MovesKeep
<1>4. ASSUME (\E m \in Modes : ToggleMode(m)) \/ StartVerification \/ PollPassed
      PROVE  OnbInv'
  BY <1>4, StartsKeep
<1>5. ASSUME NEW h \in Handlers, Press(h) PROVE OnbInv'
  BY <1>5, PressKeeps
<1>6. ASSUME NEW r \in runs, Request(r) PROVE OnbInv'
  BY <1>6, RequestKeeps
<1>7. ASSUME Resume PROVE OnbInv'
  BY <1>7, ResumeKeeps
<1> QED
  BY <1>1, <1>2, <1>3, <1>4, <1>5, <1>6, <1>7 DEF OnbNext

----------------------------------------------------------------------------
(* The theorems. *)

\* No step is marked that did not happen, for every price list, whichever answers are lost
\* and whenever the app is killed (complete_step takes the client's word for it; the
\* handlers of the screens only ask for a step once its request was answered).
THEOREM StepsAreTrueAlways == OnbSpec => []StepsAreTrue
<1>1. OnbInv => StepsAreTrue
  BY DEF OnbInv, DoneSound, StepsAreTrue
<1> QED
  BY <1>1, OnboardingStart, OnboardingStep, PTL DEF OnbSpec

\* A screen of the guide is only on the stack when the server has every step before it,
\* for every price list, whichever answers are lost, with any number of handlers under
\* way and whenever the app is killed (the handleContinue of the screens, Home's resume).
THEOREM GuideKeepsItsOrder == OnbSpec => []GuidedInOrder
<1>1. OnbInv => GuidedInOrder
  <2> SUFFICES ASSUME OnbInv, NEW s \in Range(stack), s.guided
               PROVE  Required(s.page) \subseteq done
    BY DEF GuidedInOrder
  <2>1. PICK S : stack \in Seq(S)
    BY DEF OnbInv, StackSound, IsSeq
  <2>2. DOMAIN stack = 1 .. Len(stack)
    BY <2>1, LenProperties
  <2>3. PICK i \in 1 .. Len(stack) : s = stack[i]
    BY <2>2 DEF Range
  <2> QED
    BY <2>3 DEF OnbInv, StackSound
<1> QED
  BY <1>1, OnboardingStart, OnboardingStep, PTL DEF OnbSpec
=============================================================================
