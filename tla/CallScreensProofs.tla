------------------------- MODULE CallScreensProofs -------------------------
(***************************************************************************)
(* Proofs about the screens of calls and callers, and the lists behind     *)
(* them, for any numbers, calls, requests, sockets and sign-ins: a call's  *)
(* detail shows that call, its live transcript shows each turn once, the   *)
(* pages of a list leave out no call; the VIP and the block list exclude   *)
(* each other, and a caller who is unblocked from a call gets through,     *)
(* since a request that nothing overlapped commits over the rows it looked *)
(* at; the marks of a call's card are those of the lists.                  *)
(***************************************************************************)
EXTENDS LiveEvents, CallFeed, CallerScreens, FiniteSetTheorems, TLAPS

----------------------------------------------------------------------------
(* The detail: what is under way is for the call that is open. *)

DetailInv ==
  det.route # 0 /\ own => /\ \A a \in asks : a.c = det.route
                          /\ det.sel \in {0, det.route} /\ det.tr \in {0, det.route}

DetTyped == DOMAIN det = DOMAIN NoDetail

LEMMA OpenKeepsDetail ==
  ASSUME DetTyped, DetailInv, NEW c \in 1 .. MaxCalls, OpenDetail(c)
  PROVE  DetTyped' /\ DetailInv'
<1>1. det'.route = c /\ det'.sel = 0 /\ det'.tr = 0 /\ DOMAIN det' = DOMAIN det
  BY DEF OpenDetail, Cleared, DetTyped, NoDetail
<1>2. \A a \in asks' : a \in asks \/ a.c = c
  BY DEF OpenDetail, Asking, If
<1>3. own' = \A a \in asks : a.c = c
  BY DEF OpenDetail
<1> QED
  BY <1>1, <1>2, <1>3 DEF DetailInv, DetTyped

\* A step of the open screen asks for its own call, and stores what is under way.
LEMMA StayKeepsDetail ==
  ASSUME DetTyped, DetailInv, UNCHANGED own, DOMAIN det' = DOMAIN det,
         det'.route = det.route \/ det'.route = 0,
         det.route # 0 => \A a \in asks' : a \in asks \/ a.c = det.route,
         det'.sel \in {0, det.sel} \cup {a.c : a \in asks},
         det'.tr \in {0, det.tr} \cup {a.c : a \in asks}
  PROVE  DetTyped' /\ DetailInv'
BY DEF DetTyped, DetailInv

THEOREM DetailStep ==
  DetTyped /\ DetailInv /\ [ListNext \/ DetailNext]_<<feedVars, detVars>> => DetTyped' /\ DetailInv'
<1> SUFFICES ASSUME DetTyped, DetailInv, [ListNext \/ DetailNext]_<<feedVars, detVars>>
             PROVE  DetTyped' /\ DetailInv'
  OBVIOUS
<1>1. CASE ListNext \/ UNCHANGED <<feedVars, detVars>>
  <2>1. UNCHANGED detVars
    BY <1>1 DEF ListNext, NewCall, EndReached, Reloaded, GotMore, PageFails, QuickChange, SearchChange,
       SearchFires, PullRefresh, ResetBar, OpenFilters, ResetStaged, CancelFilters, ApplyAdvanced,
       Stage, LoadCalls
  <2> QED
    BY <2>1 DEF detVars, DetTyped, DetailInv
<1>2. CASE DetailNext
  <2>1. CASE \E c \in 1 .. MaxCalls : OpenDetail(c)
    BY <2>1, OpenKeepsDetail
  <2>2. CASE CloseDetail
    BY <2>2, StayKeepsDetail DEF CloseDetail, DetTyped, NoDetail
  <2>3. CASE ReloadDetail
    BY <2>3, StayKeepsDetail DEF ReloadDetail, Cleared, Asking, DetTyped, NoDetail
  <2>4. ASSUME NEW a \in asks, NEW ready, GotDetail(a, ready)
        PROVE  DetTyped' /\ DetailInv'
    BY <2>4, StayKeepsDetail DEF GotDetail, Asking, If, DetTyped, NoDetail
  <2>5. ASSUME NEW a \in asks, GotTranscript(a) \/ DetailFails(a) \/ TranscriptFails(a)
        PROVE  DetTyped' /\ DetailInv'
    BY <2>5, StayKeepsDetail DEF GotTranscript, DetailFails, TranscriptFails, DetTyped, NoDetail
  <2>6. CASE LoadTranscript
    BY <2>6, StayKeepsDetail DEF LoadTranscript, Asking, DetTyped, NoDetail
  <2>7. CASE UnfoldTranscript \/ PlayRecording \/ PlayerEnds \/ PlayerFails
    BY <2>7, StayKeepsDetail DEF UnfoldTranscript, PlayRecording, Player, PlayerEnds, PlayerFails,
       DetTyped, NoDetail
  <2> QED
    BY <1>2, <2>1, <2>2, <2>3, <2>4, <2>5, <2>6, <2>7 DEF DetailNext
<1> QED
  BY <1>1, <1>2

\* The detail and the transcript on the screen are those of the call it was opened for
\* (callStore.ts, CallDetailScreen.tsx, useNotificationHandler.ts).
THEOREM DetailIsItsOwn == FeedSpec => []DetailIsOfRoute
<1>1. FeedInit => DetTyped /\ DetailInv
  BY DEF FeedInit, DetTyped, DetailInv, NoDetail
<1>2. DetailInv => DetailIsOfRoute
  BY DEF DetailInv, DetailIsOfRoute
<1> QED
  BY <1>1, <1>2, DetailStep, PTL DEF FeedSpec

----------------------------------------------------------------------------
(* The list of calls.  One series of pages without filters runs down from its first call. *)

LEMMA IntervalSize ==
  ASSUME NEW a \in Nat, NEW b \in Nat, a <= b
  PROVE  Cardinality(a + 1 .. b) = b - a
<1>1. CASE a = b
  <2>1. a + 1 .. b = {}
    BY <1>1
  <2> QED
    BY <1>1, <2>1, FS_EmptySet
<1>2. CASE a < b
  BY <1>2, FS_Interval
<1> QED
  BY <1>1, <1>2

\* Without a filter the rows are the calls from m on down.
LEMMA SortedDown ==
  ASSUME NEW m \in Nat
  PROVE  Sorted(1 .. m, {}) = [i \in 1 .. m |-> m + 1 - i]
<1>1. Cardinality(1 .. m) = m
  BY IntervalSize
<1>2. ASSUME NEW c \in 1 .. m PROVE Cardinality(Ahead(c, 1 .. m, {})) = m - c
  <2>1. Ahead(c, 1 .. m, {}) = c + 1 .. m
    BY DEF Ahead
  <2> QED
    BY <2>1, IntervalSize
<1>3. ASSUME NEW i \in 1 .. m
      PROVE  (CHOOSE c \in 1 .. m : Cardinality(Ahead(c, 1 .. m, {})) = i - 1) = m + 1 - i
  <2>1. \A c \in 1 .. m : Cardinality(Ahead(c, 1 .. m, {})) = i - 1 <=> c = m + 1 - i
    BY <1>2
  <2>2. m + 1 - i \in 1 .. m
    OBVIOUS
  <2> QED
    BY <2>1, <2>2
<1> QED
  BY <1>1, <1>3 DEF Sorted

LEMMA PageDown ==
  ASSUME made \in Nat, NEW cur \in 0 .. made, NEW m, m = (IF cur = 0 THEN made ELSE cur - 1),
         NEW p, p = Page({}, cur)
  PROVE  /\ p.items \in Seq(Nat)
         /\ \A i \in 1 .. Len(p.items) : p.items[i] = m + 1 - i /\ p.items[i] \in 1 .. made
         /\ p.next # 0 => Len(p.items) > 0 /\ p.next = p.items[Len(p.items)]
<1>1. m \in Nat /\ m <= made
  OBVIOUS
<1>2. {c \in Behind(cur) : Narrow({}) => c \in Kept} = 1 .. m
  BY DEF Behind, Narrow
<1> DEFINE inOrder == Sorted(1 .. m, {})
           onPage == IF Len(inOrder) > PageSize THEN SubSeq(inOrder, 1, PageSize) ELSE inOrder
<1>3. inOrder = [i \in 1 .. m |-> m + 1 - i]
  BY <1>1, SortedDown
<1>4. inOrder \in Seq(Nat) /\ Len(inOrder) = m /\ \A i \in 1 .. m : inOrder[i] = m + 1 - i
  BY <1>1, <1>3
<1>5. p = [items |-> onPage, more |-> Len(inOrder) > PageSize,
           next |-> IF Len(inOrder) > PageSize THEN Last(onPage) ELSE 0]
  BY <1>2 DEF Page
<1> HIDE DEF inOrder
<1>6. PageSize \in Nat \ {0}
  BY FeedAssumption
<1>7. /\ onPage \in Seq(Nat) /\ Len(onPage) <= m
      /\ \A i \in 1 .. Len(onPage) : onPage[i] = inOrder[i]
      /\ Len(inOrder) > PageSize => Len(onPage) = PageSize
  <2>1. CASE Len(inOrder) > PageSize
    BY <1>1, <1>4, <1>6, <2>1
  <2>2. CASE ~(Len(inOrder) > PageSize)
    BY <1>1, <1>4, <2>2
  <2> QED
    BY <2>1, <2>2
<1> HIDE DEF onPage
<1>8. ASSUME NEW i \in 1 .. Len(onPage) PROVE onPage[i] = m + 1 - i /\ onPage[i] \in 1 .. made
  <2>1. Len(onPage) \in Nat /\ i \in 1 .. m
    BY <1>1, <1>7
  <2>2. onPage[i] = inOrder[i] /\ inOrder[i] = m + 1 - i
    BY <1>4, <1>7, <2>1
  <2>3. m + 1 - i \in 1 .. made
    BY <1>1, <2>1
  <2> QED
    BY <2>2, <2>3
<1> QED
  BY <1>5, <1>6, <1>7, <1>8 DEF Last

Down(s) == \A i \in 1 .. Len(s) - 1 : s[i] = s[i + 1] + 1

\* A list that is one series has at most its next page under way, which starts behind its
\* last call.
OneSeries ==
  /\ feed.calls \in Seq(Nat) /\ Down(feed.calls)
  /\ feed.cursor \in 0 .. made
  /\ feed.cursor # 0 => Len(feed.calls) > 0 /\ feed.cursor = feed.calls[Len(feed.calls)]
  /\ \/ gets = {}
     \/ gets = {[k |-> "more", f |-> {}, cur |-> feed.cursor]} /\ feed.cursor # 0

ListInv ==
  /\ made \in Nat
  /\ DOMAIN feed = {"calls", "cursor", "more", "err", "by", "loadingMore"}
  /\ series \in {"one", "asked", "no"}
  /\ series = "asked" => gets = {[k |-> "reload", f |-> {}, cur |-> 0]}
  /\ series = "one" => OneSeries

LEMMA ListStart == FeedInit => ListInv
BY DEF FeedInit, ListInv, NoFeed

\* The list stays, whatever happens to the rest of the store.
LEMMA SameList ==
  ASSUME ListInv, feed'.calls = feed.calls, feed'.cursor = feed.cursor, DOMAIN feed' = DOMAIN feed,
         made' \in Nat, made <= made', series' \in {series, "no"},
         gets' = gets \/ series' = "no" \/ (series = "one" /\ gets' = {})
           \/ (series = "one" /\ gets' = {[k |-> "more", f |-> {}, cur |-> feed.cursor]}
               /\ feed.cursor # 0)
  PROVE  ListInv'
<1>1. series' \in {"one", "asked", "no"}
  BY DEF ListInv
<1>2. ASSUME series' = "one" PROVE OneSeries'
  <2>1. OneSeries
    BY <1>2 DEF ListInv
  <2> QED
    BY <1>2, <2>1 DEF OneSeries, Down, ListInv
<1> QED
  BY <1>1, <1>2 DEF ListInv

LEMMA LoadKeeps ==
  ASSUME ListInv, NEW f, LoadCalls(f)
  PROVE  ListInv'
<1>1. /\ made' = made /\ feed' = [feed EXCEPT !.err = FALSE]
      /\ series' = (IF gets = {} /\ f = {} THEN "asked" ELSE "no")
      /\ gets' = gets \cup {[k |-> "reload", f |-> f, cur |-> 0]}
  BY DEF LoadCalls
<1> QED
  BY <1>1 DEF ListInv

LEMMA ReloadKeeps ==
  ASSUME ListInv, NEW g, Reloaded(g)
  PROVE  ListInv'
<1>1. /\ made' = made /\ g \in gets /\ g.k = "reload" /\ gets' = gets \ {g}
      /\ series' = (IF series = "asked" THEN "one" ELSE series)
      /\ \E p : p = Page(g.f, 0) /\ feed' = [feed EXCEPT !.calls = p.items, !.cursor = p.next,
                                                !.more = p.more, !.by = g.f]
  BY DEF Reloaded
<1>2. series # "one"
  BY <1>1 DEF ListInv, OneSeries
<1>3. DOMAIN feed' = {"calls", "cursor", "more", "err", "by", "loadingMore"}
  BY <1>1 DEF ListInv
<1>4. ASSUME series = "asked" PROVE OneSeries'
  <2>1. g.f = {} /\ gets' = {}
    BY <1>1, <1>4 DEF ListInv
  <2>2. PICK p : p = Page({}, 0) /\ feed'.calls = p.items /\ feed'.cursor = p.next
    BY <1>1, <2>1 DEF ListInv
  <2>3. made \in Nat /\ 0 \in 0 .. made
    BY DEF ListInv
  <2>4. /\ p.items \in Seq(Nat)
        /\ \A i \in 1 .. Len(p.items) : p.items[i] = made + 1 - i /\ p.items[i] \in 1 .. made
        /\ p.next # 0 => Len(p.items) > 0 /\ p.next = p.items[Len(p.items)]
    BY <2>2, <2>3, PageDown
  <2>5. Down(p.items)
    <3>1. ASSUME NEW i \in 1 .. Len(p.items) - 1 PROVE p.items[i] = p.items[i + 1] + 1
      <4>1. Len(p.items) \in Nat
        BY <2>4
      <4>2. i \in 1 .. Len(p.items) /\ i + 1 \in 1 .. Len(p.items) /\ i \in Nat
        BY <4>1
      <4>3. p.items[i] = made + 1 - i /\ p.items[i + 1] = made + 1 - (i + 1)
        BY <2>4, <4>2
      <4> QED
        BY <2>3, <4>2, <4>3
    <3> QED
      BY <3>1 DEF Down
  <2>6. p.next \in 0 .. made
    BY <2>3, <2>4
  <2> QED
    BY <1>1, <2>1, <2>2, <2>4, <2>5, <2>6 DEF OneSeries, Down
<1> QED
  BY <1>1, <1>2, <1>3, <1>4 DEF ListInv

\* The next page goes on where the list ends.
LEMMA AppendedDown ==
  ASSUME NEW s \in Seq(Nat), NEW t \in Seq(Nat), Down(s), Len(s) > 0,
         \A i \in 1 .. Len(t) : t[i] = s[Len(s)] - i
  PROVE  /\ s \o t \in Seq(Nat) /\ Len(s \o t) > 0 /\ Down(s \o t)
         /\ Len(t) > 0 => (s \o t)[Len(s \o t)] = t[Len(t)]
<1> DEFINE u == s \o t
<1>1. u \in Seq(Nat) /\ Len(u) = Len(s) + Len(t) /\ Len(s) \in Nat /\ Len(t) \in Nat
  OBVIOUS
<1>2. \A i \in 1 .. Len(s) : u[i] = s[i]
  OBVIOUS
<1>3. \A j \in 1 .. Len(t) : u[Len(s) + j] = t[j]
  OBVIOUS
<1>4. s[Len(s)] \in Nat
  OBVIOUS
<1> HIDE DEF u
<1>5. ASSUME NEW i \in 1 .. Len(u) - 1 PROVE u[i] = u[i + 1] + 1
  <2>1. i \in Nat /\ i >= 1 /\ i + 1 <= Len(s) + Len(t)
    BY <1>1
  <2>2. CASE i < Len(s)
    <3>1. i \in 1 .. Len(s) - 1 /\ i \in 1 .. Len(s) /\ i + 1 \in 1 .. Len(s)
      BY <1>1, <2>1, <2>2
    <3>2. s[i] = s[i + 1] + 1
      BY <3>1 DEF Down
    <3> QED
      BY <1>2, <3>1, <3>2
  <2>3. CASE i = Len(s)
    <3>1. i \in 1 .. Len(s) /\ 1 \in 1 .. Len(t)
      BY <1>1, <2>1, <2>3
    <3>2. u[i] = s[Len(s)] /\ u[i + 1] = t[1] /\ t[1] = s[Len(s)] - 1
      BY <1>2, <1>3, <2>3, <3>1
    <3> QED
      BY <1>4, <3>2
  <2>4. CASE i > Len(s)
    <3> DEFINE j == i - Len(s)
    <3>1. j \in 1 .. Len(t) /\ j + 1 \in 1 .. Len(t) /\ i = Len(s) + j /\ i + 1 = Len(s) + (j + 1)
      BY <1>1, <2>1, <2>4
    <3> HIDE DEF j
    <3>2. u[i] = t[j] /\ u[i + 1] = t[j + 1]
      BY <1>3, <3>1
    <3>3. t[j] = s[Len(s)] - j /\ t[j + 1] = s[Len(s)] - (j + 1)
      BY <3>1
    <3>4. j \in Nat /\ u[i] = s[Len(s)] - j /\ u[i + 1] = s[Len(s)] - (j + 1)
      BY <1>1, <3>1, <3>2, <3>3
    <3> QED
      BY <1>4, <2>1, <3>4
  <2> QED
    BY <1>1, <2>1, <2>2, <2>3, <2>4
<1>6. ASSUME Len(t) > 0 PROVE u[Len(u)] = t[Len(t)]
  BY <1>1, <1>3, <1>6
<1> QED
  BY <1>1, <1>5, <1>6 DEF Down, u

LEMMA MoreKeeps ==
  ASSUME ListInv, NEW g, GotMore(g)
  PROVE  ListInv'
<1>1. /\ UNCHANGED <<made, series>> /\ g \in gets /\ g.k = "more" /\ gets' = gets \ {g}
      /\ \E p : p = Page(g.f, g.cur)
                /\ feed' = [feed EXCEPT !.calls = feed.calls \o p.items, !.cursor = p.next,
                                        !.more = p.more, !.loadingMore = FALSE]
  BY DEF GotMore
<1>2. DOMAIN feed' = {"calls", "cursor", "more", "err", "by", "loadingMore"}
  BY <1>1 DEF ListInv
<1>3. series # "asked"
  BY <1>1 DEF ListInv
<1>4. ASSUME series = "one" PROVE OneSeries'
  <2>1. /\ OneSeries /\ made \in Nat
        /\ DOMAIN feed = {"calls", "cursor", "more", "err", "by", "loadingMore"}
    BY <1>4 DEF ListInv
  <2>2. g.f = {} /\ g.cur = feed.cursor /\ gets' = {} /\ feed.cursor # 0
    <3>1. /\ gets = {[k |-> "more", f |-> {}, cur |-> feed.cursor]} /\ feed.cursor # 0
          /\ g \in gets /\ gets' = gets \ {g}
      BY <1>1, <2>1 DEF OneSeries
    <3>2. g = [k |-> "more", f |-> {}, cur |-> feed.cursor] /\ gets' = {}
      BY <3>1
    <3> QED
      BY <3>1, <3>2
  <2>3. PICK p : p = Page({}, feed.cursor) /\ feed'.calls = feed.calls \o p.items
                 /\ feed'.cursor = p.next
    BY <1>1, <2>1, <2>2
  <2>4. feed.cursor \in 0 .. made /\ feed.calls \in Seq(Nat) /\ Len(feed.calls) > 0
        /\ feed.cursor = feed.calls[Len(feed.calls)] /\ Down(feed.calls)
    BY <2>1, <2>2 DEF OneSeries
  <2>5. /\ p.items \in Seq(Nat)
        /\ \A i \in 1 .. Len(p.items) :
             p.items[i] = feed.cursor - 1 + 1 - i /\ p.items[i] \in 1 .. made
        /\ p.next # 0 => Len(p.items) > 0 /\ p.next = p.items[Len(p.items)]
    <3>1. PICK m, cur : cur = feed.cursor /\ m = feed.cursor - 1
      OBVIOUS
    <3>2. cur \in 0 .. made /\ m = (IF cur = 0 THEN made ELSE cur - 1) /\ p = Page({}, cur)
      BY <2>2, <2>3, <2>4, <3>1
    <3>3. /\ p.items \in Seq(Nat)
          /\ \A i \in 1 .. Len(p.items) : p.items[i] = m + 1 - i /\ p.items[i] \in 1 .. made
          /\ p.next # 0 => Len(p.items) > 0 /\ p.next = p.items[Len(p.items)]
      BY <2>1, <3>2, PageDown
    <3> QED
      BY <3>1, <3>3
  <2>6. \A i \in 1 .. Len(p.items) : p.items[i] = feed.calls[Len(feed.calls)] - i
    <3>1. ASSUME NEW i \in 1 .. Len(p.items) PROVE p.items[i] = feed.calls[Len(feed.calls)] - i
      <4>1. p.items[i] = feed.cursor - 1 + 1 - i
        BY <2>5
      <4>2. i \in Nat /\ feed.cursor \in Nat
        BY <2>1, <2>4
      <4> QED
        BY <2>4, <4>1, <4>2
    <3> QED
      BY <3>1
  <2>7. /\ feed'.calls \in Seq(Nat) /\ Len(feed'.calls) > 0 /\ Down(feed'.calls)
        /\ Len(p.items) > 0 => feed'.calls[Len(feed'.calls)] = p.items[Len(p.items)]
    <3> DEFINE u == feed.calls \o p.items
    <3>1. /\ u \in Seq(Nat) /\ Len(u) > 0 /\ Down(u)
          /\ Len(p.items) > 0 => u[Len(u)] = p.items[Len(p.items)]
      BY <2>4, <2>5, <2>6, AppendedDown
    <3> QED
      BY <2>3, <3>1 DEF Down
  <2>8. p.next \in 0 .. made
    BY <2>1, <2>5
  <2> QED
    BY <1>1, <2>2, <2>3, <2>5, <2>7, <2>8 DEF OneSeries, Down
<1> QED
  BY <1>1, <1>2, <1>3, <1>4 DEF ListInv

LEMMA EndKeepsList ==
  ASSUME ListInv, EndReached
  PROVE  ListInv'
<1>1. /\ UNCHANGED made /\ feed' = [feed EXCEPT !.err = FALSE, !.loadingMore = TRUE]
      /\ gets' = gets \cup {[k |-> "more", f |-> {}, cur |-> feed.cursor]} /\ feed.cursor # 0
      /\ series' = IF gets = {} THEN series ELSE "no"
  BY DEF EndReached
<1>2. made \in Nat /\ made <= made'
  BY <1>1 DEF ListInv
<1>3. feed'.calls = feed.calls /\ feed'.cursor = feed.cursor /\ DOMAIN feed' = DOMAIN feed
  BY <1>1 DEF ListInv
<1>4. CASE series = "one" /\ gets = {}
  BY <1>1, <1>2, <1>3, <1>4, SameList
<1>5. CASE ~(series = "one" /\ gets = {})
  <2>1. series' = "no"
    BY <1>1, <1>5 DEF ListInv
  <2> QED
    BY <1>1, <1>2, <1>3, <2>1 DEF ListInv
<1> QED
  BY <1>4, <1>5

LEMMA FailKeepsList ==
  ASSUME ListInv, NEW g, PageFails(g)
  PROVE  ListInv'
<1>1. /\ UNCHANGED made /\ g \in gets /\ gets' = gets \ {g}
      /\ series' = IF g.k = "reload" THEN "no" ELSE series
      /\ \E b : feed' = [feed EXCEPT !.err = TRUE, !.loadingMore = b]
  BY DEF PageFails
<1>2. made' \in Nat /\ made <= made'
  BY <1>1 DEF ListInv
<1>3. feed'.calls = feed.calls /\ feed'.cursor = feed.cursor /\ DOMAIN feed' = DOMAIN feed
  BY <1>1 DEF ListInv
<1>4. series' = "no" \/ (series = "one" /\ gets' = {} /\ series' = series)
  <2>1. CASE g.k = "reload"
    BY <1>1, <2>1
  <2>2. CASE g.k # "reload" /\ series = "one"
    <3>1. gets = {} \/ \E h : gets = {h}
      BY <2>2 DEF ListInv, OneSeries
    <3>2. gets' = {}
      BY <1>1, <3>1
    <3> QED
      BY <1>1, <2>2, <3>2
  <2>3. CASE g.k # "reload" /\ series # "one"
    <3>1. series # "asked"
      BY <1>1, <2>3 DEF ListInv
    <3> QED
      BY <1>1, <2>3, <3>1 DEF ListInv
  <2> QED
    BY <2>1, <2>2, <2>3
<1> QED
  BY <1>2, <1>3, <1>4 DEF ListInv, OneSeries, Down

LEMMA ListStep == ListInv /\ [ListNext \/ DetailNext]_<<feedVars, detVars>> => ListInv'
<1> SUFFICES ASSUME ListInv, [ListNext \/ DetailNext]_<<feedVars, detVars>>
             PROVE  ListInv'
  OBVIOUS
<1>1. CASE UNCHANGED <<made, feed, gets, series>>
  BY <1>1 DEF ListInv, OneSeries, Down
<1>2. CASE NewCall
  <2>1. made' = made + 1 /\ UNCHANGED <<feed, gets, series>>
    BY <1>2 DEF NewCall
  <2>2. made' \in Nat /\ made <= made'
    BY <2>1 DEF ListInv
  <2> QED
    BY <2>1, <2>2, SameList
<1>3. CASE EndReached
  BY <1>3, EndKeepsList
<1>4. CASE \E g \in gets : Reloaded(g) \/ GotMore(g) \/ PageFails(g)
  BY <1>4, ReloadKeeps, MoreKeeps, FailKeepsList
<1>5. CASE \/ \E q \in QuickPresets : QuickChange(q)
           \/ SearchFires \/ PullRefresh \/ ResetBar \/ ApplyAdvanced
  <2>1. \E f : LoadCalls(f)
    BY <1>5 DEF QuickChange, SearchFires, PullRefresh, ResetBar, ApplyAdvanced
  <2> QED
    BY <2>1, LoadKeeps
<1>6. CASE \/ \E t \in BOOLEAN : SearchChange(t)
           \/ OpenFilters \/ ResetStaged \/ CancelFilters \/ \E c \in Advanced : Stage(c)
  BY <1>1, <1>6 DEF SearchChange, OpenFilters, ResetStaged, CancelFilters, Stage
<1>7. CASE DetailNext
  BY <1>1, <1>7 DEF DetailNext, OpenDetail, CloseDetail, ReloadDetail, GotTranscript, DetailFails,
     TranscriptFails, GotDetail, LoadTranscript, UnfoldTranscript, PlayRecording, PlayerEnds,
     PlayerFails, feedVars
<1>8. CASE UNCHANGED <<feedVars, detVars>>
  BY <1>1, <1>8 DEF feedVars
<1> QED
  BY <1>2, <1>3, <1>4, <1>5, <1>6, <1>7, <1>8 DEF ListNext

\* However many calls come in between two pages, the pages of one series leave out no call
\* between the first and the last one shown, and show none twice,
\* for any page size and any number of calls.
THEOREM SeriesHasNoGap == FeedSpec => []NoGapNoRepeat
<1>1. ListInv => NoGapNoRepeat
  BY DEF ListInv, OneSeries, Down, NoGapNoRepeat
<1> QED
  BY <1>1, ListStart, ListStep, PTL DEF FeedSpec

----------------------------------------------------------------------------
(* The stream: one socket, and turns that only grow. *)

TurnsTyped ==
  /\ said \in [LiveCalls -> Nat]
  /\ DOMAIN srv = Socks /\ DOMAIN sock = Socks /\ \A s \in Socks : DOMAIN sock[s] = {"st", "tok"}
  /\ DOMAIN shows = {"connected", "active", "live"}
  /\ DOMAIN shows.live = {"c", "turns", "ended"}
  /\ shows.live.turns \in Seq(LiveCalls \X Nat)

OneSocket ==
  /\ ~twice => \A s, o \in Used(sock) : s = o
  /\ \A s \in Socks : current = <<s>> \/ srv[s] # "none" => s \in Used(sock)

\* The turns that are shown are of one call, in order, and were all said.
TurnsAreSaid ==
  LET t == shows.live.turns IN
  ~twice => /\ \A i \in 1 .. Len(t) : t[i][1] = shows.live.c /\ t[i][2] <= said[t[i][1]]
            /\ \A i \in 1 .. Len(t) - 1 : t[i][2] < t[i + 1][2]

LiveInv == TurnsTyped /\ OneSocket /\ TurnsAreSaid

LEMMA LiveStart == LiveInit => LiveInv
<1> SUFFICES ASSUME LiveInit PROVE LiveInv
  OBVIOUS
<1>1. shows = NotShown /\ shows.live = NoLive /\ shows.live.turns = <<>> /\ Used(sock) = {}
  BY DEF LiveInit, NotShown, NoLive, NoSock, Used
<1>2. TurnsTyped
  <2>1. DOMAIN NotShown = {"connected", "active", "live"} /\ DOMAIN NoLive = {"c", "turns", "ended"}
        /\ DOMAIN NoSock = {"st", "tok"}
    BY DEF NotShown, NoLive, NoSock
  <2>2. shows.live.turns \in Seq(LiveCalls \X Nat)
    BY <1>1
  <2> QED
    BY <1>1, <2>1, <2>2 DEF LiveInit, TurnsTyped
<1>3. OneSocket
  BY <1>1 DEF LiveInit, OneSocket, Used
<1> QED
  BY <1>1, <1>2, <1>3 DEF LiveInv, TurnsAreSaid

\* Sockets come one by one while they are told apart, and the current one is open.
LEMMA SocketsKeep ==
  ASSUME LiveInv, LiveNext
  PROVE  OneSocket' /\ DOMAIN srv' = Socks /\ DOMAIN sock' = Socks /\ (\A s \in Socks : DOMAIN sock'[s] = {"st", "tok"})
         /\ (twice => twice')
<1> USE DEF LiveInv, TurnsTyped, OneSocket, Used
<1>1. CASE TokenRead
  <2>1. CASE token = "none"
    BY <1>1, <2>1 DEF TokenRead
  <2>2. CASE token # "none"
    <3>1. PICK n : /\ sock' = [sock EXCEPT ![n] = [st |-> "opening", tok |-> token]]
                   /\ current' = <<n>> /\ twice' = (twice \/ Used(sock) # {})
      BY <1>1, <2>2 DEF TokenRead
    <3>2. \A s \in Socks : s # n => sock'[s] = sock[s]
      BY <3>1
    <3>3. n \in Socks => sock'[n] = [st |-> "opening", tok |-> token]
      BY <3>1
    <3>4. \A s \in Used(sock') : s = n \/ s \in Used(sock)
      BY <3>2
    <3>5. \A s \in Socks : current' = <<s>> => s = n
      BY <3>1
    <3>6. UNCHANGED srv
      BY <1>1 DEF TokenRead
    <3>7. ~twice' => \A s, o \in Used(sock') : s = o
      <4>1. ~twice' => Used(sock) = {}
        BY <3>1
      <4> QED
        BY <3>4, <4>1
    <3>8. \A s \in Socks : current' = <<s>> \/ srv'[s] # "none" => s \in Used(sock')
      <4> SUFFICES ASSUME NEW s \in Socks, current' = <<s>> \/ srv'[s] # "none"
                   PROVE  sock'[s].st # "none"
        OBVIOUS
      <4>1. CASE s = n
        BY <3>3, <4>1
      <4>2. CASE s # n
        <5>1. srv[s] # "none"
          BY <3>5, <3>6, <4>2
        <5>2. sock[s].st # "none"
          BY <5>1
        <5> QED
          BY <3>2, <4>2, <5>2
      <4> QED
        BY <4>1, <4>2
    <3>9. DOMAIN sock' = Socks /\ \A s \in Socks : DOMAIN sock'[s] = {"st", "tok"}
      BY <3>1, <3>2, <3>3
    <3>10. twice => twice'
      BY <3>1
    <3> QED
      BY <3>6, <3>7, <3>8, <3>9, <3>10
  <2> QED
    BY <2>1, <2>2
<1>2. CASE SignOut
  BY <1>2 DEF SignOut, Closing
<1>3. ASSUME NEW s \in Socks, Opens(s) PROVE OneSocket' /\ DOMAIN srv' = Socks /\ DOMAIN sock' = Socks
             /\ (\A o \in Socks : DOMAIN sock'[o] = {"st", "tok"}) /\ twice' = twice
  BY <1>3 DEF Opens
<1>4. ASSUME NEW s \in Socks, CloseEvent(s) PROVE OneSocket' /\ DOMAIN srv' = Socks /\ DOMAIN sock' = Socks
             /\ (\A o \in Socks : DOMAIN sock'[o] = {"st", "tok"}) /\ twice' = twice
  BY <1>4 DEF CloseEvent, Closed, NoSock
<1>5. ASSUME NEW s \in Socks, Fails(s) PROVE OneSocket' /\ DOMAIN srv' = Socks /\ DOMAIN sock' = Socks
             /\ (\A o \in Socks : DOMAIN sock'[o] = {"st", "tok"}) /\ twice' = twice
  <2>1. \A o \in Socks : sock'[o].st = "none" \/ o \in Used(sock)
    BY <1>5 DEF Fails, Closing, NoSock
  <2>2. DOMAIN srv' = Socks /\ DOMAIN sock' = Socks /\ \A o \in Socks : DOMAIN sock'[o] = {"st", "tok"}
    BY <1>5 DEF Fails, Closing, NoSock
  <2>3. current' = <<>> /\ twice' = twice /\ \A o \in Socks : srv'[o] # "none" => o # s /\ srv[o] # "none"
    BY <1>5 DEF Fails
  <2>4. \A o \in Socks : o # s /\ o \in Used(sock) => o \in Used(sock')
    BY <1>5 DEF Fails, Closing
  <2>5. \A o \in Socks : current' # <<o>>
    BY <2>3
  <2>6. ~twice' => \A o, q \in Used(sock') : o = q
    BY <2>1, <2>3
  <2>7. \A o \in Socks : current' = <<o>> \/ srv'[o] # "none" => o \in Used(sock')
    BY <2>3, <2>4, <2>5
  <2> QED
    BY <2>2, <2>3, <2>6, <2>7
<1>6. ASSUME NEW s \in Socks, Authenticated(s) PROVE OneSocket' /\ DOMAIN srv' = Socks /\ DOMAIN sock' = Socks
             /\ (\A o \in Socks : DOMAIN sock'[o] = {"st", "tok"}) /\ twice' = twice
  <2>1. UNCHANGED <<current, twice>> /\ DOMAIN srv' = Socks /\ DOMAIN sock' = Socks
        /\ \A o \in Socks : DOMAIN sock'[o] = {"st", "tok"}
    BY <1>6 DEF Authenticated
  <2>2. \A o \in Socks : srv'[o] # "none" => srv[o] # "none"
    BY <1>6 DEF Authenticated
  <2>3. s \in Used(sock)
    BY <1>6 DEF Authenticated
  <2>4. \A o \in Socks : sock'[o].st = sock[o].st \/ (o = s /\ sock'[o].st = "closing")
    BY <1>6 DEF Authenticated
  <2>5. Used(sock') = Used(sock)
    BY <2>3, <2>4
  <2> QED
    BY <2>1, <2>2, <2>5
<1>7. ASSUME UNCHANGED <<sock, srv, current, twice>> PROVE OneSocket' /\ DOMAIN srv' = Socks /\ DOMAIN sock' = Socks
             /\ (\A o \in Socks : DOMAIN sock'[o] = {"st", "tok"}) /\ twice' = twice
  BY <1>7
<1> QED
  BY <1>1, <1>2, <1>3, <1>4, <1>5, <1>6, <1>7
  DEF LiveNext, TimerFires, SignIn, Token, Network, CallStarts, Turn, CallEnds, Unsaid

\* A turn is heard by at most one socket, and comes after all that were said.
LEMMA OneListener ==
  ASSUME OneSocket, ~twice
  PROVE  Listeners = {} \/ (Listeners # {} /\ Cardinality(Listeners) = 1)
<1>1. Listeners \subseteq Used(sock)
  BY DEF Listeners, Used
<1>2. CASE Listeners # {}
  <2>1. PICK s : s \in Listeners
    BY <1>2
  <2>2. Listeners = {s}
    BY <1>1, <2>1 DEF OneSocket
  <2> QED
    BY <1>2, <2>2, FS_Singleton
<1> QED
  BY <1>2

LEMMA WithTurnTyped ==
  ASSUME NEW c \in LiveCalls, NEW n \in Nat, NEW v,
         DOMAIN v = {"connected", "active", "live"}, DOMAIN v.live = {"c", "turns", "ended"},
         v.live.turns \in Seq(LiveCalls \X Nat), NEW w, w = WithTurn(v, c, n)
  PROVE  /\ DOMAIN w = {"connected", "active", "live"} /\ DOMAIN w.live = {"c", "turns", "ended"}
         /\ w.live.turns \in Seq(LiveCalls \X Nat)
         /\ w.live.c = c
         /\ w.live.turns = IF v.live.c = c THEN Append(v.live.turns, <<c, n>>) ELSE <<<<c, n>>>>
<1> SUFFICES LET x == WithTurn(v, c, n) IN
             /\ DOMAIN x = {"connected", "active", "live"} /\ DOMAIN x.live = {"c", "turns", "ended"}
             /\ x.live.turns \in Seq(LiveCalls \X Nat)
             /\ x.live.c = c
             /\ x.live.turns = IF v.live.c = c THEN Append(v.live.turns, <<c, n>>) ELSE <<<<c, n>>>>
  OBVIOUS
<1>1. CASE v.live.c = c
  <2> DEFINE t == Append(v.live.turns, <<c, n>>)
  <2>1. t \in Seq(LiveCalls \X Nat)
    OBVIOUS
  <2> HIDE DEF t
  <2>2. WithTurn(v, c, n) = [v EXCEPT !.live.turns = t]
    BY <1>1 DEF WithTurn, t
  <2> QED
    BY <1>1, <2>1, <2>2 DEF t
<1>2. CASE v.live.c # c
  <2>1. WithTurn(v, c, n) = [v EXCEPT !.live = [c |-> c, turns |-> <<<<c, n>>>>, ended |-> FALSE]]
    BY <1>2 DEF WithTurn
  <2> DEFINE r == [c |-> c, turns |-> <<<<c, n>>>>, ended |-> FALSE]
  <2>2. DOMAIN r = {"c", "turns", "ended"} /\ r.c = c /\ r.turns = <<<<c, n>>>>
    OBVIOUS
  <2>3. <<<<c, n>>>> \in Seq(LiveCalls \X Nat)
    OBVIOUS
  <2> HIDE DEF r
  <2>4. WithTurn(v, c, n) = [v EXCEPT !.live = r]
    BY <2>1 DEF r
  <2>5. [v EXCEPT !.live = r].live = r
    OBVIOUS
  <2>6. DOMAIN [v EXCEPT !.live = r] = {"connected", "active", "live"}
    OBVIOUS
  <2> QED
    BY <1>2, <2>2, <2>3, <2>4, <2>5, <2>6
<1> QED
  BY <1>1, <1>2

LEMMA TurnKeeps ==
  ASSUME LiveInv, NEW c \in LiveCalls, Turn(c)
  PROVE  TurnsTyped' /\ TurnsAreSaid'
<1> DEFINE n == said[c] + 1
<1>1. said[c] \in Nat /\ said' = [said EXCEPT ![c] = n] /\ said'[c] = n
      /\ \A o \in LiveCalls : said'[o] \in Nat /\ said[o] <= said'[o]
  BY DEF LiveInv, TurnsTyped, Turn
<1>2. said' \in [LiveCalls -> Nat]
  BY <1>1 DEF LiveInv, TurnsTyped
<1>3. UNCHANGED <<sock, srv, twice>>
  BY DEF Turn, Unsaid
<1>0. PICK v, w : v = WithTurn(shows, c, n) /\ w = WithTurn(v, c, n)
  OBVIOUS
<1>4. shows' \in {shows, v, w}
  BY <1>0, <1>1 DEF Turn
<1>5. n \in Nat
  BY <1>1
<1> HIDE DEF n
<1>a. TurnsTyped /\ DOMAIN shows = {"connected", "active", "live"}
      /\ DOMAIN shows.live = {"c", "turns", "ended"} /\ shows.live.turns \in Seq(LiveCalls \X Nat)
  BY DEF LiveInv, TurnsTyped
<1>b. /\ DOMAIN v = {"connected", "active", "live"} /\ DOMAIN v.live = {"c", "turns", "ended"}
      /\ v.live.turns \in Seq(LiveCalls \X Nat) /\ v.live.c = c
      /\ v.live.turns = IF shows.live.c = c THEN Append(shows.live.turns, <<c, n>>) ELSE <<<<c, n>>>>
  <2>1. PICK x : x = shows
    OBVIOUS
  <2>2. /\ DOMAIN x = {"connected", "active", "live"} /\ DOMAIN x.live = {"c", "turns", "ended"}
        /\ x.live.turns \in Seq(LiveCalls \X Nat)
    BY <1>a, <2>1
  <2>3. v = WithTurn(x, c, n)
    BY <1>0, <2>1
  <2>4. /\ DOMAIN v = {"connected", "active", "live"} /\ DOMAIN v.live = {"c", "turns", "ended"}
        /\ v.live.turns \in Seq(LiveCalls \X Nat) /\ v.live.c = c
        /\ v.live.turns = IF x.live.c = c THEN Append(x.live.turns, <<c, n>>) ELSE <<<<c, n>>>>
    BY <1>5, <2>2, <2>3, WithTurnTyped
  <2> QED
    BY <2>1, <2>4
<1>6. TurnsTyped'
  <2>1. /\ DOMAIN v = {"connected", "active", "live"} /\ DOMAIN v.live = {"c", "turns", "ended"}
        /\ v.live.turns \in Seq(LiveCalls \X Nat)
    BY <1>b
  <2>2. /\ DOMAIN w = {"connected", "active", "live"} /\ DOMAIN w.live = {"c", "turns", "ended"}
        /\ w.live.turns \in Seq(LiveCalls \X Nat)
    <3>1. w = WithTurn(v, c, n)
      BY <1>0
    <3>2. /\ DOMAIN w = {"connected", "active", "live"} /\ DOMAIN w.live = {"c", "turns", "ended"}
          /\ w.live.turns \in Seq(LiveCalls \X Nat) /\ w.live.c = c
          /\ w.live.turns = IF v.live.c = c THEN Append(v.live.turns, <<c, n>>) ELSE <<<<c, n>>>>
      BY <1>5, <2>1, <3>1, WithTurnTyped, SMTT(30)
    <3> QED
      BY <3>2
  <2> QED
    BY <1>2, <1>3, <1>4, <2>1, <2>2 DEF LiveInv, TurnsTyped
<1>7. ASSUME ~twice PROVE TurnsAreSaid'
  <2>1. shows' \in {shows, v}
    <3>1. Listeners = {} \/ (Listeners # {} /\ Cardinality(Listeners) = 1)
      BY <1>7, OneListener DEF LiveInv
    <3>2. Cardinality({}) = 0
      BY FS_EmptySet
    <3> QED
      BY <1>0, <1>1, <3>1, <3>2 DEF Turn, n
  <2> DEFINE t == shows.live.turns
  <2>2. t \in Seq(LiveCalls \X Nat) /\ Len(t) \in Nat
    BY DEF LiveInv, TurnsTyped
  <2>3. \A i \in 1 .. Len(t) : t[i] \in LiveCalls \X Nat
    BY <2>2
  <2>4. \A i \in 1 .. Len(t) : t[i][1] = shows.live.c /\ t[i][2] <= said[t[i][1]] /\ t[i][1] \in LiveCalls /\ t[i][2] \in Nat
    BY <1>7, <2>3 DEF LiveInv, TurnsAreSaid
  <2>5. \A i \in 1 .. Len(t) - 1 : t[i][2] < t[i + 1][2]
    BY <1>7 DEF LiveInv, TurnsAreSaid
  <2>6. \A i \in 1 .. Len(t) : t[i][2] <= said'[t[i][1]]
    BY <1>1, <2>4 DEF LiveInv, TurnsTyped
  <2>7. CASE shows' = shows
    BY <2>4, <2>5, <2>6, <2>7 DEF TurnsAreSaid
  <2>8. CASE shows' = v /\ shows.live.c # c
    <3>1. shows'.live.turns = <<<<c, n>>>> /\ shows'.live.c = c
      BY <1>b, <2>8
    <3> QED
      BY <1>1, <1>5, <3>1 DEF TurnsAreSaid
  <2>9. CASE shows' = v /\ shows.live.c = c
    <3>1. shows'.live.turns = Append(t, <<c, n>>) /\ shows'.live.c = c
      BY <1>b, <2>9
    <3> DEFINE u == Append(t, <<c, n>>)
    <3>2. Len(u) = Len(t) + 1 /\ u[Len(u)] = <<c, n>> /\ \A i \in 1 .. Len(t) : u[i] = t[i]
      BY <2>2
    <3> HIDE DEF u
    <3>3. \A i \in 1 .. Len(u) : i \in 1 .. Len(t) \/ i = Len(u)
      BY <2>2, <3>2
    <3>4. ASSUME NEW i \in 1 .. Len(u) PROVE u[i][1] = c /\ u[i][2] <= said'[u[i][1]]
      <4>1. CASE i \in 1 .. Len(t)
        BY <2>4, <2>6, <2>9, <3>2, <4>1
      <4>2. CASE i = Len(u)
        BY <1>1, <1>5, <3>2, <4>2
      <4> QED
        BY <3>3, <4>1, <4>2
    <3>5. ASSUME NEW i \in 1 .. Len(u) - 1 PROVE u[i][2] < u[i + 1][2]
      <4>1. CASE i + 1 \in 1 .. Len(t)
        <5>1. i \in 1 .. Len(t) - 1 /\ i \in 1 .. Len(t)
          BY <2>2, <3>2, <4>1
        <5>2. t[i][2] < t[i + 1][2] /\ u[i] = t[i] /\ u[i + 1] = t[i + 1]
          BY <2>5, <3>2, <4>1, <5>1
        <5> QED
          BY <5>2
      <4>2. CASE i + 1 = Len(u)
        <5>1. i = Len(t) /\ i \in 1 .. Len(t) /\ u[i] = t[i]
          BY <2>2, <3>2, <4>2
        <5>2. t[i][2] <= said[c] /\ t[i][2] \in Nat
          BY <2>4, <2>9, <5>1
        <5>3. u[i + 1][2] = n
          BY <3>2, <4>2
        <5>4. said[c] \in Nat /\ n = said[c] + 1
          BY <1>1 DEF n
        <5> QED
          BY <5>1, <5>2, <5>3, <5>4
      <4>3. i + 1 \in 1 .. Len(u)
        BY <2>2, <3>2, SMTT(30)
      <4> QED
        BY <3>3, <4>1, <4>2, <4>3
    <3> QED
      BY <2>9, <3>1, <3>4, <3>5 DEF TurnsAreSaid, u
  <2> QED
    BY <2>1, <2>7, <2>8, <2>9
<1> QED
  BY <1>3, <1>6, <1>7 DEF TurnsAreSaid

\* What else changes the store leaves the turns alone, or takes them all.
LEMMA OthersKeepTurns ==
  ASSUME LiveInv, LiveNext, UNCHANGED said
  PROVE  /\ DOMAIN shows' = {"connected", "active", "live"}
         /\ DOMAIN shows'.live = {"c", "turns", "ended"}
         /\ \/ shows'.live.turns = shows.live.turns /\ shows'.live.c = shows.live.c
            \/ shows'.live.turns = <<>>
<1> USE DEF LiveInv, TurnsTyped
<1>1. CASE UNCHANGED shows
  BY <1>1
<1>2. CASE SignOut
  BY <1>2 DEF SignOut, NotShown, NoLive
<1>3. ASSUME NEW x, shows' = [shows EXCEPT !.connected = x] \/ shows' = [shows EXCEPT !.active = x]
      PROVE  DOMAIN shows' = DOMAIN shows /\ shows'.live = shows.live
  BY <1>3
<1>4. CASE shows' = HungUp(shows)
  BY <1>4 DEF HungUp
<1>5. \A c \in LiveCalls : ~Turn(c)
  BY DEF Turn
<1> QED
  BY <1>1, <1>2, <1>3, <1>4, <1>5
  DEF LiveNext, TokenRead, TimerFires, SignIn, Token, Network, CallStarts, CallEnds, Started,
      Opens, CloseEvent, Closed, Fails, Authenticated

THEOREM LiveStep == LiveInv /\ [LiveNext]_liveVars => LiveInv'
<1> SUFFICES ASSUME LiveInv, [LiveNext]_liveVars PROVE LiveInv'
  OBVIOUS
<1>1. CASE UNCHANGED liveVars
  BY <1>1 DEF liveVars, LiveInv, TurnsTyped, OneSocket, TurnsAreSaid, Used
<1>2. ASSUME NEW c \in LiveCalls, Turn(c) PROVE LiveInv'
  BY <1>2, TurnKeeps, SocketsKeep DEF LiveInv, LiveNext
<1>3. CASE LiveNext /\ UNCHANGED said
  <2>1. OneSocket' /\ DOMAIN srv' = Socks /\ DOMAIN sock' = Socks
        /\ (\A s \in Socks : DOMAIN sock'[s] = {"st", "tok"}) /\ (twice => twice')
    BY <1>3, SocketsKeep
  <2>2. \/ shows'.live.turns = shows.live.turns /\ shows'.live.c = shows.live.c
        \/ shows'.live.turns = <<>>
    BY <1>3, OthersKeepTurns
  <2>3. TurnsTyped'
    <3>1. DOMAIN shows' = {"connected", "active", "live"} /\ DOMAIN shows'.live = {"c", "turns", "ended"}
      BY <1>3, OthersKeepTurns
    <3>2. <<>> \in Seq(LiveCalls \X Nat)
      OBVIOUS
    <3>3. shows'.live.turns \in Seq(LiveCalls \X Nat)
      BY <2>2, <3>2 DEF LiveInv, TurnsTyped
    <3>4. said' \in [LiveCalls -> Nat]
      BY <1>3 DEF LiveInv, TurnsTyped
    <3> QED
      BY <2>1, <3>1, <3>3, <3>4 DEF TurnsTyped
  <2>4. TurnsAreSaid'
    BY <1>3, <2>1, <2>2, SMTT(30) DEF LiveInv, TurnsAreSaid
  <2> QED
    BY <2>1, <2>3, <2>4 DEF LiveInv
<1>4. LiveNext /\ (\A c \in LiveCalls : ~Turn(c)) => UNCHANGED said
  BY DEF LiveNext, TokenRead, TimerFires, SignIn, SignOut, Token, Network, CallStarts, CallEnds,
         Opens, CloseEvent, Fails, Authenticated
<1> QED
  BY <1>1, <1>2, <1>3, <1>4

\* Each turn shows once and in order on the live screen, unless the app had two sockets at a
\* time (realtimeStore.ts, userEvents.ts).
THEOREM TurnsShowOnce == LiveSpec => []TurnsOnce
<1>1. LiveInv => TurnsOnce
  <2> SUFFICES ASSUME LiveInv, ~twice, NEW c \in LiveCalls, NEW t, t = LiveTurns(c)
               PROVE  /\ \A i \in 1 .. Len(t) : t[i][1] = c
                      /\ \A i \in 1 .. Len(t) - 1 : t[i][2] < t[i + 1][2]
    BY DEF TurnsOnce
  <2>1. CASE shows.live.c = c
    BY <2>1 DEF LiveInv, TurnsAreSaid, LiveTurns
  <2>2. CASE shows.live.c # c
    BY <2>2 DEF LiveTurns
  <2> QED
    BY <2>1, <2>2
<1> QED
  BY <1>1, LiveStart, LiveStep, PTL DEF LiveSpec

----------------------------------------------------------------------------
(* The lists of callers. *)

Rows == [vip : BOOLEAN, block : BOOLEAN, spam : BOOLEAN, flags : Nat, auto : BOOLEAN,
         con : {"none", "live", "deleted"}, cvip : BOOLEAN, cblk : BOOLEAN]

\* What the API is asked for, and what runs.
Asked(ph) == [op : Ops, n : Numbers, ph : {ph}, saw : Rows, v : BOOLEAN, b : BOOLEAN,
              what : {"entry", "contact"}]
Requests == Asked("idle")
Looked   == Asked("looked")

Typed ==
  /\ rows \in [Numbers -> Rows]
  /\ mixed \subseteq Numbers
  /\ \A s \in Slots : Running(s) => tx[s] \in Looked
  /\ DOMAIN tx = Slots

\* A number whose requests came one after the other.
Alone(n) ==
  /\ \A s, o \in Slots : Running(s) /\ Running(o) /\ tx[s].n = n /\ tx[o].n = n => s = o
  /\ \A s \in Slots : Running(s) /\ tx[s].n = n => tx[s].saw = rows[n]

Apart(r) == ~(r.vip /\ r.block)

ListsInv ==
  /\ Typed
  /\ \A n \in Numbers \ mixed : Alone(n) /\ Apart(rows[n])

----------------------------------------------------------------------------
(* What a request makes of the rows it looked at. *)

LEMMA AnswersEnd ==
  /\ NoTx.ph = "idle"
  /\ \A t, ph : Answered(t, ph).ph = ph
BY DEF NoTx, Answered

LEMMA NoRowIsTyped == NoRow \in Rows /\ Apart(NoRow)
BY DEF NoRow, Rows, Apart

LEMMA ContactKeepsLists ==
  ASSUME NEW r \in Rows, NEW v \in BOOLEAN, NEW b \in BOOLEAN
  PROVE  Contact(r, v, b) \in Rows /\ Contact(r, v, b).vip = r.vip /\ Contact(r, v, b).block = r.block
BY DEF Contact, Rows

LEMMA NoSpamKeepsLists ==
  ASSUME NEW r \in Rows, NEW w \in Rows
  PROVE  NoSpam(r, w) \in Rows /\ NoSpam(r, w).vip = r.vip /\ NoSpam(r, w).block = r.block
<1>1. Deleted(r.spam, w.spam) \in BOOLEAN /\ Deleted(r.auto, w.spam) \in BOOLEAN
  BY DEF Deleted
<1>2. (IF w.spam THEN 0 ELSE r.flags) \in Nat
  BY DEF Rows
<1>3. NoSpam(r, w) \in Rows
  BY <1>1, <1>2 DEF NoSpam, Rows
<1> QED
  BY <1>3 DEF NoSpam, Rows

LEMMA AfterIsTyped ==
  ASSUME NEW t \in Looked, NEW r \in Rows
  PROVE  After(t, r) \in Rows
<1> DEFINE s == t.saw
<1>1. t.op \in Ops /\ s \in Rows /\ t.v \in BOOLEAN /\ t.b \in BOOLEAN
  BY DEF Looked, Asked
<1> HIDE DEF s
<1>2. \A v, b \in BOOLEAN, x \in Rows : Contact(x, v, b) \in Rows
  BY ContactKeepsLists
<1>3. \A x \in Rows : NoSpam(x, s) \in Rows
  BY <1>1, NoSpamKeepsLists
<1>4. /\ [r EXCEPT !.vip = Inserted(r.vip, s.vip), !.block = Deleted(r.block, s.block)] \in Rows
      /\ [r EXCEPT !.block = Inserted(r.block, s.block), !.vip = Deleted(r.vip, s.vip)] \in Rows
      /\ [r EXCEPT !.vip = Deleted(r.vip, s.vip)] \in Rows
      /\ [r EXCEPT !.block = Deleted(r.block, s.block)] \in Rows
  BY <1>1, ZenonT(60) DEF Inserted, Deleted, Rows
<1>5. r.cvip \in BOOLEAN /\ r.cblk \in BOOLEAN
  BY DEF Rows
<1>6. MadeVip(r, s) \in Rows
  BY <1>2, <1>3, <1>4 DEF MadeVip
<1>7. NoVip(r, s) \in Rows /\ NoBlock(r, s) \in Rows
  BY <1>2, <1>4, <1>5 DEF NoVip, NoBlock
<1>8. MadeBlocked(r, s) \in Rows
  BY <1>2, <1>4 DEF MadeBlocked
<1>9. Unmarked(r, s) \in Rows
  BY <1>3, <1>7 DEF Unmarked
<1>10. AddedSpam(r, s) \in Rows
  <2> DEFINE x == [r EXCEPT !.spam = TRUE, !.flags = 0, !.auto = FALSE]
  <2>1. x \in Rows /\ [x EXCEPT !.vip = Deleted(x.vip, s.vip)] \in Rows /\ x.cblk \in BOOLEAN
    BY DEF Rows, Deleted
  <2> HIDE DEF x
  <2>2. NoVip(x, s) \in Rows
    BY <1>2, <2>1 DEF NoVip
  <2> QED
    BY <2>2 DEF AddedSpam, x
<1>11. RemovedVip(r, s, t.what) \in Rows /\ RemovedBlock(r, s, t.what) \in Rows
  <2>1. [r EXCEPT !.cvip = FALSE] \in Rows /\ [r EXCEPT !.cblk = FALSE] \in Rows
    BY DEF Rows
  <2> QED
    BY <1>7, <2>1 DEF RemovedVip, RemovedBlock
<1>12. Created(r, t.v, t.b) \in Rows
  BY <1>1 DEF Created, Rows
<1>13. Updated(r, s, t.v, t.b) \in Rows
  <2>1. Assigned(r.cvip, s.cvip, t.v) \in BOOLEAN /\ Assigned(r.cblk, s.cblk, t.b /\ ~t.v) \in BOOLEAN
    BY <1>1, <1>5 DEF Assigned
  <2>2. (IF t.b /\ ~t.v THEN Inserted(r.block, s.block) ELSE Deleted(r.block, s.block)) \in BOOLEAN
    BY DEF Inserted, Deleted
  <2>3. (IF t.v THEN Inserted(r.vip, s.vip) ELSE Deleted(r.vip, s.vip)) \in BOOLEAN
    BY DEF Inserted, Deleted
  <2> QED
    BY <2>1, <2>2, <2>3, ZenonT(60) DEF Updated, Rows
<1>14. Flagged(r, s, t.b) \in Rows
  <2> DEFINE k     == IF s.flags < Threshold THEN s.flags + 1 ELSE Threshold
             block == t.b /\ k >= Threshold /\ ~s.auto
  <2>1. k \in Nat
    BY <1>1, ThresholdAssumption DEF Rows
  <2>2. (block \/ s.auto) \in BOOLEAN
    OBVIOUS
  <2>3. (IF block THEN Inserted(r.block, s.block) ELSE r.block) \in BOOLEAN
    BY DEF Inserted, Rows
  <2> HIDE DEF k, block
  <2>4. [r EXCEPT !.spam = TRUE, !.flags = k, !.auto = block \/ s.auto,
                  !.block = IF block THEN Inserted(r.block, s.block) ELSE r.block] \in Rows
    BY <2>1, <2>2, <2>3 DEF Rows
  <2> QED
    BY <2>4 DEF Flagged, k, block
<1>15. [r EXCEPT !.con = "deleted"] \in Rows
  BY DEF Rows
<1>16. NoSpam(MadeBlocked(r, s), s) \in Rows
  BY <1>3, <1>8
<1> QED
  BY <1>1, <1>6, <1>7, <1>8, <1>9, <1>10, <1>11, <1>12, <1>13, <1>14, <1>15, <1>16
  DEF After, s, Ops, MarkOps, ListOps, ContactOps

\* Each endpoint clears the list that its own entry excludes, if what it looked at is so.
LEMMA AfterIsApart ==
  ASSUME NEW t \in Looked, Apart(t.saw)
  PROVE  Apart(After(t, t.saw))
<1> DEFINE r == t.saw
<1>1. t.op \in Ops /\ r \in Rows
  BY DEF Looked, Asked
<1> HIDE DEF r
<1>2. Apart(r)
  BY DEF r
<1>3. \A x \in Rows, v, b \in BOOLEAN :
        Contact(x, v, b) \in Rows /\ Contact(x, v, b).vip = x.vip /\ Contact(x, v, b).block = x.block
  BY ContactKeepsLists
<1>4. \A x \in Rows : NoSpam(x, r) \in Rows /\ NoSpam(x, r).vip = x.vip /\ NoSpam(x, r).block = x.block
  BY <1>1, NoSpamKeepsLists
<1>5. /\ r.vip \in BOOLEAN /\ r.block \in BOOLEAN /\ r.cvip \in BOOLEAN /\ r.cblk \in BOOLEAN
  BY <1>1 DEF Rows
<1> DEFINE vip   == [r EXCEPT !.vip = Inserted(r.vip, r.vip), !.block = Deleted(r.block, r.block)]
           block == [r EXCEPT !.block = Inserted(r.block, r.block), !.vip = Deleted(r.vip, r.vip)]
           plain == [r EXCEPT !.vip = Deleted(r.vip, r.vip)]
           free  == [r EXCEPT !.block = Deleted(r.block, r.block)]
<1>6. vip \in Rows /\ block \in Rows /\ plain \in Rows /\ free \in Rows
  BY <1>1 DEF Inserted, Deleted, Rows
<1>7. ~vip.block /\ ~block.vip /\ ~plain.vip /\ ~free.block
  BY <1>1 DEF Deleted, Rows
<1> HIDE DEF vip, block, plain, free
<1>8. ~MadeVip(r, r).block
  <2>1. NoSpam(vip, r) \in Rows /\ ~NoSpam(vip, r).block
    BY <1>4, <1>6, <1>7
  <2>2. ~Contact(NoSpam(vip, r), TRUE, FALSE).block
    BY <1>3, <2>1
  <2> QED
    BY <2>2 DEF MadeVip, vip
<1>9. ~MadeBlocked(r, r).vip /\ ~NoSpam(MadeBlocked(r, r), r).vip
  <2>1. Contact(block, FALSE, TRUE) \in Rows /\ ~Contact(block, FALSE, TRUE).vip
    BY <1>3, <1>6, <1>7
  <2>2. MadeBlocked(r, r) = Contact(block, FALSE, TRUE)
    BY DEF MadeBlocked, block
  <2> QED
    BY <1>4, <2>1, <2>2
<1>10. ~NoVip(r, r).vip
  BY <1>3, <1>5, <1>6, <1>7 DEF NoVip, plain
<1>11. ~NoBlock(r, r).block /\ ~Unmarked(r, r).block
  <2>1. Contact(free, r.cvip, FALSE) \in Rows /\ ~Contact(free, r.cvip, FALSE).block
    BY <1>3, <1>5, <1>6, <1>7
  <2>2. NoBlock(r, r) = Contact(free, r.cvip, FALSE)
    BY DEF NoBlock, free
  <2> QED
    BY <1>4, <2>1, <2>2 DEF Unmarked
<1>12. ~AddedSpam(r, r).vip
  <2> DEFINE x == [r EXCEPT !.spam = TRUE, !.flags = 0, !.auto = FALSE]
  <2>1. [x EXCEPT !.vip = Deleted(x.vip, r.vip)] \in Rows /\ x.cblk \in BOOLEAN
        /\ ~[x EXCEPT !.vip = Deleted(x.vip, r.vip)].vip
    BY <1>1 DEF Rows, Deleted
  <2> HIDE DEF x
  <2>2. ~NoVip(x, r).vip
    BY <1>3, <2>1 DEF NoVip
  <2> QED
    BY <2>2 DEF AddedSpam, x
<1>13. Apart(RemovedVip(r, r, t.what)) /\ Apart(RemovedBlock(r, r, t.what))
  <2>1. Apart([r EXCEPT !.cvip = FALSE]) /\ Apart([r EXCEPT !.cblk = FALSE])
    BY <1>1, <1>2 DEF Apart, Rows
  <2> QED
    BY <1>10, <1>11, <2>1 DEF RemovedVip, RemovedBlock, Apart
<1>14. Apart(Created(r, t.v, t.b))
  BY <1>1, <1>2 DEF Apart, Created, Rows
<1>15. Apart(Updated(r, r, t.v, t.b))
  BY <1>1 DEF Apart, Updated, Inserted, Deleted, Rows
<1>16. Apart(Flagged(r, r, t.b))
  BY <1>1, <1>2 DEF Apart, Flagged, Rows
<1>17. Apart([r EXCEPT !.con = "deleted"])
  BY <1>1, <1>2 DEF Apart, Rows
<1> QED
  BY <1>1, <1>8, <1>9, <1>10, <1>11, <1>12, <1>13, <1>14, <1>15, <1>16, <1>17
  DEF After, Apart, r, Ops, MarkOps, ListOps, ContactOps

\* An unblock from a call, or from the spam list, clears all that rejects a call.
LEMMA UnmarkedIsHeard ==
  ASSUME NEW r \in Rows
  PROVE  ~Rejected(Unmarked(r, r))
<1> DEFINE free == [r EXCEPT !.block = Deleted(r.block, r.block)]
<1>1. free \in Rows /\ ~free.block /\ r.cvip \in BOOLEAN
  BY DEF Rows, Deleted
<1> HIDE DEF free
<1> DEFINE c == Contact(free, r.cvip, FALSE)
<1>2. c \in Rows /\ ~c.block /\ c.spam = free.spam /\ (c.con = "live" => ~c.cblk)
  BY <1>1 DEF Contact, Rows
<1>3. free.spam = r.spam
  BY DEF free, Rows
<1> HIDE DEF c
<1>4. NoSpam(c, r) \in Rows /\ NoSpam(c, r).block = c.block /\ ~NoSpam(c, r).spam
      /\ NoSpam(c, r).con = c.con /\ NoSpam(c, r).cblk = c.cblk
  <2>1. ~Deleted(c.spam, r.spam)
    BY <1>2, <1>3 DEF Deleted
  <2>2. NoSpam(c, r).spam = Deleted(c.spam, r.spam)
        /\ NoSpam(c, r).con = c.con /\ NoSpam(c, r).cblk = c.cblk
    BY <1>2 DEF NoSpam, Rows
  <2> QED
    BY <1>2, <2>1, <2>2, NoSpamKeepsLists
<1>5. Unmarked(r, r) = NoSpam(c, r)
  BY DEF Unmarked, NoBlock, free, c
<1> QED
  BY <1>2, <1>4, <1>5 DEF Rejected

----------------------------------------------------------------------------
(* The invariant. *)

THEOREM ListsStart == ListsInit => ListsInv
<1> SUFFICES ASSUME ListsInit PROVE ListsInv
  OBVIOUS
<1>1. \A s \in Slots : ~Running(s)
  BY DEF ListsInit, Running, NoTx
<1>2. \A n \in Numbers : rows[n] = NoRow
  BY DEF ListsInit
<1> QED
  BY <1>1, <1>2, NoRowIsTyped DEF ListsInit, ListsInv, Typed, Alone

\* A request that starts either finds its number quiet, or the number is known as mixed.
LEMMA BeginKeeps ==
  ASSUME ListsInv, NEW s \in Slots, NEW t \in Requests, Begin(s, t)
  PROVE  ListsInv'
<1>1. t.n \in Numbers /\ rows[t.n] \in Rows
  BY DEF ListsInv, Typed, Requests, Asked
<1>2. ~Running(s) /\ rows' = rows /\ DOMAIN tx = Slots /\ DOMAIN tx' = Slots
  BY DEF Begin, Idle, Running, ListsInv, Typed
<1>3. \A o \in Slots : o # s => tx'[o] = tx[o]
  BY <1>2 DEF Begin
<1>4. tx'[s].ph = "looked" => tx'[s] = [t EXCEPT !.saw = rows[t.n], !.ph = "looked"]
  BY <1>2 DEF Begin, Answered, NoTx
<1>5. mixed \subseteq mixed' /\ mixed' \subseteq mixed \cup {t.n}
  BY DEF Begin
<1>6. (\E o \in Slots \ {s} : Running(o) /\ tx[o].n = t.n) => t.n \in mixed'
  BY DEF Begin
<1>7. Typed'
  <2>1. ASSUME tx'[s].ph = "looked"
        PROVE  tx'[s] \in Looked
    BY <1>1, <1>4, <2>1 DEF Requests, Looked, Asked
  <2> QED
    BY <1>1, <1>2, <1>3, <1>5, <2>1 DEF ListsInv, Typed, Running
<1>8. ASSUME NEW n \in Numbers \ mixed' PROVE Alone(n)' /\ Apart(rows'[n])
  <2>1. Alone(n) /\ Apart(rows[n])
    BY <1>5, <1>8 DEF ListsInv
  <2>2. \A o \in Slots : o # s => (Running(o)' <=> Running(o))
    BY <1>3 DEF Running
  <2>3. Running(s)' => tx'[s].n = t.n /\ tx'[s].saw = rows[t.n]
    BY <1>1, <1>4 DEF Running, Requests, Asked
  <2>4. t.n = n => \A o \in Slots : o # s /\ Running(o) => tx[o].n # n
    BY <1>6, <1>8
  <2> QED
    BY <1>2, <1>3, <2>1, <2>2, <2>3, <2>4 DEF Alone
<1> QED
  BY <1>7, <1>8 DEF ListsInv

\* What a transaction that is alone with its number commits is made of the rows it saw.
LEMMA EndKeeps ==
  ASSUME ListsInv, NEW s \in Slots, CommitTx(s) \/ AbortTx(s) \/ Close(s)
  PROVE  ListsInv'
<1>1. ~Running(s)' /\ DOMAIN tx' = Slots /\ DOMAIN tx = Slots
  <2>1. DOMAIN tx = Slots
    BY DEF ListsInv, Typed
  <2>2. \E t, ph : ph \in {"ok", "refused"} /\ tx' \in {[tx EXCEPT ![s] = Answered(t, ph)], [tx EXCEPT ![s] = NoTx]}
    BY DEF CommitTx, AbortTx, Close
  <2> QED
    BY <2>1, <2>2, AnswersEnd DEF Running
<1>2. \A o \in Slots : o # s => tx'[o] = tx[o]
  BY <1>1 DEF CommitTx, AbortTx, Close
<1>3. mixed' = mixed
  BY DEF CommitTx, AbortTx, Close
<1>4. rows' = rows \/ (Running(s) /\ rows' = [rows EXCEPT ![tx[s].n] = After(tx[s], rows[tx[s].n])])
  BY DEF CommitTx, AbortTx, Close
<1>5. ASSUME Running(s)
      PROVE  /\ tx[s].n \in Numbers
             /\ After(tx[s], rows[tx[s].n]) \in Rows
             /\ tx[s].saw = rows[tx[s].n] /\ Apart(tx[s].saw) => Apart(After(tx[s], rows[tx[s].n]))
  <2>1. tx[s] \in Looked
    BY <1>5 DEF ListsInv, Typed
  <2>2. tx[s].n \in Numbers
    BY <2>1 DEF Looked, Asked
  <2>3. rows[tx[s].n] \in Rows
    BY <2>2 DEF ListsInv, Typed
  <2>4. After(tx[s], rows[tx[s].n]) \in Rows
    BY <2>1, <2>3, AfterIsTyped
  <2>5. Apart(tx[s].saw) => Apart(After(tx[s], tx[s].saw))
    BY <2>1, AfterIsApart
  <2> QED
    BY <2>2, <2>4, <2>5
<1>6. Typed'
  <2>1. rows' \in [Numbers -> Rows]
    BY <1>4, <1>5 DEF ListsInv, Typed
  <2> QED
    BY <1>1, <1>2, <1>3, <2>1 DEF ListsInv, Typed, Running
<1>7. ASSUME NEW n \in Numbers \ mixed' PROVE Alone(n)' /\ Apart(rows'[n])
  <2>1. Alone(n) /\ Apart(rows[n])
    BY <1>3, <1>7 DEF ListsInv
  <2>2. rows'[n] = rows[n] \/ (Running(s) /\ tx[s].n = n /\ rows'[n] = After(tx[s], rows[n]))
    BY <1>4, <1>5, <1>7 DEF ListsInv, Typed
  <2>3. Apart(rows'[n])
    BY <1>5, <2>1, <2>2 DEF Alone
  <2>4. ASSUME NEW o \in Slots, Running(o)', tx'[o].n = n PROVE tx'[o].saw = rows'[n]
    <3>1. o # s /\ Running(o) /\ tx'[o] = tx[o]
      BY <1>1, <1>2, <2>4 DEF Running
    <3>2. rows'[n] = rows[n]
      BY <2>1, <2>2, <2>4, <3>1 DEF Alone
    <3> QED
      BY <2>1, <2>4, <3>1, <3>2 DEF Alone
  <2>5. \A o \in Slots : Running(o)' => Running(o) /\ tx'[o] = tx[o]
    BY <1>1, <1>2 DEF Running
  <2> QED
    BY <2>1, <2>3, <2>4, <2>5 DEF Alone
<1> QED
  BY <1>6, <1>7 DEF ListsInv

LEMMA RequestsAreTyped ==
  ASSUME NEW op \in Ops, NEW n \in Numbers, NEW a \in Args(op)
  PROVE  Request(op, n, a) \in Requests
<1>1. a.v \in BOOLEAN /\ a.b \in BOOLEAN /\ a.what \in {"entry", "contact"}
  BY DEF Args
<1> QED
  BY <1>1, NoRowIsTyped DEF Request, NoTx, Requests, Asked

THEOREM ListsStep == ListsInv /\ [ListsNext]_listVars => ListsInv'
<1> SUFFICES ASSUME ListsInv, [ListsNext]_listVars PROVE ListsInv'
  OBVIOUS
<1>1. ASSUME NEW s \in Slots, NEW op \in Ops, NEW n \in Numbers, NEW a \in Args(op),
             Begin(s, Request(op, n, a))
      PROVE  ListsInv'
  BY <1>1, RequestsAreTyped, BeginKeeps
<1>2. ASSUME NEW s \in Slots, CommitTx(s) \/ AbortTx(s) \/ Close(s)
      PROVE  ListsInv'
  BY <1>2, EndKeeps
<1>3. CASE UNCHANGED listVars
  BY <1>3 DEF listVars, ListsInv, Typed, Alone, Running
<1> QED
  BY <1>1, <1>2, <1>3 DEF ListsNext

----------------------------------------------------------------------------
(* The theorems. *)

\* No number is on both lists, unless two of its requests overlapped (vip.py, blocks.py,
\* contacts.py, calls.py, spam.py).
THEOREM ListsExcludeEachOther == ListsSpec => []NeverBoth
<1>1. ListsInv => NeverBoth
  BY DEF ListsInv, NeverBoth, Apart
<1> QED
  BY <1>1, ListsStart, ListsStep, PTL DEF ListsSpec

\* An unblock from a call or from the spam list that was answered lets the number through
\* (calls.py unmark_call_blocked, spam.py remove_spam_entry).
THEOREM UnblockIsHeard == ListsSpec => UnblockedIsHeard
<1>1. ASSUME ListsInv, [ListsNext]_listVars,
             NEW s \in Slots, tx[s].op \in {"unmarkBlocked", "removeSpam"}, tx[s].ph = "looked",
             tx'[s].ph = "ok", tx[s].n \notin mixed
      PROVE  ~Rejected(rows'[tx[s].n])
  <2>1. CommitTx(s) /\ ~Clashes(tx[s], rows[tx[s].n])
    <3>1. DOMAIN tx = Slots /\ tx' # tx
      BY <1>1 DEF ListsInv, Typed
    <3>2. PICK o \in Slots : \/ \E op \in Ops, n \in Numbers : \E a \in Args(op) : Begin(o, Request(op, n, a))
                            \/ CommitTx(o) \/ AbortTx(o) \/ Close(o)
      BY <1>1, <3>1 DEF ListsNext, listVars
    <3>3. o # s => tx'[s] = tx[s]
      BY <3>1, <3>2 DEF Begin, CommitTx, AbortTx, Close
    <3>4. CommitTx(s) \/ AbortTx(s)
      BY <1>1, <3>2, <3>3 DEF Begin, Close, Idle
    <3>5. ~AbortTx(s)
      BY <1>1, <3>1, AnswersEnd DEF AbortTx
    <3>6. ~(tx' = [tx EXCEPT ![s] = Answered(tx[s], "refused")])
      BY <1>1, <3>1, AnswersEnd
    <3> QED
      BY <3>4, <3>5, <3>6 DEF CommitTx
  <2>2. Running(s) /\ tx[s].n \in Numbers
    BY <1>1 DEF Running, ListsInv, Typed, Looked, Asked
  <2>3. tx[s].saw = rows[tx[s].n] /\ rows[tx[s].n] \in Rows
    BY <1>1, <2>2 DEF ListsInv, Alone, Typed
  <2>4. rows'[tx[s].n] = After(tx[s], rows[tx[s].n])
    <3>1. rows' = [rows EXCEPT ![tx[s].n] = After(tx[s], rows[tx[s].n])]
      BY <2>1 DEF CommitTx
    <3> QED
      BY <1>1, <2>2, <3>1 DEF ListsInv, Typed
  <2>5. After(tx[s], rows[tx[s].n]) = Unmarked(rows[tx[s].n], rows[tx[s].n])
    BY <1>1, <2>3 DEF After
  <2> QED
    BY <2>3, <2>4, <2>5, UnmarkedIsHeard
<1>2. ListsInv /\ [ListsNext]_listVars =>
        [\A s \in Slots :
           (/\ tx[s].op \in {"unmarkBlocked", "removeSpam"} /\ tx[s].ph = "looked"
            /\ tx'[s].ph = "ok" /\ tx[s].n \notin mixed)
           => ~Rejected(rows'[tx[s].n])]_listVars
  BY <1>1
<1> QED
  BY <1>2, ListsStart, ListsStep, PTL DEF ListsSpec, UnblockedIsHeard

----------------------------------------------------------------------------
(* The screens ask for nothing that the API does not offer. *)

Asks == UNION {{Request(op, n, a) : n \in Numbers, a \in Args(op)} : op \in Ops}

ListsWithForm == {"VipList", "BlockList", "SpamList"}

OutTyped == out \subseteq [t : Asks, awaited : BOOLEAN]
LoadsTyped == \A g \in loads : g.saw \in Rows
FormTyped == form \in [shown : BOOLEAN, vip : BOOLEAN, blk : BOOLEAN, open : BOOLEAN,
                       saving : BOOLEAN, deleting : BOOLEAN]

\* Only the entries of a list can be taken off it, and a list of contacts has none.
ItemsFit ==
  /\ items \in [ListScreens -> SUBSET {"entry", "contact", "live"}]
  /\ items["VipList"] \subseteq {"entry", "contact"}
  /\ items["BlockList"] \subseteq {"entry", "contact"}
  /\ items["SpamList"] \subseteq {"entry"}
  /\ items["ContactsList"] \subseteq {"live"}

SheetFits ==
  sheet.k = "remove" => /\ Top \in ListsWithForm
                        /\ sheet.what \in {"entry", "contact"}
                        /\ Top = "SpamList" => sheet.what = "entry"

ScreensInv ==
  /\ ListsInv /\ who \in Numbers
  /\ OutTyped /\ LoadsTyped /\ FormTyped /\ ItemsFit /\ SheetFits

LEMMA ScreensStart == ScreensInit => ScreensInv
<1> SUFFICES ASSUME ScreensInit PROVE ScreensInv
  OBVIOUS
<1>1. ListsInv /\ who \in Numbers
  BY ListsStart DEF ScreensInit, AppInit
<1>2. OutTyped /\ LoadsTyped /\ FormTyped /\ SheetFits
  BY DEF ScreensInit, AppInit, OutTyped, LoadsTyped, FormTyped, SheetFits, NoFields, NoSheet
<1>3. ItemsFit
  BY DEF ScreensInit, AppInit, ItemsFit, ListScreens
<1> QED
  BY <1>1, <1>2, <1>3 DEF ScreensInv

LEMMA AsksAreRequests == \A t \in Asks : t \in Requests
BY RequestsAreTyped DEF Asks

\* A press adds one request that the API knows, and changes nothing of the lists.
LEMMA PressAsks ==
  ASSUME ScreensInv, NEW op \in Ops, NEW v \in BOOLEAN, NEW b \in BOOLEAN, NEW what,
         [v |-> v, b |-> b, what |-> what] \in Args(op), Press(op, v, b, what)
  PROVE  OutTyped' /\ LoadsTyped' /\ ItemsFit' /\ who' = who /\ UNCHANGED listVars /\ stack' = stack
<1> DEFINE t == Request(op, who, [v |-> v, b |-> b, what |-> what])
<1>1. t \in Asks /\ out' = out \cup {[t |-> t, awaited |-> TRUE]}
  BY DEF Asks, ScreensInv, Press
<1> HIDE DEF t
<1>2. UNCHANGED listVars /\ who' = who /\ stack' = stack /\ items' = items /\ loads' = loads
  BY DEF Press
<1>3. OutTyped'
  <2>1. [t |-> t, awaited |-> TRUE] \in [t : Asks, awaited : BOOLEAN]
    BY <1>1
  <2> QED
    BY <1>1, <2>1 DEF ScreensInv, OutTyped
<1>4. LoadsTyped' /\ ItemsFit'
  BY <1>2 DEF ScreensInv, LoadsTyped, ItemsFit
<1> QED
  BY <1>2, <1>3, <1>4

\* A step that only changes the screens.
LEMMA ScreenStep ==
  ASSUME ScreensInv, UNCHANGED listVars, who' = who,
         OutTyped', LoadsTyped', FormTyped', ItemsFit', SheetFits'
  PROVE  ScreensInv' /\ [ListsNext]_listVars
<1>1. ListsInv'
  BY ListsStep DEF ScreensInv
<1> QED
  BY <1>1 DEF ScreensInv

\* ... and none of what an item, a request or a form is.
LEMMA AskKeeps ==
  ASSUME ScreensInv, NEW scr, Ask(scr)
  PROVE  LoadsTyped'
BY NoRowIsTyped DEF Ask, ScreensInv, LoadsTyped

LEMMA NoFieldsTyped ==
  NoFields \in [shown : BOOLEAN, vip : BOOLEAN, blk : BOOLEAN, open : BOOLEAN,
                saving : BOOLEAN, deleting : BOOLEAN]
BY DEF NoFields

LEMMA ForgetKeeps ==
  ASSUME ScreensInv, NEW S, NEW M, Forget(S, M)
  PROVE  OutTyped'
BY DEF Forget, ScreensInv, OutTyped

LEMMA NavigationKeeps ==
  ASSUME ScreensInv,
         \/ OpenCall \/ OpenAdd \/ OpenContact \/ Refresh \/ Back
         \/ \E l \in ListScreens : OpenList(l)
  PROVE  ScreensInv' /\ [ListsNext]_listVars
<1>1. CASE OpenCall \/ OpenAdd \/ OpenContact \/ \E l \in ListScreens : OpenList(l)
  <2>1. UNCHANGED <<listVars, who, sheet, items, out>> /\ sheet = NoSheet
    BY <1>1 DEF OpenCall, OpenAdd, OpenContact, OpenList, Push, Pressed
  <2>2. LoadsTyped'
    BY <1>1, AskKeeps DEF OpenCall, OpenAdd, OpenContact, OpenList, ScreensInv, LoadsTyped
  <2>3. FormTyped'
    BY <1>1, NoFieldsTyped DEF OpenCall, OpenAdd, OpenContact, OpenList, ScreensInv, FormTyped
  <2>4. OutTyped' /\ ItemsFit'
    BY <2>1 DEF ScreensInv, OutTyped, ItemsFit
  <2>5. SheetFits'
    BY <2>1 DEF SheetFits, NoSheet
  <2> QED
    BY <2>1, <2>2, <2>3, <2>4, <2>5, ScreenStep
<1>2. CASE Refresh
  <2>1. UNCHANGED <<listVars, who, stack, form, sheet, items, out>> /\ LoadsTyped'
    BY <1>2, AskKeeps DEF Refresh
  <2>2. OutTyped' /\ ItemsFit' /\ FormTyped' /\ SheetFits'
    BY <2>1 DEF ScreensInv, OutTyped, ItemsFit, FormTyped, SheetFits, Top
  <2> QED
    BY <2>1, <2>2, ScreenStep
<1>3. CASE Back
  <2>1. UNCHANGED <<listVars, who, items>> /\ form' = NoFields /\ sheet' = NoSheet /\ loads' \subseteq loads
    BY <1>3 DEF Back, Leave
  <2>2. OutTyped'
    BY <1>3, ForgetKeeps DEF Back
  <2>3. LoadsTyped' /\ FormTyped' /\ ItemsFit' /\ SheetFits'
    BY <2>1, NoFieldsTyped DEF ScreensInv, LoadsTyped, FormTyped, ItemsFit, SheetFits, NoSheet
  <2> QED
    BY <2>1, <2>2, <2>3, ScreenStep
<1> QED
  BY <1>1, <1>2, <1>3

LEMMA LoadsKeep ==
  ASSUME ScreensInv, NEW g \in loads,
         \/ ReadRows(g) \/ GotContact(g) \/ GotList(g) \/ LoadLost(g)
         \/ \E label \in BOOLEAN : GotCall(g, label)
  PROVE  ScreensInv' /\ [ListsNext]_listVars
<1>1. UNCHANGED <<listVars, who, stack, sheet, out>>
  BY DEF ReadRows, GotContact, GotList, LoadLost, GotCall, Got
<1>2. OutTyped' /\ SheetFits'
  BY <1>1 DEF ScreensInv, OutTyped, SheetFits, Top
<1>3. rows[who] \in Rows /\ g.saw \in Rows
  BY DEF ScreensInv, ListsInv, Typed, LoadsTyped
<1>4. LoadsTyped'
  <2>1. loads' \subseteq loads \/ ReadRows(g)
    BY DEF GotContact, GotList, LoadLost, GotCall, Got
  <2>2. ASSUME ReadRows(g) PROVE LoadsTyped'
    <3>1. [g EXCEPT !.ph = "read", !.saw = rows[who]].saw \in Rows
      BY <1>3
    <3> QED
      BY <2>2, <3>1 DEF ReadRows, ScreensInv, LoadsTyped
  <2> QED
    BY <2>1, <2>2 DEF ScreensInv, LoadsTyped
<1>5. FormTyped'
  <2>1. form' = form \/ form' = [form EXCEPT !.shown = TRUE, !.vip = g.saw.cvip, !.blk = g.saw.cblk]
    BY DEF ReadRows, GotContact, GotList, LoadLost, GotCall, Got
  <2>2. g.saw.cvip \in BOOLEAN /\ g.saw.cblk \in BOOLEAN
    BY <1>3 DEF Rows
  <2> QED
    BY <2>1, <2>2 DEF ScreensInv, FormTyped
<1>6. ItemsFit'
  <2>1. \/ items' = items
        \/ g.scr \in ListScreens /\ items' = [items EXCEPT ![g.scr] = ItemsOf(g.scr, g.saw)]
        \/ items' = [items EXCEPT !["ContactsList"] = {}]
    BY DEF ReadRows, GotContact, GotList, LoadLost, GotCall, Got
  <2>2. \A r : /\ ItemsOf("VipList", r) \subseteq {"entry", "contact"}
               /\ ItemsOf("BlockList", r) \subseteq {"entry", "contact"}
               /\ ItemsOf("SpamList", r) \subseteq {"entry"}
               /\ ItemsOf("ContactsList", r) \subseteq {"live"}
    BY DEF ItemsOf, Items, Where
  <2>3. CASE items' = items \/ items' = [items EXCEPT !["ContactsList"] = {}]
    BY <2>3 DEF ScreensInv, ItemsFit, ListScreens
  <2>4. CASE g.scr \in ListScreens /\ items' = [items EXCEPT ![g.scr] = ItemsOf(g.scr, g.saw)]
    BY <2>2, <2>4 DEF ScreensInv, ItemsFit, ListScreens
  <2> QED
    BY <2>1, <2>3, <2>4
<1> QED
  BY <1>1, <1>2, <1>4, <1>5, <1>6, ScreenStep

\* A press that leaves the form, and a sheet that takes nothing off a list, as they are.
LEMMA PlainPressKeeps ==
  ASSUME ScreensInv, NEW op \in MarkOps, Press(op, FALSE, FALSE, "entry"), form' = form,
         sheet' \in {sheet, NoSheet}
  PROVE  ScreensInv' /\ [ListsNext]_listVars
<1>1. op \in Ops /\ [v |-> FALSE, b |-> FALSE, what |-> "entry"] \in Args(op)
  BY DEF Ops, MarkOps, Args
<1>2. OutTyped' /\ LoadsTyped' /\ ItemsFit' /\ who' = who /\ UNCHANGED listVars /\ stack' = stack
  BY <1>1, PressAsks
<1>3. FormTyped' /\ SheetFits'
  BY <1>2 DEF ScreensInv, FormTyped, SheetFits, Top, NoSheet
<1> QED
  BY <1>2, <1>3, ScreenStep

LEMMA MarksKeep ==
  ASSUME ScreensInv, PressVip \/ PressBlock \/ ConfirmBlock \/ RemoveSpam \/ ConfirmSpam
  PROVE  ScreensInv' /\ [ListsNext]_listVars
<1>1. PICK op \in MarkOps : Press(op, FALSE, FALSE, "entry")
  BY DEF PressVip, PressBlock, ConfirmBlock, ToggleBlock, RemoveSpam, ConfirmSpam, MarkOps
<1>2. form' = form /\ sheet' \in {sheet, NoSheet}
  BY DEF PressVip, PressBlock, ConfirmBlock, ToggleBlock, RemoveSpam, ConfirmSpam
<1> QED
  BY <1>1, <1>2, PlainPressKeeps

\* What a screen shows of the list that is on top.
LEMMA RemovableItems ==
  ASSUME ScreensInv, NEW w \in {"entry", "contact"}, Top \in ListScreens, w \in Shows
  PROVE  Top \in ListsWithForm /\ (Top = "SpamList" => w = "entry")
<1>1. w \notin ContactsShow
  BY DEF ContactsShow, ContactsItems, ContactsSearch, Where, ScreensInv, ItemsFit
<1>2. w = "contact" => w \notin SpamShows
  BY DEF SpamShows, SpamItems, SpamForm, Where, ScreensInv, ItemsFit
<1>3. Top = "ContactsList" => Shows = ContactsShow
  BY DEF Shows
<1>4. Top = "SpamList" => Shows = SpamShows
  BY DEF Shows
<1> QED
  BY <1>1, <1>2, <1>3, <1>4 DEF ListScreens, ListsWithForm

LEMMA SheetsKeep ==
  ASSUME ScreensInv, SaveNote \/ AskBlock \/ AskSpam \/ AskDelete \/ AskRemove \/ Dismiss
  PROVE  ScreensInv' /\ [ListsNext]_listVars
<1>1. UNCHANGED <<listVars, who, stack, form, items, out>>
  BY DEF SaveNote, AskBlock, AskSpam, AskDelete, AskRemove, Dismiss, OpenSheet
<1>2. LoadsTyped'
  BY AskKeeps DEF SaveNote, AskBlock, AskSpam, AskDelete, AskRemove, Dismiss, OpenSheet, ScreensInv, LoadsTyped
<1>3. OutTyped' /\ FormTyped' /\ ItemsFit'
  BY <1>1 DEF ScreensInv, OutTyped, FormTyped, ItemsFit
<1>4. SheetFits'
  <2>1. CASE AskRemove
    <3>1. PICK w \in {"entry", "contact"} : Top \in ListScreens /\ w \in Shows /\ OpenSheet("remove", w)
      BY <2>1 DEF AskRemove, Pressed
    <3>2. Top \in ListsWithForm /\ (Top = "SpamList" => w = "entry")
      BY <3>1, RemovableItems
    <3> QED
      BY <1>1, <3>1, <3>2 DEF OpenSheet, SheetFits, Top
  <2>2. CASE SaveNote
    BY <1>1, <2>2 DEF SaveNote, ScreensInv, SheetFits, Top
  <2>3. CASE AskBlock \/ AskSpam \/ AskDelete \/ Dismiss
    BY <2>3 DEF AskBlock, AskSpam, AskDelete, Dismiss, OpenSheet, SheetFits
  <2> QED
    BY <2>1, <2>2, <2>3
<1> QED
  BY <1>1, <1>2, <1>3, <1>4, ScreenStep

LEMMA FormsKeep ==
  ASSUME ScreensInv,
         \/ ConfirmDelete \/ ConfirmRemove \/ AddEntry \/ SaveContact \/ Unfold
         \/ \E c \in {"vip", "blk"} : Flip(c)
  PROVE  ScreensInv' /\ [ListsNext]_listVars
<1>1. form.vip \in BOOLEAN /\ form.blk \in BOOLEAN
  BY DEF ScreensInv, FormTyped
<1>2. CASE ConfirmDelete
  <2>1. "deleteContact" \in Ops /\ [v |-> FALSE, b |-> FALSE, what |-> "entry"] \in Args("deleteContact")
    BY DEF Ops, ContactOps, Args
  <2>2. OutTyped' /\ LoadsTyped' /\ ItemsFit' /\ who' = who /\ UNCHANGED listVars
    BY <1>2, <2>1, PressAsks DEF ConfirmDelete
  <2>3. FormTyped' /\ SheetFits'
    BY <1>2 DEF ConfirmDelete, ScreensInv, FormTyped, SheetFits, NoSheet
  <2> QED
    BY <2>2, <2>3, ScreenStep
<1>3. CASE ConfirmRemove
  <2>1. Top \in ListsWithForm /\ sheet.what \in {"entry", "contact"} /\ (Top = "SpamList" => sheet.what = "entry")
    BY <1>3 DEF ConfirmRemove, ScreensInv, SheetFits
  <2>2. RemoveOp \in Ops /\ [v |-> FALSE, b |-> FALSE, what |-> sheet.what] \in Args(RemoveOp)
    BY <2>1 DEF RemoveOp, ListsWithForm, Ops, ListOps, Args
  <2>3. OutTyped' /\ LoadsTyped' /\ ItemsFit' /\ who' = who /\ UNCHANGED listVars /\ stack' = stack
    BY <1>3, <2>2, PressAsks DEF ConfirmRemove
  <2>4. FormTyped' /\ SheetFits'
    BY <1>3, <2>3 DEF ConfirmRemove, ScreensInv, FormTyped, SheetFits, Top
  <2> QED
    BY <2>3, <2>4, ScreenStep
<1>4. CASE AddEntry
  <2>1. AddOp \in Ops /\ [v |-> FALSE, b |-> FALSE, what |-> "entry"] \in Args(AddOp)
    BY <1>4 DEF AddEntry, AddOp, Ops, ListOps, Args
  <2>2. OutTyped' /\ LoadsTyped' /\ ItemsFit' /\ who' = who /\ UNCHANGED listVars /\ stack' = stack
    BY <1>4, <2>1, PressAsks DEF AddEntry
  <2>3. FormTyped' /\ SheetFits'
    BY <1>4, <2>2 DEF AddEntry, ScreensInv, FormTyped, SheetFits, Top
  <2> QED
    BY <2>2, <2>3, ScreenStep
<1>5. CASE SaveContact
  <2>1. PICK op \in {"createContact", "updateContact"} : Press(op, form.vip, form.blk, "entry")
    BY <1>5 DEF SaveContact
  <2>2. op \in Ops /\ [v |-> form.vip, b |-> form.blk, what |-> "entry"] \in Args(op)
    BY <1>1 DEF Ops, ContactOps, Args
  <2>3. OutTyped' /\ LoadsTyped' /\ ItemsFit' /\ who' = who /\ UNCHANGED listVars /\ stack' = stack
    BY <1>1, <2>1, <2>2, PressAsks
  <2>4. FormTyped' /\ SheetFits'
    BY <1>5, <2>3 DEF SaveContact, ScreensInv, FormTyped, SheetFits, Top
  <2> QED
    BY <2>3, <2>4, ScreenStep
<1>6. CASE Unfold \/ \E c \in {"vip", "blk"} : Flip(c)
  <2>1. UNCHANGED <<listVars, who, stack, sheet, items, loads, out>>
    BY <1>6 DEF Unfold, Flip
  <2>2. (~form.vip) \in BOOLEAN /\ (~form.blk) \in BOOLEAN /\ (~form.open) \in BOOLEAN
        /\ (form.blk /\ form.vip) \in BOOLEAN /\ (form.vip /\ form.blk) \in BOOLEAN
    OBVIOUS
  <2>3. FormTyped'
    BY <1>6, <2>2 DEF Unfold, Flip, ScreensInv, FormTyped
  <2>4. OutTyped' /\ LoadsTyped' /\ ItemsFit' /\ SheetFits'
    BY <2>1 DEF ScreensInv, OutTyped, LoadsTyped, ItemsFit, SheetFits, Top
  <2> QED
    BY <2>1, <2>3, <2>4, ScreenStep
<1> QED
  BY <1>2, <1>3, <1>4, <1>5, <1>6

\* An answer, or none: the form, the sheet and the loads that Done leaves.
LEMMA DoneKeeps ==
  ASSUME ScreensInv, NEW op, NEW ok \in BOOLEAN, Done(op, ok)
  PROVE  FormTyped' /\ SheetFits' /\ LoadsTyped'
<1>1. CASE ok /\ Closes(op)
  BY <1>1, NoFieldsTyped DEF Done, Leave, ScreensInv, FormTyped, SheetFits, LoadsTyped, NoSheet
<1>2. CASE ~(ok /\ Closes(op))
  <2>1. /\ stack' = stack /\ sheet' \in {sheet, NoSheet}
        /\ loads' = loads \/ Ask("ContactDetail")
    BY <1>2 DEF Done
  <2>2. LoadsTyped'
    BY <2>1, AskKeeps DEF ScreensInv, LoadsTyped
  <2>3. FormTyped'
    <3> DEFINE saving == form.saving /\ op \in MarkOps \cup {"deleteContact"}
               deleting == form.deleting /\ op # "deleteContact"
               open == form.open /\ ~(ok /\ op = "addSpam")
    <3>1. form' = [form EXCEPT !.saving = saving, !.deleting = deleting, !.open = open]
      BY <1>2 DEF Done
    <3>2. saving \in BOOLEAN /\ deleting \in BOOLEAN /\ open \in BOOLEAN
      OBVIOUS
    <3> HIDE DEF saving, deleting, open
    <3> QED
      BY <3>1, <3>2 DEF ScreensInv, FormTyped
  <2> QED
    BY <2>1, <2>2, <2>3 DEF ScreensInv, SheetFits, Top, NoSheet
<1> QED
  BY <1>1, <1>2

LEMMA StoredFits ==
  ASSUME ScreensInv, NEW op, NEW what, items' \in {items, Stored(op, what)}
  PROVE  ItemsFit'
<1>1. CASE items' = items
  BY <1>1 DEF ScreensInv, ItemsFit
<1>2. CASE items' = Stored(op, what)
  BY <1>2 DEF Stored, ScreensInv, ItemsFit, ListScreens
<1> QED
  BY <1>1, <1>2

LEMMA SheetFitsIfSame ==
  ASSUME ScreensInv, UNCHANGED <<stack, sheet, form, loads>>
  PROVE  SheetFits' /\ FormTyped' /\ LoadsTyped'
BY DEF ScreensInv, SheetFits, FormTyped, LoadsTyped, Top

LEMMA AnswersKeep ==
  ASSUME ScreensInv, NEW s \in Slots, Answer(s) \/ AnswerUnseen(s)
  PROVE  ScreensInv' /\ [ListsNext]_listVars
<1>1. Close(s) /\ who' = who /\ items' \in {items, Stored(tx[s].op, tx[s].what)}
  BY DEF Answer, AnswerUnseen
<1>2. [ListsNext]_listVars
  BY <1>1 DEF ListsNext
<1>3. ListsInv'
  BY <1>2, ListsStep DEF ScreensInv
<1>4. OutTyped'
  <2>1. CASE Answer(s)
    BY <2>1, ForgetKeeps DEF Answer
  <2>2. CASE AnswerUnseen(s)
    BY <2>2 DEF AnswerUnseen, ScreensInv, OutTyped
  <2> QED
    BY <2>1, <2>2
<1>5. FormTyped' /\ SheetFits' /\ LoadsTyped'
  <2>1. CASE Answer(s)
    BY <2>1, DoneKeeps DEF Answer
  <2>2. CASE AnswerUnseen(s)
    BY <2>2, SheetFitsIfSame DEF AnswerUnseen, ScreenUnchanged
  <2> QED
    BY <2>1, <2>2
<1>6. ItemsFit'
  BY <1>1, StoredFits
<1> QED
  BY <1>1, <1>2, <1>3, <1>4, <1>5, <1>6 DEF ScreensInv

LEMMA ArrivalsKeep ==
  ASSUME ScreensInv, NEW s \in Slots,
         \/ \E q \in out : Arrive(q, s)
         \/ \E op \in Ops : \E a \in Args(op) : Elsewhere(s, op, a)
  PROVE  ScreensInv' /\ [ListsNext]_listVars
<1>1. UNCHANGED <<who, items, stack, sheet, form, loads>> /\ out' \subseteq out
  BY DEF Arrive, Elsewhere, ScreenUnchanged
<1>2. \E op \in Ops, n \in Numbers : \E a \in Args(op) : Begin(s, Request(op, n, a))
  <2>1. CASE \E q \in out : Arrive(q, s)
    BY <2>1 DEF Arrive, ScreensInv, OutTyped, Asks
  <2>2. CASE \E op \in Ops : \E a \in Args(op) : Elsewhere(s, op, a)
    BY <2>2 DEF Elsewhere, ScreensInv
  <2> QED
    BY <2>1, <2>2
<1>3. [ListsNext]_listVars
  BY <1>2 DEF ListsNext
<1>4. ListsInv'
  BY <1>3, ListsStep DEF ScreensInv
<1>5. FormTyped' /\ SheetFits' /\ LoadsTyped'
  BY <1>1, SheetFitsIfSame
<1>6. OutTyped' /\ ItemsFit'
  BY <1>1 DEF ScreensInv, OutTyped, ItemsFit
<1> QED
  BY <1>1, <1>3, <1>4, <1>5, <1>6 DEF ScreensInv

LEMMA LossKeeps ==
  ASSUME ScreensInv, Lost
  PROVE  ScreensInv' /\ [ListsNext]_listVars
<1>1. UNCHANGED <<listVars, who, items>> /\ out' \subseteq out
  BY DEF Lost
<1>2. (\E op : Done(op, FALSE)) \/ ScreenUnchanged
  BY DEF Lost
<1>3. FormTyped' /\ SheetFits' /\ LoadsTyped'
  BY <1>2, DoneKeeps, SheetFitsIfSame DEF ScreenUnchanged
<1>4. OutTyped' /\ ItemsFit'
  BY <1>1 DEF ScreensInv, OutTyped, ItemsFit
<1> QED
  BY <1>1, <1>3, <1>4, ScreenStep

LEMMA ServerKeeps ==
  ASSUME ScreensInv, Server
  PROVE  ScreensInv' /\ [ListsNext]_listVars
<1>1. [ListsNext]_listVars /\ UNCHANGED <<who, stack, form, sheet, items, loads, out>>
  BY DEF Server, ListsNext, appVars
<1>2. ListsInv'
  BY <1>1, ListsStep DEF ScreensInv
<1> QED
  BY <1>1, <1>2, SheetFitsIfSame DEF ScreensInv, OutTyped, ItemsFit

THEOREM ScreensStep ==
  ScreensInv /\ [ScreensNext]_callerVars => ScreensInv' /\ [ListsNext]_listVars
<1> SUFFICES ASSUME ScreensInv, [ScreensNext]_callerVars
             PROVE  ScreensInv' /\ [ListsNext]_listVars
  OBVIOUS
<1>1. CASE UNCHANGED callerVars
  <2>1. UNCHANGED <<listVars, who, stack, form, sheet, items, loads, out>>
    BY <1>1 DEF callerVars, appVars
  <2> QED
    BY <2>1, ScreenStep, SheetFitsIfSame DEF ScreensInv, OutTyped, ItemsFit
<1> QED
  BY <1>1, NavigationKeeps, LoadsKeep, MarksKeep, SheetsKeep, FormsKeep, AnswersKeep, ArrivalsKeep,
     LossKeeps, ServerKeeps DEF ScreensNext

\* Whatever the user presses on the screens is a step of the lists, so what is proved of
\* the API's endpoints holds of the app: navigation, sheets, lost answers and forms that
\* are left send no request that the API does not know.
THEOREM ScreensImplementLists == ScreensSpec => ListsSpec
<1>1. ScreensInit => ListsInit
  BY DEF ScreensInit
<1> QED
  BY <1>1, ScreensStart, ScreensStep, PTL DEF ScreensSpec, ListsSpec

THEOREM AppKeepsListsApart == ScreensSpec => []NeverBoth
BY ScreensImplementLists, ListsExcludeEachOther, PTL

THEOREM AppUnblockIsHeard == ScreensSpec => UnblockedIsHeard
BY ScreensImplementLists, UnblockIsHeard, PTL

----------------------------------------------------------------------------
(* The chips of a call.  While its detail is open and the app has asked for one thing at  *)
(* a time, the card is what the lists say, or will be once the answer is there.           *)

Screens == ListScreens \cup {"Home", "CallDetail", "AddContact", "ContactDetail"}

StackInv ==
  /\ stack \in Seq(Screens) /\ Len(stack) \in 1..3 /\ stack[1] = "Home"
  /\ Len(stack) >= 2 => stack[2] \in ListScreens \cup {"CallDetail"}
  /\ Len(stack) = 3 => \/ stack[3] = "AddContact" /\ stack[2] # "SpamList"
                       \/ stack[3] = "ContactDetail" /\ stack[2] = "ContactsList"

CardTyped == card \in [shown : BOOLEAN, vip : BOOLEAN, blk : BOOLEAN, spam : BOOLEAN,
                       con : BOOLEAN, label : BOOLEAN]
GetsTyped == loads \subseteq [scr : Screens, ph : {"sent", "read"}, saw : Rows]

\* A new contact is waited for by the screen that asked for it, until that is left.
CreateWaits ==
  /\ \A q \in out : q.awaited /\ q.t.op = "createContact" => Top = "AddContact"
  /\ \A s \in mine : s \in Slots /\ ~Idle(s) /\ (tx[s].op = "createContact" => Top = "AddContact")

DetailOps == MarkOps \cup {"createContact", "deleteContact"}
InDetail == Len(stack) >= 2 /\ stack[2] = "CallDetail"

OneRequest ==
  /\ \A p, q \in out : p = q
  /\ \A s, z \in Slots : ~Idle(s) /\ ~Idle(z) => s = z
  /\ out # {} => \A s \in Slots : Idle(s)

\* It is one of the detail's own, about its number, and its answer will be seen, unless
\* it is about a contact, which changes no chip.
OfDetail ==
  /\ \A q \in out : /\ q.t.op \in DetailOps /\ q.t.n = who
                    /\ q.awaited \/ q.t.op = "createContact"
  /\ \A s \in Slots : ~Idle(s) =>
        /\ tx[s].op \in DetailOps /\ tx[s].n = who
        /\ s \in mine \/ tx[s].op = "createContact"
        /\ Running(s) => tx[s].saw = rows[who]

Waiting ==
  /\ out = {} /\ (\A s \in Slots : Idle(s)) /\ sheet = NoSheet /\ Top = "CallDetail"
  /\ \A g, h \in loads : g = h
  /\ \A g \in loads : g.scr = "CallDetail" /\ (g.ph = "read" => g.saw = rows[who])

\* What CardAfter makes of the two chips.
VipAfter(op, v) ==
  CASE op = "markVip" -> TRUE
    [] op \in {"unmarkVip", "markBlocked", "markSpam"} -> FALSE
    [] OTHER -> v
BlkAfter(op, b) ==
  CASE op \in {"markBlocked", "markSpam"} -> TRUE
    [] op \in {"markVip", "unmarkBlocked"} -> FALSE
    [] OTHER -> b

Showing ==
  /\ loads = {}
  /\ \A s \in Slots : tx[s].ph = "ok" => /\ VipAfter(tx[s].op, card.vip) = rows[who].vip
                                         /\ BlkAfter(tx[s].op, card.blk) = rows[who].block
  /\ (\A s \in Slots : tx[s].ph # "ok") => card.vip = rows[who].vip /\ card.blk = rows[who].block

CardInv == /\ OneRequest /\ OfDetail
           /\ ~card.shown => Waiting
           /\ card.shown => Showing
ChipsInv == alone /\ InDetail => CardInv

PagesInv == StackInv /\ CardTyped /\ GetsTyped /\ CreateWaits
AppInv == ScreensInv /\ PagesInv /\ ChipsInv

\* Which screen shows what.
LEMMA HomeShows ==
  ASSUME ScreensInv, Top \in Screens, NEW c \in ListScreens \cup {"CallDetail"}, c \in Shows
  PROVE  Top = "Home"
<1>1. /\ c \notin CallShows /\ c \notin ContactShows /\ c \notin AddShows
  BY DEF CallShows, CallChips, SpamCard, CallWaits, ContactShows, ContactFields, ContactSwitches,
         ContactAi, ContactButtons, ContactWaits, AddShows, AddFields, AddSwitches, AddAi,
         AddButton, Where, ListScreens
<1>2. /\ c \notin VipShows /\ c \notin BlockShows /\ c \notin SpamShows /\ c \notin ContactsShow
  BY DEF VipShows, VipItems, VipForm, BlockShows, BlockItems, BlockForm, SpamShows, SpamItems,
         SpamForm, ContactsShow, ContactsItems, ContactsSearch, Where, ListScreens,
         ScreensInv, ItemsFit
<1> QED
  BY <1>1, <1>2 DEF Shows, Screens, ListScreens

LEMMA ContactsShows ==
  ASSUME ScreensInv, Top \in Screens, "live" \in Shows
  PROVE  Top = "ContactsList"
<1>1. "live" \notin CallShows /\ "live" \notin ContactShows /\ "live" \notin AddShows
  BY DEF CallShows, CallChips, SpamCard, CallWaits, ContactShows, ContactFields, ContactSwitches,
         ContactAi, ContactButtons, ContactWaits, AddShows, AddFields, AddSwitches, AddAi,
         AddButton, Where
<1>2. "live" \notin VipShows /\ "live" \notin BlockShows /\ "live" \notin SpamShows
  BY DEF VipShows, VipItems, VipForm, BlockShows, BlockItems, BlockForm, SpamShows, SpamItems,
         SpamForm, Where, ScreensInv, ItemsFit
<1> QED
  BY <1>1, <1>2 DEF Shows, Screens, ListScreens

\* The detail shows nothing but a retry before it has the call, and then no retry.
LEMMA DetailShows ==
  ASSUME Top = "CallDetail", NEW c \in Shows
  PROVE  /\ c \notin {"refresh", "save", "open", "add", "delete", "entry", "contact", "blk"}
         /\ IF card.shown THEN c # "retry"
            ELSE c = "retry" /\ \A g \in loads : g.scr # "CallDetail"
<1>1. c \in CallShows
  BY DEF Shows
<1> QED
  BY <1>1 DEF CallShows, CallChips, SpamCard, CallWaits, Where

LEMMA AddContactShows ==
  ASSUME Top = "AddContact", NEW c \in Shows
  PROVE  c \in {"text", "category", "vip", "blk", "open", "manners", "save"}
<1>1. c \in AddShows
  BY DEF Shows
<1> QED
  BY <1>1 DEF AddShows, AddFields, AddSwitches, AddAi, AddButton, Where

LEMMA TopIsScreen ==
  ASSUME StackInv
  PROVE  Top = stack[Len(stack)] /\ Top \in Screens
BY DEF StackInv, Top, Last

\* A screen is put on top of the one that shows it.
LEMMA Pushes ==
  ASSUME StackInv, NEW s \in Screens, stack' = Append(stack, s),
         \/ Top = "Home" /\ s \in ListScreens \cup {"CallDetail"}
         \/ Top \in {"CallDetail", "VipList", "BlockList", "ContactsList"} /\ s = "AddContact"
         \/ Top = "ContactsList" /\ s = "ContactDetail"
  PROVE  /\ StackInv'
         /\ Top' = s
         /\ InDetail' <=> InDetail \/ s = "CallDetail"
<1>1. stack \in Seq(Screens) /\ Len(stack) \in 1..3 /\ stack[1] = "Home" /\ Top = stack[Len(stack)]
  BY TopIsScreen DEF StackInv
<1>2. /\ stack' \in Seq(Screens) /\ Len(stack') = Len(stack) + 1
      /\ stack'[Len(stack) + 1] = s
      /\ \A i \in 1..Len(stack) : stack'[i] = stack[i]
  BY <1>1
<1>3. Top' = s
  BY <1>2 DEF Top, Last
<1>4. CASE Len(stack) = 1
  <2>1. s \in ListScreens \cup {"CallDetail"}
    BY <1>1, <1>4 DEF ListScreens
  <2> QED
    BY <1>1, <1>2, <1>3, <1>4, <2>1 DEF StackInv, InDetail
<1>5. CASE Len(stack) = 2
  <2>1. stack[2] \in ListScreens \cup {"CallDetail"} /\ stack[2] = Top
    BY <1>1, <1>5 DEF StackInv
  <2> QED
    BY <1>1, <1>2, <1>3, <1>5, <2>1 DEF StackInv, InDetail, ListScreens
<1>6. CASE Len(stack) = 3
  <2>1. Top \in {"AddContact", "ContactDetail"}
    BY <1>1, <1>6 DEF StackInv
  <2> QED
    BY <2>1 DEF ListScreens
<1> QED
  BY <1>1, <1>4, <1>5, <1>6

\* The screen on top is left.
LEMMA Pops ==
  ASSUME StackInv, Len(stack) > 1, stack' = Front(stack)
  PROVE  /\ StackInv'
         /\ InDetail' => InDetail /\ Top = "AddContact" /\ Top' = "CallDetail"
         /\ Top # Top' /\ Top' # "AddContact"
<1>1. stack \in Seq(Screens) /\ Len(stack) \in 2..3 /\ Top = stack[Len(stack)]
  BY TopIsScreen DEF StackInv
<1>2. /\ stack' \in Seq(Screens) /\ Len(stack') = Len(stack) - 1
      /\ \A i \in 1..Len(stack) - 1 : stack'[i] = stack[i]
  BY <1>1 DEF Front
<1>3. Top' = stack[Len(stack) - 1]
  BY <1>1, <1>2 DEF Top, Last
<1>4. CASE Len(stack) = 2
  BY <1>1, <1>2, <1>3, <1>4 DEF StackInv, InDetail, ListScreens
<1>5. CASE Len(stack) = 3
  BY <1>1, <1>2, <1>3, <1>5 DEF StackInv, InDetail, ListScreens
<1> QED
  BY <1>1, <1>4, <1>5

LEMMA DetailTop ==
  ASSUME StackInv, InDetail
  PROVE  Top \in {"CallDetail", "AddContact"}
<1>1. Len(stack) \in 2..3 /\ Top = stack[Len(stack)]
  BY TopIsScreen DEF StackInv, InDetail
<1> QED
  BY <1>1 DEF StackInv, InDetail

LEMMA AppStart == ScreensInit => AppInv
<1> SUFFICES ASSUME ScreensInit PROVE AppInv
  OBVIOUS
<1>1. stack = <<"Home">> /\ card = NoCard /\ loads = {} /\ out = {} /\ mine = {} /\ alone = FALSE
  BY DEF ScreensInit, AppInit
<1>2. StackInv
  BY <1>1 DEF StackInv, Screens
<1> QED
  BY <1>1, <1>2, ScreensStart
     DEF AppInv, PagesInv, CardTyped, GetsTyped, CreateWaits, ChipsInv, NoCard

\* What a step that leaves the requests, the card and the screens alone keeps.
LEMMA SameChips ==
  ASSUME AppInv, UNCHANGED <<listVars, who, stack, card, loads, out, mine, alone>>,
         sheet' = sheet \/ (InDetail => card.shown)
  PROVE  PagesInv' /\ ChipsInv'
<1>1. PagesInv'
  BY DEF AppInv, PagesInv, StackInv, CardTyped, GetsTyped, CreateWaits, Top, Idle, listVars
<1>2. ASSUME alone, InDetail, CardInv PROVE CardInv'
  <2>1. OneRequest' /\ OfDetail' /\ (card.shown => Showing')
    BY <1>2 DEF CardInv, OneRequest, OfDetail, Showing, Idle, Running, listVars
  <2>2. ASSUME ~card.shown PROVE Waiting'
    <3>1. Waiting /\ sheet' = sheet
      BY <1>2, <2>2 DEF CardInv
    <3> QED
      BY <3>1 DEF Waiting, Top, Idle, listVars
  <2> QED
    BY <2>1, <2>2 DEF CardInv
<1> QED
  BY <1>1, <1>2 DEF AppInv, ChipsInv, InDetail

LEMMA FormChips ==
  ASSUME AppInv, UNCHANGED callerVars \/ Unfold \/ \E c \in {"vip", "blk"} : Flip(c)
  PROVE  PagesInv' /\ ChipsInv'
<1>1. UNCHANGED <<listVars, who, stack, card, sheet, loads, out, mine, alone>>
  BY DEF Unfold, Flip, callerVars, appVars
<1> QED
  BY <1>1, SameChips

\* A sheet opens over a detail that is shown.
LEMMA SheetChips ==
  ASSUME AppInv, AskBlock \/ AskSpam \/ AskDelete \/ AskRemove \/ Dismiss
  PROVE  PagesInv' /\ ChipsInv'
<1>1. UNCHANGED <<listVars, who, stack, card, loads, out, mine, alone>>
  BY DEF AskBlock, AskSpam, AskDelete, AskRemove, Dismiss, OpenSheet
<1>2. InDetail => Top \in {"CallDetail", "AddContact"}
  BY DetailTop DEF AppInv, PagesInv
<1>3. ASSUME InDetail, alone, ~card.shown, sheet' # sheet PROVE FALSE
  <2>1. CardInv /\ sheet = NoSheet /\ Top = "CallDetail"
    BY <1>3 DEF AppInv, ChipsInv, CardInv, Waiting
  <2>2. \A c \in Shows : c = "retry"
    BY <1>3, <2>1, DetailShows
  <2> QED
    BY <2>1, <2>2 DEF AskBlock, AskSpam, AskDelete, AskRemove, Dismiss, Pressed, ListScreens
<1>4. CASE alone
  BY <1>1, <1>3, <1>4, SameChips
<1>5. CASE ~alone
  <2>1. PagesInv'
    BY <1>1 DEF AppInv, PagesInv, StackInv, CardTyped, GetsTyped, CreateWaits, Top, Idle, listVars
  <2> QED
    BY <1>1, <1>5, <2>1 DEF ChipsInv
<1> QED
  BY <1>4, <1>5

\* A detail that is asked for while nothing else is on its way.
LEMMA AskedAlone ==
  ASSUME Quiet, sheet = NoSheet, Ask("CallDetail"), UNCHANGED <<listVars, out, sheet>>,
         card'.shown = FALSE, Top' = "CallDetail"
  PROVE  CardInv'
<1>1. /\ out' = {} /\ tx' = tx /\ \A s \in Slots : tx'[s].ph = "idle"
      /\ loads' = {[scr |-> "CallDetail", ph |-> "sent", saw |-> NoRow]}
  BY DEF Quiet, Ask, Idle, listVars
<1>2. OneRequest' /\ OfDetail'
  BY <1>1 DEF OneRequest, OfDetail, Idle
<1>3. Waiting'
  BY <1>1 DEF Waiting, Idle
<1> QED
  BY <1>2, <1>3 DEF CardInv

LEMMA AskTyped ==
  ASSUME GetsTyped, NEW scr \in Screens, Ask(scr)
  PROVE  GetsTyped'
BY NoRowIsTyped DEF GetsTyped, Ask

LEMMA SaveNoteChips ==
  ASSUME AppInv, SaveNote
  PROVE  PagesInv' /\ ChipsInv'
<1>1. /\ Ask("CallDetail") /\ card' = [card EXCEPT !.shown = FALSE] /\ alone' = Quiet
      /\ UNCHANGED <<listVars, who, stack, sheet, out, mine>>
      /\ sheet = NoSheet /\ Top = "CallDetail"
  BY DEF SaveNote, Pressed
<1>2. StackInv' /\ CardTyped' /\ CreateWaits'
  BY <1>1 DEF AppInv, PagesInv, StackInv, CardTyped, CreateWaits, Top, Idle, listVars
<1>3. GetsTyped'
  BY <1>1, AskTyped DEF AppInv, PagesInv, Screens
<1>4. card'.shown = FALSE
  BY <1>1 DEF AppInv, PagesInv, CardTyped
<1>5. Quiet => CardInv'
  BY <1>1, <1>4, AskedAlone DEF Top
<1> QED
  BY <1>1, <1>2, <1>3, <1>5 DEF PagesInv, ChipsInv

\* A press adds a request of the detail's to none.
LEMMA PressChips ==
  ASSUME AppInv, NEW op, NEW v, NEW b, NEW what, Press(op, v, b, what), card' = card,
         InDetail /\ alone => op \in DetailOps /\ card.shown,
         op = "createContact" => Top = "AddContact"
  PROVE  PagesInv' /\ ChipsInv'
<1> DEFINE t == Request(op, who, [v |-> v, b |-> b, what |-> what])
<1>1. t.op = op /\ t.n = who
  BY DEF Request, NoTx
<1>2. out' = out \cup {[t |-> t, awaited |-> TRUE]}
  BY DEF Press
<1> HIDE DEF t
<1>3. /\ alone' = (alone /\ Quiet)
      /\ UNCHANGED <<listVars, who, stack, loads, mine, card>>
  BY DEF Press
<1>4. StackInv' /\ CardTyped' /\ GetsTyped'
  BY <1>3 DEF AppInv, PagesInv, StackInv, CardTyped, GetsTyped
<1>5. CreateWaits'
  BY <1>1, <1>2, <1>3 DEF AppInv, PagesInv, CreateWaits, Top, Idle, listVars
<1>6. ASSUME alone, Quiet, InDetail PROVE CardInv'
  <2>1. /\ out' = {[t |-> t, awaited |-> TRUE]} /\ loads' = {} /\ tx' = tx /\ who' = who /\ card' = card
        /\ rows' = rows /\ \A s \in Slots : tx'[s].ph = "idle"
    BY <1>2, <1>3, <1>6 DEF Quiet, Idle, listVars
  <2>2. OneRequest' /\ OfDetail'
    BY <1>1, <1>6, <2>1 DEF OneRequest, OfDetail, Idle
  <2>3. Showing /\ card.shown
    BY <1>6 DEF AppInv, ChipsInv, CardInv
  <2>4. Showing'
    BY <2>1, <2>3 DEF Showing
  <2> QED
    BY <2>2, <2>3, <2>4, <2>1 DEF CardInv
<1> QED
  BY <1>3, <1>4, <1>5, <1>6 DEF PagesInv, ChipsInv, InDetail

LEMMA PressesChips ==
  ASSUME AppInv,
         \/ PressVip \/ PressBlock \/ ConfirmBlock \/ RemoveSpam \/ ConfirmSpam
         \/ ConfirmDelete \/ ConfirmRemove \/ AddEntry \/ SaveContact
  PROVE  PagesInv' /\ ChipsInv'
<1>1. ASSUME InDetail
      PROVE  Top \in {"CallDetail", "AddContact"}
  BY <1>1, DetailTop DEF AppInv, PagesInv
<1>2. ASSUME InDetail, alone, ~card.shown
      PROVE  Top = "CallDetail" /\ sheet = NoSheet /\ \A c \in Shows : c = "retry"
  <2>1. Top = "CallDetail" /\ sheet = NoSheet
    BY <1>2 DEF AppInv, ChipsInv, CardInv, Waiting
  <2> QED
    BY <1>2, <2>1, DetailShows
<1>0. NoSheet.k = "none"
  BY DEF NoSheet
<1>3. CASE PressVip \/ PressBlock \/ ConfirmBlock \/ RemoveSpam \/ ConfirmSpam
  <2>1. PICK op \in MarkOps : Press(op, FALSE, FALSE, "entry")
    BY <1>3 DEF PressVip, PressBlock, ConfirmBlock, ToggleBlock, RemoveSpam, ConfirmSpam, MarkOps
  <2>2. card' = card
    BY <1>3 DEF PressVip, PressBlock, ConfirmBlock, ToggleBlock, RemoveSpam, ConfirmSpam
  <2>3. InDetail /\ alone => card.shown
    BY <1>0, <1>2, <1>3 DEF PressVip, PressBlock, ConfirmBlock, RemoveSpam, ConfirmSpam, Pressed
  <2>4. op \in DetailOps /\ op # "createContact"
    BY DEF DetailOps, MarkOps
  <2> QED
    BY <2>1, <2>2, <2>3, <2>4, PressChips
<1>4. CASE ConfirmDelete
  <2>1. Press("deleteContact", FALSE, FALSE, "entry") /\ card' = card /\ sheet # NoSheet
    BY <1>0, <1>4 DEF ConfirmDelete
  <2>2. InDetail /\ alone => card.shown
    BY <1>2, <2>1
  <2> QED
    BY <2>1, <2>2, PressChips DEF DetailOps
<1>5. CASE ConfirmRemove
  <2>1. Top \in ListsWithForm
    BY <1>5 DEF ConfirmRemove, AppInv, ScreensInv, SheetFits
  <2>2. ~InDetail /\ RemoveOp # "createContact"
    BY <1>1, <2>1 DEF ListsWithForm, RemoveOp
  <2> QED
    BY <1>5, <2>2, PressChips DEF ConfirmRemove
<1>6. CASE AddEntry
  <2>1. Top \in ListsWithForm
    BY <1>6 DEF AddEntry, ListsWithForm
  <2>2. ~InDetail /\ AddOp # "createContact"
    BY <1>1, <2>1 DEF ListsWithForm, AddOp
  <2> QED
    BY <1>6, <2>2, PressChips DEF AddEntry
<1>7. CASE SaveContact
  <2>1. InDetail => Top = "AddContact"
    BY <1>1, <1>7, DetailShows DEF SaveContact, Pressed
  <2>2. InDetail /\ alone => card.shown
    BY <1>2, <2>1
  <2>3. CASE Top = "AddContact"
    <3>1. Press("createContact", form.vip, form.blk, "entry") /\ card' = card
      BY <1>7, <2>3 DEF SaveContact
    <3> QED
      BY <2>2, <2>3, <3>1, PressChips DEF DetailOps
  <2>4. CASE Top # "AddContact"
    <3>1. Press("updateContact", form.vip, form.blk, "entry") /\ card' = card
      BY <1>7, <2>4 DEF SaveContact
    <3> QED
      BY <2>1, <2>4, <3>1, PressChips
  <2> QED
    BY <2>3, <2>4
<1> QED
  BY <1>3, <1>4, <1>5, <1>6, <1>7

LEMMA OpensChips ==
  ASSUME AppInv, OpenCall \/ OpenAdd \/ OpenContact \/ \E l \in ListScreens : OpenList(l)
  PROVE  PagesInv' /\ ChipsInv'
<1>1. StackInv /\ Top \in Screens /\ (InDetail => Top \in {"CallDetail", "AddContact"})
  BY TopIsScreen, DetailTop DEF AppInv, PagesInv
<1>2. ASSUME NEW s \in Screens, Push(s), Top # "AddContact", StackInv', Top' = s
      PROVE  CreateWaits'
  BY <1>2 DEF Push, AppInv, PagesInv, CreateWaits, Idle, listVars
<1>3. CASE OpenCall
  <2>1. Push("CallDetail") /\ Ask("CallDetail") /\ card' = NoCard /\ alone' = Quiet /\ sheet = NoSheet
    BY <1>3 DEF OpenCall, Pressed
  <2>2. Top = "Home"
    BY <1>1, <1>3, HomeShows DEF OpenCall, Pressed, AppInv
  <2>3. StackInv' /\ Top' = "CallDetail"
    BY <1>1, <2>1, <2>2, Pushes DEF Push, Screens
  <2>4. CardTyped' /\ GetsTyped' /\ card'.shown = FALSE
    BY <2>1, AskTyped DEF CardTyped, NoCard, AppInv, PagesInv, Screens
  <2>5. CreateWaits'
    BY <1>2, <2>1, <2>2, <2>3 DEF Screens
  <2>6. Quiet => CardInv'
    BY <2>1, <2>3, <2>4, AskedAlone DEF Push
  <2> QED
    BY <2>1, <2>3, <2>4, <2>5, <2>6 DEF PagesInv, ChipsInv
<1>4. CASE OpenContact \/ \E l \in ListScreens : OpenList(l)
  <2>1. PICK s \in ListScreens \cup {"ContactDetail"} :
            /\ Push(s) /\ Ask(s) /\ UNCHANGED <<card, alone>>
            /\ Top \in {"Home", "ContactsList"}
            /\ Top = "ContactsList" <=> s = "ContactDetail"
    <3>1. CASE OpenContact
      BY <1>1, <3>1, ContactsShows DEF OpenContact, Pressed, AppInv, ListScreens
    <3>2. ASSUME NEW l \in ListScreens, OpenList(l)
          PROVE  /\ Push(l) /\ Ask(l) /\ UNCHANGED <<card, alone>>
                 /\ Top = "Home" /\ l # "ContactDetail"
      BY <1>1, <3>2, HomeShows DEF OpenList, Pressed, AppInv, ListScreens
    <3> QED
      BY <1>4, <3>1, <3>2
  <2>2. s \in Screens
    BY DEF Screens
  <2>3. StackInv' /\ Top' = s /\ (InDetail' <=> InDetail)
    BY <1>1, <2>1, <2>2, Pushes DEF Push, ListScreens
  <2>4. CardTyped' /\ GetsTyped'
    BY <2>1, <2>2, AskTyped DEF CardTyped, AppInv, PagesInv
  <2>5. CreateWaits'
    BY <1>2, <2>1, <2>2, <2>3
  <2>6. ~InDetail
    BY <1>1, <2>1
  <2> QED
    BY <2>3, <2>4, <2>5, <2>6 DEF PagesInv, ChipsInv
<1>5. CASE OpenAdd
  <2>1. /\ Push("AddContact") /\ UNCHANGED <<card, loads, alone>>
        /\ Top \in {"CallDetail", "VipList", "BlockList", "ContactsList"} /\ "new" \in Shows
    BY <1>5 DEF OpenAdd, Pressed
  <2>2. StackInv' /\ Top' = "AddContact" /\ (InDetail' <=> InDetail)
    BY <1>1, <2>1, Pushes DEF Push, Screens
  <2>3. CardTyped' /\ GetsTyped'
    BY <2>1 DEF CardTyped, GetsTyped, AppInv, PagesInv
  <2>4. CreateWaits'
    BY <1>2, <2>1, <2>2 DEF Screens
  <2>5. ASSUME InDetail, alone PROVE CardInv'
    <3>1. card.shown /\ CardInv
      BY <1>1, <2>1, <2>5, DetailShows DEF AppInv, ChipsInv
    <3>2. UNCHANGED <<listVars, who, out, mine>>
      BY <2>1 DEF Push
    <3>3. OneRequest' /\ OfDetail' /\ Showing'
      BY <2>1, <3>1, <3>2 DEF CardInv, OneRequest, OfDetail, Showing, Idle, Running, listVars
    <3> QED
      BY <2>1, <3>1, <3>3 DEF CardInv
  <2> QED
    BY <2>1, <2>2, <2>3, <2>4, <2>5 DEF PagesInv, ChipsInv
<1> QED
  BY <1>3, <1>4, <1>5

LEMMA RefreshChips ==
  ASSUME AppInv, Refresh
  PROVE  PagesInv' /\ ChipsInv'
<1>1. /\ Ask(Top) /\ UNCHANGED <<listVars, who, stack, card, sheet, out, mine, alone>>
      /\ "refresh" \in Shows \/ "retry" \in Shows
  BY DEF Refresh, Pressed
<1>2. StackInv' /\ CardTyped' /\ CreateWaits'
  BY <1>1 DEF AppInv, PagesInv, StackInv, CardTyped, CreateWaits, Top, Idle, listVars
<1>3. GetsTyped'
  BY <1>1, AskTyped, TopIsScreen DEF AppInv, PagesInv
<1>4. ASSUME alone, InDetail PROVE CardInv'
  <2>1. Top = "CallDetail"
    BY <1>1, <1>4, DetailTop, AddContactShows DEF AppInv, PagesInv
  <2>2. ~card.shown /\ \A g \in loads : g.scr # "CallDetail"
    BY <1>1, <2>1, DetailShows
  <2>3. OneRequest /\ OfDetail /\ Waiting
    BY <1>4, <2>2 DEF AppInv, ChipsInv, CardInv
  <2>4. loads' = {[scr |-> "CallDetail", ph |-> "sent", saw |-> NoRow]}
    BY <1>1, <2>1, <2>2, <2>3 DEF Ask, Waiting
  <2>5. OneRequest' /\ OfDetail'
    BY <1>1, <2>3 DEF OneRequest, OfDetail, Idle, Running, listVars
  <2>6. Waiting'
    BY <1>1, <2>3, <2>4 DEF Waiting, Top, Idle, listVars
  <2> QED
    BY <1>1, <2>2, <2>5, <2>6 DEF CardInv
<1> QED
  BY <1>1, <1>2, <1>3, <1>4 DEF PagesInv, ChipsInv, InDetail

\* What is forgotten is still asked for.
LEMMA Forgotten ==
  ASSUME OutTyped, NEW S, NEW M, Forget(S, M)
  PROVE  /\ \A q \in out' : \E p \in out : q.t = p.t /\ (q.awaited <=> p.awaited /\ p.t.op \notin S)
         /\ out = {} => out' = {}
         /\ (\A p, q \in out : p = q) => \A p, q \in out' : p = q
         /\ mine' = {s \in M : tx[s].op \notin S}
<1>1. out' = {[q EXCEPT !.awaited = q.awaited /\ q.t.op \notin S] : q \in out}
  BY DEF Forget
<1>2. ASSUME NEW q \in out'
      PROVE  \E p \in out : q.t = p.t /\ (q.awaited <=> p.awaited /\ p.t.op \notin S)
  BY <1>1 DEF OutTyped
<1> QED
  BY <1>1, <1>2 DEF Forget

LEMMA BackChips ==
  ASSUME AppInv, Back
  PROVE  PagesInv' /\ ChipsInv'
<1>1. /\ Len(stack) > 1 /\ stack' = Front(stack)
      /\ loads' = {g \in loads : g.scr # Top} /\ Forget(OfTop, mine)
      /\ card' = (IF Top = "CallDetail" THEN NoCard ELSE card)
      /\ UNCHANGED <<listVars, who, alone>>
  BY DEF Back, Leave
<1>2. /\ StackInv' /\ (InDetail' => InDetail /\ Top = "AddContact" /\ Top' = "CallDetail")
      /\ Top' # "AddContact"
  BY <1>1, Pops DEF AppInv, PagesInv
<1>3. /\ \A q \in out' : \E p \in out : q.t = p.t /\ (q.awaited <=> p.awaited /\ p.t.op \notin OfTop)
      /\ out = {} => out' = {}
      /\ (\A p, q \in out : p = q) => \A p, q \in out' : p = q
      /\ mine' = {s \in mine : tx[s].op \notin OfTop}
  BY <1>1, Forgotten DEF AppInv, ScreensInv
<1>4. CardTyped' /\ GetsTyped'
  BY <1>1 DEF AppInv, PagesInv, CardTyped, GetsTyped, NoCard
<1>5. CreateWaits'
  <2>1. "createContact" \in OfTop
    BY DEF OfTop, Ops, ContactOps
  <2>2. \A q \in out' : ~(q.awaited /\ q.t.op = "createContact")
    BY <1>3, <2>1
  <2>3. \A s \in mine' : s \in Slots /\ tx'[s].ph # "idle" /\ tx'[s].op # "createContact"
    BY <1>1, <1>3, <2>1 DEF AppInv, PagesInv, CreateWaits, Idle, listVars
  <2> QED
    BY <2>2, <2>3 DEF CreateWaits, Idle
<1>6. ASSUME alone, InDetail, Top = "AddContact" PROVE CardInv'
  <2>1. OneRequest /\ OfDetail /\ Showing /\ card.shown
    BY <1>6 DEF AppInv, ChipsInv, CardInv, Waiting
  <2>2. OneRequest'
    BY <1>1, <1>3, <2>1 DEF OneRequest, Idle, listVars
  <2>3. OfTop = {"createContact"}
    BY <1>6 DEF OfTop
  <2>4. OfDetail'
    <3>1. \A q \in out' : /\ q.t.op \in DetailOps /\ q.t.n = who
                          /\ q.awaited \/ q.t.op = "createContact"
      BY <1>3, <2>1, <2>3 DEF OfDetail
    <3>2. \A s \in Slots : s \in mine /\ tx[s].op # "createContact" => s \in mine'
      BY <1>3, <2>3
    <3> QED
      BY <1>1, <2>1, <3>1, <3>2 DEF OfDetail, Idle, Running, listVars
  <2>5. Showing' /\ card' = card
    BY <1>1, <1>6, <2>1 DEF Showing, listVars
  <2> QED
    BY <2>1, <2>2, <2>4, <2>5 DEF CardInv
<1> QED
  BY <1>1, <1>2, <1>4, <1>5, <1>6 DEF PagesInv, ChipsInv

\* The detail that arrives is what the lists say.
LEMMA LoadsChips ==
  ASSUME AppInv, NEW g \in loads,
         \/ ReadRows(g) \/ GotContact(g) \/ GotList(g) \/ LoadLost(g)
         \/ \E label \in BOOLEAN : GotCall(g, label)
  PROVE  PagesInv' /\ ChipsInv'
<1>1. UNCHANGED <<listVars, who, stack, sheet, out, mine, alone>>
  BY DEF ReadRows, GotContact, GotList, LoadLost, GotCall, Got
<1>2. StackInv' /\ CreateWaits'
  BY <1>1 DEF AppInv, PagesInv, StackInv, CreateWaits, Top, Idle, listVars
<1>3. g \in [scr : Screens, ph : {"sent", "read"}, saw : Rows]
  BY DEF AppInv, PagesInv, GetsTyped
<1>4. PICK h : h = [g EXCEPT !.ph = "read", !.saw = rows[who]]
  OBVIOUS
<1>5. /\ h \in [scr : Screens, ph : {"sent", "read"}, saw : Rows]
      /\ h.scr = g.scr /\ h.saw = rows[who]
  BY <1>3, <1>4 DEF AppInv, ScreensInv, ListsInv, Typed
<1>6. \/ ReadRows(g) /\ loads' = (loads \ {g}) \cup {h} /\ card' = card
      \/ GotCall(g, TRUE) \/ GotCall(g, FALSE)
      \/ g.scr # "CallDetail" /\ loads' = loads \ {g} /\ card' = card
      \/ loads' = loads \ {g} /\ card' = card /\ LoadLost(g)
  BY <1>4 DEF ReadRows, GotContact, GotList, LoadLost, GotCall, Got, ListScreens
<1>7. ASSUME NEW label \in BOOLEAN, GotCall(g, label)
      PROVE  /\ CardTyped' /\ loads' = loads \ {g} /\ g.scr = "CallDetail" /\ g.ph = "read"
             /\ card'.shown = TRUE /\ card'.vip = g.saw.vip /\ card'.blk = g.saw.block
  <2>1. card' = [card EXCEPT !.shown = TRUE, !.vip = g.saw.vip, !.blk = g.saw.block,
                             !.con = (g.saw.con = "live"), !.label = label]
    BY <1>7 DEF GotCall
  <2>2. g.saw.vip \in BOOLEAN /\ g.saw.block \in BOOLEAN /\ (g.saw.con = "live") \in BOOLEAN
    BY <1>3 DEF Rows
  <2>3. card \in [shown : BOOLEAN, vip : BOOLEAN, blk : BOOLEAN, spam : BOOLEAN,
                  con : BOOLEAN, label : BOOLEAN]
    BY DEF AppInv, PagesInv, CardTyped
  <2>4. CardTyped'
    BY <2>1, <2>2, <2>3 DEF CardTyped
  <2> QED
    BY <1>7, <2>1, <2>3, <2>4 DEF GotCall, Got
<1>8. CardTyped' /\ GetsTyped'
  BY <1>5, <1>6, <1>7 DEF AppInv, PagesInv, CardTyped, GetsTyped
<1>9. ASSUME alone, InDetail PROVE CardInv'
  <2>1. OneRequest /\ OfDetail /\ Waiting /\ ~card.shown
    BY <1>9 DEF AppInv, ChipsInv, CardInv, Showing
  <2>2. OneRequest' /\ OfDetail'
    BY <1>1, <2>1 DEF OneRequest, OfDetail, Idle, Running, listVars
  <2>3. loads = {g} /\ g.scr = "CallDetail" /\ (g.ph = "read" => g.saw = rows[who])
    BY <2>1 DEF Waiting
  <2>4. \A s \in Slots : tx'[s].ph = "idle"
    BY <1>1, <2>1 DEF Waiting, Idle, listVars
  <2>5. ASSUME loads' \subseteq {h}, card' = card PROVE CardInv'
    <3>1. Waiting'
      BY <1>1, <1>5, <2>1, <2>3, <2>4, <2>5 DEF Waiting, Top, Idle, listVars
    <3> QED
      BY <2>1, <2>2, <2>5, <3>1 DEF CardInv
  <2>6. ASSUME NEW label \in BOOLEAN, GotCall(g, label) PROVE CardInv'
    <3>1. Showing'
      BY <1>1, <1>7, <2>3, <2>4, <2>6 DEF Showing, listVars
    <3> QED
      BY <1>7, <2>2, <2>6, <3>1 DEF CardInv
  <2> QED
    BY <1>6, <2>3, <2>5, <2>6
<1> QED
  BY <1>1, <1>2, <1>8, <1>9 DEF PagesInv, ChipsInv, InDetail

\* A request reaches the API.
LEMMA ArriveChips ==
  ASSUME AppInv, NEW s \in Slots, NEW q \in out, Arrive(q, s)
  PROVE  PagesInv' /\ ChipsInv'
<1>1. /\ Idle(s) /\ DOMAIN tx = Slots /\ q.t.n \in Numbers /\ q.t \in Asks
      /\ UNCHANGED <<rows, who, stack, card, loads, sheet, alone>>
      /\ out' = out \ {q} /\ mine' = (IF q.awaited THEN mine \cup {s} ELSE mine)
  <2>1. q.t \in Requests /\ q.t \in Asks
    BY AsksAreRequests DEF AppInv, ScreensInv, OutTyped
  <2> QED
    BY <2>1 DEF Arrive, Begin, ScreenUnchanged, AppInv, ScreensInv, ListsInv, Typed, Requests, Asked
<1>2. PICK u : /\ tx' = [tx EXCEPT ![s] = u] /\ u.op = q.t.op /\ u.n = q.t.n
               /\ \/ u.ph = "refused"
                  \/ u.ph = "looked" /\ u.saw = rows[q.t.n]
  <2>1. q.t \in Requests
    BY <1>1, AsksAreRequests
  <2>2. PICK u : /\ tx' = [tx EXCEPT ![s] = u]
                 /\ \/ u = Answered(q.t, "refused")
                    \/ u = [q.t EXCEPT !.saw = rows[q.t.n], !.ph = "looked"]
    BY DEF Arrive, Begin
  <2>3. Answered(q.t, "refused").op = q.t.op /\ Answered(q.t, "refused").n = q.t.n
        /\ Answered(q.t, "refused").ph = "refused"
    BY DEF Answered, NoTx
  <2> QED
    BY <2>1, <2>2, <2>3 DEF Requests, Asked
<1>3. tx'[s] = u /\ \A z \in Slots : z # s => tx'[z] = tx[z]
  BY <1>1, <1>2
<1>4. StackInv' /\ CardTyped' /\ GetsTyped'
  BY <1>1 DEF AppInv, PagesInv, StackInv, CardTyped, GetsTyped
<1>5. CreateWaits'
  BY <1>1, <1>2, <1>3 DEF AppInv, PagesInv, CreateWaits, Top, Idle
<1>6. ASSUME alone, InDetail PROVE CardInv'
  <2>1. OneRequest /\ OfDetail /\ Showing /\ card.shown
    BY <1>6 DEF AppInv, ChipsInv, CardInv, Waiting
  <2>2. out' = {} /\ q.t.op \in DetailOps /\ q.t.n = who /\ (q.awaited \/ q.t.op = "createContact")
        /\ \A z \in Slots : Idle(z)
    BY <1>1, <2>1 DEF OneRequest, OfDetail
  <2>3. OneRequest' /\ OfDetail'
    BY <1>1, <1>2, <1>3, <2>2 DEF OneRequest, OfDetail, Idle, Running
  <2>4. Showing'
    BY <1>1, <1>2, <1>3, <2>1, <2>2 DEF Showing, Idle
  <2> QED
    BY <1>1, <2>1, <2>3, <2>4 DEF CardInv
<1> QED
  BY <1>1, <1>4, <1>5, <1>6 DEF PagesInv, ChipsInv, InDetail

\* The card guesses right what the API makes of rows that nobody else writes.
LEMMA GuessIsRight ==
  ASSUME NEW r \in Rows, NEW t, t.saw = r, t.op \in DetailOps, NEW a, a = After(t, r)
  PROVE  a.vip = VipAfter(t.op, r.vip) /\ a.block = BlkAfter(t.op, r.block)
<1>1. \A x \in Rows, v, b \in BOOLEAN :
        Contact(x, v, b) \in Rows /\ Contact(x, v, b).vip = x.vip /\ Contact(x, v, b).block = x.block
  BY ContactKeepsLists
<1>2. \A x \in Rows : NoSpam(x, r) \in Rows /\ NoSpam(x, r).vip = x.vip /\ NoSpam(x, r).block = x.block
  BY NoSpamKeepsLists
<1>3. r.vip \in BOOLEAN /\ r.block \in BOOLEAN /\ r.cvip \in BOOLEAN /\ r.cblk \in BOOLEAN
  BY DEF Rows
<1> DEFINE vip   == [r EXCEPT !.vip = Inserted(r.vip, r.vip), !.block = Deleted(r.block, r.block)]
           block == [r EXCEPT !.block = Inserted(r.block, r.block), !.vip = Deleted(r.vip, r.vip)]
           plain == [r EXCEPT !.vip = Deleted(r.vip, r.vip)]
           free  == [r EXCEPT !.block = Deleted(r.block, r.block)]
<1>4. /\ vip \in Rows /\ vip.vip = TRUE /\ vip.block = FALSE
      /\ block \in Rows /\ block.block = TRUE /\ block.vip = FALSE
      /\ plain \in Rows /\ plain.vip = FALSE /\ plain.block = r.block
      /\ free \in Rows /\ free.block = FALSE /\ free.vip = r.vip
  BY DEF Inserted, Deleted, Rows
<1> HIDE DEF vip, block, plain, free
<1>5. MadeVip(r, r).vip = TRUE /\ MadeVip(r, r).block = FALSE
  <2>1. NoSpam(vip, r) \in Rows /\ NoSpam(vip, r).vip = TRUE /\ NoSpam(vip, r).block = FALSE
    BY <1>2, <1>4
  <2>2. Contact(NoSpam(vip, r), TRUE, FALSE).vip = TRUE
        /\ Contact(NoSpam(vip, r), TRUE, FALSE).block = FALSE
    BY <1>1, <2>1
  <2> QED
    BY <2>2 DEF MadeVip, vip
<1>6. NoVip(r, r).vip = FALSE /\ NoVip(r, r).block = r.block
  <2>0. plain \in Rows /\ plain.vip = FALSE /\ plain.block = r.block /\ r.cblk \in BOOLEAN
    BY <1>3, <1>4
  <2>1. Contact(plain, FALSE, r.cblk).vip = FALSE /\ Contact(plain, FALSE, r.cblk).block = r.block
    BY <1>1, <2>0
  <2>2. NoVip(r, r) = Contact(plain, FALSE, r.cblk)
    BY DEF NoVip, plain
  <2> QED
    BY <2>1, <2>2
<1>7. MadeBlocked(r, r) \in Rows /\ MadeBlocked(r, r).block = TRUE /\ MadeBlocked(r, r).vip = FALSE
  BY <1>1, <1>4 DEF MadeBlocked, block
<1>8. Unmarked(r, r).block = FALSE /\ Unmarked(r, r).vip = r.vip
  <2>1. NoBlock(r, r) \in Rows /\ NoBlock(r, r).block = FALSE /\ NoBlock(r, r).vip = r.vip
    <3>1. /\ Contact(free, r.cvip, FALSE) \in Rows /\ Contact(free, r.cvip, FALSE).block = FALSE
          /\ Contact(free, r.cvip, FALSE).vip = r.vip
      <4>1. free \in Rows /\ free.block = FALSE /\ free.vip = r.vip /\ r.cvip \in BOOLEAN
        BY <1>3, <1>4
      <4> QED
        BY <1>1, <4>1
    <3>2. NoBlock(r, r) = Contact(free, r.cvip, FALSE)
      BY DEF NoBlock, free
    <3> QED
      BY <3>1, <3>2
  <2> QED
    BY <1>2, <2>1 DEF Unmarked
<1>9. CASE t.op = "markVip"
  BY <1>5, <1>9 DEF After, VipAfter, BlkAfter
<1>10. CASE t.op = "unmarkVip"
  BY <1>6, <1>10 DEF After, VipAfter, BlkAfter
<1>11. CASE t.op = "markBlocked"
  <2>1. a = NoSpam(MadeBlocked(r, r), r)
    BY <1>11 DEF After
  <2> QED
    BY <1>2, <1>7, <1>11, <2>1 DEF VipAfter, BlkAfter
<1>12. CASE t.op = "markSpam"
  BY <1>7, <1>12 DEF After, VipAfter, BlkAfter
<1>13. CASE t.op = "unmarkBlocked"
  BY <1>8, <1>13 DEF After, VipAfter, BlkAfter
<1>14. CASE t.op \in {"createContact", "deleteContact"}
  <2>1. a.vip = r.vip /\ a.block = r.block
    BY <1>14 DEF After, Created, Rows
  <2> QED
    BY <1>14, <2>1 DEF VipAfter, BlkAfter
<1> QED
  BY <1>9, <1>10, <1>11, <1>12, <1>13, <1>14 DEF DetailOps, MarkOps

\* The API has done what it was asked for, or could not.
LEMMA ServerChips ==
  ASSUME AppInv, Server
  PROVE  PagesInv' /\ ChipsInv'
<1>1. PICK s \in Slots : CommitTx(s) \/ AbortTx(s)
  BY DEF Server
<1>2. UNCHANGED <<who, stack, card, loads, sheet, out, mine, alone>>
  BY DEF Server, appVars
<1>3. Running(s) /\ DOMAIN tx = Slots /\ tx[s].n \in Numbers /\ rows \in [Numbers -> Rows]
  BY <1>1 DEF CommitTx, AbortTx, AppInv, ScreensInv, ListsInv, Typed, Looked, Asked
<1>4. PICK u : /\ tx' = [tx EXCEPT ![s] = u] /\ u.op = tx[s].op /\ u.n = tx[s].n
               /\ \/ u.ph = "refused" /\ rows' = rows
                  \/ u.ph = "ok" /\ rows' = [rows EXCEPT ![tx[s].n] = After(tx[s], rows[tx[s].n])]
  <2>1. PICK ph \in {"refused", "ok"} :
               /\ tx' = [tx EXCEPT ![s] = Answered(tx[s], ph)]
               /\ \/ ph = "refused" /\ rows' = rows
                  \/ ph = "ok" /\ rows' = [rows EXCEPT ![tx[s].n] = After(tx[s], rows[tx[s].n])]
    BY <1>1 DEF CommitTx, AbortTx
  <2>2. \A t : Answered(t, ph).op = t.op /\ Answered(t, ph).n = t.n /\ Answered(t, ph).ph = ph
    BY DEF Answered, NoTx
  <2> QED
    BY <2>1, <2>2
<1>5. tx'[s] = u /\ \A z \in Slots : z # s => tx'[z] = tx[z]
  BY <1>3, <1>4
<1>6. StackInv' /\ CardTyped' /\ GetsTyped'
  BY <1>2 DEF AppInv, PagesInv, StackInv, CardTyped, GetsTyped
<1>7. CreateWaits'
  BY <1>2, <1>4, <1>5 DEF AppInv, PagesInv, CreateWaits, Top, Idle
<1>8. ASSUME alone, InDetail PROVE CardInv'
  <2>1. OneRequest /\ OfDetail /\ Showing /\ card.shown
    BY <1>3, <1>8 DEF AppInv, ChipsInv, CardInv, Waiting, Idle, Running
  <2>2. /\ out = {} /\ tx[s].op \in DetailOps /\ tx[s].n = who /\ tx[s].saw = rows[who]
        /\ s \in mine \/ tx[s].op = "createContact"
        /\ \A z \in Slots : z # s => tx[z].ph = "idle"
    BY <1>3, <2>1 DEF OneRequest, OfDetail, Idle, Running
  <2>3. OneRequest' /\ OfDetail'
    BY <1>2, <1>4, <1>5, <2>2 DEF OneRequest, OfDetail, Idle, Running
  <2>4. card.vip = rows[who].vip /\ card.blk = rows[who].block /\ loads = {}
    BY <1>3, <2>1, <2>2 DEF Showing, Running
  <2>5. CASE u.ph = "refused" /\ rows' = rows
    <3>1. Showing'
      BY <1>2, <1>5, <2>2, <2>4, <2>5 DEF Showing
    <3> QED
      BY <1>2, <2>1, <2>3, <3>1 DEF CardInv
  <2>6. CASE u.ph = "ok" /\ rows' = [rows EXCEPT ![tx[s].n] = After(tx[s], rows[tx[s].n])]
    <3>1. PICK a : a = After(tx[s], rows[who])
      OBVIOUS
    <3>2. a.vip = VipAfter(tx[s].op, card.vip) /\ a.block = BlkAfter(tx[s].op, card.blk)
      BY <1>3, <2>2, <2>4, <3>1, GuessIsRight
    <3>3. rows'[who] = a
      BY <1>3, <2>2, <2>6, <3>1
    <3>4. Showing'
      BY <1>2, <1>4, <1>5, <2>2, <2>4, <2>6, <3>2, <3>3 DEF Showing
    <3> QED
      BY <1>2, <2>1, <2>3, <3>4 DEF CardInv
  <2> QED
    BY <1>4, <2>5, <2>6
<1> QED
  BY <1>2, <1>6, <1>7, <1>8 DEF PagesInv, ChipsInv, InDetail

\* An answer that nobody waits for is about a contact.
LEMMA UnseenChips ==
  ASSUME AppInv, NEW s \in Slots, AnswerUnseen(s)
  PROVE  PagesInv' /\ ChipsInv'
<1>1. /\ s \notin mine /\ tx[s].ph \in {"ok", "refused"} /\ tx' = [tx EXCEPT ![s] = NoTx]
      /\ UNCHANGED <<rows, who, stack, card, loads, sheet, out, mine, alone>> /\ DOMAIN tx = Slots
  BY DEF AnswerUnseen, Close, ScreenUnchanged, AppInv, ScreensInv, ListsInv, Typed
<1>2. tx'[s].ph = "idle" /\ \A z \in Slots : z # s => tx'[z] = tx[z]
  BY <1>1 DEF NoTx
<1>3. StackInv' /\ CardTyped' /\ GetsTyped'
  BY <1>1 DEF AppInv, PagesInv, StackInv, CardTyped, GetsTyped
<1>4. CreateWaits'
  BY <1>1, <1>2 DEF AppInv, PagesInv, CreateWaits, Top, Idle
<1>5. ASSUME alone, InDetail PROVE CardInv'
  <2>1. OneRequest /\ OfDetail /\ Showing /\ card.shown
    BY <1>1, <1>5 DEF AppInv, ChipsInv, CardInv, Waiting, Idle
  <2>2. /\ out = {} /\ tx[s].op = "createContact"
        /\ \A z \in Slots : z # s => tx[z].ph = "idle"
    BY <1>1, <2>1 DEF OneRequest, OfDetail, Idle
  <2>3. OneRequest' /\ OfDetail'
    BY <1>1, <1>2, <2>2 DEF OneRequest, OfDetail, Idle, Running
  <2>4. VipAfter(tx[s].op, card.vip) = card.vip /\ BlkAfter(tx[s].op, card.blk) = card.blk
    BY <2>2 DEF VipAfter, BlkAfter
  <2>5. card.vip = rows[who].vip /\ card.blk = rows[who].block
    BY <1>1, <2>1, <2>2, <2>4 DEF Showing
  <2>6. Showing'
    BY <1>1, <1>2, <2>1, <2>2, <2>5 DEF Showing
  <2> QED
    BY <1>1, <2>1, <2>3, <2>6 DEF CardInv
<1> QED
  BY <1>1, <1>3, <1>4, <1>5 DEF PagesInv, ChipsInv, InDetail

\* What an answer does to the card.
LEMMA CardSays ==
  ASSUME CardTyped, NEW op, NEW ok \in BOOLEAN, card' = IF ok THEN CardAfter(op) ELSE card
  PROVE  /\ CardTyped' /\ card'.shown = card.shown
         /\ ok => card'.vip = VipAfter(op, card.vip) /\ card'.blk = BlkAfter(op, card.blk)
         /\ ~ok => card' = card
<1>1. CASE ~ok
  BY <1>1 DEF CardTyped
<1>2. CASE ok /\ op \in MarkOps
  BY <1>2 DEF CardTyped, CardAfter, VipAfter, BlkAfter, MarkOps
<1>3. CASE ok /\ op \notin MarkOps
  BY <1>3 DEF CardTyped, CardAfter, VipAfter, BlkAfter, MarkOps
<1> QED
  BY <1>1, <1>2, <1>3

\* An answer that the screen sees.
LEMMA AnswerChips ==
  ASSUME AppInv, NEW s \in Slots, Answer(s)
  PROVE  PagesInv' /\ ChipsInv'
<1> DEFINE ok == tx[s].ph = "ok"
           op == tx[s].op
<1>1. /\ s \in mine /\ tx[s].ph \in {"ok", "refused"} /\ tx' = [tx EXCEPT ![s] = NoTx]
      /\ Forget(IF ok /\ Closes(op) THEN OfTop ELSE {}, mine \ {s}) /\ Done(op, ok)
      /\ UNCHANGED <<rows, who, alone>> /\ DOMAIN tx = Slots
  BY DEF Answer, Close, AppInv, ScreensInv, ListsInv, Typed
<1>2. ok \in BOOLEAN
  OBVIOUS
<1> HIDE DEF ok, op
<1>3. tx'[s].ph = "idle" /\ \A z \in Slots : z # s => tx'[z] = tx[z]
  BY <1>1 DEF NoTx
<1>4. PICK S : /\ Forget(S, mine \ {s}) /\ S = IF ok /\ Closes(op) THEN OfTop ELSE {}
  BY <1>1
<1>5. /\ \A q \in out' : \E p \in out : q.t = p.t /\ (q.awaited <=> p.awaited /\ p.t.op \notin S)
      /\ out = {} => out' = {}
      /\ mine' = {z \in mine \ {s} : tx[z].op \notin S}
  BY <1>4, Forgotten DEF AppInv, ScreensInv
<1>6. /\ CardTyped' /\ card'.shown = card.shown
      /\ ok => card'.vip = VipAfter(op, card.vip) /\ card'.blk = BlkAfter(op, card.blk)
      /\ ~ok => card' = card
  <2>1. card' = IF ok THEN CardAfter(op) ELSE card
    BY <1>1 DEF Done
  <2> QED
    BY <1>2, <2>1, CardSays DEF AppInv, PagesInv
<1>7. ASSUME alone, InDetail
      PROVE  /\ op # "updateContact" /\ card.shown /\ loads = {}
             /\ out' = {} /\ \A z \in Slots : tx'[z].ph = "idle"
             /\ card'.vip = rows[who].vip /\ card'.blk = rows[who].block
  <2>1. OneRequest /\ OfDetail /\ Showing /\ card.shown
    BY <1>1, <1>7 DEF AppInv, ChipsInv, CardInv, Waiting, Idle
  <2>2. out = {} /\ op \in DetailOps /\ \A z \in Slots : z # s => tx[z].ph = "idle"
    BY <1>1, <2>1 DEF OneRequest, OfDetail, Idle, op
  <2>3. card'.vip = rows[who].vip /\ card'.blk = rows[who].block
    <3>1. CASE ok
      BY <1>6, <2>1, <3>1 DEF Showing, ok, op
    <3>2. CASE ~ok
      BY <1>6, <2>1, <2>2, <3>2 DEF Showing, ok
    <3> QED
      BY <3>1, <3>2
  <2> QED
    BY <1>3, <1>5, <2>1, <2>2, <2>3 DEF DetailOps, MarkOps, Showing
<1>8. ASSUME alone, InDetail, loads' = {} PROVE CardInv'
  <2>1. OneRequest' /\ OfDetail'
    BY <1>7, <1>8 DEF OneRequest, OfDetail, Idle
  <2>2. Showing' /\ card'.shown
    BY <1>1, <1>6, <1>7, <1>8 DEF Showing
  <2> QED
    BY <2>1, <2>2 DEF CardInv
<1>9. CASE ~(ok /\ Closes(op))
  <2>1. stack' = stack /\ S = {}
    BY <1>1, <1>4, <1>9 DEF Done
  <2>2. loads' = loads \/ (Ask("ContactDetail") /\ op = "updateContact")
    BY <1>1, <1>9 DEF Done
  <2>3. StackInv' /\ CardTyped' /\ GetsTyped'
    BY <1>6, <2>1, <2>2, AskTyped DEF AppInv, PagesInv, StackInv, GetsTyped, Screens
  <2>4. CreateWaits'
    <3>1. \A q \in out' : q.awaited /\ q.t.op = "createContact" => Top = "AddContact"
      BY <1>5 DEF AppInv, PagesInv, CreateWaits
    <3>2. \A z \in mine' : z \in Slots /\ tx'[z].ph # "idle" /\ (tx'[z].op = "createContact" => Top = "AddContact")
      BY <1>3, <1>5 DEF AppInv, PagesInv, CreateWaits, Idle
    <3> QED
      BY <2>1, <3>1, <3>2 DEF CreateWaits, Idle, Top
  <2> QED
    BY <1>1, <1>7, <1>8, <2>1, <2>2, <2>3, <2>4 DEF PagesInv, ChipsInv, InDetail
<1>10. CASE ok /\ Closes(op)
  <2>1. Top \in {"AddContact", "ContactDetail"}
    BY <1>1, <1>10 DEF Closes, op, AppInv, PagesInv, CreateWaits
  <2>2. stack' = Front(stack) /\ loads' = {g \in loads : g.scr # Top} /\ S = OfTop
    BY <1>1, <1>4, <1>10 DEF Done, Leave
  <2>3. Len(stack) > 1
    BY <2>1, TopIsScreen DEF AppInv, PagesInv, StackInv
  <2>4. StackInv' /\ (InDetail' => InDetail) /\ Top' # "AddContact"
    BY <2>2, <2>3, Pops DEF AppInv, PagesInv
  <2>5. GetsTyped'
    BY <2>2 DEF AppInv, PagesInv, GetsTyped
  <2>6. CreateWaits'
    <3>1. "createContact" \in S
      BY <2>2 DEF OfTop, Ops, ContactOps
    <3>2. \A q \in out' : ~(q.awaited /\ q.t.op = "createContact")
      BY <1>5, <3>1
    <3>3. \A z \in mine' : z \in Slots /\ tx'[z].ph # "idle" /\ tx'[z].op # "createContact"
      BY <1>3, <1>5, <3>1 DEF AppInv, PagesInv, CreateWaits, Idle
    <3> QED
      BY <3>2, <3>3 DEF CreateWaits, Idle
  <2>7. loads = {} => loads' = {}
    BY <2>2
  <2> QED
    BY <1>1, <1>6, <1>7, <1>8, <2>4, <2>5, <2>6, <2>7 DEF PagesInv, ChipsInv
<1> QED
  BY <1>9, <1>10

\* Of what is lost or asked for elsewhere no screen says anything more.
LEMMA ElsewhereChips ==
  ASSUME AppInv, NEW s \in Slots, NEW op \in Ops, NEW a \in Args(op), Elsewhere(s, op, a)
  PROVE  PagesInv' /\ ChipsInv'
<1>1. /\ UNCHANGED <<stack, card, loads, out, mine>> /\ alone' = FALSE /\ Idle(s)
      /\ \A z \in Slots : z # s => tx'[z] = tx[z]
  BY DEF Elsewhere, Begin, ScreenUnchanged, AppInv, ScreensInv, ListsInv, Typed
<1>2. StackInv' /\ CardTyped' /\ GetsTyped'
  BY <1>1 DEF AppInv, PagesInv, StackInv, CardTyped, GetsTyped
<1>3. CreateWaits'
  BY <1>1 DEF AppInv, PagesInv, CreateWaits, Top, Idle
<1> QED
  BY <1>1, <1>2, <1>3 DEF PagesInv, ChipsInv

LEMMA LostChips ==
  ASSUME AppInv, Lost
  PROVE  PagesInv' /\ ChipsInv'
<1>1. alone' = FALSE /\ UNCHANGED listVars /\ out' \subseteq out /\ mine' \subseteq mine
  BY DEF Lost
<1>2. (\E op : Done(op, FALSE)) \/ UNCHANGED <<stack, card, loads>>
  BY DEF Lost, ScreenUnchanged
<1>3. UNCHANGED <<stack, card, loads>>
  BY <1>2 DEF Done
<1>4. StackInv' /\ CardTyped' /\ GetsTyped'
  BY <1>3 DEF AppInv, PagesInv, StackInv, CardTyped, GetsTyped
<1>5. CreateWaits'
  BY <1>1, <1>3 DEF AppInv, PagesInv, CreateWaits, Top, Idle, listVars
<1> QED
  BY <1>1, <1>4, <1>5 DEF PagesInv, ChipsInv

LEMMA AppStep == AppInv /\ [ScreensNext]_callerVars => AppInv'
<1> SUFFICES ASSUME AppInv, [ScreensNext]_callerVars PROVE AppInv'
  OBVIOUS
<1>1. ScreensInv'
  BY ScreensStep DEF AppInv
<1>2. PagesInv' /\ ChipsInv'
  BY OpensChips, RefreshChips, BackChips, LoadsChips, PressesChips, SaveNoteChips, SheetChips,
     FormChips, AnswerChips, UnseenChips, ArriveChips, ElsewhereChips, LostChips, ServerChips
     DEF ScreensNext
<1> QED
  BY <1>1, <1>2 DEF AppInv

\* While the user asks for one thing at a time and nobody else writes, the chips of an
\* open call say what the lists hold: whichever marks the API clears along with the one
\* it sets, the card clears too, also after contacts were made, deleted or left unmade.
THEOREM ChipsAreTrue == ScreensSpec => []ChipsMatch
<1>1. AppInv => ChipsMatch
  <2> SUFFICES ASSUME AppInv, Top = "CallDetail", card.shown, alone, Quiet
               PROVE  card.vip = rows[who].vip /\ card.blk = rows[who].block
    BY DEF ChipsMatch
  <2>1. InDetail
    BY TopIsScreen DEF AppInv, PagesInv, StackInv, InDetail, ListScreens
  <2>2. Showing
    BY <2>1 DEF AppInv, ChipsInv, CardInv
  <2> QED
    BY <2>2 DEF Showing, Quiet, Idle
<1> QED
  BY <1>1, AppStart, AppStep, PTL DEF ScreensSpec
=============================================================================
