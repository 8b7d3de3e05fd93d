------------------------------ MODULE CallFeed ------------------------------
(***************************************************************************)
(* The list of calls and a call's detail on the mobile client: the page    *)
(* endpoint, callStore, CallsListScreen and the loading half of            *)
(* CallDetailScreen.  Calls are named by the order of their creation.  A   *)
(* filter is the set of its criteria; all but the sort order keep the      *)
(* calls in Kept.  Answers arrive in any order, and each is computed when  *)
(* it arrives.                                                             *)
(***************************************************************************)
EXTENDS Naturals, FiniteSets, SequencesExt

CONSTANTS MaxCalls,  \* bound on the calls
          PageSize,
          Kept,      \* calls that a filter keeps
          Advanced   \* the criteria that the modal offers

\* A status or a recording; a country, a date or a duration; the sort order.
Criteria == {"status", "other", "oldest"}

ASSUME FeedAssumption ==
  MaxCalls \in Nat /\ PageSize \in Nat \ {0} /\ Kept \subseteq Nat /\ Advanced \subseteq Criteria

VARIABLES made,    \* calls so far
          feed,    \* calls, nextCursor, hasMore and error of the store; by: the filter shown
          pick,    \* the filters picked on the screen, the modal and the search's timer
          gets,    \* requests for a page
          series,  \* history: the list is "one" series of pages without filters, is
                   \* "asked" for, or is not ("no")
          det,     \* the detail screen and its part of the store
          asks,    \* requests for a detail or a transcript
          own      \* history: the screen opened without an older request under way

feedVars == <<made, feed, pick, gets, series>>
detVars  == <<det, asks, own>>

NoFeed == [calls |-> <<>>, cursor |-> 0, more |-> FALSE, err |-> FALSE, by |-> {},
           loadingMore |-> FALSE]
NoPick == [quick |-> FALSE, text |-> FALSE, adv |-> {}, staged |-> {}, modal |-> FALSE,
           timer |-> <<>>]
NoDetail == [route |-> 0, sel |-> 0, ready |-> "none", tr |-> 0, trLoading |-> FALSE,
             trErr |-> FALSE, err |-> FALSE, rec |-> 0, playing |-> FALSE, open |-> FALSE]

FeedInit ==
  /\ made = 0 /\ feed = NoFeed /\ pick = NoPick
  /\ gets = {[k |-> "reload", f |-> {}, cur |-> 0]} /\ series = "asked"
  /\ det = NoDetail /\ asks = {} /\ own = TRUE

If(c, S) == IF c THEN S ELSE {}

----------------------------------------------------------------------------
(* The page endpoint. *)

Narrow(f) == f \ {"oldest"} # {}

\* Mutant: the page starts with the call of the cursor.
BehindInclusive(cur) == {c \in 1 .. made : cur # 0 => c <= cur}

\* The cursor is a call, and is compared by its creation whatever the order.
Behind(cur) == {c \in 1 .. made : cur # 0 => c < cur}

Ahead(c, S, f) == {d \in S : IF "oldest" \in f THEN d < c ELSE d > c}
Sorted(S, f) ==
  [i \in 1 .. Cardinality(S) |-> CHOOSE c \in S : Cardinality(Ahead(c, S, f)) = i - 1]

\* One row more than the page is read to see whether there are more.
Page(f, cur) ==
  LET rows  == Sorted({c \in Behind(cur) : Narrow(f) => c \in Kept}, f)
      more  == Len(rows) > PageSize
      items == IF more THEN SubSeq(rows, 1, PageSize) ELSE rows
  IN  [items |-> items, more |-> more, next |-> IF more THEN Last(items) ELSE 0]

NewCall ==
  /\ made < MaxCalls /\ made' = made + 1
  /\ UNCHANGED <<feed, pick, gets, series, detVars>>

----------------------------------------------------------------------------
(* The store. *)

LoadCalls(f) ==
  /\ gets' = gets \cup {[k |-> "reload", f |-> f, cur |-> 0]}
  /\ feed' = [feed EXCEPT !.err = FALSE]
  /\ series' = IF gets = {} /\ f = {} THEN "asked" ELSE "no"
  /\ UNCHANGED <<made, detVars>>

\* The screen asks for more of the list without its filters.
EndReached ==
  /\ feed.more /\ feed.cursor # 0 /\ ~feed.loadingMore
  /\ gets' = gets \cup {[k |-> "more", f |-> {}, cur |-> feed.cursor]}
  /\ feed' = [feed EXCEPT !.err = FALSE, !.loadingMore = TRUE]
  /\ series' = IF gets = {} THEN series ELSE "no"
  /\ UNCHANGED <<made, pick, detVars>>

Reloaded(g) ==
  /\ g \in gets /\ g.k = "reload"
  /\ LET p == Page(g.f, 0) IN
     feed' = [feed EXCEPT !.calls = p.items, !.cursor = p.next, !.more = p.more, !.by = g.f]
  /\ series' = IF series = "asked" THEN "one" ELSE series
  /\ gets' = gets \ {g}
  /\ UNCHANGED <<made, pick, detVars>>

\* Appended to whatever the list is by then.
GotMore(g) ==
  /\ g \in gets /\ g.k = "more"
  /\ LET p == Page(g.f, g.cur) IN
     feed' = [feed EXCEPT !.calls = @ \o p.items, !.cursor = p.next, !.more = p.more,
                          !.loadingMore = FALSE]
  /\ gets' = gets \ {g}
  /\ UNCHANGED <<made, pick, series, detVars>>

PageFails(g) ==
  /\ g \in gets
  /\ feed' = [feed EXCEPT !.err = TRUE, !.loadingMore = @ /\ g.k = "reload"]
  /\ series' = IF g.k = "reload" THEN "no" ELSE series
  /\ gets' = gets \ {g}
  /\ UNCHANGED <<made, pick, detVars>>

----------------------------------------------------------------------------
(* The filters of CallsListScreen. *)

BuildFilters == pick.adv \cup If(pick.quick, {"quick"}) \cup If(pick.text, {"text"})

\* The modal covers the screen.  The list can be pulled down, and has a button where it is
\* empty or where an error is shown.
HeaderShows == If(~pick.modal, {"search", "filters", "presets"})
ListShows == If(~pick.modal, {"refresh"})

\* The presets are "All" and the ones that narrow; a status and a recording among the
\* advanced filters are dropped from the request, and stay picked.
QuickPresets == BOOLEAN
QuickChange(q) ==
  /\ "presets" \in HeaderShows
  /\ pick' = [pick EXCEPT !.quick = q]
  /\ LoadCalls((pick.adv \ {"status"}) \cup If(q, {"quick"}) \cup If(pick.text, {"text"}))

\* The timer keeps the filters of the moment it was set.
SearchChange(t) ==
  /\ "search" \in HeaderShows
  /\ pick' = [pick EXCEPT !.text = t,
                          !.timer = <<(BuildFilters \ {"text"}) \cup If(t, {"text"})>>]
  /\ UNCHANGED <<made, feed, gets, series, detVars>>

SearchFires ==
  /\ pick.timer # <<>>
  /\ pick' = [pick EXCEPT !.timer = <<>>]
  /\ LoadCalls(pick.timer[1])

PullRefresh == "refresh" \in ListShows /\ LoadCalls(BuildFilters) /\ UNCHANGED pick

\* What is staged in the modal is what was staged last, applied or not.
ModalShows == {"reset", "apply", "cancel"} \cup Advanced
OpenFilters ==
  /\ "filters" \in HeaderShows /\ pick' = [pick EXCEPT !.modal = TRUE]
  /\ UNCHANGED <<made, feed, gets, series, detVars>>
InModal(c) == pick.modal /\ c \in ModalShows
Stage(c) ==
  /\ InModal(c)
  /\ pick' = [pick EXCEPT !.staged = IF c \in @ THEN @ \ {c} ELSE @ \cup {c}]
  /\ UNCHANGED <<made, feed, gets, series, detVars>>
ResetStaged ==
  /\ InModal("reset") /\ pick' = [pick EXCEPT !.staged = {}]
  /\ UNCHANGED <<made, feed, gets, series, detVars>>
CancelFilters ==
  /\ InModal("cancel") /\ pick' = [pick EXCEPT !.modal = FALSE]
  /\ UNCHANGED <<made, feed, gets, series, detVars>>

ApplyAdvanced ==
  /\ InModal("apply")
  /\ pick' = [pick EXCEPT !.adv = pick.staged, !.quick = FALSE, !.modal = FALSE]
  /\ LoadCalls(pick.staged \cup If(pick.text, {"text"}))

\* The bar is there while a preset or an advanced filter is; a search goes with them, its
\* timer does not.
BarShows == ~pick.modal /\ (pick.adv # {} \/ pick.quick)
ResetBar ==
  /\ BarShows
  /\ pick' = [NoPick EXCEPT !.timer = pick.timer]
  /\ LoadCalls({})

----------------------------------------------------------------------------
(* The detail: effects of the screen and answers to the store. *)

\* Mutant: the detail of the last call stays until the next one is there.
ClearedNotSelected ==
  [det EXCEPT !.tr = 0, !.trLoading = FALSE, !.trErr = FALSE, !.err = FALSE]

Cleared ==
  [det EXCEPT !.sel = 0, !.ready = "none", !.tr = 0, !.trLoading = FALSE, !.trErr = FALSE,
              !.err = FALSE]

\* The transcript is asked for as soon as the detail says that it is ready.
Wants(d) == d.sel # 0 /\ d.ready = "ready" /\ d.tr = 0 /\ ~d.trLoading /\ ~d.trErr
Asking(k, c) == {[k |-> k, c |-> c]}

\* From a row of the list, or from a notification at any time.  A screen that is open
\* already gets a new route and keeps the rest of its local state; the effects of its
\* first render see what the store had.
OpenDetail(c) ==
  /\ c \in 1 .. made /\ c # det.route
  /\ LET new == det.route = 0 IN
     det' = [Cleared EXCEPT !.route = c, !.trLoading = Wants(det),
                            !.rec = IF new THEN 0 ELSE @, !.playing = ~new /\ @,
                            !.open = ~new /\ @]
  /\ asks' = asks \cup Asking("detail", c) \cup If(Wants(det), Asking("transcript", c))
  /\ own' = \A a \in asks : a.c = c
  /\ UNCHANGED feedVars

CloseDetail ==
  /\ det.route # 0
  /\ det' = [det EXCEPT !.route = 0, !.rec = 0, !.playing = FALSE, !.open = FALSE]
  /\ UNCHANGED <<asks, own, feedVars>>

\* Retry, and a note that was saved.
ReloadDetail ==
  /\ det.route # 0 /\ (det.sel # 0 \/ det.err)
  /\ det' = Cleared
  /\ asks' = asks \cup Asking("detail", det.route)
  /\ UNCHANGED <<own, feedVars>>

GotDetail(a, ready) ==
  /\ a \in asks /\ a.k = "detail"
  /\ LET d == [det EXCEPT !.sel = a.c, !.ready = ready]
         w == Wants(d) /\ det.route # 0
     IN  /\ det' = [d EXCEPT !.trLoading = d.trLoading \/ w]
         /\ asks' = (asks \ {a}) \cup If(w, Asking("transcript", det.route))
  /\ UNCHANGED <<own, feedVars>>

DetailFails(a) ==
  /\ a \in asks /\ a.k = "detail"
  /\ det' = [det EXCEPT !.err = TRUE]
  /\ asks' = asks \ {a}
  /\ UNCHANGED <<own, feedVars>>

GotTranscript(a) ==
  /\ a \in asks /\ a.k = "transcript"
  /\ det' = [det EXCEPT !.tr = a.c, !.trLoading = FALSE]
  /\ asks' = asks \ {a}
  /\ UNCHANGED <<own, feedVars>>

TranscriptFails(a) ==
  /\ a \in asks /\ a.k = "transcript"
  /\ det' = [det EXCEPT !.trErr = TRUE, !.trLoading = FALSE]
  /\ asks' = asks \ {a}
  /\ UNCHANGED <<own, feedVars>>

\* What the transcript's card lets the user press.
TranscriptShows ==
  If(det.tr # 0, {"unfold"})
    \cup If(det.ready = "ready" /\ ~(det.tr # 0 /\ det.open) /\ ~det.trLoading, {"load"})
    \cup If(det.ready = "failed", {"load"})

LoadTranscript ==
  /\ det.route # 0 /\ det.sel # 0 /\ "load" \in TranscriptShows
  /\ det' = [det EXCEPT !.tr = 0, !.trErr = FALSE, !.trLoading = TRUE]
  /\ asks' = asks \cup Asking("transcript", det.route)
  /\ UNCHANGED <<own, feedVars>>

UnfoldTranscript ==
  /\ det.route # 0 /\ det.sel # 0 /\ "unfold" \in TranscriptShows
  /\ det' = [det EXCEPT !.open = ~det.open]
  /\ UNCHANGED <<asks, own, feedVars>>

\* The address of the recording is kept until the player fails; there is none without a
\* token.
Player == [det EXCEPT !.playing = ~det.playing, !.rec = IF det.rec = 0 THEN det.route ELSE det.rec]
PlayRecording ==
  /\ det.route # 0 /\ det.sel # 0
  /\ det' = Player
  /\ UNCHANGED <<asks, own, feedVars>>
PlayerEnds ==
  /\ det.playing /\ det' = [det EXCEPT !.playing = FALSE]
  /\ UNCHANGED <<asks, own, feedVars>>
PlayerFails ==
  /\ det.rec # 0 /\ det' = [det EXCEPT !.playing = FALSE, !.rec = 0]
  /\ UNCHANGED <<asks, own, feedVars>>

----------------------------------------------------------------------------
ListNext ==
  \/ NewCall \/ EndReached
  \/ \E g \in gets : Reloaded(g) \/ GotMore(g) \/ PageFails(g)
  \/ \E q \in QuickPresets : QuickChange(q)
  \/ \E t \in BOOLEAN : SearchChange(t)
  \/ SearchFires \/ PullRefresh \/ ResetBar
  \/ OpenFilters \/ ResetStaged \/ CancelFilters \/ ApplyAdvanced \/ \E c \in Advanced : Stage(c)

DetailNext ==
  \/ \E c \in 1 .. MaxCalls : OpenDetail(c)
  \/ CloseDetail \/ ReloadDetail
  \/ \E a \in asks : \/ GotTranscript(a) \/ DetailFails(a) \/ TranscriptFails(a)
                     \/ \E ready \in {"ready", "processing", "failed"} : GotDetail(a, ready)
  \/ LoadTranscript \/ UnfoldTranscript \/ PlayRecording \/ PlayerEnds \/ PlayerFails

FeedSpec == FeedInit /\ [][ListNext \/ DetailNext]_<<feedVars, detVars>>

----------------------------------------------------------------------------
(* Properties. *)

\* However many calls come in between two pages, the list without filters shows every call
\* between its first and its last one, each once: the pages start behind a call and not at
\* an offset.  Requests that overlap are another matter.
NoGapNoRepeat ==
  series = "one" =>
    \A i \in 1 .. Len(feed.calls) - 1 : feed.calls[i] = feed.calls[i + 1] + 1

\* The detail and the transcript on the screen are those of the call it was opened for,
\* from a row or by a notification on top of another call, unless a request for another
\* call was still under way then.
DetailIsOfRoute ==
  det.route # 0 /\ own => det.sel \in {0, det.route} /\ det.tr \in {0, det.route}
=============================================================================
