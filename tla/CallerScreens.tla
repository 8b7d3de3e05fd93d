--------------------------- MODULE CallerScreens ---------------------------
(***************************************************************************)
(* The screens of the mobile client that mark, block and name callers, as  *)
(* they concern one number, on top of CallerLists.  A request may arrive   *)
(* in any order, its answer may be lost, and the screen that waits for it  *)
(* may be left.  The screens keep a copy of what the lists said.  "Shows"  *)
(* is what a screen lets the user press; its text fields are left out.     *)
(***************************************************************************)
EXTENDS CallerLists, SequencesExt

VARIABLES who,    \* the number that the open call or contact is about
          stack,  \* the screens, that on top last
          card,   \* the call's detail: what its chips say
          form,   \* a contact form, or the form that adds to a list
          sheet,  \* the sheet that is open, and the item it is about
          busy,   \* actionLoading of the call's detail
          items,  \* the number's items in the stores of the lists
          loads,  \* GET requests that the screens wait for
          out,    \* requests on their way to the API, and whether they are waited for
          mine,   \* the transactions whose answer a screen waits for
          alone   \* history: since the detail was asked for, one request at a time,
                  \* none of them lost, and none from elsewhere

appVars == <<who, stack, card, form, sheet, busy, items, loads, out, mine, alone>>
callerVars == <<listVars, appVars>>

ListScreens == {"ContactsList", "VipList", "BlockList", "SpamList"}
NoCard == [shown |-> FALSE, vip |-> FALSE, blk |-> FALSE, spam |-> FALSE, con |-> FALSE,
           label |-> FALSE]
NoFields == [shown |-> FALSE, vip |-> FALSE, blk |-> FALSE, open |-> FALSE, saving |-> FALSE,
             deleting |-> FALSE]
NoSheet == [k |-> "none", what |-> "entry"]

AppInit ==
  /\ who \in Numbers
  /\ stack = <<"Home">> /\ card = NoCard /\ form = NoFields /\ sheet = NoSheet
  /\ busy = "none" /\ items = [l \in ListScreens |-> {}]
  /\ loads = {} /\ out = {} /\ mine = {} /\ alone = FALSE

ScreensInit == ListsInit /\ AppInit

Top == Last(stack)
Quiet == out = {} /\ loads = {} /\ \A s \in Slots : Idle(s)

----------------------------------------------------------------------------
(* What each screen shows to press. *)

Where(c, S) == IF c THEN S ELSE {}

\* A chip only waits for its own request, and another one's answer ends the wait.
CallChips ==
  {"note"} \cup (IF card.con THEN {"uncontact"} ELSE {"new"})
           \cup ({"vip", "block", "spam"} \ {busy})

\* The card of a call that was labelled spam waits for nothing.
SpamCard == Where(card.label, {"spam"})

\* A loader, or an error with a retry.
CallWaits == Where(\A g \in loads : g.scr # "CallDetail", {"retry"})
CallShows == IF card.shown THEN CallChips \cup SpamCard ELSE CallWaits

ContactWaits == Where(\A g \in loads : g.scr # "ContactDetail", {"retry"})
ContactFields == {"text", "category"}
ContactSwitches == {"vip", "blk"} \cup Where(form.blk, {"reason"})
ContactAi == {"open"} \cup Where(form.open, {"manners"})
ContactButtons == Where(~form.saving, {"save"}) \cup Where(~form.deleting, {"delete"})
ContactShows ==
  IF form.shown THEN ContactFields \cup ContactSwitches \cup ContactAi \cup ContactButtons
  ELSE ContactWaits

AddFields == {"text", "category"}
AddSwitches == {"vip", "blk"}
AddAi == {"open"} \cup Where(form.open, {"manners"})
AddButton == Where(~form.saving, {"save"})
AddShows == AddFields \cup AddSwitches \cup AddAi \cup AddButton

\* Nothing unfolds the form of the VIP list and of the block list: their button opens
\* AddContact.
VipItems == items["VipList"]
VipForm == Where(form.open, {"text"} \cup Where(~form.saving, {"add"}))
VipShows == {"refresh", "new"} \cup VipItems \cup VipForm

BlockItems == items["BlockList"]
BlockForm == Where(form.open, {"text"} \cup Where(~form.saving, {"add"}))
BlockShows == {"refresh", "new"} \cup BlockItems \cup BlockForm

SpamItems == items["SpamList"]
SpamForm == {"open"} \cup Where(form.open, {"text"} \cup Where(~form.saving, {"add"}))
SpamShows == {"refresh"} \cup SpamItems \cup SpamForm

\* "open": a search that does not match.  A category is asked for; the search is not.
ContactsItems == Where(~form.open, items["ContactsList"])
ContactsSearch == {"open", "refresh"}
ContactsShow == {"new"} \cup ContactsItems \cup ContactsSearch

Shows ==
  CASE Top = "Home" -> ListScreens \cup {"CallDetail"}
    [] Top = "CallDetail" -> CallShows
    [] Top = "ContactDetail" -> ContactShows
    [] Top = "AddContact" -> AddShows
    [] Top = "VipList" -> VipShows
    [] Top = "BlockList" -> BlockShows
    [] Top = "SpamList" -> SpamShows
    [] Top = "ContactsList" -> ContactsShow

Pressed(c) == sheet = NoSheet /\ c \in Shows

----------------------------------------------------------------------------
(* Navigation and loads. *)

\* The store clears the detail before it asks for it.
Ask(s) == loads' = loads \cup {[scr |-> s, ph |-> "sent", saw |-> NoRow]}

Push(s) ==
  /\ stack' = Append(stack, s)
  /\ UNCHANGED <<listVars, who, sheet, items, out, mine>>

OpenCall ==
  /\ Pressed("CallDetail")
  /\ Push("CallDetail") /\ Ask("CallDetail")
  /\ card' = NoCard /\ busy' = "none" /\ alone' = Quiet
  /\ UNCHANGED form

OpenList(l) ==
  /\ Pressed(l)
  /\ Push(l) /\ Ask(l)
  /\ form' = NoFields
  /\ UNCHANGED <<card, busy, alone>>

\* From the VIP list the switch is on, from the block list the other one.
OpenAdd ==
  /\ Pressed("new") /\ Top \in {"CallDetail", "VipList", "BlockList", "ContactsList"}
  /\ Push("AddContact")
  /\ form' = [NoFields EXCEPT !.vip = (Top = "VipList"), !.blk = (Top = "BlockList")]
  /\ UNCHANGED <<card, busy, loads, alone>>

OpenContact ==
  /\ Pressed("live")
  /\ Push("ContactDetail") /\ Ask("ContactDetail")
  /\ form' = NoFields
  /\ UNCHANGED <<card, busy, alone>>

\* Pull to refresh, Retry and a category ask again.
Refresh ==
  /\ Pressed("refresh") \/ Pressed("retry")
  /\ Ask(Top)
  /\ UNCHANGED <<listVars, who, stack, card, form, sheet, busy, items, out, mine, alone>>

\* What a screen that is left waited for comes to nothing but the stores.
Forget(S, M) ==
  /\ out' = {[q EXCEPT !.awaited = q.awaited /\ q.t.op \notin S] : q \in out}
  /\ mine' = {s \in M : tx[s].op \notin S}
OfTop == IF Top = "AddContact" THEN {"createContact"} ELSE Ops

Leave ==
  /\ stack' = Front(stack)
  /\ loads' = {g \in loads : g.scr # Top}
  /\ form' = NoFields /\ sheet' = NoSheet

Back ==
  /\ Len(stack) > 1
  /\ Leave
  /\ Forget(OfTop, mine)
  /\ card' = IF Top = "CallDetail" THEN NoCard ELSE card
  /\ busy' = IF Top = "CallDetail" THEN "none" ELSE busy
  /\ UNCHANGED <<listVars, who, items, alone>>

\* The API answers a GET from the rows it has.
ReadRows(g) ==
  /\ g \in loads /\ g.ph = "sent"
  /\ loads' = (loads \ {g}) \cup {[g EXCEPT !.ph = "read", !.saw = rows[who]]}
  /\ UNCHANGED <<listVars, who, stack, card, form, sheet, busy, items, out, mine, alone>>

Got(g) ==
  /\ g \in loads /\ g.ph = "read"
  /\ loads' = loads \ {g}
  /\ UNCHANGED <<listVars, who, stack, sheet, busy, out, mine, alone>>

\* The chips are copied when the id of the selected call changes; that of spam is not
\* part of the detail.
GotCall(g, label) ==
  /\ Got(g) /\ g.scr = "CallDetail"
  /\ card' = [card EXCEPT !.shown = TRUE, !.vip = g.saw.vip, !.blk = g.saw.block,
                          !.con = (g.saw.con = "live"), !.label = label]
  /\ UNCHANGED <<form, items>>

\* Whatever the user has switched meanwhile is overwritten.
GotContact(g) ==
  /\ Got(g) /\ g.scr = "ContactDetail" /\ g.saw.con = "live"
  /\ form' = [form EXCEPT !.shown = TRUE, !.vip = g.saw.cvip, !.blk = g.saw.cblk]
  /\ UNCHANGED <<card, items>>

ItemsOf(l, r) ==
  CASE l = "VipList" -> Items(r, "vip")
    [] l = "BlockList" -> Items(r, "block")
    [] l = "SpamList" -> Items(r, "spam")
    [] l = "ContactsList" -> Where(r.con = "live", {"live"})

\* The contact may be of another category than the one asked for.
GotList(g) ==
  /\ Got(g) /\ g.scr \in ListScreens
  /\ \/ items' = [items EXCEPT ![g.scr] = ItemsOf(g.scr, g.saw)]
     \/ g.scr = "ContactsList" /\ items' = [items EXCEPT ![g.scr] = {}]
  /\ UNCHANGED <<card, form>>

\* An error leaves what was there; a contact that is gone is a 404.
LoadLost(g) ==
  /\ g \in loads
  /\ loads' = loads \ {g}
  /\ UNCHANGED <<listVars, who, stack, card, form, sheet, busy, items, out, mine, alone>>

----------------------------------------------------------------------------
(* Requests. *)

Awaiting == {q.t.op : q \in {x \in out : x.awaited}} \cup {tx[s].op : s \in mine}

Press(op, v, b, what) ==
  /\ out' = out \cup {[t |-> Request(op, who, [v |-> v, b |-> b, what |-> what]),
                       awaited |-> TRUE]}
  /\ alone' = (alone /\ Quiet)
  /\ UNCHANGED <<listVars, who, stack, items, loads, mine>>

PressVip ==
  /\ Pressed("vip") /\ Top = "CallDetail"
  /\ Press(IF card.vip THEN "unmarkVip" ELSE "markVip", FALSE, FALSE, "entry")
  /\ busy' = "vip"
  /\ UNCHANGED <<card, form, sheet>>

\* Blocking is confirmed first, unblocking is not; what a sheet does is decided when it
\* is confirmed.
ToggleBlock ==
  /\ Press(IF card.blk THEN "unmarkBlocked" ELSE "markBlocked", FALSE, FALSE, "entry")
  /\ busy' = "block" /\ sheet' = NoSheet
  /\ UNCHANGED <<card, form>>
PressBlock == Pressed("block") /\ Top = "CallDetail" /\ card.blk /\ ToggleBlock
ConfirmBlock == sheet.k = "block" /\ ToggleBlock

RemoveSpam ==
  /\ Pressed("spam") /\ Top = "CallDetail" /\ card.spam
  /\ Press("unmarkBlocked", FALSE, FALSE, "entry")
  /\ busy' = "spam"
  /\ UNCHANGED <<card, form, sheet>>

ConfirmSpam ==
  /\ sheet.k = "spam"
  /\ Press("markSpam", FALSE, FALSE, "entry")
  /\ busy' = "spam" /\ sheet' = NoSheet
  /\ UNCHANGED <<card, form>>

\* A note that was saved asks for the detail again.
SaveNote ==
  /\ Pressed("note") /\ Top = "CallDetail"
  /\ Ask("CallDetail") /\ card' = [card EXCEPT !.shown = FALSE]
  /\ busy' = "none" /\ alone' = Quiet
  /\ UNCHANGED <<listVars, who, stack, form, sheet, items, out, mine>>

OpenSheet(k, what) ==
  /\ sheet' = [k |-> k, what |-> what]
  /\ UNCHANGED <<listVars, who, stack, card, form, busy, items, loads, out, mine, alone>>
AskBlock   == Pressed("block") /\ Top = "CallDetail" /\ ~card.blk /\ OpenSheet("block", "entry")
AskSpam    == Pressed("spam") /\ Top = "CallDetail" /\ ~card.spam /\ OpenSheet("spam", "entry")
AskDelete  == (Pressed("uncontact") \/ Pressed("delete")) /\ OpenSheet("contact", "entry")
AskRemove  == \E w \in {"entry", "contact"} :
                Top \in ListScreens /\ Pressed(w) /\ OpenSheet("remove", w)
Dismiss == sheet # NoSheet /\ OpenSheet("none", "entry")

ConfirmDelete ==
  /\ sheet.k = "contact"
  /\ Press("deleteContact", FALSE, FALSE, "entry")
  /\ sheet' = NoSheet /\ form' = [form EXCEPT !.deleting = (Top = "ContactDetail")]
  /\ UNCHANGED <<card, busy>>

RemoveOp == CASE Top = "VipList" -> "removeVip" [] Top = "BlockList" -> "removeBlock"
              [] Top = "SpamList" -> "removeSpam"
AddOp == CASE Top = "VipList" -> "addVip" [] Top = "BlockList" -> "addBlock"
           [] Top = "SpamList" -> "addSpam"

\* The sheet stays open, and may be confirmed again, until the answer is there.
ConfirmRemove ==
  /\ sheet.k = "remove"
  /\ Press(RemoveOp, FALSE, FALSE, sheet.what)
  /\ UNCHANGED <<card, form, sheet, busy>>

\* The manners of the assistant for a contact, the form of a list, or the search.
Unfold ==
  /\ Pressed("open")
  /\ form' = [form EXCEPT !.open = ~form.open]
  /\ UNCHANGED <<listVars, who, stack, card, sheet, busy, items, loads, out, mine, alone>>

AddEntry ==
  /\ Pressed("add") /\ Top \in {"VipList", "BlockList", "SpamList"}
  /\ Press(AddOp, FALSE, FALSE, "entry")
  /\ form' = [form EXCEPT !.saving = TRUE]
  /\ UNCHANGED <<card, sheet, busy>>

\* Each switch takes the other one back.
Flip(c) ==
  /\ Pressed(c) /\ Top \in {"AddContact", "ContactDetail"}
  /\ form' = IF c = "vip" THEN [form EXCEPT !.vip = ~form.vip, !.blk = form.blk /\ form.vip]
             ELSE [form EXCEPT !.blk = ~form.blk, !.vip = form.vip /\ form.blk]
  /\ UNCHANGED <<listVars, who, stack, card, sheet, busy, items, loads, out, mine, alone>>

SaveContact ==
  /\ Pressed("save")
  /\ Press(IF Top = "AddContact" THEN "createContact" ELSE "updateContact",
           form.vip, form.blk, "entry")
  /\ form' = [form EXCEPT !.saving = TRUE]
  /\ UNCHANGED <<card, sheet, busy>>

----------------------------------------------------------------------------
(* Answers. *)

\* Mutant: a number that becomes a VIP still shows as blocked.
CardAfterOneChip(op) ==
  CASE op = "markVip"       -> [card EXCEPT !.vip = TRUE, !.spam = FALSE]
    [] op = "unmarkVip"     -> [card EXCEPT !.vip = FALSE]
    [] op = "markBlocked"   -> [card EXCEPT !.blk = TRUE, !.vip = FALSE]
    [] op = "markSpam"      -> [card EXCEPT !.blk = TRUE, !.spam = TRUE, !.vip = FALSE]
    [] op = "unmarkBlocked" -> [card EXCEPT !.blk = FALSE, !.spam = FALSE]
    [] OTHER -> card

CardAfter(op) ==
  CASE op = "markVip"       -> [card EXCEPT !.vip = TRUE, !.blk = FALSE, !.spam = FALSE]
    [] op = "unmarkVip"     -> [card EXCEPT !.vip = FALSE]
    [] op = "markBlocked"   -> [card EXCEPT !.blk = TRUE, !.vip = FALSE]
    [] op = "markSpam"      -> [card EXCEPT !.blk = TRUE, !.spam = TRUE, !.vip = FALSE]
    [] op = "unmarkBlocked" -> [card EXCEPT !.blk = FALSE, !.spam = FALSE]
    [] OTHER -> card

\* What the stores do with an answer, whether the screen is still there or not.
Stored(op, what) ==
  CASE op = "addVip"    -> [items EXCEPT !["VipList"] = @ \cup {"entry"}]
    [] op = "addBlock"  -> [items EXCEPT !["BlockList"] = @ \cup {"entry"}]
    [] op = "addSpam"   -> [items EXCEPT !["SpamList"] = @ \cup {"entry"}]
    [] op = "removeVip"   -> [items EXCEPT !["VipList"] = @ \ {what}]
    [] op = "removeBlock" -> [items EXCEPT !["BlockList"] = @ \ {what}]
    [] op = "removeSpam"  -> [items EXCEPT !["SpamList"] = @ \ {what}]
    [] op = "createContact" -> [items EXCEPT !["ContactsList"] = @ \cup {"live"}]
    [] op = "deleteContact" -> [items EXCEPT !["ContactsList"] = @ \ {"live"}]
    [] OTHER -> items

\* The new contact's screen and the deleted contact's close themselves; a contact that
\* was saved is loaded again; the call's detail that lost its contact would be, by a
\* function that does not exist.
Closes(op) ==
  \/ op = "createContact"
  \/ op = "deleteContact" /\ Top = "ContactDetail"

Done(op, ok) ==
  /\ card' = IF ok THEN CardAfter(op) ELSE card
  /\ busy' = IF op \in MarkOps THEN "none" ELSE busy
  /\ IF ok /\ Closes(op) THEN Leave
     ELSE /\ stack' = stack
          /\ sheet' = IF sheet.k = "remove" /\ op \in ListOps THEN NoSheet ELSE sheet
          /\ form' = [form EXCEPT !.saving = form.saving /\ op \in MarkOps \cup {"deleteContact"},
                                  !.deleting = form.deleting /\ op # "deleteContact",
                                  !.open = form.open /\ ~(ok /\ op = "addSpam")]
          /\ IF ok /\ op = "updateContact" THEN Ask("ContactDetail") ELSE loads' = loads

ScreenUnchanged == UNCHANGED <<stack, card, form, sheet, busy, loads>>

Arrive(q, s) ==
  /\ q \in out
  /\ Begin(s, q.t)
  /\ out' = out \ {q}
  /\ mine' = IF q.awaited THEN mine \cup {s} ELSE mine
  /\ ScreenUnchanged /\ UNCHANGED <<who, items, alone>>

Answer(s) ==
  /\ s \in mine /\ tx[s].ph \in {"ok", "refused"}
  /\ Close(s)
  /\ Forget(IF tx[s].ph = "ok" /\ Closes(tx[s].op) THEN OfTop ELSE {}, mine \ {s})
  /\ items' = IF tx[s].ph = "ok" THEN Stored(tx[s].op, tx[s].what) ELSE items
  /\ Done(tx[s].op, tx[s].ph = "ok")
  /\ UNCHANGED <<who, alone>>

\* The screen that asked is gone.
AnswerUnseen(s) ==
  /\ s \notin mine
  /\ Close(s)
  /\ items' = IF tx[s].ph = "ok" THEN Stored(tx[s].op, tx[s].what) ELSE items
  /\ ScreenUnchanged /\ UNCHANGED <<who, out, mine, alone>>

\* The request times out, wherever it is.
Lost ==
  /\ \/ \E s \in mine : /\ Done(tx[s].op, FALSE)
                        /\ mine' = mine \ {s} /\ UNCHANGED out
     \/ \E q \in out : /\ IF q.awaited THEN Done(q.t.op, FALSE) ELSE ScreenUnchanged
                       /\ out' = out \ {q} /\ UNCHANGED mine
  /\ alone' = FALSE
  /\ UNCHANGED <<listVars, who, items>>

\* The API goes on with what it has; another device and the worker that labels calls
\* send requests of their own.
Server ==
  /\ \E s \in Slots : CommitTx(s) \/ AbortTx(s)
  /\ UNCHANGED appVars

Elsewhere(s, op, a) ==
  /\ Begin(s, Request(op, who, a))
  /\ alone' = FALSE
  /\ ScreenUnchanged /\ UNCHANGED <<who, items, out, mine>>

ScreensNext ==
  \/ OpenCall \/ OpenAdd \/ OpenContact \/ Refresh \/ Back
  \/ \E l \in ListScreens : OpenList(l)
  \/ \E g \in loads : \/ ReadRows(g) \/ GotContact(g) \/ GotList(g) \/ LoadLost(g)
                      \/ \E label \in BOOLEAN : GotCall(g, label)
  \/ PressVip \/ PressBlock \/ ConfirmBlock \/ RemoveSpam \/ ConfirmSpam \/ SaveNote
  \/ AskBlock \/ AskSpam \/ AskDelete \/ AskRemove \/ Dismiss \/ ConfirmDelete \/ ConfirmRemove
  \/ Unfold \/ AddEntry \/ SaveContact \/ \E c \in {"vip", "blk"} : Flip(c)
  \/ \E s \in Slots : \/ Answer(s) \/ AnswerUnseen(s)
                      \/ \E q \in out : Arrive(q, s)
                      \/ \E op \in Ops : \E a \in Args(op) : Elsewhere(s, op, a)
  \/ Lost \/ Server

ScreensSpec == ScreensInit /\ [][ScreensNext]_callerVars

----------------------------------------------------------------------------
(* Properties. *)

\* The chips of a call's detail say what the lists hold: each handler guesses which marks
\* the API clears along with the one it sets, and no answer carries them.  Two requests at
\* a time, a lost answer or another device may prove the guess wrong.
ChipsMatch ==
  Top = "CallDetail" /\ card.shown /\ alone /\ Quiet
    => card.vip = rows[who].vip /\ card.blk = rows[who].block
=============================================================================
