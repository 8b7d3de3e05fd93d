----------------------------- MODULE MCCallers -----------------------------
(***************************************************************************)
(* One number and the screens about it, one group of screens per behaviour:*)
(* what the others did before is in the rows that it starts with.          *)
(***************************************************************************)
EXTENDS CallerScreens

CONSTANT Others  \* what the rest of the system asks for while the app is looked at

VARIABLE Seen  \* the screens of this behaviour

mcVars == <<callerVars, Seen>>

\* A caller nobody knows; a contact marked as a VIP from a call; a contact blocked by its
\* form whose calls were then labelled spam until the number was blocked for good.
Known == [NoRow EXCEPT !.con = "live", !.vip = TRUE, !.cvip = TRUE]
Bad   == [NoRow EXCEPT !.con = "live", !.block = TRUE, !.cblk = TRUE, !.spam = TRUE,
                       !.flags = Threshold, !.auto = TRUE]

Groups == {{"CallDetail"}, {"ContactsList", "ContactDetail"}, {"ContactsList", "AddContact"},
           {"VipList", "AddContact"}, {"BlockList", "AddContact"}, {"SpamList"}}

MCInit ==
  /\ AppInit
  /\ rows \in [Numbers -> {NoRow, Known, Bad}]
  /\ tx = [s \in Slots |-> NoTx] /\ mixed = {}
  /\ Seen \in Groups

----------------------------------------------------------------------------
Busy  == Cardinality(out) + Cardinality({s \in Slots : ~Idle(s)})
Begun == {s \in Slots : Idle(s) /\ tx'[s].ph # "idle"}
Dropped == tx' = tx /\ stack' = stack /\ Awaiting' # Awaiting /\ Awaiting' \subseteq Awaiting
Failed == \E s \in Slots : Running(s) /\ tx'[s].ph = "refused" /\ ~Clashes(tx[s], rows[tx[s].n])

\* Two requests, or one and a load, at a time, the first in slot 1; faults and folded forms with
\* one request at most; spam is labelled where spam was; the rest of the system in the
\* group of the spam list.
Step ==
  /\ ScreensNext /\ UNCHANGED Seen
  /\ Last(stack') \in Seen \cup {"Home"}
  /\ Busy' + Cardinality(loads') <= Cardinality(Slots) /\ Cardinality(loads') <= 1
  /\ (2 \in Begun => ~Idle(1))
  /\ (Dropped \/ Failed => Busy = 1)
  /\ (sheet' \notin {sheet, NoSheet} => Busy <= 1)
  /\ (form'.open # form.open => Busy = 0)
  /\ (mixed # {} => tx' # tx /\ Begun = {})
  /\ (card'.label => card'.spam \/ rows[who].spam)
  /\ (Begun # {} /\ out' = out => "SpamList" \in Seen /\ \E s \in Begun : tx'[s].op \in Others)

\* Once two requests overlapped, only their end is of interest.
Over == mixed # {} /\ UNCHANGED mcVars

MCNext == Step \/ Over

MCSpec == MCInit /\ [][MCNext]_mcVars
=============================================================================
