---------------------------- MODULE CallerLists ----------------------------
(***************************************************************************)
(* The VIP list, block list, spam list and contacts of one user, as the    *)
(* API keeps them.  A request is one READ COMMITTED transaction: it looks  *)
(* at the rows of its number, then its statements take effect at the       *)
(* commit; a row that another transaction wrote in between is not deleted. *)
(* An entry is named by its number: one added again counts as the old one. *)
(***************************************************************************)
EXTENDS Naturals, FiniteSets

CONSTANTS Numbers,    \* phone numbers of callers
          Slots,      \* bound: transactions that run at a time
          Threshold   \* spam_block_threshold of the user's settings

ASSUME ThresholdAssumption == Threshold \in Nat \ {0}

VARIABLES rows,   \* the four tables, by number
          tx,     \* the transactions that run or whose answer is on its way
          mixed   \* history: numbers of which two transactions overlapped

listVars == <<rows, tx, mixed>>

NoRow == [vip |-> FALSE, block |-> FALSE, spam |-> FALSE, flags |-> 0, auto |-> FALSE,
          con |-> "none", cvip |-> FALSE, cblk |-> FALSE]

MarkOps    == {"markVip", "unmarkVip", "markBlocked", "markSpam", "unmarkBlocked"}
ListOps    == {"addVip", "removeVip", "addBlock", "removeBlock", "addSpam", "removeSpam"}
ContactOps == {"createContact", "updateContact", "deleteContact"}
Ops == MarkOps \cup ListOps \cup ContactOps \cup {"flagSpam"}

\* what: the id of a list item is that of an "entry" or of a "contact".
NoTx == [op |-> "none", n |-> CHOOSE n \in Numbers : TRUE, ph |-> "idle", saw |-> NoRow,
         v |-> FALSE, b |-> FALSE, what |-> "entry"]

ListsInit ==
  /\ rows = [n \in Numbers |-> NoRow]
  /\ tx = [s \in Slots |-> NoTx]
  /\ mixed = {}

----------------------------------------------------------------------------
(* The tables. *)

\* What becomes of a row by a DELETE, an INSERT, or an assignment that the ORM writes
\* only if it changes what was loaded.
Deleted(now, saw)     == now /\ ~saw
Inserted(now, saw)    == now \/ ~saw
Assigned(now, saw, v) == IF v = saw THEN now ELSE v

\* UPDATE contact_profiles of the number, deleted or not.
Contact(r, v, b) ==
  IF r.con = "none" THEN r
  ELSE [r EXCEPT !.cvip = v, !.cblk = b]

NoSpam(r, w) == [r EXCEPT !.spam = Deleted(r.spam, w.spam),
                          !.flags = IF w.spam THEN 0 ELSE r.flags,
                          !.auto = Deleted(r.auto, w.spam)]

\* Mutant: blocking does not take the number off the VIP list.
MadeBlockedOnly(r, w) ==
  Contact([r EXCEPT !.block = Inserted(r.block, w.block)], FALSE, TRUE)

MadeVip(r, w) ==
  Contact(NoSpam([r EXCEPT !.vip = Inserted(r.vip, w.vip),
                           !.block = Deleted(r.block, w.block)], w), TRUE, FALSE)
NoVip(r, w) == Contact([r EXCEPT !.vip = Deleted(r.vip, w.vip)], FALSE, r.cblk)
MadeBlocked(r, w) ==
  Contact([r EXCEPT !.block = Inserted(r.block, w.block),
                    !.vip = Deleted(r.vip, w.vip)], FALSE, TRUE)
NoBlock(r, w) == Contact([r EXCEPT !.block = Deleted(r.block, w.block)], r.cvip, FALSE)

\* Mutant: the flag of an automatic block stays when the number is unblocked.
UnmarkedKeepsSpam(r, w) == NoBlock(r, w)

Unmarked(r, w) == NoSpam(NoBlock(r, w), w)

AddedSpam(r, w) ==
  NoVip([r EXCEPT !.spam = TRUE, !.flags = 0, !.auto = FALSE], w)

\* An item of the list is an entry, or a contact without one.
RemovedVip(r, w, what) ==
  IF what = "entry" THEN NoVip(r, w) ELSE [r EXCEPT !.cvip = FALSE]
RemovedBlock(r, w, what) ==
  IF what = "entry" THEN NoBlock(r, w) ELSE [r EXCEPT !.cblk = FALSE]

\* A new contact has no entry on either list and takes none away.
Created(r, v, b) == [r EXCEPT !.con = "live", !.cvip = v, !.cblk = b /\ ~v]

Updated(r, w, v, b) ==
  [r EXCEPT !.cvip = Assigned(r.cvip, w.cvip, v),
            !.cblk = Assigned(r.cblk, w.cblk, b /\ ~v),
            !.block = IF b /\ ~v THEN Inserted(r.block, w.block) ELSE Deleted(r.block, w.block),
            !.vip = IF v THEN Inserted(r.vip, w.vip) ELSE Deleted(r.vip, w.vip)]

\* A call labelled spam, which a VIP's never is; b: auto_block_spam is on.
Flagged(r, w, b) ==
  LET k     == IF w.flags < Threshold THEN w.flags + 1 ELSE Threshold
      block == b /\ k >= Threshold /\ ~w.auto
  IN  IF w.vip THEN r
      ELSE [r EXCEPT !.spam = TRUE, !.flags = k, !.auto = block \/ w.auto,
                     !.block = IF block THEN Inserted(r.block, w.block) ELSE r.block]

\* The rows of the number when transaction t commits.
After(t, r) ==
  LET w == t.saw IN
  CASE t.op \in {"markVip", "addVip"}       -> MadeVip(r, w)
    [] t.op = "unmarkVip"                   -> NoVip(r, w)
    [] t.op = "removeVip"                   -> RemovedVip(r, w, t.what)
    [] t.op = "markBlocked"                 -> NoSpam(MadeBlocked(r, w), w)
    [] t.op \in {"markSpam", "addBlock"}    -> MadeBlocked(r, w)
    [] t.op \in {"unmarkBlocked", "removeSpam"} -> Unmarked(r, w)
    [] t.op = "removeBlock"                 -> RemovedBlock(r, w, t.what)
    [] t.op = "addSpam"                     -> AddedSpam(r, w)
    [] t.op = "createContact"               -> Created(r, t.v, t.b)
    [] t.op = "updateContact"               -> Updated(r, w, t.v, t.b)
    [] t.op = "deleteContact"               -> [r EXCEPT !.con = "deleted"]
    [] t.op = "flagSpam"                    -> Flagged(r, w, t.b)

\* 404 and 409.
Refuses(t, r) ==
  \/ t.op = "addVip" /\ r.vip
  \/ t.op = "removeVip" /\ ~(IF t.what = "entry" THEN r.vip ELSE r.cvip)
  \/ t.op = "addBlock" /\ r.block
  \/ t.op = "removeBlock" /\ ~(IF t.what = "entry" THEN r.block ELSE r.cblk)
  \/ t.op = "addSpam" /\ r.spam
  \/ t.op = "removeSpam" /\ ~r.spam
  \/ t.op = "createContact" /\ r.con = "live"
  \/ t.op \in {"updateContact", "deleteContact"} /\ r.con # "live"

\* The commit fails: a unique key, which a deleted contact keeps, or a row that is gone.
Clashes(t, r) ==
  LET a == After(t, t.saw) IN
  \/ a.vip /\ ~t.saw.vip /\ r.vip
  \/ a.block /\ ~t.saw.block /\ r.block
  \/ a.spam /\ ~t.saw.spam /\ r.spam
  \/ t.op = "createContact" /\ r.con # "none"
  \/ t.op = "flagSpam" /\ t.saw.spam /\ ~r.spam

----------------------------------------------------------------------------
(* What callers and the app get to see. *)

\* An inbound call is rejected.
Rejected(r) ==
  \/ r.con = "live" /\ r.cblk
  \/ r.block
  \/ r.spam /\ r.auto

\* GET of each list: its entries, then contacts without one.
Items(r, l) ==
  CASE l = "vip"   -> IF r.vip THEN {"entry"}
                      ELSE IF r.con = "live" /\ r.cvip THEN {"contact"} ELSE {}
    [] l = "block" -> IF r.block THEN {"entry"}
                      ELSE IF r.con = "live" /\ r.cblk THEN {"contact"} ELSE {}
    [] l = "spam"  -> IF r.spam THEN {"entry"} ELSE {}

----------------------------------------------------------------------------
(* A transaction. *)

Running(s) == tx[s].ph = "looked"
Idle(s) == tx[s].ph = "idle"
Answered(t, ph) == [NoTx EXCEPT !.op = t.op, !.n = t.n, !.v = t.v, !.b = t.b, !.what = t.what,
                                !.ph = ph]

\* A request reaches the API and looks at the rows of its number.
Begin(s, t) ==
  /\ Idle(s)
  /\ LET r == rows[t.n] IN
     tx' = [tx EXCEPT ![s] = IF Refuses(t, r) THEN Answered(t, "refused")
                             ELSE [t EXCEPT !.saw = r, !.ph = "looked"]]
  /\ mixed' = IF \E o \in Slots \ {s} : Running(o) /\ tx[o].n = t.n
              THEN mixed \cup {t.n} ELSE mixed
  /\ UNCHANGED rows

CommitTx(s) ==
  /\ Running(s)
  /\ LET t == tx[s]
         r == rows[t.n]
     IN  IF Clashes(t, r)
         THEN /\ tx' = [tx EXCEPT ![s] = Answered(t, "refused")]
              /\ UNCHANGED rows
         ELSE /\ tx' = [tx EXCEPT ![s] = Answered(t, "ok")]
              /\ rows' = [rows EXCEPT ![t.n] = After(t, r)]
  /\ UNCHANGED mixed

\* A process stops, or the connection to the database is lost.
AbortTx(s) ==
  /\ Running(s)
  /\ tx' = [tx EXCEPT ![s] = Answered(tx[s], "refused")]
  /\ UNCHANGED <<rows, mixed>>

\* The answer is delivered, or nobody waits for it.
Close(s) ==
  /\ tx[s].ph \in {"ok", "refused"}
  /\ tx' = [tx EXCEPT ![s] = NoTx]
  /\ UNCHANGED <<rows, mixed>>

\* Any request of any device, and the worker that labels calls.
Args(op) ==
  CASE op \in {"createContact", "updateContact"} -> [v : BOOLEAN, b : BOOLEAN, what : {"entry"}]
    [] op = "flagSpam" -> [v : {FALSE}, b : BOOLEAN, what : {"entry"}]
    [] op \in {"removeVip", "removeBlock"} -> [v : {FALSE}, b : {FALSE}, what : {"entry", "contact"}]
    [] OTHER -> [v : {FALSE}, b : {FALSE}, what : {"entry"}]
Request(op, n, a) == [NoTx EXCEPT !.op = op, !.n = n, !.v = a.v, !.b = a.b, !.what = a.what]

ListsNext ==
  \E s \in Slots :
    \/ \E op \in Ops, n \in Numbers : \E a \in Args(op) : Begin(s, Request(op, n, a))
    \/ CommitTx(s) \/ AbortTx(s) \/ Close(s)

ListsSpec == ListsInit /\ [][ListsNext]_listVars

----------------------------------------------------------------------------
(* Properties. *)

\* A number is never on the VIP list and on the block list at once, whichever screens,
\* devices and workers put it there, unless two of their requests for it overlapped: each
\* endpoint clears the tables that the other one reads.
NeverBoth == \A n \in Numbers : rows[n].vip /\ rows[n].block => n \in mixed

\* A caller that is unblocked from a call, or taken off the spam list, gets through from
\* then on, although three tables and two flags can each reject the call.
UnblockedIsHeard ==
  [][\A s \in Slots :
       (/\ tx[s].op \in {"unmarkBlocked", "removeSpam"} /\ tx[s].ph = "looked"
        /\ tx'[s].ph = "ok" /\ tx[s].n \notin mixed)
       => ~Rejected(rows'[tx[s].n])]_listVars

\* The sheet that confirms an unblock says that the number "will be able to reach your
\* assistant again", wherever the number is unblocked.
EveryUnblockIsHeard ==
  [][\A s \in Slots :
       (/\ tx[s].op \in {"unmarkBlocked", "removeBlock", "removeSpam"}
        /\ tx[s].ph = "looked" /\ tx'[s].ph = "ok" /\ tx[s].n \notin mixed)
       => ~Rejected(rows'[tx[s].n])]_listVars
=============================================================================
