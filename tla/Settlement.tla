---------------------------- MODULE Settlement ----------------------------
(***************************************************************************)
(* What the package promises about one transaction, without runs, frames,  *)
(* snapshots or quota: the transaction is settled in one step, and the     *)
(* outcome says what became of the database and who is owed a refund.  A   *)
(* refund is owed in the integer the transaction came with, and code that  *)
(* was run may have lent that integer to others.                           *)
(***************************************************************************)
EXTENDS StateDb, Sequences

CONSTANTS
  CallCreateDepth,
  Altered        \* amounts a contract may put in place of the one it received

VARIABLES
  tx, db, outcome,
  refunds,       \* who is to send a refund to whom
  owed,          \* what the integer of the transaction holds, to be refunded
  lent           \* can others write that integer?

vars == <<tx, db, outcome, refunds, owed, lent>>

Settle(o) == outcome = "pending" /\ outcome' = o /\ UNCHANGED tx

Credited(n) == AddBalance(db, tx.to, tx.token, n)

(* What the integer may hold after code was run. *)
Owed == {tx.amount} \cup Altered

RefundOf(a) == [from |-> a, to |-> tx.from, token |-> tx.token,
                depth |-> tx.depth + 1]

(* Code was run, or may have been. *)
Ran == owed' \in Owed /\ lent' \in BOOLEAN /\ (lent' => Altered # {})

(* No code was run. *)
NotRun == UNCHANGED <<owed, lent>>

(* A refund is sent when a positive amount is owed.  When the integer is   *)
(* lent, what is owed may have changed since that was tested.              *)
RefundDue == lent' \/ (refunds' # <<>> <=> owed' > 0)

(* The transaction is not accepted. *)
Reject == Settle("rejected") /\ NotRun /\ UNCHANGED <<db, refunds>>

(* A receive that may be tried again as if it had never been tried. *)
Retry == Settle("retry") /\ Ran /\ UNCHANGED <<db, refunds>>

(* The sender pays, and can. *)
Pay == /\ Settle("sent") /\ NotRun
       /\ tx.type = "send"
       /\ tx.amount <= db.balance[tx.from][tx.token]
       /\ db' = SubBalance(db, tx.from, tx.token, tx.amount)
       /\ UNCHANGED refunds

(* Code is run up to a depth. *)
MayRun == tx.depth <= CallCreateDepth

(* The recipient, an existing account or a new one, has the amount and     *)
(* whatever its code did to its own storage; nobody else is affected.      *)
Commit(a) == /\ Settle("committed") /\ Ran
             /\ tx.type = "receive"
             /\ IF tx.op = "call" THEN a = tx.to ELSE a \notin db.live
             /\ tx.op = "create" \/ db.code[tx.to] # 0 => MayRun
             /\ a \in db'.live
             /\ db'.balance = AddBalance(db, a, tx.token, tx.amount).balance
             /\ \A b \in Addr \ {a} : Agree(db, db', b)
             /\ UNCHANGED refunds

(* A contract that failed keeps the amount and owes it to the sender: what *)
(* it owes is what it keeps, but for what others do to the integer.        *)
Bounce(n) == /\ Settle("bounced") /\ Ran
             /\ tx.op = "call" /\ tx.type = "receive"
             /\ db.code[tx.to] # 0 /\ MayRun
             /\ db' = Credited(n)
             /\ refunds' \in {<<>>, <<RefundOf(tx.to)>>} /\ RefundDue
             /\ IF refunds' = <<>> THEN n = 0 ELSE lent' \/ n = owed'

(* Too deep to run a contract: it keeps the amount, and owes nothing. *)
Keep == /\ Settle("kept") /\ NotRun
        /\ tx.op = "call" /\ tx.type = "receive" /\ ~MayRun
        /\ db.code[tx.to] # 0
        /\ db' = Credited(tx.amount)
        /\ UNCHANGED refunds

(* A contract that could not be created never existed, but its address     *)
(* owes the amount to the sender.                                          *)
Drop(a) == /\ Settle("dropped") /\ Ran
           /\ tx.op = "create" /\ tx.type = "receive"
           /\ a \notin db.live
           /\ UNCHANGED db
           /\ refunds' \in {<<>>, <<RefundOf(a)>>} /\ RefundDue

(* The VM panics: no refund is owed, and accounts other than the recipient *)
(* and one new account are untouched.                                      *)
Break(a) == /\ Settle("broken") /\ Ran
            /\ tx.type = "receive"
            /\ IF tx.op = "call" THEN a = tx.to ELSE a \notin db.live
            /\ MayRun
            /\ \A b \in Addr \ {a, tx.to} : Agree(db, db', b)
            /\ UNCHANGED refunds

(* Whoever the integer was lent to writes it, now or later. *)
Change == /\ lent
          /\ owed' \in Altered
          /\ UNCHANGED <<tx, db, outcome, refunds, lent>>

Init == outcome = "pending" /\ refunds = <<>> /\ owed = tx.amount /\ ~lent

Next == \/ Reject \/ Retry \/ Pay \/ Keep \/ Change
        \/ \E n \in Owed \cup {0} : Bounce(n)
        \/ \E a \in Addr : Commit(a) \/ Break(a) \/ Drop(a)

Spec == Init /\ [][Next]_vars

(* A call is refunded only where code may run, and its refund is one level *)
(* deeper: failed calls of one another's refunds come to an end.           *)
RefundsEnd == refunds # <<>> => tx.op = "create" \/ MayRun
=============================================================================
