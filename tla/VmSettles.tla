----------------------------- MODULE VmSettles -----------------------------
(***************************************************************************)
(* The VM of Vm.tla implements Settlement: whatever happens between the    *)
(* call of Call or Create and its return is invisible, and the return      *)
(* settles the transaction.                                                *)
(***************************************************************************)
EXTENDS Vm

Settled == phase \in {"done", "panic"}

Returned(errs) == phase = "done" /\ result.err \in errs

RunErrors == {"invalid", "execution", "reverted"}

Outcome ==
  CASE phase = "panic" -> "broken"
    [] ~Settled -> "pending"
    [] tx.type = "send" /\ Returned({"ok"}) -> "sent"
    [] tx.type = "receive" /\ Returned({"ok"}) -> "committed"
    [] Returned({"outOfQuota"}) -> "retry"
    [] Returned({"gasUintOverflow", "insufficientBalance", "collision"}) -> "rejected"
    [] tx.op = "create" /\ Returned({"depth"} \cup RunErrors) -> "dropped"
    [] tx.op = "call" /\ Returned({"depth"}) -> "kept"
    [] tx.op = "call" /\ Returned(RunErrors) -> "bounced"

(* Without CALLVALUE nobody reaches the integer of the amount. *)
Altered == IF CallValueOps THEN Amounts ELSE {}

S == INSTANCE Settlement WITH
       db      <- IF Settled THEN db ELSE before,
       outcome <- Outcome,
       refunds <- txs,
       owed    <- IF Settled THEN amount ELSE tx.amount,
       lent    <- Settled /\ shared = "others"

(* Every behaviour of the VM is a behaviour of Settlement: no caller can    *)
(* observe a half-done transaction, a partial write of a failed one, or a  *)
(* refund that is not owed.  What is refunded is what was received if no   *)
(* contract uses CALLVALUE, and what was credited unless the integer of    *)
(* the amount is in a pool that other VMs may take (vm.go:204-211, 242).   *)
Settles == S!Spec
=============================================================================
