-------------------------- MODULE VmSettlesProofs --------------------------
(***************************************************************************)
(* The VM implements Settlement, for any databases, transactions, prices   *)
(* and contracts: every step is invisible or settles the transaction.      *)
(***************************************************************************)
EXTENDS VmBalanceProofs, VmSettles

(* Nothing of the transaction can be seen before it is settled. *)
LEMMA Pending ==
  ASSUME ~Settled
  PROVE  /\ Outcome = "pending" /\ (IF Settled THEN db ELSE before) = before
         /\ (IF Settled THEN amount ELSE tx.amount) = tx.amount
         /\ ~(Settled /\ shared = "others")
  BY DEF Outcome, Settled, Returned

(* The operators of StateDb as Settlement sees them. *)
LEMMA SameDb ==
  /\ \A d, a, t, n : S!AddBalance(d, a, t, n) = AddBalance(d, a, t, n)
  /\ \A d, a, t, n : S!SubBalance(d, a, t, n) = SubBalance(d, a, t, n)
  /\ \A d, e, a : S!Agree(d, e, a) = Agree(d, e, a)
  BY DEF S!AddBalance, AddBalance, S!SubBalance, SubBalance, S!Agree, Agree

-----------------------------------------------------------------------------
(* What a step must do to be one of Settlement's. *)

(* The step settles the transaction. *)
Settling == /\ ~Settled /\ Settled' /\ UNCHANGED <<tx, before>>
            /\ tx.type \in {"send", "receive"} /\ tx.op \in {"call", "create"}

(* Without running code the integer of the amount stays as it was. *)
LEMMA ToNotRun ==
  ASSUME Settling, amount' = tx.amount, shared' # "others"
  PROVE  S!NotRun
  BY Pending DEF Settling, S!NotRun

(* What refund a transaction may end with that a is to send. *)
Refunded(a) ==
  \/ txs' = <<>> /\ (shared' = "others" \/ ~(amount' > 0))
  \/ txs' = <<RefundBy(a)>> /\ (shared' = "others" \/ amount' > 0)

(* It is one that is due. *)
LEMMA ToRefund ==
  ASSUME Settling, NEW a, Refunded(a)
  PROVE  txs' \in {<<>>, <<S!RefundOf(a)>>} /\ S!RefundDue
  <1>1. RefundBy(a) = S!RefundOf(a) /\ <<RefundBy(a)>> # <<>>
    BY DEF RefundBy, S!RefundOf
  <1>2. (IF Settled THEN amount ELSE tx.amount)' = amount'
        /\ (Settled /\ shared = "others")' = (shared' = "others")
    BY DEF Settling
  <1> QED
    BY <1>1, <1>2 DEF Refunded, S!RefundDue

(* A refused transaction changed nothing. *)
LEMMA ToReject ==
  ASSUME Settling, S!NotRun, Outcome' = "rejected", db' = before, txs' = txs
  PROVE  S!Next
  BY Pending DEF Settling, S!Next, S!Reject, S!Settle

(* Nor did one that ran out of quota. *)
LEMMA ToRetry ==
  ASSUME Settling, S!Ran, Outcome' = "retry", db' = before, txs' = txs
  PROVE  S!Next
  BY Pending DEF Settling, S!Next, S!Retry, S!Settle

(* A transaction that was sent took the amount from its sender. *)
LEMMA ToPay ==
  ASSUME Settling, S!NotRun, Outcome' = "sent", tx.type = "send", txs' = txs,
         tx.amount <= before.balance[tx.from][tx.token],
         db' = SubBalance(before, tx.from, tx.token, tx.amount)
  PROVE  S!Next
  <1>1. S!Pay
    BY Pending, SameDb DEF Settling, S!Pay, S!Settle
  <1> QED
    BY <1>1 DEF S!Next

(* A received one credits the amount and may change one account besides. *)
LEMMA ToCommit ==
  ASSUME Settling, S!Ran, Outcome' = "committed", tx.type = "receive", txs' = txs,
         NEW a \in Addr, IF tx.op = "call" THEN a = tx.to ELSE a \notin before.live,
         tx.op = "create" \/ before.code[tx.to] # 0 => tx.depth <= CallCreateDepth,
         a \in (db').live,
         (db').balance = AddBalance(before, a, tx.token, tx.amount).balance,
         \A b \in Addr \ {a} : Agree(before, db', b)
  PROVE  S!Next
  <1>1. S!Commit(a)
    BY Pending, SameDb DEF Settling, S!Commit, S!Settle, S!MayRun
  <1> QED
    BY <1>1 DEF S!Next

(* A failed call credits what the contract then owes. *)
LEMMA ToBounce ==
  ASSUME Settling, S!Ran, Outcome' = "bounced", tx.op = "call", tx.type = "receive",
         before.code[tx.to] # 0, tx.depth <= CallCreateDepth,
         NEW n \in S!Owed \cup {0}, db' = AddBalance(before, tx.to, tx.token, n),
         Refunded(tx.to),
         IF txs' = <<>> THEN n = 0 ELSE shared' = "others" \/ n = amount'
  PROVE  S!Next
  <1>1. txs' \in {<<>>, <<S!RefundOf(tx.to)>>} /\ S!RefundDue
    BY ToRefund
  <1>2. IF txs' = <<>> THEN n = 0
        ELSE \/ (Settled /\ shared = "others")'
             \/ n = (IF Settled THEN amount ELSE tx.amount)'
    BY DEF Settling
  <1>3. S!Bounce(n)
    BY <1>1, <1>2, Pending, SameDb DEF Settling, S!Bounce, S!Settle, S!Credited, S!MayRun
  <1> QED
    BY <1>3 DEF S!Next

(* A call too deep for a refund credits the amount, and nobody owes it. *)
LEMMA ToKeep ==
  ASSUME Settling, S!NotRun, Outcome' = "kept", tx.op = "call", tx.type = "receive",
         ~(tx.depth <= CallCreateDepth), before.code[tx.to] # 0, txs' = txs,
         db' = AddBalance(before, tx.to, tx.token, tx.amount)
  PROVE  S!Next
  <1>1. S!Keep
    BY Pending, SameDb DEF Settling, S!Keep, S!Settle, S!Credited, S!MayRun
  <1> QED
    BY <1>1 DEF S!Next

(* A failed creation changes nothing, and the new contract owes the amount. *)
LEMMA ToDrop ==
  ASSUME Settling, S!Ran, Outcome' = "dropped", tx.op = "create", tx.type = "receive",
         NEW a \in Addr, a \notin before.live, db' = before, Refunded(a)
  PROVE  S!Next
  <1>1. S!Drop(a)
    BY ToRefund, Pending DEF Settling, S!Drop, S!Settle
  <1> QED
    BY <1>1 DEF S!Next

(* A panic leaves writes at the callee and the recipient. *)
LEMMA ToBreak ==
  ASSUME Settling, S!Ran, Outcome' = "broken", tx.type = "receive", txs' = txs,
         NEW a \in Addr, IF tx.op = "call" THEN a = tx.to ELSE a \notin before.live,
         tx.depth <= CallCreateDepth, \A b \in Addr \ {a, tx.to} : Agree(before, db', b)
  PROVE  S!Next
  <1>1. S!Break(a)
    BY Pending, SameDb DEF Settling, S!Break, S!Settle, S!MayRun
  <1> QED
    BY <1>1 DEF S!Next

-----------------------------------------------------------------------------
(* Everything that is known of a state. *)
Known == TypeInv /\ RunningInv /\ DoneInv /\ EndInv /\ NoOverdraft /\ Footprint

(* It is known of every state. *)
LEMMA KnownAlways == Spec => []Known
  <1>1. TypeInv /\ RunningInv /\ DoneInv /\ EndInv /\ NoOverdraft /\ Footprint => Known
    BY DEF Known
  <1> QED
    BY <1>1, RunningInvariant, DoneInvariant, EndInvariant, AlwaysSound, PTL

(* Until the transaction is settled nobody is owed anything. *)
LEMMA NothingOwed ==
  ASSUME Known, ~Settled
  PROVE  txs = <<>>
  BY DEF Known, TypeInv, TypeOK, IdleInv, RunningInv, RunInv, RefundInv, Running, Settled

(* The Amount is the one that was received, or a contract could alter it. *)
LEMMA AmountIsOwed ==
  ASSUME Known
  PROVE  amount \in S!Owed
  BY DEF Known, RunningInv, AmountInv, S!Owed, Altered

(* Whatever was run, the integer of the amount is as Settlement allows. *)
LEMMA ToRan ==
  ASSUME Settling, Known'
  PROVE  S!Ran
  <1>1. /\ (IF Settled THEN amount ELSE tx.amount)' = amount'
        /\ (Settled /\ shared = "others")' = (shared' = "others")
        /\ tx' = tx
    BY DEF Settling
  <1>2. /\ shared' = "no" => amount' = tx.amount
        /\ shared' # "no" => CallValueOps
        /\ amount' \in {tx.amount} \cup Amounts
    BY <1>1 DEF Known, RunningInv, AmountInv
  <1>3. amount' \in S!Owed
    BY <1>2 DEF S!Owed, Altered
  <1>4. shared' = "others" => Altered # {}
    BY <1>2, RunAssumption DEF Altered
  <1> QED
    BY <1>1, <1>3, <1>4 DEF S!Ran

(* What a settled receive may have touched. *)
LEMMA TouchedOnly ==
  ASSUME Known', tx' = tx, before' = before, frames' = frames, tx.type = "receive",
         NEW b \in Addr, tx.op = "call" => b # tx.to,
         tx.op = "create" /\ frames # <<>> =>
           b # frames[1].addr /\ (Len(frames) > 1 => b # tx.to)
  PROVE  Agree(before, db', b)
  BY DEF Known, Footprint, MayTouch, Agree

(* The outcome of a transaction that has returned. *)
LEMMA Outcomes ==
  ASSUME phase' = "done", UNCHANGED tx
  PROVE  /\ Settled'
         /\ (result').err = "ok" /\ tx.type = "send" => Outcome' = "sent"
         /\ (result').err = "ok" /\ tx.type = "receive" => Outcome' = "committed"
         /\ (result').err = "outOfQuota" => Outcome' = "retry"
         /\ (result').err \in {"gasUintOverflow", "insufficientBalance", "collision"}
              => Outcome' = "rejected"
         /\ (result').err \in {"depth", "invalid", "execution", "reverted"}
              /\ tx.op = "create" => Outcome' = "dropped"
         /\ (result').err = "depth" /\ tx.op = "call" => Outcome' = "kept"
         /\ (result').err \in {"invalid", "execution", "reverted"}
              /\ tx.op = "call" => Outcome' = "bounced"
  <1>1. Settled'
    BY DEF Settled
  <1>2. (result').err = "ok" /\ tx.type = "send" => Outcome' = "sent"
    BY DEF Outcome, Settled, Returned, RunErrors
  <1>3. (result').err = "ok" /\ tx.type = "receive" => Outcome' = "committed"
    BY DEF Outcome, Settled, Returned, RunErrors
  <1>4. (result').err = "outOfQuota" => Outcome' = "retry"
    BY DEF Outcome, Settled, Returned, RunErrors
  <1>5. (result').err \in {"gasUintOverflow", "insufficientBalance", "collision"}
          => Outcome' = "rejected"
    BY DEF Outcome, Settled, Returned, RunErrors
  <1>6. (result').err \in {"depth", "invalid", "execution", "reverted"} /\ tx.op = "create"
          => Outcome' = "dropped"
    BY DEF Outcome, Settled, Returned, RunErrors
  <1>7. (result').err = "depth" /\ tx.op = "call" => Outcome' = "kept"
    BY DEF Outcome, Settled, Returned, RunErrors
  <1>8. (result').err \in {"invalid", "execution", "reverted"} /\ tx.op = "call"
          => Outcome' = "bounced"
    BY DEF Outcome, Settled, Returned, RunErrors
  <1> QED
    BY <1>1, <1>2, <1>3, <1>4, <1>5, <1>6, <1>7, <1>8

-----------------------------------------------------------------------------
(* Steps of Call and Create up to run. *)

(* What such a step starts from. *)
LEMMA Start ==
  ASSUME Known, VmStart
  PROVE  /\ phase = "idle" /\ ~Settled /\ db = before /\ frames = <<>> /\ txs = <<>>
         /\ UNCHANGED <<tx, before>>
         /\ before \in InitDbs /\ before \in Dbs /\ WellFormed(before)
         /\ tx.from \in Addr /\ tx.to \in Addr /\ tx.token \in Token /\ tx.amount \in Nat
         /\ tx.op \in {"call", "create"} /\ tx.type \in {"send", "receive"}
         /\ amount' = tx.amount /\ shared' = "no" /\ amount = tx.amount
  <1>1. phase = "idle" /\ UNCHANGED <<tx, before, amount, shared>>
    BY DEF amtVars, VmStart, RejectOverflow, RejectOutOfQuota, SendRefused, Send, Enter,
       ReceiveTransfer, ReceiveTooDeep, ReceiveCall, Credit, CreateCollision, ReceiveCreate,
       CreateTooDeep, CreateContract, Return
  <1>2. /\ db = before /\ frames = <<>> /\ txs = <<>> /\ ~Settled
        /\ shared = "no" /\ amount = tx.amount
    BY <1>1 DEF Known, TypeInv, IdleInv, RunningInv, AmountInv, Settled
  <1> QED
    BY <1>1, <1>2, TxType, BeforeParts DEF Known, TypeInv, RunningInv

(* Refusals before anything was written. *)
LEMMA RefusalSettles ==
  ASSUME Known, Known', VmStart, RejectOverflow \/ RejectOutOfQuota \/ SendRefused \/ CreateCollision
  PROVE  S!Next
  <1>1. /\ phase' = "done" /\ txs' = txs /\ db' = before
        /\ (result').err \in {"gasUintOverflow", "insufficientBalance", "collision", "outOfQuota"}
    BY Start DEF RejectOverflow, RejectOutOfQuota, SendRefused, CreateCollision, Return,
       dbVars, outVars
  <1>2. Settling
    BY <1>1, Start, Outcomes DEF Settling
  <1>3. Outcome' \in {"rejected", "retry"}
    BY <1>1, Start, Outcomes
  <1> QED
    BY <1>1, <1>2, <1>3, Start, ToNotRun, ToRan, ToReject, ToRetry

(* A send that is covered. *)
LEMMA SendSettles ==
  ASSUME Known, Send
  PROVE  S!Next
  <1> DEFINE a == tx.from
             t == tx.token
             n == tx.amount
             d == SubBalance(before, a, t, n)
             e == SubBalance(d, a, Vite, 0)
  <1>0. VmStart
    BY DEF VmStart
  <1>1. /\ phase' = "done" /\ (result').err = "ok" /\ txs' = txs /\ tx.type = "send"
        /\ n <= before.balance[a][t] /\ db' = e
    BY <1>0, Start DEF Send, Enter, CanTransfer, Fee, CreateFee, Return, outVars
  <1>2. before \in Dbs /\ a \in Addr /\ t \in Token /\ n \in Int /\ Vite \in Token /\ 0 \in Int
    BY <1>0, Start, TokenAssumption
  <1> HIDE DEF a, t, n
  <1>3. d \in Dbs
    BY <1>2, SubBalanceParts
  <1> HIDE DEF d
  <1>4. /\ e \in Dbs /\ e.live = d.live /\ e.code = d.code /\ e.slot = d.slot
        /\ \A b \in Addr, u \in Token :
             e.balance[b][u] = IF b = a /\ u = Vite THEN d.balance[b][u] - 0
                               ELSE d.balance[b][u]
    BY <1>2, <1>3, SubBalanceParts
  <1> HIDE DEF e
  <1>5. /\ d.balance \in [Addr -> [Token -> Int]] /\ e.balance \in [Addr -> [Token -> Int]]
        /\ \A b \in Addr, u \in Token : d.balance[b][u] \in Int
    BY <1>3, <1>4 DEF Dbs
  <1>6. \A b \in Addr, u \in Token : e.balance[b][u] = d.balance[b][u]
    BY <1>4, <1>5
  <1>7. \A b \in Addr : e.balance[b] = d.balance[b]
    <2> SUFFICES ASSUME NEW b \in Addr PROVE e.balance[b] = d.balance[b]
      OBVIOUS
    <2>1. e.balance[b] \in [Token -> Int] /\ d.balance[b] \in [Token -> Int]
      BY <1>5
    <2> QED
      BY <1>6, <2>1
  <1>8. e.balance = d.balance
    BY <1>5, <1>7
  <1>9. db' = d
    BY <1>1, <1>3, <1>4, <1>8, DbExtensional
  <1>10. Settling /\ Outcome' = "sent"
    BY <1>0, <1>1, Start, Outcomes DEF Settling
  <1> QED
    BY <1>0, <1>1, <1>9, <1>10, Start, ToNotRun, ToPay DEF a, t, n, d

(* A receive of an account without code. *)
LEMMA TransferSettles ==
  ASSUME Known, Known', ReceiveTransfer
  PROVE  S!Next
  <1>0. VmStart
    BY DEF VmStart
  <1>1. /\ phase' = "done" /\ (result').err = "ok" /\ txs' = txs /\ frames' = frames
        /\ tx.op = "call" /\ tx.type = "receive"
        /\ db' = AddBalance(Recipient, tx.to, tx.token, tx.amount)
    BY DEF ReceiveTransfer, Credit, Enter, Return, outVars
  <1>2. Settling /\ Outcome' = "committed"
    BY <1>0, <1>1, Start, Outcomes DEF Settling
  <1>3. (db').balance = AddBalance(before, tx.to, tx.token, tx.amount).balance
    BY <1>0, <1>1, Start, RecipientSound DEF Known
  <1>4. tx.to \in (db').live
    <2>1. Recipient \in Dbs /\ tx.to \in Recipient.live
      BY <1>0, Start, CreditTypes, CreateAccountParts DEF Recipient, Known, TypeInv
    <2>2. tx.to \in Addr /\ tx.token \in Token /\ tx.amount \in Int
      BY <1>0, Start
    <2>3. AddBalance(Recipient, tx.to, tx.token, tx.amount).live = Recipient.live
      BY <2>1, <2>2, AddBalanceParts
    <2> QED
      BY <1>1, <2>1, <2>3
  <1>5. \A b \in Addr \ {tx.to} : Agree(before, db', b)
    BY <1>0, <1>1, Start, TouchedOnly
  <1>6. before.code[tx.to] = 0
    BY <1>0, Start, CreateAccountParts DEF ReceiveTransfer, Recipient
  <1> QED
    BY <1>0, <1>1, <1>2, <1>3, <1>4, <1>5, <1>6, Start, ToRan, ToCommit

(* A receive of a contract at a depth where nothing is run. *)
LEMMA TooDeepSettles ==
  ASSUME Known, ReceiveTooDeep
  PROVE  S!Next
  <1>0. VmStart
    BY DEF VmStart
  <1>1. /\ phase' = "done" /\ (result').err = "depth" /\ txs' = txs
        /\ tx.op = "call" /\ tx.type = "receive" /\ ~(tx.depth <= CallCreateDepth)
        /\ db' = AddBalance(Recipient, tx.to, tx.token, tx.amount)
        /\ Recipient.code[tx.to] # 0
    BY RunAssumption, TxType DEF ReceiveTooDeep, Credit, Enter, Return, outVars, Known, TypeInv
  <1>2. Settling /\ Outcome' = "kept"
    BY <1>0, <1>1, Start, Outcomes DEF Settling
  <1>3. Recipient = before /\ before.code[tx.to] # 0
    BY <1>0, <1>1, Start, CreateAccountParts, CodeIsLive DEF Recipient
  <1> QED
    BY <1>0, <1>1, <1>2, <1>3, Start, ToNotRun, ToKeep

(* A creation at such a depth. *)
LEMMA CreateTooDeepSettles ==
  ASSUME Known, Known', NEW a \in Addr, CreateTooDeep(a)
  PROVE  S!Next
  <1>0. VmStart
    BY DEF VmStart
  <1>1. /\ phase' = "done" /\ (result').err = "depth" /\ a \notin before.live
        /\ tx.op = "create" /\ tx.type = "receive" /\ txs' = RefundFrom(a)
        /\ db' = DeleteAccount(NewAccount(a), a)
    BY <1>0, Start DEF CreateTooDeep, CreateContract, Enter, Return
  <1>2. Settling /\ Outcome' = "dropped"
    BY <1>0, <1>1, Start, Outcomes DEF Settling
  <1>3. db' = before
    BY <1>0, <1>1, Start, NewAccountUndone DEF Known
  <1>4. Refunded(a)
    BY <1>0, <1>1, Start, FirstRefund DEF Refunded
  <1> QED
    BY <1>0, <1>1, <1>2, <1>3, <1>4, Start, ToRan, ToDrop

-----------------------------------------------------------------------------
(* Steps of Call and Create after run. *)

(* What holds when the outermost or a nested run has returned. *)
LEMMA Running1 ==
  ASSUME Known, AfterRun
  PROVE  /\ phase = "returned" /\ Running /\ ~Settled /\ txs = <<>> /\ Callee \in Addr
         /\ UNCHANGED <<tx, before, frames>> /\ frames # <<>> /\ Len(frames) >= 1
         /\ tx.type = "receive" /\ tx.op \in {"call", "create"}
         /\ tx.depth <= CallCreateDepth /\ tx.to \in Addr /\ tx.token \in Token /\ tx.amount \in Nat
         /\ tx.op = "call" => Callee = tx.to /\ before.code[tx.to] # 0
         /\ tx.op = "create" => Callee \notin before.live
         /\ RunDb(db) /\ db \in Dbs /\ before \in Dbs
         /\ ret.err \in {"ok", "outOfQuota", "invalid", "execution", "reverted"}
         /\ Len(frames) = 1 => Frame.addr = Callee
  <1>1. phase = "returned" /\ UNCHANGED <<tx, before, frames>>
    BY DEF AfterRun, NestedReturn, CallSucceeds, CallOutOfQuota, CallFails, CallOwes,
       CallReverts, CreateSucceeds,
       CreateOutOfQuota, CreateFails, Finish, Return
  <1>2. Running /\ ~Settled
    BY <1>1 DEF Running, Settled
  <1>3. frames # <<>> /\ Len(frames) >= 1 /\ Callee \in Addr
    BY <1>2, FrameType DEF Known, TypeInv, TypeOK, FramesInv
  <1> QED
    BY <1>1, <1>2, <1>3, TxType, BeforeParts DEF Known, TypeInv, TypeOK, RunningInv, RunInv

(* DELEGATECALL of a contract panics. *)
LEMMA PanicSettles ==
  ASSUME Known, Known', NestedReturn
  PROVE  S!Next
  <1>0. AfterRun
    BY DEF AfterRun
  <1>1. phase' = "panic" /\ txs' = txs
    BY DEF NestedReturn, outVars
  <1>2. Settled' /\ Outcome' = "broken"
    BY <1>1 DEF Settled, Outcome, Returned
  <1>3. Settling
    BY <1>0, <1>2, Running1 DEF Settling
  <1>4. \A b \in Addr \ {Callee, tx.to} : Agree(before, db', b)
    BY <1>0, Running1, TouchedOnly DEF Callee
  <1> QED
    BY <1>0, <1>1, <1>2, <1>3, <1>4, Running1, ToRan, ToBreak

(* The code has ended well. *)
LEMMA SuccessSettles ==
  ASSUME Known, Known', CallSucceeds \/ CreateSucceeds
  PROVE  S!Next
  <1>0. AfterRun
    BY DEF AfterRun
  <1>1. /\ phase' = "done" /\ (result').err = "ok" /\ txs' = txs /\ Len(frames) = 1
        /\ db' = db \/ db' = SetContractCode(db, Callee, ret.size)
    BY <1>0, Running1 DEF CallSucceeds, CreateSucceeds, Finish, Return, dbVars, outVars
  <1>2. Settling /\ Outcome' = "committed"
    BY <1>0, <1>1, Running1, Outcomes DEF Settling
  <1>3. ret.size \in Nat
    BY DEF Known, TypeInv, TypeOK
  <1>4. (db').live = db.live /\ (db').balance = db.balance
    <2>1. db \in Dbs /\ Callee \in Addr
      BY <1>0, Running1
    <2>2. /\ SetContractCode(db, Callee, ret.size).live = db.live
          /\ SetContractCode(db, Callee, ret.size).balance = db.balance
      BY <1>3, <2>1, SetContractCodeParts
    <2> QED
      BY <1>1, <2>2
  <1>5. /\ Callee \in (db').live
        /\ (db').balance = AddBalance(before, Callee, tx.token, tx.amount).balance
    BY <1>0, <1>4, Running1 DEF RunDb
  <1>6. \A b \in Addr \ {Callee} : Agree(before, db', b)
    BY <1>0, <1>1, Running1, TouchedOnly DEF Callee
  <1> QED
    BY <1>0, <1>1, <1>2, <1>5, <1>6, Running1, ToRan, ToCommit

(* The code has run out of quota. *)
LEMMA RetrySettles ==
  ASSUME Known, Known', CallOutOfQuota \/ CreateOutOfQuota
  PROVE  S!Next
  <1>0. AfterRun
    BY DEF AfterRun
  <1>1. phase' = "done" /\ (result').err = "outOfQuota" /\ txs' = txs
    BY DEF CallOutOfQuota, CreateOutOfQuota, Return, outVars
  <1>2. Settling /\ Outcome' = "retry"
    BY <1>0, <1>1, Running1, Outcomes DEF Settling
  <1>3. db' = before
    BY <1>0, <1>1, Running1 DEF Known, DoneInv, OutOfQuotaRestores, Failed
  <1> QED
    BY <1>1, <1>2, <1>3, ToRan, ToRetry

(* A call has failed otherwise and no positive amount is there to refund. *)
LEMMA CallFailureSettles ==
  ASSUME Known, Known', CallFails
  PROVE  S!Next
  <1>0. AfterRun
    BY DEF AfterRun
  <1>1. /\ phase' = "done" /\ (result').err \in {"invalid", "execution", "reverted"}
        /\ tx.op = "call" /\ Len(frames) = 1 /\ txs' = <<>> /\ amount' = amount
        /\ amount <= 0 /\ db' = snapshots[Frame.snapshot]
    BY <1>0, Running1 DEF CallFails, CallReverts, Finish, Return, outVars, amtVars
  <1>2. Settling /\ Outcome' = "bounced"
    BY <1>0, <1>1, Running1, Outcomes DEF Settling
  <1>3. db' = AddBalance(before, tx.to, tx.token, 0)
    BY <1>0, <1>1, Running1, LastFrame, AddNothing DEF Known
  <1>4. Refunded(tx.to)
    BY <1>1 DEF Refunded, Known, TypeInv, TypeOK
  <1> QED
    BY <1>0, <1>1, <1>2, <1>3, <1>4, Running1, ToRan, ToBounce

(* A failed call is settled when it has credited again and owes. *)
LEMMA CallRefundsSettles ==
  ASSUME Known, Known', CallRefunds
  PROVE  S!Next
  <1>1. /\ tx.op = "call" /\ tx.type = "receive" /\ tx.depth <= CallCreateDepth
        /\ before.code[tx.to] # 0 /\ db = before /\ txs = <<>>
        /\ ret.err \in {"invalid", "execution", "reverted"}
        /\ shared # "others" => amount > 0
    BY DEF CallRefunds, Known, RunningInv, RefundInv
  <1>2. /\ phase = "refund" /\ phase' = "done" /\ (result').err = ret.err
        /\ UNCHANGED <<tx, before, amount, shared>>
        /\ db' = AddBalance(before, tx.to, tx.token, amount)
        /\ txs' = <<RefundBy(tx.to)>> /\ txs' # <<>>
    BY <1>1, FirstRefund DEF CallRefunds, Return, amtVars
  <1>3. Settling /\ Outcome' = "bounced"
    BY <1>1, <1>2, Outcomes DEF Settling, Settled
  <1>4. Refunded(tx.to)
    BY <1>1, <1>2 DEF Refunded
  <1>5. amount \in S!Owed \cup {0}
    BY AmountIsOwed
  <1> QED
    BY <1>1, <1>2, <1>3, <1>4, <1>5, ToRan, ToBounce

(* A creation has failed otherwise. *)
LEMMA CreateFailureSettles ==
  ASSUME Known, Known', CreateFails
  PROVE  S!Next
  <1>0. AfterRun
    BY DEF AfterRun
  <1>1. /\ phase' = "done" /\ (result').err \in {"invalid", "execution", "reverted"}
        /\ tx.op = "create" /\ txs' = RefundFrom(Callee)
    BY <1>0, Running1 DEF CreateFails, Finish, Return
  <1>2. Settling /\ Outcome' = "dropped"
    BY <1>0, <1>1, Running1, Outcomes DEF Settling
  <1>3. db' = before
    BY <1>0, <1>1, Running1 DEF Known, DoneInv, FailedCreateLeavesNoTrace, Failed, Errors
  <1>4. Refunded(Callee)
    BY <1>0, <1>1, Running1, FirstRefund DEF Refunded, CreateFails, amtVars
  <1> QED
    BY <1>0, <1>1, <1>2, <1>3, <1>4, Running1, ToRan, ToDrop

-----------------------------------------------------------------------------
(* Every other step is invisible. *)

(* A step on the way to the outcome changes nothing Settlement sees. *)
LEMMA Invisible ==
  ASSUME Known, Known', ~Settled, ~Settled', UNCHANGED <<tx, before>>
  PROVE  UNCHANGED S!vars
  <1>1. Outcome = "pending" /\ Outcome' = "pending"
    BY Pending DEF Settled, Outcome, Returned
  <1>2. txs = <<>>
    BY NothingOwed
  <1>3. txs' = <<>>
    BY DEF Known, TypeInv, TypeOK, IdleInv, RunningInv, RunInv, RefundInv, Running, Settled
  <1> QED
    BY <1>1, <1>2, <1>3 DEF S!vars

(* Nor does a step of nobody, or of the goroutine that cancels. *)
LEMMA StutterIsInvisible ==
  ASSUME UNCHANGED vars \/ Cancel
  PROVE  UNCHANGED S!vars
  <1>1. UNCHANGED <<tx, before, phase, db, txs, result, amount, shared>>
    BY DEF vars, Cancel, dbVars, outVars, amtVars
  <1>2. UNCHANGED <<Settled, Outcome>>
    BY <1>1 DEF Settled, Outcome, Returned
  <1> QED
    BY <1>1, <1>2 DEF S!vars

(* What other VMs write is seen once the transaction is settled. *)
LEMMA ChangeIsSeen ==
  ASSUME Known, Known', NEW n \in Amounts, OthersWriteAmount(n)
  PROVE  S!Next \/ UNCHANGED S!vars
  <1>1. /\ shared = "others" /\ amount' = n
        /\ UNCHANGED <<tx, before, phase, db, txs, shared, result>>
    BY DEF OthersWriteAmount, dbVars, outVars
  <1>2. UNCHANGED <<Settled, Outcome>>
    BY <1>1 DEF Settled, Outcome, Returned
  <1>3. CASE ~Settled
    BY <1>1, <1>2, <1>3, Invisible
  <1>4. CASE Settled
    <2>1. n \in Altered
      BY <1>1 DEF Known, RunningInv, AmountInv, Altered
    <2>2. S!Change
      BY <1>1, <1>2, <1>4, <2>1 DEF S!Change
    <2> QED
      BY <2>2 DEF S!Next
  <1> QED
    BY <1>3, <1>4

(* Running code is invisible, and so is undoing what it did. *)
LEMMA ExecIsInvisible ==
  ASSUME Known, Known',
         VmExec \/ ReceiveCall \/ (\E a \in Addr : ReceiveCreate(a)) \/ CallOwes
  PROVE  UNCHANGED S!vars
  <1>1. /\ phase \in {"idle", "head", "exec", "returned"}
        /\ phase' \in {"head", "exec", "returned", "refund"}
        /\ UNCHANGED <<tx, before>>
    BY DEF CallOwes, CallReverts, Finish, VmExec, Aborted, Fetch, Executing, ExecInvalid, ExecOutOfQuota, ExecPlain,
       ExecLog, ExecSStore, ExecSStoreOutOfQuota, ExecCallValue, ExecWriteAmount, ExecError,
       ExecHalt, ExecRevert, ExecDelegateEmpty, ExecDelegate, RunReturns, EnterRun, Continue,
       ReceiveCall, ReceiveCreate, Credit, CreateContract, Enter
  <1>2. ~Settled /\ ~Settled'
    BY <1>1 DEF Settled
  <1> QED
    BY <1>1, <1>2, Invisible

-----------------------------------------------------------------------------
(* Whoever calls Call or Create sees a transaction that is settled in one  *)
(* step, or not yet: run, its snapshots, nested runs and quota are         *)
(* invisible (vm.go:80-228).  What a contract owes when it fails is the    *)
(* amount received, unless contracts use CALLVALUE and may alter it; and   *)
(* it is what was credited, unless the pool with the Amount in it has gone *)
(* to other VMs, whose writes are visible from then on (vm.go:242).        *)
THEOREM SettlesAtOnce == Spec => Settles
  <1>1. Init => S!Init
    BY DEF Init, S!Init, Outcome, Settled, Returned
  <1>2. Known /\ Known' /\ [Next]_vars => [S!Next]_(S!vars)
    <2> SUFFICES ASSUME Known, Known', [Next]_vars
                 PROVE  S!Next \/ UNCHANGED S!vars
      OBVIOUS
    <2>1. CASE VmStart
      BY <2>1, RefusalSettles, SendSettles, TransferSettles, TooDeepSettles,
         CreateTooDeepSettles, ExecIsInvisible DEF VmStart
    <2>2. CASE VmExec
      BY <2>2, ExecIsInvisible
    <2>3. CASE VmFinish
      BY <2>3, PanicSettles, SuccessSettles, RetrySettles, CallFailureSettles,
         CallRefundsSettles, CreateFailureSettles, ExecIsInvisible DEF VmFinish
    <2>4. CASE \E n \in Amounts : OthersWriteAmount(n)
      BY <2>4, ChangeIsSeen
    <2> QED
      BY <2>1, <2>2, <2>3, <2>4, StutterIsInvisible DEF Next, VmStep
  <1> QED
    BY <1>1, <1>2, KnownAlways, PTL DEF Spec, Settles, S!Spec

(* No call is refunded below the depth up to which code is run, so a chain *)
(* of calls that refund one another, each a level deeper than the last     *)
(* (vm.go:194, 212), ends.                                                 *)
THEOREM RefundChainsEnd == Spec => []S!RefundsEnd
  <1>1. S!Init => S!RefundsEnd
    BY DEF S!Init, S!RefundsEnd
  <1>2. S!RefundsEnd /\ [S!Next]_(S!vars) => S!RefundsEnd'
    <2> SUFFICES ASSUME S!RefundsEnd, [S!Next]_(S!vars)  PROVE S!RefundsEnd'
      OBVIOUS
    <2>1. CASE \E n \in S!Owed \cup {0} : S!Bounce(n)
      BY <2>1 DEF S!Bounce, S!Settle, S!RefundsEnd, S!MayRun
    <2>2. CASE \E a \in Addr : S!Drop(a)
      BY <2>2 DEF S!Drop, S!Settle, S!RefundsEnd
    <2>3. CASE \/ S!Reject \/ S!Retry \/ S!Pay \/ S!Keep \/ S!Change
               \/ \E a \in Addr : S!Commit(a) \/ S!Break(a)
      BY <2>3 DEF S!Reject, S!Retry, S!Pay, S!Keep, S!Commit, S!Break, S!Change, S!Settle,
         S!RefundsEnd, S!MayRun
    <2>4. CASE UNCHANGED S!vars
      BY <2>4 DEF S!vars, S!RefundsEnd, S!MayRun
    <2> QED
      BY <2>1, <2>2, <2>3, <2>4 DEF S!Next
  <1> QED
    BY <1>1, <1>2, SettlesAtOnce, PTL DEF Settles, S!Spec
=============================================================================
