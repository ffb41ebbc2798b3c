-------------------------- MODULE VmBalanceProofs --------------------------
(***************************************************************************)
(* More proofs about Vm: balances, the accounts a transaction may touch,   *)
(* and what a failed or cancelled run may still do.                        *)
(***************************************************************************)
EXTENDS VmProofs

(* A database no balance of which is overdrawn, and which differs from the *)
(* one handed over only where the transaction may write.                   *)
Sound(d) == /\ \A a \in Addr, t \in Token : d.balance[a][t] >= 0
            /\ \A a \in Addr : MayTouch(a) \/ Agree(d, before, a)

(* The database that was handed over is sound. *)
LEMMA BeforeSound ==
  ASSUME before \in InitDbs
  PROVE  Sound(before)
  BY BeforeParts DEF Sound, Agree

(* So is every database of a running contract. *)
LEMMA RunSound ==
  ASSUME TypeInv, RunningInv, Running, NEW d \in Dbs, RunDb(d)
  PROVE  Sound(d)
  <1>1. /\ before \in Dbs /\ Callee \in Addr
        /\ \A a \in Addr, t \in Token :
             before.balance[a][t] >= 0 /\ before.balance[a][t] \in Int
             /\ d.balance[a][t] \in Int
    BY BeforeParts, FrameType DEF RunningInv, Dbs, TypeInv
  <1>2. \A a \in Addr, t \in Token : d.balance[a][t] >= before.balance[a][t]
    BY RunDbParts
  <1>3. \A a \in Addr, t \in Token : d.balance[a][t] >= 0
    BY <1>1, <1>2
  <1>4. MayTouch(Callee)
    BY TxType DEF TypeInv, RunningInv, RunInv, MayTouch, Callee, FramesInv
  <1>5. Len(frames) > 1 => MayTouch(tx.to)
    BY TxType DEF TypeInv, MayTouch, FramesInv
  <1>6. \A a \in Addr \ {Callee} :
          (Len(frames) > 1 /\ a = tx.to) \/ Agree(d, before, a)
    BY RunDbParts DEF RunDb, Agree
  <1> QED
    BY <1>3, <1>4, <1>5, <1>6 DEF Sound

(* Crediting an account the transaction may touch keeps a database sound.  *)
LEMMA CreditSound ==
  ASSUME TypeInv, before \in InitDbs, NEW d \in Dbs, NEW a \in Addr, NEW n \in Nat,
         MayTouch(a), Sound(d)
  PROVE  Sound(AddBalance(d, a, tx.token, n))
  <1> DEFINE u == tx.token
             e == AddBalance(d, a, u, n)
  <1>1. u \in Token /\ n \in Int
    BY TxType DEF TypeInv
  <1> HIDE DEF u
  <1>2. /\ e.live = d.live /\ e.code = d.code /\ e.slot = d.slot
        /\ \A b \in Addr, t \in Token :
             e.balance[b][t] = IF b = a /\ t = u THEN d.balance[b][t] + n
                               ELSE d.balance[b][t]
        /\ \A b \in Addr \ {a} : e.balance[b] = d.balance[b]
    BY <1>1, AddBalanceParts
  <1> HIDE DEF e
  <1>3. \A b \in Addr, t \in Token : d.balance[b][t] \in Int /\ d.balance[b][t] >= 0
    BY DEF Dbs, Sound
  <1>4. \A b \in Addr, t \in Token : e.balance[b][t] >= 0
    BY <1>2, <1>3
  <1>5. \A b \in Addr : MayTouch(b) \/ Agree(e, before, b)
    BY <1>2 DEF Sound, Agree
  <1> QED
    BY <1>4, <1>5 DEF Sound, e, u

(* The recipient's account, new or not, with the amount is sound. *)
LEMMA RecipientSound ==
  ASSUME TypeInv, before \in InitDbs, db = before, tx.op = "call"
  PROVE  /\ Sound(AddBalance(Recipient, tx.to, tx.token, tx.amount))
         /\ AddBalance(Recipient, tx.to, tx.token, tx.amount).balance
              = AddBalance(before, tx.to, tx.token, tx.amount).balance
  <1>1. /\ before \in Dbs /\ tx.to \in Addr /\ tx.amount \in Nat /\ Recipient \in Dbs
        /\ MayTouch(tx.to)
    BY BeforeParts, TxType, CreditTypes DEF TypeInv, MayTouch
  <1>2. /\ Recipient.balance = before.balance /\ Recipient.code = before.code
        /\ Recipient.slot = before.slot
        /\ \A a \in Addr \ {tx.to} : a \in Recipient.live <=> a \in before.live
    BY <1>1, CreateAccountParts DEF Recipient
  <1>3. Sound(Recipient)
    BY <1>1, <1>2, BeforeSound DEF Sound, Agree
  <1> QED
    BY <1>1, <1>2, <1>3, CreditSound, SameCredit

(* A send that is not refused takes what the sender has. *)
LEMMA SendSound ==
  ASSUME TypeInv, before \in InitDbs, db = before, Send
  PROVE  Sound(db')
  <1> DEFINE s == tx.from
             u == tx.token
             n == tx.amount
             d == SubBalance(before, s, u, n)
             e == SubBalance(d, s, Vite, 0)
  <1>1. /\ before \in Dbs /\ s \in Addr /\ u \in Token /\ n \in Int
        /\ Vite \in Token /\ 0 \in Int
    BY BeforeParts, TxType, TokenAssumption DEF TypeInv
  <1>2. n <= before.balance[s][u] /\ tx.type = "send" /\ db' = e
    BY DEF Send, Enter, CanTransfer, Fee, CreateFee
  <1>3. MayTouch(s)
    BY <1>2 DEF MayTouch
  <1> HIDE DEF s, u, n
  <1>4. /\ d \in Dbs /\ d.live = before.live /\ d.code = before.code
        /\ d.slot = before.slot
        /\ \A b \in Addr, t \in Token :
             d.balance[b][t] = IF b = s /\ t = u THEN before.balance[b][t] - n
                               ELSE before.balance[b][t]
        /\ \A b \in Addr \ {s} : d.balance[b] = before.balance[b]
    BY <1>1, SubBalanceParts
  <1> HIDE DEF d
  <1>5. /\ e.live = d.live /\ e.code = d.code /\ e.slot = d.slot
        /\ \A b \in Addr, t \in Token :
             e.balance[b][t] = IF b = s /\ t = Vite THEN d.balance[b][t] - 0
                               ELSE d.balance[b][t]
        /\ \A b \in Addr \ {s} : e.balance[b] = d.balance[b]
    BY <1>1, <1>4, SubBalanceParts
  <1> HIDE DEF e
  <1>6. \A b \in Addr, t \in Token :
          /\ before.balance[b][t] \in Int /\ before.balance[b][t] >= 0
          /\ d.balance[b][t] \in Int
    BY <1>1, <1>4, BeforeParts DEF Dbs
  <1>7. \A b \in Addr, t \in Token : d.balance[b][t] >= 0
    BY <1>1, <1>2, <1>4, <1>6
  <1>8. \A b \in Addr, t \in Token : e.balance[b][t] >= 0
    BY <1>5, <1>6, <1>7
  <1>9. \A b \in Addr \ {s} : Agree(e, before, b)
    BY <1>4, <1>5 DEF Agree
  <1> QED
    BY <1>2, <1>3, <1>8, <1>9 DEF Sound

-----------------------------------------------------------------------------
(* Steps that return, or that do not. *)

(* What holds of a transaction that is finished. *)
EndInv == /\ phase \in {"done", "panic"} => NoOverdraft /\ Footprint
          /\ CreditedOnce /\ FailedRunClearsEffects

(* A sound database has what is promised of the database. *)
LEMMA SoundNow ==
  ASSUME Sound(db)
  PROVE  NoOverdraft /\ Footprint
  BY DEF Sound, NoOverdraft, Footprint

(* Only tx, before and frames decide which accounts may be touched. *)
LEMMA SoundLater ==
  ASSUME NEW d, Sound(d), UNCHANGED <<tx, before, frames>>, db' = d
  PROVE  NoOverdraft' /\ Footprint'
  BY DEF NoOverdraft, Footprint, Sound, MayTouch, Agree

(* Steps of Call and Create up to run. *)
LEMMA StartEnd ==
  ASSUME TypeInv, RunningInv, VmStart
  PROVE  EndInv'
  <1>1. phase = "idle" /\ UNCHANGED <<tx, before, amtVars>>
    BY DEF VmStart, RejectOverflow, RejectOutOfQuota, SendRefused, Send, Enter,
           ReceiveTransfer, ReceiveTooDeep, ReceiveCall, Credit, CreateCollision,
           ReceiveCreate, CreateTooDeep, CreateContract, Return
  <1>2. db = before /\ before \in InitDbs /\ frames = <<>>
    BY <1>1 DEF TypeInv, IdleInv, RunningInv
  <1>3. CASE RejectOverflow \/ RejectOutOfQuota \/ SendRefused \/ CreateCollision
    <2>1. /\ db' = before /\ phase' = "done" /\ UNCHANGED frames
          /\ \/ result'.err = "gasUintOverflow"
             \/ result'.err = "outOfQuota" /\ result'.quota = 0
             \/ tx.type = "send" /\ result'.err = "insufficientBalance"
             \/ tx.op = "create" /\ result'.err = "collision"
      BY <1>2, <1>3 DEF RejectOverflow, RejectOutOfQuota, SendRefused,
         CreateCollision, Enter, Return, dbVars
    <2>2. NoOverdraft' /\ Footprint'
      BY <1>1, <1>2, <2>1, BeforeSound, SoundLater
    <2> QED
      BY <1>1, <1>2, <2>1, <2>2 DEF EndInv, CreditedOnce, FailedRunClearsEffects, Failed
  <1>4. CASE Send
    <2>1. phase' = "done" /\ UNCHANGED frames /\ tx.type = "send" /\ result'.err = "ok"
      BY <1>4 DEF Send, Enter, Return
    <2>2. NoOverdraft' /\ Footprint'
      BY <1>1, <1>2, <1>4, <2>1, SendSound, SoundLater
    <2> QED
      BY <1>1, <2>1, <2>2 DEF EndInv, CreditedOnce, FailedRunClearsEffects, Failed
  <1>5. CASE ReceiveTransfer \/ ReceiveTooDeep
    <2>1. /\ phase' = "done" /\ UNCHANGED frames /\ tx.op = "call"
          /\ result'.err \in {"ok", "depth"}
          /\ db' = AddBalance(Recipient, tx.to, tx.token, tx.amount)
      BY <1>5 DEF ReceiveTransfer, ReceiveTooDeep, Credit, Enter, Return
    <2>2. Sound(AddBalance(Recipient, tx.to, tx.token, tx.amount))
          /\ db'.balance = AddBalance(before, tx.to, tx.token, tx.amount).balance
      BY <1>2, <2>1, RecipientSound
    <2>3. NoOverdraft' /\ Footprint'
      BY <1>1, <2>1, <2>2, SoundLater
    <2> QED
      BY <1>1, <2>1, <2>2, <2>3 DEF EndInv, CreditedOnce, FailedRunClearsEffects, Failed
  <1>6. ASSUME NEW a \in Addr, CreateTooDeep(a) PROVE EndInv'
    <2>1. /\ phase' = "done" /\ UNCHANGED frames /\ result'.err = "depth"
          /\ tx.op = "create" /\ a \notin db.live
          /\ db' = DeleteAccount(NewAccount(a), a)
      BY <1>6 DEF CreateTooDeep, CreateContract, Enter, Return
    <2>2. db' = before
      BY <1>2, <2>1, NewAccountUndone
    <2>3. NoOverdraft' /\ Footprint'
      BY <1>1, <1>2, <2>1, <2>2, BeforeSound, SoundLater
    <2> QED
      BY <1>1, <2>1, <2>3 DEF EndInv, CreditedOnce, FailedRunClearsEffects, Failed
  <1>7. CASE ReceiveCall \/ \E a \in Addr : ReceiveCreate(a)
    <2>1. phase' \in {"head", "returned"}
      BY <1>7 DEF ReceiveCall, ReceiveCreate, EnterRun
    <2> QED
      BY <2>1 DEF EndInv, CreditedOnce, FailedRunClearsEffects, Failed
  <1> QED
    BY <1>3, <1>4, <1>5, <1>6, <1>7 DEF VmStart

(* Every database saved while code runs is sound. *)
LEMMA SnapshotSound ==
  ASSUME TypeInv, RunningInv, Running
  PROVE  Sound(snapshots[Frame.snapshot]) /\ Sound(db)
  <1>1. /\ Frame.snapshot \in 1..Len(snapshots) /\ Len(snapshots) \in Nat
        /\ snapshots[Frame.snapshot] \in Dbs /\ db \in Dbs
    BY FrameType DEF TypeInv, TypeOK
  <1>2. /\ RunDb(db) /\ snapshots[1] = before /\ before \in InitDbs
        /\ \A k \in 2..Len(snapshots) : RunDb(snapshots[k])
    BY DEF RunningInv, RunInv, RevertPointIntact
  <1>3. Frame.snapshot = 1 \/ Frame.snapshot \in 2..Len(snapshots)
    BY <1>1
  <1>4. snapshots[Frame.snapshot] = before \/ RunDb(snapshots[Frame.snapshot])
    BY <1>2, <1>3
  <1> QED
    BY <1>1, <1>2, <1>4, RunSound, BeforeSound

(* A run that has failed in an instruction is charged what it used. *)
LEMMA FailedCharge ==
  ASSUME TypeInv, quotaReturn = 0
  PROVE  QuotaUsed(quotaLeft, quotaReturn) = QuotaInit - quotaLeft
  <1> DEFINE used == QuotaInit - quotaLeft
  <1>1. used \in Nat
    BY GasAssumption DEF TypeInv, TypeOK
  <1> HIDE DEF used
  <1>2. used + (IF 0 < used \div 2 THEN 0 ELSE used \div 2) = used
    BY <1>1
  <1> QED
    BY <1>2 DEF QuotaUsed, used

(* Call and Create after run has returned. *)
LEMMA FinishEnd ==
  ASSUME TypeInv, RunningInv, AfterRun
  PROVE  EndInv'
  <1>1. /\ Running /\ phase' \in {"done", "panic", "refund"}
        /\ UNCHANGED <<tx, before, frames, logs, amtVars>>
        /\ phase = "returned"
    <2>1. phase = "returned"
      BY DEF AfterRun, NestedReturn, CallSucceeds, CallOutOfQuota, CallFails,
         CallOwes, CallReverts,
         CreateSucceeds, CreateOutOfQuota, CreateFails, Finish
    <2> QED
      BY <2>1, FinishTypes
  <1>2. /\ ret.err \in {"ok", "outOfQuota", "invalid", "execution", "reverted"}
        /\ ret.err \in {"execution", "reverted"} => quotaReturn = 0 /\ logs = <<>>
        /\ tx.op = "call" => Callee = tx.to
        /\ before \in InitDbs /\ (shared = "no" => amount = tx.amount)
        /\ RunDb(db)
    BY <1>1 DEF RunningInv, RunInv, AmountInv
  <1>3. Sound(snapshots[Frame.snapshot]) /\ Sound(db) /\ Sound(before)
    BY <1>1, <1>2, SnapshotSound, BeforeSound
  <1>8. CASE CallOwes
    <2>1. phase' = "refund"
      BY <1>8 DEF CallOwes
    <2> QED
      BY <2>1 DEF EndInv, CreditedOnce, FailedRunClearsEffects, Failed
  <1>4. CASE NestedReturn
    <2>1. phase' = "panic" /\ db' \in {db, snapshots[Frame.snapshot]}
      BY <1>4 DEF NestedReturn, dbVars
    <2>2. NoOverdraft' /\ Footprint'
      BY <1>1, <1>3, <2>1, SoundLater
    <2> QED
      BY <2>1, <2>2 DEF EndInv, CreditedOnce, FailedRunClearsEffects, Failed
  <1>5. CASE CallSucceeds
    <2>1. phase' = "done" /\ result'.err = "ok" /\ db' = db /\ tx.op = "call"
      BY <1>5 DEF CallSucceeds, Finish, Return, dbVars
    <2>2. NoOverdraft' /\ Footprint'
      BY <1>1, <1>3, <2>1, SoundLater
    <2>3. db'.balance = AddBalance(before, tx.to, tx.token, tx.amount).balance
      BY <1>2, <2>1 DEF RunDb
    <2> QED
      BY <1>1, <2>1, <2>2, <2>3 DEF EndInv, CreditedOnce, FailedRunClearsEffects, Failed
  <1>6. CASE CallOutOfQuota \/ CreateOutOfQuota
    <2>1. /\ phase' = "done" /\ result'.err = "outOfQuota"
          /\ result'.quota = QuotaInit /\ frames # <<>>
          /\ db' = snapshots[Frame.snapshot]
      BY <1>1, <1>6 DEF CallOutOfQuota, CreateOutOfQuota, Return, TypeInv, FramesInv
    <2>2. NoOverdraft' /\ Footprint'
      BY <1>1, <1>3, <2>1, SoundLater
    <2> QED
      BY <1>1, <2>1, <2>2 DEF EndInv, CreditedOnce, FailedRunClearsEffects, Failed
  <1>7. CASE CallFails \/ CreateFails
    <2>1. /\ phase' = "done" /\ result'.err = ret.err /\ UNCHANGED quotaVars
          /\ ret.err \in {"invalid", "execution", "reverted"}
          /\ result'.quota = QuotaUsed(quotaLeft, quotaReturn)
      BY <1>2, <1>7 DEF CallFails, CallReverts, CreateFails, Finish, Return
    <2>2. FailedRunClearsEffects'
      BY <1>1, <1>2, <2>1, FailedCharge DEF FailedRunClearsEffects, Failed, quotaVars
    <2>3. NoOverdraft' /\ Footprint'
      <3>1. CASE CallFails
        <4>1. db' = snapshots[Frame.snapshot]
          BY <3>1 DEF CallFails, CallReverts
        <4> QED
          BY <1>1, <1>3, <4>1, SoundLater
      <3>2. CASE CreateFails
        <4>1. db' = before
          BY <1>1, <3>2, ConstructorUndone DEF CreateFails, Finish
        <4> QED
          BY <1>1, <1>3, <4>1, SoundLater
      <3> QED
        BY <1>7, <3>1, <3>2
    <2>4. CreditedOnce'
      <3>1. CASE tx.op = "call"
        <4>1. FailedCallLeavesOnlyAmount'
          BY FinishDone DEF DoneInv
        <4>2. PICK n \in Recredited' : db' = AddBalance(before, tx.to, tx.token, n)
          BY <1>1, <2>1, <3>1, <4>1 DEF FailedCallLeavesOnlyAmount, Failed
        <4>3. shared = "no" => n = tx.amount
          BY <1>1, <1>2, TxType DEF Recredited, TypeInv, amtVars
        <4> QED
          BY <1>1, <2>1, <4>2, <4>3 DEF CreditedOnce, amtVars
      <3>2. CASE tx.op # "call"
        BY <1>1, <3>2 DEF CreditedOnce
      <3> QED
        BY <3>1, <3>2
    <2> QED
      BY <2>2, <2>3, <2>4 DEF EndInv
  <1>9. CASE CreateSucceeds
    <2>0. /\ phase' = "done" /\ result'.err = "ok" /\ tx.op = "create"
          /\ Len(frames) = 1
      BY <1>9 DEF CreateSucceeds, Finish, Return
    <2>1. /\ db' = SetContractCode(db, Frame.addr, ret.size)
          /\ Frame.addr = Callee /\ Callee \in Addr
          /\ db \in Dbs /\ ret.size \in Nat
      BY <1>1, <1>9, <2>0, LastFrame DEF CreateSucceeds, TypeInv, TypeOK
    <2>2. /\ db'.live = db.live /\ db'.balance = db.balance /\ db'.slot = db.slot
          /\ \A a \in Addr \ {Callee} : db'.code[a] = db.code[a]
      <3>1. /\ db'.live = db.live /\ db'.balance = db.balance /\ db'.slot = db.slot
            /\ db'.code = [db.code EXCEPT ![Callee] = ret.size]
        BY <2>1, SetContractCodeParts
      <3>2. db.code \in [Addr -> Nat]
        BY <2>1 DEF Dbs
      <3> QED
        BY <3>1, <3>2
    <2>3. MayTouch(Callee)
      BY <1>1, <2>0 DEF MayTouch, Callee, TypeInv, FramesInv
    <2>4. Sound(db')
      BY <1>3, <2>2, <2>3 DEF Sound, Agree
    <2> QED
      BY <1>1, <2>0, <2>4, SoundLater
      DEF EndInv, CreditedOnce, FailedRunClearsEffects, Failed
  <1> QED
    BY <1>4, <1>5, <1>6, <1>7, <1>9, <1>8 DEF AfterRun

(* The credit and the refund of a call that failed.  The database is sound *)
(* but for that one balance, which only other VMs can overdraw.            *)
LEMMA CallRefundsEnd ==
  ASSUME TypeInv, RunningInv, CallRefunds
  PROVE  EndInv'
  <1>1. /\ phase' = "done" /\ result'.err = ret.err
        /\ result'.quota = QuotaUsed(quotaLeft, quotaReturn)
        /\ UNCHANGED <<tx, before, frames, quotaVars, logs, amount, shared>>
        /\ db' = AddBalance(before, tx.to, tx.token, amount)
        /\ txs' = <<RefundBy(tx.to)>> /\ txs' # <<>>
    BY FirstRefund DEF CallRefunds, Return, amtVars, RunningInv, RefundInv
  <1>2. /\ tx.op = "call" /\ before \in InitDbs /\ before \in Dbs
        /\ tx.to \in Addr /\ tx.token \in Token /\ amount \in Int /\ MayTouch(tx.to)
        /\ ret.err \in {"invalid", "execution", "reverted"}
        /\ ret.err \in {"execution", "reverted"} => quotaReturn = 0 /\ logs = <<>>
        /\ shared # "others" => amount > 0
        /\ shared = "no" => amount = tx.amount
    BY TxType, BeforeParts DEF RunningInv, RefundInv, AmountInv, CallRefunds, TypeInv,
       TypeOK, MayTouch
  <1>3. FailedRunClearsEffects'
    BY <1>1, <1>2, FailedCharge DEF FailedRunClearsEffects, Failed, quotaVars
  <1>4. CreditedOnce'
    <2>1. FailedCallLeavesOnlyAmount'
      BY CallRefundsDone DEF DoneInv
    <2>2. PICK n \in Recredited' : db' = AddBalance(before, tx.to, tx.token, n)
      BY <1>1, <1>2, <2>1 DEF FailedCallLeavesOnlyAmount, Failed
    <2>3. shared = "no" => n = tx.amount
      BY <1>1, <1>2 DEF Recredited
    <2> QED
      BY <1>1, <1>2, <2>2, <2>3 DEF CreditedOnce
  <1>5. CASE shared # "others"
    <2>1. amount \in Nat
      BY <1>2, <1>5
    <2>2. Sound(AddBalance(before, tx.to, tx.token, amount))
      BY <1>2, <2>1, BeforeSound, CreditSound
    <2>3. NoOverdraft' /\ Footprint'
      BY <1>1, <2>2, SoundLater
    <2> QED
      BY <1>3, <1>4, <2>3 DEF EndInv
  <1>6. CASE shared = "others"
    <2> DEFINE c == tx.to
               u == tx.token
               e == AddBalance(before, c, u, amount)
    <2>1. c \in Addr /\ u \in Token
      BY <1>2
    <2> HIDE DEF c, u
    <2>2. /\ e.live = before.live /\ e.code = before.code /\ e.slot = before.slot
          /\ \A b \in Addr, t \in Token :
               e.balance[b][t] = IF b = c /\ t = u THEN before.balance[b][t] + amount
                                 ELSE before.balance[b][t]
          /\ \A b \in Addr \ {c} : e.balance[b] = before.balance[b]
      BY <1>2, <2>1, AddBalanceParts
    <2>3. db' = e
      BY <1>1 DEF c, u
    <2> HIDE DEF e
    <2>4. \A b \in Addr, t \in Token :
            db'.balance[b][t] >= 0 \/ (b = c /\ t = u)
      BY <1>2, <2>2, <2>3, BeforeParts
    <2>5. NoOverdraft'
      BY <1>1, <1>2, <1>6, <2>4 DEF NoOverdraft, Exposed, c, u
    <2>6. \A b \in Addr : b = c \/ Agree(db', before, b)
      BY <2>2, <2>3 DEF Agree
    <2>7. Footprint'
      BY <1>1, <1>2, <2>6 DEF Footprint, MayTouch, Agree, c
    <2> QED
      BY <1>3, <1>4, <2>5, <2>7 DEF EndInv
  <1> QED
    BY <1>5, <1>6

(* Where the steps after run lead. *)
LEMMA FinishPhases ==
  ASSUME VmFinish
  PROVE  \/ phase = "returned" /\ phase' \in {"done", "panic", "refund"}
         \/ phase = "refund" /\ phase' = "done"
  BY DEF VmFinish, NestedReturn, CallSucceeds, CallOutOfQuota, CallFails, CallOwes,
     CallReverts, CallRefunds, CreateSucceeds, CreateOutOfQuota, CreateFails, Finish,
     Return

(* And what is left when Call or Create has returned. *)
LEMMA EndInvariant == Spec => []EndInv
  <1>1. Init => EndInv
    BY DEF Init, EndInv, CreditedOnce, FailedRunClearsEffects, Failed
  <1>2. TypeInv /\ RunningInv /\ EndInv /\ [Next]_vars => EndInv'
    <2> SUFFICES ASSUME TypeInv, RunningInv, EndInv, [Next]_vars
                 PROVE  EndInv'
      OBVIOUS
    <2>1. CASE VmStart
      BY <2>1, StartEnd
    <2>2. CASE VmExec
      <3>1. phase' \in {"head", "exec", "returned"}
        BY <2>2 DEF VmExec, Aborted, Fetch, ExecInvalid, ExecOutOfQuota, ExecPlain,
           ExecLog, ExecSStore, ExecSStoreOutOfQuota, ExecCallValue,
           ExecWriteAmount, ExecError, ExecHalt, ExecRevert, ExecDelegateEmpty,
           ExecDelegate, RunReturns, EnterRun, Continue
      <3> QED
        BY <3>1 DEF EndInv, CreditedOnce, FailedRunClearsEffects, Failed
    <2>3. CASE VmFinish
      BY <2>3, FinishEnd, CallRefundsEnd DEF VmFinish, AfterRun
    <2>5. ASSUME NEW n \in Amounts, OthersWriteAmount(n) PROVE EndInv'
      <3>1. /\ shared = "others"
            /\ UNCHANGED <<tx, before, phase, frames, db, quotaLeft, logs, txs,
                           shared, result>>
        BY <2>5 DEF OthersWriteAmount, dbVars, quotaVars, outVars
      <3>2. UNCHANGED <<NoOverdraft, Footprint>>
        BY <3>1 DEF NoOverdraft, Exposed, Footprint, MayTouch, Agree
      <3>3. UNCHANGED <<CreditedOnce, FailedRunClearsEffects>>
        BY <3>1 DEF CreditedOnce, Recredited, FailedRunClearsEffects, Failed
      <3> QED
        BY <3>1, <3>2, <3>3 DEF EndInv
    <2>4. CASE Cancel \/ UNCHANGED vars
      <3>1. UNCHANGED <<tx, before, phase, frames, db, quotaLeft, logs, txs,
                        shared, amount, result>>
        BY <2>4 DEF Cancel, vars, dbVars, quotaVars, outVars, amtVars
      <3>2. UNCHANGED <<NoOverdraft, Footprint>>
        BY <3>1 DEF NoOverdraft, Exposed, Footprint, MayTouch, Agree
      <3>3. UNCHANGED <<CreditedOnce, FailedRunClearsEffects>>
        BY <3>1 DEF CreditedOnce, Recredited, FailedRunClearsEffects, Failed
      <3> QED
        BY <3>1, <3>2, <3>3 DEF EndInv
    <2> QED
      BY <2>1, <2>2, <2>3, <2>4, <2>5 DEF Next, VmStep
  <1> QED
    BY <1>1, <1>2, RunningInvariant, PTL DEF Spec

(* In every state the database has what is promised of it. *)
LEMMA AlwaysSound == Spec => [](NoOverdraft /\ Footprint)
  <1>1. TypeInv /\ RunningInv /\ EndInv => NoOverdraft /\ Footprint
    <2> SUFFICES ASSUME TypeInv, RunningInv, EndInv PROVE NoOverdraft /\ Footprint
      OBVIOUS
    <2>1. CASE phase \in {"idle", "refund"}
      <3>1. db = before /\ before \in InitDbs
        BY <2>1 DEF TypeInv, IdleInv, RunningInv, RefundInv
      <3> QED
        BY <3>1, BeforeSound, SoundNow
    <2>2. CASE Running
      BY <2>2, SnapshotSound, SoundNow
    <2>3. CASE phase \in {"done", "panic"}
      BY <2>3 DEF EndInv
    <2> QED
      BY <2>1, <2>2, <2>3 DEF TypeInv, TypeOK, Running
  <1> QED
    BY <1>1, RunningInvariant, EndInvariant, PTL

-----------------------------------------------------------------------------
(* No balance is ever negative: what is taken from a sender was tested     *)
(* first (vm.go:77), nothing else takes, and what a failed call credits    *)
(* again is positive unless another VM has written the Amount between its  *)
(* test and its use (vm.go:99, 182, 204-205).                              *)
THEOREM NeverOverdrawn == Spec => []NoOverdraft
  BY AlwaysSound, PTL

(* No account is written but the sender or recipient, the new contract,    *)
(* and the recipient of a constructor that delegates (vm.go:226).          *)
THEOREM OthersAreUntouched == Spec => []Footprint
  BY AlwaysSound, PTL

(* The amount of a received transaction arrives once, on every path; only  *)
(* what is credited again after a failure can be another amount, and only  *)
(* what the code or another VM wrote in the Amount (vm.go:190, 203, 205).  *)
THEOREM AmountArrivesOnce == Spec => []CreditedOnce
  <1>1. EndInv => CreditedOnce
    BY DEF EndInv
  <1> QED
    BY <1>1, EndInvariant, PTL

(* Code that reverts or fails in an instruction publishes no log and is    *)
(* charged what it used (vm.go:306-317), and code that runs out of quota   *)
(* the whole of it (vm.go:146, 216).                                       *)
THEOREM FailuresClearEffects == Spec => []FailedRunClearsEffects
  <1>1. EndInv => FailedRunClearsEffects
    BY DEF EndInv
  <1> QED
    BY <1>1, EndInvariant, PTL

(* After Cancel every path leads out of the loop and of Call or Create,    *)
(* within four steps (vm.go:256, 322).                                     *)
THEOREM CancelledCallsEnd == Spec => CancelEndsTheCall
  <1>1. VmStep /\ abort => CancelledSteps' < CancelledSteps
    <2> SUFFICES ASSUME VmStep, abort PROVE CancelledSteps' < CancelledSteps
      OBVIOUS
    <2>1. CASE VmStart
      <3>1. phase = "idle" /\ phase' \in {"head", "returned", "done"}
        BY <2>1 DEF VmStart, RejectOverflow, RejectOutOfQuota, SendRefused, Send,
           Enter, ReceiveTransfer, ReceiveTooDeep, ReceiveCall, Credit,
           CreateCollision, ReceiveCreate, CreateTooDeep, CreateContract, Return,
           EnterRun
      <3>2. CancelledSteps = 4 /\ CancelledSteps' \in {3, 2, 0}
        BY <3>1 DEF CancelledSteps
      <3> QED
        BY <3>2
    <2>2. CASE VmExec
      <3>1. \/ phase = "head" /\ phase' = "returned"
            \/ phase = "exec" /\ phase' \in {"head", "returned"}
        BY <2>2 DEF VmExec, Aborted, Fetch, ExecInvalid, ExecOutOfQuota, ExecPlain,
           ExecLog, ExecSStore, ExecSStoreOutOfQuota, ExecCallValue,
           ExecWriteAmount, ExecError, ExecHalt, ExecRevert, ExecDelegateEmpty,
           ExecDelegate, Executing, Continue, EnterRun, RunReturns
      <3>2. \/ CancelledSteps = 3 /\ CancelledSteps' = 2
            \/ CancelledSteps = 4 /\ CancelledSteps' \in {3, 2}
        BY <3>1 DEF CancelledSteps
      <3> QED
        BY <3>2
    <2>3. CASE VmFinish
      <3>1. \/ phase = "returned" /\ phase' \in {"done", "panic", "refund"}
            \/ phase = "refund" /\ phase' = "done"
        BY <2>3, FinishPhases
      <3>2. \/ CancelledSteps = 2 /\ CancelledSteps' \in {0, 1}
            \/ CancelledSteps = 1 /\ CancelledSteps' = 0
        BY <3>1 DEF CancelledSteps
      <3> QED
        BY <3>2
    <2> QED
      BY <2>1, <2>2, <2>3 DEF VmStep
  <1> QED
    BY <1>1, PTL DEF CancelEndsTheCall

-----------------------------------------------------------------------------
(* Running code uses up what is left: two steps for each unit of quota. *)

(* The parts of a running instruction that are paid for. *)
LEMMA PaidSteps ==
  ASSUME TypeInv, phase = "exec", NEW cost \in Nat \ {0}, UseQuota(cost),
         phase' \in {"head", "returned"}
  PROVE  StepsLeft' < StepsLeft
  <1>1. quotaLeft \in Nat /\ quotaLeft' = quotaLeft - cost /\ quotaLeft' \in Nat
    BY GasAssumption DEF TypeInv, TypeOK, UseQuota
  <1>2. StepsLeft = 2 * quotaLeft + 3
    BY DEF StepsLeft
  <1>3. StepsLeft' \in {2 * quotaLeft' + 4, 2}
    BY DEF StepsLeft
  <1> QED
    BY <1>1, <1>2, <1>3

(* An instruction that ends the run needs no price. *)
LEMMA LastSteps ==
  ASSUME TypeInv, phase \in {"head", "exec"}, phase' = "returned"
  PROVE  StepsLeft' < StepsLeft
  <1>1. quotaLeft \in Nat
    BY GasAssumption DEF TypeInv, TypeOK
  <1>2. StepsLeft \in {2 * quotaLeft + 4, 2 * quotaLeft + 3}
    BY DEF StepsLeft
  <1>3. StepsLeft' = 2
    BY DEF StepsLeft
  <1> QED
    BY <1>1, <1>2, <1>3

(* Entering Call or Create leaves at most the quota that is not yet spent. *)
LEMMA FirstSteps ==
  ASSUME TypeInv, VmStart
  PROVE  StepsLeft' < StepsLeft
  <1>1. phase = "idle" /\ QuotaInit \in Nat
    BY GasAssumption DEF VmStart, RejectOverflow, RejectOutOfQuota, SendRefused, Send, Enter,
       ReceiveTransfer, ReceiveTooDeep, ReceiveCall, Credit, CreateCollision, ReceiveCreate,
       CreateTooDeep, CreateContract
  <1>2. phase' \in {"done", "head", "returned"}
    BY DEF VmStart, RejectOverflow, RejectOutOfQuota, SendRefused, Send, Return,
       ReceiveTransfer, ReceiveTooDeep, ReceiveCall, CreateCollision, ReceiveCreate,
       CreateTooDeep, EnterRun
  <1>3. quotaLeft' \in Nat /\ quotaLeft' <= QuotaInit
    <2>1. quotaLeft' \in 0..QuotaInit
      BY StartTypes DEF TypeInv, TypeOK
    <2> QED
      BY <1>1, <2>1
  <1>4. StepsLeft = 2 * QuotaInit + 5
    BY <1>1 DEF StepsLeft
  <1>5. StepsLeft' \in {0, 2} \/ StepsLeft' = 2 * quotaLeft' + 4
    BY <1>2 DEF StepsLeft
  <1>6. 2 * quotaLeft' + 4 < 2 * QuotaInit + 5
    <2>1. \A q, r \in Nat : q <= r => 2 * q + 4 < 2 * r + 5
      OBVIOUS
    <2> QED
      BY <1>1, <1>3, <2>1
  <1>7. 2 < 2 * QuotaInit + 5
    BY <1>1
  <1> QED
    BY <1>1, <1>4, <1>5, <1>6, <1>7

(* Every step of running code. *)
LEMMA ExecSteps ==
  ASSUME TypeInv, VmExec
  PROVE  StepsLeft' < StepsLeft
  <1>1. CASE Fetch
    <2>1. phase = "head" /\ phase' = "exec" /\ quotaLeft' = quotaLeft /\ quotaLeft \in Nat
      BY <1>1, GasAssumption DEF Fetch, TypeInv, TypeOK, quotaVars
    <2>2. StepsLeft = 2 * quotaLeft + 4 /\ StepsLeft' = 2 * quotaLeft' + 3
      BY <2>1 DEF StepsLeft
    <2> QED
      BY <2>1, <2>2
  <1>2. CASE \/ Aborted \/ ExecInvalid \/ ExecOutOfQuota \/ ExecHalt \/ ExecRevert \/ ExecError
             \/ \E v \in Word : ExecSStoreOutOfQuota(v)
    <2>1. phase \in {"head", "exec"} /\ phase' = "returned"
      BY <1>2 DEF Aborted, ExecInvalid, ExecOutOfQuota, ExecHalt, ExecRevert, ExecError,
         ExecSStoreOutOfQuota, Executing, RunReturns
    <2> QED
      BY <2>1, LastSteps
  <1>3. CASE \/ ExecPlain \/ ExecLog \/ ExecCallValue \/ \E n \in Amounts : ExecWriteAmount(n)
             \/ \E a \in Addr : ExecDelegateEmpty(a) \/ ExecDelegate(a)
    <2>1. phase = "exec" /\ \E g \in StepGas : UseQuota(g)
      BY <1>3 DEF ExecPlain, ExecLog, ExecCallValue, ExecWriteAmount, ExecDelegateEmpty,
         ExecDelegate, Executing
    <2>2. phase' \in {"head", "returned"}
      BY <1>3 DEF ExecPlain, ExecLog, ExecCallValue, ExecWriteAmount, ExecDelegateEmpty,
         ExecDelegate, Continue, EnterRun, RunReturns
    <2>3. PICK g \in Nat \ {0} : UseQuota(g)
      BY <2>1, GasAssumption
    <2> QED
      BY <2>1, <2>2, <2>3, PaidSteps
  <1>4. ASSUME NEW v \in Word, ExecSStore(v) PROVE StepsLeft' < StepsLeft
    <2> DEFINE cost == SStoreGas(db.slot[Frame.addr], v)
    <2>1. phase = "exec" /\ phase' = "head" /\ UseQuota(cost)
      BY <1>4 DEF ExecSStore, Executing, Continue
    <2>2. cost \in Nat \ {0}
      BY GasAssumption DEF SStoreGas
    <2> HIDE DEF cost
    <2> QED
      BY <2>1, <2>2, PaidSteps
  <1> QED
    BY <1>1, <1>2, <1>3, <1>4 DEF VmExec

(* Call or Create returns, or the VM panics. *)
LEMMA FinalSteps ==
  ASSUME VmFinish
  PROVE  StepsLeft' < StepsLeft
  <1>1. \/ StepsLeft = 2 /\ StepsLeft' \in {0, 1}
        \/ StepsLeft = 1 /\ StepsLeft' = 0
    BY FinishPhases DEF StepsLeft
  <1> QED
    BY <1>1

(* No code keeps the VM busy for more than two steps per unit of quota and *)
(* five: there is no loop that costs nothing (vm.go:255-323).              *)
THEOREM CodeRunsOut == Spec => StepsAreBounded
  <1>1. TypeInv /\ [Next]_vars => [VmStep => StepsLeft' < StepsLeft]_vars
    BY FirstSteps, ExecSteps, FinalSteps DEF VmStep
  <1> QED
    BY <1>1, TypeInvariant, PTL DEF Spec, StepsAreBounded

(* The bound is a number, so it is reached after at most that many steps.  *)
THEOREM StepsAreCounted == Spec => [](StepsLeft \in 0..(2 * QuotaInit + 5))
  <1>1. TypeInv => StepsLeft \in 0..(2 * QuotaInit + 5)
    <2> SUFFICES ASSUME TypeInv  PROVE StepsLeft \in 0..(2 * QuotaInit + 5)
      OBVIOUS
    <2>1. quotaLeft \in 0..QuotaInit /\ QuotaInit \in Nat
      BY GasAssumption DEF TypeInv, TypeOK
    <2>2. StepsLeft \in {2 * QuotaInit + 5, 2 * quotaLeft + 4, 2 * quotaLeft + 3, 2, 1, 0}
      BY DEF StepsLeft
    <2> QED
      BY <2>1, <2>2
  <1> QED
    BY <1>1, TypeInvariant, PTL

-----------------------------------------------------------------------------
(* Who is credited holds so much more.                                     *)
LEMMA CreditReceived ==
  ASSUME NEW d \in Dbs, NEW a \in Addr, NEW t \in Token, NEW n \in Int
  PROVE  AddBalance(d, a, t, n).balance[a][t] = d.balance[a][t] + n
  <1>1. \A b \in Addr, u \in Token :
          AddBalance(d, a, t, n).balance[b][u]
            = IF b = a /\ u = t THEN d.balance[b][u] + n ELSE d.balance[b][u]
    BY ONLY AddBalanceParts, d \in Dbs, a \in Addr, t \in Token, n \in Int
  <1> QED
    BY ONLY <1>1, a \in Addr, t \in Token

(* A contract that owes the refund of a call can pay it, whatever its code *)
(* did with the Amount, as long as the pool with the Amount in it has not  *)
(* gone to other VMs: of the two senders of refunds only a deleted         *)
(* contract cannot (vm.go:205-206, 242; RefundFunded).                     *)
THEOREM CallRefundsAreFunded ==
  Spec => [](tx.op = "call" /\ shared # "others" => RefundFunded)
  <1>1. TypeInv /\ RunningInv /\ DoneInv
          => (tx.op = "call" /\ shared # "others" => RefundFunded)
    <2> SUFFICES ASSUME TypeInv, RunningInv, DoneInv, tx.op = "call",
                        shared # "others", phase = "done", NEW i \in DOMAIN txs
                 PROVE  amount <= db.balance[txs[i].from][txs[i].token]
      BY DEF RefundFunded
    <2>1. tx.to \in Addr /\ tx.token \in Token /\ amount \in Int
      BY TxType DEF TypeInv, TypeOK
    <2>2. txs # <<>>
      OBVIOUS
    <2>3. /\ Failed({"invalid", "execution", "reverted"}) /\ amount > 0
          /\ txs = <<[from |-> tx.to, to |-> tx.from, token |-> tx.token,
                      depth |-> tx.depth + 1]>>
      BY <2>2 DEF DoneInv, RefundExact, Owing
    <2>4. txs[i].from = tx.to /\ txs[i].token = tx.token
      BY <2>3
    <2>5. db = AddBalance(before, tx.to, tx.token, amount)
      BY <2>3 DEF DoneInv, FailedCallLeavesOnlyAmount, Recredited
    <2>6. before \in Dbs /\ before.balance[tx.to][tx.token] \in Nat
      <3>1. before \in Dbs /\ before.balance[tx.to][tx.token] >= 0
        BY <2>1, BeforeParts DEF RunningInv
      <3>2. before.balance[tx.to][tx.token] \in Int
        BY <2>1, <3>1 DEF Dbs
      <3> QED
        BY <3>1, <3>2
    <2>7. db.balance[tx.to][tx.token] = before.balance[tx.to][tx.token] + amount
      <3>1. AddBalance(before, tx.to, tx.token, amount).balance[tx.to][tx.token]
              = before.balance[tx.to][tx.token] + amount
        BY ONLY <2>1, <2>6, CreditReceived
      <3> QED
        BY <2>5, <3>1
    <2> QED
      BY <2>1, <2>4, <2>6, <2>7
  <1> QED
    BY <1>1, TypeInvariant, RunningInvariant, DoneInvariant, PTL
=============================================================================
