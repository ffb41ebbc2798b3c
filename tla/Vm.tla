-------------------------------- MODULE Vm --------------------------------
(***************************************************************************)
(* One VM (src/vm/vm.go): NewVM(tx), then one call of Call or Create, with *)
(* Cancel arriving from another goroutine at any moment.                   *)
(*                                                                         *)
(* Contract code is not interpreted: at every iteration of the loop of     *)
(* run the next instruction is any instruction, so the runs of this module *)
(* include the runs of every contract.  The instructions are grouped by    *)
(* what they do to the state that outlives them: quota, storage, logs, the *)
(* Amount of the transaction, nested runs, and how the run ends.           *)
(***************************************************************************)
EXTENDS StateDb, Sequences

CONSTANTS
  Vite,          \* viteTokenTypeId
  NoAddr,        \* the empty address returned when nothing is created
  Txs,           \* the transactions a VM may be made for
  InitDbs,       \* the databases it may be handed
  Amounts,       \* values an instruction may store in an integer; any sign
  QuotaInit, MaxUint64,
  TxGas, TxGasContractCreation, TxDataZeroGas, TxDataNonZeroGas,
  StepGas,       \* prices of instructions that do not halt
  HaltGas,       \* prices of STOP, RETURN and REVERT
  SstoreSetGas, SstoreResetGas, SstoreClearGas, SstoreRefundGas,
  ContractCodeGas,
  CallCreateDepth,
  RetSizes,      \* lengths of the data a run may return
  CallValueOps   \* do the contracts contain CALLVALUE?

VARIABLES
  tx,            \* the transaction
  before,        \* history: the database handed over
  abort,         \* vm.abort
  phase,         \* where the VM goroutine is
  frames,        \* the active calls of run: storage address, revert id
  ret,           \* what the innermost run returned
  db,            \* vm.StateDb
  snapshots,     \* the databases saved by Snapshot; the id is the index
  quotaLeft, quotaReturn,
  logs,          \* vm.logs: the addresses that logged
  txs,           \* vm.txs
  amount,        \* the value of the big.Int that vm.Amount points to
  shared,        \* who can write that big.Int: "no" one, the "code" that is
                 \* run, or "others", the VMs its pool is handed to
  result         \* what Call or Create returned

dbVars    == <<db, snapshots>>
quotaVars == <<quotaLeft, quotaReturn>>
outVars   == <<logs, txs>>
amtVars   == <<amount, shared>>
vars == <<tx, before, abort, phase, frames, ret, dbVars, quotaVars, outVars,
          amtVars, result>>

Transaction ==
  [op : {"call", "create"}, type : {"send", "receive"}, from : Addr, to : Addr,
   token : Token, amount : Nat, zeros : Nat, nonZeros : Nat, depth : Nat]

ASSUME TokenAssumption == Vite \in Token /\ NoAddr \notin Addr
ASSUME TxAssumption    == Txs \subseteq Transaction
ASSUME DbAssumption    ==
  \A d \in InitDbs : /\ d \in Dbs
                     /\ WellFormed(d)
                     /\ \A a \in Addr, t \in Token : d.balance[a][t] >= 0
ASSUME GasAssumption   ==
  /\ QuotaInit \in Nat /\ MaxUint64 \in Nat
  /\ TxGas \in 0..MaxUint64 /\ TxGasContractCreation \in 0..MaxUint64
  /\ TxDataZeroGas \in Nat \ {0} /\ TxDataNonZeroGas \in Nat \ {0}
  /\ StepGas \subseteq Nat \ {0} /\ HaltGas \subseteq Nat
  /\ SstoreSetGas \in Nat \ {0} /\ SstoreResetGas \in Nat \ {0}
  /\ SstoreClearGas \in Nat \ {0} /\ SstoreRefundGas \in Nat
  /\ ContractCodeGas \in Nat
ASSUME RunAssumption   ==
  /\ CallCreateDepth \in Nat /\ RetSizes \subseteq Nat /\ Amounts \subseteq Int
  /\ CallValueOps \in BOOLEAN /\ (CallValueOps => Amounts # {})

-----------------------------------------------------------------------------
(* Quota and prices. *)

(* A definition whose name ends in Mutant is a plausible bug: the definition *)
(* after it with one thing wrong.  No specification uses it.                 *)
CreateFeeMutant == 1

CreateFee == 0

Fee == IF tx.op = "create" THEN CreateFee ELSE 0

BaseGas == IF tx.op = "create" THEN TxGasContractCreation ELSE TxGas

IntrinsicGas == BaseGas + tx.nonZeros * TxDataNonZeroGas
                        + tx.zeros * TxDataZeroGas

IntrinsicOverflow ==
  \/ (MaxUint64 - BaseGas) \div TxDataNonZeroGas < tx.nonZeros
  \/ (MaxUint64 - BaseGas - tx.nonZeros * TxDataNonZeroGas)
        \div TxDataZeroGas < tx.zeros

QuotaUsed(left, rtn) ==
  LET used == QuotaInit - left
  IN  used + (IF rtn < used \div 2 THEN rtn ELSE used \div 2)

UseQuotaMutant(cost) == quotaLeft' = quotaLeft - cost

UseQuota(cost) == quotaLeft >= cost /\ quotaLeft' = quotaLeft - cost

SStoreGas(old, new) == IF old = 0 /\ new # 0 THEN SstoreSetGas
                       ELSE IF old # 0 /\ new = 0 THEN SstoreClearGas
                       ELSE SstoreResetGas

SStoreReturn(old, new) == IF old # 0 /\ new = 0 THEN SstoreRefundGas ELSE 0

CanTransfer(d, a, t, n, fee) == n <= d.balance[a][t] /\ fee <= d.balance[a][Vite]

-----------------------------------------------------------------------------
(* Parts of actions. *)

None == [err |-> "none", size |-> 0]

Running == phase \in {"head", "exec", "returned"}

Frame == frames[Len(frames)]

(* Call or Create returns to its caller. *)
Return(err, quota, addr) ==
  /\ phase' = "done"
  /\ result' = [err |-> err, quota |-> quota, addr |-> addr]
  /\ UNCHANGED <<tx, before, abort, frames, ret>>

(* The innermost run returns to whoever called it.  Its deferred function  *)
(* has given the pool back by then, so if the Amount is in the pool other  *)
(* VMs may take it; it need not be there, it may be left on the stack, or  *)
(* the list of pools may be full.                                          *)
RunReturns(err, size) ==
  /\ phase' = "returned"
  /\ ret' = [err |-> err, size |-> size]
  /\ UNCHANGED shared \/ (shared = "code" /\ shared' = "others")
  /\ UNCHANGED amount

(* run is called for code of the given length, storing at address a.       *)
(* Without code it returns before it takes a pool.                         *)
EnterRun(a, id, len) ==
  /\ frames' = Append(frames, [addr |-> a, snapshot |-> id])
  /\ IF len = 0 THEN phase' = "returned" /\ ret' = [err |-> "ok", size |-> 0]
     ELSE phase' = "head" /\ ret' = None

Snapshot(d) == snapshots' = Append(snapshots, d)

(* Reverting drops the snapshots taken after the one reverted to. *)
RevertToSnapShot(id) == snapshots' = SubSeq(snapshots, 1, id - 1)

(* A refund holds the pointer vm.Amount: its amount is what that integer   *)
(* holds, now and when the refund is sent, so the record has none.         *)
RefundBy(a) == [from |-> a, to |-> tx.from, token |-> tx.token,
                depth |-> tx.depth + 1]

RefundFromMutant(a) == Append(txs, RefundBy(a))

RefundFrom(a) == IF amount > 0 THEN Append(txs, RefundBy(a)) ELSE txs

-----------------------------------------------------------------------------
Init ==
  /\ tx \in Txs
  /\ db \in InitDbs /\ before = db
  /\ abort = FALSE /\ phase = "idle"
  /\ frames = <<>> /\ ret = None /\ snapshots = <<>>
  /\ quotaLeft = 0 /\ quotaReturn = 0
  /\ logs = <<>> /\ txs = <<>>
  /\ amount = tx.amount /\ shared = "no"
  /\ result = [err |-> "none", quota |-> 0, addr |-> NoAddr]

Cancel == /\ ~abort
          /\ abort' = TRUE
          /\ UNCHANGED <<tx, before, phase, frames, ret, dbVars, quotaVars,
                         outVars, amtVars, result>>

(* The data is longer than its price can be computed for. *)
RejectOverflow ==
  /\ phase = "idle" /\ IntrinsicOverflow
  /\ quotaLeft' = QuotaInit
  /\ Return("gasUintOverflow", 0, NoAddr)
  /\ UNCHANGED <<dbVars, quotaReturn, outVars, amtVars>>

RejectOutOfQuota ==
  /\ phase = "idle" /\ ~IntrinsicOverflow /\ IntrinsicGas > QuotaInit
  /\ quotaLeft' = QuotaInit
  /\ Return("outOfQuota", 0, NoAddr)
  /\ UNCHANGED <<dbVars, quotaReturn, outVars, amtVars>>

(* The head of Call and Create: the transaction pays for its data. *)
Enter(op, type) ==
  /\ phase = "idle" /\ tx.op = op /\ tx.type = type
  /\ ~IntrinsicOverflow /\ IntrinsicGas <= QuotaInit
  /\ quotaLeft' = QuotaInit - IntrinsicGas
  /\ UNCHANGED <<quotaReturn, amtVars>>

SendRefused ==
  /\ \E op \in {"call", "create"} : Enter(op, "send")
  /\ ~CanTransfer(db, tx.from, tx.token, tx.amount, Fee)
  /\ Return("insufficientBalance", QuotaUsed(quotaLeft', quotaReturn), NoAddr)
  /\ UNCHANGED <<dbVars, outVars>>

Send ==
  /\ \E op \in {"call", "create"} : Enter(op, "send")
  /\ CanTransfer(db, tx.from, tx.token, tx.amount, Fee)
  /\ db' = SubBalance(SubBalance(db, tx.from, tx.token, tx.amount),
                      tx.from, Vite, Fee)
  /\ Return("ok", QuotaUsed(quotaLeft', quotaReturn), NoAddr)
  /\ UNCHANGED <<snapshots, outVars>>

-----------------------------------------------------------------------------
(* Call, receiving: the recipient is created when it is missing, then the  *)
(* revert point is taken, then the amount is credited.                     *)
Recipient == IF tx.to \in db.live THEN db ELSE CreateAccount(db, tx.to)

CreditMutant ==
  /\ Enter("call", "receive")
  /\ db' = AddBalance(Recipient, tx.to, tx.token, tx.amount)
  /\ Snapshot(db')
  /\ UNCHANGED outVars

Credit ==
  /\ Enter("call", "receive")
  /\ Snapshot(Recipient)
  /\ db' = AddBalance(Recipient, tx.to, tx.token, tx.amount)
  /\ UNCHANGED outVars

ReceiveTransfer ==
  /\ Credit
  /\ Recipient.code[tx.to] = 0
  /\ Return("ok", QuotaUsed(quotaLeft', quotaReturn), NoAddr)

ReceiveTooDeep ==
  /\ Credit
  /\ Recipient.code[tx.to] # 0 /\ tx.depth > CallCreateDepth
  /\ Return("depth", QuotaUsed(quotaLeft', quotaReturn), NoAddr)

ReceiveCallMutant ==
  /\ Credit
  /\ Recipient.code[tx.to] # 0 /\ tx.depth <= CallCreateDepth
  /\ EnterRun(tx.from, Len(snapshots'), Recipient.code[tx.to])
  /\ UNCHANGED <<tx, before, abort, result>>

ReceiveCall ==
  /\ Credit
  /\ Recipient.code[tx.to] # 0 /\ tx.depth <= CallCreateDepth
  /\ EnterRun(tx.to, Len(snapshots'), Recipient.code[tx.to])
  /\ UNCHANGED <<tx, before, abort, result>>

(* Create, receiving.  types.CreateAddress draws a random address and may  *)
(* itself fail, so this error is possible whatever the database holds.     *)
CreateCollision ==
  /\ Enter("create", "receive")
  /\ Return("collision", QuotaUsed(quotaLeft', quotaReturn), NoAddr)
  /\ UNCHANGED <<dbVars, outVars>>

CreateContract(a) ==
  /\ Enter("create", "receive")
  /\ a \notin db.live
  /\ Snapshot(db)

NewAccount(a) == AddBalance(CreateAccount(db, a), a, tx.token, tx.amount)

ReceiveCreate(a) ==
  /\ CreateContract(a)
  /\ tx.depth <= CallCreateDepth
  /\ db' = NewAccount(a)
  /\ EnterRun(a, Len(snapshots'), tx.zeros + tx.nonZeros)
  /\ UNCHANGED <<tx, before, abort, outVars, result>>

CreateTooDeepMutant(a) ==
  /\ CreateContract(a)
  /\ tx.depth > CallCreateDepth
  /\ txs' = RefundFrom(a)
  /\ db' = NewAccount(a)
  /\ Return("depth", QuotaUsed(quotaLeft', quotaReturn), NoAddr)
  /\ UNCHANGED logs

CreateTooDeep(a) ==
  /\ CreateContract(a)
  /\ tx.depth > CallCreateDepth
  /\ txs' = RefundFrom(a)
  /\ db' = DeleteAccount(NewAccount(a), a)
  /\ Return("depth", QuotaUsed(quotaLeft', quotaReturn), NoAddr)
  /\ UNCHANGED logs

-----------------------------------------------------------------------------
(* The loop of run.  It tests abort, then executes one instruction; Cancel *)
(* may come between the two.                                               *)

(* A cancelled run leaves the loop and returns (nil, nil). *)
Aborted ==
  /\ phase = "head" /\ abort
  /\ RunReturns("ok", 0)
  /\ UNCHANGED <<tx, before, abort, frames, dbVars, quotaVars, outVars, result>>

FetchMutant ==
  /\ phase = "head"
  /\ phase' = "exec"
  /\ UNCHANGED <<tx, before, abort, frames, ret, dbVars, quotaVars, outVars,
                 amtVars, result>>

Fetch ==
  /\ phase = "head" /\ ~abort
  /\ phase' = "exec"
  /\ UNCHANGED <<tx, before, abort, frames, ret, dbVars, quotaVars, outVars,
                 amtVars, result>>

Executing == /\ phase = "exec"
             /\ UNCHANGED <<tx, before, abort, result>>

(* The instruction is done and the loop goes on. *)
Continue == phase' = "head" /\ UNCHANGED <<frames, ret>>

ClearEffectsMutant == UNCHANGED quotaReturn /\ logs' = <<>> /\ txs' = <<>>

(* What run does to the VM on an execution error and on REVERT. *)
ClearEffects == quotaReturn' = 0 /\ logs' = <<>> /\ txs' = <<>>

(* Invalid opcode, stack under- or overflow, or a memory size or price that *)
(* does not fit: the run ends before quota is taken, and clears nothing.    *)
ExecInvalid ==
  /\ Executing
  /\ RunReturns("invalid", 0)
  /\ UNCHANGED <<frames, dbVars, quotaVars, outVars>>

ExecOutOfQuota ==
  /\ Executing
  /\ \E g \in StepGas \cup HaltGas : quotaLeft < g
  /\ RunReturns("outOfQuota", 0)
  /\ UNCHANGED <<frames, dbVars, quotaVars, outVars>>

ExecPlainMutant ==
  /\ Executing
  /\ Continue
  /\ UNCHANGED <<dbVars, quotaVars, outVars, amtVars>>

(* Instructions on stack, memory and program counter only. *)
ExecPlain ==
  /\ Executing
  /\ \E g \in StepGas : UseQuota(g)
  /\ Continue
  /\ UNCHANGED <<dbVars, quotaReturn, outVars, amtVars>>

ExecLog ==
  /\ Executing
  /\ \E g \in StepGas : UseQuota(g)
  /\ logs' = Append(logs, Frame.addr)
  /\ Continue
  /\ UNCHANGED <<dbVars, quotaReturn, txs, amtVars>>

(* gasSStore adds to quotaReturn before the price is taken. *)
ExecSStore(new) ==
  LET a   == Frame.addr
      old == db.slot[a]
  IN /\ Executing
     /\ quotaReturn' = quotaReturn + SStoreReturn(old, new)
     /\ UseQuota(SStoreGas(old, new))
     /\ db' = SetState(db, a, new)
     /\ Continue
     /\ UNCHANGED <<snapshots, outVars, amtVars>>

ExecSStoreOutOfQuota(new) ==
  LET old == db.slot[Frame.addr]
  IN /\ Executing
     /\ quotaLeft < SStoreGas(old, new)
     /\ quotaReturn' = quotaReturn + SStoreReturn(old, new)
     /\ RunReturns("outOfQuota", 0)
     /\ UNCHANGED <<frames, dbVars, quotaLeft, outVars>>

(* CALLVALUE pushes the big.Int of the transaction itself. *)
ExecCallValue ==
  /\ Executing /\ CallValueOps
  /\ \E g \in StepGas : UseQuota(g)
  /\ shared' = "code"
  /\ Continue
  /\ UNCHANGED <<dbVars, quotaReturn, outVars, amount>>

(* An instruction stores its result in the big.Int CALLVALUE pushed, as its *)
(* operand or as an integer taken back from the pool.  SIGNEXTEND leaves a  *)
(* negative number in one it gives back.                                    *)
ExecWriteAmount(n) ==
  /\ Executing /\ shared # "no"
  /\ \E g \in StepGas : UseQuota(g)
  /\ amount' = n
  /\ Continue
  /\ UNCHANGED <<dbVars, quotaReturn, outVars, shared>>

(* Bad jump destination, return data out of bounds. *)
ExecError ==
  /\ Executing
  /\ \E g \in StepGas : UseQuota(g)
  /\ ClearEffects
  /\ RunReturns("execution", 0)
  /\ UNCHANGED <<frames, dbVars>>

ExecHalt ==
  /\ Executing
  /\ \E g \in HaltGas : UseQuota(g)
  /\ \E size \in RetSizes : RunReturns("ok", size)
  /\ UNCHANGED <<frames, dbVars, quotaReturn, outVars>>

ExecRevert ==
  /\ Executing
  /\ \E g \in HaltGas : UseQuota(g)
  /\ ClearEffects
  /\ RunReturns("reverted", 0)
  /\ UNCHANGED <<frames, dbVars>>

(* DELEGATECALL of an account without code succeeds; its revert point is   *)
(* never used.                                                             *)
ExecDelegateEmpty(a) ==
  /\ Executing
  /\ db.code[a] = 0
  /\ \E g \in StepGas : UseQuota(g)
  /\ Snapshot(db)
  /\ Continue
  /\ UNCHANGED <<db, quotaReturn, outVars, amtVars>>

(* Otherwise the code of a runs nested, on the storage of tx.to: also when *)
(* the caller is a constructor, whose own account is another one.          *)
ExecDelegate(a) ==
  /\ Executing
  /\ db.code[a] # 0
  /\ \E g \in StepGas : UseQuota(g)
  /\ Snapshot(db)
  /\ EnterRun(tx.to, Len(snapshots'), db.code[a])
  /\ UNCHANGED <<db, quotaReturn, outVars, amtVars>>

(* The nested run gave vm.intPool back and set it to nil, so opDelegateCall *)
(* panics when it pushes its result, after delegateCall reverted a failure. *)
NestedReturn ==
  /\ phase = "returned" /\ Len(frames) > 1
  /\ IF ret.err = "ok" THEN UNCHANGED dbVars
     ELSE db' = snapshots[Frame.snapshot] /\ RevertToSnapShot(Frame.snapshot)
  /\ phase' = "panic"
  /\ UNCHANGED <<tx, before, abort, frames, ret, quotaVars, outVars, amtVars,
                 result>>

-----------------------------------------------------------------------------
(* run has returned to Call or to Create. *)

Finish(op) == phase = "returned" /\ Len(frames) = 1 /\ tx.op = op

CallSucceeds ==
  /\ Finish("call") /\ ret.err = "ok"
  /\ Return("ok", QuotaUsed(quotaLeft, quotaReturn), NoAddr)
  /\ UNCHANGED <<dbVars, quotaVars, outVars, amtVars>>

CallOutOfQuotaMutant ==
  /\ Finish("call") /\ ret.err = "outOfQuota"
  /\ db' = snapshots[Frame.snapshot] /\ RevertToSnapShot(Frame.snapshot)
  /\ txs' = RefundFrom(tx.to)
  /\ Return("outOfQuota", QuotaInit, NoAddr)
  /\ UNCHANGED <<quotaVars, logs, amtVars>>

CallOutOfQuota ==
  /\ Finish("call") /\ ret.err = "outOfQuota"
  /\ db' = snapshots[Frame.snapshot] /\ RevertToSnapShot(Frame.snapshot)
  /\ Return("outOfQuota", QuotaInit, NoAddr)
  /\ UNCHANGED <<quotaVars, outVars, amtVars>>

CallRevertsMutant ==
  /\ Finish("call") /\ ret.err \notin {"ok", "outOfQuota"}
  /\ RevertToSnapShot(Frame.snapshot)
  /\ UNCHANGED <<db, quotaVars, outVars, amtVars>>

(* Everything a run did that failed otherwise is undone. *)
CallReverts ==
  /\ Finish("call") /\ ret.err \notin {"ok", "outOfQuota"}
  /\ db' = snapshots[Frame.snapshot] /\ RevertToSnapShot(Frame.snapshot)
  /\ UNCHANGED <<quotaVars, outVars, amtVars>>

CallFails ==
  /\ CallReverts
  /\ amount <= 0
  /\ Return(ret.err, QuotaUsed(quotaLeft, quotaReturn), NoAddr)

(* An amount is owed to the sender.  Its integer is tested here and read   *)
(* again by CallRefunds; other VMs may write it between the two.           *)
CallOwes ==
  /\ CallReverts
  /\ amount > 0
  /\ phase' = "refund"
  /\ UNCHANGED <<tx, before, abort, frames, ret, result>>

(* The recipient gets the amount again, and owes it. *)
CallRefunds ==
  /\ phase = "refund"
  /\ db' = AddBalance(db, tx.to, tx.token, amount)
  /\ txs' = Append(txs, RefundBy(tx.to))
  /\ Return(ret.err, QuotaUsed(quotaLeft, quotaReturn), NoAddr)
  /\ UNCHANGED <<snapshots, quotaVars, logs, amtVars>>

CodeCost == ret.size * ContractCodeGas

CreateSucceeds ==
  /\ Finish("create") /\ ret.err = "ok"
  /\ UseQuota(CodeCost)
  /\ db' = SetContractCode(db, Frame.addr, ret.size)
  /\ Return("ok", QuotaUsed(quotaLeft', quotaReturn), Frame.addr)
  /\ UNCHANGED <<snapshots, quotaReturn, outVars, amtVars>>

CreateOutOfQuotaMutant ==
  /\ Finish("create")
  /\ \/ ret.err = "outOfQuota"
     \/ ret.err = "ok" /\ quotaLeft < CodeCost
  /\ Return("outOfQuota", QuotaInit, NoAddr)
  /\ UNCHANGED <<dbVars, quotaVars, outVars, amtVars>>

CreateOutOfQuota ==
  /\ Finish("create")
  /\ \/ ret.err = "outOfQuota"
     \/ ret.err = "ok" /\ quotaLeft < CodeCost
  /\ db' = snapshots[Frame.snapshot] /\ RevertToSnapShot(Frame.snapshot)
  /\ Return("outOfQuota", QuotaInit, NoAddr)
  /\ UNCHANGED <<quotaVars, outVars, amtVars>>

(* The other failures of a constructor delete the account they leave. *)
CreateFails ==
  /\ Finish("create") /\ ret.err \notin {"ok", "outOfQuota"}
  /\ txs' = RefundFrom(Frame.addr)
  /\ db' = DeleteAccount(db, Frame.addr)
  /\ Return(ret.err, QuotaUsed(quotaLeft, quotaReturn), NoAddr)
  /\ UNCHANGED <<snapshots, quotaVars, logs, amtVars>>

-----------------------------------------------------------------------------
(* Another VM has taken the pool with the Amount in it and writes there,   *)
(* whatever this VM is doing, also after Call or Create has returned.      *)
(* Nothing orders the two (a data race), so what this VM reads need not be *)
(* a value the other one meant to write; Amounts is any set of integers.   *)
OthersWriteAmount(n) ==
  /\ shared = "others"
  /\ amount' = n
  /\ UNCHANGED <<tx, before, abort, phase, frames, ret, dbVars, quotaVars,
                 outVars, shared, result>>

-----------------------------------------------------------------------------
VmStart ==
  \/ RejectOverflow \/ RejectOutOfQuota \/ SendRefused \/ Send
  \/ ReceiveTransfer \/ ReceiveTooDeep \/ ReceiveCall \/ CreateCollision
  \/ \E a \in Addr : ReceiveCreate(a) \/ CreateTooDeep(a)

VmExec ==
  \/ Aborted \/ Fetch \/ ExecInvalid \/ ExecOutOfQuota \/ ExecPlain \/ ExecLog
  \/ \E v \in Word : ExecSStore(v) \/ ExecSStoreOutOfQuota(v)
  \/ ExecCallValue \/ \E n \in Amounts : ExecWriteAmount(n)
  \/ ExecError \/ ExecHalt \/ ExecRevert
  \/ \E a \in Addr : ExecDelegateEmpty(a) \/ ExecDelegate(a)

VmFinish ==
  \/ NestedReturn \/ CallSucceeds \/ CallOutOfQuota
  \/ CallFails \/ CallOwes \/ CallRefunds
  \/ CreateSucceeds \/ CreateOutOfQuota \/ CreateFails

VmStep == VmStart \/ VmExec \/ VmFinish

Next == VmStep \/ Cancel \/ \E n \in Amounts : OthersWriteAmount(n)

Spec == Init /\ [][Next]_vars

(* The goroutine of the VM keeps running; nothing obliges anyone to cancel. *)
FairSpec == Spec /\ WF_vars(VmStep)

-----------------------------------------------------------------------------
(* What the VM promises about them. *)

Errors == {"ok", "gasUintOverflow", "outOfQuota", "insufficientBalance",
           "collision", "depth", "invalid", "execution", "reverted"}

Refund == [from : Addr, to : Addr, token : Token, depth : Nat]

(* Every variable has its type; quotaLeft in particular, a uint64 in the   *)
(* code, never goes below zero (useQuota, vm.go:329).                      *)
TypeOK ==
  /\ tx \in Transaction
  /\ before \in Dbs /\ db \in Dbs /\ snapshots \in Seq(Dbs)
  /\ abort \in BOOLEAN
  /\ phase \in {"idle", "head", "exec", "returned", "refund", "done",
               "panic"}
  /\ frames \in Seq([addr : Addr, snapshot : Nat \ {0}])
  /\ ret \in [err : Errors \cup {"none"}, size : Nat]
  /\ quotaLeft \in 0..QuotaInit /\ quotaReturn \in Nat
  /\ logs \in Seq(Addr) /\ txs \in Seq(Refund)
  /\ amount \in Int /\ shared \in {"no", "code", "others"}
  /\ result \in [err : Errors \cup {"none"}, quota : Nat,
                 addr : Addr \cup {NoAddr}]

(* While code runs, the revert point of Call or Create still holds the     *)
(* database that was handed over, whatever the code and the calls nested   *)
(* in it have written, snapshotted and reverted (vm.go:110, 189, 225).     *)
RevertPointIntact ==
  Running => /\ frames[1].snapshot = 1
             /\ snapshots[1] = before
             /\ \A i \in DOMAIN frames : frames[i].snapshot <= Len(snapshots)
             /\ \A i, j \in DOMAIN frames :
                  i < j => frames[i].snapshot < frames[j].snapshot

Failed(errs) == phase = "done" /\ result.err \in errs

(* A receive that ran out of quota is to be retried later (vm.go:144), so  *)
(* it must leave the database as it found it: the credit, the account made *)
(* for a contract, storage and code are all undone.                        *)
OutOfQuotaRestores == Failed({"outOfQuota"}) => db = before

(* A failed Create leaves no trace although only its out-of-quota path     *)
(* reverts: deleting the new account must undo every write of the          *)
(* constructor (vm.go:127, 159).                                           *)
FailedCreateLeavesNoTrace ==
  tx.op = "create" /\ Failed(Errors \ {"ok"}) => db = before

(* What a failed call may credit again.  Code that got hold of the Amount  *)
(* can change it, to something that is not credited at all if it is not    *)
(* positive; other VMs can besides change it after it was tested.          *)
Recredited ==
  IF shared = "others"
  THEN IF txs = <<>> THEN {0} ELSE {tx.amount} \cup Amounts
  ELSE {IF amount > 0 THEN amount ELSE 0}

(* A contract call that fails while executing undoes everything except     *)
(* that the recipient keeps an amount, once, to pay the refund from        *)
(* (vm.go:203-214).  It is the Amount there was when the code ended,       *)
(* unless the integer went back to the pools with it (vm.go:242).          *)
FailedCallLeavesOnlyAmount ==
  tx.op = "call" /\ Failed({"invalid", "execution", "reverted"}) =>
    \E n \in Recredited : db = AddBalance(before, tx.to, tx.token, n)

(* Who may owe a refund: a contract that failed to execute, or a contract  *)
(* creation that failed or is nested too deep; never an out-of-quota       *)
(* receive, which is retried.                                              *)
Owing == \/ Failed({"invalid", "execution", "reverted"})
         \/ Failed({"depth"}) /\ tx.op = "create"

(* A transaction ends with exactly the refund that is due: to its sender,  *)
(* one level deeper, once, by the recipient or by an address that did not  *)
(* exist, and none of a zero amount (vm.go:118, 150, 206).  Only other VMs *)
(* can make a refund of nothing, and only CALLVALUE another amount.        *)
RefundExact ==
  phase = "done" =>
    /\ shared = "no" => amount = tx.amount
    /\ shared # "others" => (txs # <<>> <=> Owing /\ amount > 0)
    /\ txs # <<>> =>
         /\ Owing
         /\ \E a \in Addr :
              /\ IF tx.op = "call" THEN a = tx.to ELSE a \notin before.live
              /\ txs = <<[from |-> a, to |-> tx.from, token |-> tx.token,
                          depth |-> tx.depth + 1]>>

(* The balance a failed call credits with whatever other VMs have left in  *)
(* the Amount, a negative number perhaps.                                  *)
Exposed(a, t) == /\ shared = "others" /\ txs # <<>>
                 /\ tx.op = "call" /\ a = tx.to /\ t = tx.token

(* No balance is ever negative: the two tests of canTransfer (vm.go:77)    *)
(* together cover what Create takes from a sender, and what is credited is *)
(* not negative, except where other VMs write the Amount after its test    *)
(* (vm.go:204-205).                                                        *)
NoOverdraft == \A a \in Addr, t \in Token : db.balance[a][t] >= 0 \/ Exposed(a, t)

(* A transaction writes only the account it debits or credits, and the one *)
(* it creates; every other account keeps all it holds.  The exception is a *)
(* constructor that delegates: the nested code stores at tx.to.            *)
MayTouch(a) ==
  \/ tx.type = "send" /\ a = tx.from
  \/ tx.op = "call" /\ a = tx.to
  \/ /\ tx.op = "create" /\ frames # <<>>
     /\ a = frames[1].addr \/ (Len(frames) > 1 /\ a = tx.to)

Footprint == \A a \in Addr : MayTouch(a) \/ Agree(db, before, a)

(* A received amount reaches the balance of its recipient exactly once, on *)
(* success, at too great a depth, and on failure, where it is first        *)
(* reverted and then credited again (vm.go:190, 203, 205).  Only what is   *)
(* credited again can be another amount, and only if the code used         *)
(* CALLVALUE: its own doing, or that of the VMs its pool went to.          *)
CreditedOnce ==
  /\ phase = "done"
  /\ tx.op = "call" /\ tx.type = "receive"
  /\ result.err \notin {"outOfQuota", "gasUintOverflow"}
  => \E n \in IF result.err \in {"ok", "depth"} THEN {tx.amount} ELSE Recredited :
       /\ shared = "no" => n = tx.amount
       /\ db.balance = AddBalance(before, tx.to, tx.token, n).balance

(* A run that reverts or fails in an instruction publishes no log and      *)
(* earns nothing from the storage it cleared (vm.go:306-317).  One that    *)
(* runs out of quota earns nothing either: gasSStore has noted the refund  *)
(* before the price is taken and nothing clears it, but the whole quota is *)
(* charged (gas_table.go:232, vm.go:146, 216).                             *)
FailedRunClearsEffects ==
  /\ Failed({"execution", "reverted"}) =>
       logs = <<>> /\ result.quota = QuotaInit - quotaLeft
  /\ Failed({"outOfQuota"}) =>
       result.quota = IF frames = <<>> THEN 0 ELSE QuotaInit

(* How many steps a cancelled VM may still take. *)
CancelledSteps ==
  CASE phase = "idle"     -> 4
    [] phase = "exec"     -> 4
    [] phase = "head"     -> 3
    [] phase = "returned" -> 2
    [] phase = "refund"   -> 1
    [] OTHER              -> 0

(* After Cancel, Call or Create ends within a constant number of steps,    *)
(* however much quota and code is left: the instruction already begun is   *)
(* the last, also if it starts a nested run, and no path back from a run   *)
(* leads into code again (vm.go:256, 322).                                 *)
CancelEndsTheCall == [][VmStep /\ abort => CancelledSteps' < CancelledSteps]_vars

(* Every call of Call and Create ends: an instruction that does not halt   *)
(* costs quota, so no code can loop for ever, cancelled or not.            *)
Termination == <>(phase \in {"done", "panic"})

(* An upper bound on the steps the VM has still to take: two for each unit *)
(* of quota, and those around them.                                        *)
StepsLeft ==
  CASE phase = "idle"     -> 2 * QuotaInit + 5
    [] phase = "head"     -> 2 * quotaLeft + 4
    [] phase = "exec"     -> 2 * quotaLeft + 3
    [] phase = "returned" -> 2
    [] phase = "refund"   -> 1
    [] OTHER              -> 0

(* However a contract was written, the VM takes no more than a number of   *)
(* steps that is linear in its quota: every step it takes, instructions of *)
(* price zero, nested runs and the code of a cancelled run included, uses  *)
(* up one of those that were left (vm.go:255-323).                         *)
StepsAreBounded == [][VmStep => StepsLeft' < StepsLeft]_vars

-----------------------------------------------------------------------------
(* The inductive invariant behind these properties. *)

(* Nothing has happened before Call or Create is called. *)
IdleInv ==
  phase = "idle" =>
    /\ db = before /\ snapshots = <<>> /\ frames = <<>>
    /\ quotaReturn = 0 /\ logs = <<>> /\ txs = <<>> /\ shared = "no"

Callee == frames[1].addr

(* What a database may differ in from the one handed over while code runs. *)
RunDb(d) ==
  /\ d.live = before.live \cup {Callee}
  /\ d.code = before.code
  /\ d.balance = AddBalance(before, Callee, tx.token, tx.amount).balance
  /\ \A a \in Addr \ {Callee} :
       (Len(frames) > 1 /\ a = tx.to) \/ d.slot[a] = before.slot[a]

FramesInv ==
  Running => /\ frames # <<>> /\ snapshots # <<>>
             /\ \A i \in DOMAIN frames : frames[i].snapshot <= Len(snapshots)

(* While code runs: whose code it is, that it may run at this depth, and   *)
(* that the database and every revert point but the first are RunDbs.      *)
RunInv ==
  Running =>
    /\ tx.type = "receive" /\ tx.depth <= CallCreateDepth /\ txs = <<>>
    /\ tx.op = "call" => Callee = tx.to /\ before.code[tx.to] # 0
    /\ tx.op = "create" => Callee \notin before.live
    /\ \A i \in DOMAIN frames : frames[i].addr \in {Callee, tx.to}
    /\ Len(frames) = 1 => Frame.addr = Callee
    /\ RunDb(db)
    /\ \A k \in 2..Len(snapshots) : RunDb(snapshots[k])
    /\ phase = "returned" =>
         /\ ret.err \in {"ok", "outOfQuota", "invalid", "execution", "reverted"}
         /\ ret.err \in {"execution", "reverted"} => quotaReturn = 0 /\ logs = <<>>

(* Between the test of the Amount and its use, Call has undone the run.    *)
RefundInv ==
  phase = "refund" =>
    /\ tx.op = "call" /\ tx.type = "receive" /\ tx.depth <= CallCreateDepth
    /\ before.code[tx.to] # 0 /\ db = before /\ txs = <<>>
    /\ ret.err \in {"invalid", "execution", "reverted"}
    /\ ret.err \in {"execution", "reverted"} => quotaReturn = 0 /\ logs = <<>>
    /\ shared # "others" => amount > 0

(* Only who can reach the Amount alters it, and while the code runs the    *)
(* pool is its own.                                                        *)
AmountInv == /\ shared = "no" => amount = tx.amount
             /\ shared # "no" => CallValueOps
             /\ amount \in {tx.amount} \cup Amounts
             /\ phase \in {"idle", "head", "exec"} => shared # "others"

IInv ==
  /\ TypeOK /\ before \in InitDbs
  /\ IdleInv /\ FramesInv /\ RevertPointIntact /\ RunInv
  /\ RefundInv /\ AmountInv
  /\ OutOfQuotaRestores /\ FailedCreateLeavesNoTrace /\ FailedCallLeavesOnlyAmount
  /\ RefundExact /\ NoOverdraft /\ Footprint /\ CreditedOnce
  /\ FailedRunClearsEffects

-----------------------------------------------------------------------------
(* Statements of the comments that the code does not keep. *)

(* params.go:37, sstoreRefundGas: clearing storage is refunded, so what is *)
(* charged never exceeds the quota that was consumed.                      *)
RefundLowersCharge ==
  phase = "done" /\ result.err \in {"ok", "execution", "reverted", "invalid"}
    => result.quota <= QuotaInit - quotaLeft

(* vm.go:144, "refund and delete account otherwise": the account that owes *)
(* the refund can pay it.                                                  *)
RefundFunded ==
  phase = "done" => \A i \in DOMAIN txs :
    amount <= db.balance[txs[i].from][txs[i].token]

(* vm.go:144, "refund": what is refunded is what was received.             *)
RefundIsTheAmount == phase = "done" /\ txs # <<>> => amount = tx.amount
=============================================================================
