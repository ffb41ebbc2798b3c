# viteVm in TLA+

Specifications of the virtual machine in `src/vm`, model-checked with TLC on
small instances and, for the most important properties, proved with TLAPS for
all instances.

A VM is made for one transaction (`NewVM`), then `Call` or `Create` is called on
it, once.  The transaction is a *send*, which takes the amount from the sender,
or a *receive*, which credits the recipient and runs its code, or which creates a
contract.  The VM reads and writes a state database behind an interface, pays
for every instruction from a quota, and returns the quota used, the logs and the
refund transactions that have become due.

## 1. Inventory

| Component | State | Operations | Interacts with |
|---|---|---|---|
| transactions (`vm.go`) | `quotaLeft`, `quotaReturn`, `logs`, `txs`, `abort`, `intPool`, `returnData` | `Call`, `Create`, `delegateCall`, `run`, `Cancel` | all the others; `Cancel` comes from another goroutine |
| state database (`database_temp.go`, interface only) | balances, code, storage, revert points | balance, account, code and storage writes, `Snapshot`, `RevertToSnapShot` | called by transactions and instructions |
| pool of integer pools (`intpool.go`) | `poolOfIntPools.pools`, its lock | `get`, `put` | shared by the VMs of the process; called by every `run` and its deferred function |
| jump destinations (`destination.go`, `contract.go`) | `jumpdests`, the bitvecs | `has`, `codeBitmap`, `set`, `set8` | called by `opJump`, `opJumpi`; decides where `pc` may go |
| instruction table (`jump_table.go`, `opcodes.go`) | constant | look-up by opcode | loop of `run` |
| instructions (`instructions.go`) | stack, memory, `pc` | one function per opcode | database, pool, nested runs |
| gas prices (`gas_table.go`, `params.go`) | `memory.lastGasCost` | one function per opcode, `intrinsicGasCost` | loop of `run`, head of `Call` and `Create` |
| memory (`memory.go`, `memory_table.go`) | bytes, `lastGasCost` | `resize`, `get`, `set` | loop of `run`, instructions |
| stack, integers of one pool (`stack.go`, `stack_table.go`, `intpool.go`) | lists of `*big.Int` | push, pop, `get`, `put` | instructions |
| arithmetic (`math_big.go`, `math_integer.go`, `common.go`) | none | 256-bit operations, slices, padding | instructions, prices |

What is hard, and what has to hold:

* **Failure in the middle.**  Code can fail at every instruction, in five ways
  that leave by different exits, and the two callers of `run` undo different
  things: `Create` reverts when it ran out of quota and otherwise deletes the
  account, `Call` reverts and credits the amount again.  After every exit the
  database must be the one the transaction found, or that plus the amount, and
  exactly the refund that is due must be recorded.
* **Nested runs** take revert points above those of the transaction, write at
  the recipient, and share fields of the VM (`intPool`, `returnData`, quota).
* **Aliases.**  `CALLVALUE` puts the transaction's own `*big.Int` on the stack, from
  where it may get into the pool, and with the pool to other VMs, before `Call` tests,
  credits and records it.
* **Concurrency.**  `Cancel` races with the loop, and the VMs of a process share
  the list of pools; an `intPool` itself has no lock.
* **Arithmetic at the edges**: `uint64` quota and prices, bytes split by `set8` at
  eight alignments, 64 bits taken from a 256-bit destination.
* **Termination** rests on quota alone: code may jump backwards for ever.

`PROJECT.json` lists each hazard with its line and the properties that would
catch it.

## 2. Modules

| Module | Models |
|---|---|
| `StateDb` | the database as the VM relies on it: a record of accounts, balances, code lengths and storage |
| `Vm` | one VM: `Call`, `Create`, `run`, `delegateCall`, `Cancel`, quota, refunds |
| `Settlement` | what the package promises of a transaction, in one step |
| `VmSettles` | the refinement mapping from `Vm` to `Settlement` |
| `IntPools` | `poolOfIntPools`, its lock, and `vm.intPool` in nested runs, for several goroutines |
| `Jumpdests` | `pc`, `codeBitmap`, `has` |
| `InstructionTable` | the opcodes and the words each declares to pop and push |
| `Operands` | the `*big.Int`s of a run: stack, pool, and what each instruction does with them |
| `WordStack` | what that should look like from outside: a stack of words |
| `Memory` | size, price, payment, resizing and access, for each instruction that uses memory |
| `Arith` | what the arithmetic instructions and the byte helpers compute |
| `VmProofs`, `VmBalanceProofs`, `VmSettlesProofs`, `IntPoolsProofs`, `JumpdestsProofs`, `OperandsProofs`, `MemoryProofs`, `ArithProofs` | proofs about the module of that name (`VmBalanceProofs` about `Vm`; `StateDb` in `VmProofs`) |
| `MCVm`, `MCJumpdests`, `MCOperands`, `MCMemory`, `MCArith` | instances for TLC; `IntPools` needs none |

`Operands` and `Memory` extend `InstructionTable`, `Operands` implements `WordStack`,
`VmSettles` maps `Vm` to `Settlement`.  `Vm` and `Memory` meet where `Vm` takes any price
and lets any instruction fail: `Memory` says which prices are asked of which instruction.

A definition whose name ends in `Mutant` is a plausible bug: the definition after
it with one thing wrong.  No specification uses it; replacing the right
definition by it makes TLC refute a property, which shows that the property
looks at that part of the code.

### StateDb

The repository has no implementation of `Database`, so this is the contract the
VM needs: a database is a value, each write yields the next one, `Snapshot` saves
the value and `RevertToSnapShot(id)` restores it and drops the later ones, and an
account that does not exist holds nothing.  Code is its length, because only its
presence and price matter; an account has one storage location.

### Vm

`phase` says where the goroutine is: `idle` before the call; `head` at the test of
`abort`, `exec` between that test and the instruction, `returned` when the
innermost `run` has returned, `refund` between the test of the amount that a failed
call owes and its use; `done`; `panic`.  `frames` are the active calls of
`run` with the address they store at and their revert id.  `tx`, `abort`,
`quotaLeft`, `quotaReturn`, `logs`, `txs` are the fields of `VM`.  `before` is the
database handed over (history).

`amount` is the value of the integer `vm.Amount` points to, and `shared` says who can
write it besides `Call` and `Create`: `no` one; the `code`, once `CALLVALUE` has put the
pointer on a stack; or `others`, the VMs that may take the pool from the list after
the deferred function of `run` has put it there (`vm.go:242`), which is before
`vm.go:199` and `vm.go:133` return.  The code writes it by `ExecWriteAmount`, the others by
`OthersWriteAmount`, at any moment, also after `Call` has returned; `Amounts` is any set
of integers, negative ones included, since `SIGNEXTEND` leaves one in an integer that it
gives back (`instructions.go:143-146`).  Whether the integer is in the pool that is
handed on is left open: it may have stayed on the stack, or the list may be full.  A
refund has the pointer, not a value, so the records in `txs` have no amount: what is to
be refunded is `amount`, whenever one looks.  `Call` reads it twice, at `vm.go:204` to
test it (`CallFails`, `CallOwes`) and at `vm.go:205` to credit it (`CallRefunds`); the
two are different steps and others may write in between.

Two assumptions are made about the integer of the amount: that nobody else holds it when
the VM is made, and that the database copies the values it is given.  A read that
races with a write may return neither value; as `Amounts` is any set of integers, the
theorems cover this.

`Call` and `Create` up to `run` are one action per way through them (`Send`,
`SendRefused`, `ReceiveTransfer`, `ReceiveTooDeep`, `ReceiveCall`, `ReceiveCreate`,
...), since nothing else touches the database or the VM meanwhile and `Cancel`
only writes a flag that they do not read.  So are the ways back (`CallSucceeds`,
`CreateFails`, `CreateOutOfQuota`, ...), except the one that reads the amount twice.

Contracts are not interpreted.  At every iteration any instruction may come, so
the behaviours include those of every contract; the instructions are grouped by
their effect on what outlives the run: `ExecPlain` (quota only), `ExecLog`,
`ExecSStore`, `ExecCallValue`, `ExecWriteAmount`, `ExecHalt`, `ExecRevert`,
`ExecError`, `ExecInvalid`, `ExecOutOfQuota`, `ExecDelegate`.

`DELEGATECALL` of an account with code always ends in a panic: the nested `run`
sets `vm.intPool` to nil (`vm.go:243`) and `opDelegateCall` takes an integer from it
(`instructions.go:642-644`).  `NestedReturn` models that; the nested run itself, and
what it does to database and quota before, is modelled in full, so that the
invariants also hold at every step in which another goroutine could look.

### IntPools

Goroutines call `run`, which locks, takes the last pool or makes one, unlocks;
code runs, nests, returns or panics; the deferred function locks, puts the pool,
unlocks, then clears the field.  Reading the last pool and shortening the list
are two steps, so that the lock matters.  `lock` is a set so that a broken lock is
a state and not a deadlock.  A panic unwinds the deferred functions of all runs of
the goroutine; its caller recovers and goes on, as a node that survives would.

### Jumpdests

Code is a sequence of bytes.  A run starts at 0, executes instructions, and jumps
to any integer.  The first jump that `has` does not refuse analyses the code
with `codeBitmap`, one step per instruction and per call of `set8` and `set`, and
stores the bitvec; then `has` decides.  `pc` wraps at 64 bits in the code and
`numbits` at 8; `TypeOK` says that they never get there.

### Settlement and VmSettles

`Settlement` has no runs, frames, snapshots or quota: one step takes a transaction from
pending to one of eight outcomes and says for each what may happen to the database and
which refund is owed.  `VmSettles` hides the database of a running VM (`IF Settled THEN db
ELSE before`), and `Settles` states that every behaviour of the VM is then one of
`Settlement`: atomicity of the transaction.  `owed` is what the integer of the transaction
holds, and `lent` says that others can write it.  Code that was run may leave in it the
amount received or one of `Altered`, and may lend it; both only if contracts use
`CALLVALUE`, otherwise `VmSettles` has `Altered` empty.  A contract that fails is credited
what it owes.  If the integer is lent this is not so: what it is credited and what it owes
may be different amounts, a refund may be recorded of nothing, and `Change` may alter what
is owed at any later time.  So `Settles` says that a transaction is atomic for the
database, and says what the refund is worth only as long as the integer is not lent.
`Settlement` lets code run, and a call be refunded, only at depths up to
`CallCreateDepth`; the refund is one level deeper, so chains of calls that refund one
another end (`RefundsEnd`).

### Operands, WordStack and InstructionTable

An integer is a number, allocated in order; `stack` and `pool` are sequences of
them, top last, and `val` has the values of those on the stack.  What an
instruction does with its integers is data: a *shape* says how many it pops, gets
from the pool and allocates, which of these it overwrites, which it puts back and
which it pushes.  `Shapes(op, byZero)` has the shapes of each opcode, one for each
way through the Go function (`S256` makes a new integer or returns the one it was
given, for each of two operands: four shapes).  `Exec` is the loop's stack test and
one shape; `Dup` and `Swap` look below their operands and have actions of their own.
An integer from the pool has any value until it is written, unless `getZero` gave it
out.  `CALLVALUE` and `BALANCE` push integers of the transaction and of the database:
the negative numbers.  `NextRun` starts another run with the same pool, as
`poolOfIntPools` would, `NewPool` one with an empty pool.

`WordStack` has no integers, no pool and no aliases: an instruction replaces the words
it pops by any word, by zero if it divides by zero.  `Implements` states that
`Operands` is that, as long as no integer of somebody else was pushed by a run with
this pool; after that the refinement mapping shows an empty stack for ever, because
the code then really does overwrite words that are not its own
(`RefundIsTheAmount` shows it for the transaction).

### Memory

A step is one iteration of the loop of `run` with an instruction that touches the
memory, by how it ends: the size or the price does not fit (`GasUintOverflow`), the
quota does not cover it (`OutOfQuota`), or it is paid, the memory is resized and the
instruction makes its `Accesses` (`Execute`).  Quantities of type `uint64` are computed
modulo their width, so prices wrap where the code's wrap, and `lastGasCost` keeps what
the code leaves in it, on failures too.  An access outside ends in the status
`outside`, which stands for the panic of `set` and for what `get` does then.  `due` is
what the executed instructions should have cost, in unbounded integers (history).

### Arith

A state is an instruction, its operands and, when it is done, its result.  `Compute` is
the code: limbs, bytes and two's complement as the code has them, at widths that are
constants (the only assumption on them is that a word has a power of two bytes).  Powers
of two, `BigPow(2, n)`, and the loop of `Exp` are recursive functions, not operators, so
that theorems can be about them.  The invariants say what the result should be in terms of
unbounded integers, remainders and the number a word stands for.

## 3. What is checked

| Run | Question | Distinct states |
|---|---|---|
| `vm` | do the invariants of `Vm` hold, for every kind of transaction and contract, and is the number of steps bounded? | 2.4 million |
| `vm_settles` | is a transaction settled in one step, and does it end, if contracts use `CALLVALUE`? | 1.1 million |
| `vm_charge` | is clearing storage ever charged more than it cost? (it is) | |
| `vm_refund_funded` | can the account that owes a refund pay it? (not after a failed `Create`) | |
| `vm_refund_amount` | is the refund the amount that was received? (not after `CALLVALUE`) | |
| `intpools` | is a pool in use ever shared, and does everyone who asks for one get it? | 38 thousand |
| `intpools_nil` | are only pools put? (not after a nested run) | |
| `jumpdests` | is the bitvec exact, and does `pc` stay on instructions? | 132 thousand |
| `operands` | do the pointers on the stack act as words, and do table, stack and pool keep their limits? | 20 thousand, up to the numbers of integers |
| `memory` | is each access inside the memory, and is the memory paid for, once? | 1.1 thousand |
| `memory_price` | is every price below the limit exact? (no) | |
| `arith` | is each instruction the operation it is named for? | 2.2 million |

The properties of `Vm`: the revert point of the transaction survives everything
nested in it (`RevertPointIntact`); a receive that runs out of quota, which is to
be retried, changes nothing (`OutOfQuotaRestores`); a failed creation leaves no
trace though most of its exits do not revert (`FailedCreateLeavesNoTrace`); a
failed call leaves one amount with the recipient and nothing else
(`FailedCallLeavesOnlyAmount`); the refund that is recorded goes from and to the right
accounts, once, and is recorded exactly when one is due (`RefundExact`); no balance is
overdrawn (`NoOverdraft`); no account is touched but those of the transaction, among which
is the recipient, where a delegating constructor stores (`Footprint`); an amount
arrives once on every path, and on success it is the one received (`CreditedOnce`); a run
that reverts or fails in an instruction publishes no logs, and neither it nor one that
runs out of quota earns any (`FailedRunClearsEffects`; the exits that do not clear, such
as an invalid opcode, are in the model as they are in the code, but nothing is claimed
of what they publish); after `Cancel` the call ends within four steps of the VM, wherever
it is and however much quota it has (`CancelEndsTheCall`); every step of the VM uses up
one of the steps it has left, which are two per unit of quota and five, whatever the code
(`StepsAreBounded`), which is why it ends (`Termination`).

Four of them depend on who can write the amount.  Without `CALLVALUE` it is the amount
received.  With it, but as long as the integer stays with this VM, what a failed call
credits and what it owes are both what the code left there, if that is positive.  Once
the pool is handed on, a failed call credits the received amount or what the others wrote,
the refund is due for whatever they write next, a refund of nothing may be recorded, and
the credit may be negative, so that `NoOverdraft` makes an exception for that one
balance.

The properties of the other modules: no integer of the package is in two places of
stack and pool, over any number of runs (`NoAlias`); the pool outgrows its limit by at
most a batch (`PoolBounded`); the table lets no instruction pop below the stack, on any
way through it (`NoUnderflow`); instructions change no word but their operands, and
nothing that was in the pool shows (`Implements`).  The size computed for an
instruction covers what it accesses, operands beyond 64 bits included (`NeverOutside`);
`lastGasCost` belongs to the memory there is (`FeeOfMemory`); what was charged is the
sum of exact prices (`PaidInFull`), so memory grown in steps costs what it costs at
once (`MemoryIsPaidFor`).  Signed division, powers, moduli, comparisons, shifts, sign
extension, bytes, slices and overflow tests agree with their definitions
(`SignedDivision`, `PowersAndModuli`, `SignedWords`, `BytesOfWords`, `SlicesArePadded`,
`OverflowIsSeen`).

### Findings

* `RefundLowersCharge` (`vm.go:326`).  `quotaUsed` *adds* the quota to be returned,
  so clearing storage raises the charge.  `sstoreRefundGas` in `params.go:37` calls
  it a refund.
* `RefundFunded` (`vm.go:127`, `vm.go:159`).  A failed `Create` deletes the account,
  with the amount, and records a refund that this account is to send.  The refund of a
  failed `Call` can be paid (`CallRefundsAreFunded`), unless other VMs may write the
  integer it is recorded with.
* `RefundIsTheAmount` (`instructions.go:363`).  `CALLVALUE` pushes `contract.amount`
  itself; arithmetic on it changes the refund and the amount that a failed call
  credits.  As long as only the contract can reach the integer it owes what it is
  credited.  But the integer may be in the pool that `vm.go:242` gives back before
  `vm.go:204-211`, and then other VMs may change it between the test, the credit and the
  refund, and afterwards, because the refund is recorded with the pointer: neither the
  credit nor the refund is then fixed by the transaction.
* `OnlyPoolsArePut` (`vm.go:242`).  After a nested run the run that called it puts
  nil into the shared list, and a VM that takes it from there panics although
  its own code never delegates.
* `LimitPreventsOverflow` (`gas_table.go:21`).  A comment calls the limit on the size of
  memory the highest number that can be used without overflow.  It admits 2^35 - 1
  words, and from 2^32 words on the square wraps; `gas_table_test.go:12` expects a
  wrapped price.  `PaidInFull` nevertheless holds because such a price is more than any
  quota a run starts with (see *What is proved*).

Noted without a run, since no text of the repository says otherwise or nothing
comes of it: `SAR` of zero by 256 or more is -1 (`instructions.go:318`), and `SignedWords`
leaves this case out; the comment of `Exp` says that it does not change its base
(`math_big.go:44`), which `base.Mul(base, base)` does, but its only caller gives the base
back to the pool at once; a cancelled run is committed like one that stopped
(`vm.go:322`).

### Bounds

* `MCVm`: a sender with one unit of each of two tokens, a contract with a value in
  storage, a free address: the three kinds of account the code distinguishes.
  Amounts 0, 1, 2 are nothing, all and more than all of the balance; what is written to
  the integer of the amount is -1 or 2, so a negative number and one that may be the
  received amount.  Depths 0 and
  2 lie at both sides of `CallCreateDepth` = 1.  The quota is 9 and the prices are
  small numbers in the order of those of `params.go`: a run executes up to seven
  instructions, enough for a store, a clear, a nested run with stores of its own,
  a failure, and running out at each of them.  `MaxUint64` is 40 so that data of 21
  and 41 bytes has a price that does not fit, by each of the two tests of
  `intrinsicGasCost`.  Storage values are zero and not zero, which is all that
  prices look at.  `SstoreRefundGas` is larger than half of what can be used, and
  smaller, so that both sides of the minimum in `quotaUsed` occur.
  In `vm_settles`, which also checks liveness, contracts may use `CALLVALUE`; the quota
  is 8, and they put -1 or 5 in place of the amount, which is never 5, so that an altered
  amount can be told from a received one.
* `IntPools`: two goroutines, room for two pools, runs nested three deep, so the list
  is empty, partly filled and full, and a put finds no room.  There are as many
  identities of pools as can be reachable at once, so that `NewPool` is never
  disabled.  There is no symmetry, because liveness is checked in the same run.
* `MCJumpdests`: every code of up to four bytes out of eight kinds of instruction,
  and longer ones in which a PUSH of 7, 8, 9, 15, 16, 17, 31 or 32 bytes starts at
  each of the eight alignments and ends before, at and after the end of the code,
  its data looking like `JUMPDEST`s.  2^62 is scaled to 64, so that integers of more
  than 62 and of more than 64 bits with a small remainder are among the `Words`.

* `MCOperands`: a stack of six words, on which the widest instruction (`LOG4`) just
  fits; a pool with the limit one, so that batches of all sizes meet a pool below, at
  and above it; two values; one foreign integer, pushed at most twice by the runs with
  one pool (`ForeignLimit`), so that it is also on the stack twice, and on the stack
  and in the pool.  The view forgets the numbers of integers, not which places hold
  the same one: no action depends on a number except that new ones are new.
* `MCMemory`: integers of eight bits, words of four bytes, the limit in the same
  relation to them as in the code (`0xffffffffe0` to 2^64): 31 words, of which 16 have a
  square that wraps.  Operands are zero, small, on both sides of what wraps and of
  the limit, the largest `uint64`, and one that is zero in its low bits.
* `MCArith`: words of eight bits made of four bytes of two bits, limbs of two bytes:
  more than one byte per limb and more than one limb per word, as in the code (eight
  and four).  *Every* pair of words for each instruction with two operands; eleven words
  at the edges for those with three; every data of up to five bytes.

A VM stops when its call has returned, and a run of code when it halts, fails or has
no price it can pay, so deadlock is not looked for in `Vm`, `Jumpdests`, `Memory` and
`Arith`; it is in `IntPools` and `Operands`.

### Fairness

`Vm`: weak fairness of `VmStep`, the goroutine that runs the VM.  `Cancel` is under no
obligation.  `IntPools`: weak fairness inside the critical sections, which contain no
blocking call; strong fairness of taking the lock, which `sync.Mutex` gives: a
goroutine that has waited long gets the lock handed over.  Code is not obliged to
return: who asks for a pool must get it even if other VMs run for ever.

## 4. What is proved

For all values of the constants that satisfy the named assumptions: any
transactions, databases, prices, quota, number of goroutines, code, widths of words.

* `VmProofs`: `TypeOK`, `RevertPointIntact`, `OutOfQuotaRestores`,
  `FailedCreateLeavesNoTrace`, `FailedCallLeavesOnlyAmount`, `RefundExact`.
* `VmBalanceProofs`: `NoOverdraft`, `Footprint`, `CreditedOnce`,
  `FailedRunClearsEffects`, `CancelEndsTheCall`, `StepsAreBounded` (with
  `StepsAreCounted`: the bound is at most `2 * QuotaInit + 5`); and
  `CallRefundsAreFunded`, the part of `RefundFunded` that does hold.
* `IntPoolsProofs`: `TypeOK`, `Exclusive`, `PoolWhileRunning`.
* `JumpdestsProofs`: `TypeOK`, `BitmapExact`, `PcOnInstruction`, `IndexInBounds`,
  `JumpIsExact`.
* `VmSettlesProofs`: `Settles`, for every contract, those that use `CALLVALUE` included,
  with the restrictions that `Settlement` makes for a lent integer;
  and `RefundChainsEnd`, that `RefundsEnd` of `Settlement` holds of the VM.
* `OperandsProofs`: `TypeOK`, `NoAlias`, `PoolBounded`, `NoUnderflow`, `Implements`.
* `MemoryProofs`: `TypeOK`, `NeverOutside`, `FeeOfMemory`, `PaidInFull`, `MemoryIsPaidFor`.
* `ArithProofs`: `TypeOK`, `SignedDivision`, `PowersAndModuli`, `SignedWords`, `BytesOfWords`,
  `OverflowIsSeen`, `SlicesArePadded`, for words, limbs and bytes of any width.

**Vm** goes in layers. `TypeOK` needs `FramesInv`, because reverting is typed only if
revert ids lie within the snapshots, and `IdleInv`. On these rests `RunInv`: while code
runs, the database and every revert point but the first are a `RunDb`, which differs from
the one handed over only in one new or existing account, the credit, and storage of the
callee (and of the recipient below a nested run); together with `RevertPointIntact` this
is what makes deleting an account as good as reverting. `FailedCreateLeavesNoTrace` is not
inductive without it: the exits that delete could leave storage written elsewhere.
Properties of finished transactions follow from `RunInv` at the step that returns, or, for
a failed call that owes a refund, from `RefundInv`, which keeps between the two reads of
the amount what the first of them has established: the run is undone, and unless others
can write it the amount is positive. `AmountInv` says that the amount is the one received
unless its integer is shared, and that the others cannot reach it before a `run` has given
its pool back; `RefundExact`, `CreditedOnce` and `CallRefundsAreFunded` need it.
`VmProofs` begins with the facts about the database, among them that deleting a new
account undoes its creation, its credit and its writes, and that crediting nothing is no
change.

`StepsAreBounded` needs only types: `StepsLeft` falls by one when the test of `abort`
lets an instruction through, by one or more when the instruction is paid for, and
when the run ends.  An instruction that costs nothing (`STOP`, `RETURN`) ends the run, and
this is what the proof rests on.  With `StepsAreCounted` it is the non-temporal half of
`Termination`: what is left to liveness is that the goroutine keeps taking steps.

**IntPools.**  `Exclusive` needs `LockInv` (exactly the goroutines inside get and put
hold the lock, at most one), `TakenInv` (the pool a goroutine has read is still the
last one) and, for `PoolWhileRunning`, `SoundInv` (before the first nested run a pool
is in the field from get to put).

**Jumpdests.**  `BitsInv` says that what `codeBitmap` has passed and not marked
decodes the code as far as it goes: each such position but 0 follows one of them,
none of them has its successor marked, and one of them has its data end where the
data being marked ends.  `Set8Bits` proves that `set8` sets eight consecutive bits at
every alignment.

**VmSettles.**  The initial states map to initial states; every step of `Vm` but the last
one of a transaction keeps what the mapping shows, and each of the last ones is the step
of `Settlement` with the outcome that `errs` stands for. What the database may then be
comes from `RunInv` and the properties proved in `VmProofs`. Nothing is assumed of
contracts: if none uses `CALLVALUE`, `Altered` is empty, so what is owed is what was
received, and `AmountInv` shows that the VM keeps to it; the run `vm_refund_amount` shows
that with `CALLVALUE` no such thing can be said. What other VMs write to a lent integer is
invisible before the transaction is settled, and `Change` afterwards. `RefundsEnd` is
proved of `Settlement` alone and carried over by the refinement.

**Operands.**  `IInv` adds to the three invariants that a pool whose runs never pushed a
foreign integer holds none.  `TableIsSound` finds, over all opcodes, what every
shape has in common: its integers are numbered, no integer is put back twice, none is
pushed and put back, what is written has a number, and it pops and pushes as the table
declares.  `OperandsDiffer` says that the integers of one shape are different ones.  The
rest never looks at an opcode again: `TakesPlaces` says where each place of the new
stack and pool comes from, and `NoAlias` follows.  For the refinement it is then shown that
an integer below the operands is not written, so its word stays.

**Memory.**  `IInv` is the conjunction of the five properties: `NeverOutside` needs that
sizes are whole words, `PaidInFull` needs `FeeOfMemory`, and `FeeOfMemory` needs that a price
which wraps is not paid.  The code does not test for that.  It is so because of
`QuotaAssumption`: where the square of the words wraps, their linear price alone, which
does not, is more than the quota the run starts with: 3 * 2^32 or more.  `calcQuota`
returns 1000000 (`vm.go:66-69`), so the assumption holds, but a TODO there says that this
is for test; with a quota above 3 * 2^32 the theorem says nothing, and the finding above
would have consequences.

**Arith.**  `IInv` says that operands are of the kind the instruction has and that a
result is what `Compute` gives; the rest is arithmetic, for all widths.  The library's
theorems for induction take an operator and cannot be used, so induction goes through
sets: a set of naturals that is not empty has a least element (`Least`, from the
library's theorem about well-founded relations), so one with 0 and each successor has
all (`SetInduction`), and a function defined by recursion exists (`Recursion`).  From
these come the laws of powers of two and of digits.  `SignedDivision` and `SignedWords`
rest on `S256` being the only number of the signed range with the given remainder.
`BytesOfWords` and `PowersAndModuli` rest on one lemma, that bits cut out of a limb are bits of
the number, whatever divides what: this takes care of `BYTE`, of `ReadBits` (and
of `SetBytes`, its inverse) and of the bits `Exp` loops over, whose invariant is that after k
bits the base is x^(2^k) and the result x^(y mod 2^k).  Two assumptions are needed: that a
word has a power of two bytes (32), without which `toWordSize` would be wrong at the largest
sizes, and that the price of the longest exponent (1610) fits a word (`PriceAssumption`).

The invariants were first checked by TLC (`IInv` of each module).

Only model-checked: `Termination` and `GetReturns`, which are liveness under fairness
and out of the prover's reach.  Of the first, `StepsAreBounded` proves what does not
depend on fairness.  The five properties that a run refutes are findings and have no
theorem.

## 5. What is not modelled

* The bytes of the memory, hashes, the bits that `AND`, `OR` and `XOR` set, and what the
  environment instructions read: any value.  Which integers they pop, write and push is
  in `Operands`, which memory they access in `Memory`.
* The constant prices: any positive price in `Vm`, any of a few in `Memory`.
* Which quota an instruction has left when it is in `Memory` and in `Vm` at once: the two
  are separate modules, each with a quota of its own.
* A VM used for several transactions (`vm.go:83`): nothing in the repository does it, and
  nothing says what should hold.
* `types.CreateAddress`: any address that is free, or the error.
* Debug output, and `leftPadBytes`, which only a test calls.

## 6. Plan

Done, in this order: `StateDb`, `Vm` with its runs and proofs, `Settlement`,
`IntPools` and `Jumpdests` with proofs, `Operands` with its refinement and proofs,
`Memory` with proofs, `Arith`, the proof of `Settles`; then `Settles` with `CALLVALUE`,
`StepsAreBounded`, and the proofs of `Arith`.

Next: `Ledger`, several transactions on one database, refunds sent as transactions of
their own at the next depth, with `Settlement` as the step of one transaction.  To
show: tokens are conserved up to the known loss, and chains of refunds end (`RefundsEnd`
is the step of it).  What orders, sends and retries transactions is outside of this
repository, so this rests on assumptions about code that cannot be read here.
