----------------------------- MODULE Memory --------------------------------
(***************************************************************************)
(* The memory of a run and what it costs: how the loop of run              *)
(* (src/vm/vm.go:269-293) finds the size an instruction needs              *)
(* (src/vm/memory_table.go), prices it (src/vm/gas_table.go), pays,        *)
(* resizes, and lets the instruction access the memory                     *)
(* (src/vm/instructions.go, src/vm/memory.go).                             *)
(*                                                                         *)
(* The bytes themselves are left out.  Operands are unsigned integers of   *)
(* any size; quantities of Go type uint64 are computed modulo their width. *)
(* Every iteration of the loop is one step: nothing else sees the memory.  *)
(***************************************************************************)
EXTENDS InstructionTable, Sequences

CONSTANTS
  MaxUint64,        \* 2^64 - 1
  WordBytes,        \* 32
  MemoryLimit,      \* 0xffffffffe0
  MemoryGas, QuadCoeffDiv,
  FastestStepGas, Blake2bGas, Blake2bWordGas, CopyGas, ExtCodeCopyGas,
  LogGas, LogTopicGas, LogDataGas, CallGas,
  StepGas,          \* prices of instructions that do not touch the memory
  QuotaInit,        \* the quota with which the code starts
  Ints              \* operands

Uint64 == 0..MaxUint64

ASSUME WidthAssumption == /\ MaxUint64 \in Nat /\ WordBytes \in Nat \ {0}
                          /\ MemoryLimit \in Uint64 /\ QuadCoeffDiv \in Nat \ {0}
                          /\ 2 * MemoryLimit < MaxUint64
                          /\ MemoryLimit + WordBytes <= MaxUint64
ASSUME PriceAssumption ==
  /\ MemoryGas \in Uint64 /\ FastestStepGas \in Uint64 /\ CopyGas \in Uint64
  /\ Blake2bGas \in Uint64 /\ Blake2bWordGas \in Uint64 /\ ExtCodeCopyGas \in Uint64
  /\ LogGas \in Uint64 /\ LogTopicGas \in Uint64 /\ LogDataGas \in Uint64
  /\ CallGas \in Uint64 /\ StepGas \subseteq Uint64 /\ QuotaInit \in Uint64
ASSUME IntsAssumption == Ints \subseteq Nat

(* What the prices rely on, and memoryGasCost does not test.  In the code:  *)
(* no more than 2^61 is added to 3 * 2^35, and a run starts with 1000000    *)
(* (calcQuota), less than 3 * 2^32, the linear price of the fewest words    *)
(* whose square no longer fits.                                            *)
MostWords == MemoryLimit \div WordBytes

ASSUME QuotaAssumption ==
  /\ MostWords * MemoryGas + MaxUint64 \div QuadCoeffDiv <= MaxUint64
  /\ \A words \in 0..MostWords :
       words * words > MaxUint64 => words * MemoryGas > QuotaInit

VARIABLES
  memLen,        \* len(mem.store)
  lastGasCost,   \* mem.lastGasCost
  quotaLeft,
  status,        \* "outside": an instruction accessed what is not there
  due            \* history: what the instructions that were executed should cost

vars == <<memLen, lastGasCost, quotaLeft, status, due>>

Width == MaxUint64 + 1
U64(x) == x % Width
I64(x) == IF U64(x) < Width \div 2 THEN U64(x) ELSE U64(x) - Width

MemoryOps == {"BLAKE2B", "EXTCODECOPY", "MLOAD", "MSTORE", "MSTORE8", "DELEGATECALL",
              "RETURN", "REVERT"} \cup Copies \cup LogOps

Init == /\ memLen = 0 /\ lastGasCost = 0 /\ quotaLeft = QuotaInit
        /\ status = "running" /\ due = 0

-----------------------------------------------------------------------------
(* Sizes.  st[1] is the top of the stack, back(0) in the code. *)

(* (size + 31) / 32 with the sum kept from overflowing, that is, rounded up. *)
ToWordSize(size) == IF size > MaxUint64 - (WordBytes - 1) THEN MaxUint64 \div WordBytes + 1
                    ELSE (size + WordBytes - 1) \div WordBytes

CalcMemSize(off, l) == IF l = 0 THEN 0 ELSE off + l

BigMax(x, y) == IF x < y THEN y ELSE x

MemorySizeMutant(op, st) ==
  CASE op \in {"BLAKE2B", "RETURN", "REVERT"} \cup LogOps -> CalcMemSize(st[1], st[2])
    [] op \in Copies            -> CalcMemSize(st[1], st[3])
    [] op = "EXTCODECOPY"       -> CalcMemSize(st[2], st[4])
    [] op \in {"MLOAD", "MSTORE"} -> CalcMemSize(st[1], WordBytes)
    [] op = "MSTORE8"           -> CalcMemSize(st[1], 1)
    [] op = "DELEGATECALL"      -> CalcMemSize(st[2], st[3])

MemorySize(op, st) ==
  CASE op \in {"BLAKE2B", "RETURN", "REVERT"} \cup LogOps -> CalcMemSize(st[1], st[2])
    [] op \in Copies            -> CalcMemSize(st[1], st[3])
    [] op = "EXTCODECOPY"       -> CalcMemSize(st[2], st[4])
    [] op \in {"MLOAD", "MSTORE"} -> CalcMemSize(st[1], WordBytes)
    [] op = "MSTORE8"           -> CalcMemSize(st[1], 1)
    [] op = "DELEGATECALL"      -> BigMax(CalcMemSize(st[4], st[5]), CalcMemSize(st[2], st[3]))

-----------------------------------------------------------------------------
(* Prices. *)

(* newTotalFee of memoryGasCost, as it is computed. *)
WrappedFeeMutant(words) == (words * MemoryGas) % Width

WrappedFee(words) == (words * MemoryGas + ((words * words) % Width) \div QuadCoeffDiv) % Width

(* What memoryGasCost returns for newMemSize, a multiple of WordBytes, and  *)
(* what it leaves in lastGasCost.                                          *)
Grows(newMemSize) == newMemSize > memLen

FeeMutant(newMemSize) ==
  IF Grows(newMemSize) THEN WrappedFee(ToWordSize(newMemSize)) ELSE 0

Fee(newMemSize) ==
  IF Grows(newMemSize)
  THEN (WrappedFee(ToWordSize(newMemSize)) - lastGasCost) % Width ELSE 0

NewLastMutant(newMemSize) ==
  IF Grows(newMemSize) THEN Fee(newMemSize) ELSE lastGasCost

NewLast(newMemSize) ==
  IF Grows(newMemSize) THEN WrappedFee(ToWordSize(newMemSize)) ELSE lastGasCost

BasePrice(op) ==
  CASE op = "BLAKE2B"      -> Blake2bGas
    [] op = "EXTCODECOPY"  -> ExtCodeCopyGas
    [] op = "DELEGATECALL" -> CallGas
    [] op \in LogOps       -> LogGas + Topics[op] * LogTopicGas
    [] op \in {"RETURN", "REVERT"} -> 0
    [] op \in Copies \cup {"MLOAD", "MSTORE", "MSTORE8"} -> FastestStepGas

(* The operand the price depends on besides the memory: bytes of data. *)
DataSize(op, st) == CASE op \in {"BLAKE2B"} \cup LogOps -> st[2]
                      [] op \in Copies      -> st[3]
                      [] op = "EXTCODECOPY" -> st[4]
                      [] OTHER              -> 0

DataPrice(op, size) == CASE op \in LogOps   -> size * LogDataGas
                         [] op = "BLAKE2B"  -> ToWordSize(size) * Blake2bWordGas
                         [] OTHER           -> ToWordSize(size) * CopyGas

Extra(op, st) == BasePrice(op) + DataPrice(op, DataSize(op, st))

(* The size the memory must have, in whole words, where the code computes   *)
(* it at all.                                                              *)
NewSizeMutant(op, st) == MemorySize(op, st)

NewSize(op, st) == ToWordSize(MemorySize(op, st)) * WordBytes

SizeFits(op, st) == MemorySize(op, st) <= MaxUint64 /\ NewSize(op, st) <= MaxUint64

MemoryPriced(op, st) == SizeFits(op, st) /\ NewSize(op, st) <= MemoryLimit

Priced(op, st) ==
  /\ MemoryPriced(op, st)
  /\ DataSize(op, st) <= MaxUint64
  /\ Fee(NewSize(op, st)) + Extra(op, st) <= MaxUint64

Price(op, st) == Fee(NewSize(op, st)) + Extra(op, st)

-----------------------------------------------------------------------------
(* What an instruction then reads and writes, as pairs of offset and size. *)
Accesses(op, st) ==
  CASE op \in {"BLAKE2B", "RETURN", "REVERT"} \cup LogOps -> {<<I64(st[1]), I64(st[2])>>}
    [] op \in {"CALLDATACOPY", "CODECOPY"} -> {<<U64(st[1]), U64(st[3])>>}
    [] op = "RETURNDATACOPY" -> {}
    [] op = "EXTCODECOPY"    -> {<<U64(st[2]), U64(st[4])>>}
    [] op = "MLOAD"          -> {<<I64(st[1]), WordBytes>>}
    [] op = "MSTORE"         -> {<<U64(st[1]), WordBytes>>}
    [] op = "MSTORE8"        -> {<<I64(st[1]), 1>>}
    [] op = "DELEGATECALL"   -> {<<I64(st[2]), I64(st[3])>>, <<U64(st[4]), U64(st[5])>>}

(* set and a store panic elsewhere; get and getPtr panic or return nothing. *)
Inside(access, len) ==
  access[2] = 0 \/ (access[1] >= 0 /\ access[2] > 0 /\ access[1] + access[2] <= len)

(* returnData is empty in every run that goes on, so RETURNDATACOPY can     *)
(* only copy nothing from offset 0; what it sets then is of size 0.        *)
Fails(op, st) == op = "RETURNDATACOPY" /\ st[2] + st[3] > 0

-----------------------------------------------------------------------------
(* What the words of memory and an instruction should cost. *)
TotalFee(words) == words * MemoryGas + (words * words) \div QuadCoeffDiv

MemWords == memLen \div WordBytes

Growth(newMemSize) ==
  IF Grows(newMemSize) THEN TotalFee(newMemSize \div WordBytes) - TotalFee(MemWords) ELSE 0

-----------------------------------------------------------------------------
(* An iteration of the loop, by how it ends. *)

GasUintOverflow(op, st) ==
  /\ status = "running" /\ ~Priced(op, st)
  /\ status' = "failed"
  /\ lastGasCost' = IF MemoryPriced(op, st) THEN NewLast(NewSize(op, st)) ELSE lastGasCost
  /\ UNCHANGED <<memLen, quotaLeft, due>>

OutOfQuota(op, st) ==
  /\ status = "running" /\ Priced(op, st)
  /\ quotaLeft < Price(op, st)
  /\ status' = "failed"
  /\ lastGasCost' = NewLast(NewSize(op, st))
  /\ UNCHANGED <<memLen, quotaLeft, due>>

Execute(op, st) ==
  /\ status = "running" /\ Priced(op, st)
  /\ quotaLeft >= Price(op, st)
  /\ quotaLeft' = quotaLeft - Price(op, st)
  /\ memLen' = BigMax(memLen, NewSize(op, st))
  /\ lastGasCost' = NewLast(NewSize(op, st))
  /\ status' = IF \E a \in Accesses(op, st) : ~Inside(a, memLen') THEN "outside"
               ELSE IF Fails(op, st) THEN "failed"
               ELSE IF op \in Halting THEN "ended"
               ELSE "running"
  /\ due' = due + Growth(NewSize(op, st)) + Extra(op, st)

(* An instruction that does not touch the memory. *)
Plain(cost) ==
  /\ status = "running" /\ cost <= quotaLeft
  /\ quotaLeft' = quotaLeft - cost
  /\ due' = due + cost
  /\ UNCHANGED <<memLen, lastGasCost, status>>

(* The operands an instruction looks at: the topics of a LOG do not matter. *)
Operands(op) == [1..IF op \in LogOps THEN 2 ELSE StackIn(op) -> Ints]

Next == \/ \E op \in MemoryOps : \E st \in Operands(op) :
             GasUintOverflow(op, st) \/ OutOfQuota(op, st) \/ Execute(op, st)
        \/ \E cost \in StepGas : Plain(cost)

Spec == Init /\ [][Next]_vars

-----------------------------------------------------------------------------
(* Every variable has its type, the quota does not go below zero, and the  *)
(* memory is a whole number of words.                                      *)
TypeOK ==
  /\ memLen \in 0..MemoryLimit /\ memLen % WordBytes = 0
  /\ lastGasCost \in Uint64 /\ quotaLeft \in 0..QuotaInit
  /\ status \in {"running", "ended", "failed", "outside"}
  /\ due \in Nat

(* The size memory_table.go computes for an instruction covers every byte   *)
(* the instruction reads or writes, whatever its operands, those included  *)
(* whose low 64 bits are harmless.                                         *)
NeverOutside == status # "outside"

(* While the code runs lastGasCost is the price of the memory it has, so    *)
(* that the next growth is charged for the difference: it has not kept the *)
(* price of memory that was never made, nor one that wrapped.              *)
FeeOfMemory == status = "running" => lastGasCost = TotalFee(MemWords)

(* What was charged is the sum of what each instruction should have cost,  *)
(* computed without limit on the integers: a price that wraps is never paid. *)
PaidInFull == QuotaInit - quotaLeft = due

(* However it has grown, memory has been paid for from the first word on,  *)
(* so the quota bounds the memory of a run.                                *)
MemoryIsPaidFor == TotalFee(MemWords) <= QuotaInit - quotaLeft

(* The inductive invariant behind these properties. *)
IInv == TypeOK /\ NeverOutside /\ FeeOfMemory /\ PaidInFull /\ MemoryIsPaidFor

-----------------------------------------------------------------------------
(* A statement of a comment that the code does not keep. *)

(* gas_table.go:19, "the highest number that can be used without           *)
(* overflowing the gas calculation": below the limit memoryGasCost is exact. *)
LimitPreventsOverflow ==
  status = "running" =>
    \A size \in 0..MemoryLimit :
      size % WordBytes = 0 => Fee(size) = Growth(size)
============================================================================
