------------------------------ MODULE Operands ------------------------------
(***************************************************************************)
(* The big.Ints of a run: the stack (src/vm/stack.go) and the intPool      *)
(* (src/vm/intpool.go) hold pointers, the instructions                     *)
(* (src/vm/instructions.go) overwrite the integers they point to, and an   *)
(* integer that was given back is handed out again, unchanged.             *)
(*                                                                         *)
(* An integer is a number: 1, 2, ... are those this package has allocated, *)
(* in this order; negative ones belong to somebody else, the transaction   *)
(* (CALLVALUE) or the database (BALANCE).  Only the values of integers on  *)
(* the stack are kept: one that is handed out by the pool has any value    *)
(* until it is written.                                                    *)
(***************************************************************************)
EXTENDS InstructionTable, Sequences

CONSTANTS
  Foreign,        \* integers of the transaction and of the database
  Word,           \* values
  StackLimit,
  PoolLimit,
  ForeignLimit    \* bound: how many foreign integers a pool and its runs are given

ASSUME ForeignAssumption == Foreign \subseteq {i \in Int : i < 0}
ASSUME WordAssumption    == 0 \in Word
ASSUME LimitAssumption   == StackLimit \in Nat /\ PoolLimit \in Nat /\ ForeignLimit \in Nat

VARIABLES
  stack,      \* stack.data, the top is the last one
  pool,       \* intPool.pool.data
  val,        \* the values of the integers on the stack
  made,       \* no integer above it has been allocated
  foreign,    \* history: how many foreign ones the runs with this pool have pushed
  last        \* history: the instruction executed last in this run

vars == <<stack, pool, val, made, foreign, last>>

Elements(s) == {s[i] : i \in DOMAIN s}
FirstOf(s, n) == SubSeq(s, 1, n)
Least(a, b) == IF a < b THEN a ELSE b

Init == /\ stack = <<>> /\ pool = <<>> /\ val = <<>> /\ made = 0
        /\ foreign = 0 /\ last = "none"

-----------------------------------------------------------------------------
(* A shape is one way through an instruction.  It pops "pop" integers, gets *)
(* "got" from the pool, allocates "new", and may be given one of somebody   *)
(* else's, "ext".  The integers are numbered in this order, so 1 is the    *)
(* one popped first.  It overwrites those in "writes", puts back "puts",   *)
(* and pushes "out" (0: nothing), zero if "zero".                          *)

Shape(pop, got, new, out, puts, writes) ==
  [pop |-> pop, got |-> got, new |-> new, ext |-> 0, out |-> out,
   puts |-> puts, writes |-> writes, zero |-> FALSE]

Zero(s)   == [s EXCEPT !.zero = TRUE]
Given(s)  == [s EXCEPT !.ext = 1]

(* x, y := stack.pop(), stack.peek(), the result in y *)
InSecond == Shape(2, 0, 0, 2, <<1>>, {2})

(* x, y := stack.pop(), stack.pop(), the result in x *)
InFirstMutant == Shape(2, 0, 0, 1, <<1, 2>>, {1})
InFirst == Shape(2, 0, 0, 1, <<2>>, {1})

(* S256 of x, of y, of both or of none makes a new integer: it is put      *)
(* instead of the popped one, which is lost.  The result is res.           *)
Signed == { Shape(2, 1, 0, 3, <<1, 2>>, {1, 2, 3}), Shape(2, 1, 1, 3, <<4, 2>>, {2, 3, 4}),
            Shape(2, 1, 1, 3, <<1, 4>>, {1, 3, 4}), Shape(2, 1, 2, 3, <<4, 5>>, {3, 4, 5}) }

(* res := vm.intPool.getZero(), pushed as it is *)
SignedByZeroMutant == Signed
SignedByZero == {Zero(s) : s \in Signed}

AddModulo == Shape(3, 0, 0, 1, <<2, 3>>, {1})

(* Exp returns an integer of its own, and squares its base in place. *)
Power == Shape(2, 0, 1, 3, <<1, 2>>, {1, 3})

(* The mask takes the place of the popped size; num keeps its own. *)
SignExtend == { Shape(2, 0, 0, 2, <<1>>, {1, 2}), Shape(2, 0, 0, 2, <<1>>, {}) }

Sar == { Shape(2, 0, 0, 2, <<1>>, {2}), Shape(2, 0, 1, 3, <<1>>, {3}) }

InPlace == Shape(1, 0, 0, 1, <<>>, {1})
Get     == Shape(0, 1, 0, 1, <<>>, {1})

(* The popped index is not given back. *)
CallDataLoad == Shape(1, 1, 0, 2, <<>>, {2})

(* GetHash(..).Big() is new; otherwise a zero from the pool; n, the lower   *)
(* limit, is the first integer got.                                        *)
BlockHash == { Shape(1, 1, 1, 3, <<1, 2>>, {2, 3}), Zero(Shape(1, 2, 0, 3, <<1, 2>>, {2, 3})) }

(* The database returns an integer of its own or makes one. *)
Balance == { Given(Shape(2, 0, 0, 3, <<1, 2>>, {3})), Shape(2, 0, 1, 3, <<1, 2>>, {3}) }

CallValue == Given(Shape(0, 0, 0, 1, <<>>, {1}))

HashOf == Shape(2, 1, 0, 3, <<1, 2>>, {3})
Load   == Shape(1, 1, 0, 2, <<1>>, {2})
Copy   == Shape(3, 0, 0, 0, <<1, 2, 3>>, {})
CopyReturnData == Shape(3, 1, 0, 0, <<1, 2, 3, 4>>, {4})
CopyOfAccount  == Shape(4, 0, 0, 0, <<1, 2, 3, 4>>, {})

(* Only the region is given back, the topics are not. *)
Log(op) == Shape(2 + Topics[op], 0, 0, 0, <<1, 2>>, {})

(* Of an account without code; with code the caller panics. *)
DelegateCall == { Shape(5, 1, 0, 6, <<1, 2, 3, 4, 5>>, {6}) }

Shapes(op, byZero) ==
  CASE op \in {"SDIV", "SMOD"} -> IF byZero THEN SignedByZero ELSE Signed
    [] op = "DIV"        -> {IF byZero THEN Zero(InSecond) ELSE InSecond}
    [] op = "MOD"        -> {IF byZero THEN Zero(InFirst) ELSE InFirst}
    [] op \in Modular    -> {IF byZero THEN Zero(AddModulo) ELSE AddModulo}
    [] op = "AND"        -> {InFirst}
    [] op = "EXP"        -> {Power}
    [] op = "SIGNEXTEND" -> SignExtend
    [] op = "SAR"        -> Sar
    [] op = "BLAKE2B"    -> {HashOf}
    [] op = "BALANCE"    -> Balance
    [] op \in {"ADD", "MUL", "SUB", "LT", "GT", "SLT", "SGT", "EQ", "OR", "XOR", "BYTE",
               "SHL", "SHR"} -> {InSecond}
    [] op = "CALLVALUE"  -> {CallValue}
    [] op \in Sources \ {"CALLVALUE"} -> {Get}
    [] op = "CALLDATALOAD" -> {CallDataLoad}
    [] op = "BLOCKHASH"  -> BlockHash
    [] op = "MLOAD"      -> {Load}
    [] op \in {"ISZERO", "NOT", "EXTCODESIZE", "EXTCODEHASH", "SLOAD"} -> {InPlace}
    [] op \in NoOperands -> {Shape(0, 0, 0, 0, <<>>, {})}
    [] op \in {"POP", "JUMP"} -> {Shape(1, 0, 0, 0, <<1>>, {})}
    [] op = "MSTORE8"    -> {Shape(2, 0, 0, 0, <<>>, {})}
    [] op \in {"MSTORE", "SSTORE", "JUMPI", "RETURN", "REVERT"} ->
         {Shape(2, 0, 0, 0, <<1, 2>>, {})}
    [] op = "RETURNDATACOPY" -> {CopyReturnData}
    [] op \in {"CALLDATACOPY", "CODECOPY"} -> {Copy}
    [] op = "EXTCODECOPY" -> {CopyOfAccount}
    [] op \in LogOps     -> {Log(op)}
    [] op = "DELEGATECALL" -> DelegateCall

-----------------------------------------------------------------------------
At(n) == stack[Len(stack) + 1 - n]

(* makeStackFunc *)
ValidMutant(in, out) == in <= Len(stack)

Valid(in, out) == in <= Len(stack) /\ Len(stack) + out - in <= StackLimit

DivisorIsZero(op) == \E n \in Divisors(op) : val[At(n)] = 0

(* The k-th integer of an instruction of shape s.  An integer got from an   *)
(* empty pool is new.                                                      *)
Operand(s, f, k) ==
  LET g == k - s.pop
  IN  IF g <= 0 THEN At(k)
      ELSE IF g <= Least(s.got, Len(pool)) THEN pool[Len(pool) + 1 - g]
      ELSE IF g <= s.got + s.new THEN made + g
      ELSE f

(* intPool.put tests the limit once, for the whole batch. *)
PutMutant(p, batch) == p \o batch

Put(p, batch) == IF Len(p) > PoolLimit THEN p ELSE p \o batch

(* The instruction takes way s; f is the foreign integer, if it is given one. *)
Takes(s, f, dropped) ==
  LET used    == Len(stack) - s.pop
      rest    == FirstOf(stack, used)
      batch   == [i \in 1..Len(s.puts) |-> Operand(s, f, s.puts[i])]
      written == {Operand(s, f, k) : k \in s.writes}
  IN  /\ stack' = IF dropped THEN <<>>
                  ELSE IF s.out = 0 THEN rest
                  ELSE Append(rest, Operand(s, f, s.out))
      /\ pool' = Put(FirstOf(pool, Len(pool) - Least(s.got, Len(pool))), batch)
      /\ \E v \in [written -> Word] :
           /\ s.zero => v[Operand(s, f, s.out)] = 0
           /\ val' = [i \in Elements(stack') |-> IF i \in written THEN v[i] ELSE val[i]]
      /\ made' = made + s.got + s.new
      /\ foreign' = foreign + s.ext

Exec(op) ==
  /\ Valid(StackIn(op), StackOut(op))
  /\ \E s \in Shapes(op, DivisorIsZero(op)) :
       /\ foreign + s.ext <= ForeignLimit
       /\ \E f \in IF s.ext = 0 THEN {0} ELSE Foreign : Takes(s, f, op \in Halting)
  /\ last' = op

(* st.push(pool.get().Set(st.data[st.len()-n])) *)
Dup(n) ==
  /\ Valid(n, n + 1)
  /\ LET copy == Operand(Get, 0, 1)
     IN  /\ stack' = Append(stack, copy)
         /\ val' = [i \in Elements(stack') |-> IF i = copy THEN val[At(n)] ELSE val[i]]
  /\ pool' = FirstOf(pool, Len(pool) - Least(1, Len(pool)))
  /\ made' = made + 1
  /\ last' = "DUP"
  /\ UNCHANGED foreign

Swap(n) ==
  /\ Valid(n + 1, n + 1)
  /\ stack' = [stack EXCEPT ![Len(stack)] = At(n + 1), ![Len(stack) - n] = At(1)]
  /\ last' = "SWAP"
  /\ UNCHANGED <<pool, val, made, foreign>>

(* The run ends, by an error or because it is cancelled, and the next one  *)
(* that is given this pool starts: poolOfIntPools keeps it for any VM.     *)
NextRun ==
  /\ stack' = <<>> /\ val' = <<>> /\ last' = "none"
  /\ UNCHANGED <<pool, made, foreign>>

(* The next run is given another pool, one that is empty. *)
NewPool ==
  /\ stack' = <<>> /\ val' = <<>> /\ pool' = <<>> /\ foreign' = 0 /\ last' = "none"
  /\ UNCHANGED made

Next == \/ \E op \in Ops : Exec(op)
        \/ \E n \in 1..16 : Dup(n) \/ Swap(n)
        \/ NextRun
        \/ NewPool

Spec == Init /\ [][Next]_vars

-----------------------------------------------------------------------------
(* Every variable has its type: the stack keeps its limit, and holds and   *)
(* knows the value of integers that somebody has allocated.                *)
TypeOK ==
  /\ stack \in Seq(Foreign \cup 1..made) /\ Len(stack) <= StackLimit
  /\ pool \in Seq(Foreign \cup 1..made)
  /\ val \in [Elements(stack) -> Word]
  /\ made \in Nat /\ foreign \in 0..ForeignLimit

(* An integer that is on the stack is on it once and is not in the pool,   *)
(* and what is in the pool is there once, so that nobody is handed an      *)
(* integer another word of the stack still lives in.  Whatever else is     *)
(* shared with the transaction and the database, the integers of this      *)
(* package keep this.                                                      *)
NoAlias ==
  /\ \A i, j \in DOMAIN stack : stack[i] = stack[j] /\ stack[i] > 0 => i = j
  /\ \A i, j \in DOMAIN pool : pool[i] = pool[j] /\ pool[i] > 0 => i = j
  /\ \A i \in DOMAIN stack, j \in DOMAIN pool : stack[i] = pool[j] => stack[i] < 0

(* The most integers one call of put gives back: those of DELEGATECALL. *)
LargestBatch == 5

(* The pool outgrows poolLimit by at most one batch (intpool.go:41). *)
PoolBounded == Len(pool) <= PoolLimit + LargestBatch

(* makeStackFunc lets an instruction start only if the words it pops are   *)
(* there, on whichever way through it.                                     *)
NoUnderflow ==
  \A op \in Ops, byZero \in BOOLEAN :
    Valid(StackIn(op), StackOut(op)) =>
      \A s \in Shapes(op, byZero) : s.pop <= Len(stack)

(* The inductive invariant: who has never pushed an integer of somebody     *)
(* else's has none.                                                        *)
OwnOnly == foreign = 0 => /\ \A i \in DOMAIN stack : stack[i] > 0
                          /\ \A i \in DOMAIN pool : pool[i] > 0

IInv == TypeOK /\ NoAlias /\ PoolBounded /\ OwnOnly

(* As long as nobody else's integer was pushed, the pointers are as good   *)
(* as words: an instruction changes no word but its operands, and the      *)
(* integers the pool hands out do not show what they were.                 *)
WordsOf == IF foreign > 0 THEN <<>> ELSE [i \in 1..Len(stack) |-> val[stack[i]]]
LastOf  == IF foreign > 0 THEN "none" ELSE last

Words == INSTANCE WordStack WITH words <- WordsOf, last <- LastOf

Implements == Words!Spec
=============================================================================
