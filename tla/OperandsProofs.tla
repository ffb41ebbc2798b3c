-------------------------- MODULE OperandsProofs --------------------------
(* Proofs about Operands, for any limits, any values and any integers of   *)
(* others.                                                                 *)
EXTENDS Operands, SequenceTheorems, TLAPS

(* How many integers an instruction that goes way s works with. *)
Count(s) == s.pop + s.got + s.new + s.ext

(* A way through an instruction is well formed: it numbers its integers    *)
(* right, gives back each at most once and not the one it pushes, and      *)
(* knows the value of what it pushes.                                      *)
WellFormedShape(s) ==
  /\ s.pop \in Nat /\ s.got \in Nat /\ s.new \in Nat /\ s.ext \in {0, 1}
  /\ s.out \in 0..Count(s)
  /\ s.puts \in Seq(1..Count(s)) /\ Len(s.puts) <= LargestBatch
  /\ \A i \in 1..Len(s.puts) : s.puts[i] # s.out
  /\ \A i, j \in 1..Len(s.puts) : s.puts[i] = s.puts[j] => i = j
  /\ s.writes \subseteq 1..Count(s)
  /\ s.out <= s.pop \/ s.out \in s.writes
  /\ s.zero \in BOOLEAN

(* It pops and pushes what the table declares, and its result is zero when *)
(* the divisor is.                                                         *)
Declared(op, byZero, s) ==
  /\ s.pop = StackIn(op)
  /\ IF StackOut(op) = 1 THEN s.out # 0 ELSE s.out = 0
  /\ byZero /\ Divisors(op) # {} => s.zero /\ s.out \in s.writes

(* Every way there is, is well formed. *)
LEMMA SingleShapes ==
  /\ WellFormedShape(InSecond) /\ WellFormedShape(Zero(InSecond))
  /\ WellFormedShape(InFirst) /\ WellFormedShape(Zero(InFirst))
  /\ WellFormedShape(AddModulo) /\ WellFormedShape(Zero(AddModulo))
  /\ WellFormedShape(Power) /\ WellFormedShape(InPlace) /\ WellFormedShape(Get)
  /\ WellFormedShape(CallDataLoad) /\ WellFormedShape(CallValue)
  /\ WellFormedShape(HashOf) /\ WellFormedShape(Load) /\ WellFormedShape(Copy)
  /\ WellFormedShape(CopyReturnData) /\ WellFormedShape(CopyOfAccount)
  /\ WellFormedShape(Shape(0, 0, 0, 0, <<>>, {})) /\ WellFormedShape(Shape(1, 0, 0, 0, <<1>>, {}))
  /\ WellFormedShape(Shape(2, 0, 0, 0, <<>>, {}))
  /\ WellFormedShape(Shape(2, 0, 0, 0, <<1, 2>>, {}))
  <1> USE DEF WellFormedShape, Count, Shape, LargestBatch, Zero, Given
  <1>1. WellFormedShape(InSecond)
    BY DEF InSecond
  <1>2. WellFormedShape(Zero(InSecond))
    BY DEF InSecond
  <1>3. WellFormedShape(InFirst)
    BY DEF InFirst
  <1>4. WellFormedShape(Zero(InFirst))
    BY DEF InFirst
  <1>5. WellFormedShape(AddModulo)
    BY DEF AddModulo
  <1>6. WellFormedShape(Zero(AddModulo))
    BY DEF AddModulo
  <1>7. WellFormedShape(Power)
    BY DEF Power
  <1>8. WellFormedShape(InPlace)
    BY DEF InPlace
  <1>9. WellFormedShape(Get)
    BY DEF Get
  <1>10. WellFormedShape(CallDataLoad)
    BY DEF CallDataLoad
  <1>11. WellFormedShape(CallValue)
    BY DEF CallValue
  <1>12. WellFormedShape(HashOf)
    BY DEF HashOf
  <1>13. WellFormedShape(Load)
    BY DEF Load
  <1>14. WellFormedShape(Copy)
    BY DEF Copy
  <1>15. WellFormedShape(CopyReturnData)
    BY DEF CopyReturnData
  <1>16. WellFormedShape(CopyOfAccount)
    BY DEF CopyOfAccount
  <1>17. WellFormedShape(Shape(0, 0, 0, 0, <<>>, {}))
    OBVIOUS
  <1>18. WellFormedShape(Shape(1, 0, 0, 0, <<1>>, {}))
    OBVIOUS
  <1>19. WellFormedShape(Shape(2, 0, 0, 0, <<>>, {}))
    OBVIOUS
  <1>20. WellFormedShape(Shape(2, 0, 0, 0, <<1, 2>>, {}))
    OBVIOUS
  <1> HIDE DEF WellFormedShape, Count, Shape, Zero, Given
  <1> QED
    BY <1>1, <1>2, <1>3, <1>4, <1>5, <1>6, <1>7, <1>8, <1>9, <1>10,
       <1>11, <1>12, <1>13, <1>14, <1>15, <1>16, <1>17, <1>18, <1>19, <1>20

(* So is every way through an instruction that has several. *)
LEMMA SeveralShapes ==
  /\ \A s \in Signed : WellFormedShape(s) /\ WellFormedShape(Zero(s))
  /\ \A s \in SignExtend : WellFormedShape(s)
  /\ \A s \in Sar : WellFormedShape(s)
  /\ \A s \in BlockHash : WellFormedShape(s)
  /\ \A s \in Balance : WellFormedShape(s)
  /\ \A s \in DelegateCall : WellFormedShape(s)
  <1>1. \A s \in Signed : WellFormedShape(s) /\ WellFormedShape(Zero(s))
    <2>1. WellFormedShape(Shape(2, 1, 0, 3, <<1, 2>>, {1, 2, 3}))
      BY DEF WellFormedShape, Count, Shape, LargestBatch, Zero, Given
    <2>2. WellFormedShape(Shape(2, 1, 1, 3, <<4, 2>>, {2, 3, 4}))
      BY DEF WellFormedShape, Count, Shape, LargestBatch, Zero, Given
    <2>3. WellFormedShape(Shape(2, 1, 1, 3, <<1, 4>>, {1, 3, 4}))
      BY DEF WellFormedShape, Count, Shape, LargestBatch, Zero, Given
    <2>4. WellFormedShape(Shape(2, 1, 2, 3, <<4, 5>>, {3, 4, 5}))
      BY DEF WellFormedShape, Count, Shape, LargestBatch, Zero, Given
    <2>5. WellFormedShape(Zero(Shape(2, 1, 0, 3, <<1, 2>>, {1, 2, 3})))
      BY DEF WellFormedShape, Count, Shape, LargestBatch, Zero, Given
    <2>6. WellFormedShape(Zero(Shape(2, 1, 1, 3, <<4, 2>>, {2, 3, 4})))
      BY DEF WellFormedShape, Count, Shape, LargestBatch, Zero, Given
    <2>7. WellFormedShape(Zero(Shape(2, 1, 1, 3, <<1, 4>>, {1, 3, 4})))
      BY DEF WellFormedShape, Count, Shape, LargestBatch, Zero, Given
    <2>8. WellFormedShape(Zero(Shape(2, 1, 2, 3, <<4, 5>>, {3, 4, 5})))
      BY DEF WellFormedShape, Count, Shape, LargestBatch, Zero, Given
    <2> QED
      BY <2>1, <2>2, <2>3, <2>4, <2>5, <2>6, <2>7, <2>8 DEF Signed
  <1>2. \A s \in SignExtend : WellFormedShape(s)
    <2>1. WellFormedShape(Shape(2, 0, 0, 2, <<1>>, {1, 2}))
      BY DEF WellFormedShape, Count, Shape, LargestBatch, Zero, Given
    <2>2. WellFormedShape(Shape(2, 0, 0, 2, <<1>>, {}))
      BY DEF WellFormedShape, Count, Shape, LargestBatch, Zero, Given
    <2> QED
      BY <2>1, <2>2 DEF SignExtend
  <1>3. \A s \in Sar : WellFormedShape(s)
    <2>1. WellFormedShape(Shape(2, 0, 0, 2, <<1>>, {2}))
      BY DEF WellFormedShape, Count, Shape, LargestBatch, Zero, Given
    <2>2. WellFormedShape(Shape(2, 0, 1, 3, <<1>>, {3}))
      BY DEF WellFormedShape, Count, Shape, LargestBatch, Zero, Given
    <2> QED
      BY <2>1, <2>2 DEF Sar
  <1>4. \A s \in BlockHash : WellFormedShape(s)
    <2>1. WellFormedShape(Shape(1, 1, 1, 3, <<1, 2>>, {2, 3}))
      BY DEF WellFormedShape, Count, Shape, LargestBatch, Zero, Given
    <2>2. WellFormedShape(Zero(Shape(1, 2, 0, 3, <<1, 2>>, {2, 3})))
      BY DEF WellFormedShape, Count, Shape, LargestBatch, Zero, Given
    <2> QED
      BY <2>1, <2>2 DEF BlockHash
  <1>5. \A s \in Balance : WellFormedShape(s)
    <2>1. WellFormedShape(Given(Shape(2, 0, 0, 3, <<1, 2>>, {3})))
      BY DEF WellFormedShape, Count, Shape, LargestBatch, Zero, Given
    <2>2. WellFormedShape(Shape(2, 0, 1, 3, <<1, 2>>, {3}))
      BY DEF WellFormedShape, Count, Shape, LargestBatch, Zero, Given
    <2> QED
      BY <2>1, <2>2 DEF Balance
  <1>6. \A s \in DelegateCall : WellFormedShape(s)
    <2>1. WellFormedShape(Shape(5, 1, 0, 6, <<1, 2, 3, 4, 5>>, {6}))
      BY DEF WellFormedShape, Count, Shape, LargestBatch, Zero, Given
    <2> QED
      BY <2>1 DEF DelegateCall
  <1> QED
    BY <1>1, <1>2, <1>3, <1>4, <1>5, <1>6

(* The ways through instructions with two operands and one result. *)
LEMMA BinaryShapes ==
  ASSUME NEW op \in Binary, NEW byZero \in BOOLEAN, NEW s \in Shapes(op, byZero)
  PROVE  WellFormedShape(s) /\ Declared(op, byZero, s)
  <1> USE DEF Count, Shape, LargestBatch
  <1>1. StackIn(op) = 2 /\ StackOut(op) = 1
    BY DEF StackIn, StackOut, NoOperands, Sources, Unary, Binary, Modular, Copies, Stores, LogOps
  <1>2. CASE op \in {"SDIV", "SMOD"}
    <2>1. Shapes(op, byZero) = IF byZero THEN SignedByZero ELSE Signed
      BY <1>2 DEF Shapes, NoOperands, Sources, Unary, Binary, Modular, Copies, Stores, LogOps
    <2>2. PICK t \in Signed : s = IF byZero THEN Zero(t) ELSE t
      BY <2>1 DEF SignedByZero
    <2>3. WellFormedShape(s)
      BY <2>2, SeveralShapes
    <2>4. Declared(op, byZero, s)
      BY <1>1, <2>2 DEF Declared, Signed, Zero
    <2> QED
      BY <2>3, <2>4
  <1>3. CASE op = "DIV"
    <2>1. Shapes(op, byZero) = {IF byZero THEN Zero(InSecond) ELSE InSecond}
      BY <1>3 DEF Shapes, NoOperands, Sources, Unary, Binary, Modular, Copies, Stores, LogOps
    <2>2. WellFormedShape(s)
      BY <2>1, SingleShapes
    <2>3. Declared(op, byZero, s)
      BY <1>1, <2>1 DEF Declared, InSecond, Zero
    <2> QED
      BY <2>2, <2>3
  <1>4. CASE op = "MOD"
    <2>1. Shapes(op, byZero) = {IF byZero THEN Zero(InFirst) ELSE InFirst}
      BY <1>4 DEF Shapes, NoOperands, Sources, Unary, Binary, Modular, Copies, Stores, LogOps
    <2>2. WellFormedShape(s)
      BY <2>1, SingleShapes
    <2>3. Declared(op, byZero, s)
      BY <1>1, <2>1 DEF Declared, InFirst, Zero
    <2> QED
      BY <2>2, <2>3
  <1>5. CASE op \in Binary \ {"SDIV", "SMOD", "DIV", "MOD"}
    <2>1. Divisors(op) = {}
      BY <1>5, SMTT(30) DEF Divisors, NoOperands, Sources, Unary, Binary, Modular, Copies, Stores, LogOps
    <2>2. \/ Shapes(op, byZero) = {InSecond}
          \/ Shapes(op, byZero) = {InFirst}
          \/ Shapes(op, byZero) = {Power}
          \/ Shapes(op, byZero) = SignExtend
          \/ Shapes(op, byZero) = Sar
          \/ Shapes(op, byZero) = {HashOf}
          \/ Shapes(op, byZero) = Balance
      BY <1>5 DEF Shapes, NoOperands, Sources, Unary, Binary, Modular, Copies, Stores, LogOps
    <2>3. WellFormedShape(s)
      BY <2>2, SeveralShapes, SingleShapes
    <2>4. Declared(op, byZero, s)
      BY <1>1, <2>1, <2>2 DEF Declared, InSecond, InFirst, Power, SignExtend, Sar, HashOf, Balance, Given
    <2> QED
      BY <2>3, <2>4
  <1> QED
    BY <1>2, <1>3, <1>4, <1>5

(* The ways through all other instructions. *)
LEMMA OtherShapes ==
  ASSUME NEW op \in Ops \ Binary, NEW byZero \in BOOLEAN, NEW s \in Shapes(op, byZero)
  PROVE  WellFormedShape(s) /\ Declared(op, byZero, s)
  <1> USE DEF Count, Shape, LargestBatch
  <1>1. CASE op \in Modular
    <2>1. StackIn(op) = 3 /\ StackOut(op) = 1
      BY <1>1 DEF StackIn, StackOut, NoOperands, Sources, Unary, Binary, Modular, Copies, Stores, LogOps
    <2>2. Shapes(op, byZero) = {IF byZero THEN Zero(AddModulo) ELSE AddModulo}
      BY <1>1 DEF Shapes, NoOperands, Sources, Unary, Binary, Modular, Copies, Stores, LogOps
    <2>3. WellFormedShape(s)
      BY <2>2, SingleShapes
    <2>4. Declared(op, byZero, s)
      BY <2>1, <2>2 DEF Declared, AddModulo, Zero
    <2> QED
      BY <2>3, <2>4
  <1>2. ASSUME op \notin Modular
        PROVE  Divisors(op) = {}
    BY <1>2 DEF Divisors, NoOperands, Sources, Unary, Binary, Modular, Copies, Stores, LogOps
  <1>3. CASE op \in Sources
    <2>1. StackIn(op) = 0 /\ StackOut(op) = 1 /\ op \notin Modular
      BY <1>3 DEF StackIn, StackOut, NoOperands, Sources, Unary, Binary, Modular, Copies, Stores, LogOps
    <2>2. Shapes(op, byZero) = {CallValue} \/ Shapes(op, byZero) = {Get}
      BY <1>3 DEF Shapes, NoOperands, Sources, Unary, Binary, Modular, Copies, Stores, LogOps
    <2>3. WellFormedShape(s)
      BY <2>2, SingleShapes
    <2>4. Declared(op, byZero, s)
      BY <1>2, <2>1, <2>2 DEF Declared, CallValue, Given, Get
    <2> QED
      BY <2>3, <2>4
  <1>4. CASE op \in Unary
    <2>1. StackIn(op) = 1 /\ StackOut(op) = 1 /\ op \notin Modular
      BY <1>4 DEF StackIn, StackOut, NoOperands, Sources, Unary, Binary, Modular, Copies, Stores, LogOps
    <2>2. \/ Shapes(op, byZero) = {CallDataLoad}
          \/ Shapes(op, byZero) = BlockHash
          \/ Shapes(op, byZero) = {Load}
          \/ Shapes(op, byZero) = {InPlace}
      BY <1>4 DEF Shapes, NoOperands, Sources, Unary, Binary, Modular, Copies, Stores, LogOps
    <2>3. WellFormedShape(s)
      BY <2>2, SeveralShapes, SingleShapes
    <2>4. Declared(op, byZero, s)
      BY <1>2, <2>1, <2>2 DEF Declared, CallDataLoad, BlockHash, Load, InPlace, Zero
    <2> QED
      BY <2>3, <2>4
  <1>5. CASE op \in NoOperands
    <2>1. StackIn(op) = 0 /\ StackOut(op) = 0 /\ op \notin Modular
      BY <1>5 DEF StackIn, StackOut, NoOperands, Sources, Unary, Binary, Modular, Copies, Stores, LogOps
    <2>2. Shapes(op, byZero) = {Shape(0, 0, 0, 0, <<>>, {})}
      BY <1>5 DEF Shapes, NoOperands, Sources, Unary, Binary, Modular, Copies, Stores, LogOps
    <2>3. WellFormedShape(s)
      BY <2>2, SingleShapes
    <2>4. Declared(op, byZero, s)
      BY <1>2, <2>1, <2>2 DEF Declared
    <2> QED
      BY <2>3, <2>4
  <1>6. CASE op \in {"POP", "JUMP"}
    <2>1. StackIn(op) = 1 /\ StackOut(op) = 0 /\ op \notin Modular
      BY <1>6 DEF StackIn, StackOut, NoOperands, Sources, Unary, Binary, Modular, Copies, Stores, LogOps
    <2>2. Shapes(op, byZero) = {Shape(1, 0, 0, 0, <<1>>, {})}
      BY <1>6 DEF Shapes, NoOperands, Sources, Unary, Binary, Modular, Copies, Stores, LogOps
    <2>3. WellFormedShape(s)
      BY <2>2, SingleShapes
    <2>4. Declared(op, byZero, s)
      BY <1>2, <2>1, <2>2 DEF Declared
    <2> QED
      BY <2>3, <2>4
  <1>7. CASE op \in Stores \cup {"RETURN", "REVERT"}
    <2>1. StackIn(op) = 2 /\ StackOut(op) = 0 /\ op \notin Modular
      BY <1>7 DEF StackIn, StackOut, NoOperands, Sources, Unary, Binary, Modular, Copies, Stores, LogOps
    <2>2. \/ Shapes(op, byZero) = {Shape(2, 0, 0, 0, <<>>, {})}
          \/ Shapes(op, byZero) = {Shape(2, 0, 0, 0, <<1, 2>>, {})}
      BY <1>7 DEF Shapes, NoOperands, Sources, Unary, Binary, Modular, Copies, Stores, LogOps
    <2>3. WellFormedShape(s)
      BY <2>2, SingleShapes
    <2>4. Declared(op, byZero, s)
      BY <1>2, <2>1, <2>2 DEF Declared
    <2> QED
      BY <2>3, <2>4
  <1>8. CASE op \in Copies
    <2>1. StackIn(op) = 3 /\ StackOut(op) = 0 /\ op \notin Modular
      BY <1>8 DEF StackIn, StackOut, NoOperands, Sources, Unary, Binary, Modular, Copies, Stores, LogOps
    <2>2. Shapes(op, byZero) = {CopyReturnData} \/ Shapes(op, byZero) = {Copy}
      BY <1>8 DEF Shapes, NoOperands, Sources, Unary, Binary, Modular, Copies, Stores, LogOps
    <2>3. WellFormedShape(s)
      BY <2>2, SingleShapes
    <2>4. Declared(op, byZero, s)
      BY <1>2, <2>1, <2>2 DEF Declared, CopyReturnData, Copy
    <2> QED
      BY <2>3, <2>4
  <1>9. CASE op = "EXTCODECOPY"
    <2>1. StackIn(op) = 4 /\ StackOut(op) = 0 /\ op \notin Modular
      BY <1>9 DEF StackIn, StackOut, NoOperands, Sources, Unary, Binary, Modular, Copies, Stores, LogOps
    <2>2. Shapes(op, byZero) = {CopyOfAccount}
      BY <1>9 DEF Shapes, NoOperands, Sources, Unary, Binary, Modular, Copies, Stores, LogOps
    <2>3. WellFormedShape(s)
      BY <2>2, SingleShapes
    <2>4. Declared(op, byZero, s)
      BY <1>2, <2>1, <2>2 DEF Declared, CopyOfAccount
    <2> QED
      BY <2>3, <2>4
  <1>10. CASE op = "DELEGATECALL"
    <2>1. StackIn(op) = 5 /\ StackOut(op) = 1 /\ op \notin Modular
      BY <1>10 DEF StackIn, StackOut, NoOperands, Sources, Unary, Binary, Modular, Copies, Stores, LogOps
    <2>2. Shapes(op, byZero) = DelegateCall
      BY <1>10 DEF Shapes, NoOperands, Sources, Unary, Binary, Modular, Copies, Stores, LogOps
    <2>3. WellFormedShape(s)
      BY <2>2, SeveralShapes
    <2>4. Declared(op, byZero, s)
      BY <1>2, <2>1, <2>2 DEF Declared, DelegateCall
    <2> QED
      BY <2>3, <2>4
  <1>11. CASE op \in LogOps
    <2>1. Topics[op] \in 0..4
      BY <1>11 DEF LogOps, Topics
    <2>2. StackIn(op) = 2 + Topics[op] /\ StackOut(op) = 0 /\ op \notin Modular
      BY <1>11 DEF StackIn, StackOut, NoOperands, Sources, Unary, Binary, Modular, Copies, Stores, LogOps
    <2>3. Shapes(op, byZero) = {Log(op)}
      BY <1>11 DEF Shapes, NoOperands, Sources, Unary, Binary, Modular, Copies, Stores, LogOps
    <2>4. WellFormedShape(Log(op))
      BY <2>1 DEF Log, WellFormedShape
    <2>5. WellFormedShape(s)
      BY <2>3, <2>4
    <2>6. Declared(op, byZero, s)
      BY <1>2, <2>1, <2>2, <2>3 DEF Declared, Log
    <2> QED
      BY <2>5, <2>6
  <1> QED
    BY <1>1, <1>3, <1>4, <1>5, <1>6, <1>7, <1>8, <1>9, <1>10, <1>11
       DEF Ops, Halting, NoOperands

(* Every way through every instruction. *)
LEMMA TableIsSound ==
  ASSUME NEW op \in Ops, NEW byZero \in BOOLEAN, NEW s \in Shapes(op, byZero)
  PROVE  WellFormedShape(s) /\ Declared(op, byZero, s)
  BY BinaryShapes, OtherShapes

-----------------------------------------------------------------------------
(* Sequences. *)

(* The first n elements. *)
LEMMA FirstOfParts ==
  ASSUME NEW S, NEW seq \in Seq(S), NEW n \in 0..Len(seq)
  PROVE  /\ FirstOf(seq, n) \in Seq(S) /\ Len(FirstOf(seq, n)) = n
         /\ \A i \in 1..n : FirstOf(seq, n)[i] = seq[i]
  <1>1. n \in Int /\ n >= 0 /\ Len(seq) \in Nat /\ \A i \in 1..n : seq[i] \in S
    OBVIOUS
  <1>2. /\ SubSeq(seq, 1, n) \in Seq(S)
        /\ Len(SubSeq(seq, 1, n)) = IF 1 <= n THEN n - 1 + 1 ELSE 0
        /\ \A i \in 1..(n - 1 + 1) : SubSeq(seq, 1, n)[i] = seq[1 + i - 1]
    BY ONLY <1>1, SubSeqProperties
  <1>3. Len(SubSeq(seq, 1, n)) = n
    BY <1>1, <1>2
  <1>4. ASSUME NEW i \in 1..n
        PROVE  SubSeq(seq, 1, n)[i] = seq[i]
    <2>1. i \in 1..(n - 1 + 1) /\ 1 + i - 1 = i
      BY <1>1
    <2> QED
      BY <1>2, <2>1
  <1> QED
    BY <1>2, <1>3, <1>4 DEF FirstOf

(* One sequence after the other. *)
LEMMA ConcatParts ==
  ASSUME NEW S, NEW a \in Seq(S), NEW b \in Seq(S)
  PROVE  /\ a \o b \in Seq(S) /\ Len(a \o b) = Len(a) + Len(b)
         /\ \A i \in 1..Len(a) : (a \o b)[i] = a[i]
         /\ \A i \in 1..(Len(a) + Len(b)) : i > Len(a) => (a \o b)[i] = b[i - Len(a)]
  OBVIOUS

-----------------------------------------------------------------------------
(* The integers an instruction works with. *)

(* They are all different ones, as far as they are this package's, and     *)
(* different from those that stay on the stack and in the pool.            *)
LEMMA OperandsDiffer ==
  ASSUME TypeOK, NoAlias, NEW s, WellFormedShape(s), s.pop <= Len(stack),
         NEW f, IF s.ext = 0 THEN f = 0 ELSE f \in Foreign
  PROVE  /\ \A k \in 1..Count(s) : Operand(s, f, k) \in Foreign \cup 1..(made + s.got + s.new)
         /\ \A k, l \in 1..Count(s) :
              Operand(s, f, k) = Operand(s, f, l) /\ Operand(s, f, k) > 0 => k = l
         /\ \A k \in 1..Count(s), i \in 1..(Len(stack) - s.pop) :
              Operand(s, f, k) = stack[i] => stack[i] < 0
         /\ \A k \in 1..Count(s), j \in 1..(Len(pool) - Least(s.got, Len(pool))) :
              Operand(s, f, k) = pool[j] => pool[j] < 0
  <1> DEFINE g == Least(s.got, Len(pool))
             O(k) == Operand(s, f, k)
  <1>1. /\ s.pop \in Nat /\ s.got \in Nat /\ s.new \in Nat /\ s.ext \in {0, 1}
        /\ Count(s) = s.pop + s.got + s.new + s.ext
        /\ Len(stack) \in Nat /\ Len(pool) \in Nat /\ made \in Nat
    BY DEF WellFormedShape, Count, TypeOK
  <1>2. g \in Int /\ 0 <= g /\ g <= s.got /\ g <= Len(pool)
    BY <1>1 DEF Least
  <1>3. /\ \A i \in 1..Len(stack) : stack[i] \in Foreign \cup 1..made
        /\ \A i \in 1..Len(pool) : pool[i] \in Foreign \cup 1..made
        /\ \A f1 \in Foreign : f1 \in Int /\ f1 < 0
    BY ForeignAssumption DEF TypeOK
  <1>4. /\ \A i, j \in 1..Len(stack) : stack[i] = stack[j] /\ stack[i] > 0 => i = j
        /\ \A i, j \in 1..Len(pool) : pool[i] = pool[j] /\ pool[i] > 0 => i = j
        /\ \A i \in 1..Len(stack), j \in 1..Len(pool) : stack[i] = pool[j] => stack[i] < 0
    BY DEF TypeOK, NoAlias
  <1>5. ASSUME NEW k \in 1..Count(s)
        PROVE  \/ k <= s.pop /\ O(k) = stack[Len(stack) + 1 - k]
               \/ /\ k > s.pop /\ k - s.pop <= g
                  /\ O(k) = pool[Len(pool) + 1 - (k - s.pop)]
               \/ /\ k - s.pop > g /\ k - s.pop <= s.got + s.new
                  /\ O(k) = made + (k - s.pop)
               \/ k = s.pop + s.got + s.new + 1 /\ s.ext = 1 /\ O(k) = f /\ f \in Foreign
    <2>1. O(k) = IF k - s.pop <= 0 THEN stack[Len(stack) + 1 - k]
                 ELSE IF k - s.pop <= g THEN pool[Len(pool) + 1 - (k - s.pop)]
                 ELSE IF k - s.pop <= s.got + s.new THEN made + (k - s.pop)
                 ELSE f
      BY DEF Operand, At
    <2>2. s.ext = 1 => f \in Foreign
      BY <1>1
    <2> HIDE DEF g, O
    <2>3. /\ k \in Int /\ k >= 1 /\ k <= s.pop + s.got + s.new + s.ext
          /\ s.pop \in Int /\ s.got \in Int /\ s.new \in Int /\ s.ext \in {0, 1}
      BY <1>1
    <2>4. k - s.pop > s.got + s.new => k = s.pop + s.got + s.new + 1 /\ s.ext = 1
      BY ONLY <2>3
    <2>5. CASE k - s.pop <= g
      BY ONLY <1>2, <2>1, <2>3, <2>5
    <2>6. CASE k - s.pop > g
      BY ONLY <1>2, <2>1, <2>2, <2>3, <2>4, <2>6
    <2> QED
      BY <1>2, <2>3, <2>5, <2>6
  <1> HIDE DEF g, O
  <1> DEFINE StackCase(k) == k <= s.pop /\ O(k) = stack[Len(stack) + 1 - k]
             PoolCase(k)  == /\ k > s.pop /\ k - s.pop <= g
                             /\ O(k) = pool[Len(pool) + 1 - (k - s.pop)]
             NewCase(k)   == /\ k - s.pop > g /\ k - s.pop <= s.got + s.new
                             /\ O(k) = made + (k - s.pop)
             ExtCase(k)   == k = s.pop + s.got + s.new + 1 /\ O(k) \in Foreign
  <1>6. ASSUME NEW k \in 1..Count(s)
        PROVE  k \in Int /\ k >= 1 /\ (StackCase(k) \/ PoolCase(k) \/ NewCase(k) \/ ExtCase(k))
    BY <1>1, <1>5
  <1>7. ASSUME NEW k \in 1..Count(s)
        PROVE  /\ StackCase(k) => O(k) \in Foreign \cup 1..made
               /\ PoolCase(k)  => O(k) \in Foreign \cup 1..made
               /\ NewCase(k)   => O(k) \in (made + 1)..(made + s.got + s.new)
               /\ ExtCase(k)   => O(k) \in Int /\ O(k) < 0
               /\ StackCase(k) => Len(stack) + 1 - k \in 1..Len(stack)
               /\ PoolCase(k)  => Len(pool) + 1 - (k - s.pop) \in 1..Len(pool)
    <2>1. k \in Int /\ k >= 1
      BY <1>6
    <2>2. StackCase(k) => Len(stack) + 1 - k \in 1..Len(stack)
      <3>1. s.pop \in Int /\ s.pop <= Len(stack) /\ Len(stack) \in Int
        BY <1>1
      <3> QED
        BY ONLY <2>1, <3>1
    <2>0. s.pop \in Int /\ Len(pool) \in Int /\ g \in Int /\ g <= Len(pool) /\ k \in Int
      BY <1>1, <1>2, <2>1
    <2>3. PoolCase(k) => Len(pool) + 1 - (k - s.pop) \in 1..Len(pool)
      BY ONLY <2>0
    <2>4. StackCase(k) => O(k) \in Foreign \cup 1..made
      BY <1>3, <2>2
    <2>5. PoolCase(k) => O(k) \in Foreign \cup 1..made
      BY <1>3, <2>3
    <2>6. NewCase(k) => O(k) \in (made + 1)..(made + s.got + s.new)
      <3>1. /\ s.pop \in Int /\ s.got \in Int /\ s.new \in Int /\ made \in Int
            /\ g \in Int /\ 0 <= g
        BY <1>1, <1>2
      <3> QED
        BY ONLY <2>1, <3>1
    <2>7. ExtCase(k) => O(k) \in Int /\ O(k) < 0
      BY <1>3
    <2> QED
      BY <2>2, <2>3, <2>4, <2>5, <2>6, <2>7
  <1>8. ASSUME NEW k \in 1..Count(s)
        PROVE  O(k) \in Foreign \cup 1..(made + s.got + s.new)
    <2>1. 1..made \subseteq 1..(made + s.got + s.new)
      BY <1>1
    <2>2. (made + 1)..(made + s.got + s.new) \subseteq 1..(made + s.got + s.new)
      BY <1>1
    <2> QED
      BY <1>6, <1>7, <2>1, <2>2
  <1>9. ASSUME NEW k \in 1..Count(s), NEW l \in 1..Count(s), O(k) = O(l), O(k) > 0
        PROVE  k = l
    <2>1. k \in Int /\ l \in Int /\ k >= 1 /\ l >= 1
      BY <1>6
    <2>2. ~ExtCase(k) /\ ~ExtCase(l)
      BY <1>7, <1>9
    <2>3. ASSUME NEW m \in 1..Count(s), StackCase(m) \/ PoolCase(m), O(m) > 0
          PROVE  O(m) <= made
      BY <1>3, <1>7, <2>3
    <2>4. StackCase(k) /\ StackCase(l) => k = l
      <3>1. ASSUME StackCase(k), StackCase(l)
            PROVE  Len(stack) + 1 - k = Len(stack) + 1 - l
        <4>1. Len(stack) + 1 - k \in 1..Len(stack) /\ Len(stack) + 1 - l \in 1..Len(stack)
          BY <1>1, <2>1, <3>1
        <4> QED
          BY <1>4, <1>9, <3>1, <4>1
      <3> QED
        BY <1>1, <2>1, <3>1
    <2>5. PoolCase(k) /\ PoolCase(l) => k = l
      <3>1. ASSUME PoolCase(k), PoolCase(l)
            PROVE  Len(pool) + 1 - (k - s.pop) = Len(pool) + 1 - (l - s.pop)
        <4>1. Len(pool) + 1 - (k - s.pop) \in 1..Len(pool)
          BY <1>7, <3>1
        <4>2. Len(pool) + 1 - (l - s.pop) \in 1..Len(pool)
          BY <1>7, <3>1
        <4> QED
          BY <1>4, <1>9, <3>1, <4>1, <4>2
      <3> QED
        BY <1>1, <2>1, <3>1
    <2>6. NewCase(k) /\ NewCase(l) => k = l
      <3>1. NewCase(k) /\ NewCase(l) => made + (k - s.pop) = made + (l - s.pop)
        BY <1>9
      <3>2. made + (k - s.pop) = made + (l - s.pop) => k = l
        BY <1>1, <2>1
      <3> QED
        BY <3>1, <3>2
    <2>7. ASSUME NEW m \in 1..Count(s), NEW n \in 1..Count(s), StackCase(m), PoolCase(n)
          PROVE  O(m) # O(n) \/ O(m) < 0
      <3>1. m \in Int /\ n \in Int /\ m >= 1
        BY <1>6
      <3>2. Len(stack) + 1 - m \in 1..Len(stack)
        BY <1>1, <2>7, <3>1
      <3>3. Len(pool) + 1 - (n - s.pop) \in 1..Len(pool)
        BY <1>7, <2>7
      <3> QED
        BY <1>4, <2>7, <3>2, <3>3
    <2>8. ASSUME NEW m \in 1..Count(s), NewCase(m)
          PROVE  O(m) > made
      BY <1>1, <1>7, <2>8
    <2>9. O(k) \in Int /\ ~(O(k) < 0) /\ made \in Int
      BY <1>1, <1>3, <1>8, <1>9
    <2>10. ~(StackCase(k) /\ PoolCase(l)) /\ ~(PoolCase(k) /\ StackCase(l))
      BY <1>9, <2>7, <2>9
    <2>11. ~((StackCase(k) \/ PoolCase(k)) /\ NewCase(l))
      BY <1>9, <2>3, <2>8, <2>9
    <2>12. ~((StackCase(l) \/ PoolCase(l)) /\ NewCase(k))
      BY <1>9, <2>3, <2>8, <2>9
    <2> HIDE DEF StackCase, PoolCase, NewCase, ExtCase
    <2> QED
      BY <1>6, <2>2, <2>4, <2>5, <2>6, <2>10, <2>11, <2>12
  <1>10. ASSUME NEW k \in 1..Count(s), NEW i \in 1..(Len(stack) - s.pop), O(k) = stack[i]
         PROVE  stack[i] < 0
    <2>1. i \in 1..Len(stack) /\ k \in Int /\ k >= 1
      BY <1>1, <1>6
    <2>2. CASE StackCase(k)
      <3>1. Len(stack) + 1 - k \in 1..Len(stack) /\ Len(stack) + 1 - k # i
        BY <1>1, <2>1, <2>2
      <3>2. ~(stack[i] > 0)
        BY <1>4, <1>10, <2>1, <2>2, <3>1
      <3> QED
        BY <1>3, <1>1, <2>1, <3>2
    <2>3. CASE PoolCase(k)
      <3>1. Len(pool) + 1 - (k - s.pop) \in 1..Len(pool)
        BY <1>7, <2>3
      <3> QED
        BY <1>4, <1>10, <2>1, <2>3, <3>1
    <2>4. CASE NewCase(k)
      <3>1. O(k) \in Int /\ O(k) > made
        BY <1>1, <1>7, <2>4
      <3> QED
        BY <1>1, <1>3, <1>10, <2>1, <3>1
    <2>5. CASE ExtCase(k)
      BY <1>7, <1>10, <2>5
    <2> QED
      BY <1>6, <2>2, <2>3, <2>4, <2>5
  <1>11. ASSUME NEW k \in 1..Count(s), NEW j \in 1..(Len(pool) - g), O(k) = pool[j]
         PROVE  pool[j] < 0
    <2>1. j \in 1..Len(pool) /\ k \in Int /\ k >= 1
      BY <1>1, <1>2, <1>6
    <2>2. CASE StackCase(k)
      <3>1. Len(stack) + 1 - k \in 1..Len(stack)
        BY <1>7, <2>2
      <3> QED
        BY <1>4, <1>11, <2>1, <2>2, <3>1
    <2>3. CASE PoolCase(k)
      <3>1. Len(pool) + 1 - (k - s.pop) \in 1..Len(pool)
        BY <1>7, <2>3
      <3>2. Len(pool) + 1 - (k - s.pop) > Len(pool) - g
        <4>1. s.pop \in Int /\ g \in Int /\ Len(pool) \in Int /\ k - s.pop <= g /\ k \in Int
          BY <1>1, <1>2, <2>1, <2>3
        <4> QED
          BY ONLY <4>1
      <3>3. j <= Len(pool) - g
        BY <1>1, <1>2
      <3>4. Len(pool) + 1 - (k - s.pop) # j
        BY <1>1, <1>2, <2>1, <3>2, <3>3
      <3>5. ~(pool[j] > 0)
        BY <1>4, <1>11, <2>1, <2>3, <3>1, <3>4
      <3> QED
        BY <1>3, <1>1, <2>1, <3>5
    <2>4. CASE NewCase(k)
      <3>1. O(k) \in Int /\ O(k) > made
        BY <1>1, <1>7, <2>4
      <3> QED
        BY <1>1, <1>3, <1>11, <2>1, <3>1
    <2>5. CASE ExtCase(k)
      BY <1>7, <1>11, <2>5
    <2> QED
      BY <1>6, <2>2, <2>3, <2>4, <2>5
  <1> QED
    BY <1>8, <1>9, <1>10, <1>11 DEF g, O

-----------------------------------------------------------------------------
(* An instruction. *)

(* What the stack and the pool hold afterwards, place by place. *)
LEMMA TakesPlaces ==
  ASSUME TypeOK, PoolBounded, NoAlias, NEW s, WellFormedShape(s), s.pop <= Len(stack),
         Len(stack) - s.pop + (IF s.out = 0 THEN 0 ELSE 1) <= StackLimit,
         NEW f, IF s.ext = 0 THEN f = 0 ELSE f \in Foreign,
         NEW dropped \in BOOLEAN, Takes(s, f, dropped)
  PROVE  /\ made' = made + s.got + s.new /\ made' \in Nat
         /\ stack' \in Seq(Foreign \cup 1..made') /\ Len(stack') <= StackLimit
         /\ \A i \in 1..Len(stack') :
              \/ i \in 1..(Len(stack) - s.pop) /\ stack'[i] = stack[i]
              \/ /\ i = Len(stack) - s.pop + 1 /\ s.out \in 1..Count(s)
                 /\ stack'[i] = Operand(s, f, s.out)
         /\ pool' \in Seq(Foreign \cup 1..made') /\ Len(pool') <= PoolLimit + LargestBatch
         /\ \A j \in 1..Len(pool') :
              \/ j \in 1..(Len(pool) - Least(s.got, Len(pool))) /\ pool'[j] = pool[j]
              \/ \E m \in 1..Len(s.puts) :
                   /\ j = Len(pool) - Least(s.got, Len(pool)) + m
                   /\ pool'[j] = Operand(s, f, s.puts[m])
  <1> DEFINE g == Least(s.got, Len(pool))
             O(k) == Operand(s, f, k)
             T == Foreign \cup 1..made'
             used == Len(stack) - s.pop
             kept == Len(pool) - g
             rest == FirstOf(stack, used)
             keep == FirstOf(pool, kept)
             batch == [i \in 1..Len(s.puts) |-> O(s.puts[i])]
  <1>1. /\ s.pop \in Nat /\ s.got \in Nat /\ s.new \in Nat /\ s.out \in 0..Count(s)
        /\ Count(s) \in Nat /\ s.puts \in Seq(1..Count(s)) /\ Len(s.puts) \in Nat
        /\ Len(s.puts) <= LargestBatch /\ LargestBatch \in Int
        /\ Len(stack) \in Nat /\ Len(pool) \in Nat /\ made \in Nat
        /\ StackLimit \in Nat /\ PoolLimit \in Nat
    <2>1. /\ s.pop \in Nat /\ s.got \in Nat /\ s.new \in Nat /\ s.ext \in {0, 1}
          /\ s.out \in 0..Count(s) /\ s.puts \in Seq(1..Count(s))
          /\ Len(s.puts) <= LargestBatch
      BY DEF WellFormedShape
    <2>2. Count(s) \in Nat
      BY ONLY <2>1 DEF Count
    <2>3. Len(s.puts) \in Nat
      BY ONLY <2>1
    <2>4. stack \in Seq(Foreign \cup 1..made) /\ pool \in Seq(Foreign \cup 1..made) /\ made \in Nat
      BY DEF TypeOK
    <2>5. Len(stack) \in Nat /\ Len(pool) \in Nat
      BY ONLY <2>4
    <2> QED
      BY ONLY <2>1, <2>2, <2>3, <2>4, <2>5, LimitAssumption DEF LargestBatch
  <1>2. g \in Int /\ 0 <= g /\ g <= Len(pool)
    BY <1>1 DEF Least
  <1>3. made' = made + s.got + s.new /\ made' \in Nat /\ 1..made \subseteq 1..made'
    <2>1. made' = made + s.got + s.new
      BY DEF Takes
    <2>2. s.got \in Nat /\ s.new \in Nat /\ made \in Nat
      BY <1>1
    <2> QED
      BY ONLY <2>1, <2>2
  <1>4. stack \in Seq(T) /\ pool \in Seq(T)
    <2>1. Foreign \cup 1..made \subseteq T
      BY <1>3
    <2> HIDE DEF T
    <2> QED
      BY <2>1 DEF TypeOK
  <1>5. \A k \in 1..Count(s) : O(k) \in T
    BY <1>3, OperandsDiffer
  <1>6. used \in 0..Len(stack) /\ kept \in 0..Len(pool)
    <2> HIDE DEF g
    <2> QED
      BY <1>1, <1>2
  <1>7. /\ stack' = IF dropped THEN <<>> ELSE IF s.out = 0 THEN rest ELSE Append(rest, O(s.out))
        /\ pool' = IF Len(keep) > PoolLimit THEN keep ELSE keep \o batch
    BY DEF Takes, Put
  <1> HIDE DEF g, O, T, used, kept, rest, keep, batch
  <1>8. /\ rest \in Seq(T) /\ Len(rest) = used
        /\ \A i \in 1..used : rest[i] = stack[i]
    BY <1>4, <1>6, FirstOfParts DEF rest
  <1>9. /\ keep \in Seq(T) /\ Len(keep) = kept
        /\ \A j \in 1..kept : keep[j] = pool[j]
    BY <1>4, <1>6, FirstOfParts DEF keep
  <1>10. \A m \in 1..Len(s.puts) : s.puts[m] \in 1..Count(s)
    <2>1. s.puts \in Seq(1..Count(s))
      BY <1>1
    <2> DEFINE C == 1..Count(s)
    <2>2. s.puts \in Seq(C)
      BY ONLY <2>1
    <2> HIDE DEF C
    <2>3. \A m \in 1..Len(s.puts) : s.puts[m] \in C
      BY ONLY <2>2
    <2> QED
      BY ONLY <2>3 DEF C
  <1>11. /\ batch \in Seq(T) /\ Len(batch) = Len(s.puts)
         /\ \A m \in 1..Len(s.puts) : batch[m] = O(s.puts[m])
    BY ONLY <1>1, <1>5, <1>10 DEF batch
  <1>12. /\ stack' \in Seq(T) /\ Len(stack') <= StackLimit
         /\ \A i \in 1..Len(stack') :
              \/ i \in 1..used /\ stack'[i] = stack[i]
              \/ i = used + 1 /\ s.out \in 1..Count(s) /\ stack'[i] = O(s.out)
    <2>1. CASE dropped
      BY <1>1, <1>7, <2>1
    <2>2. CASE ~dropped /\ s.out = 0
      <3>1. used <= StackLimit
        BY <1>1, <2>2 DEF used
      <3> QED
        BY <1>7, <1>8, <2>2, <3>1
    <2>3. CASE ~dropped /\ s.out # 0
      <3>1. s.out \in 1..Count(s) /\ used + 1 <= StackLimit /\ used \in Nat
        BY <1>1, <1>6, <2>3 DEF used
      <3>2. O(s.out) \in T
        BY <1>5, <3>1
      <3>3. stack' = Append(rest, O(s.out))
        BY <1>7, <2>3
      <3>4. /\ stack' \in Seq(T) /\ Len(stack') = used + 1 /\ stack'[used + 1] = O(s.out)
            /\ \A i \in 1..used : stack'[i] = rest[i]
        BY <1>8, <3>1, <3>2, <3>3
      <3> QED
        BY <1>8, <3>1, <3>4
    <2> QED
      BY <2>1, <2>2, <2>3
  <1>13. /\ pool' \in Seq(T) /\ Len(pool') <= PoolLimit + LargestBatch
         /\ \A j \in 1..Len(pool') :
              \/ j \in 1..kept /\ pool'[j] = pool[j]
              \/ \E m \in 1..Len(s.puts) : j = kept + m /\ pool'[j] = O(s.puts[m])
    <2>1. CASE Len(keep) > PoolLimit
      <3>1. pool' = keep
        BY <1>7, <2>1
      <3>2. kept <= PoolLimit + LargestBatch
        <4>1. Len(pool) <= PoolLimit + LargestBatch /\ Len(pool) \in Nat
          BY <1>1 DEF PoolBounded
        <4>2. PoolLimit \in Nat /\ LargestBatch \in Int
          BY <1>1
        <4> QED
          BY ONLY <1>6, <4>1, <4>2
      <3> QED
        BY <1>9, <3>1, <3>2
    <2>2. CASE ~(Len(keep) > PoolLimit)
      <3>1. pool' = keep \o batch
        BY <1>7, <2>2
      <3>2. /\ pool' \in Seq(T) /\ Len(pool') = kept + Len(s.puts)
            /\ \A j \in 1..kept : pool'[j] = keep[j]
            /\ \A j \in 1..(kept + Len(s.puts)) : j > kept => pool'[j] = batch[j - kept]
        <4>1. keep \in Seq(T) /\ batch \in Seq(T)
          BY <1>9, <1>11
        <4>2. /\ keep \o batch \in Seq(T) /\ Len(keep \o batch) = Len(keep) + Len(batch)
              /\ \A j \in 1..Len(keep) : (keep \o batch)[j] = keep[j]
              /\ \A j \in 1..(Len(keep) + Len(batch)) :
                   j > Len(keep) => (keep \o batch)[j] = batch[j - Len(keep)]
          BY ONLY <4>1, ConcatParts
        <4> QED
          BY <1>9, <1>11, <3>1, <4>2
      <3>3. ASSUME NEW j \in 1..Len(pool'), j > kept
            PROVE  j - kept \in 1..Len(s.puts) /\ j = kept + (j - kept)
        BY <1>1, <1>6, <3>2, <3>3
      <3>4. ASSUME NEW j \in 1..Len(pool')
            PROVE  \/ j \in 1..kept /\ pool'[j] = pool[j]
                   \/ \E m \in 1..Len(s.puts) : j = kept + m /\ pool'[j] = O(s.puts[m])
        <4>1. CASE j <= kept
          BY <1>6, <1>9, <3>2, <4>1
        <4>2. CASE j > kept
          <5>1. pool'[j] = O(s.puts[j - kept])
            BY <1>11, <3>2, <3>3, <4>2
          <5> QED
            BY <3>3, <4>2, <5>1
        <4> QED
          BY <1>6, <4>1, <4>2
      <3>5. kept + Len(s.puts) <= PoolLimit + LargestBatch
        BY <1>1, <1>6, <1>9, <2>2
      <3> QED
        BY <3>2, <3>4, <3>5
    <2> QED
      BY <2>1, <2>2
  <1> QED
    BY <1>3, <1>12, <1>13 DEF T, used, kept, g, O

(* An instruction that was let start keeps the inductive invariant. *)
LEMMA TakesKeeps ==
  ASSUME IInv, NEW s, WellFormedShape(s), s.pop <= Len(stack),
         Len(stack) - s.pop + (IF s.out = 0 THEN 0 ELSE 1) <= StackLimit,
         foreign + s.ext <= ForeignLimit,
         NEW f, IF s.ext = 0 THEN f = 0 ELSE f \in Foreign,
         NEW dropped \in BOOLEAN, Takes(s, f, dropped)
  PROVE  IInv'
  <1> DEFINE O(k) == Operand(s, f, k)
             used == Len(stack) - s.pop
             kept == Len(pool) - Least(s.got, Len(pool))
  <1>1. TypeOK /\ NoAlias /\ PoolBounded /\ OwnOnly
    BY DEF IInv
  <1>2. /\ made' = made + s.got + s.new /\ made' \in Nat
        /\ stack' \in Seq(Foreign \cup 1..made') /\ Len(stack') <= StackLimit
        /\ \A i \in 1..Len(stack') :
              \/ i \in 1..used /\ stack'[i] = stack[i]
              \/ i = used + 1 /\ s.out \in 1..Count(s) /\ stack'[i] = O(s.out)
        /\ pool' \in Seq(Foreign \cup 1..made') /\ Len(pool') <= PoolLimit + LargestBatch
        /\ \A j \in 1..Len(pool') :
              \/ j \in 1..kept /\ pool'[j] = pool[j]
              \/ \E m \in 1..Len(s.puts) : j = kept + m /\ pool'[j] = O(s.puts[m])
    BY <1>1, TakesPlaces, SMTT(30)
  <1>3. /\ \A k \in 1..Count(s) : O(k) \in Foreign \cup 1..made'
        /\ \A k, l \in 1..Count(s) : O(k) = O(l) /\ O(k) > 0 => k = l
        /\ \A k \in 1..Count(s), i \in 1..used : O(k) = stack[i] => stack[i] < 0
        /\ \A k \in 1..Count(s), j \in 1..kept : O(k) = pool[j] => pool[j] < 0
    <2>1. \A k \in 1..Count(s) : O(k) \in Foreign \cup 1..(made + s.got + s.new)
      BY <1>1, OperandsDiffer
    <2>2. \A k, l \in 1..Count(s) : O(k) = O(l) /\ O(k) > 0 => k = l
      BY <1>1, OperandsDiffer
    <2>3. \A k \in 1..Count(s), i \in 1..used : O(k) = stack[i] => stack[i] < 0
      BY <1>1, OperandsDiffer
    <2>4. \A k \in 1..Count(s), j \in 1..kept : O(k) = pool[j] => pool[j] < 0
      BY <1>1, OperandsDiffer
    <2> HIDE DEF O, used, kept
    <2> QED
      BY ONLY <1>2, <2>1, <2>2, <2>3, <2>4
  <1>4. /\ used \in 0..Len(stack) /\ kept \in 0..Len(pool)
        /\ Len(stack) \in Nat /\ Len(pool) \in Nat
    <2>1. Len(stack) \in Nat /\ Len(pool) \in Nat
      BY <1>1 DEF TypeOK
    <2>2. s.pop \in Nat /\ s.pop <= Len(stack) /\ s.got \in Nat
      BY DEF WellFormedShape
    <2> QED
      BY ONLY <2>1, <2>2 DEF used, kept, Least
  <1>5. \A i \in Foreign \cup 1..made' : i \in Int /\ (i < 0 \/ i > 0)
    BY <1>2, ForeignAssumption
  <1>6. /\ \A m \in 1..Len(s.puts) : s.puts[m] \in 1..Count(s) /\ s.puts[m] # s.out
        /\ \A m, n \in 1..Len(s.puts) : s.puts[m] = s.puts[n] => m = n
        /\ Len(s.puts) \in Nat /\ Count(s) \in Nat
    <2>1. s.puts \in Seq(1..Count(s)) /\ Count(s) \in Nat
      BY SMTT(30) DEF WellFormedShape, Count
    <2>2. Len(s.puts) \in Nat /\ \A m \in 1..Len(s.puts) : s.puts[m] \in 1..Count(s)
      BY <2>1
    <2> QED
      BY <2>1, <2>2 DEF WellFormedShape
  <1>7. /\ \A i, j \in 1..Len(stack) : stack[i] = stack[j] /\ stack[i] > 0 => i = j
        /\ \A i, j \in 1..Len(pool) : pool[i] = pool[j] /\ pool[i] > 0 => i = j
        /\ \A i \in 1..Len(stack), j \in 1..Len(pool) : stack[i] = pool[j] => stack[i] < 0
    BY <1>1 DEF TypeOK, NoAlias
  <1>8. /\ 1..used \subseteq 1..Len(stack) /\ 1..kept \subseteq 1..Len(pool)
        /\ DOMAIN stack' = 1..Len(stack') /\ DOMAIN pool' = 1..Len(pool')
        /\ Len(stack') \in Nat /\ Len(pool') \in Nat
    BY <1>2, <1>4
  <1>9. /\ \A i \in 1..Len(stack') : stack'[i] \in Foreign \cup 1..made'
        /\ \A j \in 1..Len(pool') : pool'[j] \in Foreign \cup 1..made'
    BY <1>2
  <1> HIDE DEF O, used, kept
  <1>10. \A i, j \in 1..Len(stack') : stack'[i] = stack'[j] /\ stack'[i] > 0 => i = j
    <2> SUFFICES ASSUME NEW i \in 1..Len(stack'), NEW j \in 1..Len(stack'),
                        stack'[i] = stack'[j], stack'[i] > 0
                 PROVE  i = j
      OBVIOUS
    <2>1. ~(stack'[i] < 0) /\ ~(stack'[j] < 0)
      BY <1>5, <1>9
    <2> QED
      BY <1>2, <1>3, <1>7, <1>8, <2>1
  <1>11. \A i, j \in 1..Len(pool') : pool'[i] = pool'[j] /\ pool'[i] > 0 => i = j
    <2> SUFFICES ASSUME NEW i \in 1..Len(pool'), NEW j \in 1..Len(pool'),
                        pool'[i] = pool'[j], pool'[i] > 0
                 PROVE  i = j
      OBVIOUS
    <2>1. ~(pool'[i] < 0) /\ ~(pool'[j] < 0)
      BY <1>5, <1>9
    <2>2. ASSUME NEW a \in 1..Len(pool'), NEW b \in 1..Len(pool'), pool'[a] = pool'[b],
                 ~(pool'[a] < 0), a \in 1..kept, pool'[a] = pool[a]
          PROVE  b \in 1..kept /\ pool'[b] = pool[b]
      <3>1. ASSUME NEW m \in 1..Len(s.puts), pool'[b] = O(s.puts[m])
            PROVE  FALSE
        BY <1>3, <1>6, <2>2, <3>1
      <3> QED
        BY <1>2, <3>1
    <2>3. CASE i \in 1..kept /\ pool'[i] = pool[i]
      BY <1>7, <1>8, <2>1, <2>2, <2>3
    <2>4. CASE j \in 1..kept /\ pool'[j] = pool[j]
      BY <1>7, <1>8, <2>1, <2>2, <2>4
    <2>5. ASSUME NEW m \in 1..Len(s.puts), i = kept + m, pool'[i] = O(s.puts[m]),
                 NEW n \in 1..Len(s.puts), j = kept + n, pool'[j] = O(s.puts[n])
          PROVE  i = j
      <3>1. s.puts[m] = s.puts[n]
        BY <1>3, <1>6, <2>5
      <3> QED
        BY <1>6, <2>5, <3>1
    <2> QED
      BY <1>2, <2>3, <2>4, <2>5
  <1>12. \A i \in 1..Len(stack'), j \in 1..Len(pool') : stack'[i] = pool'[j] => stack'[i] < 0
    <2> SUFFICES ASSUME NEW i \in 1..Len(stack'), NEW j \in 1..Len(pool'),
                        stack'[i] = pool'[j], ~(stack'[i] < 0)
                 PROVE  FALSE
      OBVIOUS
    <2>1. stack'[i] > 0
      BY <1>5, <1>9
    <2>2. CASE i \in 1..used /\ stack'[i] = stack[i]
      <3>1. ASSUME j \in 1..kept, pool'[j] = pool[j]
            PROVE  FALSE
        BY <1>7, <1>8, <2>2, <3>1
      <3>2. ASSUME NEW m \in 1..Len(s.puts), pool'[j] = O(s.puts[m])
            PROVE  FALSE
        BY <1>3, <1>6, <2>2, <3>2
      <3> QED
        BY <1>2, <3>1, <3>2
    <2>3. CASE s.out \in 1..Count(s) /\ stack'[i] = O(s.out)
      <3>1. ASSUME j \in 1..kept, pool'[j] = pool[j]
            PROVE  FALSE
        BY <1>3, <2>3, <3>1
      <3>2. ASSUME NEW m \in 1..Len(s.puts), pool'[j] = O(s.puts[m])
            PROVE  FALSE
        BY <1>3, <1>6, <2>1, <2>3, <3>2
      <3> QED
        BY <1>2, <3>1, <3>2
    <2> QED
      BY <1>2, <2>2, <2>3
  <1>13. NoAlias'
    BY <1>8, <1>10, <1>11, <1>12 DEF NoAlias
  <1>14. val' \in [Elements(stack') -> Word]
    <2> DEFINE written == {Operand(s, f, k) : k \in s.writes}
    <2>1. PICK v \in [written -> Word] :
            val' = [i \in Elements(stack') |-> IF i \in written THEN v[i] ELSE val[i]]
      BY DEF Takes
    <2>2. ASSUME NEW i \in Elements(stack'), i \notin written
          PROVE  val[i] \in Word
      <3>1. PICK n \in 1..Len(stack') : i = stack'[n]
        BY <1>8 DEF Elements
      <3>2. \A n1 \in 1..Len(stack) : stack[n1] \in Elements(stack)
        BY <1>1 DEF TypeOK, Elements
      <3>3. i \in Elements(stack)
        <4>1. CASE n \in 1..used /\ stack'[n] = stack[n]
          BY <1>8, <3>1, <3>2, <4>1
        <4>2. CASE s.out \in 1..Count(s) /\ stack'[n] = O(s.out)
          <5>1. s.out <= s.pop
            BY <2>2, <3>1, <4>2 DEF WellFormedShape, O
          <5>2. O(s.out) = stack[Len(stack) + 1 - s.out]
            BY <1>4, <4>2, <5>1 DEF O, Operand, At, WellFormedShape
          <5>3. Len(stack) + 1 - s.out \in 1..Len(stack)
            <6>1. s.out \in Int /\ s.out >= 1 /\ s.pop \in Int
              BY <4>2, <1>6 DEF WellFormedShape
            <6>2. Len(stack) \in Nat /\ s.pop <= Len(stack)
              BY <1>4
            <6> QED
              BY ONLY <5>1, <6>1, <6>2
          <5> QED
            BY <3>1, <3>2, <4>2, <5>2, <5>3
        <4> QED
          BY <1>2, <4>1, <4>2
      <3> QED
        BY <1>1, <3>3 DEF TypeOK
    <2> HIDE DEF written
    <2> QED
      BY <2>1, <2>2
  <1>15. foreign' \in 0..ForeignLimit /\ foreign' = foreign + s.ext
    <2>1. foreign' = foreign + s.ext
      BY DEF Takes
    <2>2. foreign \in 0..ForeignLimit /\ s.ext \in {0, 1}
      BY <1>1 DEF TypeOK, WellFormedShape
    <2>3. ForeignLimit \in Nat
      BY LimitAssumption
    <2>4. foreign + s.ext <= ForeignLimit
      OBVIOUS
    <2> QED
      BY ONLY <2>1, <2>2, <2>3, <2>4
  <1>16. TypeOK'
    BY <1>2, <1>14, <1>15 DEF TypeOK
  <1>17. OwnOnly'
    <2> SUFFICES ASSUME foreign' = 0
                 PROVE  /\ \A i \in 1..Len(stack') : stack'[i] > 0
                        /\ \A j \in 1..Len(pool') : pool'[j] > 0
      BY <1>8 DEF OwnOnly
    <2>1. foreign = 0 /\ s.ext = 0
      BY <1>1, <1>15 DEF TypeOK, WellFormedShape
    <2>2. /\ \A i \in 1..Len(stack) : stack[i] > 0
          /\ \A j \in 1..Len(pool) : pool[j] > 0
      BY <1>1, <2>1 DEF OwnOnly, TypeOK
    <2>3. ASSUME NEW k \in 1..Count(s)
          PROVE  O(k) > 0
      <3>1. /\ s.pop \in Nat /\ s.got \in Nat /\ s.new \in Nat /\ made \in Nat
            /\ k \in Int /\ k >= 1 /\ k - s.pop <= s.got + s.new /\ s.pop <= Len(stack)
        BY <1>1, <2>1 DEF TypeOK, WellFormedShape, Count
      <3>2. CASE k - s.pop <= 0
        <4>1. Len(stack) + 1 - k \in 1..Len(stack)
          BY <1>4, <3>1, <3>2
        <4>2. O(k) = stack[Len(stack) + 1 - k]
          BY <3>2 DEF O, Operand, At
        <4> QED
          BY <2>2, <4>1, <4>2
      <3>3. CASE k - s.pop > 0 /\ k - s.pop <= Least(s.got, Len(pool))
        <4>1. k - s.pop <= Len(pool)
          BY <1>4, <3>1, <3>3 DEF Least
        <4>2. Len(pool) + 1 - (k - s.pop) \in 1..Len(pool)
          BY <1>4, <3>1, <3>3, <4>1, SMTT(30)
        <4>3. O(k) = pool[Len(pool) + 1 - (k - s.pop)]
          BY <3>1, <3>3 DEF O, Operand
        <4> QED
          BY <2>2, <4>2, <4>3
      <3>4. CASE k - s.pop > 0 /\ ~(k - s.pop <= Least(s.got, Len(pool)))
        <4>1. O(k) = made + (k - s.pop)
          BY <3>1, <3>4 DEF O, Operand
        <4> QED
          BY <3>1, <3>4, <4>1
      <3> QED
        BY <3>1, <3>2, <3>3, <3>4
    <2>4. ASSUME NEW i \in 1..Len(stack')
          PROVE  stack'[i] > 0
      BY <1>2, <1>8, <2>2, <2>3
    <2>5. ASSUME NEW j \in 1..Len(pool')
          PROVE  pool'[j] > 0
      <3>1. ASSUME NEW m \in 1..Len(s.puts), pool'[j] = O(s.puts[m])
            PROVE  pool'[j] > 0
        BY <1>6, <2>3, <3>1
      <3> QED
        BY <1>2, <1>8, <2>2, <3>1
    <2> QED
      BY <2>4, <2>5
  <1>18. PoolBounded'
    BY <1>2 DEF PoolBounded, LargestBatch
  <1> QED
    BY <1>13, <1>16, <1>17, <1>18 DEF IInv

-----------------------------------------------------------------------------
(* Every action keeps the inductive invariant. *)

(* How an instruction starts: it takes a well formed way that finds what it *)
(* pops and has room for what it pushes.                                   *)
LEMMA ExecStarts ==
  ASSUME TypeOK, NEW op \in Ops, NEW byZero \in BOOLEAN, NEW s \in Shapes(op, byZero),
         Valid(StackIn(op), StackOut(op))
  PROVE  /\ WellFormedShape(s) /\ Declared(op, byZero, s) /\ s.pop <= Len(stack)
         /\ Len(stack) - s.pop + (IF s.out = 0 THEN 0 ELSE 1) <= StackLimit
  <1>1. WellFormedShape(s) /\ Declared(op, byZero, s)
    BY TableIsSound
  <1>2. /\ s.pop = StackIn(op) /\ s.pop \in Nat /\ Len(stack) \in Nat /\ StackLimit \in Nat
        /\ StackOut(op) = IF s.out = 0 THEN 0 ELSE 1
    BY <1>1, LimitAssumption DEF Declared, WellFormedShape, TypeOK, StackOut
  <1> QED
    BY <1>1, <1>2 DEF Valid

(* Any instruction but DUP and SWAP. *)
LEMMA ExecKeeps ==
  ASSUME IInv, NEW op \in Ops, Exec(op)
  PROVE  IInv'
  <1>1. PICK s \in Shapes(op, DivisorIsZero(op)) :
          /\ foreign + s.ext <= ForeignLimit
          /\ \E f \in IF s.ext = 0 THEN {0} ELSE Foreign : Takes(s, f, op \in Halting)
    BY DEF Exec
  <1>2. PICK f \in IF s.ext = 0 THEN {0} ELSE Foreign : Takes(s, f, op \in Halting)
    BY <1>1
  <1>3. IF s.ext = 0 THEN f = 0 ELSE f \in Foreign
    OBVIOUS
  <1>4. DivisorIsZero(op) \in BOOLEAN /\ (op \in Halting) \in BOOLEAN
    BY DEF DivisorIsZero
  <1>5. /\ WellFormedShape(s) /\ s.pop <= Len(stack)
        /\ Len(stack) - s.pop + (IF s.out = 0 THEN 0 ELSE 1) <= StackLimit
    BY <1>4, ExecStarts DEF Exec, IInv
  <1> QED
    BY <1>1, <1>2, <1>3, <1>4, <1>5, TakesKeeps

(* DUP works as an instruction that gets one integer and pushes it. *)
LEMMA DupTakes ==
  ASSUME TypeOK, NEW n \in 1..16, Dup(n)
  PROVE  /\ Takes(Get, 0, FALSE)
         /\ val' = [i \in Elements(stack') |-> IF i = Operand(Get, 0, 1) THEN val[At(n)] ELSE val[i]]
         /\ val[At(n)] \in Word
  <1> DEFINE copy == Operand(Get, 0, 1)
  <1>1. /\ Get.pop = 0 /\ Get.got = 1 /\ Get.new = 0 /\ Get.ext = 0 /\ Get.out = 1
        /\ Get.puts = <<>> /\ Get.writes = {1} /\ Get.zero = FALSE
    BY DEF Get, Shape
  <1>2. n <= Len(stack) /\ Len(stack) \in Nat /\ Len(pool) \in Nat /\ made \in Nat
        /\ foreign \in Int
    BY LimitAssumption DEF Dup, Valid, TypeOK
  <1>3. /\ stack' = Append(stack, copy)
        /\ val' = [i \in Elements(stack') |-> IF i = copy THEN val[At(n)] ELSE val[i]]
        /\ pool' = FirstOf(pool, Len(pool) - Least(1, Len(pool)))
        /\ made' = made + 1 /\ foreign' = foreign
    BY DEF Dup
  <1>4. val[At(n)] \in Word
    <2>1. Len(stack) + 1 - n \in 1..Len(stack)
      BY <1>2
    <2>2. At(n) \in Elements(stack)
      BY <2>1 DEF At, Elements, TypeOK
    <2> QED
      BY <2>2 DEF TypeOK
  <1>5. FirstOf(stack, Len(stack) - Get.pop) = stack
    <2>1. Len(stack) - Get.pop = Len(stack)
      BY <1>1, <1>2
    <2>2. Len(stack) \in 0..Len(stack)
      BY <1>2
    <2>3. /\ FirstOf(stack, Len(stack)) \in Seq(Foreign \cup 1..made)
          /\ Len(FirstOf(stack, Len(stack))) = Len(stack)
          /\ \A i \in 1..Len(stack) : FirstOf(stack, Len(stack))[i] = stack[i]
      BY <2>2, FirstOfParts DEF TypeOK
    <2>4. FirstOf(stack, Len(stack)) = stack
      BY <2>3, SeqEqual DEF TypeOK
    <2> QED
      BY <2>1, <2>4
  <1>6. Len(pool) - Least(1, Len(pool)) \in 0..Len(pool)
    BY <1>2 DEF Least
  <1>7. pool' \in Seq(Foreign \cup 1..made)
    BY <1>3, <1>6, FirstOfParts DEF TypeOK
  <1>8. pool' = Put(pool', [i \in 1..Len(Get.puts) |-> Operand(Get, 0, Get.puts[i])])
    <2>1. [i \in 1..Len(Get.puts) |-> Operand(Get, 0, Get.puts[i])] = <<>>
      BY <1>1
    <2>2. pool' \o <<>> = pool'
      BY <1>7
    <2> QED
      BY <2>1, <2>2 DEF Put
  <1> DEFINE written == {Operand(Get, 0, k) : k \in Get.writes}
             v == [i \in written |-> val[At(n)]]
  <1>9. written = {copy}
    BY <1>1
  <1>10. /\ v \in [written -> Word]
         /\ val' = [i \in Elements(stack') |-> IF i \in written THEN v[i] ELSE val[i]]
    <2> HIDE DEF copy, written
    <2> QED
      BY <1>3, <1>4, <1>9
  <1>11. made' = made + Get.got + Get.new /\ foreign' = foreign + Get.ext
    BY <1>1, <1>2, <1>3
  <1>12. stack' = Append(FirstOf(stack, Len(stack) - Get.pop), Operand(Get, 0, Get.out))
    BY <1>1, <1>3, <1>5
  <1>13. pool' = Put(FirstOf(pool, Len(pool) - Least(Get.got, Len(pool))),
                     [i \in 1..Len(Get.puts) |-> Operand(Get, 0, Get.puts[i])])
    BY <1>1, <1>3, <1>8
  <1>14. Get.out # 0 /\ ~Get.zero
    BY <1>1
  <1>15. Takes(Get, 0, FALSE)
    <2> HIDE DEF v
    <2> QED
      BY <1>10, <1>11, <1>12, <1>13, <1>14 DEF Takes
  <1> QED
    BY <1>3, <1>4, <1>15

(* DUP *)
LEMMA DupKeeps ==
  ASSUME IInv, NEW n \in 1..16, Dup(n)
  PROVE  IInv'
  <1>1. TypeOK
    BY DEF IInv
  <1>2. Takes(Get, 0, FALSE) /\ WellFormedShape(Get)
    BY <1>1, DupTakes, SingleShapes
  <1>3. Get.pop = 0 /\ Get.ext = 0 /\ Get.out = 1
    BY DEF Get, Shape
  <1>4. Get.pop <= Len(stack) /\ Len(stack) - Get.pop + 1 <= StackLimit
    <2>1. Len(stack) \in Nat /\ StackLimit \in Nat
      BY <1>1, LimitAssumption DEF TypeOK
    <2> QED
      BY <1>3, <2>1 DEF Dup, Valid
  <1>5. foreign + Get.ext <= ForeignLimit
    BY <1>1, <1>3, LimitAssumption DEF TypeOK
  <1>6. /\ IF Get.ext = 0 THEN 0 = 0 ELSE 0 \in Foreign
        /\ Len(stack) - Get.pop + (IF Get.out = 0 THEN 0 ELSE 1) <= StackLimit
    BY <1>3, <1>4
  <1> QED
    BY <1>2, <1>4, <1>5, <1>6, TakesKeeps

(* SWAP *)
LEMMA SwapKeeps ==
  ASSUME IInv, NEW n \in 1..16, Swap(n)
  PROVE  IInv'
  <1> DEFINE top == Len(stack)
             S == Foreign \cup 1..made
             where(i) == IF i = top - n THEN top ELSE IF i = top THEN top - n ELSE i
  <1>1. /\ TypeOK /\ NoAlias /\ PoolBounded /\ OwnOnly
        /\ top \in Nat /\ n \in 1..16 /\ n + 1 <= top /\ stack \in Seq(S)
    BY DEF IInv, TypeOK, Swap, Valid
  <1>2. stack' = [stack EXCEPT ![top] = stack[top + 1 - (n + 1)], ![top - n] = stack[top + 1 - 1]]
    BY DEF Swap, At
  <1>3. /\ top + 1 - (n + 1) = top - n /\ top + 1 - 1 = top
        /\ top \in 1..top /\ top - n \in 1..top /\ top - n # top
    BY <1>1
  <1>4. \A i \in 1..top : where(i) \in 1..top
    BY <1>3
  <1>5. stack' \in Seq(S) /\ Len(stack') = top /\ \A i \in 1..top : stack'[i] = stack[where(i)]
    <2> HIDE DEF S
    <2> QED
      BY <1>1, <1>2, <1>3
  <1>6. \A i, j \in 1..top : where(i) = where(j) => i = j
    BY <1>3
  <1>7. pool' = pool /\ val' = val /\ made' = made /\ foreign' = foreign
    BY DEF Swap
  <1>8. DOMAIN stack = 1..top /\ DOMAIN stack' = 1..top
    BY <1>1, <1>5
  <1>9. \A i \in 1..top : where(where(i)) = i
    BY <1>3
  <1> HIDE DEF top, where, S
  <1>10. Elements(stack') = Elements(stack)
    <2>1. ASSUME NEW i \in 1..top
          PROVE  stack'[i] \in Elements(stack) /\ stack[i] \in Elements(stack')
      <3>1. stack'[i] = stack[where(i)] /\ where(i) \in 1..top
        BY <1>4, <1>5
      <3>2. stack'[where(i)] = stack[i]
        BY <1>4, <1>5, <1>9
      <3> QED
        BY <1>8, <3>1, <3>2 DEF Elements
    <2> QED
      BY <1>8, <2>1 DEF Elements
  <1>11. TypeOK'
    BY <1>1, <1>5, <1>7, <1>10 DEF TypeOK, S, top
  <1>12. NoAlias'
    <2>1. \A i, j \in 1..top : stack'[i] = stack'[j] /\ stack'[i] > 0 => i = j
      <3> SUFFICES ASSUME NEW i \in 1..top, NEW j \in 1..top,
                          stack'[i] = stack'[j], stack'[i] > 0
                   PROVE  i = j
        OBVIOUS
      <3>1. stack[where(i)] = stack[where(j)] /\ stack[where(i)] > 0
        BY <1>5
      <3>2. where(i) = where(j)
        BY <1>1, <1>4, <1>8, <3>1 DEF NoAlias
      <3> QED
        BY <1>6, <3>2
    <2>2. \A i \in 1..top, j \in DOMAIN pool : stack'[i] = pool[j] => stack'[i] < 0
      BY <1>1, <1>4, <1>5, <1>8 DEF NoAlias
    <2> QED
      BY <1>1, <1>7, <1>8, <2>1, <2>2 DEF NoAlias
  <1>13. OwnOnly'
    BY <1>1, <1>4, <1>5, <1>7, <1>8 DEF OwnOnly
  <1> QED
    BY <1>1, <1>7, <1>11, <1>12, <1>13 DEF IInv, PoolBounded

(* The run ends and another one starts, with this pool or another. *)
LEMMA EndKeeps ==
  ASSUME IInv, NextRun \/ NewPool
  PROVE  IInv'
  <1>1. stack' = <<>> /\ val' = <<>> /\ made' = made
    BY DEF NextRun, NewPool
  <1>2. (pool' = pool /\ foreign' = foreign) \/ (pool' = <<>> /\ foreign' = 0)
    BY DEF NextRun, NewPool
  <1>3. val' \in [Elements(stack') -> Word]
    <2>1. Elements(stack') = {}
      BY <1>1 DEF Elements
    <2> QED
      BY <1>1, <2>1
  <1>4. TypeOK'
    <2>1. stack' \in Seq(Foreign \cup 1..made') /\ Len(stack') <= StackLimit /\ made' \in Nat
      BY <1>1, LimitAssumption DEF IInv, TypeOK
    <2>2. pool' \in Seq(Foreign \cup 1..made') /\ foreign' \in 0..ForeignLimit
      <3>1. pool \in Seq(Foreign \cup 1..made') /\ foreign \in 0..ForeignLimit
        BY <1>1 DEF IInv, TypeOK
      <3>2. <<>> \in Seq(Foreign \cup 1..made') /\ 0 \in 0..ForeignLimit
        BY LimitAssumption
      <3> QED
        BY <1>2, <3>1, <3>2
    <2> QED
      BY <1>3, <2>1, <2>2 DEF TypeOK
  <1>5. NoAlias' /\ OwnOnly' /\ PoolBounded'
    BY <1>1, <1>2, LimitAssumption DEF IInv, NoAlias, OwnOnly, PoolBounded, LargestBatch, TypeOK
  <1> QED
    BY <1>4, <1>5 DEF IInv

(* The first run starts with nothing. *)
LEMMA InitHolds == Init => IInv
  <1> SUFFICES ASSUME Init
               PROVE  IInv
    OBVIOUS
  <1>1. Elements(stack) = {}
    BY DEF Init, Elements
  <1>2. TypeOK
    BY <1>1, LimitAssumption DEF Init, TypeOK
  <1>3. NoAlias /\ OwnOnly /\ PoolBounded
    BY LimitAssumption DEF Init, NoAlias, OwnOnly, PoolBounded, LargestBatch
  <1> QED
    BY <1>2, <1>3 DEF IInv

(* The inductive invariant holds in every behaviour. *)
LEMMA Invariant == Spec => []IInv
  <1>1. Init => IInv
    BY InitHolds
  <1>2. IInv /\ [Next]_vars => IInv'
    <2> SUFFICES ASSUME IInv, [Next]_vars
                 PROVE  IInv'
      OBVIOUS
    <2>1. CASE UNCHANGED vars
      BY <2>1 DEF vars, IInv, TypeOK, NoAlias, OwnOnly, PoolBounded
    <2>2. ASSUME NEW op \in Ops, Exec(op)
          PROVE  IInv'
      BY <2>2, ExecKeeps
    <2>3. ASSUME NEW n \in 1..16, Dup(n) \/ Swap(n)
          PROVE  IInv'
      BY <2>3, DupKeeps, SwapKeeps
    <2>4. CASE NextRun \/ NewPool
      BY <2>4, EndKeeps
    <2> QED
      BY <2>1, <2>2, <2>3, <2>4 DEF Next
  <1> QED
    BY <1>1, <1>2, PTL DEF Spec

(* Every integer on the stack and in the pool has been allocated by         *)
(* somebody, every word has a value, and the stack keeps its limit.        *)
THEOREM TypeCorrect == Spec => []TypeOK
  <1>1. IInv => TypeOK
    BY DEF IInv
  <1> QED
    BY <1>1, Invariant, PTL

(* For any limits and any values, no integer of this package is at two     *)
(* places of the stack and the pool.                                       *)
THEOREM IntegersAreNotShared == Spec => []NoAlias
  <1>1. IInv => NoAlias
    BY DEF IInv
  <1> QED
    BY <1>1, Invariant, PTL

(* A pool exceeds its limit by less than one batch. *)
THEOREM PoolStaysBounded == Spec => []PoolBounded
  <1>1. IInv => PoolBounded
    BY DEF IInv
  <1> QED
    BY <1>1, Invariant, PTL

(* The limits of the table are those of the instructions. *)
THEOREM TableCoversPops == Spec => []NoUnderflow
  <1>1. IInv => NoUnderflow
    BY ExecStarts DEF IInv, NoUnderflow
  <1> QED
    BY <1>1, Invariant, PTL

-----------------------------------------------------------------------------
(* Operands implements WordStack. *)

(* A sequence of words, from its places. *)
LEMMA WordsParts ==
  ASSUME IInv, foreign = 0
  PROVE  /\ WordsOf \in Seq(Word) /\ Len(WordsOf) = Len(stack) /\ LastOf = last
         /\ \A i \in 1..Len(stack) : WordsOf[i] = val[stack[i]]
  <1>1. \A i \in 1..Len(stack) : stack[i] \in Elements(stack)
    BY DEF IInv, TypeOK, Elements
  <1>2. \A i \in 1..Len(stack) : val[stack[i]] \in Word
    BY <1>1 DEF IInv, TypeOK
  <1>3. WordsOf = [i \in 1..Len(stack) |-> val[stack[i]]] /\ LastOf = last
    BY DEF WordsOf, LastOf
  <1>4. Len(stack) \in Nat
    BY DEF IInv, TypeOK
  <1> QED
    BY <1>2, <1>3, <1>4

(* An instruction that is given nobody's integer changes no word that      *)
(* stays on the stack.                                                     *)
LEMMA TakesValues ==
  ASSUME IInv, foreign = 0, NEW s, WellFormedShape(s), s.pop <= Len(stack), s.ext = 0,
         Takes(s, 0, FALSE)
  PROVE  /\ Len(stack') = Len(stack) - s.pop + (IF s.out = 0 THEN 0 ELSE 1)
         /\ \A i \in 1..(Len(stack) - s.pop) :
              stack'[i] = stack[i] /\ val'[stack'[i]] = val[stack[i]]
         /\ s.out # 0 => stack'[Len(stack) - s.pop + 1] = Operand(s, 0, s.out)
         /\ s.zero /\ s.out \in s.writes => val'[Operand(s, 0, s.out)] = 0
  <1> DEFINE used == Len(stack) - s.pop
             rest == FirstOf(stack, used)
             written == {Operand(s, 0, k) : k \in s.writes}
  <1>1. /\ used \in 0..Len(stack) /\ s.out \in 0..Count(s) /\ s.writes \subseteq 1..Count(s)
        /\ TypeOK /\ NoAlias /\ OwnOnly
    BY DEF IInv, TypeOK, WellFormedShape
  <1>2. stack' = IF s.out = 0 THEN rest ELSE Append(rest, Operand(s, 0, s.out))
    BY DEF Takes
  <1>3. PICK v \in [written -> Word] :
          /\ s.zero => v[Operand(s, 0, s.out)] = 0
          /\ val' = [i \in Elements(stack') |-> IF i \in written THEN v[i] ELSE val[i]]
    BY DEF Takes
  <1>4. /\ rest \in Seq(Foreign \cup 1..made) /\ Len(rest) = used
        /\ \A i \in 1..used : rest[i] = stack[i]
    BY <1>1, FirstOfParts DEF TypeOK
  <1> HIDE DEF rest, used
  <1>5. /\ Len(stack') = used + (IF s.out = 0 THEN 0 ELSE 1)
        /\ \A i \in 1..used : stack'[i] = stack[i]
        /\ s.out # 0 => stack'[used + 1] = Operand(s, 0, s.out)
        /\ DOMAIN stack' = 1..Len(stack') /\ used \in Nat
    <2>1. used \in Nat
      BY <1>1
    <2>2. CASE s.out = 0
      BY <1>2, <1>4, <2>1, <2>2
    <2>3. CASE s.out # 0
      <3> DEFINE o == Operand(s, 0, s.out)
      <3>1. stack' = Append(rest, o)
        BY <1>2, <2>3
      <3> HIDE DEF o
      <3>2. /\ Len(stack') = used + 1 /\ stack'[used + 1] = o /\ DOMAIN stack' = 1..Len(stack')
            /\ \A i \in 1..used : stack'[i] = rest[i]
        BY <1>4, <2>1, <3>1
      <3> QED
        BY <1>4, <2>1, <2>3, <3>2 DEF o
    <2> QED
      BY <2>2, <2>3
  <1>6. ASSUME NEW i \in 1..used
        PROVE  stack[i] \notin written /\ stack[i] \in Elements(stack')
    <2>1. stack[i] > 0 /\ stack[i] \in Int
      <3>1. i \in 1..Len(stack) /\ DOMAIN stack = 1..Len(stack)
        BY <1>1 DEF TypeOK, used
      <3>2. stack[i] > 0 /\ stack[i] \in Foreign \cup 1..made
        BY <1>1, <3>1 DEF OwnOnly, TypeOK
      <3>3. \A x \in Foreign \cup 1..made : x \in Int
        BY <1>1, ForeignAssumption DEF TypeOK
      <3>4. stack[i] \in Int
        BY ONLY <3>2, <3>3
      <3> QED
        BY <3>2, <3>4
    <2>2. \A k \in 1..Count(s) : Operand(s, 0, k) = stack[i] => stack[i] < 0
      BY <1>1, OperandsDiffer DEF used
    <2>3. stack[i] \notin written
      BY <1>1, <2>1, <2>2
    <2>4. i \in DOMAIN stack'
      BY <1>5
    <2> QED
      BY <1>5, <2>3, <2>4 DEF Elements
  <1>7. ASSUME NEW i \in 1..used
        PROVE  val'[stack'[i]] = val[stack[i]]
    <2> HIDE DEF written
    <2> QED
      BY <1>3, <1>5, <1>6
  <1>8. ASSUME s.zero, s.out \in s.writes
        PROVE  val'[Operand(s, 0, s.out)] = 0
    <2>1. s.out # 0
      BY <1>1, <1>8 DEF WellFormedShape, Count
    <2>2. used + 1 \in DOMAIN stack'
      BY <1>5, <2>1
    <2>3. Operand(s, 0, s.out) \in Elements(stack')
      BY <1>5, <2>1, <2>2 DEF Elements
    <2>4. Operand(s, 0, s.out) \in written
      BY <1>8
    <2> HIDE DEF written
    <2> QED
      BY <1>3, <1>8, <2>3, <2>4
  <1> QED
    BY <1>5, <1>7, <1>8 DEF used

(* The operands that make a result zero are operands. *)
LEMMA DivisorsAreOperands ==
  ASSUME NEW op \in Ops
  PROVE  Divisors(op) \subseteq 1..StackIn(op) /\ (Divisors(op) # {} => StackOut(op) = 1)
  <1>1. CASE op \in {"DIV", "MOD", "SMOD", "SDIV"}
    <2>1. StackIn(op) = 2 /\ StackOut(op) = 1
      BY <1>1 DEF StackIn, StackOut, NoOperands, Sources, Unary, Binary, Modular, Copies, Stores, LogOps
    <2>2. Divisors(op) = {2} \/ Divisors(op) = {1, 2}
      BY <1>1 DEF Divisors, Modular
    <2> QED
      BY <2>1, <2>2
  <1>2. CASE op \in Modular
    <2>1. StackIn(op) = 3 /\ StackOut(op) = 1
      BY <1>2 DEF StackIn, StackOut, NoOperands, Sources, Unary, Binary, Modular, Copies, Stores, LogOps
    <2>2. Divisors(op) = {3}
      BY <1>2 DEF Divisors, Modular
    <2> QED
      BY <2>1, <2>2
  <1>3. CASE op \notin {"DIV", "MOD", "SMOD", "SDIV"} /\ op \notin Modular
    <2>1. Divisors(op) = {}
      BY <1>3 DEF Divisors
    <2> QED
      BY <2>1
  <1> QED
    BY <1>1, <1>2, <1>3

(* WordStack reads the same table. *)
LEMMA SameTable ==
  /\ Words!Halting = Halting /\ Words!Ops = Ops
  /\ \A op : /\ Words!StackIn(op) = StackIn(op) /\ Words!StackOut(op) = StackOut(op)
             /\ Words!Divisors(op) = Divisors(op)
  <1>1. /\ Words!Halting = Halting /\ Words!NoOperands = NoOperands /\ Words!Sources = Sources
        /\ Words!Unary = Unary /\ Words!Binary = Binary /\ Words!Modular = Modular
        /\ Words!Copies = Copies /\ Words!Stores = Stores /\ Words!LogOps = LogOps
        /\ Words!Topics = Topics
    BY DEF Halting, NoOperands, Sources, Unary, Binary, Modular, Copies, Stores, LogOps, Topics,
           Words!Halting, Words!NoOperands, Words!Sources, Words!Unary, Words!Binary,
           Words!Modular, Words!Copies, Words!Stores, Words!LogOps, Words!Topics
  <1>2. Words!Ops = Ops
    BY <1>1 DEF Ops, Words!Ops
  <1>3. \A op : Words!StackIn(op) = StackIn(op)
    BY <1>1 DEF StackIn, Words!StackIn
  <1>4. \A op : Words!StackOut(op) = StackOut(op)
    BY <1>1 DEF StackOut, Words!StackOut
  <1>5. \A op : Words!Divisors(op) = Divisors(op)
    BY <1>1 DEF Divisors, Words!Divisors
  <1> QED
    BY <1>1, <1>2, <1>3, <1>4, <1>5

(* The end of a run, and any step in whose runs somebody else's integer    *)
(* has been pushed.                                                        *)
LEMMA EndMaps ==
  ASSUME IInv', foreign' > 0 \/ (stack' = <<>> /\ last' \in Halting \cup {"none"})
  PROVE  Words!Next
  <1>1. WordsOf' = <<>> /\ LastOf' \in Halting \cup {"none"}
    <2>1. CASE foreign' > 0
      BY <2>1 DEF WordsOf, LastOf
    <2>2. CASE ~(foreign' > 0) /\ stack' = <<>> /\ last' \in Halting \cup {"none"}
      <3>1. WordsOf' = [i \in 1..0 |-> val'[stack'[i]]] /\ LastOf' = last'
        BY <2>2 DEF WordsOf, LastOf
      <3> QED
        BY <2>2, <3>1
    <2> QED
      BY <2>1, <2>2
  <1> QED
    BY <1>1, SameTable DEF Words!Next, Words!End

(* An instruction that does not end the run. *)
LEMMA ExecMaps ==
  ASSUME IInv, IInv', NEW op \in Ops \ Halting, Exec(op), foreign' = 0
  PROVE  Words!Step(op)
  <1> DEFINE used == Len(stack) - StackIn(op)
             W  == WordsOf
             Wn == WordsOf'
  <1>1. PICK s \in Shapes(op, DivisorIsZero(op)) :
          \E f \in IF s.ext = 0 THEN {0} ELSE Foreign : Takes(s, f, op \in Halting)
    BY DEF Exec
  <1>2. DivisorIsZero(op) \in BOOLEAN /\ Valid(StackIn(op), StackOut(op))
    BY DEF DivisorIsZero, Exec
  <1>3. /\ WellFormedShape(s) /\ Declared(op, DivisorIsZero(op), s) /\ s.pop <= Len(stack)
        /\ Len(stack) - s.pop + (IF s.out = 0 THEN 0 ELSE 1) <= StackLimit
    BY <1>2, ExecStarts DEF IInv
  <1>4. foreign = 0 /\ s.ext = 0
    <2>1. foreign' = foreign + s.ext
      BY <1>1 DEF Takes
    <2> QED
      BY <1>3, <2>1 DEF IInv, TypeOK, WellFormedShape
  <1>5. Takes(s, 0, FALSE)
    <2>1. (op \in Halting) = FALSE
      OBVIOUS
    <2>2. Takes(s, 0, op \in Halting)
      BY <1>1, <1>4
    <2> QED
      BY <2>1, <2>2 DEF Takes
  <1>6. /\ W \in Seq(Word) /\ Len(W) = Len(stack)
        /\ \A i \in 1..Len(stack) : W[i] = val[stack[i]]
    BY <1>4, WordsParts
  <1>7. /\ Wn \in Seq(Word) /\ Len(Wn) = Len(stack') /\ LastOf' = last'
        /\ \A i \in 1..Len(stack') : Wn[i] = val'[stack'[i]]
    <2>1. (IInv /\ foreign = 0 => /\ WordsOf \in Seq(Word) /\ Len(WordsOf) = Len(stack)
                                 /\ LastOf = last
                                 /\ \A i \in 1..Len(stack) : WordsOf[i] = val[stack[i]])'
      BY WordsParts, PTL
    <2> QED
      BY <2>1
  <1>8. /\ Len(stack') = used + (IF s.out = 0 THEN 0 ELSE 1)
        /\ \A i \in 1..used : stack'[i] = stack[i] /\ val'[stack'[i]] = val[stack[i]]
        /\ s.out # 0 => stack'[used + 1] = Operand(s, 0, s.out)
        /\ s.zero /\ s.out \in s.writes => val'[Operand(s, 0, s.out)] = 0
        /\ s.pop = StackIn(op) /\ used \in 0..Len(stack) /\ Len(stack) \in Nat
        /\ StackIn(op) \in Nat
    <2>1. s.pop = StackIn(op) /\ s.pop \in Nat /\ Len(stack) \in Nat
      BY <1>3 DEF Declared, WellFormedShape, IInv, TypeOK
    <2>2. used \in 0..Len(stack) /\ used = Len(stack) - s.pop
      BY <1>3, <2>1
    <2>3. /\ Len(stack') = Len(stack) - s.pop + (IF s.out = 0 THEN 0 ELSE 1)
          /\ \A i \in 1..(Len(stack) - s.pop) :
               stack'[i] = stack[i] /\ val'[stack'[i]] = val[stack[i]]
      BY <1>3, <1>4, <1>5, TakesValues
    <2>4. /\ s.out # 0 => stack'[Len(stack) - s.pop + 1] = Operand(s, 0, s.out)
          /\ s.zero /\ s.out \in s.writes => val'[Operand(s, 0, s.out)] = 0
      BY <1>3, <1>4, <1>5, TakesValues
    <2> HIDE DEF used
    <2> QED
      BY ONLY <2>1, <2>2, <2>3, <2>4
  <1>9. StackOut(op) = IF s.out = 0 THEN 0 ELSE 1
    BY <1>3 DEF Declared, StackOut
  <1>10. StackIn(op) <= Len(W) /\ Len(W) + StackOut(op) - StackIn(op) <= StackLimit
    BY <1>2, <1>6 DEF Valid
  <1>11. Words!DivisorIsZero(op) => s.zero /\ s.out \in s.writes
    <2> SUFFICES ASSUME Words!DivisorIsZero(op)
                 PROVE  s.zero /\ s.out \in s.writes
      OBVIOUS
    <2>1. PICK n \in Divisors(op) : W[Len(W) + 1 - n] = 0
      BY SameTable DEF Words!DivisorIsZero, Words!At
    <2>2. n \in 1..StackIn(op)
      BY <2>1, DivisorsAreOperands
    <2>3. Len(stack) + 1 - n \in 1..Len(stack)
      BY <1>3, <1>8, <2>2
    <2>4. val[At(n)] = 0
      BY <1>6, <2>1, <2>3 DEF At
    <2> QED
      BY <1>3, <2>1, <2>4 DEF DivisorIsZero, Declared
  <1>12. \A i \in 1..used : Wn[i] = W[i]
    BY <1>6, <1>7, <1>8
  <1> DEFINE low == SubSeq(W, 1, used)
  <1>13. low \in Seq(Word) /\ Len(low) = used /\ \A i \in 1..used : low[i] = W[i]
    BY <1>6, <1>8, FirstOfParts DEF FirstOf
  <1>14. PICK r \in Word : /\ Words!DivisorIsZero(op) => r = 0
                          /\ Wn = IF StackOut(op) = 1 THEN Append(low, r) ELSE low
    <2> HIDE DEF W, Wn, low, used
    <2>1. CASE s.out = 0
      <3>1. Wn = low
        BY <1>7, <1>8, <1>12, <1>13, <2>1, SeqEqual
      <3>2. ~Words!DivisorIsZero(op)
        <4>1. Divisors(op) = {}
          BY <1>9, <2>1, DivisorsAreOperands
        <4> QED
          BY <4>1, SameTable DEF Words!DivisorIsZero
      <3> QED
        BY <1>9, <2>1, <3>1, <3>2, WordAssumption
    <2>2. CASE s.out # 0
      <3> DEFINE r == Wn[used + 1]
      <3>1. used + 1 \in 1..Len(Wn) /\ Len(Wn) = used + 1 /\ used \in Nat
        BY <1>7, <1>8, <2>2
      <3>2. r \in Word
        BY <1>7, <3>1
      <3>3. Words!DivisorIsZero(op) => r = 0
        BY <1>7, <1>8, <1>11, <2>2, <3>1
      <3> HIDE DEF r
      <3>4. Append(low, r) \in Seq(Word) /\ Len(Append(low, r)) = used + 1
        BY <1>13, <3>2
      <3>5. \A i \in 1..(used + 1) : Append(low, r)[i] = Wn[i]
        BY <1>12, <1>13, <3>1, <3>2 DEF r
      <3>6. Wn = Append(low, r)
        BY <1>7, <3>1, <3>4, <3>5, SeqEqual
      <3> QED
        BY <1>9, <2>2, <3>2, <3>3, <3>6
    <2> QED
      BY <2>1, <2>2
  <1>15. LastOf' = op
    BY <1>7 DEF Exec
  <1>16. Words!Rest(Len(W) - StackIn(op)) = low
    BY <1>6 DEF Words!Rest
  <1> QED
    <2>1. /\ Words!StackIn(op) <= Len(W)
          /\ Len(W) + Words!StackOut(op) - Words!StackIn(op) <= StackLimit
          /\ \E w \in Word :
               /\ Words!DivisorIsZero(op) => w = 0
               /\ Wn = IF Words!StackOut(op) = 1
                       THEN Append(Words!Rest(Len(W) - Words!StackIn(op)), w)
                       ELSE Words!Rest(Len(W) - Words!StackIn(op))
      BY <1>10, <1>14, <1>16, SameTable
    <2> QED
      BY <1>15, <2>1 DEF Words!Step

(* DUP *)
LEMMA DupMaps ==
  ASSUME IInv, IInv', NEW n \in 1..16, Dup(n), foreign' = 0
  PROVE  Words!Dup(n)
  <1> DEFINE W  == WordsOf
             Wn == WordsOf'
             top == Len(stack)
             copy == Operand(Get, 0, 1)
  <1>1. foreign = 0 /\ n <= top /\ top < StackLimit /\ top \in Nat /\ TypeOK /\ last' = "DUP"
    BY LimitAssumption DEF Dup, Valid, IInv, TypeOK
  <1>2. /\ W \in Seq(Word) /\ Len(W) = top /\ \A i \in 1..top : W[i] = val[stack[i]]
    BY <1>1, WordsParts
  <1>3. /\ Wn \in Seq(Word) /\ Len(Wn) = Len(stack') /\ LastOf' = last'
        /\ \A i \in 1..Len(stack') : Wn[i] = val'[stack'[i]]
    <2>1. (IInv /\ foreign = 0 => /\ WordsOf \in Seq(Word) /\ Len(WordsOf) = Len(stack)
                                 /\ LastOf = last
                                 /\ \A i \in 1..Len(stack) : WordsOf[i] = val[stack[i]])'
      BY WordsParts, PTL
    <2> QED
      BY <2>1
  <1>4. /\ Takes(Get, 0, FALSE) /\ WellFormedShape(Get)
        /\ val' = [i \in Elements(stack') |-> IF i = copy THEN val[At(n)] ELSE val[i]]
    BY <1>1, DupTakes, SingleShapes
  <1>5. Get.pop = 0 /\ Get.ext = 0 /\ Get.out = 1
    BY DEF Get, Shape
  <1>6. /\ Len(stack') = top + 1 /\ stack'[top + 1] = copy
        /\ \A i \in 1..top : stack'[i] = stack[i] /\ val'[stack'[i]] = val[stack[i]]
    <2>1. Get.pop <= Len(stack) /\ Len(stack) - Get.pop = top /\ Get.out # 0
      BY <1>1, <1>5
    <2>2. /\ Len(stack') = Len(stack) - Get.pop + (IF Get.out = 0 THEN 0 ELSE 1)
          /\ \A i \in 1..(Len(stack) - Get.pop) :
               stack'[i] = stack[i] /\ val'[stack'[i]] = val[stack[i]]
          /\ Get.out # 0 => stack'[Len(stack) - Get.pop + 1] = Operand(Get, 0, Get.out)
      BY <1>1, <1>4, <1>5, <2>1, TakesValues
    <2> HIDE DEF top
    <2> QED
      BY <1>5, <2>1, <2>2
  <1>7. val'[stack'[top + 1]] = val[At(n)]
    <2>1. top + 1 \in DOMAIN stack'
      BY <1>1, <1>6 DEF IInv, TypeOK
    <2>2. copy \in Elements(stack')
      BY <1>6, <2>1 DEF Elements
    <2> QED
      BY <1>4, <1>6, <2>2
  <1>8. W[top + 1 - n] = val[At(n)]
    <2>1. top + 1 - n \in 1..top
      BY <1>1
    <2> QED
      BY <1>2, <2>1 DEF At
  <1> DEFINE r == W[top + 1 - n]
  <1>9. r \in Word /\ Wn[top + 1] = r
    <2>1. top + 1 - n \in 1..top /\ top + 1 \in 1..(top + 1)
      BY <1>1
    <2> QED
      BY <1>2, <1>3, <1>6, <1>7, <1>8, <2>1
  <1>10. \A i \in 1..top : Wn[i] = W[i]
    BY <1>1, <1>2, <1>3, <1>6
  <1> HIDE DEF r, W, Wn, top, copy
  <1>11. Append(W, r) \in Seq(Word) /\ Len(Append(W, r)) = top + 1
    BY <1>2, <1>9
  <1>12. \A i \in 1..(top + 1) : Append(W, r)[i] = Wn[i]
    BY <1>1, <1>2, <1>9, <1>10
  <1>13. Wn = Append(W, r)
    BY <1>3, <1>6, <1>11, <1>12, SeqEqual
  <1> QED
    BY <1>1, <1>2, <1>3, <1>13 DEF Words!Dup, Words!At, W, Wn, r

(* SWAP *)
LEMMA SwapMaps ==
  ASSUME IInv, IInv', NEW n \in 1..16, Swap(n), foreign' = 0
  PROVE  Words!Swap(n)
  <1> DEFINE W  == WordsOf
             Wn == WordsOf'
             top == Len(stack)
             Ws == [W EXCEPT ![top] = W[top + 1 - (n + 1)], ![top - n] = W[top + 1 - 1]]
  <1>1. /\ foreign = 0 /\ n + 1 <= top /\ top \in Nat /\ last' = "SWAP" /\ val' = val
        /\ stack \in Seq(Foreign \cup 1..made)
    BY DEF Swap, Valid, IInv, TypeOK
  <1>2. /\ W \in Seq(Word) /\ Len(W) = top /\ \A i \in 1..top : W[i] = val[stack[i]]
    BY <1>1, WordsParts
  <1>3. /\ Wn \in Seq(Word) /\ Len(Wn) = Len(stack') /\ LastOf' = last'
        /\ \A i \in 1..Len(stack') : Wn[i] = val'[stack'[i]]
    <2>1. (IInv /\ foreign = 0 => /\ WordsOf \in Seq(Word) /\ Len(WordsOf) = Len(stack)
                                 /\ LastOf = last
                                 /\ \A i \in 1..Len(stack) : WordsOf[i] = val[stack[i]])'
      BY WordsParts, PTL
    <2> QED
      BY <2>1
  <1>4. /\ top + 1 - (n + 1) = top - n /\ top + 1 - 1 = top
        /\ top \in 1..top /\ top - n \in 1..top /\ top - n # top
    BY <1>1
  <1>5. stack' = [stack EXCEPT ![top] = stack[top + 1 - (n + 1)], ![top - n] = stack[top + 1 - 1]]
    BY DEF Swap, At
  <1>6. /\ Len(stack') = top /\ stack'[top] = stack[top - n] /\ stack'[top - n] = stack[top]
        /\ \A i \in 1..top : i # top /\ i # top - n => stack'[i] = stack[i]
    <2> DEFINE S == Foreign \cup 1..made
    <2>1. stack \in Seq(S)
      BY <1>1
    <2> HIDE DEF S
    <2> QED
      BY <1>1, <1>4, <1>5, <2>1
  <1> HIDE DEF W, Wn, top
  <1>7. /\ Ws \in Seq(Word) /\ Len(Ws) = top /\ Ws[top] = W[top - n] /\ Ws[top - n] = W[top]
        /\ \A i \in 1..top : i # top /\ i # top - n => Ws[i] = W[i]
    BY <1>2, <1>4
  <1> HIDE DEF Ws
  <1>8. \A i \in 1..top : Wn[i] = Ws[i]
    <2> SUFFICES ASSUME NEW i \in 1..top
                 PROVE  Wn[i] = Ws[i]
      OBVIOUS
    <2>1. Wn[i] = val[stack'[i]]
      BY <1>1, <1>3, <1>6
    <2>2. CASE i = top
      BY <1>2, <1>4, <1>6, <1>7, <2>1, <2>2
    <2>3. CASE i = top - n
      BY <1>2, <1>4, <1>6, <1>7, <2>1, <2>3
    <2>4. CASE i # top /\ i # top - n
      BY <1>2, <1>6, <1>7, <2>1, <2>4
    <2> QED
      BY <2>2, <2>3, <2>4
  <1>9. Wn = Ws
    BY <1>3, <1>6, <1>7, <1>8, SeqEqual
  <1>10. n < Len(W) /\ LastOf' = "SWAP"
    BY <1>1, <1>2, <1>3
  <1>11. Len(W) = top
    BY <1>2
  <1>12. Wn = [W EXCEPT ![Len(W)] = W[Len(W) + 1 - (n + 1)], ![Len(W) - n] = W[Len(W) + 1 - 1]]
    BY <1>9, <1>11 DEF Ws
  <1> QED
    BY <1>10, <1>12 DEF Words!Swap, Words!At, W, Wn

(* As long as only integers of this package are pushed the instructions     *)
(* work on words: the result of each is a word for its operands, and no    *)
(* other word of the stack changes, for any limits and values.             *)
THEOREM PointersActAsWords == Spec => Implements
  <1>1. Init => Words!Init
    <2> SUFFICES ASSUME Init
                 PROVE  Words!Init
      OBVIOUS
    <2>1. WordsOf = [i \in 1..0 |-> val[stack[i]]] /\ LastOf = "none"
      BY DEF Init, WordsOf, LastOf
    <2> QED
      BY <2>1 DEF Words!Init
  <1>2. IInv /\ IInv' /\ [Next]_vars => [Words!Next]_<<WordsOf, LastOf>>
    <2> SUFFICES ASSUME IInv, IInv', [Next]_vars
                 PROVE  [Words!Next]_<<WordsOf, LastOf>>
      OBVIOUS
    <2>1. CASE UNCHANGED vars
      BY <2>1 DEF vars, WordsOf, LastOf
    <2>2. CASE foreign' > 0
      BY <2>2, EndMaps
    <2>3. CASE NextRun \/ NewPool
      BY <2>3, EndMaps DEF NextRun, NewPool
    <2>4. ASSUME NEW op \in Ops, Exec(op), foreign' = 0
          PROVE  Words!Next
      <3>1. CASE op \in Halting
        <4>1. stack' = <<>> /\ last' = op
          BY <2>4, <3>1 DEF Exec, Takes
        <4> QED
          BY <3>1, <4>1, EndMaps
      <3>2. CASE op \notin Halting
        BY <2>4, <3>2, ExecMaps, SameTable DEF Words!Next
      <3> QED
        BY <3>1, <3>2
    <2>5. ASSUME NEW n \in 1..16, Dup(n) \/ Swap(n), foreign' = 0
          PROVE  Words!Next
      BY <2>5, DupMaps, SwapMaps DEF Words!Next
    <2>6. foreign' > 0 \/ foreign' = 0
      BY LimitAssumption DEF IInv, TypeOK
    <2> QED
      BY <2>1, <2>2, <2>3, <2>4, <2>5, <2>6 DEF Next
  <1> QED
    BY <1>1, <1>2, Invariant, PTL DEF Spec, Implements, Words!Spec
===========================================================================
