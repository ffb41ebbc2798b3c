--------------------------- MODULE MemoryProofs ---------------------------
(* Proofs about Memory, for any operands, prices and widths, and any quota *)
(* for which a price that wraps is too high to be paid.                    *)
EXTENDS Memory, TLAPS

-----------------------------------------------------------------------------
(* Arithmetic. *)

(* Squaring keeps the order. *)
LEMMA Squares ==
  ASSUME NEW a \in Nat, NEW b \in Nat, a <= b
  PROVE  a * a <= b * b
  <1>1. a * a <= a * b /\ a * b <= b * b
    OBVIOUS
  <1>2. a * a \in Nat /\ a * b \in Nat /\ b * b \in Nat
    OBVIOUS
  <1> QED
    BY <1>1, <1>2

(* So does multiplying, *)
LEMMA Multiples ==
  ASSUME NEW a \in Nat, NEW b \in Nat, a <= b, NEW c \in Nat
  PROVE  a * c <= b * c /\ a * c \in Nat /\ b * c \in Nat
  OBVIOUS

(* and dividing, rounded down. *)
LEMMA Quotients ==
  ASSUME NEW a \in Nat, NEW b \in Nat, a <= b, NEW d \in Nat \ {0}
  PROVE  a \div d <= b \div d /\ a \div d \in Nat /\ b \div d \in Nat
  OBVIOUS

(* A multiple is divided exactly. *)
LEMMA WholeMultiples ==
  ASSUME NEW k \in Nat, NEW d \in Nat \ {0}
  PROVE  (k * d) \div d = k /\ (k * d) % d = 0
  OBVIOUS

(* The widths of the code, as the provers need them. *)
LEMMA Bounds == 
  /\ MaxUint64 \in Nat /\ WordBytes \in Nat \ {0} /\ MemoryLimit \in Nat
  /\ QuadCoeffDiv \in Nat \ {0} /\ QuotaInit \in Nat /\ MemoryGas \in Nat
  /\ 2 * MemoryLimit < MaxUint64 /\ MemoryLimit + WordBytes <= MaxUint64
  /\ Width = MaxUint64 + 1 /\ Width \in Nat \ {0}
  BY WidthAssumption, PriceAssumption DEF Width, Uint64

-----------------------------------------------------------------------------
(* Sizes in words. *)

(* Rounding up: the words hold the bytes. *)
LEMMA RoundsUp ==
  ASSUME NEW size \in Nat
  PROVE  ToWordSize(size) \in Nat
         /\ (size <= MaxUint64 => size <= ToWordSize(size) * WordBytes)
  <1> DEFINE w == WordBytes
             m == MaxUint64
  <1>1. w \in Nat \ {0} /\ m \in Nat
    BY Bounds
  <1>2. ToWordSize(size) = IF size > m - (w - 1) THEN m \div w + 1 ELSE (size + w - 1) \div w
    BY DEF ToWordSize
  <1> HIDE DEF w, m
  <1>3. m \div w + 1 \in Nat /\ (m \div w + 1) * w > m
    BY <1>1
  <1>4. (size + w - 1) \div w \in Nat /\ size <= ((size + w - 1) \div w) * w
    BY <1>1
  <1> QED
    BY <1>1, <1>2, <1>3, <1>4 DEF w, m

(* A whole number of words below the limit is that number of words. *)
LEMMA WholeWords ==
  ASSUME NEW k \in Nat, k * WordBytes <= MemoryLimit
  PROVE  /\ ToWordSize(k * WordBytes) = k
         /\ (k * WordBytes) \div WordBytes = k
         /\ (k * WordBytes) % WordBytes = 0
         /\ k <= MostWords
  <1> DEFINE w == WordBytes
             n == k * w
  <1>1. w \in Nat \ {0} /\ n \in Nat /\ n <= MemoryLimit /\ MemoryLimit \in Nat
    BY Bounds
  <1>2. n \div w = k /\ n % w = 0
    BY <1>1, WholeMultiples
  <1>3. ~(n > MaxUint64 - (w - 1))
    BY <1>1, Bounds
  <1>4. ToWordSize(n) = (n + w - 1) \div w
    BY <1>3 DEF ToWordSize
  <1>5. (n + w - 1) \div w = k
    <2>1. k * w + (w - 1) = n + w - 1 /\ 0 <= w - 1 /\ w - 1 < w
      BY <1>1
    <2> HIDE DEF w
    <2>2. (k * w + (w - 1)) \div w = k
      BY <1>1
    <2> QED
      BY <2>1, <2>2
  <1>6. n \div w <= MemoryLimit \div w
    BY <1>1, Quotients
  <1> QED
    BY <1>2, <1>4, <1>5, <1>6 DEF MostWords

-----------------------------------------------------------------------------
(* Prices. *)

(* The price of memory is a number, *)
LEMMA TotalFeeIsNat ==
  ASSUME NEW k \in Nat
  PROVE  TotalFee(k) \in Nat
  <1>1. k * MemoryGas \in Nat /\ k * k \in Nat
    BY Bounds
  <1> QED
    BY <1>1, Quotients, Bounds DEF TotalFee

(* and more memory never costs less. *)
LEMMA TotalFeeGrows ==
  ASSUME NEW j \in Nat, NEW k \in Nat, j <= k
  PROVE  TotalFee(j) <= TotalFee(k)
  <1>1. j * MemoryGas <= k * MemoryGas /\ j * MemoryGas \in Nat /\ k * MemoryGas \in Nat
    BY Multiples, Bounds
  <1>2. j * j <= k * k /\ j * j \in Nat /\ k * k \in Nat
    BY Squares
  <1>3. (j * j) \div QuadCoeffDiv <= (k * k) \div QuadCoeffDiv
        /\ (j * j) \div QuadCoeffDiv \in Nat /\ (k * k) \div QuadCoeffDiv \in Nat
    BY <1>2, Quotients, Bounds
  <1> QED
    BY <1>1, <1>3 DEF TotalFee

(* The price computed modulo 2^64 is exact, or too high for any quota. *)
LEMMA WrappedIsExactOrHigh ==
  ASSUME NEW k \in 0..MostWords
  PROVE  /\ WrappedFee(k) \in 0..MaxUint64
         /\ WrappedFee(k) = TotalFee(k) \/ WrappedFee(k) > QuotaInit
  <1> DEFINE m == MaxUint64
             linear == k * MemoryGas
             square == k * k
             quad   == (square % Width) \div QuadCoeffDiv
  <1>1. k \in Nat /\ MostWords \in Nat /\ k <= MostWords
    BY Bounds, Quotients DEF MostWords
  <1>2. linear \in Nat /\ linear <= MostWords * MemoryGas /\ MostWords * MemoryGas \in Nat
        /\ square \in Nat
    BY <1>1, Multiples, Bounds
  <1>3. square % Width \in 0..m
    BY <1>2, Bounds
  <1>4. quad \in Nat /\ quad <= m \div QuadCoeffDiv
    <2>1. square % Width \in Nat /\ square % Width <= m /\ m \in Nat
      BY <1>3, Bounds
    <2> QED
      BY <2>1, Quotients, Bounds
  <1>5. linear + quad \in 0..m
    <2> HIDE DEF linear, quad
    <2> QED
      BY <1>2, <1>4, QuotaAssumption, Bounds, Quotients
  <1>6. WrappedFee(k) = (linear + quad) % Width
    BY DEF WrappedFee
  <1>7. WrappedFee(k) = linear + quad
    <2> HIDE DEF linear, quad
    <2> QED
      BY <1>5, <1>6, Bounds
  <1>8. CASE square <= m
    <2>1. square % Width = square
      <3> HIDE DEF square
      <3> QED
        BY <1>2, <1>8, Bounds
    <2> QED
      BY <1>5, <1>7, <2>1 DEF TotalFee
  <1>9. CASE square > m
    <2>1. linear > QuotaInit
      BY <1>9, QuotaAssumption
    <2> HIDE DEF linear, quad
    <2> QED
      BY <1>2, <1>4, <1>5, <1>7, <2>1, Bounds
  <1> QED
    BY <1>2, <1>8, <1>9, Bounds

-----------------------------------------------------------------------------
(* Operands, and what an instruction reads and writes. *)

(* An operand within the limit is its own low 64 bits, signed or not. *)
LEMMA Low64OfSmall ==
  ASSUME NEW x \in Nat, x <= MemoryLimit
  PROVE  U64(x) = x /\ I64(x) = x
  <1>1. x < Width /\ Width \in Nat /\ 2 * x < Width
    BY Bounds
  <1>2. U64(x) = x
    BY <1>1 DEF U64
  <1>3. x < Width \div 2
    BY <1>1, Bounds
  <1> QED
    BY <1>2, <1>3 DEF I64

(* So is zero. *)
LEMMA Low64OfZero ==
  U64(0) = 0 /\ I64(0) = 0
  BY Low64OfSmall, Bounds

(* Memory of n bytes that covers what calcMemSize finds for an offset and a *)
(* size covers what an instruction accesses with their low 64 bits.        *)
LEMMA SpanInside ==
  ASSUME NEW off \in Nat, NEW l \in Nat, NEW n \in Nat,
         CalcMemSize(off, l) <= n, n <= MemoryLimit
  PROVE  /\ Inside(<<I64(off), I64(l)>>, n)
         /\ Inside(<<U64(off), U64(l)>>, n)
         /\ l > 0 => Inside(<<I64(off), l>>, n) /\ Inside(<<U64(off), l>>, n)
  <1>1. CASE l = 0
    BY <1>1, Low64OfZero DEF Inside
  <1>2. CASE l > 0
    <2>1. off + l <= n /\ off <= MemoryLimit /\ l <= MemoryLimit
      BY <1>2, Bounds DEF CalcMemSize
    <2>2. U64(off) = off /\ I64(off) = off /\ U64(l) = l /\ I64(l) = l
      BY <2>1, Low64OfSmall
    <2> QED
      BY <1>2, <2>1, <2>2 DEF Inside
  <1> QED
    BY <1>1, <1>2

(* calcMemSize returns a number of any size. *)
LEMMA CalcIsNat ==
  ASSUME NEW off \in Nat, NEW l \in Nat
  PROVE  CalcMemSize(off, l) \in Nat
  BY DEF CalcMemSize

(* What the proofs use of an instruction and its operands. *)
WellSized(op, st) ==
  /\ MemorySize(op, st) \in Nat /\ DataSize(op, st) \in Nat /\ BasePrice(op) \in Nat
  /\ \A n \in Nat : MemorySize(op, st) <= n /\ n <= MemoryLimit =>
       \A a \in Accesses(op, st) : Inside(a, n)

(* The operands an instruction looks at are unsigned integers. *)
LEMMA OperandsAreNat ==
  ASSUME NEW op \in MemoryOps, NEW st \in Operands(op),
         NEW n \in Nat, (IF op \in LogOps THEN 2 ELSE StackIn(op)) = n
  PROVE  \A i \in 1..n : st[i] \in Nat
  BY IntsAssumption DEF Operands

(* BLAKE2B, LOG, RETURN and REVERT: an offset and a size. *)
LEMMA TwoOperands ==
  ASSUME NEW op \in {"BLAKE2B", "RETURN", "REVERT"} \cup LogOps, NEW st \in Operands(op)
  PROVE  WellSized(op, st)
  <1>1. (IF op \in LogOps THEN 2 ELSE StackIn(op)) = 2
    BY DEF StackIn, LogOps, NoOperands, Sources, Unary, Binary, Modular, Copies, Stores
  <1>2. st[1] \in Nat /\ st[2] \in Nat
    BY <1>1, OperandsAreNat DEF MemoryOps
  <1>3. MemorySize(op, st) = CalcMemSize(st[1], st[2])
    BY DEF MemorySize, Copies, LogOps
  <1>4. DataSize(op, st) \in Nat
    BY <1>2 DEF DataSize, Copies, LogOps
  <1>5. BasePrice(op) \in Nat
    <2>1. CASE op \in LogOps
      <3>1. Topics[op] \in Nat
        BY <2>1 DEF Topics, LogOps
      <3>2. Topics[op] * LogTopicGas \in Nat
        BY <3>1, PriceAssumption DEF Uint64
      <3>3. BasePrice(op) = LogGas + Topics[op] * LogTopicGas
        BY <2>1 DEF BasePrice, Copies, LogOps
      <3> QED
        BY <3>2, <3>3, PriceAssumption DEF Uint64
    <2>2. CASE op \in {"BLAKE2B", "RETURN", "REVERT"}
      BY <2>2, PriceAssumption DEF BasePrice, Uint64, Copies, LogOps
    <2> QED
      BY <2>1, <2>2
  <1>6. Accesses(op, st) = {<<I64(st[1]), I64(st[2])>>}
    BY DEF Accesses, Copies, LogOps
  <1>7. ASSUME NEW n \in Nat, MemorySize(op, st) <= n, n <= MemoryLimit
        PROVE  \A a \in Accesses(op, st) : Inside(a, n)
    BY <1>2, <1>3, <1>6, <1>7, SpanInside
  <1>8. MemorySize(op, st) \in Nat
    BY <1>2, <1>3, CalcIsNat
  <1> QED
    BY <1>2, <1>4, <1>5, <1>7, <1>8 DEF WellSized

(* CALLDATACOPY, CODECOPY and RETURNDATACOPY: where to, where from, how much. *)
LEMMA CopyOperands ==
  ASSUME NEW op \in Copies, NEW st \in Operands(op)
  PROVE  WellSized(op, st)
  <1>1. (IF op \in LogOps THEN 2 ELSE StackIn(op)) = 3
    BY DEF StackIn, LogOps, NoOperands, Sources, Unary, Binary, Modular, Copies, Stores
  <1>2. st[1] \in Nat /\ st[2] \in Nat /\ st[3] \in Nat
    <2>1. op \in MemoryOps
      BY DEF MemoryOps
    <2>2. \A i \in 1..3 : st[i] \in Nat
      BY <1>1, <2>1, OperandsAreNat
    <2> QED
      BY <2>2
  <1>3. MemorySize(op, st) = CalcMemSize(st[1], st[3])
    BY DEF MemorySize, Copies, LogOps
  <1>4. DataSize(op, st) = st[3]
    BY DEF DataSize, Copies, LogOps
  <1>5. BasePrice(op) \in Nat
    BY PriceAssumption DEF BasePrice, Uint64, Copies, LogOps
  <1>6. Accesses(op, st) \subseteq {<<U64(st[1]), U64(st[3])>>}
    BY DEF Accesses, Copies, LogOps
  <1>7. ASSUME NEW n \in Nat, MemorySize(op, st) <= n, n <= MemoryLimit
        PROVE  \A a \in Accesses(op, st) : Inside(a, n)
    BY <1>2, <1>3, <1>6, <1>7, SpanInside
  <1>8. MemorySize(op, st) \in Nat
    BY <1>2, <1>3, CalcIsNat
  <1> QED
    BY <1>2, <1>4, <1>5, <1>7, <1>8 DEF WellSized

(* MLOAD, MSTORE and MSTORE8: an offset, and a size that is fixed. *)
LEMMA WordOperands ==
  ASSUME NEW op \in {"MLOAD", "MSTORE", "MSTORE8"}, NEW st \in Operands(op)
  PROVE  WellSized(op, st)
  <1>1. (IF op \in LogOps THEN 2 ELSE StackIn(op)) = (IF op = "MLOAD" THEN 1 ELSE 2)
    BY DEF StackIn, LogOps, NoOperands, Sources, Unary, Binary, Modular, Copies, Stores
  <1>2. st[1] \in Nat
    BY <1>1, OperandsAreNat DEF MemoryOps
  <1> DEFINE l == IF op = "MSTORE8" THEN 1 ELSE WordBytes
  <1>3. MemorySize(op, st) = CalcMemSize(st[1], l)
    BY DEF MemorySize, Copies, LogOps
  <1>4. DataSize(op, st) = 0
    BY DEF DataSize, Copies, LogOps
  <1>5. BasePrice(op) \in Nat
    BY PriceAssumption DEF BasePrice, Uint64, Copies, LogOps
  <1>6. Accesses(op, st) \subseteq {<<I64(st[1]), l>>, <<U64(st[1]), l>>}
    BY DEF Accesses, Copies, LogOps
  <1>7. l \in Nat /\ l > 0
    BY Bounds
  <1>8. ASSUME NEW n \in Nat, MemorySize(op, st) <= n, n <= MemoryLimit
        PROVE  \A a \in Accesses(op, st) : Inside(a, n)
    BY <1>2, <1>3, <1>6, <1>7, <1>8, SpanInside
  <1>9. MemorySize(op, st) \in Nat
    BY <1>2, <1>3, <1>7, CalcIsNat
  <1> QED
    BY <1>4, <1>5, <1>8, <1>9 DEF WellSized

(* EXTCODECOPY: as the other copies, below the address. *)
LEMMA ExtCodeCopyOperands ==
  ASSUME NEW st \in Operands("EXTCODECOPY")
  PROVE  WellSized("EXTCODECOPY", st)
  <1> DEFINE op == "EXTCODECOPY"
  <1>1. (IF op \in LogOps THEN 2 ELSE StackIn(op)) = 4
    BY DEF StackIn, LogOps, NoOperands, Sources, Unary, Binary, Modular, Copies, Stores
  <1>2. st[2] \in Nat /\ st[4] \in Nat
    BY <1>1, OperandsAreNat DEF MemoryOps
  <1>3. MemorySize(op, st) = CalcMemSize(st[2], st[4])
    BY DEF MemorySize, Copies, LogOps
  <1>4. DataSize(op, st) = st[4]
    BY DEF DataSize, Copies, LogOps
  <1>5. BasePrice(op) \in Nat
    BY PriceAssumption DEF BasePrice, Uint64, Copies, LogOps
  <1>6. Accesses(op, st) = {<<U64(st[2]), U64(st[4])>>}
    BY DEF Accesses, Copies, LogOps
  <1>7. ASSUME NEW n \in Nat, MemorySize(op, st) <= n, n <= MemoryLimit
        PROVE  \A a \in Accesses(op, st) : Inside(a, n)
    BY <1>2, <1>3, <1>6, <1>7, SpanInside
  <1>8. MemorySize(op, st) \in Nat
    BY <1>2, <1>3, CalcIsNat
  <1> QED
    BY <1>2, <1>4, <1>5, <1>7, <1>8 DEF WellSized

(* DELEGATECALL: the larger of what is read and what is written. *)
LEMMA DelegateCallOperands ==
  ASSUME NEW st \in Operands("DELEGATECALL")
  PROVE  WellSized("DELEGATECALL", st)
  <1> DEFINE op == "DELEGATECALL"
             i  == CalcMemSize(st[2], st[3])
             o  == CalcMemSize(st[4], st[5])
  <1>1. (IF op \in LogOps THEN 2 ELSE StackIn(op)) = 5
    BY DEF StackIn, LogOps, NoOperands, Sources, Unary, Binary, Modular, Copies, Stores
  <1>2. st[2] \in Nat /\ st[3] \in Nat /\ st[4] \in Nat /\ st[5] \in Nat
    BY <1>1, OperandsAreNat DEF MemoryOps
  <1>3. MemorySize(op, st) = BigMax(o, i)
    BY DEF MemorySize, Copies, LogOps
  <1>4. DataSize(op, st) = 0
    BY DEF DataSize, Copies, LogOps
  <1>5. BasePrice(op) \in Nat
    BY PriceAssumption DEF BasePrice, Uint64, Copies, LogOps
  <1>6. Accesses(op, st) = {<<I64(st[2]), I64(st[3])>>, <<U64(st[4]), U64(st[5])>>}
    BY DEF Accesses, Copies, LogOps
  <1>7. i \in Nat /\ o \in Nat
    BY <1>2, CalcIsNat
  <1>8. \A n \in Nat : BigMax(o, i) <= n => i <= n /\ o <= n
    BY <1>7 DEF BigMax
  <1>9. BigMax(o, i) \in Nat
    BY <1>7 DEF BigMax
  <1>10. ASSUME NEW n \in Nat, MemorySize(op, st) <= n, n <= MemoryLimit
         PROVE  \A a \in Accesses(op, st) : Inside(a, n)
    <2>1. i <= n /\ o <= n
      BY <1>3, <1>8, <1>10
    <2>2. Inside(<<I64(st[2]), I64(st[3])>>, n)
      BY <1>2, <1>10, <2>1, SpanInside
    <2>3. Inside(<<U64(st[4]), U64(st[5])>>, n)
      BY <1>2, <1>10, <2>1, SpanInside
    <2> QED
      BY <1>6, <2>2, <2>3
  <1> QED
    BY <1>3, <1>4, <1>5, <1>9, <1>10 DEF WellSized

(* memory_table.go covers what instructions.go accesses, for each opcode. *)
LEMMA EveryInstructionIsWellSized ==
  ASSUME NEW op \in MemoryOps, NEW st \in Operands(op)
  PROVE  WellSized(op, st)
  BY TwoOperands, CopyOperands, WordOperands, ExtCodeCopyOperands, DelegateCallOperands
     DEF MemoryOps

-----------------------------------------------------------------------------
(* The invariant. *)

(* A size that has a price is a whole number of words within the limit. *)
LEMMA NewSizeIsWhole ==
  ASSUME NEW op \in MemoryOps, NEW st \in Operands(op), MemoryPriced(op, st)
  PROVE  \E k \in 0..MostWords :
           /\ NewSize(op, st) = k * WordBytes /\ NewSize(op, st) \in 0..MemoryLimit
           /\ ToWordSize(NewSize(op, st)) = k
           /\ NewSize(op, st) \div WordBytes = k /\ NewSize(op, st) % WordBytes = 0
           /\ MemorySize(op, st) <= NewSize(op, st)
  <1> DEFINE s == MemorySize(op, st)
             k == ToWordSize(s)
  <1>1. s \in Nat /\ s <= MaxUint64 /\ NewSize(op, st) <= MemoryLimit
    BY EveryInstructionIsWellSized DEF WellSized, MemoryPriced, SizeFits
  <1>2. NewSize(op, st) = k * WordBytes
    BY DEF NewSize
  <1>3. k \in Nat /\ s <= k * WordBytes
    BY <1>1, RoundsUp
  <1>4. k * WordBytes \in Nat
    BY <1>3, Bounds
  <1> HIDE DEF k, s
  <1>5. /\ ToWordSize(k * WordBytes) = k /\ (k * WordBytes) \div WordBytes = k
        /\ (k * WordBytes) % WordBytes = 0 /\ k <= MostWords
    BY <1>1, <1>2, <1>3, WholeWords
  <1>6. k \in 0..MostWords
    BY <1>3, <1>5, Bounds, Quotients DEF MostWords
  <1> QED
    BY <1>1, <1>2, <1>3, <1>4, <1>5, <1>6, Bounds DEF s

(* The price besides the memory is a number. *)
LEMMA ExtraIsNat ==
  ASSUME NEW op \in MemoryOps, NEW st \in Operands(op)
  PROVE  Extra(op, st) \in Nat
  <1> DEFINE size == DataSize(op, st)
  <1>1. size \in Nat /\ BasePrice(op) \in Nat
    BY EveryInstructionIsWellSized DEF WellSized
  <1>2. ToWordSize(size) \in Nat
    BY <1>1, RoundsUp
  <1> HIDE DEF size
  <1>3. /\ size * LogDataGas \in Nat /\ ToWordSize(size) * Blake2bWordGas \in Nat
        /\ ToWordSize(size) * CopyGas \in Nat
    BY <1>1, <1>2, PriceAssumption DEF Uint64
  <1>4. DataPrice(op, size) \in Nat
    BY <1>3 DEF DataPrice, LogOps
  <1> QED
    BY <1>1, <1>4 DEF Extra, size

(* A size that is priced, and whose price can be paid, is charged exactly   *)
(* what the words that are added should cost.                              *)
LEMMA FeeIsExact ==
  ASSUME IInv, status = "running", NEW k \in 0..MostWords, NEW n \in 0..MemoryLimit,
         n = k * WordBytes, ToWordSize(n) = k, n \div WordBytes = k, Fee(n) <= quotaLeft
  PROVE  /\ Fee(n) = Growth(n) /\ Growth(n) \in Nat
         /\ NewLast(n) = TotalFee(BigMax(memLen, n) \div WordBytes)
         /\ NewLast(n) = TotalFee(MemWords) + Growth(n)
         /\ NewLast(n) \in Uint64
  <1>1. /\ memLen \in Nat /\ lastGasCost \in Uint64 /\ quotaLeft \in 0..QuotaInit
        /\ lastGasCost = TotalFee(MemWords) /\ TotalFee(MemWords) <= QuotaInit - quotaLeft
    BY Bounds DEF IInv, TypeOK, FeeOfMemory, MemoryIsPaidFor
  <1>2. MemWords \in Nat
    BY <1>1, Quotients, Bounds DEF MemWords
  <1>3. TotalFee(MemWords) \in Nat
    BY <1>2, TotalFeeIsNat
  <1>4. CASE ~Grows(n)
    <2>1. n \in Nat /\ ~(memLen < n)
      BY <1>4, <1>1, Bounds DEF Grows
    <2>2. Fee(n) = 0 /\ Growth(n) = 0 /\ NewLast(n) = lastGasCost
      BY <1>4 DEF Fee, Growth, NewLast
    <2>3. BigMax(memLen, n) = memLen
      BY <2>1 DEF BigMax
    <2> QED
      BY <1>1, <1>3, <2>2, <2>3 DEF MemWords
  <1>5. CASE Grows(n)
    <2> DEFINE W  == WrappedFee(k)
               T0 == TotalFee(MemWords)
               T1 == TotalFee(k)
    <2>1. n \in Nat /\ memLen < n
      BY <1>5, <1>1, Bounds DEF Grows
    <2>2. k \in Nat /\ MemWords <= k
      BY <1>1, <2>1, Quotients, Bounds DEF MemWords
    <2>3. T1 \in Nat /\ T0 <= T1
      BY <1>2, <2>2, TotalFeeIsNat, TotalFeeGrows
    <2>4. W \in 0..MaxUint64 /\ (W = T1 \/ W > QuotaInit)
      BY WrappedIsExactOrHigh
    <2>5. Fee(n) = (W - T0) % Width /\ NewLast(n) = W /\ Growth(n) = T1 - T0
      BY <1>1, <1>5 DEF Fee, NewLast, Growth
    <2>6. BigMax(memLen, n) = n
      BY <2>1 DEF BigMax
    <2> HIDE DEF W, T0, T1
    <2>7. T0 \in Nat /\ T0 <= QuotaInit - quotaLeft /\ quotaLeft \in Nat /\ QuotaInit \in Nat
      BY <1>1, <1>3, Bounds DEF T0
    <2>8. W >= T0
      BY <2>3, <2>4, <2>7
    <2>9. (W - T0) % Width = W - T0
      BY <2>4, <2>7, <2>8, Bounds
    <2>10. W = T1
      BY <2>4, <2>5, <2>7, <2>9
    <2>11. /\ Fee(n) = Growth(n) /\ Growth(n) \in Nat /\ NewLast(n) = T1
           /\ NewLast(n) = T0 + Growth(n) /\ NewLast(n) \in Uint64
      BY <2>3, <2>4, <2>5, <2>7, <2>9, <2>10, Bounds DEF Uint64
    <2> QED
      BY <2>6, <2>11 DEF T0, T1
  <1> QED
    BY <1>4, <1>5

(* An instruction that is paid and executed keeps the invariant. *)
LEMMA ExecuteKeeps ==
  ASSUME IInv, NEW op \in MemoryOps, NEW st \in Operands(op), Execute(op, st)
  PROVE  IInv'
  <1> DEFINE n == NewSize(op, st)
             e == Extra(op, st)
             len == BigMax(memLen, n)
  <1>1. status = "running" /\ MemoryPriced(op, st) /\ Fee(n) + e <= quotaLeft
    BY Bounds, ExtraIsNat DEF Execute, Priced, Price, IInv, TypeOK
  <1>2. PICK k \in 0..MostWords :
          /\ n = k * WordBytes /\ n \in 0..MemoryLimit /\ ToWordSize(n) = k
          /\ n \div WordBytes = k /\ n % WordBytes = 0 /\ MemorySize(op, st) <= n
    BY <1>1, NewSizeIsWhole
  <1>3. e \in Nat
    BY ExtraIsNat
  <1>4. /\ memLen \in 0..MemoryLimit /\ memLen % WordBytes = 0 /\ quotaLeft \in 0..QuotaInit
        /\ due \in Nat /\ lastGasCost \in Uint64 /\ QuotaInit - quotaLeft = due
        /\ TotalFee(MemWords) <= QuotaInit - quotaLeft
    BY DEF IInv, TypeOK, PaidInFull, MemoryIsPaidFor
  <1>5. Fee(n) \in Int
    <2>1. k \in Nat /\ MostWords \in Nat
      BY Bounds, Quotients DEF MostWords
    <2>2. WrappedFee(k) \in Nat
      BY WrappedIsExactOrHigh, Bounds
    <2> QED
      BY <1>2, <1>4, <2>2, Bounds DEF Fee, Uint64
  <1>6. Fee(n) <= quotaLeft
    BY <1>1, <1>3, <1>4, <1>5, Bounds
  <1>7. /\ Fee(n) = Growth(n) /\ Growth(n) \in Nat
        /\ NewLast(n) = TotalFee(len \div WordBytes)
        /\ NewLast(n) = TotalFee(MemWords) + Growth(n) /\ NewLast(n) \in Uint64
    BY <1>1, <1>2, <1>6, FeeIsExact
  <1>8. /\ quotaLeft' = quotaLeft - (Fee(n) + e) /\ memLen' = len
        /\ lastGasCost' = NewLast(n) /\ due' = due + Growth(n) + e
    BY DEF Execute, Price
  <1>9. len \in 0..MemoryLimit /\ len % WordBytes = 0 /\ n <= len
    BY <1>2, <1>4, Bounds DEF BigMax
  <1>10. \A a \in Accesses(op, st) : Inside(a, len)
    <2>1. MemorySize(op, st) \in Nat /\ MemorySize(op, st) <= len /\ len \in Nat /\ len <= MemoryLimit
      BY <1>2, <1>9, EveryInstructionIsWellSized, Bounds DEF WellSized
    <2> QED
      BY <2>1, EveryInstructionIsWellSized DEF WellSized
  <1>11. status' \in {"running", "ended", "failed"}
    BY <1>8, <1>10 DEF Execute
  <1>12. MemWords' = len \div WordBytes
    BY <1>8 DEF MemWords
  <1>13. TotalFee(MemWords)' = TotalFee(MemWords) + Growth(n)
    <2>1. TotalFee(MemWords)' = TotalFee(MemWords')
      BY DEF TotalFee
    <2> QED
      BY <1>7, <1>12, <2>1
  <1>14. TotalFee(MemWords) \in Nat
    BY <1>4, TotalFeeIsNat, Quotients, Bounds DEF MemWords
  <1> HIDE DEF n, e, len
  <1>15. /\ quotaLeft' \in 0..QuotaInit /\ due' \in Nat
         /\ QuotaInit - quotaLeft' = due'
         /\ TotalFee(MemWords)' <= QuotaInit - quotaLeft'
    BY <1>1, <1>3, <1>4, <1>7, <1>8, <1>13, <1>14, Bounds
  <1> QED
    BY <1>7, <1>8, <1>9, <1>11, <1>13, <1>15
       DEF IInv, TypeOK, NeverOutside, FeeOfMemory, PaidInFull, MemoryIsPaidFor

(* Running out of quota, or meeting a price that does not fit, spoils       *)
(* lastGasCost at most, and ends the run.                                  *)
LEMMA FailureKeeps ==
  ASSUME IInv, NEW op \in MemoryOps, NEW st \in Operands(op),
         GasUintOverflow(op, st) \/ OutOfQuota(op, st)
  PROVE  IInv'
  <1>1. /\ status' = "failed" /\ UNCHANGED <<memLen, quotaLeft, due>>
        /\ lastGasCost' = lastGasCost \/ (MemoryPriced(op, st) /\ lastGasCost' = NewLast(NewSize(op, st)))
    BY DEF GasUintOverflow, OutOfQuota, Priced
  <1>2. lastGasCost \in Uint64
    BY DEF IInv, TypeOK
  <1>3. lastGasCost' \in Uint64
    <2>1. CASE MemoryPriced(op, st) /\ lastGasCost' = NewLast(NewSize(op, st))
      <3>1. PICK k \in 0..MostWords : ToWordSize(NewSize(op, st)) = k
        BY <2>1, NewSizeIsWhole
      <3>2. WrappedFee(k) \in Uint64
        BY WrappedIsExactOrHigh DEF Uint64
      <3> QED
        BY <1>2, <2>1, <3>1, <3>2 DEF NewLast
    <2> QED
      BY <1>1, <1>2, <2>1
  <1>4. (MemWords = MemWords') /\ (TotalFee(MemWords))' = TotalFee(MemWords)
    BY <1>1 DEF MemWords, TotalFee
  <1> QED
    BY <1>1, <1>3, <1>4
       DEF IInv, TypeOK, NeverOutside, FeeOfMemory, PaidInFull, MemoryIsPaidFor

(* So does one that does not touch the memory. *)
LEMMA PlainKeeps ==
  ASSUME IInv, NEW cost \in StepGas, Plain(cost)
  PROVE  IInv'
  <1>1. /\ memLen \in 0..MemoryLimit /\ quotaLeft \in 0..QuotaInit /\ due \in Nat
        /\ QuotaInit - quotaLeft = due /\ TotalFee(MemWords) <= QuotaInit - quotaLeft
    BY DEF IInv, TypeOK, PaidInFull, MemoryIsPaidFor
  <1>2. cost \in Nat
    BY PriceAssumption DEF Uint64
  <1>3. (TotalFee(MemWords))' = TotalFee(MemWords)
    BY DEF Plain, MemWords, TotalFee
  <1>4. TotalFee(MemWords) \in Nat
    BY <1>1, TotalFeeIsNat, Quotients, Bounds DEF MemWords
  <1>5. /\ quotaLeft' = quotaLeft - cost /\ due' = due + cost /\ cost <= quotaLeft
        /\ UNCHANGED <<memLen, lastGasCost, status>>
    BY DEF Plain
  <1>6. /\ quotaLeft' \in 0..QuotaInit /\ due' \in Nat /\ QuotaInit - quotaLeft' = due'
        /\ TotalFee(MemWords)' <= QuotaInit - quotaLeft'
    BY <1>1, <1>2, <1>3, <1>4, <1>5, Bounds
  <1> QED
    BY <1>3, <1>5, <1>6
       DEF IInv, TypeOK, NeverOutside, FeeOfMemory, PaidInFull, MemoryIsPaidFor

(* The invariant holds of a new run, *)
LEMMA InitHolds == Init => IInv
  <1> SUFFICES ASSUME Init PROVE IInv
    OBVIOUS
  <1>1. MemWords = 0
    BY Bounds DEF Init, MemWords
  <1>2. TotalFee(0) = 0
    BY Bounds DEF TotalFee
  <1>3. memLen % WordBytes = 0
    BY Bounds DEF Init
  <1> QED
    BY <1>1, <1>2, <1>3, Bounds
       DEF Init, IInv, TypeOK, NeverOutside, FeeOfMemory, PaidInFull, MemoryIsPaidFor, Uint64

(* and always. *)
LEMMA Invariance == Spec => []IInv
  <1>1. IInv /\ [Next]_vars => IInv'
    <2> SUFFICES ASSUME IInv, [Next]_vars PROVE IInv'
      OBVIOUS
    <2>1. CASE UNCHANGED vars
      BY <2>1 DEF vars, IInv, TypeOK, NeverOutside, FeeOfMemory, PaidInFull, MemoryIsPaidFor,
         MemWords, TotalFee
    <2> QED
      BY <2>1, ExecuteKeeps, FailureKeeps, PlainKeeps DEF Next
  <1> QED
    BY <1>1, InitHolds, PTL DEF Spec

-----------------------------------------------------------------------------
(* The size of the memory stays below its limit and a whole number of      *)
(* words, and the quota never below zero (gas_table.go:12-33, vm.go:329).  *)
THEOREM TypeCorrect == Spec => []TypeOK
  <1>1. IInv => TypeOK
    BY DEF IInv
  <1> QED
    BY <1>1, Invariance, PTL

(* No instruction reads or writes outside the memory that was resized for  *)
(* it, whatever integers the code computes (memory_table.go).              *)
THEOREM AccessesAreInside == Spec => []NeverOutside
  <1>1. IInv => NeverOutside
    BY DEF IInv
  <1> QED
    BY <1>1, Invariance, PTL

(* lastGasCost is the price of the memory while the code runs, though it is *)
(* assigned before the price is paid (gas_table.go:27).                    *)
THEOREM LastFeeIsOfTheMemory == Spec => []FeeOfMemory
  <1>1. IInv => FeeOfMemory
    BY DEF IInv
  <1> QED
    BY <1>1, Invariance, PTL

(* No run pays a price that wrapped, for every quota that is too small for  *)
(* the linear part of such a price (gas_table.go:21-26).                   *)
THEOREM PricesArePaidInFull == Spec => []PaidInFull
  <1>1. IInv => PaidInFull
    BY DEF IInv
  <1> QED
    BY <1>1, Invariance, PTL

(* The quota bounds the memory of a run (vm.go:285-292).                   *)
THEOREM NoFreeMemory == Spec => []MemoryIsPaidFor
  <1>1. IInv => MemoryIsPaidFor
    BY DEF IInv
  <1> QED
    BY <1>1, Invariance, PTL
===========================================================================
