------------------------------- MODULE Arith -------------------------------
(***************************************************************************)
(* What the instructions compute: 256-bit arithmetic on unbounded integers *)
(* (src/vm/instructions.go:14-330, src/vm/math_big.go), integers as bytes, *)
(* slices of data and code padded with zeros (src/vm/common.go), and       *)
(* uint64 arithmetic with overflow tests (src/vm/math_integer.go).         *)
(*                                                                         *)
(* Every width is a constant: bytes of ByteBits bits, words of WordBytes   *)
(* bytes, and the limbs of LimbBytes bytes of which math/big makes its     *)
(* integers.  A state is one instruction, its operands, the top of the     *)
(* stack first, and, once it is executed, its result.                      *)
(***************************************************************************)
EXTENDS Integers, Sequences

CONSTANTS
  ByteBits, WordBytes, LimbBytes,
  Words,         \* operands of instructions with one or two operands
  SomeWords,     \* operands of those with three
  Datas,         \* call data and code, sequences of bytes
  Offsets,       \* offsets and sizes
  ExpByteGas, SlowStepGas

VARIABLES op, args, data, result, done

vars == <<op, args, data, result, done>>

(* BigPow(2, n), as a recursive function so that it can be reasoned about. *)
TwoTo[n \in Nat] == IF n = 0 THEN 1 ELSE 2 * TwoTo[n - 1]

Bits     == ByteBits * WordBytes
Modulus  == TwoTo[Bits]               \* tt256
Half     == TwoTo[Bits - 1]           \* tt255
Byte     == TwoTo[ByteBits]
LimbBits == ByteBits * LimbBytes
Limb     == TwoTo[LimbBits]

(* A word has a power of two bytes, as 32 is one. *)
ASSUME WidthAssumption ==
  /\ ByteBits \in Nat \ {0} /\ WordBytes \in Nat \ {0} /\ LimbBytes \in Nat \ {0}
  /\ \E k \in 0..Bits : WordBytes = TwoTo[k]

(* What is on the stack are words, code and data are bytes, and offsets are *)
(* integers of any size.                                                   *)
ASSUME OperandAssumption ==
  /\ Words \subseteq 0..(Modulus - 1) /\ SomeWords \subseteq Words
  /\ Datas \subseteq Seq(0..(Byte - 1)) /\ Offsets \subseteq Nat

(* The price of the longest exponent, 1610 in the code, is far below 2^64. *)
ASSUME PriceAssumption ==
  /\ ExpByteGas \in Nat /\ SlowStepGas \in Nat
  /\ WordBytes * ExpByteGas + SlowStepGas < Modulus

-----------------------------------------------------------------------------
(* math_big.go *)

U256Mutant(x) == x

U256(x) == x % Modulus
S256(x) == IF x < Half THEN x ELSE x - Modulus
Abs(x)  == IF x < 0 THEN -x ELSE x
Sign(x) == CASE x < 0 -> -1 [] x = 0 -> 0 [] x > 0 -> 1

(* The limbs of x, as big.Int.Bits gives them: the lowest first, the       *)
(* highest not zero.                                                       *)
LimbCount(x) == CHOOSE n \in 0..WordBytes : /\ x < TwoTo[LimbBits * n]
                                            /\ \A m \in 0..(n - 1) : x >= TwoTo[LimbBits * m]
LimbAt(x, i) == (x \div TwoTo[LimbBits * i]) % Limb

(* Exp: one round per bit of every limb of the exponent, the result and the *)
(* squared base after k rounds.                                            *)
ExpMutant(base, exponent) == U256(base * exponent)

Exp(base, exponent) ==
  LET bit(k) == (LimbAt(exponent, k \div LimbBits) \div TwoTo[k % LimbBits]) % 2
      loop[k \in Nat] ==
        IF k = 0 THEN [result |-> 1, base |-> base]
        ELSE LET was == loop[k - 1]
             IN  [result |-> IF bit(k - 1) = 1 THEN U256(was.result * was.base) ELSE was.result,
                  base   |-> U256(was.base * was.base)]
  IN  loop[LimbCount(exponent) * LimbBits].result

(* bigEndianByteAt: the n-th byte from below. *)
ByteAtMutant(x, n) ==
  IF n \div LimbBytes >= LimbCount(x) THEN 0
  ELSE (LimbAt(x, n \div LimbBytes) \div TwoTo[ByteBits * n]) % Byte

ByteAt(x, n) ==
  IF n \div LimbBytes >= LimbCount(x) THEN 0
  ELSE (LimbAt(x, n \div LimbBytes) \div TwoTo[ByteBits * (n % LimbBytes)]) % Byte

(* ReadBits into WordBytes bytes of zero, the lowest byte last. *)
ReadBits(x) == [i \in 1..WordBytes |-> ByteAt(x, WordBytes - i)]

(* big.Int.SetBytes *)
SetBytes(bytes) ==
  LET value[n \in 0..Len(bytes)] == IF n = 0 THEN 0 ELSE value[n - 1] * Byte + bytes[n]
  IN  value[Len(bytes)]

-----------------------------------------------------------------------------
(* The arithmetic instructions: x is popped first. *)

Div(x, y)  == IF y # 0 THEN U256(x \div y) ELSE 0

SdivMutant(x, y) == IF S256(x) = 0 \/ S256(y) = 0 THEN 0 ELSE U256(S256(x) \div S256(y))

Sdiv(x, y) ==
  LET a == S256(x)
      b == S256(y)
      q == Abs(a) \div Abs(b)
  IN  IF b = 0 \/ a = 0 THEN 0
      ELSE U256(IF Sign(a) # Sign(b) THEN -q ELSE q)

Mod(x, y) == IF y = 0 THEN 0 ELSE U256(x % y)

Smod(x, y) ==
  LET a == S256(x)
      b == S256(y)
      r == Abs(a) % Abs(b)
  IN  IF b = 0 THEN 0 ELSE U256(IF a < 0 THEN -r ELSE r)

Addmod(x, y, z) == IF z > 0 THEN U256((x + y) % z) ELSE 0
Mulmod(x, y, z) == IF z > 0 THEN U256((x * y) % z) ELSE 0

(* mask is 2^bit - 1: And keeps the low bits, Or with its complement sets   *)
(* all the others, for an integer of unlimited length.                     *)
SignExtendMutant(back, num) ==
  IF back < WordBytes - 1
  THEN LET bit == back * ByteBits + ByteBits
       IN  U256(IF (num \div TwoTo[bit]) % 2 > 0 THEN (num % TwoTo[bit]) - TwoTo[bit] ELSE num % TwoTo[bit])
  ELSE num

SignExtend(back, num) ==
  IF back < WordBytes - 1
  THEN LET bit == back * ByteBits + ByteBits - 1
       IN  U256(IF (num \div TwoTo[bit]) % 2 > 0 THEN (num % TwoTo[bit]) - TwoTo[bit] ELSE num % TwoTo[bit])
  ELSE num

Flag(b) == IF b THEN 1 ELSE 0

Slt(x, y) == CASE x >= Half /\ y < Half -> 1
               [] x < Half /\ y >= Half -> 0
               [] OTHER -> Flag(x < y)
Sgt(x, y) == CASE x >= Half /\ y < Half -> 0
               [] x < Half /\ y >= Half -> 1
               [] OTHER -> Flag(x > y)

OpByte(th, val) == IF th < WordBytes THEN ByteAt(val, WordBytes - 1 - th) ELSE 0

Shl(shift, value) == IF shift >= Bits THEN 0 ELSE U256(value * TwoTo[shift])
Shr(shift, value) == IF shift >= Bits THEN 0 ELSE U256(value \div TwoTo[shift])

(* big.Int.Rsh rounds down. *)
Sar(shift, x) ==
  IF shift >= Bits THEN U256(IF S256(x) > 0 THEN 0 ELSE -1)
  ELSE U256(S256(x) \div TwoTo[shift])

-----------------------------------------------------------------------------
(* common.go, math_integer.go.  A uint64 has as many values as a word here. *)

MaxUint64 == Modulus - 1

SafeMulMutant(x, y) == IF x = 0 \/ y = 0 THEN <<0, 0>>
                       ELSE <<(x * y) % Modulus, Flag(y >= MaxUint64 \div x)>>

SafeMul(x, y) == IF x = 0 \/ y = 0 THEN <<0, 0>>
                 ELSE <<(x * y) % Modulus, Flag(y > MaxUint64 \div x)>>
SafeAdd(x, y) == <<(x + y) % Modulus, Flag(y > MaxUint64 - x)>>

ToWordSize(size) == IF size > MaxUint64 - (WordBytes - 1) THEN MaxUint64 \div WordBytes + 1
                    ELSE (size + WordBytes - 1) \div WordBytes

(* big.Int.BitLen *)
BitLen(x) == CHOOSE n \in 0..Bits : x < TwoTo[n] /\ \A m \in 0..(n - 1) : x >= TwoTo[m]

(* The price of EXP, by the bytes of its exponent. *)
GasExp(exponent) ==
  LET expByteLen == (BitLen(exponent) + ByteBits - 1) \div ByteBits
  IN  SafeAdd((expByteLen * ExpByteGas) % Modulus, SlowStepGas)

BigMin(x, y) == IF x > y THEN y ELSE x

Slice(bytes, from, to) == SubSeq(bytes, from + 1, to)

RightPadBytes(bytes, l) ==
  IF l <= Len(bytes) THEN bytes ELSE bytes \o [i \in 1..(l - Len(bytes)) |-> 0]

GetDataBigMutant(bytes, start, size) ==
  LET s == BigMin(start, Len(bytes))
      e == BigMin(size, Len(bytes))
  IN  RightPadBytes(Slice(bytes, s, e), size)

GetDataBig(bytes, start, size) ==
  LET s == BigMin(start, Len(bytes))
      e == BigMin(s + size, Len(bytes))
  IN  RightPadBytes(Slice(bytes, s, e), size)

(* makePush: pc is in the code, or one would not execute a PUSH. *)
Push(code, pc, n) ==
  LET startMin == BigMin(pc + 1, Len(code))
      endMin   == BigMin(startMin + n, Len(code))
  IN  RightPadBytes(Slice(code, startMin, endMin), n)

-----------------------------------------------------------------------------
Unary   == {"ISZERO", "NOT", "MSTORE", "WORDSIZE", "EXPGAS"}
Binary  == {"ADD", "MUL", "SUB", "DIV", "SDIV", "MOD", "SMOD", "EXP", "SIGNEXTEND", "SLT", "SGT",
            "BYTE", "SHL", "SHR", "SAR", "SAFEADD", "SAFEMUL"}
Ternary == {"ADDMOD", "MULMOD"}
Slices  == {"CALLDATACOPY", "PUSH"}

Init ==
  /\ result = <<>> /\ done = FALSE
  /\ \/ op \in Unary /\ args \in {<<x>> : x \in Words} /\ data = <<>>
     \/ op \in Binary /\ args \in Words \X Words /\ data = <<>>
     \/ op \in Ternary /\ args \in SomeWords \X SomeWords \X SomeWords /\ data = <<>>
     \/ op = "CALLDATACOPY" /\ data \in Datas /\ args \in Offsets \X Offsets
     \/ op = "PUSH" /\ data \in Datas /\ args \in (0..(Len(data) - 1)) \X (1..WordBytes)

(* What the code computes of its operands. *)
Compute ==
  LET x == args[1]
      y == args[2]
      z == args[3]
  IN  CASE op = "ADD"    -> <<U256(x + y)>>
        [] op = "MUL"    -> <<U256(x * y)>>
        [] op = "SUB"    -> <<U256(x - y)>>
        [] op = "DIV"    -> <<Div(x, y)>>
        [] op = "SDIV"   -> <<Sdiv(x, y)>>
        [] op = "MOD"    -> <<Mod(x, y)>>
        [] op = "SMOD"   -> <<Smod(x, y)>>
        [] op = "EXP"    -> <<Exp(x, y)>>
        [] op = "SIGNEXTEND" -> <<SignExtend(x, y)>>
        [] op = "SLT"    -> <<Slt(x, y)>>
        [] op = "SGT"    -> <<Sgt(x, y)>>
        [] op = "BYTE"   -> <<OpByte(x, y)>>
        [] op = "SHL"    -> <<Shl(x, y)>>
        [] op = "SHR"    -> <<Shr(x, y)>>
        [] op = "SAR"    -> <<Sar(x, y)>>
        [] op = "ADDMOD" -> <<Addmod(x, y, z)>>
        [] op = "MULMOD" -> <<Mulmod(x, y, z)>>
        [] op = "ISZERO" -> <<Flag(~(x > 0))>>
        [] op = "NOT"    -> <<U256(-x - 1)>>
        [] op = "MSTORE" -> ReadBits(x)
        [] op = "WORDSIZE" -> <<ToWordSize(x)>>
        [] op = "EXPGAS" -> GasExp(x)
        [] op = "SAFEADD" -> SafeAdd(x, y)
        [] op = "SAFEMUL" -> SafeMul(x, y)
        [] op = "CALLDATACOPY" -> GetDataBig(data, x, y)
        [] op = "PUSH"   -> Push(data, x, y)

Execute ==
  /\ ~done
  /\ result' = Compute /\ done' = TRUE
  /\ UNCHANGED <<op, args, data>>

Spec == Init /\ [][Execute]_vars

-----------------------------------------------------------------------------
(* What they should compute, as arithmetic of unbounded integers defines it. *)

(* The integer that the word w stands for in two's complement. *)
SignedOf  == [w \in 0..(Modulus - 1) |-> CHOOSE i \in (-Half)..(Half - 1) : i % Modulus = w]
Signed(w) == SignedOf[w]

PowerOf(x, n) ==
  LET power[k \in Nat] ==        \* x^k is the product of its halves
        IF k = 0 THEN 1 ELSE IF k = 1 THEN x
        ELSE (power[k \div 2] * power[k - k \div 2]) % Modulus
  IN  power[n]

(* Multiplied or divided by 2 once per bit; after Bits of them it is all shifted out. *)
ShiftedOut(n) == IF n > Bits THEN Bits ELSE n

R == result[1]

(* Every operand and every result is a word: none of the instructions of   *)
(* this module, given words, leaves a negative integer or one of more than *)
(* 256 bits on the stack, on which all the others rely.                    *)
TypeOK ==
  /\ done \in BOOLEAN
  /\ done /\ op \notin Slices \cup {"MSTORE", "EXPGAS", "SAFEADD", "SAFEMUL"} =>
       Len(result) = 1 /\ R \in 0..(Modulus - 1)

(* SDIV and SMOD are the quotient, rounded towards zero, and the remainder, *)
(* which has the sign of the dividend, of signed division; zero for the    *)
(* divisor zero; and the smallest number divided by -1 is itself.          *)
SignedDivision ==
  done /\ op \in {"SDIV", "SMOD"} =>
    LET a == Signed(args[1])
        b == Signed(args[2])
        q == IF a = -Half /\ b = -1 THEN Half ELSE Signed(R)
        r == IF op = "SDIV" THEN a - q * b ELSE Signed(R)
    IN  IF b = 0 THEN R = 0
        ELSE /\ (a - r) % Abs(b) = 0 /\ Abs(r) < Abs(b)
             /\ r = 0 \/ Sign(r) = Sign(a)
             /\ op = "SDIV" => q % Modulus = R

(* EXP is the power modulo 2^256, 0 to the 0 included, though it loops over *)
(* limbs and keeps squaring after the last bit; ADDMOD and MULMOD do not   *)
(* wrap before they reduce.                                                *)
PowersAndModuli ==
  done =>
    LET x == args[1]
        y == args[2]
    IN  /\ op = "EXP" => R = PowerOf(x, y)
        /\ op = "ADDMOD" => IF args[3] = 0 THEN R = 0
                            ELSE R \in 0..(args[3] - 1) /\ (x + y - R) % args[3] = 0
        /\ op = "MULMOD" => IF args[3] = 0 THEN R = 0
                            ELSE R \in 0..(args[3] - 1) /\ (x * y - R) % args[3] = 0

(* Comparisons, shifts and sign extension agree with the signed number a   *)
(* word stands for.  SAR of zero by 256 or more is left out: it yields -1. *)
SignedWords ==
  done =>
    LET x == args[1]
        y == args[2]
        s == TwoTo[ShiftedOut(x)]
        e == TwoTo[ByteBits * (x + 1)]
    IN  /\ op = "SLT" => (R = 1 <=> Signed(x) < Signed(y)) /\ R \in {0, 1}
        /\ op = "SGT" => (R = 1 <=> Signed(x) > Signed(y)) /\ R \in {0, 1}
        /\ op = "SHL" => R = (y * s) % Modulus
        /\ op = "SHR" => R = y \div s
        /\ op = "SAR" /\ ~(y = 0 /\ x >= Bits) => Signed(R) = Signed(y) \div s
        /\ op = "SIGNEXTEND" =>
             IF x >= WordBytes THEN R = y
             ELSE Signed(R) % e = y % e /\ Signed(R) \in (-(e \div 2))..(e \div 2 - 1)

(* The bytes of a word are its digits: BYTE picks one, counted from the     *)
(* highest, and what MSTORE writes is the word again when it is read.      *)
BytesOfWords ==
  done =>
    /\ op = "BYTE" => R = IF args[1] >= WordBytes THEN 0
                          ELSE (args[2] \div TwoTo[ByteBits * (WordBytes - 1 - args[1])]) % Byte
    /\ op = "MSTORE" => /\ SetBytes(result) = args[1]
                        /\ \A i \in 1..WordBytes : result[i] \in 0..(Byte - 1)

(* The overflow flags of SafeAdd and SafeMul are exact, toWordSize rounds   *)
(* up also where the sum in it would overflow, and the price of EXP fits    *)
(* for every exponent and counts the bytes that are needed to write it.    *)
OverflowIsSeen ==
  done =>
    /\ op = "SAFEADD" => /\ result[2] = 1 <=> args[1] + args[2] > MaxUint64
                         /\ result[2] = 0 => R = args[1] + args[2]
    /\ op = "SAFEMUL" => /\ result[2] = 1 <=> args[1] * args[2] > MaxUint64
                         /\ result[2] = 0 => R = args[1] * args[2]
    /\ op = "EXPGAS" =>
         /\ result[2] = 0
         /\ \E n \in 0..WordBytes : /\ R = SlowStepGas + n * ExpByteGas
                                   /\ args[1] < TwoTo[ByteBits * n]
                                   /\ n > 0 => args[1] >= TwoTo[ByteBits * (n - 1)]
    /\ op = "WORDSIZE" => R * WordBytes \in args[1]..(args[1] + WordBytes - 1)

(* What is copied from data or pushed from code has the length asked for,  *)
(* the bytes that are there and zeros for those that are not, wherever it  *)
(* starts and ends.                                                        *)
SlicesArePadded ==
  done /\ op \in Slices =>
    LET start == IF op = "PUSH" THEN args[1] + 1 ELSE args[1]
    IN  /\ Len(result) = args[2]
        /\ \A i \in 1..args[2] :
             result[i] = IF start + i <= Len(data) THEN data[start + i] ELSE 0
============================================================================
