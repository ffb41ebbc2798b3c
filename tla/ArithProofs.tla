---------------------------- MODULE ArithProofs ----------------------------
(***************************************************************************)
(* Proofs about Arith, for words, bytes and limbs of any width: that each  *)
(* instruction computes the operation it is named for.  The one inductive  *)
(* fact is IInv, that a result is what Compute makes of the operands; the  *)
(* rest is arithmetic, by induction where Compute loops.                   *)
(***************************************************************************)
EXTENDS Arith, TLAPS, WellFoundedInduction, SequenceTheorems

-----------------------------------------------------------------------------
(* Induction.  The induction theorems of the library are about operators;  *)
(* these are about sets and functions.                                     *)

(* A set of numbers has a least element. *)
LEMMA Least ==
  ASSUME NEW T, T \subseteq Nat, T # {}
  PROVE  \E x \in T : \A y \in T : x <= y
<1> DEFINE less == OpToRel(<, Nat)
<1>1. IsWellFoundedOn(less, Nat)
  BY NatLessThanWellFounded
<1>2. PICK x \in T : \A y \in T : ~(<<y, x>> \in less)
  <2> HIDE DEF less
  <2> QED
    BY <1>1, WFMin
<1>3. \A i, j \in Nat : i < j => <<i, j>> \in less
  BY DEF OpToRel
<1> HIDE DEF less
<1>4. \A y \in T : x <= y
  <2> SUFFICES ASSUME NEW y \in T  PROVE x <= y
    OBVIOUS
  <2>1. x \in Nat /\ y \in Nat
    OBVIOUS
  <2>2. ~(y < x)
    BY <1>2, <1>3, <2>1
  <2> QED
    BY <2>1, <2>2
<1> QED
  BY <1>4

(* A set that has 0 and every successor has all numbers. *)
LEMMA SetInduction ==
  ASSUME NEW S, S \subseteq Nat, 0 \in S, \A n \in S : n + 1 \in S
  PROVE  S = Nat
<1> SUFFICES ASSUME Nat \ S # {}  PROVE FALSE
  OBVIOUS
<1>1. PICK x \in Nat \ S : \A y \in Nat \ S : x <= y
  <2>1. Nat \ S \subseteq Nat
    OBVIOUS
  <2> QED
    BY <2>1, Least
<1>2. x - 1 \in Nat
  OBVIOUS
<1>3. x - 1 \in S
  BY <1>1, <1>2
<1> QED
  BY <1>3

(* f starts with a, and goes on by step. *)
Recurses(f, S, a, step) ==
  /\ f \in [Nat -> S]
  /\ f[0] = a /\ \A n \in Nat : f[n + 1] = step[n][f[n]]

(* What is defined by recursion over the numbers exists. *)
LEMMA Recursion ==
  ASSUME NEW S, NEW a, a \in S, NEW step, step \in [Nat -> [S -> S]]
  PROVE  \E f : Recurses(f, S, a, step)
<1> DEFINE Prefix(n) == {f \in [0..n -> S] : f[0] = a /\ \A k \in 0..(n - 1) : f[k + 1] = step[k][f[k]]}
           F == [n \in Nat |-> (CHOOSE f : f \in Prefix(n))[n]]
<1>1. \A n \in Nat : \E f : f \in Prefix(n)
  <2> DEFINE T == {n \in Nat : \E f : f \in Prefix(n)}
  <2>1. 0 \in T
    <3>1. [k \in 0..0 |-> a] \in Prefix(0)
      OBVIOUS
    <3> QED
      BY <3>1
  <2>2. ASSUME NEW n \in T  PROVE n + 1 \in T
    <3>1. PICK f : f \in Prefix(n)
      OBVIOUS
    <3> DEFINE g == [k \in 0..(n + 1) |-> IF k = n + 1 THEN step[n][f[n]] ELSE f[k]]
    <3>2. f[n] \in S /\ step[n] \in [S -> S]
      BY <3>1
    <3>3. g \in [0..(n + 1) -> S]
      BY <3>1, <3>2
    <3>4. g[0] = a
      BY <3>1
    <3>5. ASSUME NEW k \in 0..n  PROVE g[k + 1] = step[k][g[k]]
      BY <3>1
    <3>6. g \in Prefix(n + 1)
      <4>1. (n + 1) - 1 = n
        OBVIOUS
      <4> HIDE DEF g
      <4> QED
        BY <3>3, <3>4, <3>5, <4>1
    <3>7. n + 1 \in Nat
      OBVIOUS
    <3> HIDE DEF g, Prefix
    <3> QED
      BY <3>6, <3>7
  <2> HIDE DEF T
  <2>3. T = Nat
    <3>1. T \subseteq Nat
      BY DEF T
    <3> QED
      BY <2>1, <2>2, <3>1, SetInduction
  <2> QED
    BY <2>3 DEF T
<1>2. ASSUME NEW n \in Nat, NEW f \in Prefix(n), NEW g \in Prefix(n + 1)
      PROVE  f[n] = g[n]
  <2> DEFINE T == {k \in Nat : k <= n => f[k] = g[k]}
  <2>1. 0 \in T
    OBVIOUS
  <2>2. ASSUME NEW k \in T  PROVE k + 1 \in T
    OBVIOUS
  <2> HIDE DEF T
  <2>3. T = Nat
    <3>1. T \subseteq Nat
      BY DEF T
    <3> QED
      BY <2>1, <2>2, <3>1, SetInduction
  <2> QED
    BY <2>3 DEF T
<1>3. \A n \in Nat : (CHOOSE f : f \in Prefix(n)) \in Prefix(n)
  <2> HIDE DEF Prefix
  <2> QED
    BY <1>1
<1>4. F \in [Nat -> S]
  <2>1. \A n \in Nat : \A f \in Prefix(n) : f[n] \in S
    OBVIOUS
  <2> HIDE DEF Prefix
  <2> QED
    BY <1>3, <2>1
<1>5. F[0] = a
  BY <1>3
<1>6. ASSUME NEW n \in Nat  PROVE F[n + 1] = step[n][F[n]]
  <2> DEFINE f == CHOOSE f : f \in Prefix(n)
             g == CHOOSE g : g \in Prefix(n + 1)
  <2>1. f \in Prefix(n) /\ g \in Prefix(n + 1)
    <3>1. n + 1 \in Nat
      OBVIOUS
    <3> HIDE DEF Prefix
    <3> QED
      BY <1>3, <3>1
  <2>2. F[n] = f[n] /\ F[n + 1] = g[n + 1]
    OBVIOUS
  <2> HIDE DEF f, g
  <2>3. f[n] = g[n]
    BY <1>2, <2>1
  <2>4. g[n + 1] = step[n][g[n]]
    BY <2>1
  <2> QED
    BY <2>2, <2>3, <2>4
<1> HIDE DEF F
<1> QED
  BY <1>4, <1>5, <1>6 DEF Recurses

-----------------------------------------------------------------------------
(* Quotients and remainders. *)

(* Any number is divisor times quotient plus remainder. *)
LEMMA DivMod ==
  ASSUME NEW x \in Int, NEW b \in Nat \ {0}
  PROVE  /\ x = (b * (x \div b)) + (x % b)
         /\ x \div b \in Int /\ x % b \in Nat /\ x % b < b
OBVIOUS

(* Nothing else is. *)
LEMMA DivUnique ==
  ASSUME NEW x \in Int, NEW b \in Nat \ {0}, NEW q \in Int, NEW r \in Int,
         x = (b * q) + r, 0 <= r, r < b
  PROVE  x \div b = q /\ x % b = r
OBVIOUS

(* The product of numbers is one. *)
LEMMA ProductType ==
  ASSUME NEW a \in Nat, NEW b \in Nat
  PROVE  a * b \in Nat
OBVIOUS

(* The product of positive numbers is positive. *)
LEMMA PositiveProduct ==
  ASSUME NEW a \in Nat \ {0}, NEW b \in Nat \ {0}
  PROVE  a * b \in Nat \ {0}
OBVIOUS

(* The quotient of a number is one, and not larger. *)
LEMMA QuotientType ==
  ASSUME NEW x \in Nat, NEW b \in Nat \ {0}
  PROVE  x \div b \in Nat /\ x \div b <= x
OBVIOUS

(* Dividing by a and then by b is dividing by a * b. *)
LEMMA DivDiv ==
  ASSUME NEW x \in Int, NEW a \in Nat \ {0}, NEW b \in Nat \ {0}
  PROVE  /\ x \div (a * b) = (x \div a) \div b
         /\ x % (a * b) = (a * ((x \div a) % b)) + (x % a)
<1> DEFINE q == x \div a
           r == x % a
           q2 == q \div b
           r2 == q % b
<1>1. x = (a * q) + r /\ q \in Int /\ r \in Nat /\ r < a
  BY DivMod
<1>2. q = (b * q2) + r2 /\ q2 \in Int /\ r2 \in Nat /\ r2 < b
  <2>1. q \in Int
    BY <1>1
  <2> HIDE DEF q
  <2> QED
    BY <2>1, DivMod
<1> HIDE DEF q, r, q2, r2
<1>3. a * q = ((a * b) * q2) + (a * r2)
  <2>1. a * q = a * ((b * q2) + r2)
    BY <1>2
  <2> QED
    BY <1>1, <1>2, <2>1
<1>4. a * r2 \in Nat /\ (a * r2) + a <= a * b
  <2>1. r2 + 1 <= b
    BY <1>2
  <2>2. a * (r2 + 1) <= a * b
    BY <1>2, <2>1
  <2>3. a * (r2 + 1) = (a * r2) + a
    BY <1>2
  <2> QED
    BY <1>2, <2>2, <2>3, ProductType
<1>5. a * b \in Nat \ {0}
  BY PositiveProduct
<1>6. x = ((a * b) * q2) + ((a * r2) + r)
  BY <1>1, <1>2, <1>3, <1>4, <1>5
<1>7. (a * r2) + r \in Nat /\ (a * r2) + r < a * b
  BY <1>1, <1>4, <1>5
<1>8. x \div (a * b) = q2 /\ x % (a * b) = (a * r2) + r
  <2> DEFINE m == a * b
             s == (a * r2) + r
  <2>1. m \in Nat \ {0} /\ s \in Nat /\ s < m /\ x = (m * q2) + s
    BY <1>5, <1>6, <1>7
  <2> HIDE DEF m, s
  <2>2. x \div m = q2 /\ x % m = s
    BY <1>2, <2>1, DivUnique
  <2> QED
    BY <2>2 DEF m, s
<1> QED
  BY <1>8 DEF q, r, q2, r2

(* A multiple of the divisor does not show in the remainder. *)
LEMMA ModShift ==
  ASSUME NEW x \in Int, NEW k \in Int, NEW b \in Nat \ {0}
  PROVE  (x + (b * k)) % b = x % b /\ (x + (b * k)) \div b = (x \div b) + k
<1> DEFINE q == x \div b
           r == x % b
<1>1. x = (b * q) + r /\ q \in Int /\ r \in Nat /\ r < b
  BY DivMod
<1> HIDE DEF q, r
<1>2. x + (b * k) = (b * (q + k)) + r
  <2>1. b * (q + k) = (b * q) + (b * k)
    BY <1>1
  <2>2. b * q \in Int /\ b * k \in Int
    BY <1>1
  <2> QED
    BY <1>1, <2>1, <2>2
<1>3. x + (b * k) \in Int
  OBVIOUS
<1>4. (x + (b * k)) \div b = q + k /\ (x + (b * k)) % b = r
  BY <1>1, <1>2, <1>3, DivUnique
<1> QED
  BY <1>4 DEF q, r

(* A multiple of the divisor has no remainder. *)
LEMMA ModMultiple ==
  ASSUME NEW k \in Int, NEW b \in Nat \ {0}
  PROVE  (b * k) % b = 0
<1>1. b * k = (b * k) + 0 /\ b * k \in Int
  OBVIOUS
<1> QED
  BY <1>1, DivUnique

(* A number below the divisor is its own remainder. *)
LEMMA SmallMod ==
  ASSUME NEW b \in Nat \ {0}, NEW x \in 0..(b - 1)
  PROVE  x % b = x /\ x \div b = 0
<1>1. x = (b * 0) + x
  OBVIOUS
<1> QED
  BY <1>1, DivUnique

(* Numbers with the same remainder that are less than the divisor apart are *)
(* equal.                                                                  *)
LEMMA SameMod ==
  ASSUME NEW x \in Int, NEW y \in Int, NEW b \in Nat \ {0},
         x % b = y % b, x - y < b, y - x < b
  PROVE  x = y
<1>1. /\ x = (b * (x \div b)) + (x % b) /\ x \div b \in Int
      /\ y = (b * (y \div b)) + (y % b) /\ y \div b \in Int
      /\ x % b \in Nat
  BY DivMod
<1> DEFINE p == x \div b
           q == y \div b
           d == p - q
<1>2. p \in Int /\ q \in Int /\ d \in Int
  BY <1>1
<1>3. x - y = b * d
  <2>1. b * d = (b * p) - (b * q)
    <3> HIDE DEF p, q
    <3> QED
      BY <1>2
  <2>2. b * p \in Int /\ b * q \in Int
    BY <1>2
  <2> HIDE DEF d
  <2> QED
    BY <1>1, <2>1, <2>2
<1>4. d = 0
  <2> HIDE DEF d
  <2>1. ~(d >= 1)
    <3> SUFFICES ASSUME d >= 1  PROVE FALSE
      OBVIOUS
    <3>1. b * d >= b
      BY <1>2
    <3> QED
      BY <1>2, <1>3, <3>1
  <2>2. ~(d <= -1)
    <3> SUFFICES ASSUME d <= -1  PROVE FALSE
      OBVIOUS
    <3>1. b * d <= -b
      BY <1>2
    <3> QED
      BY <1>2, <1>3, <3>1
  <2> QED
    BY <1>2, <2>1, <2>2
<1> HIDE DEF d
<1> QED
  BY <1>3, <1>4

(* Remainders of sums and products may be taken before or after. *)
LEMMA ModTimes ==
  ASSUME NEW x \in Int, NEW y \in Int, NEW b \in Nat \ {0}
  PROVE  ((x % b) * y) % b = (x * y) % b
<1> DEFINE q == x \div b
           r == x % b
<1>1. x = (b * q) + r /\ q \in Int /\ r \in Nat /\ r < b
  BY DivMod
<1> HIDE DEF q, r
<1>2. x * y = (r * y) + (b * (q * y))
  BY <1>1
<1>3. r * y \in Int /\ q * y \in Int
  BY <1>1
<1>4. ((r * y) + (b * (q * y))) % b = (r * y) % b
  BY <1>3, ModShift
<1> QED
  BY <1>2, <1>4 DEF r

-----------------------------------------------------------------------------
(* Powers of two. *)

(* TwoTo is what its definition says. *)
LEMMA TwoToDef ==
  /\ TwoTo \in [Nat -> Nat \ {0}]
  /\ TwoTo[0] = 1 /\ \A n \in Nat : TwoTo[n + 1] = 2 * TwoTo[n]
<1> DEFINE S == Nat \ {0}
           step == [n \in Nat |-> [s \in S |-> 2 * s]]
           Rec(f) == f = [n \in Nat |-> IF n = 0 THEN 1 ELSE 2 * f[n - 1]]
<1>1. PICK f : Recurses(f, S, 1, step)
  <2>1. 1 \in S /\ step \in [Nat -> [S -> S]]
    OBVIOUS
  <2> HIDE DEF S, step
  <2> QED
    BY <2>1, Recursion
<1>2. f \in [Nat -> S] /\ f[0] = 1 /\ \A n \in Nat : f[n + 1] = 2 * f[n]
  BY <1>1 DEF Recurses
<1>3. Rec(f)
  <2>1. ASSUME NEW n \in Nat, n # 0  PROVE f[n] = 2 * f[n - 1]
    <3>1. n - 1 \in Nat /\ (n - 1) + 1 = n
      BY <2>1
    <3> QED
      BY <1>2, <3>1
  <2> QED
    BY <1>2, <2>1
<1>4. TwoTo = CHOOSE g : Rec(g)
  BY DEF TwoTo
<1>5. Rec(TwoTo)
  <2> HIDE DEF Rec
  <2> QED
    BY <1>3, <1>4
<1>6. TwoTo[0] = 1 /\ \A n \in Nat : TwoTo[n + 1] = 2 * TwoTo[n]
  <2>1. \A n \in Nat : n + 1 \in Nat /\ n + 1 # 0 /\ (n + 1) - 1 = n
    OBVIOUS
  <2> QED
    BY <1>5, <2>1
<1>7. \A n \in Nat : TwoTo[n] \in S
  <2> DEFINE T == {n \in Nat : TwoTo[n] \in S}
  <2>1. 0 \in T /\ \A n \in T : n + 1 \in T
    BY <1>6
  <2>2. T \subseteq Nat
    OBVIOUS
  <2> HIDE DEF T
  <2>3. T = Nat
    BY <2>1, <2>2, SetInduction
  <2> QED
    BY <2>3 DEF T
<1> QED
  BY <1>5, <1>6, <1>7

(* The powers are positive numbers. *)
LEMMA TwoToType ==
  ASSUME NEW n \in Nat  PROVE TwoTo[n] \in Nat \ {0}
BY TwoToDef

(* The product of powers is the power of the sum. *)
LEMMA TwoToSum ==
  ASSUME NEW m \in Nat, NEW n \in Nat
  PROVE  TwoTo[m + n] = TwoTo[m] * TwoTo[n]
<1> DEFINE T == {k \in Nat : TwoTo[m + k] = TwoTo[m] * TwoTo[k]}
<1>1. 0 \in T
  BY TwoToDef, TwoToType
<1>2. ASSUME NEW k \in T  PROVE k + 1 \in T
  <2>1. m + (k + 1) = (m + k) + 1 /\ m + k \in Nat
    OBVIOUS
  <2>2. TwoTo[m + (k + 1)] = 2 * TwoTo[m + k] /\ TwoTo[k + 1] = 2 * TwoTo[k]
    BY <2>1, TwoToDef
  <2>3. TwoTo[m + k] = TwoTo[m] * TwoTo[k]
    OBVIOUS
  <2>4. 2 * (TwoTo[m] * TwoTo[k]) = TwoTo[m] * (2 * TwoTo[k])
    <3>1. TwoTo[m] \in Nat /\ TwoTo[k] \in Nat
      BY TwoToType
    <3> QED
      BY <3>1
  <2> QED
    BY <2>2, <2>3, <2>4
<1>3. T \subseteq Nat
  OBVIOUS
<1> HIDE DEF T
<1>4. T = Nat
  BY <1>1, <1>2, <1>3, SetInduction
<1> QED
  BY <1>4 DEF T

(* A larger exponent has the larger power. *)
LEMMA TwoToMonotone ==
  ASSUME NEW m \in Nat, NEW n \in Nat, m <= n
  PROVE  TwoTo[m] <= TwoTo[n] /\ \E d \in Nat \ {0} : TwoTo[n] = TwoTo[m] * d
<1> DEFINE d == TwoTo[n - m]
<1>1. n - m \in Nat /\ m + (n - m) = n
  OBVIOUS
<1>2. TwoTo[n] = TwoTo[m] * d
  BY <1>1, TwoToSum
<1>3. d \in Nat \ {0} /\ TwoTo[m] \in Nat \ {0}
  BY <1>1, TwoToType
<1> HIDE DEF d
<1>4. TwoTo[m] <= TwoTo[m] * d
  BY <1>3
<1> QED
  BY <1>2, <1>3, <1>4

-----------------------------------------------------------------------------
(* Widths. *)

(* What is on the stack. *)
Word == 0..(Modulus - 1)

(* The widths are positive, and half of what a word can be is negative.    *)
LEMMA Widths ==
  /\ Bits \in Nat \ {0} /\ LimbBits \in Nat \ {0} /\ ByteBits <= Bits
  /\ Half \in Nat \ {0} /\ Modulus \in Nat \ {0} /\ Modulus = 2 * Half
  /\ Byte \in Nat \ {0} /\ Limb \in Nat \ {0}
<1>1. Bits \in Nat \ {0} /\ LimbBits \in Nat \ {0}
  BY WidthAssumption, PositiveProduct DEF Bits, LimbBits
<1>2. Bits - 1 \in Nat /\ (Bits - 1) + 1 = Bits
  BY <1>1
<1>3. Modulus = 2 * Half
  BY <1>2, TwoToDef DEF Modulus, Half
<1>4. ByteBits <= Bits
  BY WidthAssumption DEF Bits
<1> QED
  BY <1>1, <1>2, <1>3, <1>4, TwoToType, WidthAssumption DEF Modulus, Half, Byte, Limb

(* There is a whole number of words of memory in what a uint64 counts.     *)
LEMMA WordBytesDivide ==
  /\ WordBytes \in Nat \ {0} /\ WordBytes <= Modulus
  /\ \E d \in Nat \ {0} : Modulus = WordBytes * d
<1>1. PICK k \in 0..Bits : WordBytes = TwoTo[k]
  BY WidthAssumption
<1>2. k \in Nat /\ Bits \in Nat /\ k <= Bits
  BY <1>1, Widths
<1> QED
  BY <1>1, <1>2, TwoToMonotone, WidthAssumption DEF Modulus

-----------------------------------------------------------------------------
(* The states: operands are words, or data with offsets, and a result is    *)
(* what the code computes of them.                                         *)

OperandsInv ==
  /\ op \in Unary \cup Binary \cup Ternary \cup Slices
  /\ op \in Unary \cup Binary \cup Ternary => args[1] \in Word
  /\ op \in Binary \cup Ternary => args[2] \in Word
  /\ op \in Ternary => args[3] \in Word
  /\ op \in Slices => data \in Seq(0..(Byte - 1)) /\ args[1] \in Nat /\ args[2] \in Nat
  /\ op = "PUSH" => args[1] < Len(data)

IInv ==
  /\ OperandsInv
  /\ done \in BOOLEAN
  /\ done => result = Compute

(* IInv holds always: a state is initial or one step from an initial one.  *)
THEOREM Invariance == Spec => []IInv
<1>1. Init => IInv
  <2> SUFFICES ASSUME Init  PROVE IInv
    OBVIOUS
  <2>1. Words \subseteq Word /\ SomeWords \subseteq Word
    BY OperandAssumption DEF Word
  <2>2. OperandsInv
    <3>1. CASE op \in Unary /\ args \in {<<x>> : x \in Words}
      BY <2>1, <3>1 DEF OperandsInv, Unary, Binary, Ternary, Slices
    <3>2. CASE op \in Binary /\ args \in Words \X Words
      BY <2>1, <3>2 DEF OperandsInv, Unary, Binary, Ternary, Slices
    <3>3. CASE op \in Ternary /\ args \in SomeWords \X SomeWords \X SomeWords
      BY <2>1, <3>3 DEF OperandsInv, Unary, Binary, Ternary, Slices
    <3>4. CASE op = "CALLDATACOPY" /\ data \in Datas /\ args \in Offsets \X Offsets
      BY <3>4, OperandAssumption DEF OperandsInv, Unary, Binary, Ternary, Slices
    <3>5. CASE op = "PUSH" /\ data \in Datas /\ args \in (0..(Len(data) - 1)) \X (1..WordBytes)
      <4>1. data \in Seq(0..(Byte - 1)) /\ Len(data) \in Nat
        BY <3>5, OperandAssumption
      <4>2. args[1] \in Nat /\ args[2] \in Nat /\ args[1] < Len(data)
        BY <3>5, <4>1, WidthAssumption
      <4> QED
        BY <3>5, <4>1, <4>2 DEF OperandsInv, Unary, Binary, Ternary, Slices
    <3> QED
      BY <3>1, <3>2, <3>3, <3>4, <3>5 DEF Init
  <2> QED
    BY <2>2 DEF Init, IInv
<1>2. IInv /\ [Execute]_vars => IInv'
  <2> SUFFICES ASSUME IInv, [Execute]_vars  PROVE IInv'
    OBVIOUS
  <2>1. UNCHANGED <<op, args, data>>
    BY DEF Execute, vars
  <2>2. Compute' = Compute
    BY <2>1 DEF Compute
  <2>3. OperandsInv'
    BY <2>1 DEF IInv, OperandsInv
  <2>4. CASE Execute
    BY <2>2, <2>3, <2>4 DEF Execute, IInv
  <2>5. CASE UNCHANGED vars
    BY <2>2, <2>3, <2>5 DEF vars, IInv
  <2> QED
    BY <2>4, <2>5
<1> QED
  BY <1>1, <1>2, PTL DEF Spec

-----------------------------------------------------------------------------
(* uint64 arithmetic with overflow tests. *)

(* SafeAdd has the sum or the flag. *)
LEMMA SafeAddExact ==
  ASSUME NEW x \in Word, NEW y \in Word
  PROVE  /\ SafeAdd(x, y)[2] \in {0, 1}
         /\ SafeAdd(x, y)[2] = 1 <=> x + y > MaxUint64
         /\ SafeAdd(x, y)[2] = 0 => SafeAdd(x, y)[1] = x + y
<1>1. x \in Nat /\ y \in Nat /\ x < Modulus /\ Modulus \in Nat \ {0}
  BY Widths DEF Word
<1>2. y > MaxUint64 - x <=> x + y > MaxUint64
  BY <1>1 DEF MaxUint64
<1>3. ~(x + y > MaxUint64) => (x + y) % Modulus = x + y
  <2> SUFFICES ASSUME ~(x + y > MaxUint64)  PROVE (x + y) % Modulus = x + y
    OBVIOUS
  <2>1. x + y \in 0..(Modulus - 1)
    BY <1>1 DEF MaxUint64
  <2> QED
    BY <1>1, <2>1, SmallMod
<1> QED
  BY <1>2, <1>3 DEF SafeAdd, Flag

(* SafeMul has the product or the flag: y > max / x, rounded down, exactly *)
(* when the product is too large.                                          *)
LEMMA SafeMulExact ==
  ASSUME NEW x \in Word, NEW y \in Word
  PROVE  /\ SafeMul(x, y)[2] \in {0, 1}
         /\ SafeMul(x, y)[2] = 1 <=> x * y > MaxUint64
         /\ SafeMul(x, y)[2] = 0 => SafeMul(x, y)[1] = x * y
<1>1. x \in Nat /\ y \in Nat /\ x < Modulus /\ Modulus \in Nat \ {0} /\ MaxUint64 \in Nat
  BY Widths DEF Word, MaxUint64
<1>2. CASE x = 0 \/ y = 0
  <2>1. x * y = 0
    BY <1>1, <1>2
  <2> QED
    BY <1>1, <1>2, <2>1 DEF SafeMul
<1>3. CASE x # 0 /\ y # 0
  <2> DEFINE q == MaxUint64 \div x
             r == MaxUint64 % x
  <2>1. MaxUint64 = (x * q) + r /\ q \in Int /\ r \in Nat /\ r < x
    BY <1>1, <1>3, DivMod
  <2> HIDE DEF q, r
  <2>2. y > q => x * y > MaxUint64
    <3> SUFFICES ASSUME y > q  PROVE x * y > MaxUint64
      OBVIOUS
    <3>1. y >= q + 1
      BY <1>1, <2>1
    <3>2. x * y >= x * (q + 1)
      BY <1>1, <2>1, <3>1
    <3>3. x * (q + 1) = (x * q) + x /\ x * q \in Int
      BY <1>1, <2>1
    <3>4. x * y \in Nat
      BY <1>1, ProductType
    <3> QED
      BY <1>1, <2>1, <3>2, <3>3, <3>4
  <2>3. ~(y > q) => ~(x * y > MaxUint64)
    <3> SUFFICES ASSUME ~(y > q)  PROVE ~(x * y > MaxUint64)
      OBVIOUS
    <3>1. x * y <= x * q
      BY <1>1, <2>1
    <3>2. x * y \in Nat /\ x * q \in Int
      BY <1>1, <2>1, ProductType
    <3> QED
      BY <1>1, <2>1, <3>1, <3>2
  <2>4. SafeMul(x, y) = <<(x * y) % Modulus, Flag(y > q)>>
    BY <1>3 DEF SafeMul, q
  <2>5. ~(x * y > MaxUint64) => (x * y) % Modulus = x * y
    <3> SUFFICES ASSUME ~(x * y > MaxUint64)  PROVE (x * y) % Modulus = x * y
      OBVIOUS
    <3>1. x * y \in 0..(Modulus - 1)
      BY <1>1, ProductType DEF MaxUint64
    <3> QED
      BY <1>1, <3>1, SmallMod
  <2> QED
    BY <2>2, <2>3, <2>4, <2>5 DEF Flag
<1> QED
  BY <1>2, <1>3

(* Sizes are rounded up to whole words, also where the sum would overflow. *)
LEMMA ToWordSizeExact ==
  ASSUME NEW x \in Word
  PROVE  /\ ToWordSize(x) * WordBytes \in x..(x + WordBytes - 1)
         /\ ToWordSize(x) \in Word
<1>1. /\ x \in Nat /\ x < Modulus /\ Modulus \in Nat \ {0}
      /\ WordBytes \in Nat \ {0} /\ WordBytes <= Modulus
  BY Widths, WordBytesDivide DEF Word
<1>2. CASE x > MaxUint64 - (WordBytes - 1)
  <2>1. PICK d \in Nat \ {0} : Modulus = WordBytes * d
    BY WordBytesDivide
  <2>2. WordBytes * (d - 1) = Modulus - WordBytes
    BY <1>1, <2>1
  <2>3. MaxUint64 = (WordBytes * (d - 1)) + (WordBytes - 1) /\ MaxUint64 \in Int
    BY <1>1, <2>2 DEF MaxUint64
  <2>4. MaxUint64 \div WordBytes = d - 1
    BY <1>1, <2>1, <2>3, DivUnique
  <2>5. ToWordSize(x) = d
    BY <1>2, <2>1, <2>4 DEF ToWordSize
  <2>6. d * WordBytes = Modulus
    BY <1>1, <2>1
  <2>7. d < Modulus
    <3>1. WordBytes # 1
      BY <1>1, <1>2 DEF MaxUint64
    <3>2. WordBytes * d >= 2 * d
      BY <1>1, <2>1, <3>1
    <3> QED
      BY <1>1, <2>1, <3>2
  <2> QED
    BY <1>1, <1>2, <2>1, <2>5, <2>6, <2>7 DEF MaxUint64, Word
<1>3. CASE ~(x > MaxUint64 - (WordBytes - 1))
  <2> DEFINE s == x + WordBytes - 1
             q == s \div WordBytes
             r == s % WordBytes
  <2>1. s \in Nat /\ s < Modulus
    BY <1>1, <1>3 DEF MaxUint64
  <2> HIDE DEF s
  <2>2. s = (WordBytes * q) + r /\ q \in Int /\ r \in Nat /\ r < WordBytes
    BY <1>1, <2>1, DivMod
  <2>3. q \in Nat /\ q <= s
    BY <1>1, <2>1, QuotientType
  <2>4. ToWordSize(x) = q
    BY <1>3 DEF ToWordSize, s
  <2> HIDE DEF q, r
  <2>5. q * WordBytes = WordBytes * q /\ WordBytes * q \in Nat
    BY <1>1, <2>3
  <2> QED
    BY <1>1, <2>1, <2>2, <2>3, <2>4, <2>5 DEF s, Word
<1> QED
  BY <1>2, <1>3

(* Counting in steps of w bits, there is a least number of them in which x *)
(* can be written.                                                         *)
LEMMA LeastPower ==
  ASSUME NEW x \in Nat, NEW w \in Nat, NEW n \in Nat, x < TwoTo[w * n]
  PROVE  \E k \in 0..n : x < TwoTo[w * k] /\ \A m \in 0..(k - 1) : x >= TwoTo[w * m]
<1> DEFINE T == {k \in Nat : x < TwoTo[w * k]}
<1>1. n \in T /\ T \subseteq Nat
  OBVIOUS
<1>2. PICK k \in T : \A m \in T : k <= m
  <2> HIDE DEF T
  <2> QED
    BY <1>1, Least
<1>3. k \in 0..n
  BY <1>1, <1>2
<1>4. ASSUME NEW m \in 0..(k - 1)  PROVE x >= TwoTo[w * m]
  <2>1. m \in Nat /\ k \in Nat /\ m < k
    BY <1>3
  <2>2. m \notin T
    BY <1>2, <2>1
  <2>3. w * m \in Nat
    BY <2>1, ProductType
  <2> QED
    BY <2>1, <2>2, <2>3, TwoToType
<1> QED
  BY <1>2, <1>3, <1>4

(* BitLen is the number of bits of a word. *)
LEMMA BitLenExact ==
  ASSUME NEW x \in Word
  PROVE  /\ BitLen(x) \in 0..Bits
         /\ x < TwoTo[BitLen(x)] /\ \A m \in 0..(BitLen(x) - 1) : x >= TwoTo[m]
<1>1. x \in Nat /\ x < TwoTo[1 * Bits] /\ Bits \in Nat
  BY Widths DEF Word, Modulus
<1>2. \E k \in 0..Bits : x < TwoTo[1 * k] /\ \A m \in 0..(k - 1) : x >= TwoTo[1 * m]
  BY <1>1, LeastPower
<1>3. \E k \in 0..Bits : x < TwoTo[k] /\ \A m \in 0..(k - 1) : x >= TwoTo[m]
  BY <1>1, <1>2
<1> QED
  BY <1>3 DEF BitLen

(* The price of EXP counts the bytes of its exponent, and fits. *)
LEMMA GasExpExact ==
  ASSUME NEW x \in Word
  PROVE  \E n \in 0..WordBytes : /\ GasExp(x) = <<SlowStepGas + (n * ExpByteGas), 0>>
                                 /\ x < TwoTo[ByteBits * n]
                                 /\ n > 0 => x >= TwoTo[ByteBits * (n - 1)]
<1> DEFINE len == BitLen(x)
           s == len + ByteBits - 1
           n == s \div ByteBits
           r == s % ByteBits
<1>1. /\ len \in 0..Bits /\ len \in Nat
      /\ x < TwoTo[len] /\ \A m \in 0..(len - 1) : x >= TwoTo[m]
  BY BitLenExact, Widths
<1>2. x \in Nat /\ ByteBits \in Nat \ {0} /\ WordBytes \in Nat \ {0} /\ Bits = ByteBits * WordBytes
  BY WidthAssumption DEF Word, Bits
<1> HIDE DEF len
<1>3. s \in Nat
  BY <1>1, <1>2
<1>4. s = (ByteBits * n) + r /\ n \in Nat /\ r \in Nat /\ r < ByteBits
  <2> HIDE DEF s
  <2> QED
    BY <1>2, <1>3, DivMod, QuotientType
<1>5. ByteBits * n >= len /\ ByteBits * n < len + ByteBits
  <2> HIDE DEF n, r
  <2>1. ByteBits * n \in Nat
    BY <1>2, <1>4, ProductType
  <2> QED
    BY <1>1, <1>2, <1>4, <2>1
<1> HIDE DEF s, n, r
<1>6. n \in 0..WordBytes
  <2> SUFFICES ASSUME n > WordBytes  PROVE FALSE
    BY <1>2, <1>4
  <2>1. n >= WordBytes + 1
    BY <1>2, <1>4
  <2>2. ByteBits * n >= ByteBits * (WordBytes + 1)
    BY <1>2, <1>4, <2>1
  <2>3. ByteBits * (WordBytes + 1) = Bits + ByteBits
    BY <1>2
  <2>4. ByteBits * n \in Nat
    BY <1>2, <1>4, ProductType
  <2> QED
    BY <1>1, <1>2, <1>5, <2>2, <2>3, <2>4
<1>7. x < TwoTo[ByteBits * n]
  <2>1. ByteBits * n \in Nat
    BY <1>2, <1>4, ProductType
  <2>2. TwoTo[len] <= TwoTo[ByteBits * n]
    BY <1>1, <1>5, <2>1, TwoToMonotone
  <2> QED
    BY <1>1, <1>2, <2>1, <2>2, TwoToType
<1>8. n > 0 => x >= TwoTo[ByteBits * (n - 1)]
  <2> SUFFICES ASSUME n > 0  PROVE x >= TwoTo[ByteBits * (n - 1)]
    OBVIOUS
  <2>1. n - 1 \in Nat
    BY <1>4
  <2>2. ByteBits * (n - 1) \in Nat
    BY <1>2, <2>1, ProductType
  <2>3. ByteBits * (n - 1) = (ByteBits * n) - ByteBits /\ ByteBits * n \in Nat
    BY <1>2, <1>4, ProductType
  <2>4. ByteBits * (n - 1) \in 0..(len - 1)
    BY <1>1, <1>2, <1>5, <2>2, <2>3
  <2> QED
    BY <1>1, <2>4
<1>9. GasExp(x) = <<SlowStepGas + (n * ExpByteGas), 0>>
  <2> DEFINE p == n * ExpByteGas
  <2>1. p \in Nat /\ p <= WordBytes * ExpByteGas /\ WordBytes * ExpByteGas \in Nat
    <3>1. ExpByteGas \in Nat
      BY PriceAssumption
    <3>2. n <= WordBytes
      BY <1>6
    <3> QED
      BY <1>2, <1>4, <3>1, <3>2, ProductType
  <2> HIDE DEF p
  <2>2. SlowStepGas \in Nat /\ p + SlowStepGas < Modulus /\ Modulus \in Nat \ {0}
    BY <2>1, PriceAssumption, Widths
  <2>3. p % Modulus = p
    <3>1. p \in 0..(Modulus - 1)
      BY <2>1, <2>2
    <3> QED
      BY <2>2, <3>1, SmallMod
  <2>4. GasExp(x) = SafeAdd(p % Modulus, SlowStepGas)
    BY DEF GasExp, p, n, s, len
  <2>5. (p + SlowStepGas) % Modulus = p + SlowStepGas
    <3>1. p + SlowStepGas \in 0..(Modulus - 1)
      BY <2>1, <2>2
    <3> QED
      BY <2>2, <3>1, SmallMod
  <2>6. ~(SlowStepGas > MaxUint64 - p)
    BY <2>1, <2>2 DEF MaxUint64
  <2>7. GasExp(x) = <<SlowStepGas + p, 0>>
    BY <2>1, <2>2, <2>3, <2>4, <2>5, <2>6 DEF SafeAdd, Flag
  <2> QED
    BY <2>7 DEF p
<1> QED
  BY <1>6, <1>7, <1>8, <1>9

(* OverflowIsSeen holds in the states of IInv. *)
LEMMA OverflowIsSeenFollows ==
  ASSUME IInv  PROVE OverflowIsSeen
<1> SUFFICES ASSUME done  PROVE OverflowIsSeen
  BY DEF OverflowIsSeen
<1>1. result = Compute /\ OperandsInv
  BY DEF IInv
<1>2. CASE op = "SAFEADD"
  <2>1. args[1] \in Word /\ args[2] \in Word
    BY <1>1, <1>2 DEF OperandsInv, Binary
  <2>2. result = SafeAdd(args[1], args[2])
    BY <1>1, <1>2 DEF Compute
  <2> QED
    BY <1>2, <2>1, <2>2, SafeAddExact DEF OverflowIsSeen, R
<1>3. CASE op = "SAFEMUL"
  <2>1. args[1] \in Word /\ args[2] \in Word
    BY <1>1, <1>3 DEF OperandsInv, Binary
  <2>2. result = SafeMul(args[1], args[2])
    BY <1>1, <1>3 DEF Compute
  <2> QED
    BY <1>3, <2>1, <2>2, SafeMulExact DEF OverflowIsSeen, R
<1>4. CASE op = "EXPGAS"
  <2>1. args[1] \in Word
    BY <1>1, <1>4 DEF OperandsInv, Unary
  <2>2. result = GasExp(args[1])
    BY <1>1, <1>4 DEF Compute
  <2>3. PICK n \in 0..WordBytes : /\ GasExp(args[1]) = <<SlowStepGas + (n * ExpByteGas), 0>>
                                  /\ args[1] < TwoTo[ByteBits * n]
                                  /\ n > 0 => args[1] >= TwoTo[ByteBits * (n - 1)]
    BY <2>1, GasExpExact
  <2>4. result[2] = 0 /\ R = SlowStepGas + n * ExpByteGas
    BY <2>2, <2>3 DEF R
  <2> QED
    BY <1>4, <2>3, <2>4 DEF OverflowIsSeen
<1>5. CASE op = "WORDSIZE"
  <2>1. args[1] \in Word
    BY <1>1, <1>5 DEF OperandsInv, Unary
  <2>2. result = <<ToWordSize(args[1])>>
    BY <1>1, <1>5 DEF Compute
  <2> QED
    BY <1>5, <2>1, <2>2, ToWordSizeExact DEF OverflowIsSeen, R
<1>6. CASE op \notin {"SAFEADD", "SAFEMUL", "EXPGAS", "WORDSIZE"}
  BY <1>6 DEF OverflowIsSeen
<1> QED
  BY <1>2, <1>3, <1>4, <1>5, <1>6

(* Overflow of uint64 is seen exactly when there is one, sizes are rounded *)
(* up at every size, and the price of EXP fits (gasExp, toWordSize,        *)
(* SafeAdd, SafeMul).                                                      *)
THEOREM OverflowSeen == Spec => []OverflowIsSeen
BY Invariance, OverflowIsSeenFollows, PTL

-----------------------------------------------------------------------------
(* Slices of data and code. *)

(* A slice has the bytes between its ends. *)
LEMMA SliceParts ==
  ASSUME NEW B, NEW bytes \in Seq(B), NEW s \in Nat, NEW e \in Nat, s <= e, e <= Len(bytes)
  PROVE  /\ Slice(bytes, s, e) \in Seq(B)
         /\ Len(Slice(bytes, s, e)) = e - s
         /\ \A i \in 1..(e - s) : Slice(bytes, s, e)[i] = bytes[s + i]
<1>1. \A i \in (s + 1)..e : bytes[i] \in B
  OBVIOUS
<1>2. Slice(bytes, s, e) = [i \in 1..(e - s) |-> bytes[s + i]]
  BY DEF Slice
<1> QED
  BY <1>1, <1>2

(* Padding adds zeros up to the length. *)
LEMMA PadParts ==
  ASSUME NEW bytes \in Seq(Int), NEW l \in Nat, Len(bytes) <= l
  PROVE  /\ Len(RightPadBytes(bytes, l)) = l
         /\ \A i \in 1..l : RightPadBytes(bytes, l)[i] = IF i <= Len(bytes) THEN bytes[i] ELSE 0
<1> DEFINE n == Len(bytes)
           zeros == [i \in 1..(l - n) |-> 0]
<1>1. n \in Nat /\ n <= l
  OBVIOUS
<1>2. CASE l <= n
  BY <1>1, <1>2 DEF RightPadBytes
<1>3. CASE ~(l <= n)
  <2>1. zeros \in Seq(Int) /\ Len(zeros) = l - n
    BY <1>1, <1>3
  <2>2. RightPadBytes(bytes, l) = bytes \o zeros
    BY <1>3 DEF RightPadBytes
  <2>3. \A i \in 1..(l - n) : zeros[i] = 0
    OBVIOUS
  <2> HIDE DEF zeros
  <2> QED
    BY <1>1, <2>1, <2>2, <2>3
<1> QED
  BY <1>2, <1>3

(* out has size bytes from start on, with zeros for those beyond the end.  *)
PaddedRead(out, bytes, start, size) ==
  /\ Len(out) = size
  /\ \A i \in 1..size : out[i] = IF start + i <= Len(bytes) THEN bytes[start + i] ELSE 0

(* Both ends of the slice are cut off at the end of the bytes, and what is *)
(* missing then is zeros.                                                  *)
LEMMA ReadPadded ==
  ASSUME NEW bytes, bytes \in Seq(Int), NEW start, start \in Nat, NEW size, size \in Nat,
         NEW s, NEW e, s = BigMin(start, Len(bytes)), e = BigMin(s + size, Len(bytes))
  PROVE  PaddedRead(RightPadBytes(Slice(bytes, s, e), size), bytes, start, size)
<1> DEFINE len == Len(bytes)
           slice == Slice(bytes, s, e)
<1>1. /\ len \in Nat /\ s \in Nat /\ e \in Nat /\ s <= e /\ e <= len /\ e - s <= size
      /\ s = IF start > len THEN len ELSE start
      /\ e = IF s + size > len THEN len ELSE s + size
  BY DEF BigMin
<1>2. slice \in Seq(Int) /\ Len(slice) = e - s /\ \A i \in 1..(e - s) : slice[i] = bytes[s + i]
  <2>1. s \in Nat /\ e \in Nat /\ s <= e /\ e <= Len(bytes)
    BY <1>1
  <2> HIDE DEF slice, len
  <2> QED
    BY ONLY <2>1, bytes \in Seq(Int), SliceParts DEF slice
<1> HIDE DEF slice, len
<1>3. /\ Len(RightPadBytes(slice, size)) = size
      /\ \A i \in 1..size : RightPadBytes(slice, size)[i] = IF i <= e - s THEN slice[i] ELSE 0
  BY <1>1, <1>2, PadParts
<1>4. ASSUME NEW i \in 1..size
      PROVE  RightPadBytes(slice, size)[i] = IF start + i <= len THEN bytes[start + i] ELSE 0
  <2>1. CASE start + i <= len
    <3>1. s = start /\ i <= e - s
      BY <1>1, <2>1
    <3> QED
      BY <1>1, <1>2, <1>3, <2>1, <3>1
  <2>2. CASE ~(start + i <= len)
    <3>1. ~(i <= e - s)
      BY <1>1, <2>2
    <3> QED
      BY <1>3, <2>2, <3>1
  <2> QED
    BY <2>1, <2>2
<1> QED
  BY <1>3, <1>4 DEF slice, len, PaddedRead

(* SlicesArePadded holds in the states of IInv. *)
LEMMA SlicesArePaddedFollows ==
  ASSUME IInv  PROVE SlicesArePadded
<1> SUFFICES ASSUME done, op \in Slices  PROVE SlicesArePadded
  BY DEF SlicesArePadded
<1>1. result = Compute /\ data \in Seq(Int) /\ args[1] \in Nat /\ args[2] \in Nat
  <2>1. data \in Seq(0..(Byte - 1))
    BY DEF IInv, OperandsInv
  <2>2. data \in Seq(Int)
    <3>1. 0..(Byte - 1) \subseteq Int
      BY Widths
    <3> QED
      BY <2>1, <3>1, SeqMonotonic
  <2> QED
    BY <2>2 DEF IInv, OperandsInv
<1>2. CASE op = "CALLDATACOPY"
  <2>1. result = GetDataBig(data, args[1], args[2])
    BY <1>1, <1>2 DEF Compute
  <2> DEFINE s == BigMin(args[1], Len(data))
             e == BigMin(s + args[2], Len(data))
  <2>2. result = RightPadBytes(Slice(data, s, e), args[2])
    BY <2>1 DEF GetDataBig
  <2>3. /\ Len(result) = args[2]
        /\ \A i \in 1..args[2] :
             result[i] = IF args[1] + i <= Len(data) THEN data[args[1] + i] ELSE 0
    <3> DEFINE start == args[1]
               size == args[2]
    <3>1. s = BigMin(start, Len(data)) /\ e = BigMin(s + size, Len(data))
      OBVIOUS
    <3>2. start \in Nat /\ size \in Nat
      BY <1>1
    <3> HIDE DEF start, size, s, e
    <3>3. PaddedRead(RightPadBytes(Slice(data, s, e), size), data, start, size)
      BY <1>1, <3>1, <3>2, ReadPadded
    <3> QED
      BY <2>2, <3>3 DEF start, size, PaddedRead
  <2> QED
    BY <1>2, <2>3 DEF SlicesArePadded
<1>3. CASE op = "PUSH"
  <2>1. result = Push(data, args[1], args[2])
    BY <1>1, <1>3 DEF Compute
  <2> DEFINE start == args[1] + 1
             s == BigMin(start, Len(data))
             e == BigMin(s + args[2], Len(data))
  <2>2. result = RightPadBytes(Slice(data, s, e), args[2])
    BY <2>1 DEF Push
  <2>3. /\ Len(result) = args[2]
        /\ \A i \in 1..args[2] :
             result[i] = IF start + i <= Len(data) THEN data[start + i] ELSE 0
    <3> DEFINE size == args[2]
    <3>1. s = BigMin(start, Len(data)) /\ e = BigMin(s + size, Len(data))
      OBVIOUS
    <3>2. start \in Nat /\ size \in Nat
      BY <1>1
    <3> HIDE DEF start, size, s, e
    <3>3. PaddedRead(RightPadBytes(Slice(data, s, e), size), data, start, size)
      BY <1>1, <3>1, <3>2, ReadPadded
    <3> QED
      BY <2>2, <3>3 DEF start, size, PaddedRead
  <2> QED
    BY <1>3, <2>3 DEF SlicesArePadded
<1> QED
  BY <1>2, <1>3 DEF Slices

(* What is copied from data or pushed from code is as long as asked for and *)
(* has the bytes that are there, and zeros, for every start and size       *)
(* (getDataBig, makePush, rightPadBytes).                                  *)
THEOREM SlicesPadded == Spec => []SlicesArePadded
BY Invariance, SlicesArePaddedFollows, PTL

-----------------------------------------------------------------------------
(* Two's complement. *)

(* The numbers that words stand for. *)
SignedWord == (-Half)..(Half - 1)

(* S256 is the number that a word stands for, and the only one. *)
LEMMA SignedIsS256 ==
  ASSUME NEW w \in Word
  PROVE  /\ Signed(w) = S256(w)
         /\ S256(w) \in SignedWord /\ S256(w) % Modulus = w
<1>1. /\ w \in Nat /\ w < Modulus /\ Modulus = 2 * Half
      /\ Half \in Nat \ {0} /\ Modulus \in Nat \ {0}
  BY Widths DEF Word
<1> DEFINE i == S256(w)
<1>2. i \in SignedWord
  BY <1>1 DEF S256, SignedWord
<1>3. i % Modulus = w
  <2>1. w % Modulus = w
    BY <1>1, SmallMod DEF Word
  <2>2. CASE w < Half
    BY <2>1, <2>2 DEF S256
  <2>3. CASE ~(w < Half)
    <3> DEFINE k == -1
    <3>1. i = w + (Modulus * k) /\ k \in Int
      BY <1>1, <2>3 DEF S256
    <3> HIDE DEF i, k
    <3>2. (w + (Modulus * k)) % Modulus = w % Modulus
      <4>1. w \in Int /\ k \in Int /\ Modulus \in Nat \ {0}
        BY <1>1, <3>1
      <4> QED
        BY ONLY <4>1, ModShift
    <3> QED
      BY <2>1, <3>1, <3>2
  <2> QED
    BY <2>2, <2>3
<1>4. ASSUME NEW j \in SignedWord, j % Modulus = w  PROVE j = i
  <2>1. i \in Int /\ j \in Int /\ i - j < Modulus /\ j - i < Modulus
    BY <1>1, <1>2 DEF SignedWord
  <2> HIDE DEF i
  <2> QED
    BY <1>1, <1>3, <1>4, <2>1, SameMod
<1>5. Signed(w) = CHOOSE j \in SignedWord : j % Modulus = w
  BY DEF Signed, SignedOf, SignedWord, Word
<1> HIDE DEF i
<1>6. (CHOOSE j \in SignedWord : j % Modulus = w) = i
  BY <1>2, <1>3, <1>4
<1> QED
  BY <1>2, <1>3, <1>5, <1>6 DEF i

(* A number that a word can stand for is what its word stands for. *)
LEMMA SignedOfU256 ==
  ASSUME NEW i \in SignedWord
  PROVE  U256(i) \in Word /\ Signed(U256(i)) = i
<1>1. i \in Int /\ Half \in Nat \ {0} /\ Modulus \in Nat \ {0} /\ Modulus = 2 * Half
  BY Widths DEF SignedWord
<1>2. U256(i) \in Word
  BY <1>1, DivMod DEF U256, Word
<1> DEFINE w == U256(i)
<1>3. Signed(w) = S256(w) /\ S256(w) \in SignedWord /\ S256(w) % Modulus = w
  <2> HIDE DEF w
  <2> QED
    BY <1>2, SignedIsS256 DEF w
<1> DEFINE j == S256(w)
<1>4. i % Modulus = j % Modulus /\ j \in Int /\ i - j < Modulus /\ j - i < Modulus
  BY <1>1, <1>3 DEF SignedWord, U256
<1> HIDE DEF j
<1>5. i = j
  BY <1>1, <1>4, SameMod
<1> QED
  BY <1>2, <1>3, <1>5 DEF j

(* Any result brought back to 256 bits is a word. *)
LEMMA U256Word ==
  ASSUME NEW x \in Int
  PROVE  U256(x) \in Word
BY DivMod, Widths DEF U256, Word

-----------------------------------------------------------------------------
(* Signed division. *)

(* The sign of a product is that of the dividend. *)
LEMMA SignedProduct ==
  ASSUME NEW a \in Int, NEW b \in Int, a # 0, b # 0, NEW q \in Nat
  PROVE  (IF Sign(a) # Sign(b) THEN -q ELSE q) * b
           = IF a < 0 THEN -(Abs(b) * q) ELSE Abs(b) * q
<1>1. CASE a > 0 /\ b > 0
  BY <1>1 DEF Sign, Abs
<1>2. CASE a > 0 /\ b < 0
  BY <1>2 DEF Sign, Abs
<1>3. CASE a < 0 /\ b > 0
  BY <1>3 DEF Sign, Abs
<1>4. CASE a < 0 /\ b < 0
  BY <1>4 DEF Sign, Abs
<1> QED
  BY <1>1, <1>2, <1>3, <1>4

(* The quotient of the absolute values, negated if the signs differ, and   *)
(* their remainder with the sign of the dividend, divide with remainder.   *)
LEMMA SignedQuotient ==
  ASSUME NEW a \in Int, NEW b \in Int, b # 0, NEW q, NEW r,
         q = Abs(a) \div Abs(b), r = Abs(a) % Abs(b)
  PROVE  LET sq == IF Sign(a) # Sign(b) THEN -q ELSE q
             sr == IF a < 0 THEN -r ELSE r
         IN  /\ q \in Nat /\ r \in Nat /\ r < Abs(b) /\ q <= Abs(a)
             /\ Abs(a) = (Abs(b) * q) + r
             /\ a = (sq * b) + sr
             /\ Abs(sr) < Abs(b)
             /\ sr = 0 \/ Sign(sr) = Sign(a)
             /\ (a - sr) % Abs(b) = 0
<1> DEFINE m == Abs(a)
           n == Abs(b)
           sq == IF Sign(a) # Sign(b) THEN -q ELSE q
           sr == IF a < 0 THEN -r ELSE r
<1>1. m \in Nat /\ n \in Nat \ {0}
  BY DEF Abs
<1>2. m = (n * q) + r /\ q \in Nat /\ r \in Nat /\ r < n /\ q <= m
  <2> HIDE DEF m, n
  <2>1. q = m \div n /\ r = m % n
    BY DEF m, n
  <2>2. /\ m = (n * (m \div n)) + (m % n) /\ m \div n \in Int /\ m % n \in Nat /\ m % n < n
        /\ m \div n \in Nat /\ m \div n <= m
    BY <1>1, DivMod, QuotientType
  <2> QED
    BY <2>1, <2>2
<1>3. n * q \in Nat
  <2> HIDE DEF n
  <2> QED
    BY <1>1, <1>2, ProductType
<1>4. CASE a = 0
  <2>1. q = 0 /\ r = 0
    <3>1. m = 0
      BY <1>4 DEF Abs
    <3> HIDE DEF m, n
    <3> QED
      BY <1>1, <1>2, <3>1
  <2>2. sq = 0 /\ sr = 0
    BY <2>1, <1>4
  <2>3. 0 % n = 0
    <3> HIDE DEF n
    <3>1. 0 \in 0..(n - 1)
      BY <1>1
    <3> QED
      BY <1>1, <3>1, SmallMod
  <2>4. (sq * b) + sr = 0 /\ Abs(sr) = 0 /\ a - sr = 0
    BY <1>4, <2>2 DEF Abs
  <2> QED
    BY <1>1, <1>2, <1>4, <2>2, <2>3, <2>4
<1>5. CASE a # 0
  <2>1. sq * b = IF a < 0 THEN -(n * q) ELSE n * q
    BY ONLY <1>2, <1>5, a \in Int, b \in Int, b # 0, SignedProduct
  <2>2. a = IF a < 0 THEN -m ELSE m
    BY DEF Abs
  <2> DEFINE p == n * q
             s == sq * b
  <2>3. p \in Nat /\ m = p + r
    BY <1>2, <1>3
  <2>4. s = IF a < 0 THEN -p ELSE p
    BY <2>1
  <2>5. a = s + sr
    <3> HIDE DEF p, s, m
    <3> QED
      BY <1>2, <2>2, <2>3, <2>4
  <2>6. Abs(sr) < n /\ (sr = 0 \/ Sign(sr) = Sign(a))
    <3> HIDE DEF n, m
    <3> QED
      BY <1>1, <1>2, <1>5 DEF Abs, Sign
  <2>7. (a - sr) % n = 0
    <3> DEFINE k == IF a < 0 THEN -q ELSE q
    <3>1. k \in Int /\ s = n * k
      <4>1. n * (-q) = -p
        <5> HIDE DEF n
        <5> QED
          BY <1>1, <1>2
      <4>2. k \in Int
        BY <1>2
      <4>3. CASE a < 0
        BY <2>4, <4>1, <4>2, <4>3
      <4>4. CASE ~(a < 0)
        BY <2>4, <4>2, <4>4
      <4> QED
        BY <4>3, <4>4
    <3>2. a - sr = s
      <4>1. s \in Int /\ sr \in Int
        <5> HIDE DEF s, p
        <5> QED
          BY <1>2, <2>3, <2>4
      <4> HIDE DEF s, sr
      <4> QED
        BY <2>5, <4>1
    <3>3. (n * k) % n = 0
      <4> HIDE DEF n, k
      <4> QED
        BY <1>1, <3>1, ModMultiple
    <3> QED
      BY <3>1, <3>2, <3>3
  <2> QED
    BY <1>2, <2>5, <2>6, <2>7
<1> QED
  BY <1>4, <1>5

(* r is the remainder of a by b that has the sign of a. *)
Remains(a, b, r) ==
  /\ (a - r) % Abs(b) = 0 /\ Abs(r) < Abs(b)
  /\ r = 0 \/ Sign(r) = Sign(a)

(* SDIV is the signed quotient; -Half by -1, whose quotient is no word,    *)
(* wraps to -Half.                                                         *)
LEMMA SdivExact ==
  ASSUME NEW x \in Word, NEW y \in Word
  PROVE  LET a == S256(x)
             b == S256(y)
             q == IF a = -Half /\ b = -1 THEN Half ELSE Signed(Sdiv(x, y))
         IN  IF b = 0 THEN Sdiv(x, y) = 0
             ELSE Remains(a, b, a - q * b) /\ q % Modulus = Sdiv(x, y)
<1> DEFINE a == S256(x)
           b == S256(y)
           q == Abs(a) \div Abs(b)
           r == Abs(a) % Abs(b)
           sq == IF Sign(a) # Sign(b) THEN -q ELSE q
           sr == IF a < 0 THEN -r ELSE r
           Q == IF a = -Half /\ b = -1 THEN Half ELSE Signed(Sdiv(x, y))
<1>1. a \in SignedWord /\ b \in SignedWord /\ a \in Int /\ b \in Int
  BY SignedIsS256 DEF SignedWord
<1>2. Half \in Nat \ {0} /\ Modulus \in Nat \ {0} /\ Modulus = 2 * Half
  BY Widths
<1>3. CASE b = 0
  <2>1. Sdiv(x, y) = 0
    BY <1>3 DEF Sdiv
  <2> QED
    BY <1>3, <2>1
<1>4. CASE b # 0
  <2>1. /\ q \in Nat /\ r \in Nat /\ r < Abs(b) /\ q <= Abs(a)
        /\ Abs(a) = (Abs(b) * q) + r
        /\ a = (sq * b) + sr
        /\ Abs(sr) < Abs(b) /\ (sr = 0 \/ Sign(sr) = Sign(a)) /\ (a - sr) % Abs(b) = 0
    <3> HIDE DEF a, b
    <3> QED
      BY <1>1, <1>4, SignedQuotient
  <2>2. Sdiv(x, y) = U256(sq)
    <3>1. CASE a = 0
      <4>1. q = 0
        <5> HIDE DEF q, a, b
        <5> QED
          BY <2>1, <3>1 DEF Abs
      <4>2. sq = 0
        <5>1. sq \in Int /\ (sq + q = 0 \/ sq = q)
          <6> HIDE DEF q
          <6> QED
            BY ONLY <2>1
        <5> HIDE DEF q, sq
        <5> QED
          BY <4>1, <5>1
      <4>4. 0 % Modulus = 0
        <5>1. 0 \in 0..(Modulus - 1)
          BY <1>2
        <5> QED
          BY <1>2, <5>1, SmallMod
      <4>3. Sdiv(x, y) = 0
        BY <3>1 DEF Sdiv
      <4> HIDE DEF sq
      <4> QED
        BY <4>2, <4>3, <4>4 DEF U256
    <3>2. CASE a # 0
      BY <1>4, <3>2 DEF Sdiv
    <3> QED
      BY <3>1, <3>2
  <2> HIDE DEF a, b, q, r
  <2>3. ASSUME a = -Half, b = -1  PROVE Q = sq
    <3>1. q = Half /\ Sign(a) = Sign(b)
      BY <1>2, <2>1, <2>3 DEF Abs, Sign
    <3> QED
      BY <2>3, <3>1
  <2>4. ASSUME ~(a = -Half /\ b = -1)  PROVE Q = sq
    <3>1. sq \in SignedWord
      <4>1. Abs(a) <= Half /\ Abs(a) \in Nat
        BY <1>1, <1>2 DEF Abs, SignedWord
      <4>2. CASE Sign(a) # Sign(b)
        BY <1>2, <2>1, <4>1, <4>2 DEF SignedWord
      <4>3. CASE Sign(a) = Sign(b) /\ a # -Half
        <5>1. Abs(a) < Half
          BY <1>1, <1>2, <4>3 DEF Abs, SignedWord
        <5> QED
          BY <1>2, <2>1, <4>1, <4>3, <5>1 DEF SignedWord
      <4>4. CASE Sign(a) = Sign(b) /\ a = -Half
        <5>1. b < -1 /\ Abs(b) \in Nat /\ Abs(b) >= 2
          BY <1>1, <1>2, <1>4, <2>4, <4>4 DEF Abs, Sign
        <5>2. Abs(b) * q >= 2 * q /\ Abs(b) * q \in Nat
          BY <2>1, <5>1
        <5>3. 2 * q <= Half
          BY <1>2, <2>1, <4>1, <5>2
        <5>4. q < Half
          BY <1>2, <2>1, <5>3
        <5> QED
          BY <1>2, <2>1, <4>4, <5>4 DEF SignedWord
      <4> QED
        BY <4>2, <4>3, <4>4
    <3>2. Signed(U256(sq)) = sq
      <4> HIDE DEF sq
      <4> QED
        BY <3>1, SignedOfU256
    <3> QED
      BY <2>2, <2>4, <3>2
  <2>5. Q = sq
    BY <2>2, <2>3, <2>4
  <2>6. sq \in Int /\ sr \in Int /\ sq * b \in Int
    BY <1>1, <2>1
  <2> HIDE DEF Q, sq, sr
  <2>7. a - (Q * b) = sr
    BY <1>1, <2>1, <2>5, <2>6
  <2>8. Remains(a, b, a - (Q * b)) /\ Q % Modulus = Sdiv(x, y)
    BY <2>1, <2>2, <2>5, <2>7 DEF Remains, U256
  <2> QED
    BY <1>4, <2>8 DEF Q, a, b
<1> QED
  BY <1>3, <1>4

(* SMOD is the remainder that has the sign of the dividend. *)
LEMMA SmodExact ==
  ASSUME NEW x \in Word, NEW y \in Word
  PROVE  IF S256(y) = 0 THEN Smod(x, y) = 0
         ELSE Remains(S256(x), S256(y), Signed(Smod(x, y)))
<1> DEFINE a == S256(x)
           b == S256(y)
           q == Abs(a) \div Abs(b)
           r == Abs(a) % Abs(b)
           sr == IF a < 0 THEN -r ELSE r
<1>1. a \in SignedWord /\ b \in SignedWord /\ a \in Int /\ b \in Int
  BY SignedIsS256 DEF SignedWord
<1>2. Half \in Nat \ {0}
  BY Widths
<1>3. CASE b = 0
  BY <1>3 DEF Smod
<1>4. CASE b # 0
  <2>1. /\ r \in Nat /\ r < Abs(b)
        /\ Abs(sr) < Abs(b) /\ (sr = 0 \/ Sign(sr) = Sign(a)) /\ (a - sr) % Abs(b) = 0
    <3> HIDE DEF a, b
    <3> QED
      BY <1>1, <1>4, SignedQuotient
  <2>2. Smod(x, y) = U256(sr)
    BY <1>4 DEF Smod
  <2> HIDE DEF a, b, q, r
  <2>3. sr \in SignedWord
    BY <1>1, <1>2, <2>1 DEF Abs, SignedWord
  <2> HIDE DEF sr
  <2>4. Signed(Smod(x, y)) = sr
    BY <2>2, <2>3, SignedOfU256
  <2>5. Remains(a, b, sr)
    BY <2>1 DEF Remains
  <2> QED
    BY <1>4, <2>4, <2>5 DEF a, b, Remains
<1> QED
  BY <1>3, <1>4

(* SignedDivision holds in the states of IInv. *)
LEMMA SignedDivisionFollows ==
  ASSUME IInv  PROVE SignedDivision
<1> SUFFICES ASSUME done, op \in {"SDIV", "SMOD"}  PROVE SignedDivision
  BY DEF SignedDivision
<1> DEFINE x == args[1]
           y == args[2]
<1>1. result = Compute /\ x \in Word /\ y \in Word
  BY DEF IInv, OperandsInv, Binary
<1>2. Signed(x) = S256(x) /\ Signed(y) = S256(y)
  <2> HIDE DEF x, y
  <2> QED
    BY <1>1, SignedIsS256
<1>3. CASE op = "SDIV"
  <2>1. R = Sdiv(x, y)
    BY <1>1, <1>3 DEF Compute, R
  <2> DEFINE q == IF S256(x) = -Half /\ S256(y) = -1 THEN Half ELSE Signed(R)
             r == S256(x) - q * S256(y)
  <2>2. IF S256(y) = 0 THEN R = 0
        ELSE Remains(S256(x), S256(y), r) /\ q % Modulus = R
    <3> HIDE DEF x, y
    <3> QED
      BY <1>1, <2>1, SdivExact
  <2> HIDE DEF x, y
  <2> QED
    BY <1>2, <1>3, <2>2 DEF SignedDivision, Remains, x, y
<1>4. CASE op = "SMOD"
  <2>1. R = Smod(x, y)
    BY <1>1, <1>4 DEF Compute, R
  <2>2. IF S256(y) = 0 THEN R = 0
        ELSE Remains(S256(x), S256(y), Signed(R))
    <3> HIDE DEF x, y
    <3> QED
      BY <1>1, <2>1, SmodExact
  <2> QED
    BY <1>2, <1>4, <2>2 DEF SignedDivision, Remains
<1> QED
  BY <1>3, <1>4

(* SDIV and SMOD divide signed numbers, rounding towards zero, for every   *)
(* pair of words, the smallest number by -1 included (opSdiv, opSmod).     *)
THEOREM SignedDivisionExact == Spec => []SignedDivision
BY Invariance, SignedDivisionFollows, PTL

-----------------------------------------------------------------------------
(* Comparisons, shifts and sign extension. *)

(* SLT and SGT look at the sign bits first, and compare signed numbers.    *)
LEMMA ComparisonsExact ==
  ASSUME NEW x \in Word, NEW y \in Word
  PROVE  /\ Slt(x, y) \in {0, 1} /\ (Slt(x, y) = 1 <=> Signed(x) < Signed(y))
         /\ Sgt(x, y) \in {0, 1} /\ (Sgt(x, y) = 1 <=> Signed(x) > Signed(y))
<1>1. /\ x \in Nat /\ x < Modulus /\ y \in Nat /\ y < Modulus
      /\ Half \in Nat \ {0} /\ Modulus = 2 * Half
  BY Widths DEF Word
<1>2. Signed(x) = S256(x) /\ Signed(y) = S256(y)
  BY SignedIsS256
<1> QED
  BY <1>1, <1>2 DEF S256, Slt, Sgt, Flag

(* SHL multiplies by a power of two. *)
LEMMA ShlExact ==
  ASSUME NEW x \in Word, NEW y \in Word
  PROVE  Shl(x, y) = (y * TwoTo[ShiftedOut(x)]) % Modulus
<1>1. x \in Nat /\ y \in Nat /\ Bits \in Nat /\ Modulus \in Nat \ {0}
  BY Widths DEF Word
<1>2. CASE x >= Bits
  <2>1. ShiftedOut(x) = Bits
    BY <1>1, <1>2 DEF ShiftedOut
  <2>2. y * Modulus = Modulus * y
    BY <1>1
  <2>3. (Modulus * y) % Modulus = 0
    BY <1>1, ModMultiple
  <2>4. Shl(x, y) = 0
    BY <1>2 DEF Shl
  <2> QED
    BY <2>1, <2>2, <2>3, <2>4 DEF Modulus
<1>3. CASE ~(x >= Bits)
  BY <1>1, <1>3 DEF Shl, ShiftedOut, U256
<1> QED
  BY <1>2, <1>3

(* SHR divides by a power of two. *)
LEMMA ShrExact ==
  ASSUME NEW x \in Word, NEW y \in Word
  PROVE  Shr(x, y) = y \div TwoTo[ShiftedOut(x)]
<1>1. x \in Nat /\ y \in 0..(Modulus - 1) /\ y \in Nat /\ y < Modulus /\ Bits \in Nat /\ Modulus \in Nat \ {0}
  BY Widths DEF Word
<1>2. CASE x >= Bits
  <2>1. ShiftedOut(x) = Bits
    BY <1>1, <1>2 DEF ShiftedOut
  <2>2. y \div Modulus = 0
    BY <1>1, SmallMod
  <2>3. Shr(x, y) = 0
    BY <1>2 DEF Shr
  <2> QED
    BY <2>1, <2>2, <2>3 DEF Modulus
<1>3. CASE ~(x >= Bits)
  <2> DEFINE q == y \div TwoTo[x]
  <2>1. q \in Nat /\ q <= y
    BY <1>1, TwoToType, QuotientType
  <2>2. Shr(x, y) = q % Modulus /\ ShiftedOut(x) = x
    BY <1>1, <1>3 DEF Shr, ShiftedOut, U256
  <2> HIDE DEF q
  <2>3. q \in 0..(Modulus - 1)
    BY <1>1, <2>1
  <2>4. q % Modulus = q
    BY <1>1, <2>3, SmallMod
  <2> QED
    BY <2>2, <2>4 DEF q
<1> QED
  BY <1>2, <1>3

(* Rounding down, the quotient of a signed word is one. *)
LEMMA SignedQuotientRange ==
  ASSUME NEW i \in SignedWord, NEW s \in Nat \ {0}
  PROVE  i \div s \in SignedWord
<1> DEFINE q == i \div s
           r == i % s
<1>1. i \in Int /\ -Half <= i /\ i < Half /\ Half \in Nat \ {0}
  BY Widths DEF SignedWord
<1>2. i = (s * q) + r /\ q \in Int /\ r \in Nat /\ r < s
  BY <1>1, DivMod
<1> HIDE DEF q, r
<1>3. s * q \in Int
  BY <1>2
<1>4. q >= -Half
  <2> SUFFICES ASSUME q <= -Half - 1  PROVE FALSE
    BY <1>1, <1>2
  <2>1. s * q <= s * (-Half - 1)
    BY <1>1, <1>2
  <2>2. s * (-Half - 1) = -(s * Half) - s /\ s * Half >= Half /\ s * Half \in Nat
    BY <1>1, ProductType
  <2> QED
    BY <1>1, <1>2, <1>3, <2>1, <2>2
<1>5. q < Half
  <2> SUFFICES ASSUME q >= Half  PROVE FALSE
    BY <1>1, <1>2
  <2>1. s * q >= q
    BY <1>1, <1>2
  <2> QED
    BY <1>1, <1>2, <1>3, <2>1
<1> QED
  BY <1>1, <1>2, <1>4, <1>5 DEF q, SignedWord

(* SAR divides the signed number by a power of two, rounding down, but of  *)
(* zero it makes -1 when it shifts everything out.                         *)
LEMMA SarExact ==
  ASSUME NEW x \in Word, NEW y \in Word, ~(y = 0 /\ x >= Bits)
  PROVE  Signed(Sar(x, y)) = Signed(y) \div TwoTo[ShiftedOut(x)]
<1> DEFINE i == S256(y)
<1>1. /\ x \in Nat /\ y \in Nat /\ Bits \in Nat /\ Modulus \in Nat \ {0}
      /\ Half \in Nat \ {0} /\ Modulus = 2 * Half
  BY Widths DEF Word
<1>2. Signed(y) = i /\ i \in SignedWord /\ i % Modulus = y
  BY SignedIsS256
<1>3. CASE x >= Bits
  <2>1. ShiftedOut(x) = Bits /\ Sar(x, y) = U256(IF i > 0 THEN 0 ELSE -1)
    BY <1>1, <1>3 DEF ShiftedOut, Sar
  <2> DEFINE j == IF i > 0 THEN 0 ELSE -1
  <2> HIDE DEF i
  <2>2. i \in Int /\ -Half <= i /\ i < Half
    BY <1>1, <1>2 DEF SignedWord
  <2>3. i # 0
    <3>1. 0 \in 0..(Modulus - 1)
      BY <1>1
    <3>2. 0 % Modulus = 0
      BY <1>1, <3>1, SmallMod
    <3> QED
      BY <1>2, <1>3, <3>2
  <2>4. i \div Modulus = j
    <3>1. CASE i > 0
      <4>1. i \in 0..(Modulus - 1)
        BY <1>1, <2>2, <3>1
      <4> QED
        BY <1>1, <3>1, <4>1, SmallMod
    <3>2. CASE ~(i > 0)
      <4> DEFINE k == -1
                 r == i + Modulus
      <4>1. k \in Int /\ r \in Int /\ 0 <= r /\ r < Modulus /\ i = (Modulus * k) + r
        BY <1>1, <2>2, <2>3, <3>2
      <4> HIDE DEF k, r
      <4>2. i \div Modulus = k
        BY <1>1, <2>2, <4>1, DivUnique
      <4> QED
        BY <3>2, <4>2 DEF k
    <3> QED
      BY <3>1, <3>2
  <2>5. j \in SignedWord
    BY <1>1 DEF SignedWord
  <2> HIDE DEF j
  <2>6. Signed(U256(j)) = j
    BY <2>5, SignedOfU256
  <2> QED
    BY <1>2, <2>1, <2>4, <2>6 DEF j, Modulus
<1>4. CASE ~(x >= Bits)
  <2> DEFINE j == i \div TwoTo[x]
  <2>1. ShiftedOut(x) = x /\ Sar(x, y) = U256(j)
    BY <1>1, <1>4 DEF ShiftedOut, Sar
  <2> HIDE DEF i
  <2>2. j \in SignedWord
    BY <1>1, <1>2, TwoToType, SignedQuotientRange
  <2> HIDE DEF j
  <2>3. Signed(U256(j)) = j
    BY <2>2, SignedOfU256
  <2> QED
    BY <1>2, <2>1, <2>3 DEF j
<1> QED
  BY <1>3, <1>4

(* SIGNEXTEND keeps the low bytes and repeats their sign above them. *)
LEMMA SignExtendExact ==
  ASSUME NEW x \in Word, NEW y \in Word
  PROVE  LET e == TwoTo[ByteBits * (x + 1)]
         IN  IF x >= WordBytes THEN SignExtend(x, y) = y
             ELSE /\ Signed(SignExtend(x, y)) % e = y % e
                  /\ Signed(SignExtend(x, y)) \in (-(e \div 2))..((e \div 2) - 1)
<1> DEFINE e == TwoTo[ByteBits * (x + 1)]
<1>1. /\ x \in Nat /\ y \in Nat /\ y < Modulus /\ Modulus \in Nat \ {0} /\ Half \in Nat \ {0}
      /\ Modulus = 2 * Half /\ Bits \in Nat \ {0}
      /\ ByteBits \in Nat \ {0} /\ WordBytes \in Nat \ {0} /\ Bits = ByteBits * WordBytes
  BY Widths, WidthAssumption DEF Word, Bits
<1>2. CASE x >= WordBytes
  <2>1. SignExtend(x, y) = y
    BY <1>1, <1>2 DEF SignExtend
  <2> QED
    BY <1>2, <2>1
<1>3. CASE x = WordBytes - 1
  <2>1. e = Modulus
    BY <1>1, <1>3 DEF Modulus
  <2>2. SignExtend(x, y) = y
    BY <1>1, <1>3 DEF SignExtend
  <2>3. Signed(y) = S256(y) /\ S256(y) \in SignedWord /\ S256(y) % Modulus = y /\ y % Modulus = y
    BY <1>1, SignedIsS256, SmallMod DEF Word
  <2>4. Modulus \div 2 = Half
    BY <1>1
  <2> HIDE DEF e
  <2>5. Signed(y) % e = y % e /\ Signed(y) \in (-(e \div 2))..((e \div 2) - 1)
    BY <2>1, <2>3, <2>4 DEF SignedWord
  <2> QED
    BY <1>1, <1>3, <2>2, <2>5 DEF e
<1>4. CASE x < WordBytes - 1
  <2> DEFINE bit == x * ByteBits + ByteBits - 1
             h == TwoTo[bit]
             low == y % h
             b == (y \div h) % 2
             v == IF b > 0 THEN low - h ELSE low
  <2>1. SignExtend(x, y) = U256(v)
    BY <1>4 DEF SignExtend
  <2>2. bit \in Nat /\ ByteBits * (x + 1) = bit + 1 /\ bit + 1 <= Bits
    <3>1. x * ByteBits \in Nat /\ ByteBits * (x + 1) = (x * ByteBits) + ByteBits
      BY <1>1, ProductType
    <3>2. ByteBits * (x + 1) <= ByteBits * WordBytes
      BY <1>1, <1>4
    <3> QED
      BY <1>1, <3>1, <3>2
  <2>3. h \in Nat \ {0} /\ e = 2 * h /\ h <= Half
    <3> HIDE DEF bit
    <3>1. TwoTo[bit + 1] = 2 * TwoTo[bit]
      BY <2>2, TwoToDef
    <3>2. TwoTo[bit] <= TwoTo[Bits - 1]
      <4>1. Bits - 1 \in Nat /\ bit <= Bits - 1
        BY <1>1, <2>2
      <4> QED
        BY <2>2, <4>1, TwoToMonotone
    <3> QED
      BY <2>2, <3>1, <3>2, TwoToType DEF Half
  <2> HIDE DEF bit, h, e
  <2>4. y \div h \in Nat /\ low \in Nat /\ low < h
    BY <1>1, <2>3, DivMod, QuotientType
  <2>5. b \in {0, 1}
    BY <2>4
  <2>6. y % e = (h * b) + low
    <3> DEFINE two == 2
    <3>1. e = h * two /\ two \in Nat \ {0}
      BY <2>3
    <3> HIDE DEF two
    <3>2. y % (h * two) = (h * ((y \div h) % two)) + (y % h)
      <4>1. y \in Int /\ h \in Nat \ {0}
        BY <1>1, <2>3
      <4> QED
        BY ONLY <3>1, <4>1, DivDiv
    <3> QED
      BY <3>1, <3>2 DEF two
  <2> HIDE DEF low, b
  <2>7. v \in (-h)..(h - 1)
    BY <2>3, <2>4, <2>5
  <2>8. v % e = y % e
    <3>1. e \in Nat \ {0}
      BY <2>3
    <3>2. CASE b = 0
      <4>1. v = y % e /\ v \in 0..(e - 1)
        BY <2>3, <2>4, <2>6, <3>2
      <4> HIDE DEF v
      <4> QED
        BY <3>1, <4>1, SmallMod
    <3>3. CASE b = 1
      <4> DEFINE k == -1
                 r == y % e
      <4>1. v = (e * k) + r /\ r \in Int /\ 0 <= r /\ r < e /\ k \in Int
        BY <2>3, <2>4, <2>6, <3>3
      <4>2. v \in Int
        BY <2>3, <2>7
      <4> HIDE DEF v, k, r
      <4>3. v % e = r
        BY <3>1, <4>1, <4>2, DivUnique
      <4> QED
        BY <4>3 DEF r
    <3> QED
      BY <2>5, <3>2, <3>3
  <2> HIDE DEF v
  <2>9. Signed(U256(v)) = v
    <3>1. v \in SignedWord
      BY <1>1, <2>3, <2>7 DEF SignedWord
    <3> QED
      BY <3>1, SignedOfU256
  <2>10. e \div 2 = h
    BY <2>3
  <2>11. /\ Signed(SignExtend(x, y)) % e = y % e
         /\ Signed(SignExtend(x, y)) \in (-(e \div 2))..((e \div 2) - 1)
    BY <2>1, <2>7, <2>8, <2>9, <2>10
  <2> QED
    BY <1>1, <1>4, <2>11 DEF e
<1> QED
  BY <1>1, <1>2, <1>3, <1>4

(* SignedWords holds in the states of IInv. *)
LEMMA SignedWordsFollows ==
  ASSUME IInv  PROVE SignedWords
<1> SUFFICES ASSUME done  PROVE SignedWords
  BY DEF SignedWords
<1> DEFINE x == args[1]
           y == args[2]
<1>1. CASE op \notin {"SLT", "SGT", "SHL", "SHR", "SAR", "SIGNEXTEND"}
  BY <1>1 DEF SignedWords
<1>2. CASE op \in {"SLT", "SGT", "SHL", "SHR", "SAR", "SIGNEXTEND"}
  <2>1. result = Compute /\ x \in Word /\ y \in Word
    BY <1>2 DEF IInv, OperandsInv, Binary
  <2>2. CASE op \in {"SLT", "SGT"}
    <3>1. R = IF op = "SLT" THEN Slt(x, y) ELSE Sgt(x, y)
      BY <2>1, <2>2 DEF Compute, R
    <3>2. /\ Slt(x, y) \in {0, 1} /\ (Slt(x, y) = 1 <=> Signed(x) < Signed(y))
          /\ Sgt(x, y) \in {0, 1} /\ (Sgt(x, y) = 1 <=> Signed(x) > Signed(y))
      <4> HIDE DEF x, y
      <4> QED
        BY <2>1, ComparisonsExact
    <3> QED
      BY <2>2, <3>1, <3>2 DEF SignedWords
  <2>3. CASE op = "SHL"
    <3>1. R = Shl(x, y)
      BY <2>1, <2>3 DEF Compute, R
    <3> QED
      BY <2>1, <2>3, <3>1, ShlExact DEF SignedWords
  <2>4. CASE op = "SHR"
    <3>1. R = Shr(x, y)
      BY <2>1, <2>4 DEF Compute, R
    <3> QED
      BY <2>1, <2>4, <3>1, ShrExact DEF SignedWords
  <2>5. CASE op = "SAR"
    <3>1. R = Sar(x, y)
      BY <2>1, <2>5 DEF Compute, R
    <3>2. ~(y = 0 /\ x >= Bits) => Signed(Sar(x, y)) = Signed(y) \div TwoTo[ShiftedOut(x)]
      <4> HIDE DEF x, y
      <4> QED
        BY <2>1, SarExact
    <3> QED
      BY <2>5, <3>1, <3>2 DEF SignedWords
  <2>6. CASE op = "SIGNEXTEND"
    <3>1. R = SignExtend(x, y)
      BY <2>1, <2>6 DEF Compute, R
    <3> DEFINE e == TwoTo[ByteBits * (x + 1)]
    <3>2. IF x >= WordBytes THEN SignExtend(x, y) = y
          ELSE /\ Signed(SignExtend(x, y)) % e = y % e
               /\ Signed(SignExtend(x, y)) \in (-(e \div 2))..((e \div 2) - 1)
      <4> HIDE DEF x, y
      <4> QED
        BY <2>1, SignExtendExact
    <3> QED
      BY <2>6, <3>1, <3>2 DEF SignedWords
  <2> QED
    BY <1>2, <2>2, <2>3, <2>4, <2>5, <2>6
<1> QED
  BY <1>1, <1>2

(* Comparisons, shifts and sign extension work on the signed number that a *)
(* word stands for, for all words (opSlt, opSgt, opSHL, opSHR, opSAR,      *)
(* opSignExtend).                                                          *)
THEOREM SignedWordsExact == Spec => []SignedWords
BY Invariance, SignedWordsFollows, PTL

-----------------------------------------------------------------------------
(* Limbs and bytes. *)

(* The bits of a number from i on, j of them, cut out of its limbs or bytes *)
(* or of itself.                                                           *)
LEMMA CutBits ==
  ASSUME NEW x \in Nat, NEW i \in Nat, NEW j \in Nat, NEW w \in Nat, NEW n \in Nat,
         j + n <= w
  PROVE  (((x \div TwoTo[i]) % TwoTo[w]) \div TwoTo[j]) % TwoTo[n]
           = (x \div TwoTo[i + j]) % TwoTo[n]
<1> DEFINE u == x \div TwoTo[i]
           a == TwoTo[j]
           b == TwoTo[n]
           c == TwoTo[w - j - n]
<1>1. w - j - n \in Nat /\ w - j \in Nat /\ n + (w - j - n) = w - j /\ j + (w - j) = w
  OBVIOUS
<1>2. a \in Nat \ {0} /\ b \in Nat \ {0} /\ c \in Nat \ {0} /\ TwoTo[i] \in Nat \ {0}
  BY <1>1, TwoToType
<1>3. TwoTo[w - j] = b * c /\ TwoTo[w] = a * TwoTo[w - j]
  BY <1>1, TwoToSum
<1>4. TwoTo[i + j] = TwoTo[i] * a
  BY TwoToSum
<1>5. u \in Nat
  BY <1>2, QuotientType
<1>6. x \div TwoTo[i + j] = u \div a
  <2>1. x \in Int
    OBVIOUS
  <2> HIDE DEF a
  <2>2. x \div (TwoTo[i] * a) = (x \div TwoTo[i]) \div a
    BY <1>2, <2>1, DivDiv
  <2> QED
    BY <1>4, <2>2
<1> DEFINE d == b * c
           v == u \div a
           low == u % a
<1>7. d \in Nat \ {0} /\ v \in Nat /\ low \in Nat /\ low < a /\ v \in Int
  <2>1. d \in Nat \ {0}
    <3> HIDE DEF b, c
    <3> QED
      BY <1>2, PositiveProduct
  <2> HIDE DEF a, u
  <2>2. v \in Nat /\ low \in Nat /\ low < a
    BY <1>2, <1>5, DivMod, QuotientType
  <2> QED
    BY <2>1, <2>2
<1>8. u % TwoTo[w] = (a * (v % d)) + low
  <2>1. TwoTo[w] = a * d
    BY <1>3
  <2> HIDE DEF a, d, u
  <2>2. u \in Int
    BY <1>5
  <2>3. u % (a * d) = (a * ((u \div a) % d)) + (u % a)
    BY <1>2, <1>7, <2>2, DivDiv
  <2> QED
    BY <2>1, <2>3
<1> HIDE DEF u, a, v, low
<1>9. (u % TwoTo[w]) \div a = v % d
  <2> DEFINE q == v % d
  <2>1. q \in Nat
    <3> HIDE DEF d
    <3> QED
      BY <1>7, DivMod
  <2> HIDE DEF q
  <2> DEFINE z == u % TwoTo[w]
  <2>2. z \in Int /\ z = (a * q) + low
    BY <1>2, <1>7, <1>8, <2>1 DEF q
  <2> HIDE DEF z
  <2>3. z \div a = q
    <3>1. q \in Int /\ low \in Int /\ 0 <= low
      BY <1>7, <2>1
    <3> QED
      BY ONLY <1>2, <1>7, <2>2, <3>1, DivUnique
  <2> QED
    BY <2>3 DEF q, z
<1>10. (v % d) % b = v % b
  <2> HIDE DEF b, c
  <2>1. v % (b * c) = (b * ((v \div b) % c)) + (v % b)
    BY <1>2, <1>7, DivDiv
  <2> DEFINE k == (v \div b) % c
             r == v % b
  <2>2. k \in Nat /\ r \in Nat /\ r < b
    <3>1. v \div b \in Int
      BY <1>2, <1>7, DivMod
    <3> QED
      BY <1>2, <1>7, <3>1, DivMod
  <2> HIDE DEF k, r
  <2>3. ((b * k) + r) % b = r
    <3>1. (b * k) + r \in Int
      BY <1>2, <2>2
    <3> QED
      BY <1>2, <2>2, <3>1, DivUnique
  <2> QED
    BY <2>1, <2>3 DEF k, r
<1> QED
  BY <1>6, <1>9, <1>10 DEF u, a, b, v

(* All bits of a word are in its limbs. *)
LEMMA LimbCountExact ==
  ASSUME NEW x \in Word
  PROVE  LimbCount(x) \in 0..WordBytes /\ x < TwoTo[LimbBits * LimbCount(x)]
<1>1. x \in Nat /\ x < Modulus /\ Bits \in Nat /\ LimbBits \in Nat /\ WordBytes \in Nat
  BY Widths, WidthAssumption DEF Word
<1>2. Bits <= LimbBits * WordBytes /\ LimbBits * WordBytes \in Nat
  <2>1. ByteBits <= LimbBits
    BY WidthAssumption DEF LimbBits
  <2>2. ByteBits \in Nat
    BY WidthAssumption
  <2> QED
    BY <1>1, <2>1, <2>2, ProductType DEF Bits
<1>3. x < TwoTo[LimbBits * WordBytes]
  <2>1. TwoTo[Bits] <= TwoTo[LimbBits * WordBytes]
    BY <1>1, <1>2, TwoToMonotone
  <2> QED
    BY <1>1, <1>2, <2>1, TwoToType DEF Modulus
<1>4. \E k \in 0..WordBytes : /\ x < TwoTo[LimbBits * k]
                              /\ \A m \in 0..(k - 1) : x >= TwoTo[LimbBits * m]
  BY <1>1, <1>3, LeastPower
<1> QED
  BY <1>4 DEF LimbCount

(* The n-th byte, cut out of a limb, is the n-th digit of the word. *)
LEMMA ByteAtExact ==
  ASSUME NEW x \in Word, NEW n \in Nat
  PROVE  ByteAt(x, n) = (x \div TwoTo[ByteBits * n]) % Byte
<1> DEFINE i == n \div LimbBytes
           r == n % LimbBytes
<1>1. /\ ByteBits \in Nat \ {0} /\ LimbBytes \in Nat \ {0} /\ LimbBits = ByteBits * LimbBytes
      /\ LimbBits \in Nat \ {0} /\ Byte \in Nat \ {0} /\ x \in Nat
  BY Widths, WidthAssumption DEF LimbBits, Word
<1>2. n = (LimbBytes * i) + r /\ i \in Nat /\ r \in Nat /\ r < LimbBytes
  BY <1>1, DivMod, QuotientType
<1> HIDE DEF i, r
<1>3. /\ LimbBits * i \in Nat /\ ByteBits * r \in Nat /\ ByteBits * n \in Nat
      /\ (LimbBits * i) + (ByteBits * r) = ByteBits * n
  <2>1. LimbBits * i = ByteBits * (LimbBytes * i)
    BY <1>1, <1>2
  <2>2. ByteBits * ((LimbBytes * i) + r) = (ByteBits * (LimbBytes * i)) + (ByteBits * r)
    <3>1. LimbBytes * i \in Nat
      BY <1>1, <1>2, ProductType
    <3> HIDE DEF LimbBits
    <3> QED
      BY <1>1, <1>2, <3>1
  <2> QED
    BY <1>1, <1>2, <2>1, <2>2, ProductType
<1>4. CASE i >= LimbCount(x)
  <2>1. LimbCount(x) \in Nat /\ x < TwoTo[LimbBits * LimbCount(x)] /\ WordBytes \in Nat
    BY LimbCountExact, WidthAssumption
  <2> DEFINE c == LimbCount(x)
  <2> HIDE DEF c
  <2>2. LimbBits * c <= LimbBits * i /\ LimbBits * c \in Nat
    BY <1>1, <1>2, <1>4, <2>1, ProductType DEF c
  <2>3. TwoTo[LimbBits * c] <= TwoTo[ByteBits * n]
    <3>1. LimbBits * c <= ByteBits * n
      BY <1>3, <2>2
    <3> QED
      BY <1>3, <2>2, <3>1, TwoToMonotone
  <2> DEFINE t == TwoTo[ByteBits * n]
  <2>4. t \in Nat \ {0} /\ TwoTo[LimbBits * c] \in Nat
    BY <1>3, <2>2, TwoToType
  <2>5. x \in 0..(t - 1)
    BY <1>1, <2>1, <2>3, <2>4 DEF c
  <2> HIDE DEF t
  <2>6. x \div t = 0
    BY <2>4, <2>5, SmallMod
  <2>7. 0 % Byte = 0
    <3>1. 0 \in 0..(Byte - 1)
      BY <1>1
    <3> QED
      BY <1>1, <3>1, SmallMod
  <2>8. ByteAt(x, n) = 0
    BY <1>4 DEF ByteAt, i
  <2> QED
    BY <2>6, <2>7, <2>8 DEF t
<1>5. CASE ~(i >= LimbCount(x))
  <2>1. ByteAt(x, n) = (((x \div TwoTo[LimbBits * i]) % TwoTo[LimbBits]) \div TwoTo[ByteBits * r]) % TwoTo[ByteBits]
    BY <1>5 DEF ByteAt, LimbAt, Limb, Byte, i, r
  <2>2. (ByteBits * r) + ByteBits <= LimbBits
    <3>1. ByteBits * (r + 1) <= ByteBits * LimbBytes
      BY <1>1, <1>2
    <3>2. ByteBits * (r + 1) = (ByteBits * r) + ByteBits
      BY <1>1, <1>2
    <3> QED
      BY <1>1, <3>1, <3>2
  <2> DEFINE p == LimbBits * i
             q == ByteBits * r
  <2>3. p \in Nat /\ q \in Nat /\ p + q = ByteBits * n /\ q + ByteBits <= LimbBits
    BY <1>3, <2>2
  <2> HIDE DEF p, q
  <2>4. (((x \div TwoTo[p]) % TwoTo[LimbBits]) \div TwoTo[q]) % TwoTo[ByteBits]
          = (x \div TwoTo[p + q]) % TwoTo[ByteBits]
    BY <1>1, <2>3, CutBits
  <2> QED
    BY <2>1, <2>3, <2>4 DEF p, q, Byte
<1> QED
  BY <1>4, <1>5

(* A byte is a byte. *)
LEMMA ByteAtType ==
  ASSUME NEW x \in Word, NEW n \in Nat
  PROVE  ByteAt(x, n) \in 0..(Byte - 1)
<1> DEFINE q == x \div TwoTo[ByteBits * n]
<1>1. q \in Nat /\ Byte \in Nat \ {0}
  <2>1. ByteBits * n \in Nat /\ x \in Nat
    BY WidthAssumption, ProductType DEF Word
  <2> QED
    BY <2>1, TwoToType, QuotientType, Widths
<1>2. ByteAt(x, n) = q % Byte
  BY ByteAtExact
<1> HIDE DEF q
<1> QED
  BY <1>1, <1>2

(* Putting the bytes together, the highest first, gives the number that    *)
(* is as many bytes above the ones left.                                   *)
LEMMA SetBytesDef ==
  ASSUME NEW bytes \in Seq(Int)
  PROVE  \E value \in [0..Len(bytes) -> Int] :
           /\ SetBytes(bytes) = value[Len(bytes)] /\ value[0] = 0
           /\ \A n \in 0..(Len(bytes) - 1) : value[n + 1] = (value[n] * Byte) + bytes[n + 1]
<1> DEFINE len == Len(bytes)
           byte(n) == IF n < len THEN bytes[n + 1] ELSE 0
           step == [n \in Nat |-> [s \in Int |-> (s * Byte) + byte(n)]]
           Rec(f) == f = [n \in 0..len |-> IF n = 0 THEN 0 ELSE f[n - 1] * Byte + bytes[n]]
<1>1. len \in Nat /\ Byte \in Nat /\ \A n \in 1..len : bytes[n] \in Int
  BY Widths
<1>2. step \in [Nat -> [Int -> Int]]
  <2>1. \A n \in Nat : byte(n) \in Int
    BY <1>1
  <2> HIDE DEF byte
  <2>2. \A n \in Nat, s \in Int : (s * Byte) + byte(n) \in Int
    BY <1>1, <2>1
  <2> QED
    BY <2>2
<1>3. PICK f : Recurses(f, Int, 0, step)
  <2>1. 0 \in Int
    OBVIOUS
  <2> HIDE DEF step
  <2> QED
    BY <1>2, <2>1, Recursion
<1>4. f \in [Nat -> Int] /\ f[0] = 0 /\ \A n \in 0..(len - 1) : f[n + 1] = (f[n] * Byte) + bytes[n + 1]
  <2>1. f \in [Nat -> Int] /\ f[0] = 0 /\ \A n \in Nat : f[n + 1] = step[n][f[n]]
    BY <1>3 DEF Recurses
  <2>2. ASSUME NEW n \in 0..(len - 1)  PROVE f[n + 1] = (f[n] * Byte) + bytes[n + 1]
    <3>1. n \in Nat /\ n < len /\ f[n] \in Int
      BY <1>1, <2>1
    <3>2. step[n][f[n]] = (f[n] * Byte) + byte(n)
      BY <3>1
    <3> QED
      BY <2>1, <3>1, <3>2
  <2> QED
    BY <2>1, <2>2
<1> DEFINE g == [n \in 0..len |-> f[n]]
<1>5. Rec(g)
  <2>1. ASSUME NEW n \in 0..len, n # 0  PROVE g[n] = g[n - 1] * Byte + bytes[n]
    <3>1. n - 1 \in 0..(len - 1) /\ (n - 1) + 1 = n /\ n - 1 \in 0..len
      BY <1>1, <2>1
    <3> QED
      BY <1>4, <3>1
  <2>2. g[0] = 0
    BY <1>1, <1>4
  <2> QED
    BY <2>1, <2>2
<1> DEFINE value == CHOOSE h : Rec(h)
<1>6. SetBytes(bytes) = value[len]
  BY DEF SetBytes
<1>7. Rec(value)
  <2> HIDE DEF Rec, g
  <2> QED
    BY <1>5
<1> HIDE DEF value
<1>8. value[0] = 0 /\ \A n \in 0..(len - 1) : value[n + 1] = (value[n] * Byte) + bytes[n + 1]
  <2>1. \A n \in 0..(len - 1) : n + 1 \in 0..len /\ n + 1 # 0 /\ (n + 1) - 1 = n
    BY <1>1
  <2>2. 0 \in 0..len
    BY <1>1
  <2> QED
    BY <1>7, <2>1, <2>2
<1>9. \A n \in 0..len : value[n] \in Int
  <2> DEFINE T == {n \in Nat : n <= len => value[n] \in Int}
  <2>1. 0 \in T
    BY <1>8
  <2>2. ASSUME NEW n \in T  PROVE n + 1 \in T
    <3> SUFFICES ASSUME n + 1 <= len  PROVE value[n + 1] \in Int
      OBVIOUS
    <3>1. n \in 0..(len - 1) /\ value[n] \in Int /\ bytes[n + 1] \in Int
      BY <1>1
    <3> QED
      BY <1>1, <1>8, <3>1
  <2>3. T \subseteq Nat
    OBVIOUS
  <2> HIDE DEF T
  <2>4. T = Nat
    BY <2>1, <2>2, <2>3, SetInduction
  <2> QED
    BY <1>1, <2>4 DEF T
<1>10. value \in [0..len -> Int]
  BY <1>7, <1>9
<1> HIDE DEF Rec
<1> QED
  BY <1>6, <1>8, <1>10

(* The bytes that MSTORE writes are the word again when they are read. *)
LEMMA ReadBitsExact ==
  ASSUME NEW x \in Word
  PROVE  /\ ReadBits(x) \in Seq(Int) /\ Len(ReadBits(x)) = WordBytes
         /\ \A i \in 1..WordBytes : ReadBits(x)[i] \in 0..(Byte - 1)
         /\ SetBytes(ReadBits(x)) = x
<1> DEFINE b == ReadBits(x)
<1>1. /\ WordBytes \in Nat \ {0} /\ ByteBits \in Nat \ {0} /\ Byte \in Nat \ {0} /\ x \in Nat
      /\ x < Modulus /\ Modulus \in Nat \ {0}
  BY Widths, WidthAssumption DEF Word
<1>2. b = [i \in 1..WordBytes |-> ByteAt(x, WordBytes - i)]
  BY DEF ReadBits
<1>3. \A i \in 1..WordBytes : ByteAt(x, WordBytes - i) \in 0..(Byte - 1) /\ ByteAt(x, WordBytes - i) \in Int
  <2> SUFFICES ASSUME NEW i \in 1..WordBytes
               PROVE  ByteAt(x, WordBytes - i) \in 0..(Byte - 1) /\ ByteAt(x, WordBytes - i) \in Int
    OBVIOUS
  <2>1. WordBytes - i \in Nat
    BY <1>1
  <2>2. ByteAt(x, WordBytes - i) \in 0..(Byte - 1)
    BY <2>1, ByteAtType
  <2> QED
    BY <1>1, <2>2
<1>4. b \in Seq(Int) /\ Len(b) = WordBytes /\ \A i \in 1..WordBytes : b[i] = ByteAt(x, WordBytes - i)
  BY <1>1, <1>2, <1>3
<1> HIDE DEF b
<1>5. PICK value \in [0..WordBytes -> Int] :
        /\ SetBytes(b) = value[WordBytes] /\ value[0] = 0
        /\ \A n \in 0..(WordBytes - 1) : value[n + 1] = (value[n] * Byte) + b[n + 1]
  BY <1>4, SetBytesDef
<1> DEFINE High(n) == x \div TwoTo[ByteBits * (WordBytes - n)]
<1>6. value[0] = High(0)
  <2>1. ByteBits * (WordBytes - 0) = Bits
    BY <1>1 DEF Bits
  <2>2. x \div Modulus = 0
    <3>1. x \in 0..(Modulus - 1)
      BY <1>1
    <3> QED
      BY <1>1, <3>1, SmallMod
  <2> QED
    BY <1>5, <2>1, <2>2 DEF Modulus
<1>7. ASSUME NEW n \in 0..(WordBytes - 1), value[n] = High(n)
      PROVE  value[n + 1] = High(n + 1)
  <2> DEFINE m == WordBytes - (n + 1)
             t == TwoTo[ByteBits * m]
             u == x \div t
  <2>1. m \in Nat /\ n + 1 \in 1..WordBytes /\ n \in Nat
    BY <1>1
  <2>2. ByteBits * m \in Nat /\ ByteBits * (WordBytes - n) = (ByteBits * m) + ByteBits
    <3>1. WordBytes - n = m + 1
      BY <1>1, <2>1
    <3> HIDE DEF m
    <3>2. ByteBits * (m + 1) = (ByteBits * m) + ByteBits
      BY <1>1, <2>1
    <3> QED
      BY <1>1, <2>1, <3>1, <3>2, ProductType
  <2>3. TwoTo[ByteBits * (WordBytes - n)] = t * Byte /\ t \in Nat \ {0}
    <3> HIDE DEF m
    <3> QED
      BY <1>1, <2>2, TwoToSum, TwoToType DEF Byte
  <2>4. High(n) = u \div Byte
    <3>1. x \in Int
      BY <1>1
    <3> HIDE DEF t
    <3>2. x \div (t * Byte) = (x \div t) \div Byte
      BY <1>1, <2>3, <3>1, DivDiv
    <3> QED
      BY <2>3, <3>2
  <2>5. b[n + 1] = u % Byte
    <3>1. b[n + 1] = ByteAt(x, m)
      BY <1>4, <2>1
    <3> HIDE DEF m
    <3>2. ByteAt(x, m) = u % Byte
      BY <2>1, ByteAtExact
    <3> QED
      BY <3>1, <3>2
  <2>6. u \in Int
    <3> HIDE DEF t
    <3> QED
      BY <1>1, <2>3, DivMod
  <2> HIDE DEF t, u, m, High
  <2>7. u = (Byte * (u \div Byte)) + (u % Byte) /\ u \div Byte \in Int /\ u % Byte \in Int
    BY <1>1, <2>6, DivMod
  <2>8. value[n + 1] = ((u \div Byte) * Byte) + (u % Byte)
    BY <1>5, <1>7, <2>4, <2>5
  <2>9. value[n + 1] = u
    <3> DEFINE q == u \div Byte
               r == u % Byte
    <3>1. q \in Int /\ r \in Int /\ u = (Byte * q) + r /\ value[n + 1] = (q * Byte) + r
      BY <2>7, <2>8
    <3> HIDE DEF q, r
    <3> QED
      BY <1>1, <3>1
  <2> QED
    BY <2>9 DEF u, t, m, High
<1>8. \A n \in 0..WordBytes : value[n] = High(n)
  <2> DEFINE T == {n \in Nat : n <= WordBytes => value[n] = High(n)}
  <2> HIDE DEF High
  <2>1. 0 \in T
    BY <1>6
  <2>2. ASSUME NEW n \in T  PROVE n + 1 \in T
    <3> SUFFICES ASSUME n + 1 <= WordBytes  PROVE value[n + 1] = High(n + 1)
      OBVIOUS
    <3>1. n \in 0..(WordBytes - 1) /\ value[n] = High(n)
      BY <1>1
    <3> QED
      BY <1>7, <3>1
  <2>3. T \subseteq Nat
    OBVIOUS
  <2> HIDE DEF T
  <2>4. T = Nat
    BY <2>1, <2>2, <2>3, SetInduction
  <2> QED
    BY <1>1, <2>4 DEF T
<1>9. High(WordBytes) = x
  <2>1. ByteBits * (WordBytes - WordBytes) = 0
    BY <1>1
  <2>2. x \div TwoTo[0] = x
    BY <1>1, TwoToDef
  <2> QED
    BY <2>1, <2>2
<1>10. SetBytes(b) = x
  <2> HIDE DEF High
  <2>1. WordBytes \in 0..WordBytes
    BY <1>1
  <2> QED
    BY <1>5, <1>8, <1>9, <2>1
<1> QED
  BY <1>3, <1>4, <1>10 DEF b

(* BYTE picks a digit, counted from the highest. *)
LEMMA OpByteExact ==
  ASSUME NEW x \in Word, NEW y \in Word
  PROVE  /\ OpByte(x, y) = IF x >= WordBytes THEN 0
                           ELSE (y \div TwoTo[ByteBits * (WordBytes - 1 - x)]) % Byte
         /\ OpByte(x, y) \in 0..(Byte - 1)
<1>1. x \in Nat /\ WordBytes \in Nat \ {0} /\ Byte \in Nat \ {0}
  BY Widths, WidthAssumption DEF Word
<1>2. CASE x >= WordBytes
  BY <1>1, <1>2 DEF OpByte
<1>3. CASE ~(x >= WordBytes)
  <2> DEFINE n == WordBytes - 1 - x
  <2>1. n \in Nat /\ OpByte(x, y) = ByteAt(y, n)
    BY <1>1, <1>3 DEF OpByte
  <2> HIDE DEF n
  <2>2. ByteAt(y, n) = (y \div TwoTo[ByteBits * n]) % Byte /\ ByteAt(y, n) \in 0..(Byte - 1)
    BY <2>1, ByteAtExact, ByteAtType
  <2> QED
    BY <1>3, <2>1, <2>2 DEF n
<1> QED
  BY <1>2, <1>3

(* BytesOfWords holds in the states of IInv. *)
LEMMA BytesOfWordsFollows ==
  ASSUME IInv  PROVE BytesOfWords
<1> SUFFICES ASSUME done  PROVE BytesOfWords
  BY DEF BytesOfWords
<1>1. CASE op \notin {"BYTE", "MSTORE"}
  BY <1>1 DEF BytesOfWords
<1>2. CASE op = "BYTE"
  <2>1. result = Compute /\ args[1] \in Word /\ args[2] \in Word
    BY <1>2 DEF IInv, OperandsInv, Binary
  <2>2. R = OpByte(args[1], args[2])
    BY <1>2, <2>1 DEF Compute, R
  <2> QED
    BY <1>2, <2>1, <2>2, OpByteExact DEF BytesOfWords
<1>3. CASE op = "MSTORE"
  <2>1. result = Compute /\ args[1] \in Word
    BY <1>3 DEF IInv, OperandsInv, Unary
  <2>2. result = ReadBits(args[1])
    BY <1>3, <2>1 DEF Compute
  <2> QED
    BY <1>3, <2>1, <2>2, ReadBitsExact DEF BytesOfWords
<1> QED
  BY <1>1, <1>2, <1>3

(* BYTE is a digit of the word and MSTORE writes all of them, though both  *)
(* take them from the limbs of the integer, of which it has only as many   *)
(* as it needs (opByte, bigEndianByteAt, ReadBits).                        *)
THEOREM BytesExact == Spec => []BytesOfWords
BY Invariance, BytesOfWordsFollows, PTL

-----------------------------------------------------------------------------
(* Powers. *)

(* p has the powers of x modulo 2^Bits. *)
PowersOf(p, x) ==
  /\ p \in [Nat -> Word]
  /\ p[0] = 1 /\ \A n \in Nat : p[n + 1] = (p[n] * x) % Modulus

(* There are such. *)
LEMMA PowersExist ==
  ASSUME NEW x \in Word
  PROVE  \E p : PowersOf(p, x)
<1> DEFINE step == [n \in Nat |-> [s \in Word |-> (s * x) % Modulus]]
<1>1. Modulus \in Nat \ {0} /\ Modulus >= 2 /\ x \in Int /\ \A s \in Word : s \in Int
  BY Widths DEF Word
<1>2. step \in [Nat -> [Word -> Word]] /\ 1 \in Word
  <2>1. \A s \in Word : (s * x) % Modulus \in Word
    <3> SUFFICES ASSUME NEW s \in Word  PROVE (s * x) % Modulus \in Word
      OBVIOUS
    <3>1. s * x \in Int
      BY <1>1
    <3>2. U256(s * x) \in Word
      BY <3>1, U256Word
    <3> QED
      BY <3>2 DEF U256
  <2> QED
    BY <1>1, <2>1 DEF Word
<1>3. PICK p : Recurses(p, Word, 1, step)
  <2> HIDE DEF step
  <2> QED
    BY <1>2, Recursion
<1>4. p \in [Nat -> Word] /\ p[0] = 1 /\ \A n \in Nat : p[n + 1] = step[n][p[n]]
  BY <1>3 DEF Recurses
<1>5. \A n \in Nat : step[n][p[n]] = (p[n] * x) % Modulus
  BY <1>4
<1> QED
  BY <1>4, <1>5 DEF PowersOf

(* The power of a sum is the product of the powers. *)
LEMMA PowersSum ==
  ASSUME NEW x \in Word, NEW p, PowersOf(p, x), NEW m \in Nat, NEW n \in Nat
  PROVE  p[m + n] = (p[m] * p[n]) % Modulus
<1>1. Modulus \in Nat \ {0} /\ x \in Int /\ \A s \in Word : s \in Int /\ s % Modulus = s
  BY Widths, SmallMod DEF Word
<1>2. \A k \in Nat : p[k] \in Word /\ p[k] \in Int
  BY <1>1 DEF PowersOf
<1> DEFINE T == {k \in Nat : p[m + k] = (p[m] * p[k]) % Modulus}
<1>3. 0 \in T
  BY <1>1, <1>2 DEF PowersOf
<1>4. ASSUME NEW k \in T  PROVE k + 1 \in T
  <2> DEFINE a == p[m]
             b == p[k]
  <2>1. a \in Int /\ b \in Int /\ a * b \in Int /\ b * x \in Int
    BY <1>1, <1>2
  <2>2. p[m + k] = (a * b) % Modulus
    OBVIOUS
  <2>3. p[m + (k + 1)] = (p[m + k] * x) % Modulus /\ p[k + 1] = (b * x) % Modulus
    <3>1. m + (k + 1) = (m + k) + 1 /\ m + k \in Nat
      OBVIOUS
    <3> QED
      BY <3>1 DEF PowersOf
  <2> HIDE DEF a, b
  <2> DEFINE ab == a * b
             bx == b * x
  <2>a. ab \in Int /\ bx \in Int
    BY <2>1
  <2> HIDE DEF ab, bx
  <2>b. ((ab % Modulus) * x) % Modulus = (ab * x) % Modulus
    <3>1. Modulus \in Nat \ {0} /\ x \in Int
      BY <1>1
    <3> QED
      BY ONLY <2>a, <3>1, ModTimes
  <2>c. ((bx % Modulus) * a) % Modulus = (bx * a) % Modulus
    <3>1. Modulus \in Nat \ {0} /\ a \in Int
      BY <1>1, <2>1
    <3> QED
      BY ONLY <2>a, <3>1, ModTimes
  <2>4. (((a * b) % Modulus) * x) % Modulus = ((a * b) * x) % Modulus
    BY <2>b DEF ab
  <2>5. (((b * x) % Modulus) * a) % Modulus = ((b * x) * a) % Modulus
    BY <2>c DEF bx
  <2>6. (a * b) * x = (b * x) * a
    BY <1>1, <2>1
  <2>7. a * ((b * x) % Modulus) = ((b * x) % Modulus) * a
    <3>1. (b * x) % Modulus \in Int
      BY <1>1, <2>1, DivMod
    <3> QED
      BY <2>1, <3>1
  <2>8. p[m + (k + 1)] = (a * p[k + 1]) % Modulus
    BY <2>2, <2>3, <2>4, <2>5, <2>6, <2>7
  <2> QED
    BY <2>8 DEF a
<1>5. T \subseteq Nat
  OBVIOUS
<1> HIDE DEF T
<1>6. T = Nat
  BY <1>3, <1>4, <1>5, SetInduction
<1> QED
  BY <1>6 DEF T

(* PowerOf is one of them, though it multiplies halves. *)
LEMMA PowerOfIs ==
  ASSUME NEW x \in Word, NEW p, PowersOf(p, x), NEW n \in Nat
  PROVE  PowerOf(x, n) = p[n]
<1> DEFINE Rec(f) == f = [k \in Nat |-> IF k = 0 THEN 1 ELSE IF k = 1 THEN x
                                       ELSE (f[k \div 2] * f[k - k \div 2]) % Modulus]
           power == CHOOSE f : Rec(f)
<1>1. PowerOf(x, n) = power[n]
  BY DEF PowerOf
<1>2. p \in [Nat -> Word] /\ p[0] = 1 /\ p[1] = x
  <2>1. p \in [Nat -> Word] /\ p[0] = 1 /\ p[0 + 1] = (p[0] * x) % Modulus
    BY DEF PowersOf
  <2>2. x % Modulus = x /\ x \in Int
    BY Widths, SmallMod DEF Word
  <2> QED
    BY <2>1, <2>2
<1>3. \A k \in Nat : /\ k \div 2 \in Nat /\ k - (k \div 2) \in Nat
                     /\ (k \div 2) + (k - (k \div 2)) = k
                     /\ k \notin {0, 1} => k \div 2 < k /\ k - (k \div 2) < k
  OBVIOUS
<1>4. \A k \in Nat : p[k] = (p[k \div 2] * p[k - k \div 2]) % Modulus
  BY <1>3, PowersSum
<1>5. Rec(p)
  BY <1>2, <1>4
<1>6. Rec(power)
  <2> HIDE DEF Rec
  <2> QED
    BY <1>5
<1> HIDE DEF power
<1>7. \A k \in Nat : power[k] = IF k = 0 THEN 1 ELSE IF k = 1 THEN x
                                ELSE (power[k \div 2] * power[k - k \div 2]) % Modulus
  BY <1>6
<1> HIDE DEF Rec
<1>8. \A k \in Nat : power[k] = p[k]
  <2> DEFINE T == {k \in Nat : power[k] # p[k]}
  <2> SUFFICES ASSUME T # {}  PROVE FALSE
    OBVIOUS
  <2>1. T \subseteq Nat
    OBVIOUS
  <2>2. PICK k \in T : \A m \in T : k <= m
    <3> HIDE DEF T
    <3> QED
      BY <2>1, Least
  <2>3. k \notin {0, 1}
    BY <1>2, <1>7
  <2> DEFINE i == k \div 2
             j == k - k \div 2
  <2>4. i \in Nat /\ j \in Nat /\ i < k /\ j < k /\ k \in Nat
    BY <1>3, <2>3
  <2>5. power[k] = (power[i] * power[j]) % Modulus /\ p[k] = (p[i] * p[j]) % Modulus
    BY <1>4, <1>7, <2>3
  <2> HIDE DEF i, j
  <2>6. i \notin T /\ j \notin T
    BY <2>2, <2>4
  <2>7. power[i] = p[i] /\ power[j] = p[j]
    BY <2>4, <2>6
  <2> QED
    BY <2>5, <2>7
<1> QED
  BY <1>1, <1>8

(* The k-th bit of a number. *)
BitOf(x, k) == (x \div TwoTo[k]) % 2

(* The bit that Exp cuts out of a limb is that bit. *)
LEMMA LimbBit ==
  ASSUME NEW x \in Word, NEW k \in Nat
  PROVE  (LimbAt(x, k \div LimbBits) \div TwoTo[k % LimbBits]) % 2 = BitOf(x, k)
<1> DEFINE i == k \div LimbBits
           r == k % LimbBits
           p == LimbBits * i
<1>1. LimbBits \in Nat \ {0} /\ x \in Nat
  BY Widths DEF Word
<1>2. k = p + r /\ i \in Nat /\ r \in Nat /\ r < LimbBits
  BY <1>1, DivMod, QuotientType
<1>3. p \in Nat
  <2> HIDE DEF i
  <2> QED
    BY <1>1, <1>2, ProductType
<1>4. (LimbAt(x, i) \div TwoTo[r]) % 2 = (((x \div TwoTo[p]) % TwoTo[LimbBits]) \div TwoTo[r]) % 2
  BY DEF LimbAt, Limb
<1> HIDE DEF p, r, i
<1> DEFINE one == 1
<1>5. TwoTo[one] = 2 /\ one \in Nat /\ r + one <= LimbBits
  <2>1. TwoTo[0 + 1] = 2 * TwoTo[0] /\ TwoTo[0] = 1
    BY TwoToDef
  <2> QED
    BY <1>1, <1>2, <2>1
<1> HIDE DEF one
<1>6. (((x \div TwoTo[p]) % TwoTo[LimbBits]) \div TwoTo[r]) % TwoTo[one]
        = (x \div TwoTo[p + r]) % TwoTo[one]
  <2> DEFINE w == LimbBits
  <2>1. w \in Nat /\ p \in Nat /\ r \in Nat /\ one \in Nat /\ x \in Nat /\ r + one <= w
    BY <1>1, <1>2, <1>3, <1>5
  <2> HIDE DEF w
  <2>2. (((x \div TwoTo[p]) % TwoTo[w]) \div TwoTo[r]) % TwoTo[one]
          = (x \div TwoTo[p + r]) % TwoTo[one]
    BY ONLY <2>1, CutBits
  <2> QED
    BY <2>2 DEF w
<1> QED
  BY <1>2, <1>4, <1>5, <1>6 DEF p, r, i, BitOf

(* The state of Exp's loop, and what one round makes of it. *)
LoopState == [result : Word, base : Word]

Round(was, bit) ==
  [result |-> IF bit = 1 THEN U256(was.result * was.base) ELSE was.result,
   base   |-> U256(was.base * was.base)]

(* A round yields such a state. *)
LEMMA RoundType ==
  ASSUME NEW s \in LoopState, NEW bit
  PROVE  Round(s, bit) \in LoopState
<1>1. s.result \in Word /\ s.base \in Word /\ \A w \in Word : w \in Int
  BY Widths DEF LoopState, Word
<1>2. s.result * s.base \in Int /\ s.base * s.base \in Int
  BY <1>1
<1>3. U256(s.result * s.base) \in Word /\ U256(s.base * s.base) \in Word
  BY <1>2, U256Word
<1> QED
  BY <1>1, <1>3 DEF Round, LoopState

(* Exp runs the rounds, one for each bit of each limb of the exponent. *)
LEMMA ExpDef ==
  ASSUME NEW x \in Word, NEW y \in Word
  PROVE  \E loop \in [Nat -> LoopState] :
           /\ Exp(x, y) = loop[LimbCount(y) * LimbBits].result
           /\ loop[0] = [result |-> 1, base |-> x]
           /\ \A k \in Nat : loop[k + 1] = Round(loop[k], BitOf(y, k))
<1> DEFINE bit(k) == (LimbAt(y, k \div LimbBits) \div TwoTo[k % LimbBits]) % 2
           first == [result |-> 1, base |-> x]
           step == [k \in Nat |-> [s \in LoopState |-> Round(s, bit(k))]]
           Rec(f) == f = [k \in Nat |->
                           IF k = 0 THEN [result |-> 1, base |-> x]
                           ELSE [result |-> IF bit(k - 1) = 1
                                            THEN U256(f[k - 1].result * f[k - 1].base)
                                            ELSE f[k - 1].result,
                                 base   |-> U256(f[k - 1].base * f[k - 1].base)]]
           loop == CHOOSE f : Rec(f)
<1>1. Exp(x, y) = loop[LimbCount(y) * LimbBits].result
  BY DEF Exp
<1>2. \A k \in Nat : bit(k) = BitOf(y, k)
  BY LimbBit
<1> HIDE DEF bit
<1>3. first \in LoopState
  <2>1. 1 \in Word
    BY Widths DEF Word
  <2> QED
    BY <2>1 DEF LoopState
<1>4. step \in [Nat -> [LoopState -> LoopState]]
  BY RoundType
<1>5. PICK f : Recurses(f, LoopState, first, step)
  <2> HIDE DEF first, step
  <2> QED
    BY <1>3, <1>4, Recursion
<1>6. f \in [Nat -> LoopState] /\ f[0] = first /\ \A k \in Nat : f[k + 1] = Round(f[k], bit(k))
  <2>1. f \in [Nat -> LoopState] /\ f[0] = first /\ \A k \in Nat : f[k + 1] = step[k][f[k]]
    BY <1>5 DEF Recurses
  <2>2. \A k \in Nat : step[k][f[k]] = Round(f[k], bit(k))
    BY <2>1
  <2> QED
    BY <2>1, <2>2
<1>7. Rec(f)
  <2>1. ASSUME NEW k \in Nat, k # 0  PROVE f[k] = Round(f[k - 1], bit(k - 1))
    <3>1. k - 1 \in Nat /\ (k - 1) + 1 = k
      BY <2>1
    <3> QED
      BY <1>6, <3>1
  <2> QED
    BY <1>6, <2>1 DEF Round
<1>8. Rec(loop)
  <2> HIDE DEF Rec
  <2> QED
    BY <1>7
<1> HIDE DEF loop
<1>9. loop[0] = first
  BY <1>8
<1>10. \A k \in Nat : loop[k + 1] = Round(loop[k], bit(k))
  <2>1. \A k \in Nat : k + 1 \in Nat /\ k + 1 # 0 /\ (k + 1) - 1 = k
    OBVIOUS
  <2> QED
    BY <1>8, <2>1 DEF Round
<1>11. \A k \in Nat : loop[k] \in LoopState
  <2> DEFINE T == {k \in Nat : loop[k] \in LoopState}
  <2>1. 0 \in T
    BY <1>3, <1>9
  <2>2. ASSUME NEW k \in T  PROVE k + 1 \in T
    BY <1>10, RoundType
  <2>3. T \subseteq Nat
    OBVIOUS
  <2> HIDE DEF T
  <2>4. T = Nat
    BY <2>1, <2>2, <2>3, SetInduction
  <2> QED
    BY <2>4 DEF T
<1>12. loop \in [Nat -> LoopState]
  BY <1>8, <1>11
<1> HIDE DEF Rec
<1> QED
  BY <1>1, <1>2, <1>9, <1>10, <1>12

(* After k rounds the base is squared k times and the result is the power  *)
(* to the low k bits of the exponent; beyond its last limb there are none. *)
LEMMA ExpExact ==
  ASSUME NEW x \in Word, NEW y \in Word
  PROVE  Exp(x, y) = PowerOf(x, y) /\ Exp(x, y) \in Word
<1>1. PICK p : PowersOf(p, x)
  BY PowersExist
<1>2. PICK loop \in [Nat -> LoopState] :
        /\ Exp(x, y) = loop[LimbCount(y) * LimbBits].result
        /\ loop[0] = [result |-> 1, base |-> x]
        /\ \A k \in Nat : loop[k + 1] = Round(loop[k], BitOf(y, k))
  BY ExpDef
<1>3. /\ x \in Nat /\ y \in Nat /\ y < Modulus /\ Modulus \in Nat \ {0}
      /\ LimbBits \in Nat \ {0} /\ \A w \in Word : w \in Int /\ w % Modulus = w
  BY Widths, SmallMod DEF Word
<1>4. p \in [Nat -> Word] /\ p[0] = 1 /\ p[1] = x
  <2>1. p \in [Nat -> Word] /\ p[0] = 1 /\ p[0 + 1] = (p[0] * x) % Modulus
    BY <1>1 DEF PowersOf
  <2>2. x % Modulus = x /\ x \in Int
    BY <1>3
  <2> QED
    BY <2>1, <2>2
<1>5. \A m, n \in Nat : p[m + n] = (p[m] * p[n]) % Modulus
  BY <1>1, PowersSum
<1> DEFINE Good(k) == loop[k].base = p[TwoTo[k]] /\ loop[k].result = p[y % TwoTo[k]]
<1>6. Good(0)
  <2>1. y % 1 = 0 /\ TwoTo[0] = 1
    BY <1>3, TwoToDef
  <2> QED
    BY <1>2, <1>4, <2>1
<1>7. ASSUME NEW k \in Nat, Good(k)  PROVE Good(k + 1)
  <2> DEFINE t == TwoTo[k]
             q == (y \div t) % 2
             low == y % t
  <2>1. t \in Nat \ {0} /\ TwoTo[k + 1] = 2 * t
    BY TwoToDef, TwoToType
  <2> HIDE DEF t
  <2>2. q \in {0, 1} /\ low \in Nat
    <3>1. y \div t \in Nat
      BY <1>3, <2>1, QuotientType
    <3> QED
      BY <1>3, <2>1, <3>1
  <2>3. y % TwoTo[k + 1] = (t * q) + low
    <3> DEFINE two == 2
    <3>1. TwoTo[k + 1] = t * two /\ two \in Nat \ {0} /\ y \in Int
      BY <1>3, <2>1
    <3> HIDE DEF two
    <3>2. y % (t * two) = (t * ((y \div t) % two)) + (y % t)
      BY ONLY <2>1, <3>1, DivDiv
    <3> QED
      BY <3>1, <3>2 DEF two
  <2>4. BitOf(y, k) = q
    BY DEF BitOf, t
  <2>5. loop[k + 1] = Round(loop[k], q)
    BY <1>2, <2>4
  <2>6. loop[k].base = p[t] /\ loop[k].result = p[low]
    BY <1>7 DEF t
  <2> HIDE DEF q, low
  <2>7. loop[k + 1].base = p[TwoTo[k + 1]]
    <3>1. loop[k + 1].base = (p[t] * p[t]) % Modulus
      BY <2>5, <2>6 DEF Round, U256
    <3>2. TwoTo[k + 1] = t + t
      BY <2>1
    <3> QED
      BY <1>5, <2>1, <3>1, <3>2
  <2>8. loop[k + 1].result = p[y % TwoTo[k + 1]]
    <3>1. CASE q = 0
      <4>1. loop[k + 1].result = p[low]
        BY <2>5, <2>6, <3>1 DEF Round
      <4>2. y % TwoTo[k + 1] = low
        BY <2>1, <2>2, <2>3, <3>1
      <4> QED
        BY <4>1, <4>2
    <3>2. CASE q = 1
      <4>1. loop[k + 1].result = (p[low] * p[t]) % Modulus
        BY <2>5, <2>6, <3>2 DEF Round, U256
      <4>2. y % TwoTo[k + 1] = low + t
        BY <2>1, <2>2, <2>3, <3>2
      <4> QED
        BY <1>5, <2>1, <2>2, <4>1, <4>2
    <3> QED
      BY <2>2, <3>1, <3>2
  <2> QED
    BY <2>7, <2>8
<1>8. \A k \in Nat : Good(k)
  <2> DEFINE T == {k \in Nat : Good(k)}
  <2> HIDE DEF Good
  <2>1. 0 \in T
    BY <1>6
  <2>2. ASSUME NEW k \in T  PROVE k + 1 \in T
    BY <1>7
  <2>3. T \subseteq Nat
    OBVIOUS
  <2> HIDE DEF T
  <2>4. T = Nat
    BY <2>1, <2>2, <2>3, SetInduction
  <2> QED
    BY <2>4 DEF T
<1>9. LimbCount(y) \in Nat /\ y < TwoTo[LimbBits * LimbCount(y)]
  BY LimbCountExact, WidthAssumption
<1> DEFINE n == LimbCount(y) * LimbBits
<1>10. n \in Nat /\ y < TwoTo[n]
  <2>1. n = LimbBits * LimbCount(y) /\ n \in Nat
    BY <1>3, <1>9, ProductType
  <2> QED
    BY <1>9, <2>1
<1> HIDE DEF n
<1>11. y % TwoTo[n] = y
  <2> DEFINE t == TwoTo[n]
  <2>1. t \in Nat \ {0} /\ y \in 0..(t - 1)
    BY <1>3, <1>10, TwoToType
  <2> HIDE DEF t
  <2>2. y % t = y
    BY <2>1, SmallMod
  <2> QED
    BY <2>2 DEF t
<1>12. Exp(x, y) = p[y]
  BY <1>2, <1>8, <1>10, <1>11 DEF n
<1> QED
  BY <1>1, <1>3, <1>4, <1>12, PowerOfIs

(* ADDMOD and MULMOD reduce the exact sum and product. *)
LEMMA ReducedExact ==
  ASSUME NEW s \in Int, NEW z \in Word, z # 0, NEW r, r = U256(s % z)
  PROVE  r \in 0..(z - 1) /\ (s - r) % z = 0 /\ r \in Word
<1> DEFINE m == s % z
           q == s \div z
<1>1. z \in Nat \ {0} /\ z < Modulus /\ Modulus \in Nat \ {0}
  BY Widths DEF Word
<1>2. s = (z * q) + m /\ q \in Int /\ m \in Nat /\ m < z
  BY <1>1, DivMod
<1> HIDE DEF m, q
<1>3. m % Modulus = m
  <2>1. m \in 0..(Modulus - 1)
    BY <1>1, <1>2
  <2> QED
    BY <1>1, <2>1, SmallMod
<1>4. r = m
  BY <1>3 DEF U256, m
<1>5. s - m = z * q
  <2>1. z * q \in Int
    BY <1>1, <1>2
  <2> QED
    BY <1>2, <2>1
<1>6. (z * q) % z = 0
  BY <1>1, <1>2, ModMultiple
<1> QED
  BY <1>1, <1>2, <1>4, <1>5, <1>6 DEF Word

(* PowersAndModuli holds in the states of IInv. *)
LEMMA PowersAndModuliFollows ==
  ASSUME IInv  PROVE PowersAndModuli
<1> SUFFICES ASSUME done  PROVE PowersAndModuli
  BY DEF PowersAndModuli
<1> DEFINE x == args[1]
           y == args[2]
           z == args[3]
<1>1. CASE op \notin {"EXP", "ADDMOD", "MULMOD"}
  BY <1>1 DEF PowersAndModuli
<1>2. CASE op = "EXP"
  <2>1. result = Compute /\ x \in Word /\ y \in Word
    BY <1>2 DEF IInv, OperandsInv, Binary
  <2>2. R = Exp(x, y)
    BY <1>2, <2>1 DEF Compute, R
  <2> QED
    BY <1>2, <2>1, <2>2, ExpExact DEF PowersAndModuli
<1>3. CASE op \in {"ADDMOD", "MULMOD"}
  <2>1. result = Compute /\ x \in Word /\ y \in Word /\ z \in Word
    BY <1>3 DEF IInv, OperandsInv, Ternary
  <2> DEFINE s == IF op = "ADDMOD" THEN x + y ELSE x * y
  <2>2. R = IF z > 0 THEN U256(s % z) ELSE 0
    BY <1>3, <2>1 DEF Compute, R, Addmod, Mulmod
  <2>3. z = 0 => R = 0
    BY <2>2
  <2>4. z # 0 => R \in 0..(z - 1) /\ (s - R) % z = 0
    <3> SUFFICES ASSUME z # 0  PROVE R \in 0..(z - 1) /\ (s - R) % z = 0
      OBVIOUS
    <3>1. x \in Int /\ y \in Int /\ z > 0
      BY <2>1, Widths DEF Word
    <3>2. s \in Int
      BY <3>1
    <3>3. R = U256(s % z)
      BY <2>2, <3>1
    <3> HIDE DEF s, z
    <3> QED
      BY <2>1, <3>2, <3>3, ReducedExact
  <2>5. CASE op = "ADDMOD"
    <3>1. z # 0 => R \in 0..(z - 1) /\ (x + y - R) % z = 0
      <4> SUFFICES ASSUME z # 0  PROVE R \in 0..(z - 1) /\ (x + y - R) % z = 0
        OBVIOUS
      <4>1. s = x + y /\ R \in 0..(z - 1) /\ (s - R) % z = 0
        BY <2>4, <2>5
      <4>2. x \in Int /\ y \in Int /\ z \in Int
        BY <2>1, Widths DEF Word
      <4> HIDE DEF s, x, y, z
      <4>3. x + y - R = s - R
        BY <4>1, <4>2
      <4> QED
        BY <4>1, <4>3
    <3> QED
      BY <2>3, <2>5, <3>1 DEF PowersAndModuli
  <2>6. CASE op = "MULMOD"
    <3>1. z # 0 => R \in 0..(z - 1) /\ (x * y - R) % z = 0
      BY <2>4, <2>6
    <3> QED
      BY <2>3, <2>6, <3>1 DEF PowersAndModuli
  <2> QED
    BY <1>3, <2>5, <2>6
<1> QED
  BY <1>1, <1>2, <1>3

(* EXP is the power, whatever limbs its exponent has, and ADDMOD and MULMOD *)
(* reduce what does not fit a word (Exp, opAddmod, opMulmod).              *)
THEOREM PowersExact == Spec => []PowersAndModuli
BY Invariance, PowersAndModuliFollows, PTL

-----------------------------------------------------------------------------
(* Types. *)

(* Zero and one are words. *)
LEMMA FlagWord == 0 \in Word /\ \A b \in BOOLEAN : Flag(b) \in Word
BY Widths DEF Word, Flag

(* Signed words brought back to 256 bits, and signed quotients and         *)
(* remainders, are words.                                                  *)
LEMMA DivisionsType ==
  ASSUME NEW x \in Word, NEW y \in Word
  PROVE  /\ Div(x, y) \in Word /\ Mod(x, y) \in Word
         /\ Sdiv(x, y) \in Word /\ Smod(x, y) \in Word
<1>1. x \in Nat /\ y \in Nat
  BY Widths DEF Word
<1>2. Div(x, y) \in Word /\ Mod(x, y) \in Word
  <2>1. y # 0 => x \div y \in Int /\ x % y \in Int
    BY <1>1, DivMod
  <2> QED
    BY <2>1, U256Word, FlagWord DEF Div, Mod
<1> DEFINE a == S256(x)
           b == S256(y)
           q == Abs(a) \div Abs(b)
           r == Abs(a) % Abs(b)
<1>3. a \in Int /\ b \in Int
  BY SignedIsS256, Widths DEF SignedWord
<1>4. b # 0 => q \in Nat /\ r \in Nat
  <2> HIDE DEF a, b
  <2> QED
    BY <1>3, SignedQuotient
<1>5. Sdiv(x, y) = IF b = 0 \/ a = 0 THEN 0 ELSE U256(IF Sign(a) # Sign(b) THEN -q ELSE q)
  BY DEF Sdiv
<1>6. Smod(x, y) = IF b = 0 THEN 0 ELSE U256(IF a < 0 THEN -r ELSE r)
  BY DEF Smod
<1> HIDE DEF q, r, a, b
<1>7. b # 0 => (IF Sign(a) # Sign(b) THEN -q ELSE q) \in Int /\ (IF a < 0 THEN -r ELSE r) \in Int
  BY <1>4
<1>8. Sdiv(x, y) \in Word /\ Smod(x, y) \in Word
  BY <1>5, <1>6, <1>7, U256Word, FlagWord
<1> QED
  BY <1>2, <1>8

(* So are shifted and extended words. *)
LEMMA ShiftsType ==
  ASSUME NEW x \in Word, NEW y \in Word
  PROVE  /\ Shl(x, y) \in Word /\ Shr(x, y) \in Word /\ Sar(x, y) \in Word
         /\ SignExtend(x, y) \in Word
<1>1. x \in Nat /\ y \in Nat /\ TwoTo[x] \in Nat \ {0}
  BY Widths, TwoToType DEF Word
<1>2. S256(y) \in Int
  BY SignedIsS256, Widths DEF SignedWord
<1>3. y * TwoTo[x] \in Int
  BY <1>1
<1>4. y \div TwoTo[x] \in Int /\ S256(y) \div TwoTo[x] \in Int
  BY <1>1, <1>2, DivMod
<1>5. U256(y * TwoTo[x]) \in Word /\ U256(y \div TwoTo[x]) \in Word
      /\ U256(S256(y) \div TwoTo[x]) \in Word
  BY <1>3, <1>4, U256Word
<1>6. (IF S256(y) > 0 THEN 0 ELSE -1) \in Int
  BY <1>2
<1>7. U256(IF S256(y) > 0 THEN 0 ELSE -1) \in Word
  BY <1>6, U256Word
<1>8. Shl(x, y) \in Word /\ Shr(x, y) \in Word /\ Sar(x, y) \in Word
  BY <1>5, <1>7, FlagWord DEF Shl, Shr, Sar
<1>9. SignExtend(x, y) \in Word
  <2> DEFINE bit == x * ByteBits + ByteBits - 1
             h == TwoTo[bit]
             v == IF (y \div h) % 2 > 0 THEN (y % h) - h ELSE y % h
  <2>1. bit \in Nat
    <3>1. x * ByteBits \in Nat /\ ByteBits \in Nat \ {0}
      BY <1>1, WidthAssumption, ProductType
    <3> QED
      BY <3>1
  <2>2. h \in Nat \ {0}
    BY <2>1, TwoToType
  <2>3. SignExtend(x, y) = IF x < WordBytes - 1 THEN U256(v) ELSE y
    BY DEF SignExtend
  <2> HIDE DEF h, bit
  <2>4. y % h \in Int
    BY <1>1, <2>2, DivMod
  <2>5. v \in Int
    BY <2>2, <2>4
  <2> HIDE DEF v
  <2> QED
    BY <2>3, <2>5, U256Word
<1> QED
  BY <1>8, <1>9

(* TypeOK holds in the states of IInv. *)
LEMMA TypeOKFollows ==
  ASSUME IInv  PROVE TypeOK
<1> DEFINE Other == Slices \cup {"MSTORE", "EXPGAS", "SAFEADD", "SAFEMUL"}
           x == args[1]
           y == args[2]
           z == args[3]
<1> SUFFICES ASSUME done, op \notin Other
             PROVE  \E w \in Word : result = <<w>>
  BY DEF IInv, TypeOK, R, Word
<1>1. result = Compute
  BY DEF IInv
<1>2. CASE op \in Unary
  <2>1. x \in Word /\ x \in Int /\ op \in {"ISZERO", "NOT", "WORDSIZE"}
    BY <1>2, Widths DEF IInv, OperandsInv, Unary, Word
  <2>2. CASE op = "ISZERO"
    BY <1>1, <2>2, FlagWord DEF Compute
  <2>3. CASE op = "NOT"
    BY <1>1, <2>1, <2>3, U256Word DEF Compute
  <2>4. CASE op = "WORDSIZE"
    BY <1>1, <2>1, <2>4, ToWordSizeExact DEF Compute
  <2> QED
    BY <2>1, <2>2, <2>3, <2>4
<1>3. CASE op \in Binary
  <2>1. x \in Word /\ y \in Word /\ x \in Int /\ y \in Int /\ x * y \in Int
    BY <1>3, Widths DEF IInv, OperandsInv, Word
  <2>2. CASE op \in {"ADD", "MUL", "SUB"}
    <3>1. x + y \in Int /\ x - y \in Int
      BY <2>1
    <3>2. U256(x + y) \in Word /\ U256(x - y) \in Word /\ U256(x * y) \in Word
      BY <2>1, <3>1, U256Word
    <3> QED
      BY <1>1, <2>2, <3>2 DEF Compute
  <2>3. CASE op \in {"DIV", "SDIV", "MOD", "SMOD"}
    BY <1>1, <2>1, <2>3, DivisionsType DEF Compute
  <2>4. CASE op = "EXP"
    BY <1>1, <2>1, <2>4, ExpExact DEF Compute
  <2>5. CASE op \in {"SHL", "SHR", "SAR", "SIGNEXTEND"}
    BY <1>1, <2>1, <2>5, ShiftsType DEF Compute
  <2>6. CASE op \in {"SLT", "SGT"}
    <3>1. Slt(x, y) \in Word /\ Sgt(x, y) \in Word
      <4>1. Slt(x, y) \in {0, 1} /\ Sgt(x, y) \in {0, 1}
        BY <2>1, ComparisonsExact
      <4> QED
        BY <4>1, Widths DEF Word
    <3> QED
      BY <1>1, <2>6, <3>1 DEF Compute
  <2>7. CASE op = "BYTE"
    <3>1. OpByte(x, y) \in 0..(Byte - 1)
      BY <2>1, OpByteExact
    <3>2. Byte <= Modulus
      BY Widths, WidthAssumption, TwoToMonotone DEF Byte, Modulus
    <3>3. OpByte(x, y) \in Word
      BY <3>1, <3>2, Widths DEF Word
    <3> QED
      BY <1>1, <2>7, <3>3 DEF Compute
  <2> QED
    BY <1>3, <2>2, <2>3, <2>4, <2>5, <2>6, <2>7 DEF Binary
<1>4. CASE op \in Ternary
  <2>1. x \in Word /\ y \in Word /\ z \in Word /\ x \in Int /\ y \in Int /\ x * y \in Int
    BY <1>4, Widths DEF IInv, OperandsInv, Ternary, Word
  <2>2. Addmod(x, y, z) \in Word /\ Mulmod(x, y, z) \in Word
    <3>1. x + y \in Int
      BY <2>1
    <3> HIDE DEF x, y, z
    <3>2. z # 0 => U256((x + y) % z) \in Word /\ U256((x * y) % z) \in Word
      BY <2>1, <3>1, ReducedExact
    <3>3. z > 0 => z # 0
      BY <2>1, Widths DEF Word
    <3> QED
      BY <3>2, <3>3, FlagWord DEF Addmod, Mulmod
  <2> QED
    BY <1>1, <1>4, <2>2 DEF Compute, Ternary
<1> QED
  BY <1>2, <1>3, <1>4 DEF IInv, OperandsInv

(* No arithmetic instruction leaves anything but a word on the stack, if   *)
(* its operands are words (U256 at the end of those that compute, and the  *)
(* ones that do without it).                                               *)
THEOREM ResultsAreWords == Spec => []TypeOK
BY Invariance, TypeOKFollows, PTL
============================================================================
