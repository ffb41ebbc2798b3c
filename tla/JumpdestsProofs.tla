-------------------------- MODULE JumpdestsProofs --------------------------
(* Proofs about Jumpdests, for code of any length and content.             *)
EXTENDS Jumpdests, SequenceTheorems, TLAPS

(* set8 sets the eight bits from pos on, at every alignment. *)
LEMMA Set8Bits ==
  ASSUME NEW pos \in Nat
  PROVE  Set8(pos) = pos..(pos + 7)
  <1> DEFINE i == pos \div 8
             r == pos % 8
  <1>1. i \in Nat /\ r \in 0..7 /\ pos = 8 * i + r
    OBVIOUS
  <1>2. Set8(pos) = {8 * i + k : k \in r..7} \cup {8 * (i + 1) + k : k \in 0..(r - 1)}
    BY DEF Set8
  <1> HIDE DEF i, r
  <1>3. {8 * i + k : k \in r..7} = pos..(8 * i + 7)
    <2>1. \A k \in r..7 : 8 * i + k \in pos..(8 * i + 7)
      BY <1>1
    <2>2. \A n \in pos..(8 * i + 7) : n - 8 * i \in r..7 /\ n = 8 * i + (n - 8 * i)
      BY <1>1
    <2> QED
      BY <2>1, <2>2
  <1>4. {8 * (i + 1) + k : k \in 0..(r - 1)} = (8 * i + 8)..(pos + 7)
    <2>1. \A k \in 0..(r - 1) : 8 * (i + 1) + k \in (8 * i + 8)..(pos + 7)
      BY <1>1
    <2>2. \A n \in (8 * i + 8)..(pos + 7) :
            n - 8 * (i + 1) \in 0..(r - 1) /\ n = 8 * (i + 1) + (n - 8 * (i + 1))
      BY <1>1
    <2> QED
      BY <2>1, <2>2
  <1>5. pos..(8 * i + 7) \cup (8 * i + 8)..(pos + 7) = pos..(pos + 7)
    BY <1>1
  <1> QED
    BY <1>2, <1>3, <1>4, <1>5

(* Code is a sequence of bytes, and an instruction is followed by at most  *)
(* 32 bytes of data.                                                       *)
LEMMA CodeParts ==
  ASSUME TypeOK
  PROVE  /\ code \in Seq(0..255) /\ CodeLen \in Nat \ {0} /\ CodeLen <= Two62
         /\ \A p \in 0..(CodeLen - 1) :
              /\ code[p + 1] \in 0..255 /\ Op(p) = code[p + 1]
              /\ After(p) = p + 1 + Numbits(code[p + 1])
              /\ Numbits(code[p + 1]) \in 0..32
              /\ After(p) \in (p + 1)..(p + 33)
  <1>1. code \in Seq(0..255) /\ CodeLen \in Nat \ {0} /\ CodeLen <= Two62
    BY CodeAssumption DEF TypeOK, CodeLen
  <1> DEFINE n == CodeLen
  <1>2. \A p \in 0..(n - 1) : code[p + 1] \in 0..255 /\ Op(p) = code[p + 1]
    <2>1. n = Len(code)
      BY DEF CodeLen
    <2> HIDE DEF n
    <2> SUFFICES ASSUME NEW p \in 0..(n - 1)
                 PROVE  code[p + 1] \in 0..255 /\ Op(p) = code[p + 1]
      OBVIOUS
    <2>2. n \in Nat \ {0}
      BY <1>1 DEF n
    <2>3. p + 1 \in 1..Len(code) /\ p < n
      BY <2>1, <2>2
    <2>4. code[p + 1] \in 0..255
      BY <1>1, <2>3, ElementOfSeq
    <2> QED
      BY <2>1, <2>3, <2>4 DEF Op, CodeLen
  <1>3. \A op \in 0..255 : Numbits(op) \in 0..32 /\ PushSize(op) = Numbits(op)
    BY DEF Numbits, PushSize, PUSH1, PUSH32
  <1> SUFFICES ASSUME NEW p \in 0..(CodeLen - 1)
               PROVE  /\ code[p + 1] \in 0..255 /\ Op(p) = code[p + 1]
                      /\ After(p) = p + 1 + Numbits(code[p + 1])
                      /\ Numbits(code[p + 1]) \in 0..32
                      /\ After(p) \in (p + 1)..(p + 33)
    BY <1>1
  <1>4. code[p + 1] \in 0..255 /\ Op(p) = code[p + 1]
    BY <1>2
  <1>5. /\ Numbits(code[p + 1]) \in 0..32
        /\ After(p) = p + 1 + Numbits(code[p + 1])
    BY <1>3, <1>4 DEF After
  <1>6. p \in Nat
    BY <1>1
  <1> QED
    BY <1>4, <1>5, <1>6

(* A word of less than 62 bits survives its truncation to 64. *)
LEMMA LowBits ==
  ASSUME NEW n \in Nat, n < Two62
  PROVE  Low64(n) = n
  <1> DEFINE m == 4 * Two62
  <1>1. m \in Nat \ {0} /\ n < m
    BY Two62Assumption
  <1> HIDE DEF m
  <1>2. n % m = n
    BY <1>1
  <1> QED
    BY <1>2 DEF Low64, m

-----------------------------------------------------------------------------
(* codeBitmap keeps what it has found. *)

(* Marking k bytes, one or eight, of the data that is left. *)
Mark(k) == /\ phase = "analyse" /\ numbits >= k
           /\ bits' = bits \cup apc..(apc + k - 1)
           /\ apc' = apc + k /\ numbits' = numbits - k
           /\ UNCHANGED <<code, pc, phase, dest, analysed>>

(* The calls of set8 and set are such steps. *)
LEMMA MarkSteps ==
  ASSUME TypeOK, MarkEight \/ MarkOne
  PROVE  \E k \in {1, 8} : Mark(k)
  <1>1. CASE MarkEight
    <2>1. Set8(apc) = apc..(apc + 7) /\ apc \in Nat
      BY Set8Bits DEF TypeOK, CodeLen
    <2>2. Mark(8)
      BY <1>1, <2>1 DEF MarkEight, Mark
    <2> QED
      BY <2>2
  <1>2. CASE MarkOne
    <2>1. Set(apc) = apc..(apc + 1 - 1) /\ numbits >= 1
      BY <1>2 DEF TypeOK, Set, MarkOne
    <2>2. Mark(1)
      BY <1>2, <2>1 DEF MarkOne, Mark
    <2> QED
      BY <2>2
  <1> QED
    BY <1>1, <1>2

(* Marking data keeps what is decoded: it ends where the data ends. *)
LEMMA MarkKeeps ==
  ASSUME IInv, NEW k \in {1, 8}, Mark(k)
  PROVE  IInv'
  <1>1. /\ CodeLen \in Nat \ {0} /\ apc \in Nat /\ numbits \in 0..32
        /\ bits \in SUBSET Nat /\ k \in Nat /\ k >= 1 /\ k <= numbits
        /\ CodeLen' = CodeLen
    BY CodeParts DEF IInv, TypeOK, Mark, CodeLen
  <1>2. /\ DataEnd' = DataEnd /\ apc' = apc + k /\ numbits' = numbits - k
        /\ apc' \in Nat /\ numbits' \in 0..32 /\ DataEnd \in Nat
        /\ DataEnd >= apc + k
    BY <1>1 DEF Mark, DataEnd
  <1>3. bits' = bits \cup apc..(apc + k - 1)
    BY DEF Mark
  <1>4. \A p \in 0..(CodeLen - 1) : After(p)' = After(p) /\ After(p) \in Nat
    BY CodeParts DEF Mark, After, IInv
  <1>5. DataEnd <= CodeLen + 32 /\ apc > 0
    BY <1>1, <1>2 DEF IInv, BitsInv
  <1>6. Seen' = Seen
    <2>1. \A p \in 0..(CodeLen - 1) : p < apc /\ p \notin bits <=> p < apc' /\ p \notin bits'
      BY <1>1, <1>2, <1>3
    <2> QED
      BY <1>1, <2>1 DEF Seen
  <1>7. TypeOK'
    BY <1>1, <1>2, <1>3, <1>5 DEF IInv, TypeOK, Mark, DataEnd
  <1>8. BitsInv'
    <2>1. \A q \in bits' : 0 < q /\ q < apc'
      BY <1>1, <1>2, <1>3, <1>5 DEF IInv, BitsInv
    <2>2. Seen \subseteq 0..(CodeLen - 1)
      BY DEF Seen
    <2>3. \A p \in Seen : After(p)' \notin bits' /\ (After(p)' < apc' \/ After(p)' = DataEnd')
      <3> SUFFICES ASSUME NEW p \in Seen
                   PROVE  After(p) \notin bits' /\ (After(p) < apc' \/ After(p) = DataEnd)
        BY <1>2, <1>4, <2>2
      <3>1. After(p) \notin bits /\ (After(p) < apc \/ After(p) = DataEnd) /\ After(p) \in Nat
        BY <1>4, <2>2 DEF IInv, BitsInv
      <3> QED
        BY <1>1, <1>2, <1>3, <3>1
    <2>4. \A p \in Seen \ {0} : \E q \in Seen : After(q)' = p
      BY <1>4, <2>2 DEF IInv, BitsInv
    <2>5. \E q \in Seen : After(q)' = DataEnd
      BY <1>1, <1>2, <1>4, <2>2 DEF IInv, BitsInv
    <2> QED
      BY <1>1, <1>2, <1>5, <1>6, <2>1, <2>3, <2>4, <2>5 DEF BitsInv
  <1>9. PhaseInv' /\ PcOnInstruction'
    BY <1>1 DEF IInv, PhaseInv, PcOnInstruction, Mark, OutOfCode, Low64
  <1> QED
    BY <1>7, <1>8, <1>9 DEF IInv

(* Passing an instruction decodes one more. *)
LEMMA AnalyseOpKeeps ==
  ASSUME IInv, AnalyseOp
  PROVE  IInv'
  <1>1. /\ CodeLen \in Nat \ {0} /\ apc \in 0..(CodeLen - 1) /\ numbits = 0
        /\ bits \in SUBSET Nat /\ CodeLen' = CodeLen /\ bits' = bits
        /\ apc' = apc + 1 /\ DataEnd = apc
    BY CodeParts DEF IInv, TypeOK, AnalyseOp, CodeLen, DataEnd
  <1>2. /\ numbits' \in 0..32 /\ DataEnd' = After(apc) /\ After(apc) > apc
        /\ After(apc) <= apc + 33
    BY <1>1, CodeParts DEF IInv, AnalyseOp, DataEnd
  <1>3. \A p \in 0..(CodeLen - 1) : After(p)' = After(p) /\ After(p) \in Nat
    BY CodeParts DEF AnalyseOp, After, IInv
  <1>4. apc \notin bits
    BY <1>1 DEF IInv, BitsInv
  <1>5. Seen' = Seen \cup {apc} /\ Seen \subseteq 0..(CodeLen - 1)
    BY <1>1, <1>4 DEF Seen
  <1>6. TypeOK'
    BY <1>1, <1>2 DEF IInv, TypeOK, AnalyseOp
  <1>7. BitsInv'
    <2>1. \A q \in bits' : 0 < q /\ q < apc'
      BY <1>1 DEF IInv, BitsInv
    <2>2. \A p \in Seen' : After(p)' \notin bits' /\ (After(p)' < apc' \/ After(p)' = DataEnd')
      <3>1. ASSUME NEW p \in Seen PROVE After(p) \notin bits /\ After(p) < apc'
        BY <1>1, <1>3, <1>5, <3>1 DEF IInv, BitsInv
      <3>2. After(apc) \notin bits
        <4>1. \A q \in bits : q < apc /\ q \in Nat
          BY <1>1 DEF IInv, BitsInv
        <4>2. After(apc) \in Nat
          BY <1>1, <1>3
        <4> QED
          BY <1>1, <1>2, <4>1, <4>2
      <3> QED
        BY <1>1, <1>2, <1>3, <1>5, <3>1, <3>2
    <2>3. \A p \in Seen' \ {0} : \E q \in Seen' : After(q)' = p
      <3>1. \A p \in Seen \ {0} : \E q \in Seen : After(q)' = p
        BY <1>3, <1>5 DEF IInv, BitsInv
      <3>2. apc # 0 => \E q \in Seen : After(q)' = apc
        BY <1>1, <1>3, <1>5 DEF IInv, BitsInv
      <3> QED
        BY <1>5, <3>1, <3>2
    <2>4. \E q \in Seen' : After(q)' = DataEnd'
      BY <1>1, <1>2, <1>3, <1>5
    <2>5. DataEnd' <= CodeLen' + 32 /\ apc' > 0
      <3>1. After(apc) \in Nat
        BY <1>1, <1>3
      <3> QED
        BY <1>1, <1>2, <3>1
    <2> QED
      BY <2>1, <2>2, <2>3, <2>4, <2>5 DEF BitsInv
  <1>8. PhaseInv' /\ PcOnInstruction'
    BY <1>1 DEF IInv, PhaseInv, PcOnInstruction, AnalyseOp, OutOfCode, Low64
  <1> QED
    BY <1>6, <1>7, <1>8 DEF IInv

(* A finished analysis has decoded the whole code. *)
LEMMA AnalysedDecodes ==
  ASSUME IInv
  PROVE  BitmapExact
  <1> SUFFICES ASSUME analysed PROVE Decodes(Segment)
    BY DEF BitmapExact
  <1>1. /\ CodeLen \in Nat \ {0} /\ numbits = 0 /\ apc >= CodeLen
        /\ bits \in SUBSET Nat /\ apc \in Nat
    BY CodeParts DEF IInv, PhaseInv, TypeOK
  <1>2. Seen = Segment /\ DataEnd = apc /\ Segment \subseteq 0..(CodeLen - 1)
    BY <1>1 DEF Seen, Segment, DataEnd
  <1>3. \A p \in Segment : After(p) \in Nat
    BY <1>2, CodeParts DEF IInv
  <1>4. 0 \in Segment
    BY <1>1 DEF Segment, IInv, BitsInv
  <1>5. \A p \in Segment : After(p) \in Segment \/ After(p) >= CodeLen
    <2> SUFFICES ASSUME NEW p \in Segment, ~(After(p) >= CodeLen)
                 PROVE  After(p) \in Segment
      OBVIOUS
    <2>1. After(p) \in 0..(CodeLen - 1)
      BY <1>1, <1>3
    <2>2. After(p) \notin bits
      BY <1>2 DEF IInv, BitsInv
    <2> QED
      BY <2>1, <2>2 DEF Segment
  <1>6. \A p \in Segment \ {0} : \E q \in Segment : After(q) = p
    BY <1>2 DEF IInv, BitsInv
  <1> QED
    BY <1>4, <1>5, <1>6 DEF Decodes

-----------------------------------------------------------------------------
(* The program counter. *)

RunStep == \/ Halt \/ Push \/ Plain \/ JumpNotTaken
           \/ \E d \in Words : JumpRefused(d) \/ Jump(d)

(* Executing an instruction leads to one that decoding finds too. *)
LEMMA RunStepKeeps ==
  ASSUME IInv, RunStep
  PROVE  IInv'
  <1>1. /\ CodeLen \in Nat \ {0} /\ pc \in Nat /\ code \in Seq(0..255)
        /\ UNCHANGED <<code, analysis>> /\ phase = "run"
        /\ CodeLen' = CodeLen
    BY CodeParts DEF IInv, TypeOK, RunStep, Halt, Push, Plain, JumpNotTaken,
       JumpRefused, Jump, CodeLen
  <1>2. \/ pc' = pc
        \/ pc < CodeLen /\ pc' = After(pc)
    <2>1. CASE Push
      <3>1. pc < CodeLen
        BY <1>1, <2>1 DEF Push, Op, PushSize, STOP, PUSH1, PUSH32
      <3>2. Op(pc) = code[pc + 1] /\ code[pc + 1] \in 0..255
        <4>1. pc \in 0..(CodeLen - 1)
          BY <1>1, <3>1
        <4> QED
          BY <4>1, CodeParts DEF IInv
      <3>4. PushSize(code[pc + 1]) \in Nat
        BY <3>2 DEF PushSize, PUSH1, PUSH32
      <3>3. pc' = pc + PushSize(code[pc + 1]) + 1
        BY <2>1, <3>2 DEF Push
      <3> QED
        BY <1>1, <3>1, <3>2, <3>3, <3>4 DEF After
    <2>2. CASE Plain
      <3>1. pc < CodeLen
        BY <1>1, <2>2 DEF Plain, Op, Diverting
      <3> QED
        BY <1>1, <2>2, <3>1, CodeParts DEF Plain, IInv, After
    <2>3. CASE JumpNotTaken
      <3>1. pc < CodeLen
        BY <1>1, <2>3 DEF JumpNotTaken, Op, STOP, JUMPI
      <3>2. PushSize(Op(pc)) = 0
        BY <2>3 DEF JumpNotTaken, PushSize, JUMPI, PUSH1, PUSH32
      <3> QED
        BY <1>1, <2>3, <3>1, <3>2, CodeParts DEF JumpNotTaken, IInv, After
    <2> QED
      BY <2>1, <2>2, <2>3 DEF RunStep, Halt, JumpRefused, Jump
  <1>3. TypeOK'
    <2>1. pc' \in 0..(CodeLen + 32)
      BY <1>1, <1>2, CodeParts DEF IInv, TypeOK
    <2>2. /\ dest' \in Nat /\ phase' \in {"run", "analyse", "land", "halted"}
      BY WordAssumption DEF RunStep, Halt, Push, Plain, JumpNotTaken, JumpRefused,
         Jump, IInv, TypeOK
    <2> QED
      BY <1>1, <2>1, <2>2 DEF IInv, TypeOK, analysis
  <1>4. BitsInv'
    BY <1>1 DEF IInv, BitsInv, Seen, DataEnd, After, analysis
  <1>5. PhaseInv'
    BY <1>1 DEF IInv, PhaseInv, RunStep, Halt, Push, Plain, JumpNotTaken, JumpRefused,
       Jump, OutOfCode, analysis
  <1>6. PcOnInstruction'
    <2> SUFFICES ASSUME analysed, pc' < CodeLen PROVE pc' \in Segment
      BY <1>1 DEF PcOnInstruction, Segment, analysis
    <2>1. Decodes(Segment)
      BY AnalysedDecodes DEF BitmapExact
    <2>2. pc < CodeLen
      BY <1>1, <1>2
    <2>3. pc \in Segment
      BY <1>1, <2>2 DEF IInv, PcOnInstruction
    <2>4. pc \in 0..(CodeLen - 1)
      BY <2>3 DEF Segment
    <2>5. After(pc) \in Segment \/ After(pc) >= CodeLen
      BY <2>1, <2>3 DEF Decodes
    <2>6. After(pc) \in Nat
      BY <2>4, CodeParts DEF IInv
    <2> QED
      BY <1>1, <1>2, <2>3, <2>5, <2>6
  <1> QED
    BY <1>3, <1>4, <1>5, <1>6 DEF IInv

(* A jump lands on an instruction. *)
LEMMA LandKeeps ==
  ASSUME IInv, AnalysisDone \/ Land \/ LandRefused
  PROVE  IInv'
  <1>1. /\ CodeLen \in Nat \ {0} /\ UNCHANGED <<code, dest, bits, apc, numbits>>
        /\ CodeLen' = CodeLen /\ dest \in Nat
    BY CodeParts DEF IInv, TypeOK, AnalysisDone, Land, LandRefused, CodeLen, analysis
  <1>2. ~OutOfCode(dest) /\ Low64(dest) = dest /\ dest < CodeLen
    <2>1. ~OutOfCode(dest)
      BY DEF IInv, PhaseInv, AnalysisDone, Land, LandRefused
    <2>2. dest < Two62 /\ ~(Low64(dest) >= CodeLen)
      BY <1>1, <2>1, Two62Assumption DEF OutOfCode
    <2>3. Low64(dest) = dest
      BY <1>1, <2>2, LowBits
    <2> QED
      BY <1>1, <2>1, <2>2, <2>3
  <1>3. pc' = pc \/ (pc' = dest /\ dest \notin bits)
    BY <1>2 DEF AnalysisDone, Land, LandRefused, CodeSegment
  <1>4. TypeOK'
    <2>1. pc' \in 0..(CodeLen + 32)
      BY <1>1, <1>2, <1>3 DEF IInv, TypeOK
    <2>2. phase' \in {"run", "land", "halted"} /\ analysed' \in BOOLEAN
      BY DEF IInv, TypeOK, AnalysisDone, Land, LandRefused, analysis
    <2> QED
      BY <1>1, <2>1, <2>2 DEF IInv, TypeOK
  <1>5. BitsInv'
    BY <1>1 DEF IInv, BitsInv, Seen, DataEnd, After
  <1>6. PhaseInv'
    BY <1>1, <1>2 DEF IInv, PhaseInv, AnalysisDone, Land, LandRefused, OutOfCode,
       Low64, analysis
  <1>7. PcOnInstruction'
    BY <1>1, <1>2, <1>3 DEF IInv, PcOnInstruction, AnalysisDone, Land, LandRefused,
       Segment, CodeSegment
  <1> QED
    BY <1>4, <1>5, <1>6, <1>7 DEF IInv

(* The invariant holds initially and every step keeps it. *)
LEMMA Invariance == Spec => []IInv
  <1>1. Init => IInv
    <2> SUFFICES ASSUME Init PROVE IInv
      OBVIOUS
    <2>1. CodeLen \in Nat \ {0}
      BY CodeAssumption DEF Init, CodeLen
    <2>2. TypeOK
      <3>1. pc \in 0..(CodeLen + 32) /\ apc \in 0..(CodeLen + 32)
        BY <2>1 DEF Init
      <3>2. analysed \in BOOLEAN /\ bits \in SUBSET Nat
        BY DEF Init
      <3> QED
        BY <3>1, <3>2 DEF Init, TypeOK
    <2>3. BitsInv
      BY <2>1 DEF Init, BitsInv, Seen, DataEnd
    <2> QED
      BY <2>2, <2>3 DEF Init, IInv, PhaseInv, PcOnInstruction
  <1>2. IInv /\ [Next]_vars => IInv'
    <2> SUFFICES ASSUME IInv, [Next]_vars PROVE IInv'
      OBVIOUS
    <2>1. CASE UNCHANGED vars
      BY <2>1 DEF vars, analysis, IInv, TypeOK, BitsInv, PhaseInv, PcOnInstruction,
         CodeLen, Seen, DataEnd, After, Segment, OutOfCode, Low64
    <2>2. CASE MarkEight \/ MarkOne
      BY <2>2, MarkSteps, MarkKeeps DEF IInv
    <2>3. CASE RunStep
      BY <2>3, RunStepKeeps
    <2> QED
      BY <2>1, <2>2, <2>3, AnalyseOpKeeps, LandKeeps DEF Next, RunStep
  <1> QED
    BY <1>1, <1>2, PTL DEF Spec

(* Nothing wraps and nothing leaves its range, whatever the code and its   *)
(* jumps: pc, numbits and the position in codeBitmap (destination.go:54).  *)
THEOREM TypeCorrect == Spec => []TypeOK
  <1>1. IInv => TypeOK
    BY DEF IInv
  <1> QED
    BY <1>1, Invariance, PTL

(* The bitvec tells instructions from data in every code (destination.go:43). *)
THEOREM BitmapIsExact == Spec => []BitmapExact
  <1> QED
    BY Invariance, AnalysedDecodes, PTL

(* After any number of computed jumps the program counter still is where   *)
(* decoding the code finds an instruction (destination.go:39).             *)
THEOREM PcStaysOnInstructions == Spec => []PcOnInstruction
  <1>1. IInv => PcOnInstruction
    BY DEF IInv
  <1> QED
    BY <1>1, Invariance, PTL

(* The four bytes codeBitmap adds to the bitvec are enough for every code  *)
(* (destination.go:44-47).                                                 *)
THEOREM BitvecIsLongEnough == Spec => []IndexInBounds
  <1>1. IInv => IndexInBounds
    <2> SUFFICES ASSUME IInv PROVE IndexInBounds
      OBVIOUS
    <2> DEFINE n == CodeLen
    <2>1. n \in Nat /\ apc \in Nat /\ numbits \in Nat /\ apc + numbits <= n + 32
      BY CodeParts DEF IInv, TypeOK, BitsInv, DataEnd
    <2>2. BitvecBytes = n \div 8 + 5
      BY <2>1 DEF BitvecBytes
    <2> HIDE DEF n
    <2>3. numbits >= 8 => apc \div 8 + 1 < n \div 8 + 5
      BY <2>1
    <2>4. numbits > 0 => apc \div 8 < n \div 8 + 5
      BY <2>1
    <2> QED
      BY <2>2, <2>3, <2>4 DEF IndexInBounds
  <1> QED
    BY <1>1, Invariance, PTL

(* A jump goes to the integer it was given, not to that integer modulo     *)
(* 2^64 (destination.go:29-30, instructions.go:535).                       *)
THEOREM JumpsAreExact == Spec => JumpIsExact
  <1>1. IInv /\ [Next]_vars => [phase = "land" /\ phase' = "run" => pc' = dest]_vars
    <2> SUFFICES ASSUME IInv, Next, phase = "land", phase' = "run" PROVE pc' = dest
      BY DEF vars
    <2>1. Land
      BY DEF Next, Halt, Push, Plain, JumpNotTaken, JumpRefused, Jump, AnalyseOp,
         MarkEight, MarkOne, AnalysisDone, LandRefused
    <2>2. dest \in Nat /\ dest < Two62
      BY Two62Assumption DEF IInv, TypeOK, PhaseInv, OutOfCode
    <2> QED
      BY <2>1, <2>2, LowBits DEF Land
  <1> QED
    BY <1>1, Invariance, PTL DEF Spec, JumpIsExact
=============================================================================
