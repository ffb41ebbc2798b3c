----------------------------- MODULE Jumpdests -----------------------------
(***************************************************************************)
(* The program counter of run, and the analysis of code that tells which   *)
(* jump destinations are allowed (src/vm/destination.go).                  *)
(*                                                                         *)
(* Code is a sequence of bytes, some of which are the data of PUSH         *)
(* instructions.  The first jump of a run analyses the code, byte by byte, *)
(* and marks that data in a bitvec; later jumps use the result.            *)
(*                                                                         *)
(* Abstractions: an instruction may end the run whatever it is, and any    *)
(* integer may be on the stack when a jump is executed.  A bitvec is the   *)
(* set of the positions whose bit is set.                                  *)
(***************************************************************************)
EXTENDS Integers, Sequences

CONSTANTS
  Codes,   \* the code a run may be given
  Words,   \* integers a jump may find on the stack
  Two62    \* 2^62 in the code

ASSUME Two62Assumption == Two62 \in Nat \ {0}
ASSUME CodeAssumption  ==
  \A c \in Codes : c \in Seq(0..255) /\ Len(c) > 0 /\ Len(c) <= Two62
ASSUME WordAssumption  == Words \subseteq Nat

STOP == 0
JUMP == 86
JUMPI == 87
JUMPDEST == 91
PUSH1 == 96
PUSH32 == 127
RETURN == 243
REVERT == 253

(* The opcodes the instruction set knows. *)
ValidOps == 0..11 \cup 16..29 \cup {32} \cup 48..49 \cup 51..57 \cup 59..64
            \cup 66..67 \cup 80..89 \cup {JUMPDEST} \cup 96..164
            \cup 243..244 \cup {REVERT}

(* Those after which run does not go on with the next one. *)
Diverting == {STOP, JUMP, JUMPI, RETURN, REVERT}

VARIABLES
  code,
  pc,
  phase,      \* "run", in has: "analyse" then "land", or "halted"
  dest,       \* the integer the jump has popped
  analysed,   \* is the bitvec in the contract's destinations?
  bits,       \* the bitvec
  apc,        \* pc of codeBitmap
  numbits     \* data bytes codeBitmap has yet to mark

vars == <<code, pc, phase, dest, analysed, bits, apc, numbits>>
analysis == <<analysed, bits, apc, numbits>>

-----------------------------------------------------------------------------
Low64(n) == n % (4 * Two62)

CodeLen == Len(code)
Op(n)   == IF n < CodeLen THEN code[n + 1] ELSE STOP

(* The number of data bytes after an instruction, as the instruction set   *)
(* has it and as codeBitmap has it.                                        *)
PushSize(op) == IF op \in PUSH1..PUSH32 THEN op - PUSH1 + 1 ELSE 0

NumbitsMutant(op) == IF op >= PUSH1 /\ op <= PUSH32 THEN op - PUSH1 ELSE 0

Numbits(op) == IF op >= PUSH1 /\ op <= PUSH32 THEN op - PUSH1 + 1 ELSE 0

BitvecBytesMutant == CodeLen \div 8 + 1

BitvecBytes == CodeLen \div 8 + 1 + 4

Set(pos) == {pos}

(* set8 sets the bits from pos to the end of its byte, and as many at the  *)
(* beginning of the next byte as are left.                                 *)
Set8(pos) ==
  LET i == pos \div 8
      r == pos % 8
  IN  {8 * i + k : k \in r..7} \cup {8 * (i + 1) + k : k \in 0..(r - 1)}

CodeSegment(pos) == pos \notin bits

-----------------------------------------------------------------------------
Init ==
  /\ code \in Codes
  /\ pc = 0 /\ phase = "run" /\ dest = 0
  /\ analysed = FALSE /\ bits = {} /\ apc = 0 /\ numbits = 0

(* STOP, also behind the end of the code, RETURN, REVERT, an invalid opcode, *)
(* any error, or the end of quota.                                          *)
Halt ==
  /\ phase = "run"
  /\ phase' = "halted"
  /\ UNCHANGED <<code, pc, dest, analysis>>

(* makePush moves pc behind the data, the loop of run to the next op. *)
Push ==
  /\ phase = "run" /\ PushSize(Op(pc)) > 0
  /\ pc' = pc + PushSize(Op(pc)) + 1
  /\ UNCHANGED <<code, phase, dest, analysis>>

Plain ==
  /\ phase = "run" /\ PushSize(Op(pc)) = 0 /\ Op(pc) \in ValidOps \ Diverting
  /\ pc' = pc + 1
  /\ UNCHANGED <<code, phase, dest, analysis>>

JumpNotTaken ==
  /\ phase = "run" /\ Op(pc) = JUMPI
  /\ pc' = pc + 1
  /\ UNCHANGED <<code, phase, dest, analysis>>

(* has refuses a destination of 63 bits or more before it looks at 64 of   *)
(* them, and one behind the code before it analyses the code.              *)
OutOfCodeMutant(d) == Low64(d) >= CodeLen

OutOfCode(d) == d >= Two62 \/ Low64(d) >= CodeLen

JumpRefused(d) ==
  /\ phase = "run" /\ Op(pc) \in {JUMP, JUMPI}
  /\ OutOfCode(d)
  /\ phase' = "halted" /\ dest' = d
  /\ UNCHANGED <<code, pc, analysis>>

Jump(d) ==
  /\ phase = "run" /\ Op(pc) \in {JUMP, JUMPI}
  /\ ~OutOfCode(d)
  /\ dest' = d
  /\ phase' = IF analysed THEN "land" ELSE "analyse"
  /\ UNCHANGED <<code, pc, analysis>>

-----------------------------------------------------------------------------
(* codeBitmap: one step per instruction, and per call of set8 and set. *)

AnalyseOp ==
  /\ phase = "analyse" /\ numbits = 0 /\ apc < CodeLen
  /\ numbits' = Numbits(code[apc + 1])
  /\ apc' = apc + 1
  /\ UNCHANGED <<code, pc, phase, dest, analysed, bits>>

MarkEightMutant ==
  /\ phase = "analyse" /\ numbits > 0
  /\ bits' = bits \cup Set8(apc)
  /\ apc' = apc + 8 /\ numbits' = numbits - 8
  /\ UNCHANGED <<code, pc, phase, dest, analysed>>

MarkEight ==
  /\ phase = "analyse" /\ numbits >= 8
  /\ bits' = bits \cup Set8(apc)
  /\ apc' = apc + 8 /\ numbits' = numbits - 8
  /\ UNCHANGED <<code, pc, phase, dest, analysed>>

MarkOne ==
  /\ phase = "analyse" /\ numbits \in 1..7
  /\ bits' = bits \cup Set(apc)
  /\ apc' = apc + 1 /\ numbits' = numbits - 1
  /\ UNCHANGED <<code, pc, phase, dest, analysed>>

AnalysisDone ==
  /\ phase = "analyse" /\ numbits = 0 /\ apc >= CodeLen
  /\ analysed' = TRUE
  /\ phase' = "land"
  /\ UNCHANGED <<code, pc, dest, bits, apc, numbits>>

LandMutant ==
  /\ phase = "land" /\ Op(Low64(dest)) = JUMPDEST
  /\ pc' = Low64(dest)
  /\ phase' = "run"
  /\ UNCHANGED <<code, dest, analysis>>

Land ==
  /\ phase = "land"
  /\ Op(Low64(dest)) = JUMPDEST /\ CodeSegment(Low64(dest))
  /\ pc' = Low64(dest)
  /\ phase' = "run"
  /\ UNCHANGED <<code, dest, analysis>>

LandRefused ==
  /\ phase = "land"
  /\ Op(Low64(dest)) # JUMPDEST \/ ~CodeSegment(Low64(dest))
  /\ phase' = "halted"
  /\ UNCHANGED <<code, pc, dest, analysis>>

-----------------------------------------------------------------------------
Next ==
  \/ Halt \/ Push \/ Plain \/ JumpNotTaken
  \/ \E d \in Words : JumpRefused(d) \/ Jump(d)
  \/ AnalyseOp \/ MarkEight \/ MarkOne \/ AnalysisDone \/ Land \/ LandRefused

Spec == Init /\ [][Next]_vars

-----------------------------------------------------------------------------
(* Every variable has its type; pc and numbits, which are unsigned in the  *)
(* code, do not wrap (vm.go:319, instructions.go:589, destination.go:54).  *)
TypeOK ==
  /\ code \in Codes /\ pc \in 0..(CodeLen + 32) /\ dest \in Nat
  /\ phase \in {"run", "analyse", "land", "halted"}
  /\ analysed \in BOOLEAN /\ bits \in SUBSET Nat
  /\ apc \in 0..(CodeLen + 32) /\ numbits \in 0..32

(* The instruction that follows the one at p when nothing jumps. *)
After(p) == p + 1 + PushSize(code[p + 1])

(* S is the set of positions where decoding the code from its beginning    *)
(* finds an instruction: 0, and what follows an instruction, and no other. *)
Decodes(S) ==
  /\ 0 \in S
  /\ \A p \in S : After(p) \in S \/ After(p) >= CodeLen
  /\ \A p \in S \ {0} : \E q \in S : After(q) = p

Segment == (0..(CodeLen - 1)) \ bits

(* The bitvec separates instructions from data, all of them and at every   *)
(* alignment: what it leaves unmarked is what decoding the code would find *)
(* (codeBitmap, destination.go:43).                                        *)
BitmapExact == analysed => Decodes(Segment)

(* Code is never executed from the middle of the data of a PUSH, whatever  *)
(* jumps it computes (destinations.has, destination.go:39).                *)
PcOnInstruction ==
  analysed /\ phase = "run" /\ pc < CodeLen => pc \in Segment

(* set8 and set stay within the bitvec, also for a PUSH32 that ends the    *)
(* code; beyond it they would panic (destination.go:47).                   *)
IndexInBounds ==
  phase = "analyse" => /\ numbits >= 8 => apc \div 8 + 1 < BitvecBytes
                       /\ numbits > 0 => apc \div 8 < BitvecBytes

(* A jump that is not refused goes where the integer on the stack says,    *)
(* although only 64 bits of that integer reach pc (destination.go:29-30).  *)
JumpIsExact == [][phase = "land" /\ phase' = "run" => pc' = dest]_vars

-----------------------------------------------------------------------------
(* The inductive invariant behind these properties. *)

(* The instruction starts codeBitmap has passed, and where the data it is  *)
(* marking ends.                                                           *)
Seen    == {p \in 0..(CodeLen - 1) : p < apc /\ p \notin bits}
DataEnd == apc + numbits

(* What is passed and unmarked decodes the code as far as it goes. *)
BitsInv ==
  /\ \A q \in bits : 0 < q /\ q < apc
  /\ DataEnd <= CodeLen + 32
  /\ DataEnd # 0 => apc > 0
  /\ \A p \in Seen : After(p) \notin bits /\ (After(p) < apc \/ After(p) = DataEnd)
  /\ \A p \in Seen \ {0} : \E q \in Seen : After(q) = p
  /\ DataEnd # 0 => \E q \in Seen : After(q) = DataEnd

PhaseInv ==
  /\ analysed => numbits = 0 /\ apc >= CodeLen
  /\ phase = "land" => analysed
  /\ phase \in {"land", "analyse"} => ~OutOfCode(dest)

IInv == TypeOK /\ BitsInv /\ PhaseInv /\ PcOnInstruction
=============================================================================
