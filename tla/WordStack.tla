----------------------------- MODULE WordStack -----------------------------
(***************************************************************************)
(* What the instructions promise to do to the stack: it is a stack of      *)
(* words, values and not places, of limited height, and an instruction     *)
(* replaces the operands the table declares by its results and touches     *)
(* nothing else.                                                           *)
(***************************************************************************)
EXTENDS InstructionTable, Sequences

CONSTANTS Word, StackLimit

VARIABLES
  words,      \* the top is the last one
  last        \* the instruction executed last, if there is one

Init == words = <<>> /\ last = "none"

At(n) == words[Len(words) + 1 - n]

(* The n lowest words. *)
Rest(n) == SubSeq(words, 1, n)

DivisorIsZero(op) == \E n \in Divisors(op) : At(n) = 0

Step(op) ==
  /\ last' = op
  /\ StackIn(op) <= Len(words)
  /\ Len(words) + StackOut(op) - StackIn(op) <= StackLimit
  /\ \E r \in Word :
       /\ DivisorIsZero(op) => r = 0
       /\ words' = IF StackOut(op) = 1 THEN Append(Rest(Len(words) - StackIn(op)), r)
                   ELSE Rest(Len(words) - StackIn(op))

Dup(n) ==
  /\ last' = "DUP"
  /\ n <= Len(words) /\ Len(words) < StackLimit
  /\ words' = Append(words, At(n))

Swap(n) ==
  /\ last' = "SWAP"
  /\ n < Len(words)
  /\ words' = [words EXCEPT ![Len(words)] = At(n + 1), ![Len(words) - n] = At(1)]

(* The run ends; the stack of the next one is empty. *)
End == last' \in Halting \cup {"none"} /\ words' = <<>>

Next == \/ \E op \in Ops \ Halting : Step(op)
        \/ \E n \in 1..16 : Dup(n) \/ Swap(n)
        \/ End

Spec == Init /\ [][Next]_<<words, last>>
============================================================================
