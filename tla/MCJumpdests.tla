--------------------------- MODULE MCJumpdests ---------------------------
(* Instances of Jumpdests for TLC. *)
EXTENDS Jumpdests, SequencesExt

(* Every code of up to MaxLen bytes of these kinds. *)
CONSTANT MaxLen
Bytes == {STOP, JUMP, JUMPI, JUMPDEST, PUSH1, PUSH1 + 1, PUSH32, RETURN}
ShortCodes == UNION {[1..n -> Bytes] : n \in 1..MaxLen}

(* A jump, a PUSH at every alignment with data that looks like JUMPDESTs,  *)
(* and another instruction after it, or the end of the code inside the     *)
(* data.                                                                   *)
Fill(n) == [i \in 1..n |-> JUMPDEST]
LongCodes ==
  {<<JUMPI>> \o Fill(k) \o <<PUSH1 + n - 1>> \o Fill(n + m) :
     k \in 0..7, n \in {7, 8, 9, 15, 16, 17, 31, 32}, m \in {-7, 0, 1}}

MCCodes == ShortCodes \cup LongCodes

(* Destinations in all the short codes and some of the long ones, behind   *)
(* them, and beyond 2^62 and 2^64 with a small remainder.                  *)
MCWords == (0..4) \cup {8, 9, 10, 16, 32, 33, 40, Two62, 4 * Two62 + 1}
=============================================================================
