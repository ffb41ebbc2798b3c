------------------------------ MODULE MCArith ------------------------------
(* An instance of Arith for TLC: words of eight bits, four bytes of two,   *)
(* limbs of two bytes.                                                     *)
EXTENDS Arith

MCWords == 0..255

(* For instructions with three operands: small ones, the largest ones, and  *)
(* those around the largest positive one.                                  *)
MCSomeWords == {0, 1, 2, 3, 16, 100, 127, 128, 129, 254, 255}

MCDatas == UNION {[1..n -> {1, 2}] : n \in 0..5}
============================================================================
