---------------------------- MODULE MCOperands ----------------------------
(* Instances of Operands for TLC. *)
EXTENDS Operands

(* An integer of this package is known by the first place it is in: which  *)
(* number it got makes no difference, and made only gives out new ones.    *)
(* No action reads last.                                                   *)
Place(i) ==
  LET all == stack \o pool
  IN  IF i < 0 THEN i ELSE CHOOSE k \in DOMAIN all : all[k] = i /\ \A l \in 1..(k - 1) : all[l] # i

UpToNumbers ==
  << [k \in DOMAIN stack |-> <<Place(stack[k]), val[stack[k]]>>],
     [k \in DOMAIN pool |-> Place(pool[k])], foreign >>

MCForeign == {-1}
===========================================================================
