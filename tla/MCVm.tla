------------------------------- MODULE MCVm -------------------------------
(* Instances of Vm for TLC: a sender, a contract, and a free address. *)
EXTENDS VmSettles, TLC

CONSTANTS A, B, C, VITE, COIN, NOADDR

MCAddr  == {A, B, C}
MCToken == {VITE, COIN}

(* A holds one of each token and has no code; B is a contract with a value *)
(* in storage; C does not exist.                                           *)
MCInitDbs ==
  { [live    |-> {A, B},
     balance |-> [a \in MCAddr |-> [t \in MCToken |-> IF a = A THEN 1 ELSE 0]],
     code    |-> [a \in MCAddr |-> IF a = B THEN 1 ELSE 0],
     slot    |-> [a \in MCAddr |-> IF a = B THEN 1 ELSE 0]] }

(* Calls to each kind of account and creations, of amounts within, at and  *)
(* beyond the balance, free and priced data, at both sides of the depth    *)
(* limit; a price out of quota and one out of range.                       *)
MCTxs ==
  [op : {"call"}, type : {"send", "receive"}, from : {A}, to : MCAddr,
   token : {VITE, COIN}, amount : 0..2, zeros : {0}, nonZeros : {0},
   depth : {0, 2}]
  \cup
  [op : {"create"}, type : {"send", "receive"}, from : {A}, to : {B, C},
   token : {VITE, COIN}, amount : 0..2, zeros : {0, 1}, nonZeros : {0},
   depth : {0, 2}]
  \cup
  [op : {"call", "create"}, type : {"send", "receive"}, from : {A}, to : {B},
   token : {VITE}, amount : {1}, zeros : {1, 41}, nonZeros : {2, 5, 21},
   depth : {0}]

(* What may be found in the integer of a transaction: a negative number,   *)
(* and one that may or may not be the amount received.                     *)
MCAmounts == {-1, 2}

(* The same with 5, which no transaction has.                              *)
OtherAmounts == {-1, 5}
=============================================================================
