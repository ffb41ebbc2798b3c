------------------------------ MODULE StateDb ------------------------------
(***************************************************************************)
(* The state database a VM works on, as the VM uses it through the         *)
(* interface Database (src/vm/database_temp.go).  The implementation is    *)
(* not in the repository (testDatabase only holds stubs), so this module   *)
(* is the contract the VM relies on: a database is a value, and every      *)
(* write returns the database after it.                                    *)
(*                                                                         *)
(* Abstractions: a contract's code is its length (nothing but "is there    *)
(* code" and its price depends on it), and an account has one storage      *)
(* location, since locations never influence each other.                   *)
(***************************************************************************)
EXTENDS Integers

CONSTANTS
  Addr,    \* account addresses
  Token,   \* token types
  Word     \* values of a storage location; 0 is types.Hash{}

ASSUME WordAssumption == 0 \in Word

NoTokens == [t \in Token |-> 0]

Dbs == [live    : SUBSET Addr,
        balance : [Addr -> [Token -> Int]],
        code    : [Addr -> Nat],
        slot    : [Addr -> Word]]

(* An address that does not exist holds nothing. *)
WellFormed(d) ==
  \A a \in Addr \ d.live :
    d.balance[a] = NoTokens /\ d.code[a] = 0 /\ d.slot[a] = 0

AddBalance(d, a, t, n) ==
  [d EXCEPT !.balance =
     [d.balance EXCEPT ![a] = [d.balance[a] EXCEPT ![t] = d.balance[a][t] + n]]]
SubBalance(d, a, t, n) ==
  [d EXCEPT !.balance =
     [d.balance EXCEPT ![a] = [d.balance[a] EXCEPT ![t] = d.balance[a][t] - n]]]

CreateAccount(d, a) == [d EXCEPT !.live = @ \cup {a}]
DeleteAccount(d, a) == [live    |-> d.live \ {a},
                        balance |-> [d.balance EXCEPT ![a] = NoTokens],
                        code    |-> [d.code EXCEPT ![a] = 0],
                        slot    |-> [d.slot EXCEPT ![a] = 0]]

SetContractCode(d, a, len) == [d EXCEPT !.code = [d.code EXCEPT ![a] = len]]
SetState(d, a, v)          == [d EXCEPT !.slot = [d.slot EXCEPT ![a] = v]]

(* What d holds for address a, and that two databases agree on it. *)
Agree(d, e, a) == /\ a \in d.live <=> a \in e.live
                  /\ d.balance[a] = e.balance[a]
                  /\ d.code[a] = e.code[a]
                  /\ d.slot[a] = e.slot[a]
=============================================================================
