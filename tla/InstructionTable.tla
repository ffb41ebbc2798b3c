------------------------- MODULE InstructionTable -------------------------
(***************************************************************************)
(* What the instruction table (src/vm/jump_table.go) declares of the stack *)
(* of each instruction: the words makeStackFunc(pop, push) requires on it  *)
(* and the words that replace them.  PUSH stands for PUSH1 to PUSH32; DUP  *)
(* and SWAP, which look below their operands, are apart.                   *)
(***************************************************************************)
EXTENDS Integers

NoOperands == {"STOP", "JUMPDEST"}

Sources == {"ADDRESS", "CALLER", "CALLVALUE", "CALLDATASIZE", "CODESIZE", "RETURNDATASIZE",
            "TIMESTAMP", "NUMBER", "PC", "MSIZE", "PUSH"}

Unary == {"ISZERO", "NOT", "CALLDATALOAD", "EXTCODESIZE", "EXTCODEHASH", "BLOCKHASH",
          "MLOAD", "SLOAD"}

Binary == {"ADD", "MUL", "SUB", "DIV", "SDIV", "MOD", "SMOD", "EXP", "SIGNEXTEND",
           "LT", "GT", "SLT", "SGT", "EQ", "AND", "OR", "XOR", "BYTE", "SHL", "SHR", "SAR",
           "BLAKE2B", "BALANCE"}

Modular == {"ADDMOD", "MULMOD"}

Copies == {"CALLDATACOPY", "CODECOPY", "RETURNDATACOPY"}

Stores == {"MSTORE", "MSTORE8", "SSTORE", "JUMPI"}

Halting == {"STOP", "RETURN", "REVERT"}

(* The number of topics of a LOG. *)
Topics == [LOG0 |-> 0, LOG1 |-> 1, LOG2 |-> 2, LOG3 |-> 3, LOG4 |-> 4]

LogOps == {"LOG0", "LOG1", "LOG2", "LOG3", "LOG4"}

Ops == NoOperands \cup Sources \cup Unary \cup Binary \cup Modular \cup Copies \cup Stores
         \cup Halting \cup LogOps \cup {"POP", "JUMP", "EXTCODECOPY", "DELEGATECALL"}

StackInMutant(op) ==
  CASE op \in NoOperands \cup Sources                   -> 0
    [] op \in Unary \cup {"POP", "JUMP"}                -> 1
    [] op \in Binary \cup Stores \cup {"RETURN", "REVERT"} -> 2
    [] op \in Modular \cup Copies                       -> 3
    [] op = "EXTCODECOPY"                               -> 4
    [] op = "DELEGATECALL"                              -> 5
    [] op \in LogOps                                    -> 1 + Topics[op]

StackIn(op) ==
  CASE op \in NoOperands \cup Sources                   -> 0
    [] op \in Unary \cup {"POP", "JUMP"}                -> 1
    [] op \in Binary \cup Stores \cup {"RETURN", "REVERT"} -> 2
    [] op \in Modular \cup Copies                       -> 3
    [] op = "EXTCODECOPY"                               -> 4
    [] op = "DELEGATECALL"                              -> 5
    [] op \in LogOps                                    -> 2 + Topics[op]

StackOut(op) ==
  IF op \in Sources \cup Unary \cup Binary \cup Modular \cup {"DELEGATECALL"} THEN 1 ELSE 0

(* The operand, counted from the top, that makes the result zero when it is *)
(* zero, for the instructions that divide.                                 *)
Divisors(op) == CASE op \in {"DIV", "MOD", "SMOD"} -> {2}
                  [] op = "SDIV"    -> {1, 2}
                  [] op \in Modular -> {3}
                  [] OTHER          -> {}
===========================================================================
