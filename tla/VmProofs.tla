----------------------------- MODULE VmProofs -----------------------------
(***************************************************************************)
(* Proofs about Vm, for any transactions, databases, prices and contracts. *)
(***************************************************************************)
EXTENDS Vm, TLAPS, SequenceTheorems

-----------------------------------------------------------------------------
(* What the writes of StateDb return, for any addresses, tokens and words. *)

(* A database is determined by its four parts. *)
LEMMA DbExtensional ==
  ASSUME NEW d \in Dbs, NEW e \in Dbs,
         d.live = e.live, d.balance = e.balance, d.code = e.code, d.slot = e.slot
  PROVE  d = e
  BY DEF Dbs

(* Crediting an account yields a database, and changes one balance. *)
LEMMA AddBalanceParts ==
  ASSUME NEW d \in Dbs, NEW a \in Addr, NEW t \in Token, NEW n \in Int
  PROVE  /\ AddBalance(d, a, t, n) \in Dbs
         /\ AddBalance(d, a, t, n).live = d.live
         /\ AddBalance(d, a, t, n).code = d.code
         /\ AddBalance(d, a, t, n).slot = d.slot
         /\ \A b \in Addr, u \in Token :
              AddBalance(d, a, t, n).balance[b][u]
                = IF b = a /\ u = t THEN d.balance[b][u] + n ELSE d.balance[b][u]
         /\ \A b \in Addr \ {a} : AddBalance(d, a, t, n).balance[b] = d.balance[b]
  <1> DEFINE bal == [d.balance EXCEPT ![a] = [d.balance[a] EXCEPT ![t] = d.balance[a][t] + n]]
  <1>1. AddBalance(d, a, t, n) = [d EXCEPT !.balance = bal]
    BY DEF AddBalance, Dbs
  <1>2. d.balance \in [Addr -> [Token -> Int]]
    BY DEF Dbs
  <1>3. d.balance[a] \in [Token -> Int]
    BY <1>2
  <1>5. bal \in [Addr -> [Token -> Int]]
    BY <1>2, <1>3
  <1>6. \A b \in Addr, u \in Token :
          bal[b][u] = IF b = a /\ u = t THEN d.balance[b][u] + n
                      ELSE d.balance[b][u]
    BY <1>2, <1>3
  <1>9. \A b \in Addr \ {a} : bal[b] = d.balance[b]
    BY <1>2
  <1>7. [d EXCEPT !.balance = bal] \in Dbs
    BY <1>5 DEF Dbs
  <1>8. /\ [d EXCEPT !.balance = bal].live = d.live
        /\ [d EXCEPT !.balance = bal].code = d.code
        /\ [d EXCEPT !.balance = bal].slot = d.slot
        /\ [d EXCEPT !.balance = bal].balance = bal
    BY DEF Dbs
  <1> HIDE DEF bal
  <1> QED
    BY <1>1, <1>6, <1>7, <1>8, <1>9

(* Debiting an account is crediting it the negative amount. *)
LEMMA SubBalanceParts ==
  ASSUME NEW d \in Dbs, NEW a \in Addr, NEW t \in Token, NEW n \in Int
  PROVE  /\ SubBalance(d, a, t, n) \in Dbs
         /\ SubBalance(d, a, t, n).live = d.live
         /\ SubBalance(d, a, t, n).code = d.code
         /\ SubBalance(d, a, t, n).slot = d.slot
         /\ \A b \in Addr, u \in Token :
              SubBalance(d, a, t, n).balance[b][u]
                = IF b = a /\ u = t THEN d.balance[b][u] - n ELSE d.balance[b][u]
         /\ \A b \in Addr \ {a} : SubBalance(d, a, t, n).balance[b] = d.balance[b]
  <1> DEFINE bal == [d.balance EXCEPT ![a] = [d.balance[a] EXCEPT ![t] = d.balance[a][t] - n]]
  <1>1. SubBalance(d, a, t, n) = [d EXCEPT !.balance = bal]
    BY DEF SubBalance, Dbs
  <1>2. d.balance \in [Addr -> [Token -> Int]]
    BY DEF Dbs
  <1>3. d.balance[a] \in [Token -> Int]
    BY <1>2
  <1>5. bal \in [Addr -> [Token -> Int]]
    BY <1>2, <1>3
  <1>6. \A b \in Addr, u \in Token :
          bal[b][u] = IF b = a /\ u = t THEN d.balance[b][u] - n
                      ELSE d.balance[b][u]
    BY <1>2, <1>3
  <1>9. \A b \in Addr \ {a} : bal[b] = d.balance[b]
    BY <1>2
  <1>7. [d EXCEPT !.balance = bal] \in Dbs
    BY <1>5 DEF Dbs
  <1>8. /\ [d EXCEPT !.balance = bal].live = d.live
        /\ [d EXCEPT !.balance = bal].code = d.code
        /\ [d EXCEPT !.balance = bal].slot = d.slot
        /\ [d EXCEPT !.balance = bal].balance = bal
    BY DEF Dbs
  <1> HIDE DEF bal
  <1> QED
    BY <1>1, <1>6, <1>7, <1>8, <1>9

(* The balances after a credit depend on the balances before it only. *)
LEMMA SameCredit ==
  ASSUME NEW d \in Dbs, NEW e \in Dbs, NEW a, NEW t, NEW n,
         d.balance = e.balance
  PROVE  AddBalance(d, a, t, n).balance = AddBalance(e, a, t, n).balance
  <1> DEFINE bal == [d.balance EXCEPT ![a] = [d.balance[a] EXCEPT ![t] = d.balance[a][t] + n]]
  <1>1. AddBalance(d, a, t, n) = [d EXCEPT !.balance = bal]
        /\ AddBalance(e, a, t, n) = [e EXCEPT !.balance = bal]
    BY DEF AddBalance
  <1> HIDE DEF bal
  <1> QED
    BY <1>1 DEF Dbs

(* Crediting nothing changes nothing. *)
LEMMA AddNothing ==
  ASSUME NEW d \in Dbs, NEW a \in Addr, NEW t \in Token
  PROVE  AddBalance(d, a, t, 0) = d
  <1> DEFINE bal == [d.balance EXCEPT ![a] = [d.balance[a] EXCEPT ![t] = d.balance[a][t] + 0]]
  <1>1. d.balance \in [Addr -> [Token -> Int]] /\ d.balance[a] \in [Token -> Int]
    BY DEF Dbs
  <1>2. [d.balance[a] EXCEPT ![t] = d.balance[a][t] + 0] = d.balance[a]
    BY <1>1
  <1>3. bal = d.balance
    BY <1>1, <1>2
  <1> HIDE DEF bal
  <1>4. [d EXCEPT !.balance = bal] = d
    BY <1>3 DEF Dbs
  <1> QED
    BY <1>4 DEF AddBalance, bal

(* Creating an account yields a database that differs in who exists. *)
LEMMA CreateAccountParts ==
  ASSUME NEW d \in Dbs, NEW a \in Addr
  PROVE  /\ CreateAccount(d, a) \in Dbs
         /\ CreateAccount(d, a).live = d.live \cup {a}
         /\ CreateAccount(d, a).balance = d.balance
         /\ CreateAccount(d, a).code = d.code
         /\ CreateAccount(d, a).slot = d.slot
  BY DEF CreateAccount, Dbs

(* Setting code and setting storage change nothing else. *)
LEMMA SetContractCodeParts ==
  ASSUME NEW d \in Dbs, NEW a \in Addr, NEW n \in Nat
  PROVE  /\ SetContractCode(d, a, n) \in Dbs
         /\ SetContractCode(d, a, n).live = d.live
         /\ SetContractCode(d, a, n).balance = d.balance
         /\ SetContractCode(d, a, n).code = [d.code EXCEPT ![a] = n]
         /\ SetContractCode(d, a, n).slot = d.slot
  BY DEF SetContractCode, Dbs

(* What SetState changes. *)
LEMMA SetStateParts ==
  ASSUME NEW d \in Dbs, NEW a \in Addr, NEW v \in Word
  PROVE  /\ SetState(d, a, v) \in Dbs
         /\ SetState(d, a, v).live = d.live
         /\ SetState(d, a, v).balance = d.balance
         /\ SetState(d, a, v).code = d.code
         /\ SetState(d, a, v).slot = [d.slot EXCEPT ![a] = v]
  BY DEF SetState, Dbs

(* Deleting an account empties it. *)
LEMMA DeleteAccountParts ==
  ASSUME NEW d \in Dbs, NEW a \in Addr
  PROVE  /\ DeleteAccount(d, a) \in Dbs
         /\ DeleteAccount(d, a).live = d.live \ {a}
         /\ DeleteAccount(d, a).balance = [d.balance EXCEPT ![a] = NoTokens]
         /\ DeleteAccount(d, a).code = [d.code EXCEPT ![a] = 0]
         /\ DeleteAccount(d, a).slot = [d.slot EXCEPT ![a] = 0]
  <1>1. DeleteAccount(d, a) =
          [live    |-> d.live \ {a},
           balance |-> [d.balance EXCEPT ![a] = NoTokens],
           code    |-> [d.code EXCEPT ![a] = 0],
           slot    |-> [d.slot EXCEPT ![a] = 0]]
    BY DEF DeleteAccount, Dbs
  <1>2. [d.balance EXCEPT ![a] = NoTokens] \in [Addr -> [Token -> Int]]
    BY DEF Dbs, NoTokens
  <1>3. [d.code EXCEPT ![a] = 0] \in [Addr -> Nat]
    BY DEF Dbs
  <1>4. [d.slot EXCEPT ![a] = 0] \in [Addr -> Word]
    BY WordAssumption DEF Dbs
  <1>5. d.live \ {a} \in SUBSET Addr
    BY DEF Dbs
  <1> QED
    BY <1>1, <1>2, <1>3, <1>4, <1>5 DEF Dbs

(* Restoring the one value where two functions differ makes them equal. *)
LEMMA ExceptRestores ==
  ASSUME NEW S, NEW T, NEW f \in [S -> T], NEW g \in [S -> T], NEW a \in S,
         \A b \in S \ {a} : f[b] = g[b]
  PROVE  [f EXCEPT ![a] = g[a]] = g
  <1>1. [f EXCEPT ![a] = g[a]] \in [S -> T]
    OBVIOUS
  <1>2. \A b \in S : [f EXCEPT ![a] = g[a]][b] = g[b]
    OBVIOUS
  <1> QED
    BY <1>1, <1>2

(* A new account that is deleted again leaves no trace, whatever was       *)
(* credited to it, stored in it, or installed as its code in between.      *)
LEMMA DeleteUndoesCreate ==
  ASSUME NEW d \in Dbs, NEW e \in Dbs, NEW a \in Addr \ e.live,
         WellFormed(e),
         d.live = e.live \cup {a},
         \A b \in Addr \ {a} : /\ d.balance[b] = e.balance[b]
                               /\ d.code[b] = e.code[b]
                               /\ d.slot[b] = e.slot[b]
  PROVE  DeleteAccount(d, a) = e
  <1> DEFINE f == DeleteAccount(d, a)
  <1>1. e.balance[a] = NoTokens /\ e.code[a] = 0 /\ e.slot[a] = 0
    BY DEF WellFormed
  <1>0. /\ f \in Dbs
        /\ f.live = d.live \ {a}
        /\ f.balance = [d.balance EXCEPT ![a] = NoTokens]
        /\ f.code = [d.code EXCEPT ![a] = 0]
        /\ f.slot = [d.slot EXCEPT ![a] = 0]
    <2>1. a \in Addr
      OBVIOUS
    <2> QED
      BY <2>1, DeleteAccountParts
  <1> HIDE DEF f
  <1>2. f.live = e.live
    BY <1>0
  <1>6. /\ d.balance \in [Addr -> [Token -> Int]] /\ e.balance \in [Addr -> [Token -> Int]]
        /\ d.code \in [Addr -> Nat] /\ e.code \in [Addr -> Nat]
        /\ d.slot \in [Addr -> Word] /\ e.slot \in [Addr -> Word]
    BY DEF Dbs
  <1>3. f.balance = e.balance
    <2>1. [d.balance EXCEPT ![a] = e.balance[a]] = e.balance
      BY <1>6, ExceptRestores
    <2> QED
      BY <1>0, <1>1, <2>1
  <1>4. f.code = e.code
    <2>1. [d.code EXCEPT ![a] = e.code[a]] = e.code
      BY <1>6, ExceptRestores
    <2> QED
      BY <1>0, <1>1, <2>1
  <1>5. f.slot = e.slot
    <2>1. [d.slot EXCEPT ![a] = e.slot[a]] = e.slot
      BY <1>6, ExceptRestores
    <2> QED
      BY <1>0, <1>1, <2>1
  <1>7. f = e
    BY <1>0, <1>2, <1>3, <1>4, <1>5, DbExtensional
  <1> QED
    BY <1>7 DEF f

-----------------------------------------------------------------------------
(* The type invariant.  Reverting is typed only because revert ids stay    *)
(* within the snapshots, so FramesInv goes with it.                        *)

(* The price of a transaction is a number. *)
LEMMA IntrinsicGasType ==
  ASSUME tx \in Transaction  PROVE IntrinsicGas \in Nat
  <1>1. tx.nonZeros \in Nat /\ tx.zeros \in Nat
    BY DEF Transaction
  <1>2. tx.nonZeros * TxDataNonZeroGas \in Nat
    BY <1>1, GasAssumption
  <1>3. tx.zeros * TxDataZeroGas \in Nat
    BY <1>1, GasAssumption
  <1>4. BaseGas \in Nat
    BY GasAssumption DEF BaseGas
  <1> QED
    BY <1>2, <1>3, <1>4 DEF IntrinsicGas

(* What is charged is a number, the uint64 difference never wraps. *)
LEMMA QuotaUsedType ==
  ASSUME NEW left \in 0..QuotaInit, NEW rtn \in Nat
  PROVE  QuotaUsed(left, rtn) \in Nat
  <1>1. QuotaInit - left \in Nat
    BY GasAssumption
  <1>2. (QuotaInit - left) \div 2 \in Nat
    BY <1>1
  <1> QED
    BY <1>1, <1>2 DEF QuotaUsed

(* Prices of SSTORE, and what it earns. *)
LEMMA SStoreTypes ==
  ASSUME NEW old \in Word, NEW new \in Word
  PROVE  SStoreGas(old, new) \in Nat \ {0} /\ SStoreReturn(old, new) \in Nat
  BY GasAssumption DEF SStoreGas, SStoreReturn

(* A refund is a list of refunds. *)
LEMMA RefundFromType ==
  ASSUME TypeOK, NEW a \in Addr
  PROVE  /\ Append(txs, RefundBy(a)) \in Seq(Refund)
         /\ RefundFrom(a) \in Seq(Refund)
  <1>1. RefundBy(a) \in Refund
    BY DEF RefundBy, Refund, TypeOK, Transaction
  <1>2. txs \in Seq(Refund)
    BY DEF TypeOK
  <1>3. Append(txs, RefundBy(a)) \in Seq(Refund)
    BY <1>1, <1>2
  <1> QED
    BY <1>2, <1>3 DEF RefundFrom

(* While code runs there is an innermost frame, and its revert point is a  *)
(* database.                                                               *)
LEMMA FrameType ==
  ASSUME TypeOK, FramesInv, Running
  PROVE  /\ Len(frames) \in Nat \ {0} /\ Len(snapshots) \in Nat \ {0}
         /\ Frame.addr \in Addr /\ Callee \in Addr
         /\ Frame.snapshot \in 1..Len(snapshots)
         /\ snapshots[Frame.snapshot] \in Dbs
         /\ SubSeq(snapshots, 1, Frame.snapshot - 1) \in Seq(Dbs)
         /\ Len(SubSeq(snapshots, 1, Frame.snapshot - 1)) = Frame.snapshot - 1
  <1>1. frames \in Seq([addr : Addr, snapshot : Nat \ {0}]) /\ snapshots \in Seq(Dbs)
    BY DEF TypeOK
  <1>2. Len(frames) \in Nat \ {0} /\ Len(snapshots) \in Nat \ {0}
    BY <1>1, EmptySeq DEF FramesInv
  <1>3. Len(frames) \in DOMAIN frames /\ 1 \in DOMAIN frames
    BY <1>1, <1>2
  <1>4. Frame \in [addr : Addr, snapshot : Nat \ {0}]
        /\ frames[1] \in [addr : Addr, snapshot : Nat \ {0}]
    <2> DEFINE F == [addr : Addr, snapshot : Nat \ {0}]
    <2>1. frames \in Seq(F)
      BY <1>1
    <2> HIDE DEF F
    <2>2. 1 \in 1..Len(frames) /\ Len(frames) \in 1..Len(frames)
      BY <1>2
    <2>3. frames[1] \in F /\ frames[Len(frames)] \in F
      BY <2>1, <2>2, ElementOfSeq
    <2> QED
      BY <2>3 DEF F, Frame
  <1>5. Frame.snapshot \in 1..Len(snapshots)
    <2>1. Frame.snapshot <= Len(snapshots)
      BY <1>3 DEF FramesInv, Frame
    <2>2. Frame.snapshot \in Nat \ {0}
      BY <1>4
    <2> QED
      BY <1>2, <2>1, <2>2
  <1>6. \A i \in 1..(Frame.snapshot - 1) : snapshots[i] \in Dbs
    BY <1>1, <1>2, <1>5, ElementOfSeq
  <1>7. /\ SubSeq(snapshots, 1, Frame.snapshot - 1) \in Seq(Dbs)
        /\ Len(SubSeq(snapshots, 1, Frame.snapshot - 1)) = Frame.snapshot - 1
    <2> DEFINE n == Frame.snapshot - 1
    <2>1. n \in Nat /\ 1 \in Int /\ n \in Int
      BY <1>2, <1>5
    <2> HIDE DEF n
    <2>2. \A i \in 1..n : snapshots[i] \in Dbs
      BY <1>6 DEF n
    <2>3. /\ SubSeq(snapshots, 1, n) \in Seq(Dbs)
          /\ Len(SubSeq(snapshots, 1, n)) = IF 1 <= n THEN n - 1 + 1 ELSE 0
      BY <2>1, <2>2, SubSeqProperties
    <2>4. Len(SubSeq(snapshots, 1, n)) = n
      BY <2>1, <2>3
    <2> QED
      BY <2>3, <2>4 DEF n
  <1>8. snapshots[Frame.snapshot] \in Dbs
    BY <1>1, <1>5, ElementOfSeq
  <1> QED
    BY <1>2, <1>4, <1>5, <1>7, <1>8 DEF Callee

(* What the parts that actions share do to the variables. *)

(* Taking a snapshot adds one at the end. *)
LEMMA SnapshotParts ==
  ASSUME TypeOK, NEW d \in Dbs, Snapshot(d)
  PROVE  /\ snapshots' \in Seq(Dbs) /\ Len(snapshots) \in Nat
         /\ Len(snapshots') = Len(snapshots) + 1
         /\ \A i \in 1..Len(snapshots) : snapshots'[i] = snapshots[i]
         /\ snapshots'[Len(snapshots) + 1] = d
  <1>1. snapshots \in Seq(Dbs)
    BY DEF TypeOK
  <1>2. snapshots' = Append(snapshots, d)
    BY DEF Snapshot
  <1> QED
    BY <1>1, <1>2

(* Entering a run adds its frame. *)
LEMMA EnterRunParts ==
  ASSUME TypeOK, NEW a \in Addr, NEW id \in Nat \ {0}, NEW len \in Nat,
         EnterRun(a, id, len)
  PROVE  /\ frames' \in Seq([addr : Addr, snapshot : Nat \ {0}])
         /\ Len(frames) \in Nat
         /\ Len(frames') = Len(frames) + 1
         /\ \A i \in 1..Len(frames) : frames'[i] = frames[i]
         /\ frames'[Len(frames) + 1] = [addr |-> a, snapshot |-> id]
         /\ ret' \in [err : Errors \cup {"none"}, size : Nat]
         /\ phase' = "head" \/ (phase' = "returned" /\ ret'.err = "ok")
  <1> DEFINE F == [addr : Addr, snapshot : Nat \ {0}]
             f == [addr |-> a, snapshot |-> id]
  <1>1. frames \in Seq(F) /\ f \in F
    BY DEF TypeOK
  <1>2. frames' = Append(frames, f)
    BY DEF EnterRun
  <1>3. /\ phase' = "head" \/ (phase' = "returned" /\ ret'.err = "ok")
        /\ ret' \in [err : Errors \cup {"none"}, size : Nat]
    BY DEF EnterRun, None, Errors
  <1> HIDE DEF F, f
  <1>4. /\ frames' \in Seq(F) /\ Len(frames) \in Nat
        /\ Len(frames') = Len(frames) + 1
        /\ \A i \in 1..Len(frames) : frames'[i] = frames[i]
        /\ frames'[Len(frames) + 1] = f
    BY <1>1, <1>2
  <1> QED
    BY <1>3, <1>4 DEF F, f

(* Returning sets the result and keeps what belongs to the transaction. *)
LEMMA ReturnParts ==
  ASSUME NEW err \in Errors, NEW quota \in Nat, NEW addr \in Addr \cup {NoAddr},
         Return(err, quota, addr)
  PROVE  /\ phase' = "done"
         /\ result' \in [err : Errors \cup {"none"}, quota : Nat,
                         addr : Addr \cup {NoAddr}]
         /\ result'.err = err /\ result'.quota = quota /\ result'.addr = addr
         /\ UNCHANGED <<tx, before, abort, frames, ret>>
  BY DEF Return

(* The types of a transaction's fields. *)
LEMMA TxType ==
  ASSUME TypeOK
  PROVE  /\ tx.from \in Addr /\ tx.to \in Addr /\ tx.token \in Token
         /\ tx.amount \in Nat /\ tx.zeros \in Nat /\ tx.nonZeros \in Nat
         /\ tx.depth \in Nat
         /\ tx.op \in {"call", "create"} /\ tx.type \in {"send", "receive"}
  BY DEF TypeOK, Transaction

(* The recipient's account is created when it is missing, then credited. *)
LEMMA CreditTypes ==
  ASSUME TypeOK
  PROVE  /\ Recipient \in Dbs
         /\ AddBalance(Recipient, tx.to, tx.token, tx.amount) \in Dbs
         /\ \A a \in Addr : NewAccount(a) \in Dbs
  <1>1. Recipient \in Dbs
    BY TxType, CreateAccountParts DEF Recipient, TypeOK
  <1>2. \A a \in Addr : CreateAccount(db, a) \in Dbs
    BY CreateAccountParts DEF TypeOK
  <1>3. tx.to \in Addr /\ tx.token \in Token /\ tx.amount \in Int
    BY TxType
  <1>4. \A d \in Dbs, a \in Addr : AddBalance(d, a, tx.token, tx.amount) \in Dbs
    <2> SUFFICES ASSUME NEW d \in Dbs, NEW a \in Addr
                 PROVE  AddBalance(d, a, tx.token, tx.amount) \in Dbs
      OBVIOUS
    <2> QED
      BY <1>3, AddBalanceParts
  <1>5. \A a \in Addr : NewAccount(a) \in Dbs
    BY <1>2, <1>4 DEF NewAccount
  <1> QED
    BY <1>1, <1>3, <1>4, <1>5

TypeInv == TypeOK /\ IdleInv /\ FramesInv

(* The type invariant is kept by the steps of Call and Create up to run. *)
LEMMA StartTypes ==
  ASSUME TypeInv, VmStart
  PROVE  TypeInv'
  <1> USE DEF TypeInv
  <1>1. /\ IntrinsicGas \in Nat /\ QuotaInit \in Nat
        /\ IntrinsicGas <= QuotaInit =>
             /\ QuotaInit - IntrinsicGas \in 0..QuotaInit
             /\ QuotaUsed(QuotaInit - IntrinsicGas, quotaReturn) \in Nat
    <2>1. IntrinsicGas \in Nat /\ QuotaInit \in Nat
      BY IntrinsicGasType, GasAssumption DEF TypeOK
    <2>2. IntrinsicGas <= QuotaInit => QuotaInit - IntrinsicGas \in 0..QuotaInit
      BY <2>1
    <2> QED
      BY <2>1, <2>2, QuotaUsedType DEF TypeOK
  <1>2. 0 \in Nat /\ NoAddr \in Addr \cup {NoAddr} /\ QuotaInit \in 0..QuotaInit
    BY <1>1
  <1>3. /\ "ok" \in Errors /\ "gasUintOverflow" \in Errors
        /\ "outOfQuota" \in Errors /\ "insufficientBalance" \in Errors
        /\ "collision" \in Errors /\ "depth" \in Errors
    BY DEF Errors
  <1>A. CASE RejectOverflow \/ RejectOutOfQuota
    <2>1. /\ phase' = "done" /\ quotaLeft' = QuotaInit
          /\ result' \in [err : Errors \cup {"none"}, quota : Nat,
                         addr : Addr \cup {NoAddr}]
          /\ UNCHANGED <<tx, before, abort, frames, ret, dbVars, quotaReturn,
                         outVars, amtVars>>
      BY <1>A, <1>2, <1>3, ReturnParts DEF RejectOverflow, RejectOutOfQuota
    <2>2. TypeOK'
      BY <1>2, <2>1 DEF TypeOK, dbVars, outVars, amtVars
    <2> QED
      BY <2>1, <2>2 DEF IdleInv, FramesInv, Running
  <1>B. CASE SendRefused \/ Send \/ CreateCollision
    <2>1. /\ phase' = "done" /\ quotaLeft' \in 0..QuotaInit
          /\ result' \in [err : Errors \cup {"none"}, quota : Nat,
                         addr : Addr \cup {NoAddr}]
          /\ UNCHANGED <<tx, before, abort, frames, ret, snapshots, quotaReturn,
                         outVars, amtVars>>
      BY <1>B, <1>1, <1>2, <1>3, ReturnParts
      DEF SendRefused, Send, CreateCollision, Enter, dbVars
    <2>2. db' \in Dbs
      <3>1. CASE Send
        <4>1. Vite \in Token /\ Fee \in Int
          BY TokenAssumption DEF Fee, CreateFee
        <4>2. SubBalance(db, tx.from, tx.token, tx.amount) \in Dbs
          <5>1. /\ tx.from \in Addr /\ tx.token \in Token
                /\ tx.amount \in Int /\ db \in Dbs
            BY TxType DEF TypeOK
          <5> QED
            BY <5>1, SubBalanceParts
        <4> QED
          BY <3>1, <4>1, <4>2, TxType, SubBalanceParts DEF Send
      <3>2. CASE SendRefused \/ CreateCollision
        BY <3>2 DEF SendRefused, CreateCollision, dbVars, TypeOK
      <3> QED
        BY <1>B, <3>1, <3>2
    <2>3. TypeOK'
      BY <2>1, <2>2 DEF TypeOK, outVars, amtVars
    <2> QED
      BY <2>1, <2>3 DEF IdleInv, FramesInv, Running
  <1>C. CASE ReceiveTransfer \/ ReceiveTooDeep
    <2>1. /\ phase' = "done" /\ quotaLeft' \in 0..QuotaInit
          /\ result' \in [err : Errors \cup {"none"}, quota : Nat,
                         addr : Addr \cup {NoAddr}]
          /\ UNCHANGED <<tx, before, abort, frames, ret, quotaReturn,
                         outVars, amtVars>>
      BY <1>C, <1>1, <1>2, <1>3, ReturnParts
      DEF ReceiveTransfer, ReceiveTooDeep, Credit, Enter
    <2>2. db' \in Dbs /\ snapshots' \in Seq(Dbs)
      BY <1>C, CreditTypes, SnapshotParts
      DEF ReceiveTransfer, ReceiveTooDeep, Credit
    <2>3. TypeOK'
      BY <2>1, <2>2 DEF TypeOK, outVars, amtVars
    <2> QED
      BY <2>1, <2>3 DEF IdleInv, FramesInv, Running
  <1>D. ASSUME NEW a \in Addr, CreateTooDeep(a) PROVE TypeInv'
    <2>1. /\ phase' = "done" /\ quotaLeft' \in 0..QuotaInit
          /\ result' \in [err : Errors \cup {"none"}, quota : Nat,
                         addr : Addr \cup {NoAddr}]
          /\ UNCHANGED <<tx, before, abort, frames, ret, quotaReturn, logs,
                         amtVars>>
      BY <1>D, <1>1, <1>2, <1>3, ReturnParts
      DEF CreateTooDeep, CreateContract, Enter
    <2>2. db' \in Dbs /\ snapshots' \in Seq(Dbs)
      BY <1>D, CreditTypes, SnapshotParts, DeleteAccountParts
      DEF CreateTooDeep, CreateContract, TypeOK
    <2>3. txs' \in Seq(Refund)
      BY <1>D, RefundFromType DEF CreateTooDeep
    <2>4. TypeOK'
      BY <2>1, <2>2, <2>3 DEF TypeOK, amtVars
    <2> QED
      BY <2>1, <2>4 DEF IdleInv, FramesInv, Running
  <1>E. ASSUME NEW a \in Addr, NEW d \in Dbs, NEW e \in Dbs, NEW len \in Nat,
               phase = "idle",
               Snapshot(d), db' = e, EnterRun(a, Len(snapshots'), len),
               IntrinsicGas <= QuotaInit, quotaLeft' = QuotaInit - IntrinsicGas,
               UNCHANGED <<tx, before, abort, quotaReturn, outVars, amtVars, result>>
        PROVE  TypeInv'
    <2>1. snapshots = <<>> /\ frames = <<>>
      BY <1>E DEF IdleInv
    <2>2. snapshots' \in Seq(Dbs) /\ Len(snapshots') = 1
      BY <1>E, <2>1, SnapshotParts
    <2>3. /\ frames' \in Seq([addr : Addr, snapshot : Nat \ {0}])
          /\ Len(frames') = 1 /\ frames'[1] = [addr |-> a, snapshot |-> 1]
          /\ ret' \in [err : Errors \cup {"none"}, size : Nat]
          /\ phase' \in {"head", "returned"}
      <3>1. EnterRun(a, 1, len) /\ 1 \in Nat \ {0} /\ TypeOK
        BY <1>E, <2>2
      <3>2. Len(frames) = 0
        BY <2>1
      <3>3. /\ frames' \in Seq([addr : Addr, snapshot : Nat \ {0}])
            /\ Len(frames') = 0 + 1 /\ frames'[0 + 1] = [addr |-> a, snapshot |-> 1]
            /\ ret' \in [err : Errors \cup {"none"}, size : Nat]
            /\ phase' \in {"head", "returned"}
        BY <3>1, <3>2, EnterRunParts
      <3> QED
        BY <3>3
    <2>4. TypeOK'
      BY <1>1, <1>E, <2>2, <2>3 DEF TypeOK, outVars, amtVars
    <2>5. FramesInv'
      <3>1. DOMAIN frames' = {1}
        BY <2>3
      <3>2. frames' # <<>> /\ snapshots' # <<>>
        <4>1. Len(<<>>) # 1
          OBVIOUS
        <4>2. Len(frames') = 1 /\ Len(snapshots') = 1
          BY <2>2, <2>3
        <4>3. ASSUME frames' = <<>> PROVE FALSE
          BY ONLY <4>1, <4>2, <4>3
        <4>4. ASSUME snapshots' = <<>> PROVE FALSE
          BY ONLY <4>1, <4>2, <4>4
        <4> QED
          BY <4>3, <4>4
      <3> QED
        BY <2>2, <2>3, <3>1, <3>2 DEF FramesInv
    <2> QED
      BY <2>3, <2>4, <2>5 DEF IdleInv
  <1>F. CASE ReceiveCall
    <2>1. Recipient.code[tx.to] \in Nat
      BY TxType, CreditTypes DEF Dbs
    <2> QED
      BY <1>F, <1>E, <2>1, TxType, CreditTypes DEF ReceiveCall, Credit, Enter
  <1>G. ASSUME NEW a \in Addr, ReceiveCreate(a) PROVE TypeInv'
    <2>0. tx.zeros \in Nat /\ tx.nonZeros \in Nat
      BY TxType
    <2>1. tx.zeros + tx.nonZeros \in Nat
      BY <2>0
    <2>2. db \in Dbs /\ NewAccount(a) \in Dbs
      BY CreditTypes DEF TypeOK
    <2> QED
      BY <1>G, <1>E, <2>1, <2>2 DEF ReceiveCreate, CreateContract, Enter
  <1> QED
    BY <1>A, <1>B, <1>C, <1>D, <1>F, <1>G DEF VmStart

(* The innermost run returns. *)
LEMMA RunReturnsParts ==
  ASSUME NEW err \in Errors, NEW size \in Nat, RunReturns(err, size)
  PROVE  /\ phase' = "returned" /\ ret'.err = err /\ ret'.size = size
         /\ ret' \in [err : Errors \cup {"none"}, size : Nat]
         /\ amount' = amount /\ shared' \in {shared, "others"}
         /\ shared' = "others" => shared # "no"
  BY DEF RunReturns

(* Paying a price leaves a uint64. *)
LEMMA UseQuotaParts ==
  ASSUME TypeOK, NEW g \in Nat, UseQuota(g)
  PROVE  quotaLeft' \in 0..QuotaInit /\ quotaLeft' = quotaLeft - g
  BY GasAssumption DEF TypeOK, UseQuota

(* Prices are numbers. *)
LEMMA Prices ==
  /\ \A g \in StepGas : g \in Nat
  /\ \A g \in HaltGas : g \in Nat
  BY GasAssumption

(* Steps of the loop that only compute, log, or touch the Amount. *)
QuietExec ==
  \/ Aborted \/ Fetch \/ ExecInvalid \/ ExecOutOfQuota \/ ExecPlain \/ ExecLog
  \/ (\E v \in Word : ExecSStoreOutOfQuota(v))
  \/ ExecCallValue \/ (\E n \in Amounts : ExecWriteAmount(n))
  \/ ExecError \/ ExecHalt \/ ExecRevert

(* They leave the database, its revert points and the frames alone. *)
LEMMA QuietTypes ==
  ASSUME TypeInv, QuietExec
  PROVE  /\ TypeInv' /\ Running /\ Running'
         /\ UNCHANGED <<tx, before, abort, frames, dbVars, result>>
         /\ txs' \in {txs, <<>>}
  <1> USE DEF TypeInv
  <1>1. "ok" \in Errors /\ "invalid" \in Errors /\ "outOfQuota" \in Errors
        /\ "execution" \in Errors /\ "reverted" \in Errors /\ 0 \in Nat
    BY DEF Errors
  <1>2. UNCHANGED <<tx, before, abort, frames, dbVars, result>>
    BY DEF QuietExec, Aborted, Fetch, ExecInvalid, ExecOutOfQuota, ExecPlain,
           ExecLog, ExecSStoreOutOfQuota, ExecCallValue, ExecWriteAmount,
           ExecError, ExecHalt, ExecRevert, Executing, Continue
  <1>3. phase \in {"head", "exec"} /\ phase' \in {"head", "exec", "returned"}
    BY DEF QuietExec, Aborted, Fetch, ExecInvalid, ExecOutOfQuota, ExecPlain,
           ExecLog, ExecSStoreOutOfQuota, ExecCallValue, ExecWriteAmount,
           ExecError, ExecHalt, ExecRevert, Executing, Continue, RunReturns
  <1>4. txs' \in {txs, <<>>} /\ logs' \in Seq(Addr)
    <2>1. CASE ExecLog
      <3>1. Frame.addr \in Addr
        BY <1>3, FrameType DEF Running
      <3> QED
        BY <2>1, <3>1 DEF ExecLog, TypeOK
    <2>2. CASE ~ExecLog
      <3>1. <<>> \in Seq(Addr)
        BY EmptySeq
      <3> QED
        BY <2>2, <3>1 DEF QuietExec, Aborted, Fetch, ExecInvalid, ExecOutOfQuota,
           ExecPlain, ExecSStoreOutOfQuota, ExecCallValue, ExecWriteAmount,
             ExecError, ExecHalt, ExecRevert, outVars, ClearEffects, TypeOK
    <2> QED
      BY <2>1, <2>2
  <1>5. quotaLeft' \in 0..QuotaInit
    BY Prices, UseQuotaParts
    DEF QuietExec, Aborted, Fetch, ExecInvalid, ExecOutOfQuota, ExecPlain,
        ExecLog, ExecSStoreOutOfQuota, ExecCallValue, ExecWriteAmount,
        ExecError, ExecHalt, ExecRevert, quotaVars, TypeOK
  <1>6. quotaReturn' \in Nat
    <2>1. CASE \E v \in Word : ExecSStoreOutOfQuota(v)
      <3>1. Frame.addr \in Addr
        BY <1>3, FrameType DEF Running
      <3>2. db.slot[Frame.addr] \in Word
        BY <3>1 DEF TypeOK, Dbs
      <3>3. PICK v \in Word :
              quotaReturn' = quotaReturn + SStoreReturn(db.slot[Frame.addr], v)
        BY ONLY <2>1 DEF ExecSStoreOutOfQuota
      <3>4. SStoreReturn(db.slot[Frame.addr], v) \in Nat
        BY ONLY <3>2, SStoreTypes
      <3>5. quotaReturn \in Nat
        BY DEF TypeOK
      <3> QED
        BY ONLY <3>3, <3>4, <3>5
    <2>2. CASE ~(\E v \in Word : ExecSStoreOutOfQuota(v))
      BY <2>2 DEF QuietExec, Aborted, Fetch, ExecInvalid, ExecOutOfQuota,
           ExecPlain, ExecLog, ExecCallValue, ExecWriteAmount, ExecError,
           ExecHalt, ExecRevert, quotaVars, ClearEffects, TypeOK
    <2> QED
      BY <2>1, <2>2
  <1>7. amount' \in Int /\ shared' \in {"no", "code", "others"}
    BY RunAssumption
    DEF RunReturns, QuietExec, Aborted, Fetch, ExecInvalid, ExecOutOfQuota, ExecPlain,
        ExecLog, ExecSStoreOutOfQuota, ExecCallValue, ExecWriteAmount,
        ExecError, ExecHalt, ExecRevert, amtVars, TypeOK
  <1>8. ret' \in [err : Errors \cup {"none"}, size : Nat]
    BY <1>1, RunAssumption, RunReturnsParts
    DEF QuietExec, Aborted, Fetch, ExecInvalid, ExecOutOfQuota, ExecPlain,
        ExecLog, ExecSStoreOutOfQuota, ExecCallValue, ExecWriteAmount,
        ExecError, ExecHalt, ExecRevert, Continue, TypeOK
  <1>9. TypeOK'
    <2>1. txs' \in Seq(Refund)
      <3>1. <<>> \in Seq(Refund)
        BY EmptySeq
      <3> QED
        BY <1>4, <3>1 DEF TypeOK
    <2> QED
      BY <1>2, <1>3, <1>4, <1>5, <1>6, <1>7, <1>8, <2>1 DEF TypeOK, dbVars
  <1>10. Running /\ Running'
    BY <1>3 DEF Running
  <1>11. FramesInv' /\ IdleInv'
    BY <1>2, <1>3, <1>10 DEF FramesInv, IdleInv, dbVars
  <1> QED
    BY <1>2, <1>4, <1>9, <1>10, <1>11

(* The type invariant is kept by the steps that store or delegate. *)
LEMMA StoreTypes ==
  ASSUME TypeInv, NEW v \in Word, ExecSStore(v)
  PROVE  TypeInv'
  <1> USE DEF TypeInv
  <1>1. Running /\ Frame.addr \in Addr
    BY FrameType DEF ExecSStore, Executing, Running
  <1>2. db.slot[Frame.addr] \in Word
    BY <1>1 DEF TypeOK, Dbs
  <1>3. quotaReturn' \in Nat
    <2>1. quotaReturn' = quotaReturn + SStoreReturn(db.slot[Frame.addr], v)
      BY ONLY ExecSStore(v) DEF ExecSStore
    <2>2. SStoreReturn(db.slot[Frame.addr], v) \in Nat
      BY ONLY <1>2, v \in Word, SStoreTypes
    <2>3. quotaReturn \in Nat
      BY DEF TypeOK
    <2> QED
      BY ONLY <2>1, <2>2, <2>3
  <1>4. quotaLeft' \in 0..QuotaInit
    BY <1>2, SStoreTypes, UseQuotaParts DEF ExecSStore
  <1>5. db' \in Dbs
    BY <1>1, SetStateParts DEF ExecSStore, TypeOK
  <1>6. /\ phase' = "head"
        /\ UNCHANGED <<tx, before, abort, frames, ret, snapshots, outVars,
                       amtVars, result>>
    BY DEF ExecSStore, Executing, Continue
  <1>7. TypeOK'
    BY <1>3, <1>4, <1>5, <1>6 DEF TypeOK, outVars, amtVars
  <1> QED
    BY <1>1, <1>6, <1>7 DEF IdleInv, FramesInv, Running

(* A DELEGATECALL keeps the types. *)
LEMMA DelegateTypes ==
  ASSUME TypeInv, NEW a \in Addr, ExecDelegateEmpty(a) \/ ExecDelegate(a)
  PROVE  TypeInv'
  <1> USE DEF TypeInv
  <1>1. /\ Running /\ frames # <<>> /\ snapshots # <<>>
        /\ \A i \in DOMAIN frames : frames[i].snapshot <= Len(snapshots)
    BY DEF ExecDelegateEmpty, ExecDelegate, Executing, Running, FramesInv
  <1>2. quotaLeft' \in 0..QuotaInit
    BY Prices, UseQuotaParts DEF ExecDelegateEmpty, ExecDelegate
  <1>3. /\ snapshots' \in Seq(Dbs) /\ Len(snapshots) \in Nat
        /\ Len(snapshots') = Len(snapshots) + 1
    BY SnapshotParts DEF ExecDelegateEmpty, ExecDelegate, TypeOK
  <1>4. UNCHANGED <<tx, before, abort, db, quotaReturn, outVars, amtVars, result>>
    BY DEF ExecDelegateEmpty, ExecDelegate, Executing
  <1>5. snapshots' # <<>>
    <2>1. Len(<<>>) = 0
      OBVIOUS
    <2> QED
      BY <1>3, <2>1
  <1>6. CASE ExecDelegateEmpty(a)
    <2>1. phase' = "head" /\ UNCHANGED <<frames, ret>>
      BY <1>6 DEF ExecDelegateEmpty, Continue
    <2>2. TypeOK'
      BY <1>2, <1>3, <1>4, <2>1 DEF TypeOK, outVars, amtVars
    <2>3. \A i \in DOMAIN frames : frames[i].snapshot \in Nat
      <3> DEFINE F == [addr : Addr, snapshot : Nat \ {0}]
      <3>1. frames \in Seq(F)
        BY DEF TypeOK
      <3> HIDE DEF F
      <3>2. \A i \in DOMAIN frames : frames[i] \in F
        BY <3>1, ElementOfSeq, LenProperties
      <3> QED
        BY <3>2 DEF F
    <2>4. FramesInv'
      BY <1>1, <1>3, <1>5, <2>1, <2>3 DEF FramesInv
    <2> QED
      BY <2>1, <2>2, <2>4 DEF IdleInv
  <1>7. CASE ExecDelegate(a)
    <2>1. /\ EnterRun(tx.to, Len(snapshots'), db.code[a])
          /\ tx.to \in Addr /\ db.code[a] \in Nat /\ Len(snapshots') \in Nat \ {0}
      <3>1. EnterRun(tx.to, Len(snapshots'), db.code[a])
        BY <1>7 DEF ExecDelegate
      <3>2. tx.to \in Addr
        BY TxType
      <3>3. db.code \in [Addr -> Nat]
        BY DEF TypeOK, Dbs
      <3>4. db.code[a] \in Nat
        BY <3>3
      <3>5. Len(snapshots') \in Nat \ {0}
        BY <1>3
      <3> QED
        BY <3>1, <3>2, <3>4, <3>5
    <2>2. /\ frames' \in Seq([addr : Addr, snapshot : Nat \ {0}])
          /\ Len(frames) \in Nat
          /\ Len(frames') = Len(frames) + 1
          /\ \A i \in 1..Len(frames) : frames'[i] = frames[i]
          /\ frames'[Len(frames) + 1] = [addr |-> tx.to, snapshot |-> Len(snapshots')]
          /\ ret' \in [err : Errors \cup {"none"}, size : Nat]
          /\ phase' \in {"head", "returned"}
      BY <2>1, EnterRunParts
    <2>3. TypeOK'
      BY <1>2, <1>3, <1>4, <2>2 DEF TypeOK, outVars, amtVars
    <2>4. \A i \in 1..Len(frames) : frames[i].snapshot \in Nat
                                    /\ frames[i].snapshot <= Len(snapshots)
      <3> DEFINE F == [addr : Addr, snapshot : Nat \ {0}]
      <3>1. frames \in Seq(F)
        BY DEF TypeOK
      <3> HIDE DEF F
      <3>2. \A i \in 1..Len(frames) : frames[i] \in F /\ i \in DOMAIN frames
        BY <3>1, ElementOfSeq, LenProperties
      <3> QED
        BY <1>1, <3>2 DEF F
    <2>5. \A i \in 1..Len(frames') : frames'[i].snapshot <= Len(snapshots')
      <3>1. \A i \in 1..Len(frames') : i \in 1..Len(frames) \/ i = Len(frames) + 1
        BY <2>2
      <3>2. \A i \in 1..Len(frames) : frames'[i].snapshot <= Len(snapshots')
        <4>1. Len(snapshots') = Len(snapshots) + 1 /\ Len(snapshots) \in Nat
          BY <1>3
        <4> SUFFICES ASSUME NEW i \in 1..Len(frames)
                     PROVE  frames'[i].snapshot <= Len(snapshots')
          OBVIOUS
        <4>2. frames'[i] = frames[i]
          BY <2>2
        <4>3. frames[i].snapshot \in Nat /\ frames[i].snapshot <= Len(snapshots)
          BY <2>4
        <4> QED
          BY ONLY <4>1, <4>2, <4>3
      <3>3. frames'[Len(frames) + 1].snapshot <= Len(snapshots')
        BY <1>3, <2>2
      <3> QED
        BY <3>1, <3>2, <3>3
    <2>6. frames' # <<>> /\ DOMAIN frames' = 1..Len(frames')
      <3>1. Len(<<>>) = 0 /\ Len(frames') # 0
        BY <2>2
      <3> QED
        BY <2>2, <3>1, LenProperties
    <2>7. FramesInv'
      BY <1>5, <2>5, <2>6 DEF FramesInv
    <2> QED
      BY <2>2, <2>3, <2>7 DEF IdleInv
  <1> QED
    BY <1>6, <1>7

(* What follows directly on the return of run. *)
AfterRun ==
  \/ NestedReturn \/ CallSucceeds \/ CallOutOfQuota \/ CallFails \/ CallOwes
  \/ CreateSucceeds \/ CreateOutOfQuota \/ CreateFails

(* The type invariant is kept when run has returned. *)
LEMMA FinishTypes ==
  ASSUME TypeInv, AfterRun
  PROVE  TypeInv' /\ phase' \in {"done", "panic", "refund"} /\ Running
         /\ UNCHANGED <<tx, before, abort, frames, logs, amtVars>>
  <1> USE DEF TypeInv
  <1>1. Running /\ phase = "returned"
    BY DEF AfterRun, NestedReturn, CallSucceeds, CallOutOfQuota, CallFails,
           CallOwes, CallReverts,
           CreateSucceeds, CreateOutOfQuota, CreateFails, Finish, Running
  <1>2. /\ Frame.addr \in Addr /\ snapshots[Frame.snapshot] \in Dbs
        /\ SubSeq(snapshots, 1, Frame.snapshot - 1) \in Seq(Dbs)
    BY <1>1, FrameType
  <1>3. /\ phase' \in {"done", "panic", "refund"}
        /\ UNCHANGED <<tx, before, abort, frames, ret, logs, amtVars>>
    BY DEF AfterRun, NestedReturn, CallSucceeds, CallOutOfQuota, CallFails,
           CallOwes, CallReverts,
           CreateSucceeds, CreateOutOfQuota, CreateFails, Return, outVars
  <1>4. ret.err \in Errors \cup {"none"} /\ ret.size \in Nat
    BY DEF TypeOK
  <1>5. snapshots' \in Seq(Dbs)
    BY <1>2 DEF AfterRun, NestedReturn, CallSucceeds, CallOutOfQuota, CallFails,
           CallOwes, CallReverts,
           CreateSucceeds, CreateOutOfQuota, CreateFails, dbVars,
           RevertToSnapShot, TypeOK
  <1>6. db' \in Dbs
    <2>2. CASE NestedReturn \/ CallSucceeds \/ CallOutOfQuota \/ CreateOutOfQuota
      BY <1>2, <2>2 DEF NestedReturn, CallSucceeds, CallOutOfQuota,
         CreateOutOfQuota, dbVars, TypeOK
    <2>3. CASE CallFails \/ CallOwes
      BY <1>2, <2>3 DEF CallFails, CallOwes, CallReverts
    <2>4. CASE CreateSucceeds
      BY <1>2, <1>4, <2>4, SetContractCodeParts DEF CreateSucceeds, TypeOK
    <2>5. CASE CreateFails
      BY <1>2, <2>5, DeleteAccountParts DEF CreateFails, TypeOK
    <2> QED
      BY <2>2, <2>3, <2>4, <2>5 DEF AfterRun
  <1>7. txs' \in Seq(Refund)
    <2>1. RefundFrom(Frame.addr) \in Seq(Refund)
      BY <1>2, RefundFromType
    <2> QED
      BY <2>1 DEF CallOwes, CallReverts, AfterRun, NestedReturn, CallSucceeds, CallOutOfQuota,
         CallFails, CreateSucceeds, CreateOutOfQuota, CreateFails, outVars, TypeOK
  <1>8. quotaLeft' \in 0..QuotaInit /\ quotaReturn' = quotaReturn
    <2>1. CodeCost \in Nat
      BY <1>4, GasAssumption DEF CodeCost
    <2> QED
      BY <2>1, UseQuotaParts DEF AfterRun, NestedReturn, CallSucceeds,
         CallOutOfQuota, CallFails, CallOwes, CallReverts, CreateSucceeds, CreateOutOfQuota,
         CreateFails, quotaVars, TypeOK
  <1>9. result' \in [err : Errors \cup {"none"}, quota : Nat,
                     addr : Addr \cup {NoAddr}]
    <2>1. QuotaUsed(quotaLeft, quotaReturn) \in Nat
          /\ QuotaUsed(quotaLeft', quotaReturn) \in Nat /\ QuotaInit \in Nat
      BY <1>8, QuotaUsedType, GasAssumption DEF TypeOK
    <2>2. "ok" \in Errors /\ "outOfQuota" \in Errors
      BY DEF Errors
    <2> QED
      <3>1. CASE NestedReturn \/ CallOwes
        BY <3>1 DEF NestedReturn, CallOwes, TypeOK
      <3>2. CASE CallSucceeds \/ CallOutOfQuota \/ CallFails
        BY <1>2, <1>4, <2>1, <2>2, <3>2
           DEF CallSucceeds, CallOutOfQuota, CallFails, Return
      <3>3. CASE CreateSucceeds \/ CreateOutOfQuota \/ CreateFails
        BY <1>2, <1>4, <2>1, <2>2, <3>3
           DEF CreateSucceeds, CreateOutOfQuota, CreateFails, Return
      <3> QED
        BY <3>1, <3>2, <3>3 DEF AfterRun
  <1>10. TypeOK'
    BY <1>3, <1>5, <1>6, <1>7, <1>8, <1>9 DEF TypeOK, amtVars
  <1>11. FramesInv' /\ IdleInv'
    BY <1>3 DEF FramesInv, IdleInv, Running
  <1> QED
    BY <1>1, <1>3, <1>10, <1>11

(* It is kept when Call credits again and appends the refund. *)
LEMMA CallRefundsTypes ==
  ASSUME TypeInv, CallRefunds
  PROVE  TypeInv'
  <1> USE DEF TypeInv
  <1>1. /\ phase' = "done"
        /\ UNCHANGED <<tx, before, abort, frames, ret, snapshots, quotaVars,
                       logs, amtVars>>
    BY DEF CallRefunds, Return
  <1>2. db' \in Dbs
    <2>1. /\ tx.to \in Addr /\ tx.token \in Token /\ amount \in Int
          /\ db \in Dbs
      BY TxType DEF TypeOK
    <2> QED
      BY <2>1, AddBalanceParts DEF CallRefunds
  <1>3. txs' \in Seq(Refund)
    BY TxType, RefundFromType DEF CallRefunds
  <1>4. result' \in [err : Errors \cup {"none"}, quota : Nat,
                     addr : Addr \cup {NoAddr}]
    BY QuotaUsedType DEF CallRefunds, Return, TypeOK
  <1>5. TypeOK'
    BY <1>1, <1>2, <1>3, <1>4 DEF TypeOK, quotaVars, amtVars
  <1> QED
    BY <1>1, <1>5 DEF FramesInv, IdleInv, Running

(* The type invariant holds in every state. *)
LEMMA TypeInvariant == Spec => []TypeInv
  <1>1. Init => TypeInv
    <2> SUFFICES ASSUME Init PROVE TypeInv
      OBVIOUS
    <2>1. tx \in Transaction /\ db \in Dbs /\ before \in Dbs
      BY TxAssumption, DbAssumption DEF Init
    <2>2. tx.amount \in Int
      BY <2>1 DEF Transaction
    <2>3. /\ <<>> \in Seq(Dbs) /\ <<>> \in Seq(Addr) /\ <<>> \in Seq(Refund)
          /\ <<>> \in Seq([addr : Addr, snapshot : Nat \ {0}])
      BY EmptySeq
    <2>4. 0 \in 0..QuotaInit
      BY GasAssumption
    <2>5. TypeOK
      BY <2>1, <2>2, <2>3, <2>4 DEF Init, TypeOK, None
    <2> QED
      BY <2>5 DEF Init, TypeInv, IdleInv, FramesInv, Running
  <1>2. TypeInv /\ [Next]_vars => TypeInv'
    <2> SUFFICES ASSUME TypeInv, [Next]_vars PROVE TypeInv'
      OBVIOUS
    <2>1. CASE VmStart
      BY <2>1, StartTypes
    <2>2. CASE VmExec
      BY <2>2, QuietTypes, StoreTypes, DelegateTypes DEF VmExec, QuietExec
    <2>3. CASE VmFinish
      BY <2>3, FinishTypes, CallRefundsTypes DEF VmFinish, AfterRun
    <2>6. ASSUME NEW n \in Amounts, OthersWriteAmount(n) PROVE TypeInv'
      BY <2>6, RunAssumption DEF OthersWriteAmount, TypeInv, TypeOK, IdleInv,
         FramesInv, Running, dbVars, quotaVars, outVars
    <2>4. CASE Cancel
      BY <2>4 DEF Cancel, TypeInv, TypeOK, IdleInv, FramesInv, Running, dbVars,
         quotaVars, outVars, amtVars
    <2>5. CASE UNCHANGED vars
      BY <2>5 DEF vars, TypeInv, TypeOK, IdleInv, FramesInv, Running, dbVars,
         quotaVars, outVars, amtVars
    <2> QED
      BY <2>1, <2>2, <2>3, <2>4, <2>5, <2>6 DEF Next, VmStep
  <1> QED
    BY <1>1, <1>2, PTL DEF Spec

(* In every state every variable has its type; in particular quotaLeft, a  *)
(* uint64 in the code, is never taken below zero by useQuota (vm.go:329).  *)
THEOREM TypeCorrect == Spec => []TypeOK
  <1>1. TypeInv => TypeOK
    BY DEF TypeInv
  <1> QED
    BY <1>1, TypeInvariant, PTL

-----------------------------------------------------------------------------
(* While code runs: the database differs from the one handed over only by  *)
(* the credit, the new account, and the storage the code may write; and    *)
(* the first revert point is the database handed over.                     *)

RunningInv == /\ before \in InitDbs /\ AmountInv
              /\ RevertPointIntact /\ RunInv /\ RefundInv

(* What InitDbs promises of the database handed over. *)
LEMMA BeforeParts ==
  ASSUME before \in InitDbs
  PROVE  /\ before \in Dbs /\ WellFormed(before)
         /\ \A a \in Addr, t \in Token : before.balance[a][t] >= 0
  BY DbAssumption

(* Only an account that exists has code. *)
LEMMA CodeIsLive ==
  ASSUME NEW d \in Dbs, WellFormed(d), NEW a \in Addr, d.code[a] # 0
  PROVE  a \in d.live
  BY DEF WellFormed

(* run starts on the credited database, with the one handed over as its    *)
(* revert point.                                                           *)
LEMMA EnterRunning ==
  ASSUME TypeInv, TypeInv', before \in InitDbs, phase = "idle",
         NEW a \in Addr, NEW len \in Nat, NEW d \in Dbs,
         tx.op = "call" => a = tx.to /\ before.code[tx.to] # 0,
         tx.op = "create" => a \notin before.live,
         tx.type = "receive", tx.depth <= CallCreateDepth,
         Snapshot(before), EnterRun(a, Len(snapshots'), len), db' = d,
         d.live = before.live \cup {a}, d.code = before.code,
         d.slot = before.slot,
         d.balance = AddBalance(before, a, tx.token, tx.amount).balance,
         UNCHANGED <<tx, before, txs>>
  PROVE  RevertPointIntact' /\ RunInv'
  <1>1. /\ TypeOK /\ before \in Dbs /\ txs' = <<>>
        /\ snapshots = <<>> /\ frames = <<>> /\ Len(<<>>) = 0
    BY BeforeParts DEF TypeInv, IdleInv
  <1>2. Len(snapshots') = 1 /\ snapshots'[1] = before
    BY <1>1, SnapshotParts
  <1>3. EnterRun(a, 1, len) /\ 1 \in Nat \ {0}
    BY <1>2
  <1>4. /\ frames' \in Seq([addr : Addr, snapshot : Nat \ {0}])
        /\ Len(frames') = 1 /\ frames'[1] = [addr |-> a, snapshot |-> 1]
        /\ phase' = "head" \/ (phase' = "returned" /\ ret'.err = "ok")
    <2>1. Len(frames) = 0
      BY <1>1
    <2>2. /\ frames' \in Seq([addr : Addr, snapshot : Nat \ {0}])
          /\ Len(frames') = 0 + 1 /\ frames'[0 + 1] = [addr |-> a, snapshot |-> 1]
          /\ phase' = "head" \/ (phase' = "returned" /\ ret'.err = "ok")
      BY <1>1, <1>3, <2>1, EnterRunParts
    <2> QED
      BY <2>2
  <1>5. DOMAIN frames' = {1}
    BY <1>4
  <1>6. RevertPointIntact'
    BY <1>2, <1>4, <1>5 DEF RevertPointIntact
  <1>7. Callee' = a /\ Frame'.addr = a
    BY <1>4 DEF Callee, Frame
  <1>8. RunDb(db)'
    BY <1>4, <1>7 DEF RunDb
  <1>9. 2..Len(snapshots') = {}
    BY <1>2
  <1> QED
    BY <1>1, <1>4, <1>5, <1>6, <1>7, <1>8, <1>9 DEF RunInv

(* The steps of Call and Create up to run. *)
LEMMA StartRunning ==
  ASSUME TypeInv, TypeInv', RunningInv, VmStart
  PROVE  RunningInv'
  <1>1. /\ TypeOK /\ before \in InitDbs /\ before \in Dbs /\ WellFormed(before)
        /\ db \in Dbs /\ tx.to \in Addr /\ tx.token \in Token /\ tx.amount \in Int
    <2>1. TypeOK /\ before \in InitDbs
      BY DEF TypeInv, RunningInv
    <2>2. before \in Dbs /\ WellFormed(before)
      BY <2>1, BeforeParts
    <2>3. tx.to \in Addr /\ tx.token \in Token /\ tx.amount \in Int
      BY <2>1, TxType
    <2>4. db \in Dbs
      BY <2>1 DEF TypeOK
    <2> QED
      BY <2>1, <2>2, <2>3, <2>4
  <1>2. /\ phase = "idle" /\ phase' \in {"head", "returned", "done"}
        /\ UNCHANGED <<tx, before, amtVars>>
    BY DEF EnterRun, VmStart, RejectOverflow, RejectOutOfQuota, SendRefused, Send, Enter,
           ReceiveTransfer, ReceiveTooDeep, ReceiveCall, Credit, CreateCollision,
           ReceiveCreate, CreateTooDeep, CreateContract, Return
  <1>3. before' \in InitDbs /\ AmountInv' /\ RefundInv'
    BY <1>2 DEF RunningInv, AmountInv, RefundInv, amtVars
  <1>4. db = before
    BY <1>2 DEF TypeInv, IdleInv
  <1>5. ASSUME phase' = "done" PROVE RunningInv'
    BY <1>3, <1>5 DEF RunningInv, RevertPointIntact, RunInv, Running
  <1>6. ASSUME ReceiveCall PROVE RunningInv'
    <2>1. before.code[tx.to] # 0 /\ Recipient = before
      <3>1. tx.to \notin before.live => Recipient.code = before.code
        <4>1. CreateAccount(before, tx.to).code = before.code
          BY <1>1, CreateAccountParts
        <4> QED
          BY <1>4, <4>1 DEF Recipient
      <3>2. Recipient.code[tx.to] # 0
        BY <1>6 DEF ReceiveCall
      <3>3. before.code[tx.to] # 0
        BY <1>4, <3>1, <3>2 DEF Recipient
      <3>4. tx.to \in before.live
        BY <1>1, <3>3, CodeIsLive
      <3> QED
        BY <1>4, <3>3, <3>4 DEF Recipient
    <2>2. /\ db' = AddBalance(before, tx.to, tx.token, tx.amount)
          /\ Snapshot(before) /\ tx.op = "call" /\ tx.type = "receive"
          /\ tx.depth <= CallCreateDepth
          /\ EnterRun(tx.to, Len(snapshots'), before.code[tx.to])
          /\ UNCHANGED <<tx, before, txs>>
      BY <1>6, <2>1 DEF ReceiveCall, Credit, Enter, outVars
    <2>3. /\ db' \in Dbs /\ db'.live = before.live /\ db'.code = before.code
          /\ db'.slot = before.slot
      BY <1>1, <2>2, AddBalanceParts
    <2>4. before.live = before.live \cup {tx.to} /\ before.code[tx.to] \in Nat
      BY <1>1, <2>1, CodeIsLive DEF Dbs
    <2>5. RevertPointIntact' /\ RunInv'
      BY <1>1, <1>2, <2>1, <2>2, <2>3, <2>4, EnterRunning
    <2> QED
      BY <1>3, <2>5 DEF RunningInv
  <1>7. ASSUME NEW a \in Addr, ReceiveCreate(a) PROVE RunningInv'
    <2>1. /\ db' = AddBalance(CreateAccount(before, a), a, tx.token, tx.amount)
          /\ Snapshot(before) /\ tx.op = "create" /\ tx.type = "receive"
          /\ tx.depth <= CallCreateDepth
          /\ a \notin before.live
          /\ EnterRun(a, Len(snapshots'), tx.zeros + tx.nonZeros)
          /\ UNCHANGED <<tx, before, txs>>
      BY <1>4, <1>7 DEF ReceiveCreate, CreateContract, Enter, outVars, NewAccount
    <2>2. /\ CreateAccount(before, a) \in Dbs
          /\ CreateAccount(before, a).live = before.live \cup {a}
          /\ CreateAccount(before, a).balance = before.balance
          /\ CreateAccount(before, a).code = before.code
          /\ CreateAccount(before, a).slot = before.slot
      BY <1>1, CreateAccountParts
    <2>3. /\ db' \in Dbs /\ db'.live = before.live \cup {a}
          /\ db'.code = before.code /\ db'.slot = before.slot
      <3> DEFINE d == CreateAccount(before, a)
      <3>1. d \in Dbs /\ tx.token \in Token /\ tx.amount \in Int
        BY <1>1, <2>2
      <3>2. /\ AddBalance(d, a, tx.token, tx.amount) \in Dbs
            /\ AddBalance(d, a, tx.token, tx.amount).live = d.live
            /\ AddBalance(d, a, tx.token, tx.amount).code = d.code
            /\ AddBalance(d, a, tx.token, tx.amount).slot = d.slot
        BY <3>1, AddBalanceParts
      <3> QED
        BY <2>1, <2>2, <3>2
    <2>4. db'.balance = AddBalance(before, a, tx.token, tx.amount).balance
      BY <1>1, <2>1, <2>2, SameCredit
    <2>5. tx.zeros + tx.nonZeros \in Nat
      BY <1>1, TxType
    <2>6. RevertPointIntact' /\ RunInv'
      BY <1>1, <1>2, <2>1, <2>3, <2>4, <2>5, EnterRunning
    <2> QED
      BY <1>3, <2>6 DEF RunningInv
  <1>8. CASE ~ReceiveCall /\ ~(\E a \in Addr : ReceiveCreate(a))
    <2>1. phase' = "done"
      BY <1>8 DEF VmStart, RejectOverflow, RejectOutOfQuota, SendRefused, Send,
         ReceiveTransfer, ReceiveTooDeep, CreateCollision, CreateTooDeep, Return
    <2> QED
      BY <1>5, <2>1
  <1> QED
    BY <1>6, <1>7, <1>8

(* Steps of the loop that leave the database alone. *)
LEMMA QuietRunning ==
  ASSUME TypeInv, RunningInv, QuietExec
  PROVE  RunningInv'
  <1>1. /\ Running /\ Running' /\ txs' \in {txs, <<>>}
        /\ UNCHANGED <<tx, before, abort, frames, dbVars, result>>
    BY QuietTypes
  <1>2. RevertPointIntact' /\ before' \in InitDbs
    BY <1>1 DEF RunningInv, RevertPointIntact, dbVars
  <1>3. AmountInv' /\ RefundInv'
    <2>1. /\ phase \in {"head", "exec"} /\ shared # "others"
          /\ phase' \in {"head", "exec", "returned"} /\ tx' = tx
      BY <1>1 DEF RunningInv, AmountInv, QuietExec, Aborted, Fetch, ExecInvalid,
         ExecOutOfQuota, ExecPlain, ExecLog, ExecSStoreOutOfQuota, ExecCallValue,
         ExecWriteAmount, ExecError, ExecHalt, ExecRevert, Executing, Continue,
         RunReturns
    <2>2. CASE UNCHANGED amtVars /\ phase' \in {"head", "exec", "returned"}
      BY <2>1, <2>2 DEF RunningInv, AmountInv, RefundInv, amtVars
    <2>3. CASE /\ UNCHANGED amount /\ phase' = "returned"
               /\ shared = "code" /\ shared' = "others"
      BY <2>1, <2>3 DEF RunningInv, AmountInv, RefundInv
    <2>4. CASE ExecCallValue
      BY <2>1, <2>4 DEF RunningInv, AmountInv, RefundInv, ExecCallValue, Continue
    <2>5. CASE \E n \in Amounts : ExecWriteAmount(n)
      BY <2>1, <2>5 DEF RunningInv, AmountInv, RefundInv, ExecWriteAmount, Continue
    <2>6. CASE ~ExecCallValue /\ ~(\E n \in Amounts : ExecWriteAmount(n))
      <3>1. UNCHANGED amtVars \/ /\ UNCHANGED amount /\ phase' = "returned"
                                 /\ shared = "code" /\ shared' = "others"
        BY <2>6 DEF QuietExec, Aborted, Fetch, ExecInvalid, ExecOutOfQuota,
           ExecPlain, ExecLog, ExecSStoreOutOfQuota, ExecError, ExecHalt,
           ExecRevert, RunReturns, amtVars
      <3> QED
        BY <2>1, <2>2, <2>3, <3>1
    <2> QED
      BY <2>4, <2>5, <2>6
  <1>4. phase' = "returned" =>
          /\ ret'.err \in {"ok", "outOfQuota", "invalid", "execution", "reverted"}
          /\ ret'.err \in {"execution", "reverted"} => quotaReturn' = 0 /\ logs' = <<>>
    <2>1. CASE Aborted \/ ExecInvalid \/ ExecOutOfQuota \/ ExecHalt
               \/ \E v \in Word : ExecSStoreOutOfQuota(v)
      BY <2>1 DEF Aborted, ExecInvalid, ExecOutOfQuota, ExecHalt,
         ExecSStoreOutOfQuota, RunReturns
    <2>2. CASE ExecError \/ ExecRevert
      BY <2>2 DEF ExecError, ExecRevert, RunReturns, ClearEffects
    <2>3. CASE Fetch \/ ExecPlain \/ ExecLog \/ ExecCallValue
               \/ \E n \in Amounts : ExecWriteAmount(n)
      BY <2>3 DEF Fetch, ExecPlain, ExecLog, ExecCallValue, ExecWriteAmount,
         Continue
    <2> QED
      BY <2>1, <2>2, <2>3 DEF QuietExec
  <1>5. RunInv'
    BY <1>1, <1>4 DEF RunningInv, RunInv, RunDb, Callee, Frame, dbVars
  <1> QED
    BY <1>2, <1>3, <1>5 DEF RunningInv

(* SSTORE writes where its frame may. *)
LEMMA StoreRunning ==
  ASSUME TypeInv, RunningInv, NEW v \in Word, ExecSStore(v)
  PROVE  RunningInv'
  <1>1. /\ Running /\ phase' = "head" /\ db \in Dbs
        /\ UNCHANGED <<tx, before, frames, snapshots, txs, amtVars>>
        /\ db' = SetState(db, Frame.addr, v)
    BY DEF ExecSStore, Executing, Continue, Running, outVars, TypeInv, TypeOK
  <1>2. Frame.addr \in Addr /\ Len(frames) \in Nat \ {0} /\ Callee \in Addr
    BY <1>1, FrameType DEF TypeInv
  <1>3. /\ db'.live = db.live /\ db'.code = db.code /\ db'.balance = db.balance
        /\ db'.slot = [db.slot EXCEPT ![Frame.addr] = v]
    BY <1>1, <1>2, SetStateParts
  <1>4. Frame.addr = Callee \/ (Len(frames) > 1 /\ Frame.addr = tx.to)
    <2>1. Len(frames) \in DOMAIN frames
      BY <1>2, LenProperties DEF TypeInv, TypeOK
    <2>2. Frame.addr \in {Callee, tx.to}
      BY <1>1, <2>1 DEF RunningInv, RunInv, Frame
    <2>3. Len(frames) = 1 => Frame.addr = Callee
      BY <1>1 DEF RunningInv, RunInv
    <2>4. Len(frames) = 1 \/ Len(frames) > 1
      BY <1>2
    <2> QED
      BY <2>2, <2>3, <2>4
  <1>5. db.slot \in [Addr -> Word]
    BY <1>1 DEF Dbs
  <1>6. \A a \in Addr \ {Callee} :
          (Len(frames) > 1 /\ a = tx.to) \/ db'.slot[a] = before.slot[a]
    <2>1. \A a \in Addr \ {Callee} :
            (Len(frames) > 1 /\ a = tx.to) \/ db.slot[a] = before.slot[a]
      BY <1>1 DEF RunningInv, RunInv, RunDb
    <2>2. \A a \in Addr : a # Frame.addr => db'.slot[a] = db.slot[a]
      BY <1>3, <1>5
    <2> QED
      BY <1>4, <2>1, <2>2
  <1>7. RunDb(db)'
    BY <1>1, <1>3, <1>6 DEF RunningInv, RunInv, RunDb, Callee
  <1>8. \A k \in 2..Len(snapshots) : RunDb(snapshots[k])'
    BY <1>1 DEF RunningInv, RunInv, RunDb, Callee
  <1>9. RunInv'
    BY <1>1, <1>7, <1>8 DEF RunningInv, RunInv, Callee, Frame
  <1> QED
    BY <1>1, <1>9 DEF RunningInv, RevertPointIntact, AmountInv, RefundInv,
       Running, ExecSStore, Executing, amtVars

(* DELEGATECALL takes a revert point of the running database, and its code *)
(* may write at the recipient besides.                                     *)
LEMMA DelegateRunning ==
  ASSUME TypeInv, TypeInv', RunningInv, NEW a \in Addr,
         ExecDelegateEmpty(a) \/ ExecDelegate(a)
  PROVE  RunningInv'
  <1>1. /\ TypeOK /\ Running /\ Snapshot(db) /\ db \in Dbs
        /\ phase = "exec" /\ UNCHANGED <<tx, before, db, txs, amtVars>>
    BY DEF ExecDelegateEmpty, ExecDelegate, Executing, Running, outVars, TypeInv, TypeOK
  <1>2. /\ Len(snapshots) \in Nat \ {0} /\ Len(frames) \in Nat \ {0}
        /\ Callee \in Addr
    BY <1>1, FrameType DEF TypeInv
  <1>3. /\ Len(snapshots') = Len(snapshots) + 1
        /\ \A i \in 1..Len(snapshots) : snapshots'[i] = snapshots[i]
        /\ snapshots'[Len(snapshots) + 1] = db
    BY <1>1, SnapshotParts
  <1>4. /\ \A k \in 2..Len(snapshots') : RunDb(snapshots'[k])
        /\ RunDb(db) /\ snapshots'[1] = before
    <2>1. /\ \A k \in 2..Len(snapshots) : RunDb(snapshots[k])
          /\ RunDb(db) /\ snapshots[1] = before
      BY <1>1 DEF RunningInv, RunInv, RevertPointIntact
    <2>2. \A k \in 2..Len(snapshots') :
            k \in 2..Len(snapshots) \/ k = Len(snapshots) + 1
      BY <1>2, <1>3
    <2> QED
      BY <1>2, <1>3, <2>1, <2>2
  <1>5. frames \in Seq([addr : Addr, snapshot : Nat \ {0}])
        /\ DOMAIN frames = 1..Len(frames)
    BY <1>1, LenProperties DEF TypeOK
  <1>6. \A i \in 1..Len(frames) : frames[i].snapshot \in 1..Len(snapshots)
    <2> DEFINE F == [addr : Addr, snapshot : Nat \ {0}]
    <2>1. frames \in Seq(F)
      BY <1>5
    <2> HIDE DEF F
    <2>2. \A i \in 1..Len(frames) : frames[i] \in F
      BY <2>1, ElementOfSeq
    <2>3. \A i \in 1..Len(frames) : frames[i].snapshot <= Len(snapshots)
      BY <1>1, <1>5 DEF RunningInv, RevertPointIntact
    <2> QED
      BY <1>2, <2>2, <2>3 DEF F
  <1>7. /\ frames[1].snapshot = 1
        /\ \A i, j \in 1..Len(frames) :
             i < j => frames[i].snapshot < frames[j].snapshot
        /\ \A i \in 1..Len(frames) : frames[i].addr \in {Callee, tx.to}
        /\ tx.type = "receive" /\ tx.depth <= CallCreateDepth /\ txs = <<>>
        /\ tx.op = "call" => Callee = tx.to /\ before.code[tx.to] # 0
        /\ tx.op = "create" => Callee \notin before.live
        /\ Len(frames) = 1 => Frame.addr = Callee
    BY <1>1, <1>5 DEF RunningInv, RevertPointIntact, RunInv
  <1>8. CASE ExecDelegateEmpty(a)
    <2>1. phase' = "head" /\ frames' = frames
      BY <1>8 DEF ExecDelegateEmpty, Continue
    <2>2. RevertPointIntact'
      <3>1. \A i \in 1..Len(frames) : frames[i].snapshot <= Len(snapshots')
        BY <1>2, <1>3, <1>6
      <3> QED
        BY <1>1, <1>4, <1>5, <1>7, <2>1, <3>1 DEF RevertPointIntact
    <2>3. (\A k \in 2..Len(snapshots') : RunDb(snapshots'[k])) =>
            (\A k \in 2..Len(snapshots) : RunDb(snapshots[k]))'
      BY <1>1, <2>1 DEF RunDb, Callee
    <2>4. RunDb(db)'
      BY <1>1, <1>4, <2>1 DEF RunDb, Callee
    <2>5. RunInv'
      BY <1>1, <1>4, <1>5, <1>7, <2>1, <2>3, <2>4 DEF RunInv, Callee, Frame
    <2> QED
      BY <1>1, <2>1, <2>2, <2>5 DEF RunningInv, AmountInv, RefundInv, amtVars
  <1>9. CASE ExecDelegate(a)
    <2>1. /\ EnterRun(tx.to, Len(snapshots'), db.code[a])
          /\ tx.to \in Addr /\ db.code[a] \in Nat /\ Len(snapshots') \in Nat \ {0}
      BY <1>1, <1>2, <1>3, <1>9, TxType DEF ExecDelegate, Dbs
    <2>2. /\ Len(frames') = Len(frames) + 1
          /\ \A i \in 1..Len(frames) : frames'[i] = frames[i]
          /\ frames'[Len(frames) + 1] = [addr |-> tx.to, snapshot |-> Len(snapshots')]
          /\ frames' \in Seq([addr : Addr, snapshot : Nat \ {0}])
          /\ phase' = "head" \/ (phase' = "returned" /\ ret'.err = "ok")
      BY <1>1, <2>1, EnterRunParts
    <2>3. /\ DOMAIN frames' = 1..Len(frames') /\ Len(frames') > 1
          /\ frames'[1] = frames[1] /\ Callee' = Callee
          /\ \A i \in 1..Len(frames') : i \in 1..Len(frames) \/ i = Len(frames) + 1
      BY <1>2, <2>2, LenProperties DEF Callee
    <2>4. \A i, j \in 1..Len(frames') :
            i < j => frames'[i].snapshot < frames'[j].snapshot
      <3> SUFFICES ASSUME NEW i \in 1..Len(frames'), NEW j \in 1..Len(frames'), i < j
                   PROVE  frames'[i].snapshot < frames'[j].snapshot
        OBVIOUS
      <3>1. i \in 1..Len(frames)
        BY <1>2, <2>2
      <3>2. CASE j \in 1..Len(frames)
        BY <1>7, <2>2, <3>1, <3>2
      <3>3. CASE j = Len(frames) + 1
        <4>1. frames'[j].snapshot = Len(snapshots) + 1
          BY <1>3, <2>2, <3>3
        <4>2. frames'[i].snapshot \in 1..Len(snapshots)
          BY <1>6, <2>2, <3>1
        <4> QED
          BY <1>2, <4>1, <4>2
      <3> QED
        BY <2>3, <3>2, <3>3
    <2>5. \A i \in 1..Len(frames') :
            frames'[i].snapshot <= Len(snapshots') /\ frames'[i].addr \in {Callee, tx.to}
      <3> SUFFICES ASSUME NEW i \in 1..Len(frames')
                   PROVE  /\ frames'[i].snapshot <= Len(snapshots')
                          /\ frames'[i].addr \in {Callee, tx.to}
        OBVIOUS
      <3>1. CASE i \in 1..Len(frames)
        <4>1. frames'[i] = frames[i]
          BY <2>2, <3>1
        <4>2. frames[i].snapshot <= Len(snapshots')
          BY <1>2, <1>3, <1>6, <3>1
        <4>3. frames[i].addr \in {Callee, tx.to}
          BY <1>7, <3>1
        <4> QED
          BY <4>1, <4>2, <4>3
      <3>2. CASE i = Len(frames) + 1
        BY <2>1, <2>2, <3>2
      <3> QED
        BY <2>3, <3>1, <3>2
    <2>6. RevertPointIntact'
      BY <1>1, <1>4, <1>7, <2>3, <2>4, <2>5 DEF RevertPointIntact
    <2>7. RunDb(db)' /\ (\A k \in 2..Len(snapshots) : RunDb(snapshots[k]))'
      BY <1>1, <1>4, <2>3 DEF RunDb
    <2>8. RunInv'
      BY <1>1, <1>7, <2>2, <2>3, <2>5, <2>7 DEF RunInv
    <2> QED
      BY <1>1, <2>2, <2>6, <2>8 DEF RunningInv, AmountInv, RefundInv, amtVars
  <1> QED
    BY <1>8, <1>9

(* When only one frame is left, it is that of Call or Create, and its      *)
(* revert point is the database handed over.                               *)
LEMMA LastFrame ==
  ASSUME TypeInv, RunningInv, Running, Len(frames) = 1
  PROVE  /\ snapshots[Frame.snapshot] = before
         /\ Frame.addr = Callee /\ Callee \in Addr
         /\ before \in Dbs /\ WellFormed(before)
  BY FrameType, BeforeParts DEF TypeInv, RunningInv, RevertPointIntact, Frame, RunInv

(* Once run has returned to Call or Create nothing runs any more, and what *)
(* is to be credited again is credited to the database handed over.        *)
LEMMA FinishRunning ==
  ASSUME TypeInv, RunningInv, AfterRun
  PROVE  RunningInv'
  <1>1. /\ Running /\ phase' \in {"done", "panic", "refund"}
        /\ UNCHANGED <<tx, before, logs, amtVars>>
    BY FinishTypes
  <1>2. before' \in InitDbs /\ AmountInv' /\ RevertPointIntact' /\ RunInv'
    BY <1>1 DEF RunningInv, AmountInv, RevertPointIntact, RunInv, Running, amtVars
  <1>3. CASE CallOwes
    <2>1. /\ tx.op = "call" /\ phase = "returned" /\ Len(frames) = 1
          /\ ret.err \notin {"ok", "outOfQuota"} /\ amount > 0
          /\ db' = snapshots[Frame.snapshot]
          /\ UNCHANGED <<ret, txs, quotaReturn>>
      BY <1>3 DEF CallOwes, CallReverts, Finish, outVars, quotaVars
    <2>2. /\ tx.type = "receive" /\ tx.depth <= CallCreateDepth
          /\ before.code[tx.to] # 0 /\ txs = <<>>
          /\ ret.err \in {"invalid", "execution", "reverted"}
          /\ ret.err \in {"execution", "reverted"} => quotaReturn = 0 /\ logs = <<>>
      BY <1>1, <2>1 DEF RunningInv, RunInv
    <2>3. db' = before
      BY <1>1, <2>1, LastFrame
    <2>4. RefundInv'
      BY <1>1, <2>1, <2>2, <2>3 DEF RefundInv, amtVars
    <2> QED
      BY <1>2, <2>4 DEF RunningInv
  <1>4. CASE ~CallOwes
    <2>1. phase' # "refund"
      BY <1>4 DEF AfterRun, NestedReturn, CallSucceeds, CallOutOfQuota, CallFails,
         CreateSucceeds, CreateOutOfQuota, CreateFails, Return
    <2> QED
      BY <1>2, <2>1 DEF RunningInv, RefundInv
  <1> QED
    BY <1>3, <1>4

(* So does what holds while code runs. *)
LEMMA RunningInvariant == Spec => [](TypeInv /\ RunningInv)
  <1>1. Init => RunningInv
    BY DEF Init, RunningInv, AmountInv, RevertPointIntact, RunInv, RefundInv, Running
  <1>2. TypeInv /\ TypeInv' /\ RunningInv /\ [Next]_vars => RunningInv'
    <2> SUFFICES ASSUME TypeInv, TypeInv', RunningInv, [Next]_vars
                 PROVE  RunningInv'
      OBVIOUS
    <2>1. CASE VmStart
      BY <2>1, StartRunning
    <2>2. CASE VmExec
      BY <2>2, QuietRunning, StoreRunning, DelegateRunning DEF VmExec, QuietExec
    <2>3. CASE AfterRun
      BY <2>3, FinishRunning
    <2>6. CASE CallRefunds
      <3>1. phase' = "done" /\ UNCHANGED <<tx, before, amtVars>>
        BY <2>6 DEF CallRefunds, Return
      <3> QED
        BY <3>1 DEF RunningInv, AmountInv, RevertPointIntact, RunInv, RefundInv,
           Running, amtVars
    <2>7. ASSUME NEW n \in Amounts, OthersWriteAmount(n) PROVE RunningInv'
      BY <2>7 DEF OthersWriteAmount, RunningInv, AmountInv, RevertPointIntact,
         RunInv, RefundInv, RunDb, Callee, Frame, Running, dbVars, quotaVars,
         outVars
    <2>4. CASE Cancel
      BY <2>4 DEF Cancel, RunningInv, AmountInv, RevertPointIntact, RunInv,
         RefundInv, RunDb, Callee, Frame, Running, dbVars, quotaVars, outVars, amtVars
    <2>5. CASE UNCHANGED vars
      BY <2>5 DEF vars, RunningInv, AmountInv, RevertPointIntact, RunInv,
         RefundInv, RunDb, Callee, Frame, Running, dbVars, quotaVars, outVars, amtVars
    <2> QED
      BY <2>1, <2>2, <2>3, <2>4, <2>5, <2>6, <2>7
      DEF Next, VmStep, VmFinish, AfterRun
  <1> QED
    BY <1>1, <1>2, TypeInvariant, PTL DEF Spec

(* While code runs, the revert point of Call or Create holds the database  *)
(* that was handed over, and the revert ids of nested calls lie above it   *)
(* and below the number of snapshots (vm.go:110, 189, 225).                *)
THEOREM RevertPointIsKept == Spec => []RevertPointIntact
  <1>1. RunningInv => RevertPointIntact
    BY DEF RunningInv
  <1> QED
    BY <1>1, RunningInvariant, PTL

-----------------------------------------------------------------------------
(* What is left when Call or Create has returned. *)

(* The database of a running contract, account by account. *)
LEMMA RunDbParts ==
  ASSUME TypeInv, RunningInv, Running, NEW d \in Dbs, RunDb(d)
  PROVE  /\ \A a \in Addr \ {Callee} :
              /\ a \in d.live <=> a \in before.live
              /\ d.balance[a] = before.balance[a]
              /\ d.code[a] = before.code[a]
         /\ \A a \in Addr, t \in Token : d.balance[a][t] >= before.balance[a][t]
  <1>1. /\ before \in Dbs /\ Callee \in Addr /\ tx.token \in Token
        /\ tx.amount \in Int /\ tx.amount >= 0
    BY BeforeParts, FrameType, TxType DEF TypeInv, RunningInv
  <1> DEFINE c == Callee
             u == tx.token
             n == tx.amount
             e == AddBalance(before, c, u, n)
  <1>2. /\ \A a \in Addr \ {c} : e.balance[a] = before.balance[a]
        /\ \A a \in Addr, t \in Token :
             e.balance[a][t] = IF a = c /\ t = u THEN before.balance[a][t] + n
                               ELSE before.balance[a][t]
    <2> HIDE DEF c, u, n
    <2>1. before \in Dbs /\ c \in Addr /\ u \in Token /\ n \in Int
      BY <1>1 DEF c, u, n
    <2> QED
      BY ONLY <2>1, AddBalanceParts DEF e
  <1>3. \A a \in Addr, t \in Token : before.balance[a][t] \in Int
    BY <1>1 DEF Dbs
  <1>4. /\ d.live = before.live \cup {Callee} /\ d.code = before.code
        /\ d.balance = e.balance
    BY DEF RunDb
  <1>5. \A a \in Addr, t \in Token : d.balance[a][t] >= before.balance[a][t]
    BY <1>1, <1>2, <1>3, <1>4
  <1> QED
    BY <1>2, <1>4, <1>5

(* Deleting the account of a constructor gives back what was handed over. *)
LEMMA ConstructorUndone ==
  ASSUME TypeInv, RunningInv, Running, Len(frames) = 1, tx.op = "create"
  PROVE  DeleteAccount(db, Frame.addr) = before
  <1>1. /\ Callee \in Addr \ before.live /\ RunDb(db) /\ db \in Dbs
        /\ before \in Dbs /\ WellFormed(before) /\ Frame.addr = Callee
    BY LastFrame DEF TypeInv, TypeOK, RunningInv, RunInv
  <1>2. /\ db.live = before.live \cup {Callee}
        /\ \A a \in Addr \ {Callee} : db.slot[a] = before.slot[a]
    BY <1>1 DEF RunDb
  <1>3. \A a \in Addr \ {Callee} : /\ db.balance[a] = before.balance[a]
                                   /\ db.code[a] = before.code[a]
    BY <1>1, RunDbParts
  <1>4. DeleteAccount(db, Callee) = before
    BY <1>1, <1>2, <1>3, DeleteUndoesCreate
  <1> QED
    BY <1>1, <1>4

(* So does deleting an account whose constructor was never run. *)
LEMMA NewAccountUndone ==
  ASSUME TypeInv, before \in InitDbs, db = before, NEW a \in Addr \ db.live
  PROVE  DeleteAccount(NewAccount(a), a) = before
  <1>1. /\ before \in Dbs /\ WellFormed(before) /\ a \in Addr
        /\ tx.token \in Token /\ tx.amount \in Int
    BY BeforeParts, TxType DEF TypeInv
  <1> DEFINE c == CreateAccount(before, a)
             d == AddBalance(c, a, tx.token, tx.amount)
  <1>2. /\ c \in Dbs /\ c.live = before.live \cup {a}
        /\ c.balance = before.balance /\ c.code = before.code
        /\ c.slot = before.slot
    BY <1>1, CreateAccountParts
  <1> HIDE DEF c
  <1>3. /\ d \in Dbs /\ d.live = c.live /\ d.code = c.code /\ d.slot = c.slot
        /\ \A b \in Addr \ {a} : d.balance[b] = c.balance[b]
    BY <1>1, <1>2, AddBalanceParts
  <1> HIDE DEF d
  <1>4. a \in Addr \ before.live
    OBVIOUS
  <1>5. DeleteAccount(d, a) = before
    BY <1>1, <1>2, <1>3, <1>4, DeleteUndoesCreate
  <1> QED
    BY <1>5 DEF c, d, NewAccount

(* A refund is made of a positive amount, and of no other. *)
LEMMA FirstRefund ==
  ASSUME txs = <<>>, NEW a
  PROVE  /\ amount > 0 => RefundFrom(a) = <<RefundBy(a)>>
         /\ ~(amount > 0) => RefundFrom(a) = <<>>
         /\ <<RefundBy(a)>> # <<>> /\ Append(txs, RefundBy(a)) = <<RefundBy(a)>>
  BY DEF RefundFrom

DoneInv == /\ OutOfQuotaRestores /\ FailedCreateLeavesNoTrace
           /\ FailedCallLeavesOnlyAmount /\ RefundExact

(* Steps of Call and Create up to run. *)
LEMMA StartDone ==
  ASSUME TypeInv, RunningInv, DoneInv, VmStart
  PROVE  DoneInv'
  <1>1. phase = "idle" /\ UNCHANGED <<tx, before, amount, shared>>
    BY DEF amtVars, VmStart, RejectOverflow, RejectOutOfQuota, SendRefused, Send, Enter,
           ReceiveTransfer, ReceiveTooDeep, ReceiveCall, Credit, CreateCollision,
           ReceiveCreate, CreateTooDeep, CreateContract, Return
  <1>2. /\ db = before /\ txs = <<>> /\ amount = tx.amount
        /\ before \in InitDbs /\ tx.depth \in Nat /\ tx.amount \in Nat
    BY <1>1, TxType DEF TypeInv, IdleInv, RunningInv, AmountInv
  <1>3. CASE RejectOverflow \/ RejectOutOfQuota \/ SendRefused \/ CreateCollision
    <2>1. /\ db' = db /\ txs' = txs /\ phase' = "done"
          /\ result'.err \in {"gasUintOverflow", "outOfQuota",
                              "insufficientBalance", "collision"}
      BY <1>3 DEF RejectOverflow, RejectOutOfQuota, SendRefused, CreateCollision,
         Return, dbVars, outVars
    <2> QED
      BY <1>1, <1>2, <2>1 DEF DoneInv, OutOfQuotaRestores, RefundExact, Owing,
         FailedCreateLeavesNoTrace, FailedCallLeavesOnlyAmount, Failed
  <1>4. CASE Send \/ ReceiveTransfer
    <2>1. txs' = txs /\ phase' = "done" /\ result'.err = "ok"
      BY <1>4 DEF Send, ReceiveTransfer, Credit, Return, outVars
    <2> QED
      BY <1>1, <1>2, <2>1 DEF DoneInv, OutOfQuotaRestores, RefundExact, Owing,
         FailedCreateLeavesNoTrace, FailedCallLeavesOnlyAmount, Failed
  <1>5. CASE ReceiveTooDeep
    <2>1. txs' = txs /\ phase' = "done" /\ result'.err = "depth" /\ tx.op = "call"
      BY <1>5 DEF ReceiveTooDeep, Credit, Enter, Return, outVars
    <2> QED
      BY <1>1, <1>2, <2>1 DEF DoneInv, OutOfQuotaRestores, RefundExact, Owing,
         FailedCreateLeavesNoTrace, FailedCallLeavesOnlyAmount, Failed
  <1>6. ASSUME NEW a \in Addr, CreateTooDeep(a) PROVE DoneInv'
    <2>1. /\ phase' = "done" /\ result'.err = "depth" /\ tx.op = "create"
          /\ txs' = RefundFrom(a) /\ a \notin db.live
          /\ db' = DeleteAccount(NewAccount(a), a)
      BY <1>6 DEF CreateTooDeep, CreateContract, Enter, Return
    <2>2. db' = before
      BY <1>2, <2>1, NewAccountUndone
    <2>3. RefundExact'
      <3>1. /\ amount > 0 => txs' = <<RefundBy(a)>>
            /\ ~(amount > 0) => txs' = <<>>
            /\ <<RefundBy(a)>> # <<>>
        BY <1>2, <2>1, FirstRefund
      <3>2. a \notin before.live
        BY <1>2, <2>1
      <3> QED
        BY <1>1, <1>2, <2>1, <3>1, <3>2 DEF RefundExact, Owing, Failed, RefundBy
    <2> QED
      BY <1>1, <2>1, <2>2, <2>3 DEF DoneInv, OutOfQuotaRestores,
         FailedCreateLeavesNoTrace, FailedCallLeavesOnlyAmount, Failed
  <1>7. ASSUME phase' \in {"head", "returned"} PROVE DoneInv'
    BY <1>7 DEF DoneInv, OutOfQuotaRestores, FailedCreateLeavesNoTrace,
       FailedCallLeavesOnlyAmount, RefundExact, Failed
  <1>8. CASE ReceiveCall \/ \E a \in Addr : ReceiveCreate(a)
    BY <1>7, <1>8 DEF ReceiveCall, ReceiveCreate, EnterRun, RunReturns
  <1> QED
    BY <1>3, <1>4, <1>5, <1>6, <1>8 DEF VmStart

(* Call and Create after run has returned. *)
LEMMA FinishDone ==
  ASSUME TypeInv, RunningInv, AfterRun
  PROVE  DoneInv'
  <1>1. /\ Running /\ phase' \in {"done", "panic", "refund"}
        /\ UNCHANGED <<tx, before, amount, shared>>
        /\ txs = <<>> /\ (shared = "no" => amount = tx.amount)
        /\ tx.op \in {"call", "create"} /\ amount \in Int /\ tx.to \in Addr
        /\ tx.token \in Token /\ tx.amount \in Nat
        /\ phase = "returned"
             => ret.err \in {"ok", "outOfQuota", "invalid", "execution", "reverted"}
    <2>1. /\ Running /\ phase' \in {"done", "panic", "refund"}
          /\ UNCHANGED <<tx, before, amount, shared>>
      BY FinishTypes DEF amtVars
    <2> QED
      BY <2>1, TxType DEF RunningInv, RunInv, AmountInv, TypeInv, TypeOK
  <1>2. CASE NestedReturn \/ CallOwes
    BY <1>2 DEF NestedReturn, CallOwes, DoneInv, OutOfQuotaRestores, RefundExact,
       FailedCreateLeavesNoTrace, FailedCallLeavesOnlyAmount, Failed
  <1>3. CASE CallSucceeds \/ CreateSucceeds
    <2>1. phase' = "done" /\ result'.err = "ok" /\ txs' = <<>>
      BY <1>1, <1>3 DEF CallSucceeds, CreateSucceeds, Return, outVars
    <2> QED
      BY <1>1, <2>1 DEF DoneInv, OutOfQuotaRestores, RefundExact, Owing,
         FailedCreateLeavesNoTrace, FailedCallLeavesOnlyAmount, Failed
  <1>4. CASE CallOutOfQuota \/ CreateOutOfQuota
    <2>1. /\ phase' = "done" /\ result'.err = "outOfQuota" /\ txs' = <<>>
          /\ Len(frames) = 1 /\ db' = snapshots[Frame.snapshot]
      BY <1>1, <1>4 DEF CallOutOfQuota, CreateOutOfQuota, Finish, Return, outVars
    <2>2. db' = before
      BY <1>1, <2>1, LastFrame
    <2> QED
      BY <1>1, <2>1, <2>2 DEF DoneInv, OutOfQuotaRestores, RefundExact, Owing,
         FailedCreateLeavesNoTrace, FailedCallLeavesOnlyAmount, Failed
  <1>5. CASE CallFails
    <2>1. /\ phase' = "done" /\ result'.err = ret.err /\ txs' = <<>>
          /\ Len(frames) = 1 /\ tx.op = "call" /\ ~(amount > 0)
          /\ ret.err \in {"invalid", "execution", "reverted"}
          /\ db' = snapshots[Frame.snapshot]
      BY <1>1, <1>5 DEF CallFails, CallReverts, Finish, Return, outVars
    <2>2. db' = AddBalance(before, tx.to, tx.token, 0)
      BY <1>1, <2>1, LastFrame, AddNothing
    <2>3. FailedCallLeavesOnlyAmount'
      <3>1. 0 \in Recredited'
        BY <1>1, <2>1 DEF Recredited
      <3> QED
        BY <1>1, <2>2, <3>1 DEF FailedCallLeavesOnlyAmount
    <2> QED
      BY <1>1, <2>1, <2>3 DEF DoneInv, OutOfQuotaRestores, RefundExact,
         FailedCreateLeavesNoTrace, Failed
  <1>6. CASE CreateFails
    <2>1. /\ phase' = "done" /\ result'.err = ret.err /\ txs' = RefundFrom(Frame.addr)
          /\ Len(frames) = 1 /\ tx.op = "create"
          /\ ret.err \in {"invalid", "execution", "reverted"}
          /\ db' = DeleteAccount(db, Frame.addr)
      BY <1>1, <1>6 DEF CreateFails, Finish, Return
    <2>2. /\ db' = before
          /\ Frame.addr \in Addr /\ Frame.addr \notin before.live
      BY <1>1, <2>1, ConstructorUndone, LastFrame DEF RunningInv, RunInv
    <2>3. RefundExact'
      <3> DEFINE c == Frame.addr
      <3>1. /\ amount > 0 => txs' = <<RefundBy(c)>>
            /\ ~(amount > 0) => txs' = <<>>
            /\ <<RefundBy(c)>> # <<>>
        BY <1>1, <2>1, FirstRefund
      <3>2. c \in Addr /\ c \notin before.live
        BY <2>2
      <3> HIDE DEF c
      <3>3. Owing'
        BY <2>1 DEF Owing, Failed
      <3> QED
        BY <1>1, <2>1, <3>1, <3>2, <3>3 DEF RefundExact, RefundBy
    <2> QED
      BY <1>1, <2>1, <2>2, <2>3 DEF DoneInv, OutOfQuotaRestores,
         FailedCreateLeavesNoTrace, FailedCallLeavesOnlyAmount, Failed
  <1> QED
    BY <1>2, <1>3, <1>4, <1>5, <1>6 DEF AfterRun

(* The credit and the refund of a call that failed. *)
LEMMA CallRefundsDone ==
  ASSUME TypeInv, RunningInv, CallRefunds
  PROVE  DoneInv'
  <1>1. /\ phase' = "done" /\ result'.err = ret.err
        /\ UNCHANGED <<tx, before, amount, shared>>
        /\ db' = AddBalance(db, tx.to, tx.token, amount)
        /\ txs' = Append(txs, RefundBy(tx.to))
    BY DEF CallRefunds, Return, amtVars
  <1>2. /\ tx.op = "call" /\ db = before /\ txs = <<>> /\ tx.to \in Addr
        /\ ret.err \in {"invalid", "execution", "reverted"}
        /\ shared # "others" => amount > 0
        /\ shared = "no" => amount = tx.amount
        /\ amount \in {tx.amount} \cup Amounts
    BY TxType DEF RunningInv, RefundInv, AmountInv, CallRefunds, TypeInv
  <1>3. txs' = <<RefundBy(tx.to)>> /\ txs' # <<>>
    BY <1>1, <1>2, FirstRefund
  <1>4. amount \in Recredited'
    BY <1>1, <1>2, <1>3 DEF Recredited
  <1>5. FailedCallLeavesOnlyAmount'
    BY <1>1, <1>2, <1>4 DEF FailedCallLeavesOnlyAmount
  <1>6. Owing'
    BY <1>1, <1>2 DEF Owing, Failed
  <1>7. RefundExact'
    BY <1>1, <1>2, <1>3, <1>6 DEF RefundExact, RefundBy
  <1> QED
    BY <1>1, <1>2, <1>5, <1>7 DEF DoneInv, OutOfQuotaRestores,
       FailedCreateLeavesNoTrace, Failed

(* And what is left when Call or Create has returned. *)
LEMMA DoneInvariant == Spec => []DoneInv
  <1>1. Init => DoneInv
    BY DEF Init, DoneInv, OutOfQuotaRestores, FailedCreateLeavesNoTrace,
       FailedCallLeavesOnlyAmount, RefundExact, Failed
  <1>2. TypeInv /\ RunningInv /\ DoneInv /\ [Next]_vars => DoneInv'
    <2> SUFFICES ASSUME TypeInv, RunningInv, DoneInv, [Next]_vars
                 PROVE  DoneInv'
      OBVIOUS
    <2>1. CASE VmStart
      BY <2>1, StartDone
    <2>2. CASE VmExec
      <3>1. phase' \in {"head", "exec", "returned"}
        BY <2>2 DEF VmExec, Aborted, Fetch, ExecInvalid, ExecOutOfQuota, ExecPlain,
           ExecLog, ExecSStore, ExecSStoreOutOfQuota, ExecCallValue,
           ExecWriteAmount, ExecError, ExecHalt, ExecRevert, ExecDelegateEmpty,
           ExecDelegate, RunReturns, EnterRun, Continue
      <3> QED
        BY <3>1 DEF DoneInv, OutOfQuotaRestores, FailedCreateLeavesNoTrace,
           FailedCallLeavesOnlyAmount, RefundExact, Failed
    <2>3. CASE VmFinish
      BY <2>3, FinishDone, CallRefundsDone DEF VmFinish, AfterRun
    <2>5. ASSUME NEW n \in Amounts, OthersWriteAmount(n) PROVE DoneInv'
      <3>1. /\ shared = "others"
            /\ UNCHANGED <<tx, before, phase, db, txs, shared, result>>
        BY <2>5 DEF OthersWriteAmount, dbVars, outVars
      <3>2. UNCHANGED <<OutOfQuotaRestores, FailedCreateLeavesNoTrace,
                        FailedCallLeavesOnlyAmount>>
        BY <3>1 DEF OutOfQuotaRestores, FailedCreateLeavesNoTrace,
           FailedCallLeavesOnlyAmount, Recredited, Failed
      <3>3. RefundExact'
        BY <3>1 DEF DoneInv, RefundExact, Owing, Failed
      <3> QED
        BY <3>2, <3>3 DEF DoneInv
    <2>4. CASE Cancel \/ UNCHANGED vars
      BY <2>4 DEF Cancel, vars, dbVars, quotaVars, outVars, amtVars, DoneInv,
         OutOfQuotaRestores, FailedCreateLeavesNoTrace,
         FailedCallLeavesOnlyAmount, Recredited, RefundExact, Owing, Failed
    <2> QED
      BY <2>1, <2>2, <2>3, <2>4, <2>5 DEF Next, VmStep
  <1> QED
    BY <1>1, <1>2, RunningInvariant, PTL DEF Spec

(* A receive that ran out of quota leaves the database it found, so that   *)
(* it can be retried (vm.go:144-147, 202-204).                             *)
THEOREM OutOfQuotaIsUndone == Spec => []OutOfQuotaRestores
  <1>1. DoneInv => OutOfQuotaRestores
    BY DEF DoneInv
  <1> QED
    BY <1>1, DoneInvariant, PTL

(* A Create that fails, in whatever way, leaves the database it found: the *)
(* constructor and the code it delegated to wrote nothing that deleting    *)
(* the new account does not undo (vm.go:116-128, 148-161).                 *)
THEOREM FailedCreateIsUndone == Spec => []FailedCreateLeavesNoTrace
  <1>1. DoneInv => FailedCreateLeavesNoTrace
    BY DEF DoneInv
  <1> QED
    BY <1>1, DoneInvariant, PTL

(* A contract call that fails keeps the amount and nothing else: the one   *)
(* received if no CALLVALUE leaked it, the one its own code left if that   *)
(* did, and one that other VMs wrote if its pool went to them first        *)
(* (vm.go:203-214, 242).                                                   *)
THEOREM FailedCallKeepsTheAmount == Spec => []FailedCallLeavesOnlyAmount
  <1>1. DoneInv => FailedCallLeavesOnlyAmount
    BY DEF DoneInv
  <1> QED
    BY <1>1, DoneInvariant, PTL

(* Refunds go to the sender, once, from the recipient or from an address   *)
(* that did not exist, and exactly when one is due and the Amount is       *)
(* positive: always, unless other VMs write the Amount, which can only     *)
(* make it a refund of something else or suppress it.  Without CALLVALUE   *)
(* the Amount is the one received (vm.go:118, 150, 206).                   *)
THEOREM RefundsAreExact == Spec => []RefundExact
  <1>1. DoneInv => RefundExact
    BY DEF DoneInv
  <1> QED
    BY <1>1, DoneInvariant, PTL
=============================================================================
