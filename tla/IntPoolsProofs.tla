-------------------------- MODULE IntPoolsProofs --------------------------
(* Proofs about IntPools, for any number of goroutines, any capacity and   *)
(* any depth of nesting.                                                   *)
EXTENDS IntPools, SequenceTheorems, TLAPS

(* What remains of the pools when the last one is removed. *)
LEMMA FrontParts ==
  ASSUME NEW S, NEW s \in Seq(S), Len(s) > 0
  PROVE  /\ Front(s) \in Seq(S) /\ Len(Front(s)) = Len(s) - 1
         /\ \A i \in 1..(Len(s) - 1) : Front(s)[i] = s[i]
         /\ Elements(Front(s)) \subseteq Elements(s)
  <1>1. /\ Front(s) \in Seq(S) /\ Len(Front(s)) = Len(s) - 1
        /\ \A i \in 1..(Len(s) - 1) : Front(s)[i] = s[i]
    <2>1. Len(s) \in Nat /\ \A i \in 1..(Len(s) - 1) : s[i] \in S
      OBVIOUS
    <2> DEFINE n == Len(s) - 1
    <2>2. n \in Int /\ 1 \in Int /\ n >= 0 /\ \A i \in 1..n : s[i] \in S
      BY <2>1
    <2>3. /\ SubSeq(s, 1, n) \in Seq(S)
          /\ Len(SubSeq(s, 1, n)) = IF 1 <= n THEN n - 1 + 1 ELSE 0
          /\ \A i \in 1..(n - 1 + 1) : SubSeq(s, 1, n)[i] = s[1 + i - 1]
      <3> HIDE DEF n
      <3> QED
        BY ONLY <2>2, SubSeqProperties
    <2>4. Front(s) = SubSeq(s, 1, n)
      BY DEF Front
    <2>5. Len(Front(s)) = n
      <3> HIDE DEF n
      <3> QED
        BY <2>2, <2>3, <2>4
    <2>6. \A i \in 1..n : 1 + i - 1 = i /\ i \in 1..(n - 1 + 1)
      BY <2>2
    <2>7. \A i \in 1..n : Front(s)[i] = s[i]
      <3> HIDE DEF n
      <3> QED
        BY <2>3, <2>4, <2>6
    <2> QED
      BY <2>3, <2>4, <2>5, <2>7
  <1>2. DOMAIN Front(s) = 1..(Len(s) - 1) /\ DOMAIN s = 1..Len(s) /\ Len(s) \in Nat
    BY <1>1
  <1> QED
    BY <1>1, <1>2 DEF Elements

-----------------------------------------------------------------------------
(* Every action keeps the inductive invariant. *)

(* A run starts. *)
LEMMA CallKeeps ==
  ASSUME IInv, NEW v \in Vms, Call(v)
  PROVE  IInv'
  <1> USE DEF IInv
  <1>1. TypeOK'
    BY PoolsAssumption, SizeAssumption DEF TypeOK, Call, Goto, Unlock, Stages, DepthInv
  <1>2. LockInv'
    BY DEF TypeOK, LockInv, Call, Goto, Unlock
  <1>3. TakenInv'
    BY DEF TypeOK, TakenInv, Call, Goto, Unlock, LockInv
  <1>4. DepthInv'
    BY SizeAssumption DEF TypeOK, DepthInv, Call, Goto
  <1>5. SoundInv'
    BY DEF TypeOK, SoundInv, Call, Goto
  <1>6. Exclusive'
    BY DEF TypeOK, Exclusive, Owns, Call, Goto
  <1> QED
    BY <1>1, <1>2, <1>3, <1>4, <1>5, <1>6

(* get takes the lock. *)
LEMMA LockForGetKeeps ==
  ASSUME IInv, NEW v \in Vms, LockForGet(v)
  PROVE  IInv'
  <1> USE DEF IInv
  <1>1. TypeOK'
    BY PoolsAssumption, SizeAssumption DEF TypeOK, LockForGet, Goto, Unlock, Stages, DepthInv
  <1>2. LockInv'
    BY DEF TypeOK, LockInv, LockForGet, Goto, Unlock
  <1>3. TakenInv'
    BY DEF TypeOK, TakenInv, LockForGet, Goto, Unlock, LockInv
  <1>4. DepthInv'
    BY SizeAssumption DEF TypeOK, DepthInv, LockForGet, Goto
  <1>5. SoundInv'
    BY DEF TypeOK, SoundInv, LockForGet, Goto
  <1>6. Exclusive'
    BY DEF TypeOK, Exclusive, Owns, LockForGet, Goto
  <1> QED
    BY <1>1, <1>2, <1>3, <1>4, <1>5, <1>6

(* get allocates a pool that nobody else can reach. *)
LEMMA NewPoolKeeps ==
  ASSUME IInv, NEW v \in Vms, NewPool(v)
  PROVE  IInv'
  <1> USE DEF IInv
  <1>1. TypeOK'
    BY PoolsAssumption, SizeAssumption DEF TypeOK, NewPool, Goto, Unlock, Stages, DepthInv
  <1>2. LockInv'
    BY DEF TypeOK, LockInv, NewPool, Goto, Unlock
  <1>3. TakenInv'
    BY DEF TypeOK, TakenInv, NewPool, Goto, Unlock, LockInv
  <1>4. DepthInv'
    BY SizeAssumption DEF TypeOK, DepthInv, NewPool, Goto
  <1>p. PICK p \in Pools : Unreachable(p) /\ intPool' = [intPool EXCEPT ![v] = p]
    BY DEF NewPool
  <1>5. SoundInv'
    BY <1>p, PoolsAssumption DEF TypeOK, SoundInv, NewPool, Goto
  <1>6. Exclusive'
    <2>1. \A w \in Vms, q \in Pools : Owns(w, q)' => Owns(w, q) \/ (w = v /\ q = p)
      BY <1>p DEF TypeOK, Owns, NewPool, Goto
    <2>2. \A w \in Vms : ~Owns(w, p)
      BY <1>p DEF Owns, Unreachable
    <2>3. p \notin Elements(pools)
      BY <1>p DEF Unreachable
    <2> QED
      BY <2>1, <2>2, <2>3 DEF Exclusive, NewPool
  <1> QED
    BY <1>1, <1>2, <1>3, <1>4, <1>5, <1>6

(* get reads the last pool. *)
LEMMA TakePoolKeeps ==
  ASSUME IInv, NEW v \in Vms, TakePool(v)
  PROVE  IInv'
  <1> USE DEF IInv
  <1>1. TypeOK'
    BY PoolsAssumption, SizeAssumption DEF TypeOK, TakePool, Goto, Unlock, Stages, DepthInv
  <1>2. LockInv'
    BY DEF TypeOK, LockInv, TakePool, Goto, Unlock
  <1>3. TakenInv'
    BY DEF TypeOK, TakenInv, TakePool, Goto, Unlock, LockInv
  <1>4. DepthInv'
    BY SizeAssumption DEF TypeOK, DepthInv, TakePool, Goto
  <1>5. SoundInv'
    BY DEF TypeOK, SoundInv, TakePool, Goto
  <1>6. Exclusive'
    BY DEF TypeOK, Exclusive, Owns, TakePool, Goto
  <1> QED
    BY <1>1, <1>2, <1>3, <1>4, <1>5, <1>6

(* get removes the pool it has read and hands it over. *)
LEMMA ShrinkKeeps ==
  ASSUME IInv, NEW v \in Vms, Shrink(v)
  PROVE  IInv'
  <1> USE DEF IInv
  <1>f. /\ Len(pools) \in Nat /\ Len(pools) > 0 /\ taken[v] = pools[Len(pools)]
        /\ pools' = Front(pools) /\ pools' \in Seq(Pools \cup {Nil})
        /\ Len(pools') = Len(pools) - 1
        /\ \A i \in 1..(Len(pools) - 1) : pools'[i] = pools[i]
        /\ Elements(pools') \subseteq Elements(pools)
    <2>1. pools \in Seq(Pools \cup {Nil}) /\ Len(pools) > 0
      BY DEF TypeOK, TakenInv, Shrink
    <2> QED
      BY <2>1, FrontParts DEF TakenInv, Shrink
  <1>1. TypeOK'
    <2>1. pools' \in Seq(Pools \cup {Nil}) /\ Len(pools') <= PoolDefaultCap
      BY <1>f, SizeAssumption DEF TypeOK
    <2>2. /\ lock' \subseteq Vms /\ stage' \in [Vms -> Stages]
          /\ intPool' \in [Vms -> Pools \cup {Nil}]
          /\ taken' \in [Vms -> Pools \cup {Nil}]
      BY DEF TypeOK, Shrink, Goto, Unlock, Stages
    <2> QED
      BY <2>1, <2>2 DEF TypeOK, Shrink
  <1>2. LockInv'
    BY DEF TypeOK, LockInv, Shrink, Goto, Unlock
  <1>3. TakenInv'
    BY DEF TypeOK, TakenInv, Shrink, Goto, Unlock, LockInv
  <1>4. DepthInv'
    BY SizeAssumption DEF TypeOK, DepthInv, Shrink, Goto
  <1>5. SoundInv'
    <2>1. taken[v] \in Elements(pools)
      BY <1>f DEF Elements, TypeOK
    <2> QED
      BY <1>f, <2>1 DEF TypeOK, SoundInv, Shrink, Goto
  <1>6. Exclusive'
    <2>1. \A w \in Vms, q \in Pools : Owns(w, q)' => Owns(w, q) \/ (w = v /\ q = taken[v])
      BY DEF TypeOK, Owns, Shrink, Goto
    <2>2. taken[v] \in Elements(pools)
      BY <1>f DEF Elements, TypeOK
    <2>3. taken[v] # Nil => taken[v] \notin Elements(pools')
      <3> SUFFICES ASSUME NEW i \in DOMAIN pools', pools'[i] = taken[v], taken[v] # Nil
                   PROVE  FALSE
        BY DEF Elements
      <3>1. i \in 1..(Len(pools) - 1)
        BY <1>f
      <3>2. pools[i] = pools[Len(pools)] /\ i # Len(pools)
        BY <1>f, <3>1
      <3>3. i \in DOMAIN pools /\ Len(pools) \in DOMAIN pools
        BY <1>f, <3>1 DEF TypeOK
      <3> QED
        BY <1>f, <3>2, <3>3 DEF Exclusive
    <2>4. \A i, j \in DOMAIN pools' : pools'[i] = pools'[j] /\ pools'[i] # Nil => i = j
      <3>1. DOMAIN pools' = 1..(Len(pools) - 1) /\ DOMAIN pools = 1..Len(pools)
        BY <1>f DEF TypeOK
      <3>2. \A i \in DOMAIN pools' : i \in DOMAIN pools /\ pools'[i] = pools[i]
        BY <1>f, <3>1
      <3> QED
        BY <3>2 DEF Exclusive
    <2>5. \A w, x \in Vms, q \in Pools : Owns(w, q)' /\ Owns(x, q)' => w = x
      BY <2>1, <2>2 DEF Exclusive
    <2>6. \A w \in Vms, q \in Pools : Owns(w, q)' => q \notin Elements(pools')
      BY <1>f, <2>1, <2>3, PoolsAssumption DEF Exclusive
    <2> QED
      BY <2>4, <2>5, <2>6 DEF Exclusive
  <1> QED
    BY <1>1, <1>2, <1>3, <1>4, <1>5, <1>6

(* A nested run starts. *)
LEMMA DelegateKeeps ==
  ASSUME IInv, NEW v \in Vms, Delegate(v)
  PROVE  IInv'
  <1> USE DEF IInv
  <1>1. TypeOK'
    BY PoolsAssumption, SizeAssumption DEF TypeOK, Delegate, Goto, Unlock, Stages, DepthInv
  <1>2. LockInv'
    BY DEF TypeOK, LockInv, Delegate, Goto, Unlock
  <1>3. TakenInv'
    BY DEF TypeOK, TakenInv, Delegate, Goto, Unlock, LockInv
  <1>4. DepthInv'
    BY SizeAssumption DEF TypeOK, DepthInv, Delegate, Goto
  <1>5. SoundInv'
    BY DEF TypeOK, SoundInv, Delegate, Goto
  <1>6. Exclusive'
    BY DEF TypeOK, Exclusive, Owns, Delegate, Goto
  <1> QED
    BY <1>1, <1>2, <1>3, <1>4, <1>5, <1>6

(* A run without a pool panics. *)
LEMMA UseNilKeeps ==
  ASSUME IInv, NEW v \in Vms, UseNil(v)
  PROVE  IInv'
  <1> USE DEF IInv
  <1>1. TypeOK'
    BY PoolsAssumption, SizeAssumption DEF TypeOK, UseNil, Goto, Unlock, Stages, DepthInv
  <1>2. LockInv'
    BY DEF TypeOK, LockInv, UseNil, Goto, Unlock
  <1>3. TakenInv'
    BY DEF TypeOK, TakenInv, UseNil, Goto, Unlock, LockInv
  <1>4. DepthInv'
    BY SizeAssumption DEF TypeOK, DepthInv, UseNil, Goto
  <1>5. SoundInv'
    BY DEF TypeOK, SoundInv, UseNil, Goto
  <1>6. Exclusive'
    BY DEF TypeOK, Exclusive, Owns, UseNil, Goto
  <1> QED
    BY <1>1, <1>2, <1>3, <1>4, <1>5, <1>6

(* A run goes on after a nested one, or panics. *)
LEMMA PushResultKeeps ==
  ASSUME IInv, NEW v \in Vms, PushResult(v)
  PROVE  IInv'
  <1> USE DEF IInv
  <1>1. TypeOK'
    BY PoolsAssumption, SizeAssumption DEF TypeOK, PushResult, Goto, Unlock, Stages, DepthInv
  <1>2. LockInv'
    BY DEF TypeOK, LockInv, PushResult, Goto, Unlock
  <1>3. TakenInv'
    BY DEF TypeOK, TakenInv, PushResult, Goto, Unlock, LockInv
  <1>4. DepthInv'
    BY SizeAssumption DEF TypeOK, DepthInv, PushResult, Goto
  <1>5. SoundInv'
    BY DEF TypeOK, SoundInv, PushResult, Goto
  <1>6. Exclusive'
    BY DEF TypeOK, Exclusive, Owns, PushResult, Goto
  <1> QED
    BY <1>1, <1>2, <1>3, <1>4, <1>5, <1>6

(* A run returns. *)
LEMMA ReturnKeeps ==
  ASSUME IInv, NEW v \in Vms, Return(v)
  PROVE  IInv'
  <1> USE DEF IInv
  <1>1. TypeOK'
    BY PoolsAssumption, SizeAssumption DEF TypeOK, Return, Goto, Unlock, Stages, DepthInv
  <1>2. LockInv'
    BY DEF TypeOK, LockInv, Return, Goto, Unlock
  <1>3. TakenInv'
    BY DEF TypeOK, TakenInv, Return, Goto, Unlock, LockInv
  <1>4. DepthInv'
    BY SizeAssumption DEF TypeOK, DepthInv, Return, Goto
  <1>5. SoundInv'
    BY DEF TypeOK, SoundInv, Return, Goto
  <1>6. Exclusive'
    BY DEF TypeOK, Exclusive, Owns, Return, Goto
  <1> QED
    BY <1>1, <1>2, <1>3, <1>4, <1>5, <1>6

(* put takes the lock. *)
LEMMA LockForPutKeeps ==
  ASSUME IInv, NEW v \in Vms, LockForPut(v)
  PROVE  IInv'
  <1> USE DEF IInv
  <1>1. TypeOK'
    BY PoolsAssumption, SizeAssumption DEF TypeOK, LockForPut, Goto, Unlock, Stages, DepthInv
  <1>2. LockInv'
    BY DEF TypeOK, LockInv, LockForPut, Goto, Unlock
  <1>3. TakenInv'
    BY DEF TypeOK, TakenInv, LockForPut, Goto, Unlock, LockInv
  <1>4. DepthInv'
    BY SizeAssumption DEF TypeOK, DepthInv, LockForPut, Goto
  <1>5. SoundInv'
    BY DEF TypeOK, SoundInv, LockForPut, Goto
  <1>6. Exclusive'
    BY DEF TypeOK, Exclusive, Owns, LockForPut, Goto
  <1> QED
    BY <1>1, <1>2, <1>3, <1>4, <1>5, <1>6

(* put stores the pool when there is room. *)
LEMMA PutKeeps ==
  ASSUME IInv, NEW v \in Vms, Put(v)
  PROVE  IInv'
  <1> USE DEF IInv
  <1>1. TypeOK'
    BY PoolsAssumption, SizeAssumption DEF TypeOK, Put, Goto, Unlock, Stages, DepthInv
  <1>2. LockInv'
    BY DEF TypeOK, LockInv, Put, Goto, Unlock
  <1>3. TakenInv'
    BY DEF TypeOK, TakenInv, Put, Goto, Unlock, LockInv
  <1>4. DepthInv'
    BY SizeAssumption DEF TypeOK, DepthInv, Put, Goto
  <1>a. Elements(pools') \subseteq Elements(pools) \cup {intPool[v]}
    BY DEF Put, TypeOK, Elements
  <1>5. SoundInv'
    BY <1>a DEF TypeOK, SoundInv, Put, Goto
  <1>6. Exclusive'
    <2>1. \A w \in Vms, q \in Pools : Owns(w, q)' => Owns(w, q) /\ w # v
      BY DEF TypeOK, Owns, Put, Goto
    <2>2. \A q \in Pools : q = intPool[v] => Owns(v, q)
      BY PoolsAssumption DEF Owns, Put
    <2>3. \A i \in DOMAIN pools : pools[i] # Nil => pools[i] # intPool[v]
      BY <2>2 DEF Exclusive, Elements, TypeOK
    <2>4. \A i, j \in DOMAIN pools' : pools'[i] = pools'[j] /\ pools'[i] # Nil => i = j
      BY <2>3 DEF Exclusive, TypeOK, Put
    <2>5. \A w \in Vms, q \in Pools : Owns(w, q)' => q \notin Elements(pools')
      BY <1>a, <2>1, <2>2 DEF Exclusive
    <2> QED
      BY <2>1, <2>4, <2>5 DEF Exclusive
  <1> QED
    BY <1>1, <1>2, <1>3, <1>4, <1>5, <1>6

(* The VM forgets the pool it gave back. *)
LEMMA ClearKeeps ==
  ASSUME IInv, NEW v \in Vms, Clear(v)
  PROVE  IInv'
  <1> USE DEF IInv
  <1>1. TypeOK'
    BY PoolsAssumption, SizeAssumption DEF TypeOK, Clear, Goto, Unlock, Stages, DepthInv
  <1>2. LockInv'
    BY DEF TypeOK, LockInv, Clear, Goto, Unlock
  <1>3. TakenInv'
    BY DEF TypeOK, TakenInv, Clear, Goto, Unlock, LockInv
  <1>4. DepthInv'
    BY SizeAssumption DEF TypeOK, DepthInv, Clear, Goto
  <1>5. SoundInv'
    BY DEF TypeOK, SoundInv, DepthInv, Clear, Goto
  <1>6. Exclusive'
    BY DEF TypeOK, Exclusive, Owns, Clear, Goto
  <1> QED
    BY <1>1, <1>2, <1>3, <1>4, <1>5, <1>6

(* The invariant holds initially and every step keeps it. *)
LEMMA Invariance == Spec => []IInv
  <1>1. Init => IInv
    <2> SUFFICES ASSUME Init PROVE IInv
      OBVIOUS
    <2>1. TypeOK
      <3>1. pools \in Seq(Pools \cup {Nil}) /\ Len(pools) <= PoolDefaultCap
        BY EmptySeq, SizeAssumption DEF Init
      <3>2. lock \subseteq Vms /\ nested \in BOOLEAN
        BY DEF Init
      <3>3. /\ intPool \in [Vms -> Pools \cup {Nil}]
            /\ taken \in [Vms -> Pools \cup {Nil}]
        BY DEF Init
      <3>4. stage \in [Vms -> Stages] /\ panicking \in [Vms -> BOOLEAN]
        BY DEF Init, Stages
      <3>5. depth \in [Vms -> 0..MaxDepth]
        BY SizeAssumption DEF Init
      <3> QED
        BY <3>1, <3>2, <3>3, <3>4, <3>5 DEF TypeOK
    <2>2. LockInv /\ TakenInv /\ DepthInv
      BY DEF Init, LockInv, TakenInv, DepthInv
    <2>3. SoundInv /\ Exclusive
      BY DEF Init, SoundInv, Exclusive, Owns, Elements
    <2> QED
      BY <2>1, <2>2, <2>3 DEF IInv
  <1>2. IInv /\ [Next]_vars => IInv'
    <2> SUFFICES ASSUME IInv, [Next]_vars PROVE IInv'
      OBVIOUS
    <2>1. CASE UNCHANGED vars
      BY <2>1 DEF vars, IInv, TypeOK, LockInv, TakenInv, DepthInv, SoundInv,
         Exclusive, Owns
    <2>2. CASE Next
      BY <2>2, CallKeeps, LockForGetKeeps, NewPoolKeeps, TakePoolKeeps, ShrinkKeeps,
         DelegateKeeps, UseNilKeeps, PushResultKeeps, ReturnKeeps, LockForPutKeeps,
         PutKeeps, ClearKeeps DEF Next, Get, Code
    <2> QED
      BY <2>1, <2>2
  <1> QED
    BY <1>1, <1>2, PTL DEF Spec

(* Every variable has its type and the shared slice stays within its       *)
(* capacity, however many VMs give back at once (intpool.go:76-83).        *)
THEOREM TypeCorrect == Spec => []TypeOK
  <1>1. IInv => TypeOK
    BY DEF IInv
  <1> QED
    BY <1>1, Invariance, PTL

(* Two VMs never work with the same intPool, with or without nested runs   *)
(* and panics: the lock and the order of put before clear are enough.      *)
THEOREM PoolsAreExclusive == Spec => []Exclusive
  <1>1. IInv => Exclusive
    BY DEF IInv
  <1> QED
    BY <1>1, Invariance, PTL

(* While no contract delegates, every run has a pool (vm.go:240-244).      *)
THEOREM RunsHavePools == Spec => []PoolWhileRunning
  <1>1. IInv => PoolWhileRunning
    BY DEF IInv, SoundInv, PoolWhileRunning
  <1> QED
    BY <1>1, Invariance, PTL
=============================================================================
