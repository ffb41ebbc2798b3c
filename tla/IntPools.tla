----------------------------- MODULE IntPools -----------------------------
(***************************************************************************)
(* poolOfIntPools (src/vm/intpool.go), the pools of big integers that all  *)
(* the VMs of a process share, and how run takes a pool from it and gives  *)
(* it back (src/vm/vm.go:240-244).                                         *)
(*                                                                         *)
(* Each VM runs in a goroutine of its own.  The pool a run works with is   *)
(* vm.intPool, one field per VM and not one per run, so a nested run       *)
(* (DELEGATECALL) overwrites and finally clears the field of the run that  *)
(* called it.  A goroutine that panics unwinds the deferred puts of all    *)
(* its runs and is then recovered by its caller.                           *)
(***************************************************************************)
EXTENDS Integers, Sequences

CONSTANTS
  Vms,             \* goroutines, each of which makes VMs one after another
  Pools,           \* identities of intPools
  Nil,             \* the nil pointer
  PoolDefaultCap,
  MaxDepth         \* bound: nested runs of one VM

ASSUME PoolsAssumption == Nil \notin Pools
ASSUME SizeAssumption  == PoolDefaultCap \in Nat /\ MaxDepth \in Nat \ {0}

VARIABLES
  pools,       \* poolOfIntPools.pools
  lock,        \* the VMs that hold poolOfIntPools.lock
  intPool,     \* vm.intPool
  taken,       \* ip, the local variable of intPoolPool.get
  stage,       \* where the innermost run of a VM is
  depth,       \* number of runs of a VM that have not returned
  panicking,   \* is the goroutine unwinding?
  nested       \* history: some contract has executed a DELEGATECALL

vars == <<pools, lock, intPool, taken, stage, depth, panicking, nested>>

Stages == {"idle", "getLock", "getPool", "getShrink", "run", "resume",
           "putLock", "putPool", "clear"}

Front(s) == SubSeq(s, 1, Len(s) - 1)
Elements(s) == {s[i] : i \in DOMAIN s}

Init ==
  /\ pools = <<>> /\ lock = {}
  /\ intPool = [v \in Vms |-> Nil] /\ taken = [v \in Vms |-> Nil]
  /\ stage = [v \in Vms |-> "idle"]
  /\ depth = [v \in Vms |-> 0]
  /\ panicking = [v \in Vms |-> FALSE]
  /\ nested = FALSE

Goto(v, s) == stage' = [stage EXCEPT ![v] = s]

Unlock(v) == lock' = lock \ {v}

-----------------------------------------------------------------------------
(* run starts: poolOfIntPools.get() under the lock. *)

Call(v) ==
  /\ stage[v] = "idle"
  /\ Goto(v, "getLock")
  /\ depth' = [depth EXCEPT ![v] = 1]
  /\ UNCHANGED <<pools, lock, intPool, taken, panicking, nested>>

LockForGetMutant(v) ==
  /\ stage[v] = "getLock"
  /\ lock' = lock \cup {v}
  /\ Goto(v, "getPool")
  /\ UNCHANGED <<pools, intPool, taken, depth, panicking, nested>>

LockForGet(v) ==
  /\ stage[v] = "getLock" /\ lock = {}
  /\ lock' = lock \cup {v}
  /\ Goto(v, "getPool")
  /\ UNCHANGED <<pools, intPool, taken, depth, panicking, nested>>

(* An intPool nobody can reach any more may be the next one allocated. *)
Unreachable(p) == p \notin Elements(pools) /\ \A v \in Vms : p \notin {intPool[v], taken[v]}

NewPool(v) ==
  /\ stage[v] = "getPool" /\ Len(pools) = 0
  /\ \E p \in Pools : Unreachable(p) /\ intPool' = [intPool EXCEPT ![v] = p]
  /\ Unlock(v)
  /\ Goto(v, "run")
  /\ UNCHANGED <<pools, taken, depth, panicking, nested>>

TakePool(v) ==
  /\ stage[v] = "getPool" /\ Len(pools) > 0
  /\ taken' = [taken EXCEPT ![v] = pools[Len(pools)]]
  /\ Goto(v, "getShrink")
  /\ UNCHANGED <<pools, lock, intPool, depth, panicking, nested>>

ShrinkMutant(v) ==
  /\ stage[v] = "getShrink"
  /\ pools' = Front(pools)
  /\ intPool' = [intPool EXCEPT ![v] = taken[v]]
  /\ taken' = [taken EXCEPT ![v] = Nil]
  /\ Goto(v, "run")
  /\ UNCHANGED <<lock, depth, panicking, nested>>

Shrink(v) ==
  /\ stage[v] = "getShrink"
  /\ pools' = Front(pools)
  /\ Unlock(v)
  /\ intPool' = [intPool EXCEPT ![v] = taken[v]]
  /\ taken' = [taken EXCEPT ![v] = Nil]
  /\ Goto(v, "run")
  /\ UNCHANGED <<depth, panicking, nested>>

-----------------------------------------------------------------------------
(* The code runs. *)

(* A nested run: run is called for the code of another account. *)
Delegate(v) ==
  /\ stage[v] = "run" /\ depth[v] < MaxDepth
  /\ Goto(v, "getLock")
  /\ depth' = [depth EXCEPT ![v] = depth[v] + 1]
  /\ nested' = TRUE
  /\ UNCHANGED <<pools, lock, intPool, taken, panicking>>

(* Almost every instruction uses the pool; without one it panics. *)
UseNil(v) ==
  /\ stage[v] = "run" /\ intPool[v] = Nil
  /\ Goto(v, "putLock")
  /\ panicking' = [panicking EXCEPT ![v] = TRUE]
  /\ UNCHANGED <<pools, lock, intPool, taken, depth, nested>>

(* opDelegateCall, back from the nested run, takes an integer for its result. *)
PushResult(v) ==
  /\ stage[v] = "resume"
  /\ panicking' = [panicking EXCEPT ![v] = intPool[v] = Nil]
  /\ Goto(v, IF intPool[v] = Nil THEN "putLock" ELSE "run")
  /\ UNCHANGED <<pools, lock, intPool, taken, depth, nested>>

ReturnMutant(v) ==
  /\ stage[v] = "run"
  /\ intPool' = [intPool EXCEPT ![v] = Nil]
  /\ Goto(v, "putLock")
  /\ UNCHANGED <<pools, lock, taken, depth, panicking, nested>>

Return(v) ==
  /\ stage[v] = "run"
  /\ Goto(v, "putLock")
  /\ UNCHANGED <<pools, lock, intPool, taken, depth, panicking, nested>>

-----------------------------------------------------------------------------
(* The deferred function of run: poolOfIntPools.put(vm.intPool) under the  *)
(* lock, then vm.intPool = nil.                                            *)

LockForPut(v) ==
  /\ stage[v] = "putLock" /\ lock = {}
  /\ lock' = lock \cup {v}
  /\ Goto(v, "putPool")
  /\ UNCHANGED <<pools, intPool, taken, depth, panicking, nested>>

PutMutant(v) ==
  /\ stage[v] = "putPool"
  /\ pools' = Append(pools, intPool[v])
  /\ Unlock(v)
  /\ Goto(v, "clear")
  /\ UNCHANGED <<intPool, taken, depth, panicking, nested>>

Put(v) ==
  /\ stage[v] = "putPool"
  /\ pools' = IF Len(pools) < PoolDefaultCap THEN Append(pools, intPool[v])
              ELSE pools
  /\ Unlock(v)
  /\ Goto(v, "clear")
  /\ UNCHANGED <<intPool, taken, depth, panicking, nested>>

(* The run has returned: to nothing, to the deferred function of the run   *)
(* that called it when the goroutine unwinds, or to opDelegateCall.        *)
Clear(v) ==
  /\ stage[v] = "clear"
  /\ intPool' = [intPool EXCEPT ![v] = Nil]
  /\ depth' = [depth EXCEPT ![v] = depth[v] - 1]
  /\ panicking' = [panicking EXCEPT ![v] = panicking[v] /\ depth[v] > 1]
  /\ Goto(v, IF depth[v] = 1 THEN "idle"
             ELSE IF panicking[v] THEN "putLock" ELSE "resume")
  /\ UNCHANGED <<pools, lock, taken, nested>>

-----------------------------------------------------------------------------
Get(v) == NewPool(v) \/ TakePool(v) \/ Shrink(v)
Code(v) == Delegate(v) \/ UseNil(v) \/ PushResult(v) \/ Return(v)

Next == \E v \in Vms :
  Call(v) \/ LockForGet(v) \/ Get(v) \/ Code(v) \/ LockForPut(v) \/ Put(v) \/ Clear(v)

Spec == Init /\ [][Next]_vars

(* A goroutine inside get or put goes on, and a sync.Mutex that is         *)
(* released over and over is not kept from one that waits for it for ever. *)
FairSpec ==
  /\ Spec
  /\ \A v \in Vms : /\ WF_vars(Get(v) \/ Put(v))
                    /\ SF_vars(LockForGet(v)) /\ SF_vars(LockForPut(v))

-----------------------------------------------------------------------------
(* Every variable has its type, and the slice of pools never outgrows the  *)
(* capacity it was made with (intpool.go:80).                              *)
TypeOK ==
  /\ pools \in Seq(Pools \cup {Nil}) /\ Len(pools) <= PoolDefaultCap
  /\ lock \subseteq Vms
  /\ intPool \in [Vms -> Pools \cup {Nil}] /\ taken \in [Vms -> Pools \cup {Nil}]
  /\ stage \in [Vms -> Stages] /\ depth \in [Vms -> 0..MaxDepth]
  /\ panicking \in [Vms -> BOOLEAN] /\ nested \in BOOLEAN

(* v may still use the pool in its field. *)
Owns(v, p) == p # Nil /\ intPool[v] = p /\ stage[v] # "clear"

(* An intPool has no lock of its own, so a VM that may still use one shares *)
(* it with nobody: no other VM uses it, and no VM can get it from the      *)
(* shared pools, where it is not even once; what is there, is there once.  *)
Exclusive ==
  /\ \A v, w \in Vms, p \in Pools : Owns(v, p) /\ Owns(w, p) => v = w
  /\ \A v \in Vms, p \in Pools : Owns(v, p) => p \notin Elements(pools)
  /\ \A i, j \in DOMAIN pools : pools[i] = pools[j] /\ pools[i] # Nil => i = j

(* Unless some contract delegates, code always has a pool to run with: no  *)
(* VM takes one that another has spoiled.                                  *)
PoolWhileRunning == ~nested => \A v \in Vms : stage[v] = "run" => intPool[v] # Nil

(* Whoever calls run gets to run its code, whatever the others do with the *)
(* shared pools and even when they panic.                                  *)
GetReturns == \A v \in Vms : stage[v] = "getLock" ~> stage[v] = "run"

-----------------------------------------------------------------------------
(* The inductive invariant behind the safety properties. *)

LockInv ==
  /\ \A v \in Vms : v \in lock <=> stage[v] \in {"getPool", "getShrink", "putPool"}
  /\ \A v, w \in lock : v = w

(* The pool a VM has read is the last one until it is removed. *)
TakenInv ==
  \A v \in Vms : IF stage[v] = "getShrink"
                 THEN Len(pools) > 0 /\ taken[v] = pools[Len(pools)]
                 ELSE taken[v] = Nil

DepthInv == \A v \in Vms : stage[v] = "idle" <=> depth[v] = 0

(* Before the first nested run every pool is there. *)
SoundInv ==
  ~nested =>
    /\ Nil \notin Elements(pools)
    /\ \A v \in Vms : /\ depth[v] <= 1 /\ ~panicking[v] /\ stage[v] # "resume"
                      /\ stage[v] \in {"run", "putLock", "putPool"} => intPool[v] # Nil

IInv == TypeOK /\ LockInv /\ TakenInv /\ DepthInv /\ SoundInv /\ Exclusive

-----------------------------------------------------------------------------
(* A statement of a comment that the code does not keep. *)

(* intpool.go:75, "put a pool that has been allocated with get": what is   *)
(* put is a pool.                                                          *)
OnlyPoolsArePut == Nil \notin Elements(pools)
=============================================================================
