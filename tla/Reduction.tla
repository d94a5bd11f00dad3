------------------------------ MODULE Reduction ------------------------------
(***************************************************************************)
(* The end of a kernel with reductions (include/charm/sycl/reduction.ipp), *)
(* as the lower compiler implements it for the targets (src/chsy-lower).   *)
(* On a GPU every thread has a sum of its own; the warps add theirs up     *)
(* with shuffles, the first lanes add them to a variable that the block    *)
(* shares, and the leader of the block adds that to the buffer.  On a CPU  *)
(* there is one sum for the whole kernel, and the loop around the kernel   *)
(* may be shared by threads of OpenMP.                                     *)
(*                                                                         *)
(* The n-th thread contributes 2^n, so that a sum shows what it is of.     *)
(***************************************************************************)
EXTENDS Integers, Sequences, FiniteSetsExt

CONSTANTS
  Targets,   \* "gpu", "cpu"
  Blocks,    \* number of blocks
  Threads,   \* number of threads of a block; on a CPU, iterations of the loop
  WarpSize,  \* lanes of a warp
  Reducers,  \* number of reductions of the kernel, one on a CPU
  OpenMP     \* are the iterations on a CPU run by threads (cpu-openmp)?

ReductionAssumption ==
  /\ Targets \subseteq {"gpu", "cpu"} /\ OpenMP \in BOOLEAN
  /\ "cpu" \in Targets => Reducers = 1
  /\ {Blocks, Threads, WarpSize, Reducers} \subseteq Nat \ {0}

VARIABLES
  target,  \* what the kernel was compiled for
  pc,      \* where each thread is
  r,       \* the reduction it finalizes
  val,     \* its sum, reducer::val_; on a CPU that of thread 0 is everybody's
  seen,    \* a value a thread has read and not yet used
  red,     \* the __shared__ variable of each block
  result   \* what the buffers hold

vars == <<target, pc, r, val, seen, red, result>>

Places == (0 .. Blocks - 1) \X (0 .. Threads - 1)
Block(p) == {q \in Places : q[1] = p[1]}
Warp(p) == {q \in Block(p) : q[2] \div WarpSize = p[2] \div WarpSize}
Lane(p) == p[2] % WarpSize

Contribution(p) == 2 ^ (p[1] * Threads + p[2])
Total == SumSet({Contribution(p) : p \in Places})

(* reduction() has filled the buffers with zero, initialize() the sums.    *)
Init ==
  /\ target \in Targets
  /\ pc = [p \in Places |-> "loop"]
  /\ r = [p \in Places |-> 1]
  /\ val = [p \in Places |-> 0]
  /\ seen = [p \in Places |-> 0]
  /\ red \in [0 .. Blocks - 1 -> {0, 1}]   \* shared memory is not initialized
  /\ result = [i \in 1 .. Reducers |-> 0]

Goto(p, l) == pc' = [pc EXCEPT ![p] = l]
-----------------------------------------------------------------------------
(* threadIdx.x = 0 and so on.                                              *)
IsLeader(p) == p[2] = 0

IsLeaderLane(p) == Lane(p) = 0

(* reduce_combine: the thread's own sum.                                   *)
GpuLoop(p) ==
  /\ target = "gpu" /\ pc[p] = "loop"
  /\ val' = [val EXCEPT ![p] = Contribution(p)]
  /\ Goto(p, "init")
  /\ UNCHANGED <<target, r, seen, red, result>>

(* if (is_leader) red = 0;                                                 *)
InitRed(p) ==
  /\ pc[p] = "init"
  /\ red' = IF IsLeader(p) THEN [red EXCEPT ![p[1]] = 0] ELSE red
  /\ Goto(p, "sync1")
  /\ UNCHANGED <<target, r, val, seen, result>>

SyncThreads_fault(p, at, next) ==
  /\ pc[p] = at
  /\ Goto(p, next)
  /\ UNCHANGED <<target, r, val, seen, red, result>>

(* __syncthreads: the block's threads go on when all have come.            *)
SyncThreads(p, at, next) ==
  /\ \A q \in Block(p) : pc[q] = at
  /\ pc' = [q \in Places |-> IF q \in Block(p) THEN next ELSE pc[q]]
  /\ UNCHANGED <<target, r, val, seen, red, result>>

(* One shuffle: each lane adds what the lane delta further has.  A lane    *)
(* past the end of the warp gives the own value back; one that the block   *)
(* does not have gives anything.                                           *)
Shuffle(w, delta, v) ==
  {[p \in w |->
      v[p] + ( LET q == <<p[1], p[2] + delta>>
               IN  CASE Lane(p) + delta >= WarpSize -> v[p]
                     [] q \in w -> v[q]
                     [] OTHER   -> junk )] : junk \in {0, 1}}

(* warpSize / 2, then halved down to 1.                                    *)
Deltas ==
  LET Half[d \in 0 .. WarpSize] == IF d = 0 THEN <<>> ELSE <<d>> \o Half[d \div 2]
  IN  Half[WarpSize \div 2]

(* sum_in_warp: the lanes of a warp run the shuffles together.             *)
SumInWarp(p) ==
  LET w == Warp(p)
      Sums[k \in 0 .. Len(Deltas)] ==
        IF k = 0 THEN {[q \in w |-> val[q]]} ELSE UNION {Shuffle(w, Deltas[k], v) : v \in Sums[k - 1]}
  IN  /\ \A q \in w : pc[q] = "warp"
      /\ \E v \in Sums[Len(Deltas)] : val' = [q \in Places |-> IF q \in w THEN v[q] ELSE val[q]]
      /\ pc' = [q \in Places |-> IF q \in w THEN "add" ELSE pc[q]]
      /\ UNCHANGED <<target, r, seen, red, result>>

(* if (is_leader_lane()) atomicAdd(&red, val);                             *)
AddToBlock(p) ==
  /\ pc[p] = "add"
  /\ red' = IF IsLeaderLane(p) THEN [red EXCEPT ![p[1]] = @ + val[p]] ELSE red
  /\ Goto(p, "sync2")
  /\ UNCHANGED <<target, r, val, seen, result>>

(* if (is_leader) atomicAdd(g_ptr, red): red is read first.                *)
ReadRed(p) ==
  /\ pc[p] = "read"
  /\ IF IsLeader(p)
     THEN seen' = [seen EXCEPT ![p] = red[p[1]]] /\ Goto(p, "global")
     ELSE UNCHANGED seen /\ Goto(p, "next")
  /\ UNCHANGED <<target, r, val, red, result>>

AddToBuffer(p) ==
  /\ pc[p] = "global"
  /\ result' = [result EXCEPT ![r[p]] = @ + seen[p]]
  /\ Goto(p, "next")
  /\ UNCHANGED <<target, r, val, seen, red>>

(* (reducers.finalize(is_leader), ...): the next one uses the same red.    *)
NextReducer(p) ==
  /\ pc[p] = "next"
  /\ IF r[p] < Reducers
     THEN /\ r' = [r EXCEPT ![p] = @ + 1]
          /\ val' = [val EXCEPT ![p] = Contribution(p)]
          /\ Goto(p, "init")
     ELSE Goto(p, "end") /\ UNCHANGED <<r, val>>
  /\ UNCHANGED <<target, seen, red, result>>

GpuThread(p) ==
  \/ GpuLoop(p) \/ InitRed(p) \/ SyncThreads(p, "sync1", "warp") \/ SumInWarp(p)
  \/ AddToBlock(p) \/ SyncThreads(p, "sync2", "read") \/ ReadRed(p) \/ AddToBuffer(p) \/ NextReducer(p)
-----------------------------------------------------------------------------
Shared == <<0, 0>>

CpuFirst(q, p) == q[1] < p[1] \/ (q[1] = p[1] /\ q[2] < p[2])

(* *val += partial, in the loop that OpenMP gives its threads: val belongs *)
(* to the kernel function around the loop.                                 *)
CpuLoad(p) ==
  /\ target = "cpu" /\ pc[p] = "loop"
  /\ OpenMP \/ \A q \in Places : CpuFirst(q, p) => pc[q] = "done"
  /\ seen' = [seen EXCEPT ![p] = val[Shared]]
  /\ Goto(p, "store")
  /\ UNCHANGED <<target, r, val, red, result>>

CpuStore(p) ==
  /\ pc[p] = "store"
  /\ val' = [val EXCEPT ![Shared] = seen[p] + Contribution(p)]
  /\ Goto(p, "done")
  /\ UNCHANGED <<target, r, seen, red, result>>

(* The end of the loop waits for its threads; __atomic_fetch_add.          *)
CpuFinalize ==
  /\ \A p \in Places : pc[p] = "done"
  /\ result' = [result EXCEPT ![1] = @ + val[Shared]]
  /\ pc' = [p \in Places |-> "end"]
  /\ UNCHANGED <<target, r, val, seen, red>>

Step == (\E p \in Places : GpuThread(p) \/ CpuLoad(p) \/ CpuStore(p)) \/ CpuFinalize

Ended == \A p \in Places : pc[p] = "end"

Next == Step \/ (Ended /\ UNCHANGED vars)

Spec == Init /\ [][Next]_vars

(* The hardware runs every thread of a block that can go on, and the       *)
(* operating system every thread of a program.                             *)
FairSpec == Spec /\ WF_vars(Step)
-----------------------------------------------------------------------------
(* At the end of the kernel each buffer holds the sum of what all the      *)
(* threads contributed, each once, and nothing that was left in shared     *)
(* memory, however the threads, warps and blocks interleave.               *)
SumIsRight == Ended => \A i \in 1 .. Reducers : result[i] = Total

(* No contribution is counted twice on the way.                            *)
NeverTooMuch == \A i \in 1 .. Reducers : result[i] <= Total
=============================================================================
