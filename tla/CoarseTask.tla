----------------------------- MODULE CoarseTask -----------------------------
(***************************************************************************)
(* The CUDA back end's tasks (lib/sycl/dev_rts/task.cpp, coarse_task.cpp   *)
(* and cuda/dev_rts_cuda.cpp).  A coarse_task is what the dependency       *)
(* manager sees, one for each command group.  It is made of fine tasks:    *)
(* one copy for each buffer that must be brought in, and the kernel task,  *)
(* which comes after the copies and stands for the group.  Fine tasks have *)
(* the counters, successors and mutex of an event_node; here each call on  *)
(* them is one step, because complete() holds the mutex of its task while  *)
(* it notifies, so that nobody can see or link a half-completed one.       *)
(*                                                                         *)
(* A fine task whose counters meet goes to q_, the one thread of which     *)
(* gives it to the queue of a stream; the thread of that queue completes   *)
(* it.  The queues are left unordered here: nothing relies on their order. *)
(***************************************************************************)
EXTENDS Naturals, FiniteSets

CONSTANTS
  Group,         (* coarse tasks: command groups, fills, host accessors    *)
  User,          (* the program's threads                                  *)
  Builder,       (* those of them that submit groups; the others wait      *)
  Barrier,       (* calls of wait                                          *)
  Cores,         (* the kinds of groups that the program makes             *)
  MaxParams,     (* buffers that a kernel uses                             *)
  MaxCopies,     (* bound: copies in all                                   *)
  NONE,
  BufferCopies   (* do groups copy from a buffer to a buffer?              *)

ASSUME CoarseAssumption ==
  /\ IsFiniteSet(Group) /\ IsFiniteSet(Barrier)
  /\ Group \intersect Barrier = {} /\ NONE \notin Group \union Barrier
  /\ Builder \subseteq User /\ Cores \subseteq {"host", "kernel", "copy", "fill"}
  /\ MaxParams \in Nat \ {0, 1} /\ MaxCopies \in Nat /\ BufferCopies \in BOOLEAN

(* What set_host, set_kernel, commit_as_core or fill made of the group.    *)
Core == {"host", "kernel", "copy", "fill"}

Kern(g) == <<g, 0>>
Copy(g, i) == <<g, i>>          \* the copy for the i-th buffer
Sync(b) == <<b, 0>>
Node == (Group \X (0 .. MaxParams)) \union (Barrier \X {0})
Kerns(P) == {Kern(p) : p \in P}

VARIABLES
  pc,        \* the group that a thread builds, or the barrier it waits for
  phase, core, params,
  kernel,    \* has the group a kernel task?  (kernel_, later kernel_weak_)
  depends,   \* depends_, by group
  fine,      \* the fine tasks
  arrived,   \* barriers at which the sync task has arrived
  needs,     \* the groups that a fine task should wait for
  waited     \* the groups that a wait was for

vars == <<pc, phase, core, params, kernel, depends, fine, arrived, needs, waited>>

Phase == {"open", "building", "bound", "submitted"}
(* Where a fine task is: not all notified, in q_, with a stream, complete. *)
Place == {"new", "queued", "running", "done"}
Fine == [nexts : [Node -> SUBSET Node], n_wait : [Node -> Nat], n_wake : [Node -> Nat],
         at : [Node -> Place]]

TypeOK ==
  /\ pc \in [User -> Group \union Barrier \union {NONE}]
  /\ phase \in [Group -> Phase] /\ core \in [Group -> Core]
  /\ params \in [Group -> 0 .. MaxParams]
  /\ kernel \in [Group -> BOOLEAN] /\ depends \in [Group -> SUBSET Group]
  /\ fine \in Fine
  /\ arrived \in SUBSET Barrier
  /\ needs \in [Node -> SUBSET Group] /\ waited \in [Barrier -> SUBSET Group]

Init ==
  /\ pc = [u \in User |-> NONE]
  /\ phase = [g \in Group |-> "open"] /\ core = [g \in Group |-> "kernel"]
  /\ params = [g \in Group |-> 0]
  /\ kernel = [g \in Group |-> FALSE] /\ depends = [g \in Group |-> {}]
  /\ fine = [nexts |-> [n \in Node |-> {}], n_wait |-> [n \in Node |-> 1],
             n_wake |-> [n \in Node |-> 0], at |-> [n \in Node |-> "new"]]
  /\ arrived = {}
  /\ needs = [n \in Node |-> {}] /\ waited = [b \in Barrier |-> {}]
-----------------------------------------------------------------------------
(* Fine tasks, as functions of all of them.                                *)
RunsAfter_fault(f, n, D) ==
  [f EXCEPT !.nexts = [d \in Node |-> IF d \in D THEN @[d] \union {n} ELSE @[d]],
            !.n_wait[n] = @ + Cardinality(D)]

(* runs_after, for the tasks in D: those that are not done are counted.    *)
(* (One that is named twice is counted, and notifies, twice; here once.)   *)
RunsAfter(f, n, D) ==
  LET L == {d \in D : f.at[d] # "done" /\ n \notin f.nexts[d]}
  IN  [f EXCEPT !.nexts = [d \in Node |-> IF d \in L THEN @[d] \union {n} ELSE @[d]],
                !.n_wait[n] = @ + Cardinality(L)]

Due(wake, wait) == wake = wait

(* notify: those that have been notified as often as they wait are queued. *)
Notify(f, N) ==
  LET wake == [n \in Node |-> IF n \in N THEN f.n_wake[n] + 1 ELSE f.n_wake[n]]
  IN  [f EXCEPT !.n_wake = wake,
                !.at = [n \in Node |-> IF n \in N /\ Due(wake[n], f.n_wait[n])
                                         THEN "queued" ELSE @[n]]]

Complete_fault(f, n) == [f EXCEPT !.at[n] = "done"]

(* complete: no successor is a task without an operation, so completing    *)
(* one does not complete others.                                           *)
Complete(f, n) == Notify([f EXCEPT !.at[n] = "done"], f.nexts[n])

(* commit(): the kernel task runs after the groups in D.                   *)
Commit(f, g, D) == RunsAfter(f, Kern(g), Kerns(D))

CommitCopy_fault(f, g, D, i) == Notify(RunsAfter(f, Copy(g, i), Kerns(D)), {Copy(g, i)})

(* commit(op): the copy runs after the groups in D and the kernel task     *)
(* after the copy.  The copy is finalized at once: it needs no submit.     *)
CommitCopy(f, g, D, i) ==
  Notify(RunsAfter(RunsAfter(f, Copy(g, i), Kerns(D)), Kern(g), {Copy(g, i)}), {Copy(g, i)})

Locked_fault(P) == {p \in P : fine.at[Kern(p)] = "new"}

(* lock_kernel_task, and event::lock: of the groups in P, those whose      *)
(* kernel task is found.  There is none before kernel_ is made.            *)
Locked(P) == {p \in P : kernel[p]}

Done(g) == fine.at[Kern(g)] = "done"

(* The kernel task of a group that is done may still exist: it is found,   *)
(* and nothing waits for it.                                               *)
Leftover == IF \E p \in Group : Done(p) THEN BOOLEAN ELSE {FALSE}
-----------------------------------------------------------------------------
(* A thread makes a group; all but a fill_zero take g_lock to bind it.     *)
Begin(u, g, c) ==
  /\ u \in Builder /\ c \in Cores /\ pc[u] = NONE /\ phase[g] = "open"
  /\ c # "fill" => \A h \in Group : phase[h] = "building" => core[h] = "fill"
  /\ pc' = [pc EXCEPT ![u] = g]
  /\ phase' = [phase EXCEPT ![g] = "building"] /\ core' = [core EXCEPT ![g] = c]
  /\ UNCHANGED <<params, kernel, depends, fine, arrived, needs, waited>>

Copies == {n \in Group \X (1 .. MaxParams) : fine.n_wake[n] > 0}

MayCopy == IF Cardinality(Copies) < MaxCopies THEN BOOLEAN ELSE {FALSE}

Building(u, g) == pc[u] = g /\ phase[g] = "building"

(* The groups that another may have to wait for.                           *)
Pending == {p \in Group : phase[p] \in {"bound", "submitted"} /\ ~Done(p)}

(* set_buffer_param for a buffer that must wait for P; does it need a copy?*)
SetBufferParam(u, g) ==
  /\ Building(u, g)
  /\ core[g] # "fill" /\ params[g] < (IF core[g] = "kernel" THEN MaxParams ELSE 1)
  /\ \E P \in SUBSET Pending, copies \in MayCopy, leftover \in Leftover :
       LET D == Locked(P)
           i == params[g] + 1
       IN  /\ fine' = IF copies THEN CommitCopy(fine, g, D, i) ELSE Commit(fine, g, D)
           /\ kernel' = [kernel EXCEPT ![g] = @ \/ copies \/ D # {} \/ leftover]
           /\ needs' = [needs EXCEPT ![Kern(g)] = @ \union P,
                                     ![Copy(g, i)] = IF copies THEN P ELSE {}]
           /\ params' = [params EXCEPT ![g] = i]
  /\ UNCHANGED <<pc, phase, core, depends, arrived, waited>>

(* handler::copy from a buffer to a buffer: depends_on for both, then      *)
(* set_buffer_param for the destination and for the source.                *)
CopyBuffer(u, g) ==
  /\ Building(u, g) /\ core[g] = "copy" /\ params[g] = 0 /\ BufferCopies
  /\ \E P, Q \in SUBSET Pending, dst_copies, src_copies \in MayCopy :
       LET D == Locked(P \union Q)
           f == IF dst_copies THEN CommitCopy(fine, g, D, 1) ELSE Commit(fine, g, D)
       IN  /\ fine' = IF src_copies THEN CommitCopy(f, g, {}, 2) ELSE f
           /\ needs' = [needs EXCEPT ![Kern(g)] = P \union Q,
                                     ![Copy(g, 1)] = IF dst_copies THEN P ELSE {},
                                     ![Copy(g, 2)] = IF src_copies THEN Q ELSE {}]
  /\ kernel' = [kernel EXCEPT ![g] = TRUE]
  /\ params' = [params EXCEPT ![g] = 2]
  /\ UNCHANGED <<pc, phase, core, depends, arrived, waited>>

(* end_params.  A copy has made its kernel task by then (commit_as_core).  *)
EndParams(u, g) ==
  /\ Building(u, g) /\ core[g] # "fill" /\ (core[g] # "kernel" => params[g] > 0)
  /\ phase' = [phase EXCEPT ![g] = "bound"]
  /\ kernel' = [kernel EXCEPT ![g] = @ \/ core[g] = "copy"]
  /\ UNCHANGED <<pc, core, params, depends, fine, arrived, needs, waited>>

(* fill: commit_as_core makes the kernel task, and what it waits for is    *)
(* left in depends_ until submit.                                          *)
Fill(u, g) ==
  /\ Building(u, g) /\ core[g] = "fill"
  /\ \E P \in SUBSET Pending :
       /\ depends' = [depends EXCEPT ![g] = Locked(P)]
       /\ needs' = [needs EXCEPT ![Kern(g)] = P]
  /\ phase' = [phase EXCEPT ![g] = "bound"]
  /\ kernel' = [kernel EXCEPT ![g] = TRUE]
  /\ UNCHANGED <<pc, core, params, fine, arrived, waited>>

(* submit: finalizes the kernel task.  A host accessor that needs no copy  *)
(* and waits for nothing has an empty one, which completes at once.        *)
Submit(u, g) ==
  /\ pc[u] = g /\ phase[g] = "bound"
  /\ fine' = IF core[g] = "host" /\ ~kernel[g]
               THEN Complete([fine EXCEPT !.n_wake[Kern(g)] = 1], Kern(g))
               ELSE Notify(Commit(fine, g, depends[g]), {Kern(g)})
  /\ kernel' = [kernel EXCEPT ![g] = TRUE]
  /\ depends' = [depends EXCEPT ![g] = {}]
  /\ phase' = [phase EXCEPT ![g] = "submitted"]
  /\ pc' = [pc EXCEPT ![u] = NONE]
  /\ UNCHANGED <<core, params, arrived, needs, waited>>

(* event_barrier: add for the events of some submitted groups, then wait.  *)
(* With no event left there is nothing to wait for.                        *)
Wait(u, b) ==
  /\ pc[u] = NONE /\ waited[b] = {}
  /\ \E P \in SUBSET {p \in Pending : phase[p] = "submitted"} :
       /\ P # {}
       /\ fine' = Notify(RunsAfter(fine, Sync(b), Kerns(Locked(P))), {Sync(b)})
       /\ waited' = [waited EXCEPT ![b] = P]
  /\ pc' = [pc EXCEPT ![u] = b]
  /\ UNCHANGED <<phase, core, params, kernel, depends, arrived, needs>>

(* arrive_and_wait returns when the sync task has arrived, too.            *)
Return(u) ==
  /\ pc[u] \in arrived
  /\ pc' = [pc EXCEPT ![u] = NONE]
  /\ UNCHANGED <<phase, core, params, kernel, depends, fine, arrived, needs, waited>>
-----------------------------------------------------------------------------
program_vars == <<pc, phase, core, params, kernel, depends, needs, waited>>

(* run_op on the thread of q_: the sync task of a barrier arrives, a host  *)
(* accessor's kernel task has nothing to do, others go to a stream.        *)
RunOp(n) ==
  /\ fine.at[n] = "queued"
  /\ \/ /\ n \in Barrier \X {0}
        /\ arrived' = arrived \union {n[1]}
        /\ fine' = Complete(fine, n)
     \/ /\ n \in Kerns({g \in Group : core[g] = "host"})
        /\ fine' = Complete(fine, n)
        /\ UNCHANGED arrived
     \/ /\ n \notin Barrier \X {0} /\ n \notin Kerns({g \in Group : core[g] = "host"})
        /\ fine' = [fine EXCEPT !.at[n] = "running"]
        /\ UNCHANGED arrived
  /\ UNCHANGED program_vars

(* The stream is synchronised and the task completes.                      *)
StreamDone(n) ==
  /\ fine.at[n] = "running"
  /\ fine' = Complete(fine, n)
  /\ UNCHANGED <<arrived, program_vars>>

Finished ==
  /\ \A g \in Group : fine.at[Kern(g)] = "done"
  /\ \A u \in User : pc[u] = NONE
  /\ UNCHANGED vars

Build(u, g) ==
  \/ SetBufferParam(u, g) \/ CopyBuffer(u, g) \/ EndParams(u, g) \/ Fill(u, g) \/ Submit(u, g)

Next ==
  \/ \E u \in User, g \in Group : Build(u, g) \/ \E c \in Core : Begin(u, g, c)
  \/ \E u \in User : Return(u) \/ \E b \in Barrier : Wait(u, b)
  \/ \E n \in Node : RunOp(n) \/ StreamDone(n)
  \/ Finished

Fairness ==
  /\ \A n \in Node : WF_vars(RunOp(n)) /\ WF_vars(StreamDone(n))
  /\ \A u \in User : /\ WF_vars(Return(u))
                     /\ \A g \in Group : WF_vars(EndParams(u, g)) /\ WF_vars(Submit(u, g))

Spec == Init /\ [][Next]_vars
FairSpec == Spec /\ Fairness
-----------------------------------------------------------------------------
(* No kernel runs before the groups that depends_on named are done, though *)
(* it waits for most of them only by way of its copies.                    *)
KernelAfterPreds ==
  \A g \in Group : fine.at[Kern(g)] # "new" =>
    /\ \A p \in needs[Kern(g)] : Done(p)
    /\ \A i \in 1 .. MaxParams : fine.at[Copy(g, i)] \in {"new", "done"}

(* No copy runs before the groups that use its buffer are done.            *)
CopyAfterPreds ==
  \A g \in Group, i \in 1 .. MaxParams : fine.at[Copy(g, i)] # "new" =>
    \A p \in needs[Copy(g, i)] : Done(p)

(* A wait returns after all the groups that it was for are done.           *)
BarrierWaits ==
  \A b \in arrived : \A p \in waited[b] : Done(p)

(* A task that is finalized and not queued is a successor of another that  *)
(* is not done: it will be notified.                                       *)
Finalized(n) ==
  \/ \E g \in Group : n = Kern(g) /\ phase[g] = "submitted"
  \/ \E b \in Barrier : n = Sync(b) /\ waited[b] # {}
  \/ \E g \in Group, i \in 1 .. MaxParams : n = Copy(g, i) /\ fine.n_wake[n] > 0

NoLostNotify ==
  \A n \in Node : Finalized(n) /\ fine.at[n] = "new" =>
    \E m \in Node : n \in fine.nexts[m] /\ fine.at[m] # "done"

(* task::invoke, copy commands and callbacks: neither a group's kernel nor *)
(* the copies made for it run before the groups it depends on have.        *)
RunsAfterPreds == TypeOK /\ KernelAfterPreds /\ CopyAfterPreds

(* event_barrier_impl: a wait returns when all that were added are done,   *)
(* and no thread sleeps that nobody will notify.                           *)
BarrierReturnsInTime == BarrierWaits /\ NoLostNotify

(* Every submitted group completes.                                        *)
GroupsComplete == \A g \in Group : (phase[g] = "submitted") ~> Done(g)

(* Every wait returns.                                                     *)
WaitsReturn == \A u \in User : (pc[u] \in Barrier) ~> (pc[u] = NONE)

(* A group is a task of TaskGraph: its kernel task stands for it.          *)
stage ==
  [g \in Group |->
     CASE phase[g] \in {"open", "building"} -> "open"
       [] phase[g] = "bound" -> "bound"
       [] phase[g] = "submitted" /\ fine.at[Kern(g)] \in {"new", "queued"} -> "submitted"
       [] phase[g] = "submitted" /\ fine.at[Kern(g)] = "running" -> "started"
       [] OTHER -> "done"]
before == [g \in Group |-> needs[Kern(g)]]

graph == INSTANCE TaskGraph WITH Node <- Group

(* Coarse tasks keep the promise that DepManager relies on.                *)
ImplementsGraph == graph!TGSpec
=============================================================================
