----------------------------- MODULE CpuBackend -----------------------------
(***************************************************************************)
(* The CPU back end (lib/sycl/dev_rts_cpu.cpp) under the dependency        *)
(* manager.  Its one pool thread runs tasks in the order in which they     *)
(* became ready, and there is one memory only: the device pointer of a     *)
(* buffer is its host pointer, and the copies that a task makes first are  *)
(* copies of the memory to itself.  The manager keeps a memory_state for   *)
(* the host and one for the device all the same, and a user of one does    *)
(* not wait for those who read in the other.                               *)
(*                                                                         *)
(* The program is one thread.  It binds and submits command groups, and    *)
(* waits in the constructor of a host accessor.  HostModes is the set of   *)
(* the accesses that its host accessors have.                              *)
(***************************************************************************)
EXTENDS DepManager, Sequences

VARIABLES
  q_task,     \* the pool's queue: tasks, and barriers that a task sets free
  order,      \* the tasks in the order they were bound, as in nexts_
  waiting,    \* host accessors that the program waits for
  woken,      \* those it has finished waiting for
  memory,     \* the data of each buffer
  found       \* the data that a task read

cpu_vars == <<q_task, order, waiting, woken, memory, found>>
cpu_system == <<vars, cpu_vars>>

Job == [kind : {"task", "sync"}, of : Task]

CpuTypeOK ==
  /\ TypeOK
  /\ q_task \in Seq(Job) /\ order \in Seq(Task)
  /\ waiting \subseteq Task /\ woken \subseteq {t \in Task : stage[t] = "done"}
  /\ memory \in [Buffer -> Writer] /\ found \in [Task -> [Buffer -> Writer]]

CpuInit ==
  /\ Init
  /\ q_task = << >> /\ order = << >> /\ waiting = {} /\ woken = {}
  /\ memory = [b \in Buffer |-> NONE]
  /\ found = [t \in Task |-> [b \in Buffer |-> NONE]]
-----------------------------------------------------------------------------
(* pre_ || body_: a kernel, or copies; the task of a host accessor whose   *)
(* data is on the host already has nothing to run.                         *)
HasFn(t) == group[t].tgt # HOST \/ \E b \in Buffer : group[t].from[b] # NONE

Host(t) == group[t].tgt = HOST

Started == {t \in Task : stage[t] = "started"}

(* Tasks that complete as soon as they are ready, on the thread that made  *)
(* them so.                                                                *)
Inline ==
  {t \in Task : stage[t] \in {"submitted", "started"} /\ graph!Ready(t) /\ ~HasFn(t)}

(* The program is not between bind and submit, or in an accessor's wait.   *)
CpuFree ==
  \A t \in Task : stage[t] # "bound" /\ (t \in live => t \in woken)

CpuBinds(t, HostModes) ==
  /\ CpuFree /\ Inline = {}
  /\ Bind(t) \/ (BindHost(t) /\ \E b \in Buffer : group'[t].acc[b] \in HostModes)
  /\ order' = Append(order, t)
  /\ UNCHANGED <<q_task, waiting, woken, memory, found>>

(* event_node::finalize.                                                   *)
CpuSubmits(t) ==
  /\ Submit(t) /\ stage'[t] = "submitted" /\ Inline = {}
  /\ q_task' = IF HasFn(t) /\ graph!Ready(t)
                 THEN Append(q_task, [kind |-> "task", of |-> t]) ELSE q_task
  /\ UNCHANGED <<order, waiting, woken, memory, found>>

NeedsWait(t) == stage[t] # "done"

(* The barrier of a host accessor: add and wait.                           *)
CpuWaits(t) ==
  /\ t \in live \ (waiting \union woken) /\ Inline = {}
  /\ stage[t] \in {"submitted", "started", "done"}
  /\ IF NeedsWait(t)
       THEN waiting' = waiting \union {t} /\ UNCHANGED woken
       ELSE woken' = woken \union {t} /\ UNCHANGED waiting
  /\ UNCHANGED <<vars, q_task, order, memory, found>>

CpuWritten(t) == [b \in Buffer |-> IF Writes(group[t].acc[b]) THEN t ELSE memory[b]]

CpuReleases(t) ==
  /\ Release(t) /\ t \in woken /\ Inline = {}
  /\ memory' = CpuWritten(t)
  /\ UNCHANGED <<q_task, order, waiting, woken, found>>

(* The tasks that t's completion sets off.                                 *)
MadeReady(t) ==
  {u \in Task : /\ stage[u] = "submitted" /\ HasFn(u) /\ t \in before[u]
                /\ \A p \in before[u] \ {t} : stage[p] = "done"}

(* The tasks of S as they follow each other in a nexts_.                   *)
InOrder(S) ==
  {ts \in [1 .. Cardinality(S) -> S] :
     \A i, j \in DOMAIN ts :
       i < j => \E k, l \in DOMAIN order : k < l /\ order[k] = ts[i] /\ order[l] = ts[j]}

Jobs_fault(t, ts) == [i \in DOMAIN ts |-> [kind |-> "task", of |-> ts[i]]]

(* What the completion puts into the queue; the barrier of an accessor     *)
(* comes first, for the program has bound nothing since.                   *)
Jobs(t, ts) ==
  (IF t \in waiting THEN << [kind |-> "sync", of |-> t] >> ELSE << >>)
    \o [i \in DOMAIN ts |-> [kind |-> "task", of |-> ts[i]]]

Completes(t) ==
  /\ Done(t)
  /\ \E ts \in InOrder(MadeReady(t)) : q_task' = q_task \o Jobs(t, ts)

(* The pool thread takes a task; a barrier's function wakes the program.   *)
PoolStart(t) ==
  /\ Started = {} /\ Inline = {}
  /\ q_task # << >> /\ Head(q_task) = [kind |-> "task", of |-> t]
  /\ Run(t)
  /\ q_task' = Tail(q_task)
  /\ found' = [found EXCEPT ![t] = memory]
  /\ UNCHANGED <<order, waiting, woken, memory>>

PoolWakes(t) ==
  /\ Started = {} /\ Inline = {}
  /\ q_task # << >> /\ Head(q_task) = [kind |-> "sync", of |-> t]
  /\ q_task' = Tail(q_task)
  /\ woken' = woken \union {t} /\ waiting' = waiting \ {t}
  /\ UNCHANGED <<vars, order, memory, found>>

PoolDone(t) ==
  /\ HasFn(t) /\ Inline = {}
  /\ Completes(t)
  /\ memory' = IF t \in live THEN memory ELSE CpuWritten(t)
  /\ UNCHANGED <<order, waiting, woken, found>>

InlineStep(t) ==
  /\ t \in Inline
  /\ \/ Run(t) /\ UNCHANGED q_task
     \/ Completes(t)
  /\ UNCHANGED <<order, waiting, woken, memory, found>>

CpuFinished == Finished /\ q_task = << >> /\ UNCHANGED cpu_system

Pool(t) == PoolStart(t) \/ PoolWakes(t) \/ PoolDone(t) \/ InlineStep(t)
CpuGoesOn(t) == CpuSubmits(t) \/ CpuWaits(t)

CpuNext(HostModes) ==
  \/ \E t \in Task : CpuBinds(t, HostModes) \/ CpuGoesOn(t) \/ CpuReleases(t) \/ Pool(t)
  \/ CpuFinished

CpuSpec(HostModes) == CpuInit /\ [][CpuNext(HostModes)]_cpu_system

(* The pool thread runs, and the program goes on with what it has begun.   *)
CpuFairSpec(HostModes) ==
  CpuSpec(HostModes) /\ \A t \in Task : WF_cpu_system(Pool(t)) /\ WF_cpu_system(CpuGoesOn(t))
-----------------------------------------------------------------------------
(* On one memory too a task reads what the groups bound before it wrote.   *)
CpuReadsLatest ==
  \A t \in Task, b \in Buffer :
    stage[t] \in {"started", "done"} /\ ~Host(t) /\ Reads(group[t].acc[b]) =>
      found[t][b] = want[t][b]

(* A program that has waited finds at the host's pointer what the groups   *)
(* bound before its accessor wrote, until it lets the accessor go.         *)
HostSeesLatest ==
  \A t \in woken \intersect live, b \in Buffer :
    group[t].acc[b] # "unused" => memory[b] = want[t][b]

(* No job is in the pool's queue twice or without being due.               *)
JobsAreDue ==
  \A i \in DOMAIN q_task :
    LET j == q_task[i]
    IN  /\ \A k \in DOMAIN q_task : k # i => q_task[k] # j
        /\ j.kind = "task" => stage[j.of] = "submitted" /\ graph!Ready(j.of)
        /\ j.kind = "sync" => stage[j.of] = "done" /\ j.of \in waiting
=============================================================================
