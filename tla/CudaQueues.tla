----------------------------- MODULE CudaQueues -----------------------------
(***************************************************************************)
(* How the operations of CUDA tasks get to the device                      *)
(* (lib/sycl/cuda/dev_rts_cuda.cpp, dev_rts/task.hpp).  A task that has    *)
(* been notified by all it waits for goes to task::q_, whose one thread    *)
(* calls its operation; the operation goes on to one of six queues, by     *)
(* what it moves.  Each has a stream and one thread, which issues the      *)
(* operation on the stream, waits for the stream and completes the task;   *)
(* completing it notifies the next ones.  Operations of different streams  *)
(* run on the device at the same time, in any order.                       *)
(*                                                                         *)
(* At the end the program's last object shuts the back end down, which     *)
(* waits for the six queues one after the other, and closes the driver.    *)
(*                                                                         *)
(* Fine tasks are as in CoarseTask, one by one; their counters are left    *)
(* out here.                                                               *)
(***************************************************************************)
EXTENDS Integers, Sequences, SequencesExt, FiniteSets

CONSTANTS
  Tasks,   \* bound: tasks of the program
  Kinds    \* what their operations may be

(* The queues, in the order of wait_all.                                   *)
Queues == <<"h2d", "d2h", "d2d", "fill", "kernel", "host">>
Queue == ToSet(Queues)

QueuesAssumption == Tasks \in Nat \ {0} /\ Kinds \subseteq Queue \union {"none"}

Task == 1 .. Tasks

VARIABLES
  kind,      \* of each task: the queue of its operation, or "none"
  before,    \* the tasks that it runs after
  at,        \* where it is
  q,         \* task::q_
  jobs,      \* the jobs of each queue, the first one being run
  device,    \* the operations that are on the device, or have run there
  waited,    \* how many queues shutdown has waited for, -1 before it begins
  closed,    \* is the driver closed?
  early      \* the tasks that were with a queue when shutdown began

vars == <<kind, before, at, q, jobs, device, waited, closed, early>>
moving == <<at, q, jobs, device>>

Place == {"new", "held", "q", "queue", "issued", "done", "failed"}

TypeOK ==
  /\ kind \in [Task -> Kinds] /\ before \in [Task -> SUBSET Task]
  /\ at \in [Task -> Place]
  /\ q \in Seq(Task) /\ jobs \in [Queue -> Seq(Task)]
  /\ \A t \in Task : at[t] = "q" <=> t \in ToSet(q)
  /\ device \in [Task -> {"no", "running", "ran"}]
  /\ waited \in -1 .. Len(Queues)
  /\ closed \in BOOLEAN /\ early \subseteq Task

Init ==
  /\ kind \in [Task -> Kinds]
  /\ before \in {b \in [Task -> SUBSET Task] : \A t \in Task : b[t] \subseteq 1 .. t - 1}
  /\ at = [t \in Task |-> "new"]
  /\ q = <<>> /\ jobs = [k \in Queue |-> <<>>]
  /\ device = [t \in Task |-> "no"]
  /\ waited = -1 /\ closed = FALSE /\ early = {}

Done == {t \in Task : at[t] = "done"}
-----------------------------------------------------------------------------
(* The program makes tasks, one after the other.                           *)
Submit(t) ==
  /\ waited = -1 /\ at[t] = "new" /\ \A u \in 1 .. t - 1 : at[u] # "new"
  /\ IF before[t] \subseteq Done
       THEN at' = [at EXCEPT ![t] = "q"] /\ q' = Append(q, t)
       ELSE at' = [at EXCEPT ![t] = "held"] /\ UNCHANGED q
  /\ UNCHANGED <<kind, before, jobs, device, waited, closed, early>>

(* Is u the last one that t was held for?                                  *)
Notified(t, u) == u \in before[t] /\ at[t] = "held" /\ before[t] \subseteq Done \union {u}

(* complete: those that waited for u only go to task::q_, in the order in  *)
(* which they were made.  (old: what else is left in q.)                   *)
Completed(u, old) ==
  LET next == {t \in Task : Notified(t, u)}
  IN  /\ at' = [t \in Task |-> IF t = u THEN "done" ELSE IF t \in next THEN "q" ELSE at[t]]
      /\ \E s \in [1 .. Cardinality(next) -> next] :
           (\A i, j \in DOMAIN s : i < j => s[i] < s[j]) /\ q' = old \o s

(* What is left in task::q_ after its first task.                          *)
Rest == Tail(q)

(* The thread of task::q_ calls the operation: it is handed on, or there   *)
(* is nothing to do and the task is complete.                              *)
Call ==
  /\ q # <<>>
  /\ LET t == Head(q)
     IN  IF kind[t] = "none"
           THEN Completed(t, Rest) /\ UNCHANGED jobs
           ELSE /\ jobs' = [jobs EXCEPT ![kind[t]] = Append(@, t)]
                /\ at' = [at EXCEPT ![t] = "queue"]
                /\ q' = Rest
  /\ UNCHANGED <<kind, before, device, waited, closed, early>>

(* The thread of a queue issues the first of its operations; without a     *)
(* driver there is nothing to call.                                        *)
Issue(k) ==
  /\ jobs[k] # <<>>
  /\ LET t == Head(jobs[k])
     IN  /\ at[t] = "queue"
         /\ IF closed /\ k # "host"
              THEN at' = [at EXCEPT ![t] = "failed"] /\ UNCHANGED device
              ELSE /\ at' = [at EXCEPT ![t] = "issued"]
                   /\ device' = [device EXCEPT ![t] = IF k = "host" THEN "ran" ELSE "running"]
  /\ UNCHANGED <<kind, before, q, jobs, waited, closed, early>>

(* The device.                                                             *)
DeviceRuns(t) ==
  /\ device[t] = "running"
  /\ device' = [device EXCEPT ![t] = "ran"]
  /\ UNCHANGED <<kind, before, at, q, jobs, waited, closed, early>>

Synchronized_fault(t) == TRUE
(* cu_stream_synchronize.                                                  *)
Synchronized(t) == device[t] = "ran"

(* The job ends: the task completes, and then the thread takes the next.   *)
JobEnds(k) ==
  /\ jobs[k] # <<>>
  /\ LET t == Head(jobs[k])
     IN  at[t] = "issued" /\ Synchronized(t) /\ Completed(t, q)
  /\ jobs' = [jobs EXCEPT ![k] = Tail(@)]
  /\ UNCHANGED <<kind, before, device, waited, closed, early>>
-----------------------------------------------------------------------------
(* The last object of the program goes.                                    *)
ShutdownBegins ==
  /\ waited = -1
  /\ waited' = 0
  /\ early' = {t \in Task : at[t] \in {"queue", "issued"}}
  /\ UNCHANGED <<kind, before, moving, closed>>

(* queue::wait: nothing to be done, and nothing being done.                *)
Idle(k) == jobs[k] = <<>>

WaitAll ==
  /\ waited \in 0 .. Len(Queues) - 1
  /\ Idle(Queues[waited + 1])
  /\ waited' = waited + 1
  /\ UNCHANGED <<kind, before, moving, closed, early>>

Close ==
  /\ waited = Len(Queues) /\ ~closed
  /\ closed' = TRUE
  /\ UNCHANGED <<kind, before, moving, waited, early>>

(* The end: nothing is left to be done, or a call has failed.              *)
Finished ==
  /\ closed
  /\ (\E t \in Task : at[t] = "failed") \/ (\A t \in Task : at[t] \in {"new", "done"})
  /\ UNCHANGED vars

QueueStep(k) == Issue(k) \/ JobEnds(k)
ShutdownStep == WaitAll \/ Close
Shutdown == ShutdownBegins \/ ShutdownStep

Next ==
  \/ \E t \in Task : Submit(t) \/ DeviceRuns(t)
  \/ Call
  \/ \E k \in Queue : QueueStep(k)
  \/ Shutdown \/ Finished

Spec == Init /\ [][Next]_vars

(* Threads of pools run, the device does, and a shutdown goes on.          *)
FairSpec ==
  /\ Spec
  /\ WF_vars(Call) /\ WF_vars(ShutdownStep)
  /\ \A k \in Queue : WF_vars(QueueStep(k))
  /\ \A t \in Task : WF_vars(DeviceRuns(t))
-----------------------------------------------------------------------------
(* An operation gets to the device only when those of all the tasks it     *)
(* runs after have run there, whichever their streams: complete comes      *)
(* after cu_stream_synchronize, and the hand-over by task::q_ keeps that.  *)
DataIsReady ==
  \A t \in Task : device[t] # "no" =>
    \A p \in before[t] : at[p] = "done" /\ (kind[p] # "none" => device[p] = "ran")

(* What was with a queue when shutdown began has run when the driver is    *)
(* closed (wait_all).  No more is promised: a task that was held, or in    *)
(* task::q_, which is not waited for, can come to a queue afterwards.      *)
QueuedHaveRun == closed => early \subseteq Done
=============================================================================
