------------------------------ MODULE EventNode ------------------------------
(***************************************************************************)
(* The event graph of the CPU and HIP back ends (lib/sycl/dev_rts.hpp).    *)
(*                                                                         *)
(* A node is the event of one task, or the sync_ node of an event barrier. *)
(* Edges are added by user threads while the threads of the pool q_task    *)
(* (one on the CPU, four on HIP) are already completing the predecessors,  *)
(* so every node carries a mutex, and complete_no_lock() notifies the      *)
(* successors of a node while it still holds that node's mutex: a chain of *)
(* nodes without a function completes by recursion, one mutex more at each *)
(* level.                                                                  *)
(*                                                                         *)
(* One action is one critical section, or the part of it between two       *)
(* mutex acquisitions.  The stack of the recursive calls of a thread is    *)
(* the sequence of the nodes it is completing, the innermost last; the     *)
(* loop variable of complete_no_lock() is pos[n], the next edge to notify. *)
(***************************************************************************)
EXTENDS Naturals, Sequences, FiniteSets

CONSTANTS
  Node,        (* events and sync_ nodes the program may create            *)
  User,        (* threads that submit command groups and wait for events   *)
  Worker,      (* the threads of q_task                                    *)
  NONE,        (* nullptr, no thread                                       *)
  CounterMod,  (* the counters wrap here: 2^16 for uint16_t                *)
  MaxPreds     (* bound: edges into one node                               *)

Thread == User \union Worker

ASSUME DistinctAssumption ==
  /\ Worker \intersect User = {}
  /\ NONE \notin Node \union Thread

(* No counter wraps within the bound; EventCounter looks beyond it.        *)
ASSUME CounterAssumption ==
  /\ CounterMod \in Nat /\ MaxPreds \in Nat
  /\ MaxPreds + 1 < CounterMod

VARIABLES
  phase,    \* what the program has done with the node, see Phase
  cur,      \* the node a user thread is building or waiting for
  call,     \* the predecessor whose mutex a thread holds in happens_before
  need_wait,\* event_barrier_impl::need_wait_ of a sync_ node
  ready,    \* the stack variable finalize_and_wait() sleeps on
  mutex,    \* the thread that holds mutex_
  n_wake, n_wait, run, done, nexts,   \* the fields of event_node
  fn,       \* does the node have a function to run on the pool?
  pos, stack,
  pool,     \* the jobs of q_task, in order
  job       \* the node whose function a worker is running

node_vars == <<mutex, n_wake, n_wait, run, done, nexts, fn, pos>>
vars == <<phase, cur, call, need_wait, ready, mutex, n_wake, n_wait, run, done,
          nexts, fn, pos, stack, pool, job>>

(***************************************************************************)
(* "open": a task is being built; "bound": its task is in the memory       *)
(* states of buffers, so other threads can already depend on it; "final":  *)
(* submitted.  "sync": a barrier collects events; "waiting": its thread    *)
(* sleeps; "over": the wait returned or had nothing to wait for.           *)
(***************************************************************************)
Phase == {"none", "open", "bound", "final", "sync", "waiting", "over"}

TypeOK ==
  /\ phase \in [Node -> Phase]
  /\ cur \in [User -> Node \union {NONE}]
  /\ call \in [User -> Node \union {NONE}]
  /\ need_wait \in [Node -> BOOLEAN]
  /\ ready \in [Node -> BOOLEAN]
  /\ mutex \in [Node -> Thread \union {NONE}]
  /\ n_wake \in [Node -> 0 .. CounterMod - 1]
  /\ n_wait \in [Node -> 0 .. CounterMod - 1]
  /\ run \in [Node -> BOOLEAN]
  /\ done \in [Node -> BOOLEAN]
  /\ nexts \in [Node -> Seq(Node)]
  /\ fn \in [Node -> BOOLEAN]
  /\ pos \in [Node -> Nat \ {0}]
  /\ stack \in [Thread -> Seq(Node)]
  /\ pool \in Seq(Node)
  /\ job \in [Worker -> Node \union {NONE}]

Init ==
  /\ phase = [n \in Node |-> "none"]
  /\ cur = [t \in User |-> NONE]
  /\ call = [t \in User |-> NONE]
  /\ need_wait = [n \in Node |-> FALSE]
  /\ ready = [n \in Node |-> FALSE]
  /\ mutex = [n \in Node |-> NONE]
  /\ n_wake = [n \in Node |-> 0]
  /\ n_wait = [n \in Node |-> 1 % CounterMod]
  /\ run = [n \in Node |-> FALSE]
  /\ done = [n \in Node |-> FALSE]
  /\ nexts = [n \in Node |-> <<>>]
  /\ fn = [n \in Node |-> FALSE]
  /\ pos = [n \in Node |-> 1]
  /\ stack = [t \in Thread |-> <<>>]
  /\ pool = <<>>
  /\ job = [t \in Worker |-> NONE]

(* Edge <<p, i>> is the i-th element of p.nexts_.                          *)
EdgesInto(n) ==
  UNION {{p} \X {i \in DOMAIN nexts[p] : nexts[p][i] = n} : p \in Node}

(* Those whose notification has been sent.                                 *)
Notified(n) == {e \in EdgesInto(n) : e[2] < pos[e[1]]}

(* finalize() has been called.                                             *)
Finalized(n) ==
  phase[n] \in {"final", "waiting"} \/ (phase[n] = "over" /\ need_wait[n])

Calling(t) == stack[t] # <<>>     \* inside complete_no_lock()

OnStack(t, n) == \E i \in DOMAIN stack[t] : stack[t][i] = n

Top(s) == s[Len(s)]
Pop(s) == SubSeq(s, 1, Len(s) - 1)
-----------------------------------------------------------------------------
(* The conditions and the counting of the code, one by one.  An operator   *)
(* named ..._fault is what a plausible mistake would make of the one after *)
(* it; no specification uses it, the checks must notice it.                *)

(* happens_before: has the predecessor yet to complete?                    *)
Pending_fault(p) == TRUE
Pending(p) == ~done[p]

(* happens_before: one more notification for n to wait for.                *)
CountEdge_fault_none(n) == UNCHANGED n_wait
CountEdge_fault_down(n) == n_wait' = [n_wait EXCEPT ![n] = @ - 1]
CountEdge(n) == n_wait' = [n_wait EXCEPT ![n] = (@ + 1) % CounterMod]

(* check_to_run: is this the last notification?                            *)
Due_fault(n, wake) == ~run[n]
Due(n, wake) == ~run[n] /\ wake = n_wait[n]

(* complete_no_lock: have all successors been notified?                    *)
AllNotified_fault(p) == pos[p] >= Len(nexts[p])
AllNotified(p) == pos[p] > Len(nexts[p])

(* finalize_and_wait: the predicate of the sleep, and what the function of *)
(* a sync_ node does before it completes.                                  *)
Awake_fault(n) == TRUE
Awake(n) == ready[n]

Signalled_fault(n) == TRUE
Signalled(n) == phase[n] \in {"waiting", "over"} => ready[n]
-----------------------------------------------------------------------------
(* complete_no_lock: t holds the mutex of n until it has notified all.     *)
CompleteNoLock(t, n) ==
  /\ done' = [done EXCEPT ![n] = TRUE]
  /\ mutex' = [mutex EXCEPT ![n] = t]
  /\ stack' = [stack EXCEPT ![t] = Append(@, n)]

(* notify and check_to_run, in one critical section of n.  f is fn_: with  *)
(* a function the node becomes a job of the pool, without one it completes *)
(* here and now, on the thread that sent the last notification.            *)
Notify(t, n, f) ==
  LET wake == (n_wake[n] + 1) % CounterMod
  IN  /\ mutex[n] = NONE
      /\ n_wake' = [n_wake EXCEPT ![n] = wake]
      /\ IF Due(n, wake)
           THEN /\ run' = [run EXCEPT ![n] = TRUE]
                /\ IF f
                     THEN /\ pool' = Append(pool, n)
                          /\ UNCHANGED <<done, mutex, stack>>
                     ELSE /\ CompleteNoLock(t, n)
                          /\ pool' = pool
           ELSE UNCHANGED <<run, pool, done, mutex, stack>>
-----------------------------------------------------------------------------
(* What a user thread does.                                                *)

(* A handler creates its task, or a barrier its sync_ node.                *)
Create(t, n) ==
  /\ cur[t] = NONE /\ ~Calling(t)
  /\ phase[n] = "none"
  /\ \E ph \in {"open", "sync"} : phase' = [phase EXCEPT ![n] = ph]
  /\ cur' = [cur EXCEPT ![t] = n]
  /\ UNCHANGED <<call, need_wait, ready, node_vars, stack, pool, job>>

(* p->happens_before(n): lock p.  A task depends on the tasks it finds in  *)
(* the memory states and on submitted events, a barrier on events only.  A *)
(* predecessor that is done changes nothing and the call returns false.    *)
HappensBefore(t, p) ==
  /\ cur[t] # NONE /\ call[t] = NONE
  /\ \/ phase[cur[t]] = "open" /\ phase[p] \in {"bound", "final"}
     \/ phase[cur[t]] = "sync" /\ phase[p] = "final"
  /\ Cardinality(EdgesInto(cur[t])) < MaxPreds
  /\ mutex[p] = NONE
  /\ Pending(p)
  /\ call' = [call EXCEPT ![t] = p]
  /\ mutex' = [mutex EXCEPT ![p] = t]
  /\ UNCHANGED <<phase, cur, need_wait, ready, n_wake, n_wait, run, done, nexts,
                 fn, pos, stack, pool, job>>

(* ... and with p still locked, lock n to count the edge.  (nexts_ is read *)
(* under p's mutex only, so the push_back is part of this step.)  The call *)
(* returns true, which a barrier remembers.                                *)
Link(t) ==
  LET p == call[t]
      n == cur[t]
  IN  /\ call[t] # NONE
      /\ mutex[n] = NONE
      /\ nexts' = [nexts EXCEPT ![p] = Append(@, n)]
      /\ CountEdge(n)
      /\ mutex' = [mutex EXCEPT ![p] = NONE]
      /\ call' = [call EXCEPT ![t] = NONE]
      /\ need_wait' = [need_wait EXCEPT ![n] = (phase[n] = "sync")]
      /\ UNCHANGED <<phase, cur, ready, n_wake, run, done, fn, pos, stack, pool, job>>

(* The memory states of the task's buffers now name it (dep.cpp).          *)
Bind(t) ==
  /\ cur[t] # NONE /\ call[t] = NONE
  /\ phase[cur[t]] = "open"
  /\ phase' = [phase EXCEPT ![cur[t]] = "bound"]
  /\ UNCHANGED <<cur, call, need_wait, ready, node_vars, stack, pool, job>>

(* submit: a function is set if the task has anything to run; finalize.    *)
Submit(t) ==
  LET n == cur[t]
  IN  /\ n # NONE /\ call[t] = NONE
      /\ phase[n] \in {"open", "bound"}
      /\ \E f \in BOOLEAN :
           /\ fn' = [fn EXCEPT ![n] = f]
           /\ Notify(t, n, f)
      /\ phase' = [phase EXCEPT ![n] = "final"]
      /\ cur' = [cur EXCEPT ![t] = NONE]
      /\ UNCHANGED <<call, need_wait, ready, n_wait, nexts, pos, job>>

(* event_barrier_impl::wait: nothing pending, return at once.              *)
WaitNothing(t) ==
  LET n == cur[t]
  IN  /\ n # NONE /\ call[t] = NONE
      /\ phase[n] = "sync" /\ ~need_wait[n]
      /\ phase' = [phase EXCEPT ![n] = "over"]
      /\ cur' = [cur EXCEPT ![t] = NONE]
      /\ UNCHANGED <<call, need_wait, ready, node_vars, stack, pool, job>>

(* finalize_and_wait: set_fn, finalize, sleep on the condition variable.   *)
Wait(t) ==
  LET n == cur[t]
  IN  /\ n # NONE /\ call[t] = NONE
      /\ phase[n] = "sync" /\ need_wait[n]
      /\ fn' = [fn EXCEPT ![n] = TRUE]
      /\ Notify(t, n, TRUE)
      /\ phase' = [phase EXCEPT ![n] = "waiting"]
      /\ UNCHANGED <<cur, call, need_wait, ready, n_wait, nexts, pos, job>>

WakeUp(t) ==
  LET n == cur[t]
  IN  /\ n # NONE
      /\ phase[n] = "waiting" /\ Awake(n)
      /\ phase' = [phase EXCEPT ![n] = "over"]
      /\ cur' = [cur EXCEPT ![t] = NONE]
      /\ UNCHANGED <<call, need_wait, ready, node_vars, stack, pool, job>>
-----------------------------------------------------------------------------
(* What a thread of the pool does: take a job, run its function.           *)
TakeJob(t) ==
  /\ job[t] = NONE /\ ~Calling(t)
  /\ pool # <<>>
  /\ job' = [job EXCEPT ![t] = Head(pool)]
  /\ pool' = Tail(pool)
  /\ UNCHANGED <<phase, cur, call, need_wait, ready, node_vars, stack>>

(* The function of a sync_ node first sets ready and notifies.             *)
Signal(t) ==
  /\ job[t] # NONE
  /\ ~Signalled(job[t])
  /\ ready' = [ready EXCEPT ![job[t]] = TRUE]
  /\ UNCHANGED <<phase, cur, call, need_wait, node_vars, stack, pool, job>>

(* Every function ends with ev->complete().                                *)
Complete(t) ==
  /\ job[t] # NONE
  /\ Signalled(job[t])
  /\ mutex[job[t]] = NONE
  /\ CompleteNoLock(t, job[t])
  /\ job' = [job EXCEPT ![t] = NONE]
  /\ UNCHANGED <<phase, cur, call, need_wait, ready, n_wake, n_wait, run, nexts,
                 fn, pos, pool>>

(* The loop of complete_no_lock, on whichever thread runs it.              *)
NotifyNext(t) ==
  LET p == Top(stack[t])
      n == nexts[p][pos[p]]
  IN  /\ Calling(t)
      /\ ~AllNotified(p)
      /\ Notify(t, n, fn[n])
      /\ pos' = [pos EXCEPT ![p] = @ + 1]
      /\ UNCHANGED <<phase, cur, call, need_wait, ready, n_wait, nexts, fn, job>>

Return(t) ==
  LET p == Top(stack[t])
  IN  /\ Calling(t)
      /\ AllNotified(p)
      /\ mutex' = [mutex EXCEPT ![p] = NONE]
      /\ stack' = [stack EXCEPT ![t] = Pop(@)]
      /\ UNCHANGED <<phase, cur, call, need_wait, ready, n_wake, n_wait, run, done,
                     nexts, fn, pos, pool, job>>

(* Every node has been used up: the bounded program is over.               *)
Finished ==
  /\ \A n \in Node : phase[n] = "over" \/ done[n]
  /\ \A t \in Thread : ~Calling(t)
  /\ UNCHANGED vars

UserStep(t) ==
  \/ \E n \in Node : Create(t, n) \/ HappensBefore(t, n)
  \/ Link(t) \/ Bind(t) \/ Submit(t) \/ WaitNothing(t) \/ Wait(t) \/ WakeUp(t)

WorkerStep(t) == TakeJob(t) \/ Signal(t) \/ Complete(t)

CallStep(t) == NotifyNext(t) \/ Return(t)

Next ==
  \/ \E t \in User : UserStep(t)
  \/ \E t \in Worker : WorkerStep(t)
  \/ \E t \in Thread : CallStep(t)
  \/ Finished

(* Threads keep running inside the library, and a program that has opened  *)
(* a command group or a barrier goes on to submit it or to wait for it.    *)
Fairness ==
  /\ \A t \in Worker : WF_vars(WorkerStep(t))
  /\ \A t \in Thread : WF_vars(CallStep(t))
  /\ \A t \in User : /\ WF_vars(Link(t))
                     /\ WF_vars(Submit(t))
                     /\ WF_vars(Wait(t) \/ WaitNothing(t) \/ WakeUp(t))

Spec == Init /\ [][Next]_vars
FairSpec == Spec /\ Fairness
-----------------------------------------------------------------------------
(* A function runs, and a node without one completes, only after the task  *)
(* was submitted and every predecessor has completed (check_to_run).       *)
StartAfterPreds ==
  \A n \in Node : run[n] =>
    /\ Finalized(n)
    /\ \A e \in EdgesInto(n) : done[e[1]]

(* event_barrier_impl::wait returns only when all events given to the      *)
(* barrier have completed.                                                 *)
BarrierWaits ==
  \A n \in Node : phase[n] = "over" =>
    \A e \in EdgesInto(n) : done[e[1]]

(* The race of happens_before with complete_no_lock loses no notification: *)
(* a submitted node that has not started has an edge still to be notified, *)
(* from a predecessor that has yet to complete or is in its notifying loop.*)
NoLostWakeup ==
  \A n \in Node : Finalized(n) /\ ~run[n] =>
    \E e \in EdgesInto(n) \ Notified(n) :
      ~done[e[1]] \/ \E t \in Thread : OnStack(t, e[1])

(* Every submitted task completes.                                         *)
TasksComplete == \A n \in Node : (phase[n] = "final") ~> done[n]

(* Every wait returns.                                                     *)
WaitsReturn == \A n \in Node : (phase[n] = "waiting") ~> (phase[n] = "over")
-----------------------------------------------------------------------------
(* The nodes, their mutexes and their counters implement TaskGraph.        *)
StageOf(n) ==
  CASE done[n] -> "done"
    [] run[n] /\ ~done[n] -> "started"
    [] Finalized(n) /\ ~run[n] -> "submitted"
    [] phase[n] = "bound" -> "bound"
    [] OTHER -> "open"

PredsOf(n) == {e[1] : e \in EdgesInto(n)}

Graph == INSTANCE TaskGraph WITH stage <- [n \in Node |-> StageOf(n)],
                                 before <- [n \in Node |-> PredsOf(n)]

(* Every step of the threads is a step of the graph, or none.              *)
ImplementsGraph == Graph!TGSpec

(* The same, with the promise that what is submitted is run and completed. *)
ImplementsFairGraph == Graph!TGFairSpec
-----------------------------------------------------------------------------
(* The inductive invariant behind the two safety properties.               *)

(* A user thread builds a node of its own, and inside happens_before it    *)
(* holds the mutex of a predecessor that has not completed.                *)
BuildInv ==
  /\ \A t \in User : cur[t] # NONE =>
       phase[cur[t]] \in {"open", "bound", "sync", "waiting"}
  /\ \A t, u \in User : cur[t] # NONE /\ cur[t] = cur[u] => t = u
  /\ \A t \in User : call[t] # NONE =>
       /\ cur[t] # NONE /\ phase[cur[t]] \in {"open", "sync"}
       /\ mutex[call[t]] = t /\ ~done[call[t]]
       /\ Cardinality(EdgesInto(cur[t])) < MaxPreds

(* The nodes on a thread's stack are completing, and it holds their        *)
(* mutexes; a node that is done has notified its successors or is on one.  *)
StackInv ==
  /\ \A t \in Thread : \A i \in DOMAIN stack[t] :
       mutex[stack[t][i]] = t /\ done[stack[t][i]]
  /\ \A t \in Thread : \A i, j \in DOMAIN stack[t] :
       stack[t][i] = stack[t][j] => i = j
  /\ \A n \in Node : pos[n] <= Len(nexts[n]) + 1 /\ (pos[n] > 1 => done[n])
  /\ \A n \in Node : done[n] /\ pos[n] <= Len(nexts[n]) =>
       \E t \in Thread : OnStack(t, n)

(* The counters count the edges, and one more for finalize().              *)
CountInv ==
  \A n \in Node :
    /\ IsFiniteSet(EdgesInto(n)) /\ Cardinality(EdgesInto(n)) <= MaxPreds
    /\ n_wait[n] = Cardinality(EdgesInto(n)) + 1
    /\ n_wake[n] = Cardinality(Notified(n)) + (IF Finalized(n) THEN 1 ELSE 0)

(* A node runs when its counters meet, and what the pool holds has run set.*)
RunInv ==
  /\ \A n \in Node : run[n] <=> n_wake[n] = n_wait[n]
  /\ \A n \in Node : (done[n] => run[n]) /\ (ready[n] => run[n])
  /\ \A i \in DOMAIN pool : run[pool[i]]
  /\ \A t \in Worker : job[t] # NONE => run[job[t]]

(* A barrier that has linked nothing has no edges, one that sleeps has     *)
(* linked something, and one that slept was woken by its function.         *)
BarrierInv ==
  \A n \in Node :
    /\ phase[n] \in {"none", "sync", "over"} /\ ~need_wait[n] => EdgesInto(n) = {}
    /\ phase[n] = "waiting" => need_wait[n]
    /\ phase[n] = "over" /\ need_wait[n] => ready[n]

IInv == TypeOK /\ BuildInv /\ StackInv /\ CountInv /\ RunInv /\ BarrierInv
=============================================================================
