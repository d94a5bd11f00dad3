------------------------------- MODULE Queue -------------------------------
(***************************************************************************)
(* queue::submit and queue::wait of one thread (lib/sycl/queue.cpp), over  *)
(* the barrier of lib/sycl/dev_rts.hpp.  A queue keeps the event of every  *)
(* command group since the last wait, twice: handler::finalize adds it and *)
(* queue::submit adds it again.  The barrier counts the events that are    *)
(* still pending, and the notifications it has had, in Width bits.         *)
(***************************************************************************)
EXTENDS Naturals, Sequences, FiniteSets

CONSTANTS
  Task,      (* the command groups that the program submits                *)
  Width      (* of n_wait_ and n_wake_; 16 in the code                     *)

QueueAssumption == Width \in Nat \ {0}

(* The counters have room for two events of each command group and for the *)
(* barrier's own notification: there are less than 2 ^ 15 groups.          *)
CountersFit ==
  /\ IsFiniteSet(Task) /\ 2 ^ Width \in Nat
  /\ 2 * Cardinality(Task) + 1 < 2 ^ Width

VARIABLES
  events,    \* events_
  stage,     \* of each task: what the pool has done with it
  owed,      \* the entries for the barrier in nexts_ of a task
  adding,    \* the events that wait has still to add
  n_wait, n_wake, run_, need_wait,
  pc,        \* the program: between calls, in add, in the wait proper
  waited     \* the tasks that the current or last wait is for

vars == <<events, stage, owed, adding, n_wait, n_wake, run_, need_wait, pc, waited>>

Stage == {"new", "submitted", "completing", "done"}

TypeOK ==
  /\ events \in Seq(Task) /\ adding \in Seq(Task)
  /\ stage \in [Task -> Stage] /\ owed \in [Task -> 0 .. 2]
  /\ n_wait \in 0 .. 2 ^ Width - 1 /\ n_wake \in 0 .. 2 ^ Width - 1
  /\ run_ \in {"no", "empty", "ready"} /\ need_wait \in BOOLEAN
  /\ pc \in {"idle", "add", "wait"} /\ waited \subseteq Task

Init ==
  /\ events = << >> /\ adding = << >>
  /\ stage = [t \in Task |-> "new"] /\ owed = [t \in Task |-> 0]
  /\ n_wait = 1 /\ n_wake = 0 /\ run_ = "no" /\ need_wait = FALSE
  /\ pc = "idle" /\ waited = {}
-----------------------------------------------------------------------------
Inc(i) == (i + 1) % 2 ^ Width

Pending(t) == stage[t] = "submitted"

sync_vars == <<n_wait, n_wake, run_, need_wait>>

(* add, by handler::finalize and again by queue::submit.                   *)
Recorded(t) == Append(Append(events, t), t)

Submit(t) ==
  /\ pc = "idle" /\ stage[t] = "new"
  /\ stage' = [stage EXCEPT ![t] = "submitted"]
  /\ events' = Recorded(t)
  /\ UNCHANGED <<owed, adding, pc, waited, sync_vars>>

(* wait moves events_ away and makes a new barrier.                        *)
WaitBegin ==
  /\ pc = "idle" /\ events # << >>
  /\ adding' = events /\ events' = << >>
  /\ waited' = {events[i] : i \in DOMAIN events}
  /\ n_wait' = 1 /\ n_wake' = 0 /\ run_' = "no" /\ need_wait' = FALSE
  /\ pc' = "add"
  /\ UNCHANGED <<stage, owed>>

NeedWait_fault(t) == Pending(t)

NeedWait(t) == need_wait \/ Pending(t)

NWait_fault(t) == Inc(n_wait)
NWait(t) == IF Pending(t) THEN Inc(n_wait) ELSE n_wait

(* event_barrier_impl::add: a task that is completing holds its mutex.     *)
AddEvent ==
  LET t == Head(adding)
  IN  /\ pc = "add" /\ adding # << >>
      /\ stage[t] # "completing"
      /\ adding' = Tail(adding)
      /\ need_wait' = NeedWait(t)
      /\ n_wait' = NWait(t)
      /\ owed' = IF Pending(t) THEN [owed EXCEPT ![t] = @ + 1] ELSE owed
      /\ UNCHANGED <<events, stage, n_wake, run_, pc, waited>>

(* notify, check_to_run: before set_fn the node completes with nothing to  *)
(* run, after it its function tells the waiting thread.                    *)
Notified(w, empty) ==
  IF run_ = "no" /\ w = n_wait THEN (IF empty THEN "empty" ELSE "ready") ELSE run_

(* event_barrier_impl::wait; with all events done it does not wait.        *)
WaitFinal ==
  /\ pc = "add" /\ adding = << >>
  /\ IF need_wait
       THEN /\ n_wake' = Inc(n_wake)
            /\ run_' = Notified(Inc(n_wake), FALSE)
            /\ pc' = "wait"
       ELSE pc' = "idle" /\ UNCHANGED <<n_wake, run_>>
  /\ UNCHANGED <<events, stage, owed, adding, n_wait, need_wait, waited>>

WaitReturn ==
  /\ pc = "wait" /\ run_ = "ready"
  /\ pc' = "idle"
  /\ UNCHANGED <<events, stage, owed, adding, waited, sync_vars>>

(* The function of a task has run: complete_no_lock.                       *)
Complete(t) ==
  /\ stage[t] = "submitted"
  /\ stage' = [stage EXCEPT ![t] = "completing"]
  /\ UNCHANGED <<events, owed, adding, pc, waited, sync_vars>>

Notify(t) ==
  /\ stage[t] = "completing"
  /\ IF owed[t] > 0
       THEN /\ owed' = [owed EXCEPT ![t] = @ - 1]
            /\ n_wake' = Inc(n_wake)
            /\ run_' = Notified(Inc(n_wake), pc = "add")
            /\ UNCHANGED stage
       ELSE /\ stage' = [stage EXCEPT ![t] = "done"]
            /\ UNCHANGED <<owed, n_wake, run_>>
  /\ UNCHANGED <<events, adding, n_wait, need_wait, pc, waited>>

Finished ==
  /\ \A t \in Task : stage[t] = "done"
  /\ pc = "idle" /\ UNCHANGED vars

Pool(t) == Complete(t) \/ Notify(t)
Program == AddEvent \/ WaitFinal \/ WaitReturn

Next ==
  \/ \E t \in Task : Submit(t) \/ Pool(t)
  \/ WaitBegin \/ Program
  \/ Finished

Spec == Init /\ [][Next]_vars
FairSpec == Spec /\ WF_vars(Program) /\ \A t \in Task : WF_vars(Pool(t))
-----------------------------------------------------------------------------
(* When wait returns, every command group submitted before it has run.     *)
WaitIsEnough ==
  pc = "idle" => \A t \in waited : stage[t] \in {"completing", "done"}

(* No command group is forgotten: one that is still pending is in events_, *)
(* or belongs to the wait that the program is in.                          *)
NotForgotten ==
  \A t \in Task : Pending(t) =>
    \/ \E i \in DOMAIN events : events[i] = t
    \/ pc # "idle" /\ t \in waited

(* The barrier is owed one notification for each time it has counted a     *)
(* pending event, and its own one: it can neither wake early nor sleep on. *)
CounterIsOwed ==
  LET counted == Cardinality({t \in Task : owed[t] > 0}) + Cardinality({t \in Task : owed[t] > 1})
  IN  /\ pc = "add" => n_wait = n_wake + 1 + counted
      /\ pc = "wait" => n_wait = n_wake + counted
=============================================================================
