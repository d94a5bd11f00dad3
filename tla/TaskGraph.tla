------------------------------ MODULE TaskGraph ------------------------------
(***************************************************************************)
(* What a back end promises about tasks and their events (rts::task and    *)
(* rts::event of lib/sycl/rts.hpp: depends_on and submit).  A task that is *)
(* still being built may be made to wait for tasks that are not; it runs   *)
(* once, after it is submitted and after all that it waits for is done.    *)
(* No thread, mutex or counter appears: EventNode implements this module,  *)
(* and DepManager decides which tasks wait for which.                      *)
(***************************************************************************)
EXTENDS Naturals

CONSTANT Node

VARIABLES stage, before    \* before[n]: the nodes that n waits for

tg_vars == <<stage, before>>

Stage == {"open", "bound", "submitted", "started", "done"}

TGTypeOK ==
  /\ stage \in [Node -> Stage]
  /\ before \in [Node -> SUBSET Node]

TGInit ==
  /\ stage = [n \in Node |-> "open"]
  /\ before = [n \in Node |-> {}]

(* May n run?                                                              *)
Ready(n) == \A p \in before[n] : stage[p] = "done"

(* depends_on, for some tasks that are not being built any more.           *)
DependsOn(n, P) ==
  /\ stage[n] = "open"
  /\ \A p \in P : stage[p] # "open"
  /\ before' = [before EXCEPT ![n] = @ \union P]
  /\ UNCHANGED stage

(* The last of them: from now on other tasks can find n and wait for it.   *)
Seal(n, P) ==
  /\ stage[n] = "open"
  /\ \A p \in P : stage[p] # "open"
  /\ before' = [before EXCEPT ![n] = @ \union P]
  /\ stage' = [stage EXCEPT ![n] = "bound"]

(* submit: with nothing to wait for the task starts at once, and one that  *)
(* has nothing to run is done at once.                                     *)
SubmitTask(n) ==
  /\ stage[n] \in {"open", "bound"}
  /\ \E s \in {"submitted", "started", "done"} :
       /\ s # "submitted" => Ready(n)
       /\ stage' = [stage EXCEPT ![n] = s]
  /\ UNCHANGED before

Start(n) ==
  /\ stage[n] = "submitted" /\ Ready(n)
  /\ \E s \in {"started", "done"} : stage' = [stage EXCEPT ![n] = s]
  /\ UNCHANGED before

Finish(n) ==
  /\ stage[n] = "started"
  /\ stage' = [stage EXCEPT ![n] = "done"]
  /\ UNCHANGED before

TGNext ==
  \E n \in Node :
    \/ \E P \in SUBSET Node : DependsOn(n, P) \/ Seal(n, P)
    \/ SubmitTask(n) \/ Start(n) \/ Finish(n)

(* A program that binds a task goes on to submit it.                       *)
TGFairness ==
  \A n \in Node : /\ WF_tg_vars(stage[n] = "bound" /\ SubmitTask(n))
                  /\ WF_tg_vars(Start(n))
                  /\ WF_tg_vars(Finish(n))

TGSpec == TGInit /\ [][TGNext]_tg_vars
TGFairSpec == TGSpec /\ TGFairness
=============================================================================
