------------------------------- MODULE Fiber -------------------------------
(***************************************************************************)
(* Work items as fibers (lib/sycl/fiber.cpp).  One thread runs all work    *)
(* items of a group: it resumes item 0, each item hands over to the next   *)
(* at a barrier and at its end, and the last one hands back to the thread. *)
(* A fiber that is resumed is given the one that resumed it, and keeps it  *)
(* in the slot of its predecessor, so that every slot is full again after  *)
(* a round.  A resume empties the slot it takes the fiber from.            *)
(*                                                                         *)
(* The group is cached and reused for groups of other sizes.  Its vectors  *)
(* grow; capacities tell one allocation of the vectors from another.       *)
(***************************************************************************)
EXTENDS Naturals

CONSTANTS
  MaxItems,      (* bound: work items of a group                           *)
  FirstItems,    (* items that fiber_init makes (512 in the code)          *)
  Sizes,         (* the sizes of the groups that the program launches      *)
  MaxBarriers,   (* bound: barriers in a kernel                            *)
  MaxLaunches,   (* bound: groups executed                                 *)
  MAIN,          (* the thread itself                                      *)
  EMPTY,         (* a fiber object that has been moved from                *)
  TAIL           (* the slot tail_                                         *)

FiberAssumption ==
  /\ MaxItems \in Nat \ {0} /\ FirstItems \in 1 .. MaxItems
  /\ Sizes \subseteq 1 .. MaxItems
  /\ MaxBarriers \in Nat /\ MaxLaunches \in Nat
  /\ MAIN \notin Nat /\ EMPTY \notin Nat /\ MAIN # EMPTY
  /\ TAIL \notin (1 .. MaxItems) \X (0 .. MaxItems - 1)

Item == 0 .. MaxItems - 1
Handle == Item \union {MAIN, EMPTY}
(* Elements of threads_, by capacity of the vector; and tail_.             *)
Slot == ((1 .. MaxItems) \X Item) \union {TAIL}

VARIABLES
  cap,        \* the capacity of threads_ and work_items_
  size,       \* their size
  slot,       \* the fiber in each slot
  prev,       \* the capacity when prev_ was computed, 0 before the first run
  n,          \* n_threads_
  running,
  active,     \* who has the control
  barriers,   \* barriers in the kernel that is run
  passed,     \* pieces of the kernel, between barriers, that an item has run
  launches

vars == <<cap, size, slot, prev, n, running, active, barriers, passed, launches>>

TypeOK ==
  /\ cap \in 1 .. MaxItems /\ size \in 1 .. cap /\ n \in 1 .. size
  /\ slot \in [Slot -> Handle] /\ prev \in [Item -> 0 .. MaxItems]
  /\ running \in BOOLEAN /\ active \in Handle \ {EMPTY}
  /\ barriers \in 0 .. MaxBarriers /\ passed \in [Item -> 0 .. MaxBarriers + 1]
  /\ launches \in 0 .. MaxLaunches

(* A vector of capacity c whose elements below s are fibers not yet run.   *)
Init ==
  /\ cap = FirstItems /\ size = FirstItems /\ n = FirstItems
  /\ slot = [s \in Slot |-> IF s # TAIL /\ s[1] = FirstItems /\ s[2] < FirstItems
                              THEN s[2] ELSE EMPTY]
  /\ prev = [i \in Item |-> 0]
  /\ running = FALSE /\ active = MAIN
  /\ barriers = 0 /\ passed = [i \in Item |-> 0] /\ launches = 0
-----------------------------------------------------------------------------
Front_fault(y) ==
  IF y = MAIN THEN <<cap, 0>> ELSE IF y + 2 >= n THEN TAIL ELSE <<cap, y + 1>>

(* Where y finds the fiber that it resumes: next_, computed by each item   *)
(* when it starts the kernel, or threads_[0] for the thread.               *)
Front(y) ==
  IF y = MAIN THEN <<cap, 0>> ELSE IF y = n - 1 THEN TAIL ELSE <<cap, y + 1>>

(* Where h, when it is resumed, keeps the fiber that resumed it: prev_,    *)
(* computed when it is resumed for the first time and never again.         *)
Back(h) ==
  IF h = MAIN THEN <<cap, n - 1>>
  ELSE IF h = 0 THEN TAIL
  ELSE <<IF prev[h] = 0 THEN cap ELSE prev[h], h - 1>>

Resume(y) ==
  LET h == slot[Front(y)]
  IN  /\ h # EMPTY
      /\ active' = h
      /\ slot' = [slot EXCEPT ![Front(y)] = EMPTY, ![Back(h)] = y]
      /\ prev' = IF h # MAIN /\ prev[h] = 0 THEN [prev EXCEPT ![h] = cap] ELSE prev

(* alloc_threads: the elements are moved to vectors of capacity c, and     *)
(* new fibers are added up to s.                                           *)
Moved(c, s) ==
  [p \in Slot |->
     IF p = TAIL THEN slot[p]
     ELSE IF p[1] = c /\ p[2] \in size .. s - 1 THEN p[2]
     ELSE IF p[1] = c /\ p[2] < size THEN slot[<<cap, p[2]>>]
     ELSE IF p[1] = cap THEN EMPTY
     ELSE slot[p]]

(* exec_with_fibers for one group of s items: set_local_range, set_func.   *)
Launch(s, b) ==
  /\ active = MAIN /\ ~running /\ launches < MaxLaunches
  /\ LET c == IF s > cap THEN s ELSE cap
     IN  /\ cap' = c
         /\ slot' = IF s > size THEN Moved(c, s) ELSE slot
         /\ size' = IF s > size THEN s ELSE size
  /\ n' = s /\ barriers' = b /\ running' = TRUE
  /\ passed' = [i \in Item |-> 0]
  /\ launches' = launches + 1
  /\ UNCHANGED <<prev, active>>

(* work_group::resume, repeated by exec_with_fibers while running_.        *)
ResumeGroup ==
  /\ active = MAIN /\ running
  /\ Resume(MAIN)
  /\ UNCHANGED <<cap, size, n, running, barriers, passed, launches>>

(* The kernel returns in item 0, which says so to the thread.              *)
Ends(i) == i = 0 /\ passed[0] = barriers

(* Item i runs up to the next barrier or to the end of the kernel, and     *)
(* hands over (syncthreads, syncthreads_not_run).                          *)
RunItem(i) ==
  /\ active = i /\ passed[i] < MaxBarriers + 2
  /\ passed' = [passed EXCEPT ![i] = @ + 1]
  /\ running' = (running /\ ~Ends(i))
  /\ Resume(i)
  /\ UNCHANGED <<cap, size, n, barriers, launches>>

Idle == active = MAIN /\ ~running

Finished == Idle /\ launches = MaxLaunches /\ UNCHANGED vars

Next ==
  \/ \E s \in Sizes, b \in 0 .. MaxBarriers : Launch(s, b)
  \/ ResumeGroup
  \/ \E i \in Item : RunItem(i)
  \/ Finished

Spec == Init /\ [][Next]_vars
(* The thread and the items go on: each is a jump into a fiber.            *)
GoesOn == ResumeGroup \/ \E i \in Item : RunItem(i)

FairSpec == Spec /\ WF_vars(GoesOn)
-----------------------------------------------------------------------------
(* A barrier: no item is two pieces of the kernel ahead of another, so     *)
(* none passes a barrier that another has not reached.                     *)
BarrierHolds ==
  \A i, j \in 0 .. n - 1 : passed[i] <= passed[j] + 1

(* Whoever has the control finds a fiber to hand over to.                  *)
NextIsThere ==
  /\ active \in Item => slot[Front(active)] # EMPTY
  /\ active = MAIN => slot[<<cap, 0>>] # EMPTY

(* When exec_with_fibers has finished with a group, each of its items has  *)
(* run the whole kernel, once.                                             *)
GroupDone ==
  Idle /\ launches > 0 => \A i \in 0 .. n - 1 : passed[i] = barriers + 1

(* No fiber is lost or twice there: every fiber but the active one is in   *)
(* exactly one slot of the vector in use, or in tail_.                     *)
InUse == ({cap} \X (0 .. size - 1)) \union {TAIL}

EachOnce ==
  \A h \in (0 .. size - 1) \union {MAIN} :
    \/ h = active /\ \A p \in InUse : slot[p] # h
    \/ h # active /\ \E p \in InUse : slot[p] = h /\ \A q \in InUse \ {p} : slot[q] # h
=============================================================================
