----------------------------- MODULE BufferLife -----------------------------
(***************************************************************************)
(* The life of one buffer_impl: references to it are counted in            *)
(* runtime/intrusive_ptr.hpp, accessors and sycl::buffer objects hold      *)
(* them, and the destructor of the sycl::buffer that finds itself alone    *)
(* writes the data back (include/charm/sycl/buffer.ipp).  Command groups   *)
(* hold no reference: between submission and completion they use the       *)
(* memory of the buffer on trust.                                          *)
(***************************************************************************)
EXTENDS Naturals, FiniteSets

CONSTANTS
  Thread,
  Object,     (* sycl::buffer objects, copies of each other                *)
  Group,      (* command groups that use the buffer                        *)
  ReadOnly,   (* those that only read it                                   *)
  FIRST,      (* the buffer object that the program made first             *)
  NONE,
  MayDetach   (* does the program turn the writing back off?               *)

BufferAssumption ==
  /\ ReadOnly \subseteq Group
  /\ IsFiniteSet(Object) /\ IsFiniteSet(Thread)
  /\ FIRST \in Object /\ NONE \notin Object \union Group \union Thread
  /\ MayDetach \in BOOLEAN

VARIABLES
  ref,          \* ref_
  alive,        \* has buffer_impl not been deleted?
  owner,        \* of each object: the thread it belongs to, or NONE
  pc,           \* of each thread: what it is doing
  in_group,     \* the group whose function a thread is in
  write_back_,  \* write_back_ and write_back_ptr_ are set
  stage,        \* of each group
  before,       \* of each group: the groups it depends on
  latest, host, \* the group that wrote last, and the one whose data is at h_ptr
  writer,       \* of the device's memory_state: writer_ and readers_
  readers,
  h_readers,    \* readers_ of the host's
  on_device     \* does the device have the latest version?

vars == <<ref, alive, owner, pc, in_group, write_back_, stage, before, latest, host,
          writer, readers, h_readers, on_device>>

state_vars == <<before, latest, writer, readers, h_readers, on_device>>

Pc == {"idle", "group", "release", "write_back", "delete"}

TypeOK ==
  /\ ref \in 0 .. Cardinality(Object) + Cardinality(Thread)
  /\ alive \in BOOLEAN /\ write_back_ \in BOOLEAN
  /\ owner \in [Object -> Thread \union {NONE}]
  /\ pc \in [Thread -> Pc]
  /\ in_group \in [Thread -> Group \union {NONE}]
  /\ stage \in [Group -> {"new", "open", "pending", "done"}]
  /\ before \in [Group -> SUBSET Group]
  /\ {latest, host, writer} \subseteq Group \union {NONE}
  /\ readers \subseteq Group /\ h_readers \subseteq Group /\ on_device \in BOOLEAN

Init ==
  /\ ref = 1 /\ alive = TRUE
  /\ \E t \in Thread : owner = [o \in Object |-> IF o = FIRST THEN t ELSE NONE]
  /\ pc = [t \in Thread |-> "idle"]
  /\ in_group = [t \in Thread |-> NONE]
  /\ write_back_ = TRUE
  /\ stage = [g \in Group |-> "new"] /\ before = [g \in Group |-> {}]
  /\ latest = NONE /\ host = NONE /\ writer = NONE
  /\ readers = {} /\ h_readers = {} /\ on_device = FALSE
-----------------------------------------------------------------------------
Pending == {g \in Group : stage[g] = "pending"}

Has(t) == \E o \in Object : owner[o] = t

(* The copy constructor, for the same or for another thread.               *)
CopyBuffer(t, o) ==
  /\ pc[t] = "idle" /\ Has(t) /\ owner[o] = NONE
  /\ ref' = ref + 1
  /\ \E u \in Thread : owner' = [owner EXCEPT ![o] = u]
  /\ UNCHANGED <<alive, pc, in_group, write_back_, stage, host, state_vars>>

(* set_final_data(nullptr), set_write_back(false).                         *)
Detach(t) ==
  /\ MayDetach /\ pc[t] = "idle" /\ Has(t)
  /\ write_back_' = FALSE
  /\ UNCHANGED <<ref, alive, owner, pc, in_group, stage, host, state_vars>>

(* A command group function makes an accessor, which holds a reference     *)
(* until the function returns.                                             *)
GroupBegin(t, g) ==
  /\ pc[t] = "idle" /\ Has(t) /\ stage[g] = "new"
  /\ ref' = ref + 1
  /\ in_group' = [in_group EXCEPT ![t] = g]
  /\ stage' = [stage EXCEPT ![g] = "open"]
  /\ pc' = [pc EXCEPT ![t] = "group"]
  /\ UNCHANGED <<alive, owner, write_back_, host, state_vars>>

(* release: fetch_sub returns n for the last reference.                    *)
Release(n) ==
  /\ ref' = ref - 1
  /\ IF ref = n THEN alive' = FALSE ELSE UNCHANGED alive

(* The dependency manager binds g on the device, see DepManager; a group   *)
(* that writes reads as well.                                              *)
Bound(g) ==
  /\ before' = [before EXCEPT ![g] =
       ({writer} \ {NONE}) \union (IF g \in ReadOnly /\ on_device THEN {} ELSE readers)]
  /\ IF g \in ReadOnly /\ on_device
       THEN readers' = readers \union {g} /\ UNCHANGED writer
       ELSE readers' = {} /\ writer' = g
  /\ h_readers' = IF on_device THEN h_readers ELSE h_readers \union {g}
  /\ on_device' = TRUE
  /\ latest' = IF g \in ReadOnly THEN latest ELSE g

(* The function returns: the group is submitted, its accessor is destroyed. *)
GroupEnd(t) ==
  /\ pc[t] = "group"
  /\ Bound(in_group[t])
  /\ stage' = [stage EXCEPT ![in_group[t]] = "pending"]
  /\ in_group' = [in_group EXCEPT ![t] = NONE]
  /\ pc' = [pc EXCEPT ![t] = "idle"]
  /\ Release(1)
  /\ UNCHANGED <<owner, write_back_, host>>

Unwrapped_fault(t) ==
  IF ref = 1
    THEN ref' = 0 /\ pc' = [pc EXCEPT ![t] = "delete"]
    ELSE pc' = [pc EXCEPT ![t] = "release"] /\ UNCHANGED ref

(* try_unwrap compares and exchanges; owned->write_back() comes next.      *)
Unwrapped(t) ==
  IF ref = 1
    THEN /\ ref' = 0
         /\ pc' = [pc EXCEPT ![t] = IF write_back_ THEN "write_back" ELSE "delete"]
    ELSE pc' = [pc EXCEPT ![t] = "release"] /\ UNCHANGED ref

(* ~buffer.                                                                *)
Destroy(t, o) ==
  /\ pc[t] = "idle" /\ owner[o] = t
  /\ owner' = [owner EXCEPT ![o] = NONE]
  /\ Unwrapped(t)
  /\ UNCHANGED <<alive, in_group, write_back_, stage, host, state_vars>>

(* try_into_owned has failed, and the member impl_ is destroyed.           *)
ReleaseObject(t) ==
  /\ pc[t] = "release"
  /\ Release(1)
  /\ pc' = [pc EXCEPT ![t] = "idle"]
  /\ UNCHANGED <<owner, in_group, write_back_, stage, host, state_vars>>

(* do_writeback binds a group of the host that reads and writes: it waits  *)
(* for the writer in the device's memory if the latest data is there, and  *)
(* for whoever uses the host's.                                            *)
Waited ==
  LET source == IF latest = NONE THEN {} ELSE {writer}
  IN  (source \union h_readers) \intersect Pending = {}

WriteBack(t) ==
  /\ pc[t] = "write_back" /\ Waited
  /\ host' = latest
  /\ pc' = [pc EXCEPT ![t] = "delete"]
  /\ UNCHANGED <<ref, alive, owner, in_group, write_back_, stage, state_vars>>

DeleteOwned(t) ==
  /\ pc[t] = "delete"
  /\ alive' = FALSE
  /\ pc' = [pc EXCEPT ![t] = "idle"]
  /\ UNCHANGED <<ref, owner, in_group, write_back_, stage, host, state_vars>>

Complete(g) ==
  /\ stage[g] = "pending" /\ before[g] \intersect Pending = {}
  /\ stage' = [stage EXCEPT ![g] = "done"]
  /\ UNCHANGED <<ref, alive, owner, pc, in_group, write_back_, host, state_vars>>

Finished ==
  /\ ~alive /\ Pending = {} /\ \A t \in Thread : pc[t] = "idle"
  /\ UNCHANGED vars

ThreadStep(t) ==
  \/ \E o \in Object : CopyBuffer(t, o) \/ Destroy(t, o)
  \/ \E g \in Group : GroupBegin(t, g)
  \/ Detach(t) \/ GroupEnd(t)
  \/ ReleaseObject(t) \/ WriteBack(t) \/ DeleteOwned(t)

Next ==
  \/ \E t \in Thread : ThreadStep(t)
  \/ \E g \in Group : Complete(g)
  \/ Finished

Spec == Init /\ [][Next]_vars

(* Groups complete, and a thread goes on with what it has begun.           *)
GoesOn(t) == GroupEnd(t) \/ ReleaseObject(t) \/ WriteBack(t) \/ DeleteOwned(t)

Fairness ==
  /\ \A g \in Group : WF_vars(Complete(g))
  /\ \A t \in Thread : WF_vars(GoesOn(t))

FairSpec == Spec /\ Fairness
-----------------------------------------------------------------------------
Owned == {o \in Object : owner[o] # NONE}
Busy(p) == {t \in Thread : pc[t] \in p}

(* The count is the number of objects, accessors and destructors at work   *)
(* that still hold a reference; it is deleted by the last and by no other. *)
CountIsHolders ==
  /\ ref = Cardinality(Owned) + Cardinality(Busy({"group", "release"}))
  /\ ref > 0 => alive
  /\ Busy({"write_back", "delete"}) # {} => ref = 0 /\ alive
  /\ Cardinality(Busy({"write_back", "delete"})) <= 1

(* Data written by the device is at the host's pointer once the last       *)
(* object of a buffer is gone.                                             *)
WrittenBack == ~alive /\ write_back_ => host = latest

(* A group that has been submitted still finds the memory when it runs.    *)
MemoryHeld == Pending # {} => alive
=============================================================================
