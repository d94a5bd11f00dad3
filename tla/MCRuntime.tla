----------------------------- MODULE MCRuntime -----------------------------
(***************************************************************************)
(* Small instances of the runtime's parts that share no state.  A          *)
(* behaviour is a behaviour of one part, chosen in the initial state; the  *)
(* variables of the others rest.  Two instances of one module that differ  *)
(* in its constants are two parts with the same variables.                 *)
(***************************************************************************)
EXTENDS Integers, Sequences

CONSTANTS
  Actor, ONE,               \* threads, groups or workers at one time; one that is alone
  MAIN, EMPTY, TAIL, Items, Barriers, Launches,                  \* Fiber
  Command, Width,                                                \* Queue
  Object, FIRST, NONE, Group, SharedGroup, Reader,               \* BufferLife
  Managers,                                                      \* Subsystem
  Buffers, Word, MaxAlign, ArrayAlign,                           \* HandlerBind
  Arguments, MaxArgs, SharedArguments, MaxShared,
  Tasks, Kinds,                                                  \* CudaQueues
  Kernel, NoOne, Jobs, MAX_N_ARGS, ARG_BUF_SIZE                  \* OmpLoader

VARIABLES
  part,
  cap, size, slot, prev, n, running, active, barriers, passed, launches,
  events, stage, owed, adding, n_wait, n_wake, run_, need_wait, pc, waited,
  ref, alive, owner, pc_b, in_group, write_back_, stage_b, before_b, latest_b, host, writer,
  readers, h_readers, on_device,
  lock, pc_h, args, idx, pairs, deps, latest, locals, lmem, params,
  target, pc_r, r, val, seen, red, result,
  env, lib, handle, lock_s, pc_s, holds, closing, backend, tasks, pool, crashed,
  kind, before, at, q, jobs, device, waited_c, closed, early,
  registry, kinds, pc_o, job, given, g_mutex, g_lock, g_kinfo, args_o, arg_next, arg_data, ran
-----------------------------------------------------------------------------
Fiber == INSTANCE Fiber WITH
  MaxItems <- Items, FirstItems <- Items, Sizes <- 1 .. Items, MaxBarriers <- Barriers,
  MaxLaunches <- Launches

Queue == INSTANCE Queue WITH Task <- Command

Life == INSTANCE BufferLife WITH
  Thread <- {ONE}, ReadOnly <- {}, MayDetach <- FALSE,
  pc <- pc_b, stage <- stage_b, before <- before_b, latest <- latest_b

(* With groups that only read, and several threads: see WrittenBack.       *)
Lives == INSTANCE BufferLife WITH
  Thread <- Actor, Group <- SharedGroup, ReadOnly <- Reader, MayDetach <- TRUE,
  pc <- pc_b, stage <- stage_b, before <- before_b, latest <- latest_b

Acc(b, m) == [kind |-> "accessor", buff |-> b, mode |-> m]
Value(s) == [kind |-> "value", size |-> s]
Local(s, align, array) == [kind |-> "local", size |-> s, align |-> align, array |-> array]

(* Arguments for TLC.                                                      *)
SomeArguments ==
  {Acc(b, m) : b \in {1, 2}, m \in {"read", "write", "read_write", "discard_write"}}
    \cup {Value(1), Value(5), Local(1, 1, FALSE), Local(3, 8, FALSE), Local(2, 2, TRUE)}
SomeAccessors == {Acc(b, "read_write") : b \in {1, 2}}

(* One group with every argument ...                                       *)
Binds == INSTANCE HandlerBind WITH
  Groups <- {ONE}, Args <- Arguments, CanThrow <- FALSE, pc <- pc_h

(* ... and several that share buffers and may throw.                       *)
Shares == INSTANCE HandlerBind WITH
  Groups <- Actor, Args <- SharedArguments, MaxArgs <- MaxShared,
  CanThrow <- TRUE, pc <- pc_h

Reduces == INSTANCE Reduction WITH
  Targets <- {"gpu", "cpu"}, Blocks <- 2, Threads <- 2, WarpSize <- 2, Reducers <- 1, OpenMP <- FALSE,
  pc <- pc_r

(* Two reductions through one shared variable, in a block of two warps.    *)
Again == INSTANCE Reduction WITH
  Targets <- {"gpu"}, Blocks <- 1, Threads <- 4, WarpSize <- 2, Reducers <- 2, OpenMP <- FALSE,
  pc <- pc_r

(* Several threads, any libraries ...                                      *)
Makes == INSTANCE Subsystem WITH
  Thread <- Actor, Settings <- {"none", "cpu", "cuda", "hip", "iris"},
  Libraries <- {"absent", "partial", "ok"}, MaxManagers <- 1, pc <- pc_s, lock <- lock_s

(* ... and one that makes managers after each other.                       *)
Remakes == INSTANCE Subsystem WITH
  Thread <- {ONE}, Settings <- {"none", "cpu", "cuda", "hip", "iris"},
  Libraries <- {"ok"}, MaxManagers <- Managers, pc <- pc_s, lock <- lock_s

Cuda == INSTANCE CudaQueues WITH waited <- waited_c

Scalar(s) == [kind |-> "scalar", size |-> s]
Mem == [kind |-> "mem", size |-> 1]

(* Argument lists for TLC.                                                 *)
SomeJobs == {<< >>, <<Mem, Scalar(3)>>, <<Scalar(1), Mem, Scalar(1)>>, <<Mem, Mem, Mem, Mem>>}

Omp == INSTANCE OmpLoader WITH
  Worker <- Actor, pc <- pc_o, args <- args_o

ASSUME FiberIsGiven == Fiber!FiberAssumption
ASSUME QueueIsGiven == Queue!QueueAssumption /\ Queue!CountersFit
ASSUME LifeIsGiven == Life!BufferAssumption /\ Lives!BufferAssumption
ASSUME BindsAreGiven == Binds!BindAssumption /\ Shares!BindAssumption
ASSUME SumIsGiven == Reduces!ReductionAssumption /\ Again!ReductionAssumption
ASSUME BackEndIsGiven == Makes!SubsystemAssumption /\ Remakes!SubsystemAssumption
ASSUME CudaIsGiven == Cuda!QueuesAssumption
ASSUME OmpIsGiven == Omp!OmpAssumption /\ Omp!JobsFit
-----------------------------------------------------------------------------
(* The parts, by what their variables belong to.                           *)
fiber_vars == <<cap, size, slot, prev, n, running, active, barriers, passed, launches>>
queue_vars == <<events, stage, owed, adding, n_wait, n_wake, run_, need_wait, pc, waited>>
life_vars == <<ref, alive, owner, pc_b, in_group, write_back_, stage_b, before_b, latest_b, host,
               writer, readers, h_readers, on_device>>
bind_vars == <<lock, pc_h, args, idx, pairs, deps, latest, locals, lmem, params>>
sum_vars == <<target, pc_r, r, val, seen, red, result>>
sub_vars == <<env, lib, handle, lock_s, pc_s, holds, closing, backend, tasks, pool, crashed>>
cuda_vars == <<kind, before, at, q, jobs, device, waited_c, closed, early>>
omp_vars == <<registry, kinds, pc_o, job, given, g_mutex, g_lock, g_kinfo, args_o, arg_next,
              arg_data, ran>>

vars == <<part, fiber_vars, queue_vars, life_vars, bind_vars, sum_vars, sub_vars, cuda_vars, omp_vars>>

Parts == [fiber |-> {"fiber"}, queue |-> {"queue"}, life |-> {"life", "lives"},
          bind |-> {"binds", "shares"}, sum |-> {"reduces", "again"},
          sub |-> {"makes", "remakes"}, cuda |-> {"cuda"}, omp |-> {"omp"}]

Begins ==
  CASE part = "fiber" -> Fiber!Init  [] part = "queue" -> Queue!Init
    [] part = "life" -> Life!Init  [] part = "lives" -> Lives!Init
    [] part = "binds" -> Binds!Init  [] part = "shares" -> Shares!Init
    [] part = "reduces" -> Reduces!Init  [] part = "again" -> Again!Init
    [] part = "makes" -> Makes!Init  [] part = "remakes" -> Remakes!Init
    [] part = "cuda" -> Cuda!Init  [] part = "omp" -> Omp!Init

Moves ==
  CASE part = "fiber" -> Fiber!Next  [] part = "queue" -> Queue!Next
    [] part = "life" -> Life!Next  [] part = "lives" -> Lives!Next
    [] part = "binds" -> Binds!Next  [] part = "shares" -> Shares!Next
    [] part = "reduces" -> Reduces!Next  [] part = "again" -> Again!Next
    [] part = "makes" -> Makes!Next  [] part = "remakes" -> Remakes!Next
    [] part = "cuda" -> Cuda!Next  [] part = "omp" -> Omp!Next

Absent(p) ==
  \/ /\ p = "fiber"
     /\ cap = 0 /\ size = 0 /\ slot = 0 /\ prev = 0 /\ n = 0 /\ running = 0 /\ active = 0
     /\ barriers = 0 /\ passed = 0 /\ launches = 0
  \/ /\ p = "queue"
     /\ events = 0 /\ stage = 0 /\ owed = 0 /\ adding = 0 /\ n_wait = 0 /\ n_wake = 0 /\ run_ = 0
     /\ need_wait = 0 /\ pc = 0 /\ waited = 0
  \/ /\ p = "life"
     /\ ref = 0 /\ alive = 0 /\ owner = 0 /\ pc_b = 0 /\ in_group = 0 /\ write_back_ = 0
     /\ stage_b = 0 /\ before_b = 0 /\ latest_b = 0 /\ host = 0 /\ writer = 0 /\ readers = 0
     /\ h_readers = 0 /\ on_device = 0
  \/ /\ p = "bind"
     /\ lock = 0 /\ pc_h = 0 /\ args = 0 /\ idx = 0 /\ pairs = 0 /\ deps = 0 /\ latest = 0
     /\ locals = 0 /\ lmem = 0 /\ params = 0
  \/ /\ p = "sum"
     /\ target = 0 /\ pc_r = 0 /\ r = 0 /\ val = 0 /\ seen = 0 /\ red = 0 /\ result = 0
  \/ /\ p = "sub"
     /\ env = 0 /\ lib = 0 /\ handle = 0 /\ lock_s = 0 /\ pc_s = 0 /\ holds = 0 /\ closing = 0
     /\ backend = 0 /\ tasks = 0 /\ pool = 0 /\ crashed = 0
  \/ /\ p = "cuda"
     /\ kind = 0 /\ before = 0 /\ at = 0 /\ q = 0 /\ jobs = 0 /\ device = 0 /\ waited_c = 0
     /\ closed = 0 /\ early = 0
  \/ /\ p = "omp"
     /\ registry = 0 /\ kinds = 0 /\ pc_o = 0 /\ job = 0 /\ given = 0 /\ g_mutex = 0 /\ g_lock = 0
     /\ g_kinfo = 0 /\ args_o = 0 /\ arg_next = 0 /\ arg_data = 0 /\ ran = 0

Rests(p) ==
  CASE p = "fiber" -> UNCHANGED fiber_vars [] p = "queue" -> UNCHANGED queue_vars
    [] p = "life" -> UNCHANGED life_vars   [] p = "bind" -> UNCHANGED bind_vars
    [] p = "sum" -> UNCHANGED sum_vars     [] p = "sub" -> UNCHANGED sub_vars
    [] p = "cuda" -> UNCHANGED cuda_vars   [] p = "omp" -> UNCHANGED omp_vars

Init ==
  /\ part \in UNION {Parts[p] : p \in DOMAIN Parts}
  /\ Begins
  /\ \A p \in DOMAIN Parts : part \notin Parts[p] => Absent(p)

Next ==
  /\ UNCHANGED part
  /\ \A p \in DOMAIN Parts : part \notin Parts[p] => Rests(p)
  /\ Moves

(* What goes on by itself in each part; see the modules' own fairness.     *)
Fairness ==
  /\ WF_fiber_vars(part = "fiber" /\ Fiber!GoesOn)
  /\ WF_queue_vars(part = "queue" /\ Queue!Program)
  /\ \A t \in Command : WF_queue_vars(part = "queue" /\ Queue!Pool(t))
  /\ \A g \in Group : WF_life_vars(part = "life" /\ Life!Complete(g))
  /\ WF_life_vars(part = "life" /\ Life!GoesOn(ONE))
  /\ \A g \in SharedGroup : WF_life_vars(part = "lives" /\ Lives!Complete(g))
  /\ \A t \in Actor : WF_life_vars(part = "lives" /\ Lives!GoesOn(t))
  /\ \A g \in Actor : WF_bind_vars(part = "shares" /\ Shares!do_bind(g))
  /\ WF_sum_vars(part = "reduces" /\ Reduces!Step)
  /\ WF_sum_vars(part = "again" /\ Again!Step)
  /\ \A t \in Actor : WF_sub_vars(part = "makes" /\ Makes!GoesOn(t))
  /\ WF_sub_vars(part = "remakes" /\ Remakes!GoesOn(ONE))
  /\ \A m \in 1 .. Managers : WF_sub_vars(part = "remakes" /\ Remakes!Ends(m))
  /\ WF_cuda_vars(part = "cuda" /\ Cuda!Call)
  /\ WF_cuda_vars(part = "cuda" /\ Cuda!ShutdownStep)
  /\ \A k \in Kinds \ {"none"} : WF_cuda_vars(part = "cuda" /\ Cuda!QueueStep(k))
  /\ \A t \in 1 .. Tasks : WF_cuda_vars(part = "cuda" /\ Cuda!DeviceRuns(t))
  /\ \A w \in Actor : WF_omp_vars(part = "omp" /\ Omp!Call(w))

Spec == Init /\ [][Next]_vars /\ Fairness
-----------------------------------------------------------------------------
(* The types of the variables of the part.                                 *)
TypeOK ==
  CASE part = "fiber" -> Fiber!TypeOK     [] part = "queue" -> Queue!TypeOK
    [] part = "life" -> Life!TypeOK       [] part = "lives" -> Lives!TypeOK
    [] part = "binds" -> Binds!TypeOK     [] part = "shares" -> Shares!TypeOK
    [] part = "makes" -> Makes!TypeOK     [] part = "remakes" -> Remakes!TypeOK
    [] part = "cuda" -> Cuda!TypeOK       [] part = "omp" -> Omp!TypeOK
    [] OTHER -> TRUE

(* fiber.cpp: no work item passes a barrier before all have come to it,    *)
(* whoever has the control finds a fiber to hand it to, no fiber is lost   *)
(* or in two places, and a group that is done has run all of each item.    *)
WorkItemsMeet ==
  part = "fiber" =>
    Fiber!BarrierHolds /\ Fiber!NextIsThere /\ Fiber!EachOnce /\ Fiber!GroupDone

(* queue.cpp: a wait returns when all the groups submitted before it have  *)
(* run; no group is forgotten, and the barrier's counters, which wrap,     *)
(* agree with the notifications that are owed.                             *)
WaitIsEnough ==
  part = "queue" => Queue!WaitIsEnough /\ Queue!NotForgotten /\ Queue!CounterIsOwed

(* buffer.ipp, intrusive_ptr.hpp: the count is the number of holders; when *)
(* the buffer is gone its data is at the host's pointer, and no group that *)
(* uses its memory is still to run.                                        *)
WrittenBack ==
  /\ part = "life" => Life!WrittenBack /\ Life!MemoryHeld /\ Life!CountIsHolders
  /\ part = "lives" => Lives!CountIsHolders

(* handler.ipp, handler.cpp: one sufficient dependency for each buffer and *)
(* one copy at most; places of local memory and of values apart; and the   *)
(* buffers that two groups share bound in one order, for all that throws.  *)
OneDependency ==
  /\ part = "binds" =>
       Binds!OneDependency /\ Binds!OneCopy /\ Binds!LocalsApart /\ Binds!ParamsApart
  /\ part = "shares" => Shares!SameOrder

(* reduction.ipp and the lower compiler's code for it: however threads,    *)
(* warps and blocks interleave, each contribution is in the sum once.      *)
SumIsRight ==
  /\ part = "reduces" => Reduces!SumIsRight /\ Reduces!NeverTooMuch
  /\ part = "again" => Again!SumIsRight

(* rts.cpp, rt.hpp, shutdown: a live manager's driver is open and its pool *)
(* its own, tasks run while the driver is there, no function is called     *)
(* that has not been found, and without a setting there is some back end.  *)
BackendStands ==
  /\ part = "makes" => Makes!NoNullCall /\ Makes!AlwaysSome /\ Makes!OneManager
  /\ part = "remakes" => Remakes!BackendStands /\ Remakes!TasksHaveDriver

(* dev_rts_cuda.cpp: an operation is issued when all it runs after have    *)
(* run on the device, over six streams; and what a queue had when shutdown *)
(* began has run when the driver is closed.                                *)
DataIsReady ==
  part = "cuda" => Cuda!DataIsReady /\ Cuda!QueuedHaveRun

(* openmp.cpp: workers of IRIS that make their calls at the same time each *)
(* run their own kernel with their own arguments, all inside the buffer.   *)
RunsOwn ==
  part = "omp" => Omp!RunsOwn /\ Omp!ErrorsAreDue /\ Omp!ArgsFit

(* What is called returns, and what is begun ends: a launched group of     *)
(* work items, a wait, the last reference, a bind (under the lock that an  *)
(* exception must not keep), a kernel with reductions, the making of a     *)
(* back end, a shutdown, a task of CUDA, a call of an IRIS worker.         *)
Begun(i) ==
  CASE part = "fiber" -> running         [] part = "queue" -> pc # "idle"
    [] part = "life" -> ref = 0          [] part = "lives" -> ref = 0
    [] part = "binds" -> FALSE           [] part = "shares" -> args[i] # << >>
    [] part = "reduces" -> TRUE          [] part = "again" -> TRUE
    [] part = "makes" -> i \in lock_s
    [] part = "remakes" -> closing[ONE] # 0
    [] part = "cuda" -> waited_c # -1    [] part = "omp" -> TRUE

Over(i) ==
  CASE part = "fiber" -> Fiber!Idle      [] part = "queue" -> pc = "idle"
    [] part = "life" -> ~alive           [] part = "lives" -> ~alive
    [] part = "binds" -> TRUE
    [] part = "shares" -> pc_h[i] \in {"bound", "thrown"}
    [] part = "reduces" -> Reduces!Ended [] part = "again" -> Again!Ended
    [] part = "makes" -> Makes!Exited \/ holds[i] # 0
    [] part = "remakes" -> Remakes!Exited \/ closing[ONE] = 0
    [] part = "cuda" -> closed           [] part = "omp" -> pc_o[i] \in {"error", "done"}

CallsReturn ==
  /\ \A i \in Actor : Begun(i) ~> Over(i)
  /\ \A t \in 1 .. Tasks :
       (part = "cuda" /\ at[t] # "new") ~> (part = "cuda" => at[t] = "done" \/ waited_c # -1)
=============================================================================
