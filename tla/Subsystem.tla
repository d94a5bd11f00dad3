------------------------------ MODULE Subsystem ------------------------------
(***************************************************************************)
(* Which back end a program gets, and how long it lives.  The library      *)
(* keeps a weak reference to its dependency manager (lib/sycl/rt.hpp,      *)
(* global_state): the first object of a program makes it, under a lock,    *)
(* and with it the back end that CHARM_SYCL_RTS names or the first that    *)
(* can be had of IRIS, CUDA, HIP and the CPU (lib/sycl/rts.cpp).  Each     *)
(* driver is a library opened at run time, whose functions are looked up   *)
(* one by one.  When the last object goes the manager shuts the back end   *)
(* down and closes the driver, without the lock; a later object makes      *)
(* another.                                                                *)
(*                                                                         *)
(* The thread pool, the handle of a driver and its functions are globals.  *)
(***************************************************************************)
EXTENDS Naturals

CONSTANTS
  Thread,       \* threads of the program
  Settings,     \* what CHARM_SYCL_RTS may be: "none" or a back end
  Libraries,    \* what a driver's library may be
  MaxManagers   \* bound: dependency managers made in one run

Driver == {"iris", "cuda", "hip"}
Backend == Driver \union {"cpu"}

SubsystemAssumption ==
  /\ Settings \subseteq Backend \union {"none"}
  /\ Libraries \subseteq {"absent", "partial", "nodevice", "ok"}
  /\ MaxManagers \in Nat

VARIABLES
  env, lib,    \* the machine: they do not change
  handle,      \* of each driver: "closed", "open", or "bad": there is a
               \* handle, and some of the functions are null
  lock,        \* the threads in get_depmgr
  pc,          \* where each thread is, and with which back end
  holds,       \* the manager that a thread's objects hold, 0 for none
  closing,     \* the manager that a thread is shutting down, 0 for none
  backend,     \* of each manager: the back end it was made with
  tasks,       \* the managers with tasks in flight
  pool,        \* the manager whose thread pool q_task is
  crashed      \* a null function was called

vars == <<env, lib, handle, lock, pc, holds, closing, backend, tasks, pool, crashed>>

Manager == 1 .. MaxManagers
Made == {m \in Manager : backend[m] # "none"}
Alive == {holds[t] : t \in Thread} \ {0}
Place == [at : {"run", "init", "construct", "wait", "close", "failed", "exit"},
          of : Backend \union {"none"}]

TypeOK ==
  /\ env \in Settings /\ lib \in [Driver -> Libraries]
  /\ handle \in [Driver -> {"closed", "open", "bad"}]
  /\ lock \subseteq Thread
  /\ pc \in [Thread -> Place]
  /\ holds \in [Thread -> Manager \union {0}]
  /\ closing \in [Thread -> Manager \union {0}]
  /\ backend \in [Manager -> Backend \union {"none"}]
  /\ tasks \subseteq Manager /\ pool \in Manager \union {0}
  /\ crashed \in BOOLEAN

Init ==
  /\ env \in Settings /\ lib \in [Driver -> Libraries]
  /\ handle = [d \in Driver |-> "closed"]
  /\ lock = {} /\ pc = [t \in Thread |-> [at |-> "run", of |-> "none"]]
  /\ holds = [t \in Thread |-> 0] /\ closing = [t \in Thread |-> 0]
  /\ backend = [m \in Manager |-> "none"]
  /\ tasks = {} /\ pool = 0 /\ crashed = FALSE

At(t, place, k) == pc[t] = [at |-> place, of |-> k]
Goes(t, place, k) == pc' = [pc EXCEPT ![t] = [at |-> place, of |-> k]]
Running(t) == At(t, "run", "none")

Exited == crashed \/ \E t \in Thread : pc[t].at = "exit"
-----------------------------------------------------------------------------
(* Is there a manager that the weak reference still leads to?              *)
MayShare(t) == Alive # {}

After_fault(k) == CASE k = "iris" -> "dev-cuda" [] k = "cuda" -> "dev-hip" [] OTHER -> "dev"

(* make_subsystem_impl, if no back end is given: which comes next.         *)
After(k) == CASE k = "iris" -> "cuda" [] k = "cuda" -> "hip" [] OTHER -> "cpu"

MayEnter(t) == lock = {}

(* get_depmgr: use the manager there is, or make one.                      *)
Get(t) ==
  /\ Running(t) /\ holds[t] = 0 /\ MayEnter(t)
  /\ IF MayShare(t)
       THEN \E m \in Alive : holds' = [holds EXCEPT ![t] = m] /\ UNCHANGED <<lock, pc>>
       ELSE /\ Made # Manager
            /\ lock' = lock \union {t}
            /\ Goes(t, "init", IF env = "none" THEN "iris" ELSE env)
            /\ UNCHANGED holds
  /\ UNCHANGED <<env, lib, handle, closing, backend, tasks, pool, crashed>>

(* What opening the driver's library leaves.  CUDA's has a handle as soon  *)
(* as it is tried, HIP's is given up when its version is not supported.    *)
Opened(k) ==
  CASE lib[k] \in {"ok", "nodevice"} -> {"open"}
    [] lib[k] = "absent" -> {IF k = "cuda" THEN "bad" ELSE "closed"}
    [] lib[k] = "partial" -> IF k = "hip" THEN {"closed", "bad"} ELSE {"bad"}

(* What comes after the driver's library has been tried: an error ends a   *)
(* program that asked for the back end.                                    *)
NextTry(t, h, k) ==
  \/ h = "open" /\ Goes(t, "construct", k)
  \/ h # "open" /\ env = "none" /\ Goes(t, "init", After(k))
  \/ h # "open" /\ env # "none" /\ Goes(t, "exit", k)

Reopens_fault(k) == handle[k] = "closed" /\ Made = {}

(* The init of an interface does nothing when there is a handle.           *)
Reopens(k) == handle[k] = "closed"

TryInit(t) ==
  \E k \in Driver :
    /\ At(t, "init", k)
    /\ IF Reopens(k)
         THEN \E h \in Opened(k) :
                /\ handle' = [handle EXCEPT ![k] = h]
                /\ NextTry(t, h, k)
         ELSE Goes(t, "construct", k) /\ UNCHANGED handle
    /\ UNCHANGED <<env, lib, lock, holds, closing, backend, tasks, pool, crashed>>

UsesPool(k) == k \in {"cpu", "hip"}

Construct(t, k) ==
  LET m == CHOOSE i \in Manager \ Made : \A j \in Manager \ Made : i <= j
  IN  /\ backend' = [backend EXCEPT ![m] = k]
      /\ pool' = IF UsesPool(k) THEN m ELSE pool
      /\ holds' = [holds EXCEPT ![t] = m]
      /\ Goes(t, "run", "none")
      /\ UNCHANGED crashed

(* The constructor throws, as there is no device that it can use.          *)
Refuses(k) == lib[k] = "nodevice"

(* The constructor of a subsystem calls the driver: without a device there *)
(* is an exception, and the program's thread has no back end.              *)
MakeDriver(t) ==
  \E k \in Driver :
    /\ At(t, "construct", k) /\ Manager # Made
    /\ IF handle[k] = "bad"
         THEN crashed' = TRUE /\ UNCHANGED <<pc, holds, backend, pool>>
         ELSE IF Refuses(k)
         THEN Goes(t, "failed", k) /\ UNCHANGED <<holds, backend, pool, crashed>>
         ELSE Construct(t, k)
    /\ lock' = lock \ {t}
    /\ UNCHANGED <<env, lib, handle, closing, tasks>>

MakeCpu(t) ==
  /\ At(t, "init", "cpu") /\ Manager # Made
  /\ Construct(t, "cpu")
  /\ lock' = lock \ {t}
  /\ UNCHANGED <<env, lib, handle, closing, tasks>>
-----------------------------------------------------------------------------
Submit(t) ==
  /\ Running(t) /\ holds[t] # 0
  /\ tasks' = tasks \union {holds[t]}
  /\ UNCHANGED <<env, lib, handle, lock, pc, holds, closing, backend, pool, crashed>>

Finish(m) ==
  /\ m \in tasks
  /\ tasks' = tasks \ {m}
  /\ UNCHANGED <<env, lib, handle, lock, pc, holds, closing, backend, pool, crashed>>

(* The objects of a thread go, and with the last one the manager.          *)
Drop(t) ==
  /\ Running(t) /\ holds[t] # 0
  /\ IF \E u \in Thread \ {t} : holds[u] = holds[t]
       THEN UNCHANGED <<pc, closing>>
       ELSE Goes(t, "wait", backend[holds[t]]) /\ closing' = [closing EXCEPT ![t] = holds[t]]
  /\ holds' = [holds EXCEPT ![t] = 0]
  /\ UNCHANGED <<env, lib, handle, lock, backend, tasks, pool, crashed>>

(* IRIS, HIP and the CPU wait until there are no tasks.  CUDA waits for    *)
(* its queues one after the other, and not for task::q_ (see CudaQueues),  *)
(* which lets tasks of any number be left.                                 *)
MayClose(m) == backend[m] = "cuda" \/ m \notin tasks

(* shutdown: first the tasks.                                              *)
ShutdownWait(t) ==
  /\ pc[t].at = "wait" /\ MayClose(closing[t])
  /\ Goes(t, "close", pc[t].of)
  /\ UNCHANGED <<env, lib, handle, lock, holds, closing, backend, tasks, pool, crashed>>

Closed == "closed"

CloseDriver(k) == IF k = "cpu" THEN handle ELSE [handle EXCEPT ![k] = Closed]

(* Then the pool, if HIP uses it, and the driver.                          *)
ShutdownClose(t) ==
  /\ pc[t].at = "close"
  /\ pool' = IF pc[t].of = "hip" THEN 0 ELSE pool
  /\ handle' = CloseDriver(pc[t].of)
  /\ closing' = [closing EXCEPT ![t] = 0]
  /\ Goes(t, "run", "none")
  /\ UNCHANGED <<env, lib, lock, holds, backend, tasks, crashed>>

(* The program has made as many managers as the bound allows, or it is     *)
(* over.                                                                   *)
Finished ==
  /\ Exited \/ \A t \in Thread : pc[t].at = "failed" \/ (Running(t) /\ holds[t] = 0)
  /\ UNCHANGED vars

Step(t) ==
  \/ Get(t) \/ TryInit(t) \/ MakeDriver(t) \/ MakeCpu(t)
  \/ Submit(t) \/ Drop(t) \/ ShutdownWait(t) \/ ShutdownClose(t)

Next ==
  \/ ~Exited /\ \E t \in Thread : Step(t)
  \/ ~Exited /\ \E m \in Manager : Finish(m)
  \/ Finished

(* A thread goes on with what it is in the middle of, and tasks end.       *)
Making(t) == TryInit(t) \/ MakeDriver(t) \/ MakeCpu(t)
GoesOn(t) == ~Exited /\ (Making(t) \/ ShutdownWait(t) \/ ShutdownClose(t))
Ends(m) == ~Exited /\ Finish(m)

Fairness == (\A t \in Thread : WF_vars(GoesOn(t))) /\ (\A m \in Manager : WF_vars(Ends(m)))

Spec == Init /\ [][Next]_vars
FairSpec == Spec /\ Fairness
-----------------------------------------------------------------------------
(* All objects of a program at one time belong to one manager.             *)
(* (get_depmgr, its lock and its weak reference.)                          *)
OneManager == \A m, n \in Alive : m = n

(* The back end of a live manager has its driver open, and its own pool.   *)
(* (The shutdown of an earlier one comes without the lock.)                *)
BackendStands ==
  \A m \in Alive :
    /\ backend[m] # "cpu" => handle[backend[m]] = "open"
    /\ UsesPool(backend[m]) => pool = m

(* A driver is open, and a pool there, as long as tasks run, on the back   *)
(* ends that wait for all of them.  (shutdown.)                            *)
TasksHaveDriver ==
  \A m \in tasks : backend[m] # "cuda" =>
    /\ backend[m] # "cpu" => handle[backend[m]] = "open"
    /\ UsesPool(backend[m]) => pool # 0

(* No function of a driver is called that has not been found.              *)
NoNullCall == ~crashed

(* Without a setting a program gets some back end, the CPU's if need be.   *)
(* ("If no RTS is given", rts.cpp.)                                        *)
AlwaysSome == env = "none" => \A t \in Thread : pc[t].at # "failed"
=============================================================================
