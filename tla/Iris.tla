-------------------------------- MODULE Iris --------------------------------
(***************************************************************************)
(* The IRIS back end (lib/sycl/iris/iris_rts.cpp) under the dependency     *)
(* manager.  A task is a list of IRIS commands: a copy for each buffer     *)
(* whose latest data is on the other side, then a kernel or a fill.  A     *)
(* host accessor's task whose data is on the host has no command: it is    *)
(* never submitted to IRIS, it is done when submit returns, whatever it    *)
(* depends on, and nobody waits for its event.  A wait for any other is a  *)
(* wait for all that IRIS has.                                             *)
(*                                                                         *)
(* Of IRIS itself it is assumed that it runs a task some time after those  *)
(* it depends on, in any order otherwise and several at a time, and that   *)
(* a task it was never given does not hold those that depend on it.        *)
(*                                                                         *)
(* HostModes is the set of the accesses that the program's host accessors  *)
(* have; WaitsFirst: does it wait for its queue before it makes one?       *)
(***************************************************************************)
EXTENDS DepManager

VARIABLES
  waited,     \* host accessors whose constructor has returned
  read        \* what the program read through them

iris_vars == <<waited, read>>
iris_system == <<vars, iris_vars>>

IrisTypeOK ==
  /\ TypeOK
  /\ waited \subseteq {t \in Task : stage[t] = "done"}
  /\ read \in [Task -> [Buffer -> Data]]

IrisInit ==
  /\ Init
  /\ waited = {}
  /\ read = [t \in Task |-> [b \in Buffer |-> NONE]]
-----------------------------------------------------------------------------
IsHost(t) == group[t].tgt = HOST

(* set_buffer_param: htod and dtoh.                                        *)
CopiesIn(t) == {b \in Buffer : group[t].from[b] # NONE}

(* Has the task a command?  A device's task has its kernel or its fill.    *)
Commands(t) == ~IsHost(t) \/ CopiesIn(t) # {}

Empty_fault(t) == IsHost(t)

(* empty_: it has none.                                                    *)
Empty(t) == ~Commands(t)

InFlight == {t \in Task : stage[t] \in {"submitted", "started"}}

(* The program is not between bind and submit, or in an accessor's wait.   *)
IrisFree ==
  /\ Filling = {}
  /\ \A t \in Task : stage[t] # "bound" /\ (t \in live => t \in waited)

(* handler::bind: use_device, then the buffers.                            *)
IrisBinds(t) ==
  /\ IrisFree /\ Bind(t)
  /\ UNCHANGED iris_vars

(* do_writeback: use_host.                                                 *)
IrisBindsHost(t, HostModes, WaitsFirst) ==
  /\ IrisFree /\ (WaitsFirst => InFlight = {})
  /\ BindHost(t)
  /\ \A b \in Buffer : group'[t].acc[b] \in HostModes \union {"unused"}
  /\ UNCHANGED iris_vars

(* A reduction fills its buffer.                                           *)
IrisFills(t) ==
  /\ (IrisFree /\ FillBegin(t)) \/ FillEnd(t)
  /\ UNCHANGED iris_vars

(* submit.  (For a task that has no command there is only what it would    *)
(* have seen.)                                                             *)
IrisSubmits(t) ==
  /\ stage[t] = "bound"
  /\ stage' = [stage EXCEPT ![t] = IF Empty(t) THEN "done" ELSE "submitted"]
  /\ seen' = IF Empty(t) THEN [seen EXCEPT ![t] = [b \in Buffer |-> mem[b][HOST]]] ELSE seen
  /\ UNCHANGED <<before, mem, live, bound_vars, iris_vars>>

(* event_barrier_impl::add.                                                *)
NeedsSync(t) == ~Empty(t)

(* wait: iris_synchronize, unless the event is empty.                      *)
WaitEnds(t) == NeedsSync(t) => InFlight = {}

(* The constructor of the accessor returns, and the program reads.         *)
IrisWaits(t) ==
  /\ t \in live \ waited /\ stage[t] \in {"submitted", "started", "done"}
  /\ WaitEnds(t)
  /\ waited' = waited \union {t}
  /\ read' = [read EXCEPT ![t] = [b \in Buffer |-> mem[b][HOST]]]
  /\ UNCHANGED vars

(* The program writes through the pointer, if it may, and lets it go.      *)
IrisReleases(t) ==
  /\ t \in waited /\ Release(t)
  /\ UNCHANGED iris_vars
-----------------------------------------------------------------------------
HeldBy_fault(t) == {}

(* depends_on: iris_task_depend on every predecessor; those that IRIS was  *)
(* never given do not count.                                               *)
HeldBy(t) == {p \in before[t] : ~Empty(p)}

(* IRIS runs the commands of a task: the copies, then the kernel reads.    *)
IrisStarts(t) ==
  /\ stage[t] = "submitted" /\ \A p \in HeldBy(t) : stage[p] = "done"
  /\ stage' = [stage EXCEPT ![t] = "started"]
  /\ Fetches(t)
  /\ UNCHANGED <<before, live, bound_vars, iris_vars>>

IrisDone(t) ==
  /\ Done(t)
  /\ UNCHANGED iris_vars

IrisFinished ==
  /\ live = {} /\ \A t \in Task : stage[t] = "done"
  /\ UNCHANGED iris_system

IrisStep(t) == IrisStarts(t) \/ IrisDone(t)
IrisGoesOn(t) ==
  IrisSubmits(t) \/ IrisWaits(t) \/ (fill[t] # NoFill /\ IrisFills(t))

IrisNext(HostModes, WaitsFirst) ==
  \/ \E t \in Task :
       \/ IrisBinds(t) \/ IrisBindsHost(t, HostModes, WaitsFirst) \/ IrisFills(t)
       \/ IrisSubmits(t) \/ IrisWaits(t) \/ IrisReleases(t)
       \/ IrisStarts(t) \/ IrisDone(t)
  \/ IrisFinished

IrisSpec(HostModes, WaitsFirst) ==
  IrisInit /\ [][IrisNext(HostModes, WaitsFirst)]_iris_system

(* IRIS runs what it has, and the program goes on with what it has begun.  *)
IrisFairSpec(HostModes, WaitsFirst) ==
  /\ IrisSpec(HostModes, WaitsFirst)
  /\ \A t \in Task : WF_iris_system(IrisStep(t)) /\ WF_iris_system(IrisGoesOn(t))
-----------------------------------------------------------------------------
(* A kernel reads what the command groups and host accessors bound before  *)
(* it wrote.  (depends_on, set_buffer_param, submit; "barrier->wait();" in *)
(* do_writeback.)                                                          *)
IrisReadsLatest ==
  \A t \in Task, b \in Buffer :
    stage[t] \in {"started", "done"} /\ ~IsHost(t) /\ Reads(group[t].acc[b]) =>
      seen[t][b] = want[t][b]

(* So does the program, through a host accessor's pointer.                 *)
AccessorsReadLatest ==
  \A t \in waited, b \in Buffer : Reads(group[t].acc[b]) => read[t][b] = want[t][b]

(* While a command copies from the host's memory nobody writes there, the  *)
(* program or a copy to the host; and the other way round.                 *)
HostMemoryIsQuiet ==
  \A t \in Task, b \in Buffer :
    LET user == t \in live /\ t \in waited /\ Writes(group[t].acc[b])
        copy == stage[t] = "started" /\ IsHost(t) /\ b \in CopiesIn(t)
    IN  user \/ copy =>
          \A u \in InFlight \ {t} :
            /\ group[u].from[b] # HOST
            /\ stage[u] = "started" => ~(IsHost(u) /\ b \in CopiesIn(u))
=============================================================================
