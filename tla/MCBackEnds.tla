---------------------------- MODULE MCBackEnds ----------------------------
(***************************************************************************)
(* The dependency manager under three back ends: any that runs tasks as    *)
(* TaskGraph allows, the CPU's and IRIS.  A behaviour is one of one back   *)
(* end, chosen in the initial state; all bind with DepManager's actions.   *)
(***************************************************************************)
EXTENDS CpuBackend, Iris, TLC

VARIABLE part

(* The accesses of the host accessors in each part.                        *)
Readers == {"read_only"}
Both == {"read_only", "read_write"}

all_vars == <<part, vars, cpu_vars, iris_vars>>

NoCpu == q_task = 0 /\ order = 0 /\ waiting = 0 /\ woken = 0 /\ memory = 0 /\ found = 0
NoIris == waited = 0 /\ read = 0

MCInit ==
  \/ part = "any" /\ Init /\ NoCpu /\ NoIris
  \/ part \in {"cpu_readers", "cpu"} /\ CpuInit /\ NoIris
  \/ part \in {"iris_readers", "iris_waits"} /\ IrisInit /\ NoCpu

(* The CPU, and a device under IRIS, is one memory domain.                 *)
OneDevice ==
  LET used == {group[t].tgt : t \in Task} \union {fill[t].tgt : t \in Filling}
  IN  \A d, e \in used \ {HOST} : d = e

MCNext ==
  /\ UNCHANGED part
  /\ \/ part = "any" /\ Next /\ UNCHANGED <<cpu_vars, iris_vars>>
     \/ part = "cpu_readers" /\ CpuNext(Readers) /\ OneDevice' /\ UNCHANGED iris_vars
     \/ part = "cpu" /\ CpuNext(Both) /\ OneDevice' /\ UNCHANGED iris_vars
     \/ part = "iris_readers" /\ IrisNext(Readers, FALSE) /\ OneDevice' /\ UNCHANGED cpu_vars
     \/ part = "iris_waits" /\ IrisNext(Both, TRUE) /\ OneDevice' /\ UNCHANGED cpu_vars

(* A task that can run does, and the program goes on with what it has      *)
(* begun; see Fairness of DepManager, CpuFairSpec and IrisFairSpec.        *)
MCFairness ==
  \A t \in Task :
    /\ WF_all_vars(part = "any" /\ TaskStep(t) /\ UNCHANGED <<part, cpu_vars, iris_vars>>)
    /\ WF_all_vars(part = "any" /\ FillEnd(t) /\ UNCHANGED <<part, cpu_vars, iris_vars>>)
    /\ WF_all_vars(part \in {"cpu_readers", "cpu"} /\ Pool(t) /\ UNCHANGED <<part, iris_vars>>)
    /\ WF_all_vars(part \in {"cpu_readers", "cpu"} /\ CpuGoesOn(t) /\ UNCHANGED <<part, iris_vars>>)
    /\ WF_all_vars(part \in {"iris_readers", "iris_waits"} /\ IrisStep(t) /\ UNCHANGED <<part, cpu_vars>>)
    /\ WF_all_vars(part \in {"iris_readers", "iris_waits"} /\ IrisGoesOn(t) /\ UNCHANGED <<part, cpu_vars>>)

MCSpec == MCInit /\ [][MCNext]_all_vars
MCFairSpec == MCSpec /\ MCFairness

Symmetry == Permutations(Task) \union Permutations(Buffer) \union Permutations(Device)
-----------------------------------------------------------------------------
(* dev_rts_cpu.cpp, iris_rts.cpp under dep.cpp: a kernel reads what the    *)
(* groups bound before it wrote, also where the host's memory is the       *)
(* device's or a task without commands is done at once.  On the CPU the    *)
(* program's host accessors only read: one that writes races with the      *)
(* kernels that read before it.                                            *)
KernelsReadLatest ==
  /\ part = "any" => ReadsLatest
  /\ part = "cpu_readers" => CpuReadsLatest
  /\ part \in {"iris_readers", "iris_waits"} => IrisReadsLatest

(* do_writeback and the barriers of the back ends: a program that has      *)
(* waited finds at the host's pointer what was bound before wrote, until   *)
(* it lets the accessor go; the pool's queue has a job when it is due.     *)
HostReadsLatest ==
  /\ part = "cpu" => CpuTypeOK /\ HostSeesLatest /\ JobsAreDue
  /\ part \in {"iris_readers", "iris_waits"} => IrisTypeOK /\ AccessorsReadLatest
  /\ part = "iris_readers" => HostMemoryIsQuiet

(* No task waits for ever, and every constructor of a host accessor        *)
(* returns, on each back end.                                              *)
AllComplete ==
  \A t \in Task :
    /\ (stage[t] = "bound") ~> (stage[t] = "done")
    /\ (part \in {"cpu", "cpu_readers"} /\ t \in live) ~>
         (part \in {"cpu", "cpu_readers"} => t \in woken)
    /\ (part \in {"iris_readers", "iris_waits"} /\ t \in live) ~>
         (part \in {"iris_readers", "iris_waits"} => t \in waited)
=============================================================================
