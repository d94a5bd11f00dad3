----------------------------- MODULE DepManager -----------------------------
(***************************************************************************)
(* The dependency manager (lib/sycl/dep.cpp): where the latest data of a   *)
(* buffer is, which task must wait for which, and which copies a task must *)
(* make before it runs.                                                    *)
(*                                                                         *)
(* A buffer has one memory_state for each memory domain, with the version  *)
(* of the data there, the task that wrote it last and the tasks that read  *)
(* it since.  A command group is bound to its buffers under g_lock, in one *)
(* step; a reduction's fill_zero does the same without the lock.  The      *)
(* back end then runs the tasks in any order that TaskGraph allows.        *)
(*                                                                         *)
(* Data is abstracted to the task that wrote it; last[b] is the writer     *)
(* that a program executing its command groups one by one would see.       *)
(***************************************************************************)
EXTENDS Naturals, FiniteSets

CONSTANTS
  Task,       (* command groups, host accessors and fills                  *)
  Buffer,
  Device,     (* memory domains of the devices                             *)
  HOST,       (* HOST_DOM_ID, the host's memory domain                     *)
  NONE,       (* no task, no domain; also the writer of the initial data   *)
  Concurrent  (* do several threads submit reductions at the same time?    *)

Dom == Device \union {HOST}

ASSUME DepAssumption ==
  /\ HOST \notin Device /\ NONE \notin Task \union Dom
  /\ Concurrent \in BOOLEAN

VARIABLES
  stage, before,   \* the tasks, see TaskGraph
  ver, owner,      \* of each buffer: ver_, owner_
  state,           \* of each buffer and domain: memory_state
  group,           \* what a task was bound to
  fill,            \* a fill_zero that has chosen its version
  mem,             \* the data of each buffer in each domain
  seen,            \* the data that a task read
  last, want,      \* what it should have read
  live             \* host accessors whose pointer the program still uses

graph == INSTANCE TaskGraph WITH Node <- Task

vars == <<stage, before, ver, owner, state, group, fill, mem, seen, last, want, live>>

HOST_INIT_VER == 1
DEV_INIT_VER == 0

(* memory_access; a buffer the group has no accessor for is "unused".      *)
Access == {"unused", "read_only", "write_only", "read_write"}
Reads(a) == a \in {"read_only", "read_write"}
Writes(a) == a \in {"write_only", "read_write"}

Writer == Task \union {NONE}
Unset == "unset"                \* what a device's memory holds when allocated
Data == Writer \union {Unset}
Group == [tgt : Dom, acc : [Buffer -> Access], from : [Buffer -> Dom \union {NONE}]]
State == [ver : Nat, writer : Writer, readers : SUBSET Task]
NoGroup == [tgt |-> HOST, acc |-> [b \in Buffer |-> "unused"],
            from |-> [b \in Buffer |-> NONE]]

Fill == [buf : Buffer, tgt : Dom, ver : Nat]
NoFill == NONE

TypeOK ==
  /\ graph!TGTypeOK
  /\ ver \in [Buffer -> Nat] /\ owner \in [Buffer -> Dom]
  /\ state \in [Buffer -> [Dom -> State]]
  /\ group \in [Task -> Group]
  /\ fill \in [Task -> Fill \union {NoFill}]
  /\ mem \in [Buffer -> [Dom -> Data]]
  /\ seen \in [Task -> [Buffer -> Data]] /\ want \in [Task -> [Buffer -> Writer]]
  /\ last \in [Buffer -> Writer]
  /\ live \in SUBSET Task

Init ==
  /\ graph!TGInit
  /\ ver = [b \in Buffer |-> HOST_INIT_VER] /\ owner = [b \in Buffer |-> HOST]
  /\ state = [b \in Buffer |-> [d \in Dom |->
       [ver |-> IF d = HOST THEN HOST_INIT_VER ELSE DEV_INIT_VER,
        writer |-> NONE, readers |-> {}]]]
  /\ group = [t \in Task |-> NoGroup]
  /\ fill = [t \in Task |-> NoFill]
  /\ mem = [b \in Buffer |-> [d \in Dom |-> IF d = HOST THEN NONE ELSE Unset]]
  /\ seen = [t \in Task |-> [b \in Buffer |-> NONE]]
  /\ want = [t \in Task |-> [b \in Buffer |-> NONE]]
  /\ last = [b \in Buffer |-> NONE]
  /\ live = {}
-----------------------------------------------------------------------------
(* memory_state.  An operator named ..._fault is what a plausible mistake  *)
(* would make of the one after it; no specification uses it, the checks    *)
(* must notice it.                                                         *)
PrepareRead(s, t) == [s EXCEPT !.readers = @ \union {t}]

PrepareWrite_fault(s, t, v) == [s EXCEPT !.readers = {s.writer}, !.writer = t, !.ver = v]

PrepareWrite(s, t, v) == [s EXCEPT !.readers = {}, !.writer = t, !.ver = v]

WaitsFor_fault(s, wait_for_prior_readers) == {s.writer} \ {NONE}

(* set_dependency: readers wait for the writer, a writer for all.          *)
WaitsFor(s, wait_for_prior_readers) ==
  ({s.writer} \ {NONE}) \union (IF wait_for_prior_readers THEN s.readers ELSE {})

HasLatest(b, d) == state[b][d].ver = ver[b]

(* local_* and transfer_*: which states the access prepares to read and to *)
(* write.  Without the latest data in the target a read of any kind copies *)
(* it there from the owner, so the task reads there and writes here.       *)
ReadAt(b, a, tgt) ==
  IF HasLatest(b, tgt) THEN (IF a = "read_only" THEN {tgt} ELSE {})
                       ELSE (IF Reads(a) THEN {owner[b]} ELSE {})

WriteAt(b, a, tgt) ==
  IF Writes(a) \/ (a = "read_only" /\ ~HasLatest(b, tgt)) THEN {tgt} ELSE {}

NewVersion_fault_target(b, a, tgt) == state[b][tgt].ver + 1

NewVersion_fault_same(b, a, tgt) == ver[b]

(* The version the access leaves in the target.                            *)
NewVersion(b, a, tgt) ==
  LET src == IF HasLatest(b, tgt) THEN tgt ELSE owner[b]
  IN  IF Writes(a) THEN state[b][src].ver + 1 ELSE state[b][src].ver

Prepared(t, b, a, tgt, v) ==
  [d \in Dom |->
     IF d \in WriteAt(b, a, tgt) THEN PrepareWrite(state[b][d], t, v)
     ELSE IF d \in ReadAt(b, a, tgt) THEN PrepareRead(state[b][d], t)
     ELSE state[b][d]]

Preds(b, a, tgt) ==
  (UNION {WaitsFor(state[b][d], FALSE) : d \in ReadAt(b, a, tgt)}) \union
  (UNION {WaitsFor(state[b][d], TRUE) : d \in WriteAt(b, a, tgt)})

(* set_buffer_param of the back end: the task copies from this domain.     *)
CopyFrom(b, a, tgt) ==
  IF Reads(a) /\ ~HasLatest(b, tgt) THEN owner[b] ELSE NONE
-----------------------------------------------------------------------------
Filling == {t \in Task : fill[t] # NoFill}

(* While a host accessor lives the program binds nothing to its buffer:    *)
(* the constructor waits for what came before, and nothing in it makes     *)
(* what comes after wait.                                                  *)
Free(b) == \A h \in live : group[h].acc[b] = "unused"

(* Without concurrent submitters nobody binds between the two halves of a  *)
(* fill_zero.                                                              *)
MayBind == Concurrent \/ Filling = {}

(* One task bound to all its buffers: acc gives the access to each.        *)
BindAll(t, tgt, acc) ==
  LET used == {b \in Buffer : acc[b] # "unused"}
      v(b) == NewVersion(b, acc[b], tgt)
  IN  /\ graph!Seal(t, UNION {Preds(b, acc[b], tgt) : b \in used})
      /\ group' = [group EXCEPT ![t] =
           [tgt |-> tgt, acc |-> acc,
            from |-> [b \in Buffer |-> CopyFrom(b, acc[b], tgt)]]]
      /\ state' = [b \in Buffer |-> Prepared(t, b, acc[b], tgt, v(b))]
      /\ ver' = [b \in Buffer |-> IF Writes(acc[b]) THEN v(b) ELSE ver[b]]
      /\ owner' = [b \in Buffer |-> IF Writes(acc[b]) THEN tgt ELSE owner[b]]
      /\ want' = [want EXCEPT ![t] = last]
      /\ last' = [b \in Buffer |-> IF Writes(acc[b]) THEN t ELSE last[b]]

(* handler::bind and handler::copy, between begin_params and end_params.   *)
Bind(t) ==
  /\ stage[t] = "open" /\ fill[t] = NoFill /\ MayBind
  /\ \E tgt \in Device, acc \in [Buffer -> Access] :
       /\ \E b \in Buffer : acc[b] # "unused"
       /\ \A b \in Buffer : acc[b] # "unused" => Free(b)
       /\ BindAll(t, tgt, acc)
  /\ UNCHANGED <<fill, mem, seen, live>>

(* do_writeback, for a host accessor or for the destructor of a buffer.    *)
BindHost(t) ==
  /\ stage[t] = "open" /\ fill[t] = NoFill /\ MayBind
  /\ \E b \in Buffer, a \in {"read_only", "read_write"} :
       /\ Free(b)
       /\ BindAll(t, HOST, [[c \in Buffer |-> "unused"] EXCEPT ![b] = a])
  /\ live' = live \union {t}
  /\ UNCHANGED <<fill, mem, seen>>

(* fill_zero computes the new version first ...                            *)
FillBegin(t) ==
  /\ stage[t] = "open" /\ fill[t] = NoFill /\ MayBind
  /\ \E b \in Buffer, tgt \in Device :
       /\ Free(b)
       /\ fill' = [fill EXCEPT ![t] =
            [buf |-> b, tgt |-> tgt, ver |-> NewVersion(b, "write_only", tgt)]]
  /\ UNCHANGED <<stage, before, ver, owner, state, group, mem, seen, last, want, live>>

(* ... and then updates the memory state and the buffer.                   *)
FillEnd(t) ==
  LET b == fill[t].buf
      tgt == fill[t].tgt
      v == fill[t].ver
  IN  /\ fill[t] # NoFill
      /\ graph!Seal(t, WaitsFor(state[b][tgt], TRUE))
      /\ state' = [state EXCEPT ![b][tgt] = PrepareWrite(@, t, v)]
      /\ ver' = [ver EXCEPT ![b] = v]
      /\ owner' = [owner EXCEPT ![b] = tgt]
      /\ group' = [group EXCEPT ![t] =
           [NoGroup EXCEPT !.tgt = tgt, !.acc[b] = "write_only"]]
      /\ want' = [want EXCEPT ![t] = last]
      /\ last' = [last EXCEPT ![b] = t]
      /\ fill' = [fill EXCEPT ![t] = NoFill]
      /\ UNCHANGED <<mem, seen, live>>
-----------------------------------------------------------------------------
bound_vars == <<ver, owner, state, group, fill, last, want>>

(* First the copies, then the function reads its buffers.                  *)
Fetches(t) ==
  LET g == group[t]
      data == [b \in Buffer |-> IF g.from[b] = NONE THEN mem[b][g.tgt] ELSE mem[b][g.from[b]]]
  IN  /\ mem' = [b \in Buffer |-> [mem[b] EXCEPT ![g.tgt] = data[b]]]
      /\ seen' = [seen EXCEPT ![t] = data]

(* The task of a host accessor with nothing to copy may be done at once.   *)
Submit(t) ==
  /\ stage[t] = "bound" /\ graph!SubmitTask(t)
  /\ \/ stage'[t] = "submitted" /\ UNCHANGED <<mem, seen>>
     \/ /\ stage'[t] = "done" /\ t \in live /\ \A b \in Buffer : group[t].from[b] = NONE
        /\ Fetches(t)
  /\ UNCHANGED <<live, bound_vars>>

(* The task runs.                                                          *)
Run(t) ==
  /\ graph!Start(t) /\ stage'[t] = "started"
  /\ Fetches(t)
  /\ UNCHANGED <<live, bound_vars>>

Written(t) ==
  mem' = [b \in Buffer |-> IF Writes(group[t].acc[b])
                             THEN [mem[b] EXCEPT ![group[t].tgt] = t] ELSE mem[b]]

(* The function has written its buffers.  (The task of a host accessor has *)
(* no function; the program writes through the pointer.)                   *)
Done(t) ==
  /\ graph!Finish(t)
  /\ IF t \in live THEN mem' = mem ELSE Written(t)
  /\ UNCHANGED <<seen, live, bound_vars>>

(* The program has finished with the accessor's pointer.                   *)
Release(t) ==
  /\ t \in live /\ stage[t] = "done"
  /\ Written(t)
  /\ live' = live \ {t}
  /\ UNCHANGED <<stage, before, seen, bound_vars>>

(* Every task has been used up.                                            *)
Finished ==
  /\ live = {} /\ \A t \in Task : stage[t] = "done"
  /\ UNCHANGED vars

TaskStep(t) == Submit(t) \/ Run(t) \/ Done(t) \/ Release(t)

Next ==
  \/ \E t \in Task : Bind(t) \/ BindHost(t) \/ FillBegin(t) \/ FillEnd(t) \/ TaskStep(t)
  \/ Finished

Fairness == \A t \in Task : WF_vars(TaskStep(t)) /\ WF_vars(FillEnd(t))

Spec == Init /\ [][Next]_vars
FairSpec == Spec /\ Fairness
-----------------------------------------------------------------------------
(* Who touches the memory of b in d.                                       *)
Stores(t, b, d) ==
  d = group[t].tgt /\ (Writes(group[t].acc[b]) \/ group[t].from[b] # NONE)
Loads(t, b, d) == d = group[t].tgt /\ Reads(group[t].acc[b])
Copies(t, b, d) == d = group[t].from[b]

Running(t) == stage[t] = "started" \/ (t \in live /\ stage[t] = "done")

(* A task reads what the command groups bound before it wrote, wherever    *)
(* and in whatever order they ran.                                         *)
ReadsLatest ==
  \A t \in Task, b \in Buffer :
    stage[t] \in {"started", "done"} /\ Reads(group[t].acc[b]) => seen[t][b] = want[t][b]

(* Tasks that run at the same time, and the program using an accessor's    *)
(* pointer meanwhile, do not conflict on any memory.  (When the accessor's *)
(* task is done it has made its copies.)                                   *)
NoConflict ==
  \A t, u \in Task, b \in Buffer, d \in Dom :
    t # u /\ Running(t) /\ Running(u) /\ Stores(t, b, d) =>
      /\ ~Stores(u, b, d) /\ ~Loads(u, b, d)
      /\ stage[u] = "started" => ~Copies(u, b, d)

(* The owner has the latest version, and no domain a later one.            *)
OwnerHasLatest ==
  \A b \in Buffer : HasLatest(b, owner[b]) /\ \A d \in Dom : state[b][d].ver <= ver[b]

(* Domains that agree on the latest version agree on the data, as soon as  *)
(* their writers are done.                                                 *)
Coherent ==
  \A b \in Buffer, d \in Dom :
    LET w == state[b][d].writer
    IN  HasLatest(b, d) /\ (w # NONE => stage[w] = "done" /\ w \notin live) =>
          mem[b][d] = last[b]

(* assert(ver_ < new_ver) in set_version, and what the numbering of        *)
(* dep::task says: the global lock is held while parameters are set.       *)
VersionIsNew ==
  \A t \in Filling : ver[fill[t].buf] < fill[t].ver

(* No command group waits for ever: there is no cycle of tasks.            *)
TasksComplete == \A t \in Task : (stage[t] = "bound") ~> (stage[t] = "done")
=============================================================================
