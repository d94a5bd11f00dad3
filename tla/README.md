# CHARM-SYCL: specifications

CHARM-SYCL is an implementation of SYCL: a chain of compiler tools
(`src/`, `internal/`) and a runtime library (`lib/sycl`, `include/charm/sycl`).
This directory holds TLA+ modules that model both, the configurations with which
TLC checks them, and proofs that TLAPS checks. Paths here are relative to the
repository's `src/`.

The difficulties of the program are of three kinds. The runtime's core is
concurrent: threads submit command groups while pool threads complete earlier
ones, over a graph of events with one mutex for each node and a coherence
protocol for buffers that live in several memories. Around it, smaller parts keep
state over long sequences of calls: fibers, reference counts, the choice of the
back end, streams, the loader of IRIS. And the same thing is often said twice, for
the host and for the device, by code that was written by hand or by a template:
index arithmetic, layouts of classes, operators of vectors, printed C.

## The system

    compile:  cscc --> kext (clang tree -> XcodeML) --> chsy-lower (passes for a target)
                   --> chsy-c-back (XcodeML -> C) --> a compiler of the target
                   --> the host's compiler, with the descriptions of the kernels
                   --> packed object, or link with the tables of kernels
    run:      queue.submit(cg) -> handler_impl            handler.cpp, handler.ipp
                bind accessors, under one global lock -> dependency_manager   dep.cpp
                  depends_on / set_buffer_param       -> rts::task   (a back end)
                finalize -> rts::task::submit -> event  -> queue_impl::add
              queue.wait / event.wait / host_accessor -> event_barrier::wait
              back end threads: run tasks when their predecessors are done, notify successors

| Component | State it keeps | Operations | What makes it correct |
|---|---|---|---|
| Event graph, `lib/sycl/dev_rts.hpp` (CPU, HIP) | per event: mutex, two `uint16_t` counters, `done_`, `run_`, successors, a function | `happens_before`, `finalize`, `notify`, `complete`; barrier `add`, `wait` | a task starts once, after all its predecessors; no notification is lost; no thread waits for ever |
| Dependency manager, `lib/sycl/dep.cpp` | per buffer: version, owner; per buffer and memory domain: version, last writer, readers since | `begin_params`, `set_buffer_param`, `copy_*`, `fill_zero`, `end_params` | a task reads the data the program order says; conflicting tasks are ordered; no cycle of waiting tasks |
| Handler, `lib/sycl/handler.cpp`, `handler.ipp` | accessors of one command group by buffer; local memory; arguments | `pre_bind`, `bind`, `copy`, `fill_zero`, `alloc_smem`, `finalize` | one sufficient access for each buffer; parts copied exactly; arguments apart |
| Buffers, host accessors, reference counts | reference count, write-back pointer | construct a host accessor, copy and destroy a buffer | the host sees the latest data; memory outlives its users |
| Queue, `queue.cpp` | the events of the queue | `add`, `wait` | `wait` waits for every event added |
| CPU back end, `dev_rts_cpu.cpp` | one pool thread, one memory | `depends_on`, `submit` | implements `rts::task` |
| HIP back end, `hip/dev_rts_hip.cpp` | four pool threads, a stream for each | the same | the same |
| Coarse tasks and CUDA, `dev_rts/*`, `cuda/*` | tasks with counters, a queue and a stream for each kind of operation | `runs_after`, `prepare`, `complete`, `submit`, shutdown | implements `rts::task`; data is there when an operation is issued |
| IRIS back end, `iris/*` | handles of an external scheduler | `depends_on`, `submit`, waits | implements `rts::task` |
| Fibers, `fiber.cpp` | a fiber for each work item of a group, a cached group | launch, `barrier`, resume | all items reach a barrier before one passes it |
| Back end choice, `rt.hpp`, `rts.cpp`, `*_interface.cpp` | a weak reference, driver handles, pool | `get_depmgr`, init, shutdown, close | a live manager's driver is open |
| Registry, OpenMP loader, `kreg.cpp`, `iris/openmp.cpp` | kernels by name; one command's arguments | look-up; the calls of an IRIS worker | workers do not mix their commands |
| Headers: ids, ranges, kernels over ranges, reductions, vectors | values | operators, loops, combination | host and device compute the same, each item once |
| BLAS wrappers, `blas/*` | libraries, descriptors | search, call | the library reported is the one called |
| Compiler: `kext`, `chsy-lower`, `chsy-c-back`, `cscc` | trees, a unit, files | visiting, passes, printing, packing, linking | the kernel that runs is the kernel that was written |
| Platforms, devices, contexts, logging, errors | constant tables | look-ups | - |

Components interact by calls, with shared state in few places: the event nodes (a
mutex each), the memory states of the buffers (the global lock `g_lock`, which is
not taken everywhere), the vector of events of a queue (no lock), the handles of
the drivers and the arguments of the IRIS loader (globals). The callbacks are the
functions of event nodes and the operations of fine tasks, run by pools. The hard
behaviours are listed, each at its line, under "hazards" in `PROJECT.json`.

## Modules

An operator whose name ends in `_fault` is a plausible mistake in the operator of
that name. No specification uses it; it documents what the properties notice.

### Back ends and dependencies

**TaskGraph** is the abstract promise of a back end (`rts::task` in `rts.hpp`):
a task goes from `open` to `bound` (known to the memory states), `submitted`,
`started` and `done`; `before[n]` is the set of tasks it waits for; it starts
after all of them are done. No threads, mutexes or counters.

**EventNode** models `event_node` and `event_barrier_impl` of `dev_rts.hpp` with
the threads that use them. One action is one critical section, or the part of it
between two acquisitions of a mutex.

| Code | EventNode |
|---|---|
| `mutex_`, `n_wake_`, `n_wait_`, `run_`, `done_`, `nexts_`, `fn_` | `mutex`, `n_wake`, `n_wait`, `run`, `done`, `nexts`, `fn` (only whether there is one) |
| `happens_before`: locks the predecessor, tests `done_`, locks the successor, counts | `HappensBefore`, then `Link` with the first mutex still held |
| binding (`dep.cpp`), `submit` of a back end | `Bind`, `Submit` |
| `notify` and `check_to_run` | `Notify`, part of the action of each caller |
| `complete_no_lock`, and the recursion through successors without a function | `CompleteNoLock` pushes the node on the thread's `stack`, `NotifyNext` is one turn of the loop, `Return` gives the mutex back |
| `event_barrier_impl::wait`, `finalize_and_wait`, its function | `WaitNothing`, `Wait`, `WakeUp`; `Signal` and `Complete` on a pool thread |
| the pool `q_task` (a library) | `TakeJob`, a FIFO; `Worker` is the set of its threads, one on the CPU, four on HIP |

`phase` is what the program has done with a node; `pos[n]` is the loop variable
of `complete_no_lock`. Variables of the code that only hold time stamps are left
out. A task's event that no longer exists (an expired `wk_`) is one that has
completed: `HappensBefore` is then not a step, as for a completed node.

**DepManager** models `dep.cpp` on top of TaskGraph: which tasks a task must wait
for, which domain it must copy from, and what version it leaves where. Data is
abstracted to the task that wrote it; `mem` is what each memory holds, `last` the
writer that a program executing its command groups one by one would see. A device's
memory holds nothing of a buffer until it is written (`Unset`). A command group is
bound to all its buffers in one step, because `begin_params`/`end_params` hold
`g_lock` meanwhile; a reduction's `fill_zero` takes no lock and has two steps.
Accesses to a part of a buffer are accesses to the buffer, as in the code.
`BindHost` is `do_writeback`, for host accessors and for the destructor of a
buffer; the program then uses the pointer until `Release`. `Free` is the
discipline the runtime expects of a program: nothing is bound to a buffer whose
host accessor is alive. `CopyFrom` decides as `set_buffer_param` of the back end
does: a task copies from the owner unless it only writes or has the latest data.

**CpuBackend** composes DepManager with `dev_rts_cpu.cpp`: one pool thread, a FIFO
`q_task`, tasks that need no thread completed inline, and one `memory`, since on the
CPU the device pointer of a buffer is the host pointer. `waiting` and `woken` are
the waits of the program. `HostModes`, a parameter of `CpuNext`, says which host accessors
the program uses. The tasks that a completion sets off go to the queue in the order in
which they were bound (`InOrder`).

**Iris** composes DepManager with `iris_rts.cpp`: a task is a list of commands; one
without commands (`Empty`) is never given to IRIS and counts as done; a wait is for
everything IRIS has (`WaitEnds`). `WaitsFirst` restricts the program to one that waits
for its groups before it makes a host accessor; it and `HostModes` are parameters of
`IrisNext`. That an empty task is done at once is a step of DepManager's `Submit` only
because its predecessors are done by then, which is proved.

**CoarseTask** models CUDA's task graph: `dev_rts/task.cpp`, `dev_rts/coarse_task.cpp`
and what `cuda/dev_rts_cuda.cpp` does with them. A command group is one coarse task,
made of fine tasks: a copy for each buffer to be brought in, and the kernel task that
comes after them. Waits pass a `std::barrier` with a fine task of their own.

| Code | CoarseTask |
|---|---|
| `n_wake_`, `n_wait_`, `done_`, `nexts_` of a fine task | `fine`, with `at` for where the task is: `new`, in `q_` (`queued`), with a stream (`running`), `done` |
| `runs_after`, `notify` with `prepare` and `run`, `complete` | the operators `RunsAfter`, `Notify`, `Complete`, on all fine tasks at once |
| `depends_on` followed by `set_buffer_param`, `commit()`, `commit(op)` | `SetBufferParam`, with `Commit` or `CommitCopy`; `CopyBuffer` when two buffers are named before either is set |
| `fill`, `end_params`, `submit` | `Fill`, `EndParams`, `Submit` |
| `kernel_`, `kernel_weak_` and `lock_kernel_task` | `kernel`, `Locked`; a kernel task that has completed may or may not still exist (`Leftover`) |
| `event_barrier::add`, `wait`; `sync_op` | `Wait`, `Return`; `RunOp` of a sync task |
| the thread of `task::q_`, the threads of the streams' queues | `RunOp`, `StreamDone` |

A call on a fine task is one step: `runs_after` holds both mutexes, and
`complete` holds the mutex of the task over its whole loop, so nobody sees a
task whose successors are notified in part, and a successor without an operation,
which would recurse, does not exist (the only such task is that of a host
accessor that waits for nothing). The queues are FIFOs in the code and unordered
sets here: more behaviours, so what holds here holds there. A predecessor named
twice is counted twice in the code and once here. `needs` and `waited` remember,
for the properties only, which groups a task or a wait was for.

**CudaQueues** takes up where CoarseTask leaves a fine task: the thread of `task::q_`,
the six queues by what an operation moves, each with a thread and a stream
(`Issue`, `DeviceRuns`, `JobEnds`), and the shutdown, which waits for the queues one after the
other and closes the driver.

### The runtime around them

| Module | Code | State and actions |
|---|---|---|
| **Queue** | `queue.cpp`, the barrier of `dev_rts.hpp` | `events` (each event twice, as the code adds it), the counters in `Width` bits; `Submit`, `WaitBegin`, `AddEvent`, `WaitFinal`, `WaitReturn`; `Complete` and `Notify` of the pool |
| **BufferLife** | `intrusive_ptr.hpp`, `buffer.ipp`, `buffer.cpp` | `ref`, who owns which `sycl::buffer`, pending groups; `CopyBuffer`, `GroupBegin`/`GroupEnd`, `Destroy`, `ReleaseObject`, `WriteBack`, `DeleteOwned`, `Complete` |
| **HandlerBind** | `handler.ipp` (`do_bind`, `__bind`), `handler.cpp`, argument storage | two passes over the arguments under the manager's lock, the merged modes, one dependency for each buffer, exceptions, places of local memory and values |
| **Fiber** | `fiber.cpp` | slots of `threads_` by allocation, `prev_` computed once; `Front` and `Back` are where a fiber is taken from and put |
| **Reduction** | `reduction.ipp`, the implementations in `chsy-lower` | threads, warps and blocks with their sums; shuffles, the shared variable, the leader's atomic add |
| **Subsystem** | `rt.hpp`, `rts.cpp`, `*_interface.cpp`, the subsystems' constructors and shutdown | the weak reference with its lock, each driver's handle, who uses the pool; a library is absent, partial, without device or usable |
| **OmpLoader** | `iris/openmp.cpp`, `kreg.cpp`, `task_parameter_storage` | the global mutex, kernel and arguments of one command; `FindKernel`, `SetArg`, `Launch` of each worker |
| **CopyRegion** | `handler.cpp` (`copy_dim`, `copy`), the copies of the back ends | a request for a part of a buffer becomes a command with counts and strides, a command a set of moved bytes; IRIS copies one block or ends the program |
| **ParallelFor** | `handler.ipp`, the loops of the targets, `launch` of the back ends | a range becomes launch parameters, these become work items, for a plain range, one with an offset, a reduction and an nd_range; IRIS has launch sizes of its own, and its loader an order of the dimensions |
| **IdRange** | `generated/include/charm/sycl/id_*.ipp`, `range_*.ipp` | two objects of `Dims` words of `WordBits` bits; one statement at a time of a compound assignment |
| **Vec** | `vec_fwd.py` and the other generators, `array_as_vec.cpp`, `math.cpp` | one program of operations runs on the host's vectors and on the device's functions, in memory of bytes |
| **Layout** | `kext/utils.cpp`, `struct_builder.cpp`, `transform_info.cpp`, `handler.ipp` | a family of classes; `flat` fields, struct, parameters, description, what the host binds and what the kernel finds |
| **Blas** | `lib/sycl/blas/*`, `runtime/blas_gen.py` | which libraries open and what they lack; the search in order, descriptors, a call from its arguments to the library |

### The compiler

**Extract** runs a kernel, a tree of clang, and then its extraction, from the same
memory (`RunSource`, `RunExtracted`). `Visit` is `expr_visitor.cpp`: every operator's
result goes to a new temporary; `VisitStmt` is `stmt_visitor.cpp`. `Val`, `Read` and
`As` say whether an operand that is an address is followed, which decides when a
variable is read. `Eval`, `Loc` and `Step` are C++ and the extracted language.

**CBack** is `chsy-c-back.cpp`, from a tree to a sequence of tokens; the C compiler
that reads them, a lexer and a parser by C's grammar, is external, and `Meaning` says
which construct a node stands for. Built-in types and strings are among the trees.

**Unit** follows a whole translation unit: `agenda` is the call stack of kext's
recursive visitor; then the passes of chsy-lower for the target, one a step; then
the declarations and definitions that are printed.

**Driver** is `cscc`: invocations with sources, objects and targets; files are
sequences of words that one invocation writes at the offsets the code computes
(`packed.cpp`, `marked.cpp`) and another reads. A command of the driver may fail
(`MayFail`), the driver may be killed between two steps (`MayStop`).

### Modules for TLC

**MCEventNode**, **MCCoarseTask** give symmetry sets. **MCBackEnds**, **MCRuntime**,
**MCLibrary** and **MCCompiler** each put several parts that share no state into one
instance: the variable `part`, chosen in the initial state, says which of them a
behaviour belongs to, the others' variables are 0 and never change, and a property
speaks of its own part. A behaviour of the union with the variables of its part is a
behaviour of that part, and all of them occur, so a property of the union is the
conjunction of the parts' properties. A part may be there twice with different constants
(`life` and `lives`, `for` and `calls`, `vecs`, `wide` and `floats`). Most constants of
MCRuntime's parts are its own, given in `Runtime.cfg` and restricted by assumptions with
names, so that its properties can be proved for all their values; the sizes of
reductions are fixed in it. Fairness is stated for each part over its own variables.
**MCVec**, **MCBlas**, **MCLayout**, **MCExtract**, **MCCBack**, **MCDriver** and
**MCUnit** hold the inputs: programs, classes, trees, invocations. The proofs are in
**EventNodeProofs** and **EventGraphProofs**, **DepManagerProofs**, **DepDataProofs**
and **BackEndProofs**, **CoarseTaskProofs**, **LaunchProofs** and **WaitProofs**.

## Runs

| Run | Bounds |
|---|---|
| `event_node` | 3 nodes, 2 user threads, 2 pool threads, at most 2 edges into a node |
| `event_node_live` | the same, 1 pool thread, no symmetry |
| `dep_manager` | 3 tasks, 2 buffers, host and 2 devices; the manager alone, on the CPU and on IRIS (there with one device in use) |
| `back_ends` | 3 tasks, 1 buffer, host and 1 device; the same machines under fairness |
| `dep_manager_race` | 3 tasks, 1 buffer, concurrent submitters; a violation is expected |
| `coarse_task` | 3 groups, kernels of at most 2 buffers, 2 copies, 1 thread, 1 wait |
| `coarse_task_live` | 2 groups of any kind, 2 copies, one thread submits and one waits |
| `coarse_task_copy` | 2 groups, copies between buffers; a violation is expected |
| `coarse_task_race` | 2 groups, two threads submit; a violation is expected |
| `runtime` | the parts of MCRuntime: groups of up to 4 work items with 2 barriers, launched 3 times; 3 command groups and counters of 3 bits; 3 buffer objects; 3 arguments; blocks of 2 warps; 2 threads or 3 managers one after the other; 3 CUDA tasks; 2 IRIS workers |
| `library` | the parts of MCLibrary, on all inputs: regions of up to 3 in each dimension, ranges up to 3, words of 2 bits, vectors of 1 to 16 elements, the classes of MCLayout, every machine's set of libraries |
| `compiler` | the parts of MCCompiler, on all inputs of MCExtract, MCCBack, MCDriver and MCUnit |

Why the bounds are enough. Three nodes contain every shape of a race of `happens_before`
with `complete_no_lock`: one node being completed, one being linked to it, and a third
that is a second predecessor, a second successor, or the next in a chain that completes
by recursion; two pool threads are enough for two jobs to complete at once. The theorems
hold without the bounds. Two buffers are needed for groups that meet in one buffer and
not the other; three tasks move the latest version to the device and back and leave
readers in both memories. In CoarseTask three groups give one a predecessor that
completes while it is bound and another that does not, with a copy in between; a second
copy finds the dependencies already handed out. Four fibers are two that are neither
first nor last, and three launches let a group shrink and grow within its capacity.
Counters of 3 bits overflow with the fourth group, so three groups reach their limit. A
range of 3 is not a multiple of a block of 2. Three tasks of CUDA let two streams run
while a third operation waits for both. The trees of MCCBack nest every operator in
every operand of every other, where mistakes of precedence are, but for a conditional in
the condition of a conditional, which is printed wrongly, and assignments in a
conditional, which kext never makes; the expressions of MCExtract put every operator
around every pair of operands that read and write one variable.

What the properties say:

- `StartAfterPreds`, `BarrierWaits` of EventNode: the order that `happens_before`
  promises. `NoLostWakeup`: a submitted node that has not started has an unsent
  notification, from a node that is yet to complete or in its notifying loop.
  This is what the mutex of the predecessor, held over both the test of `done_`
  and the whole loop, is for.
- `ImplementsGraph`, `ImplementsFairGraph`: EventNode, and CoarseTask, refine
  TaskGraph. The mapping reads a node's stage off its flags and its predecessors
  off the successor lists of all nodes.
- `NoConflict`, `OwnerHasLatest`, `Coherent` of DepManager: conflicting groups never
  run together; the owner, and whoever has the newest number, has the newest data.
- `KernelsReadLatest`, `HostReadsLatest`: whoever reads, a kernel or the program, sees
  what the groups bound before it wrote, on a back end with separate memories, on
  the CPU where they are one, and on IRIS where tasks without commands are done at
  once; the CPU's queue has a job once, and only when it is due.
- `AllComplete`: on each back end every bound task completes and every constructor of
  a host accessor returns.
- `RunsAfterPreds` of CoarseTask: `commit(op)` gives the dependencies to the copy and
  clears them, so the kernel waits for most of them only through its copies, and a
  copy only for those that were named since the last one. `BarrierReturnsInTime`: a
  `std::barrier` is passed only when the sync task has run, and no notification is lost.
  `GroupsComplete`, `WaitsReturn`: its liveness.
- `WorkItemsMeet`: no item passes a barrier early, no fiber is lost or in two slots.
- `WaitIsEnough`: a wait returns when all groups submitted before have run.
- `WrittenBack`: when a buffer is gone its data is where the program expects it and
  no group still uses its memory.
- `OneDependency`: whatever the accessors of a group, each buffer is bound once, with
  a mode that suffices; two groups bind the buffers they share in one order.
- `SumIsRight`: each contribution is in the sum once, in every interleaving of
  threads, warps and blocks, also when the shared variable is used again.
- `BackendStands`: a live manager's driver is open and no function is called that was
  not found, with any set of drivers on the machine.
- `DataIsReady`: an operation is issued when what it runs after has run on the device.
- `RunsOwn`: every IRIS worker runs its own kernel with its own arguments.
- `CallsReturn`: the liveness of all of these.
- `CopiesRight`: copies of whole rows and fills of any part move exactly the bytes
  asked for; the GPU's pitched copies move what the CPU's loops move, and so does IRIS
  where it takes the command.
- `EachItemOnce`: every id of a range is computed once, on each back end.
- `IdsAgree`: a compound assignment, one component after the other, does what the
  operator does as a whole, though its right side may be what it changes, and no
  statement of it divides by zero if the operator does not. `VecsAgree`: the device
  agrees with the host.
- `LayoutAgrees`: a class has the same bytes on both sides; every accessor gets its pointer.
- `BestIsCalled`: the first library that has all of a family is found, named and called.
- `SameEffects`, `KernelsEnd`: the extraction leaves in memory what the kernel leaves,
  and ends if it ends.
- `ReadsBack`: a C compiler reads what the tree says.
- `UnitStands`: what is used is declared before and defined, structs come in order,
  host functions stay out, kernels are registered.
- `AllLinked`: the executable has the objects of all its inputs and nothing foreign.

### Fairness

Threads of the pools keep running, and so does a thread inside a call of the library:
in EventNode `WorkerStep`, `CallStep`, `Link`, `Wait`, `WakeUp`; in the others the
operators named `GoesOn`, `Goes_on`, `Program`, `Pool`, `Call`, `QueueStep`,
`ShutdownStep`. A program that has opened a command group submits it (`queue::submit`
calls the handler's `finalize` itself). A device runs what has been issued
(`DeviceRuns`), IRIS what it has been given (`IrisStep`), a group that runs ends
(`Complete`, `Ends`). All of it is weak fairness: mutexes are held for finite times, and
an action that waits for a mutex is disabled only while other threads progress; the
pools are FIFOs and the scheduler of the operating system is preemptive. Work items
of a group are run by one thread, whose hand-over is its next instruction. No
fairness is assumed for what the program decides: to create, bind, launch, wait, or
destroy. A kernel that has been started goes on, in both languages.

## Proofs

Each theorem holds for every value of its constants that the named assumptions allow,
where TLC checks one small instance. The theorems worth knowing are listed in
`PROJECT.json`. All safety proofs have one form: an inductive invariant, a lemma for
what each action does to it, and one temporal step.

### The event graph

`EventNodeProofs`, for every set of nodes and threads and every bound on edges below the
width of the counters:

- `Invariance`: `Spec => []IInv`. IInv has six parts. `TypeOK`. `BuildInv`: a user
  thread builds a node of its own and, in `happens_before`, holds the mutex of a
  predecessor that is not done. `StackInv`: the nodes on a thread's stack are done and
  locked by that thread; a done node has notified all its successors or is on a stack.
  `CountInv`: `n_wait` is the number of edges into the node plus one, `n_wake` the
  number of notified edges plus one for `finalize`. `RunInv`: `run` holds exactly when
  the counters meet. `BarrierInv`: a barrier that does not sleep has no edges.
- `TypeCorrect`, `StartOrder`, `BarrierOrder`, `NoneLost`: the four invariants of the
  run `event_node`.

The counters make the strengthening necessary: `StartAfterPreds` follows from `n_wake =
n_wait` only if both count edges of the same set, and that set can change only while the
predecessor's mutex is held and the predecessor is not done. The effect of `Notify`,
which four actions share, is a lemma, and so is how many edges a new edge adds.

`EventGraphProofs.Implements`: `Spec => ImplementsGraph`. The nodes with their counters,
mutexes and recursive notifications implement TaskGraph, the promise the dependency
manager builds on. `StageIs` reads a node's stage off its flags; `PredsAre` and
`LinkPreds` relate the predecessors of TaskGraph to the successor lists; `NotifyGraph`
shows that one notification starts or completes at most one task of the abstract
machine. Each action is one of its steps or leaves it alone.

Assumptions: `DistinctAssumption` (threads and NONE are different things) and
`CounterAssumption`: `MaxPreds + 1 < CounterMod`, so the 16-bit counters do not wrap.
The code does not enforce it; Queue shows what happens when they do.

### The dependency manager

`DepManagerProofs`, for every set of tasks, buffers and devices:

- `TypeCorrect`: `Spec => []TypeOK`.
- `ConflictFree`: `Spec => []NoConflict`, also with concurrent submitters. So the
  missing lock of `fill_zero` spoils the version numbers, but not the ordering: its
  second half reads and writes the memory state in one step.

A version or an owner plays no part in the argument; it needs only that every access
goes to a memory state that the task was put into. `PlaceInv`: whoever touched the
memory of a buffer in a domain is one of the readers that `memory_state` has for it, or
its writer, or the writer waits for it, perhaps through others (`Behind`, the transitive
closure of `before`, stated over closed sets because that needs no recursion). Hence a
task that is bound finds itself behind all that it conflicts with (`EnterLast`), which
gives `OrderInv`: of two conflicting tasks one is behind the other. With `RanInv`, the
set of done tasks is closed, so both cannot be running. `LiveInv` treats host accessors,
whose pointer is used after their task is done. The three ways to be bound share one
lemma each about what they do to a memory state (`Enters`).

`DepDataProofs`, under the further hypothesis `Concurrent = FALSE` (the second half of a
`fill_zero` follows its first before another thread binds):

- `OwnerIsLatest`, `MemoriesAgree`: `OwnerHasLatest` and `Coherent`, what the manager's
  versions and owners promise.
- `VersionStaysNew`: the assertion of `buffer_impl::set_version`.
- `LatestIsRead`: `ReadsLatest`; every kernel finds in its memory what was written
  before it in the order of binding.

The hypothesis cannot be dropped: `dep_manager_race` violates `VersionIsNew` without it.
`FillInv` says what it gives: one fill is under way, with the version after the
buffer's. The main invariant is `SourceInv`: for a task that has not started and the
memory it will read from, there is a last task to store there (or none) that it waits
for, which will leave, or has left, exactly the data the task wants; all others that
store there come before that one or wait for the reader (`Serves`). It is carried
through the steps by `ValueInv` (a memory whose version is the buffer's has the latest
data once its writer is through), `WriterInv` and `HolderInv` (the writer of a memory
state does store there, and nobody does after a live host accessor), and `LoadedInv`
(what a running task reads is in its memory and is not overwritten). The order of
conflicting tasks comes from `DepManagerProofs`.

The assumption of both modules, and of the next, is `DepAssumption`: the host's domain
is not a device's, and NONE is neither a task nor a domain.

### The back ends

`BackEndProofs` composes the manager with what runs its tasks. With `Concurrent =
FALSE`, for every set of tasks, buffers and devices:

- `BackEndsRefine`: `MCSpec => Spec`. The CPU back end and IRIS run, complete and skip
  tasks as the dependency manager relies on, so all that is proved of DepManager holds
  under them.
- `KernelsRight`, `HostRight`: `KernelsReadLatest` and `HostReadsLatest`.

On the CPU one memory stands for two, and the manager does not make a writer of one wait
for the readers of the other. `ChainInv` says that the writers of a buffer follow each
other in one chain (`want` of each names the one before), and `PredInv` that a task is
behind the writer whose data it wants. Hence writers get through in the order of the
chain (`CpuEnds`), and `MemoryInv`: the memory holds the data of the last of them
(`Tip`). A host accessor that lives is the end of the chain of its buffer (`HeldInv`),
so the program sees what it wants until it lets go. A kernel needs more, that the next
writer does not overtake it: `NextInv`, which is an invariant only if the program's host
accessors read (`ModesInv`), for one that writes waits for no reader on the device. The
run's part `cpu` has writing accessors and claims nothing of kernels. For the queue,
`DueInv` says that its jobs are distinct and due, and `BoundInv` that `order` is the
tasks in the order of binding.

On IRIS a task without commands is done when it is submitted, and its successors do not
wait for it. `EmptyInv`: then all that it was bound behind is done. This holds since an
accessor that reads data at the host waits only for host accessors, which are done
(`HostsDone`), and one that writes comes after a wait for everything. It makes IRIS
refine the manager; `AccessorsReadLatest` then follows from `LoadedInv` when a wait
ends, and `HostMemoryIsQuiet` from `OrderInv`: of two tasks that conflict there one
waits for the other, and nothing waits for a task of the host that is not done.

### Coarse tasks

`CoarseTaskProofs`, for any finite sets of groups, waits and threads:

- `BarriersReturn`: `BarrierReturnsInTime` with any number of submitting threads: a wait
  returns only after what it was for, and no notification is lost.
- `KernelsInOrder`, `TasksInOrder`: kernel tasks, and with `BufferCopies = FALSE` the
  copies made for them, come after all that the group depends on (`RunsAfterPreds`).
- `Implements`: CoarseTask refines TaskGraph.

The last two have the hypothesis that one thread submits (`OneBuilder`). Both hypotheses
are needed: the runs `coarse_task_race` and `coarse_task_copy` are what happens without
them.

`Ok(f, F)` describes a record of fine tasks of which those in F are finalized: counters
count edges and a task is `new` until it is finalized and all before it are done.
`RunsAfter`, `Notify`, `Finalize`, `Complete` and `CommitCopy` each keep it, in lemmas
of their own, because every handler is a composition of them. IInv is `TypeOK`,
`FineInv` (`Ok` of the state), `PcInv` (each group under construction has one thread),
`GroupInv`, `Unused` (a kernel task that is not there has no edges), `CopyInv` (a copy
that has been made comes before its kernel) and `SyncInv`. `Makes(N, T, D)` says what
any handler does to the graph: it finalizes N, and adds edges from the kernels of D and
from N, into T and N; one lemma for each handler, and then each part of the invariant is
proved from `Makes`. `KernelInv` says where a dependency of a kernel is: an edge, an
edge to one of its copies, or still in `depends_`. That a thread finds the kernel tasks
of all groups it can name (`AllLocked`) is where one submitter is needed.

### Launching kernels

`LaunchProofs` is about four parts of MCRuntime.

- `ItemsMeet` (`WorkItemsMeet`, fibers), for any number of items, barriers and launches.
  `FiberInv`: every fiber is in its own slot but the active one, `prev_` is as it was
  computed, and the items before the active one are one round ahead. From this, control
  finds a fiber in every slot it looks at. FirstItems = MaxItems, since growth of a
  cached group is a disagreement listed below.
- `WorkersRunOwn` (`RunsOwn`, the OpenMP loader), for any workers and jobs. `OmpInv`:
  who is between its first call and its launch holds `g_mutex`, and then kernel and
  arguments are the worker's own, as many as it has given; what is built stays inside
  the storage. `JobsFit` assumes that every job fits, for the code only asserts
  something weaker (below).
- `DriversStand` (`BackendStands`, the choice of the back end), for any threads and
  libraries with one manager, and for one thread with any number of managers.
  `MakesInv`: drivers the thread in `get_depmgr` has still to try are closed, under the
  lock, and once there is a manager nobody gets there. `RemakesInv`: the driver and the
  pool of a manager stand while it is held, while it closes, and for the tasks that
  still run. A library without a device and several threads that make several managers
  are excluded: they are disagreements listed below.

- `BindsAreRight` (`OneDependency`, the binding of a kernel's arguments), for any
  arguments and any number of them. `BindInv`: the sorted list has the pair of every
  argument (`InOrderOf`), from which the head that `lower_bound` finds is the first of
  its buffer exactly at the buffer's first accessor (`MergedFirst`, `MergedNext`); then
  each buffer used so far has one dependency, with the modes of all its accessors,
  before any other (`DepsGood`). Places of values and of local memory rest on `AlignIs`,
  for alignments up to 16. `SharesInv`: dependencies of one group are next to each
  other, for a group that binds has the lock; hence one order for the buffers that
  groups share.

### Waiting, reference counts and streams

`WaitProofs` is about three more.

- `WaitsAreEnough` (`WaitIsEnough`, `queue::wait`), for any number of groups.
  `QueueInv`: a group is in the lists at most twice, and is owed a notification less
  each time it is taken out (`Lists`); `n_wait` and `n_wake` differ by what is owed, so
  they meet when nothing is (`Counters`); what a wait is for is in a list, owed, or done
  (`Waiting`). `CountersFit` assumes room for two events of each group.
- `DataWrittenBack` (`WrittenBack`). With any threads, objects and groups, the count of
  a buffer is the number of its owners and of the groups and copies that hold it:
  `Holders(T)`, kept by every step of the form `Counts(T)`. With one thread and groups
  that write, `LifeInv` adds that groups are in one order (`InOrder`: each waits for the
  one bound before it), so a destructor that waits for the last writer waits for all.
  Other programs are the disagreements about `buffer.ipp:80` and `buffer.cpp:52`.
- `OperationsAreInOrder` (`DataIsReady`, CUDA's streams), for any tasks, kinds of
  operations and order between them. `CudaInv`: what has left the program's hands has
  all it runs after complete, a complete operation has run on the device, a task is in
  `task::q_` once, one that a queue has is among the queue's jobs, and of those that a
  queue had when shutdown began none is left once it has been waited for.
- `TypeCorrect` (`TypeOK`), for every part of MCRuntime but the reductions, whose sums
  have no type invariant. Fibers, back ends and streams have their types in the
  invariants above; for the others it follows from them. A barrier's counters are below
  2^Width (`WakesFit`, with the bound of `Lists`), a buffer's count is at most its
  objects and threads (`CountFits`, from `Holders`), and a thread in a command group
  function has a group (`UsesTyped`, with any readers and any threads). `LaunchTypes`,
  in LaunchProofs, has the parts that launch: what the IRIS loader builds stays inside
  its words (by `OmpInv`), sorting keeps pairs pairs, and who binds holds the lock of
  the manager, and nobody else does, also when a bind throws. So WaitProofs extends
  LaunchProofs.

### What is model-checked only

- Liveness under fairness, and `ImplementsFairGraph`, which contains it, for the prover
  has no ENABLED: `AllComplete`, `GroupsComplete`, `WaitsReturn`, `CallsReturn`,
  `KernelsEnd`.
- Whatever a recursive definition computes, for it takes induction over data: Extract,
  CBack, Layout, Unit and Driver recurse over trees, types and files; the runs `library`
  and `compiler` enumerate them instead.
- `SumIsRight`: a butterfly of shuffles over a warp of any width is an induction on the
  width, and MCRuntime's instances have blocks of fixed sizes, which TLC covers.

## Disagreements

Where a doc, a comment, an assertion or a test of the repository says one thing and
the code does another, TLC finds a counterexample of the property named. Three are
runs of their own, with their traces:

- `dep_manager_race`, `VersionIsNew`. A thread is in `fill_zero`, has computed the new
  version and has not yet stored it, when another thread binds a writer to the buffer. The
  assertion `assert(ver_ < new_ver);` of `buffer_impl::set_version` then fails, and
  in a build without assertions two different contents have one version number.
  `dep.hpp` numbers the steps of a task with "3. Acquire the global lock" before
  the parameters; `handler_impl::copy` does so, `handler_impl::fill_zero` does not.
- `coarse_task_copy`, `CopyAfterPreds`. `copy_1d` of the dependency manager (and `copy_2d`,
  `copy_3d`) calls `depends` for the destination and the source, then `set_buffer_param`
  for both. The first of these takes the dependencies of both (CUDA: `commit` clears
  `depends_`), so when the source has to be brought to the device, that copy waits for
  nothing. The kernel task, here the copy between the buffers, still waits for all. The
  HIP back end copies within the task itself and is not concerned.
- `coarse_task_race`, `KernelAfterPreds`. A group without dependencies or copies has no
  kernel task between `end_params` and `submit`; a group that another thread binds then
  finds nothing to wait for. With one submitting thread this cannot happen, which is
  what `coarse_task` checks.

The others show with the property and the change of an instance that is given, and the
runs leave the case out. Constants are those of the module's instance in MCRuntime,
MCBackEnds, MCLibrary or MCCompiler; programs replace the module's input set.

The runtime:

| Where | What the code does | Property, instance |
|---|---|---|
| `lib/sycl/fiber.cpp:211` | `prev_` is computed once; a later group larger than the cached one moves `threads_`, and the fibers that ran before store into freed memory: an empty fiber is resumed. `test/sycl/nd_item.cpp:23` expects every item to run | `Fiber!NextIsThere`, FirstItems = 2 |
| `lib/sycl/dev_rts.hpp:149` | `n_wait_` is `uint16_t` and each event is added twice: with 32768 groups pending the barrier's count wraps to 1 and `wait` returns at once. `bench/vecadd/sycl-multi.cpp:37` relies on `q.wait()` | `Queue!WaitIsEnough`, 4 commands with Width = 3 |
| `include/charm/sycl/buffer.ipp:80` | two threads that destroy the last two copies of a buffer both find the count at two: nobody writes back. `test/sycl/capture.cpp:21` reads the data after the block | `BufferLife!WrittenBack`, two threads |
| `lib/sycl/buffer.cpp:52` | the destructor's host access does not wait for readers on the device, whose memory is then freed. `test/sycl/cholesky.cpp:97` destroys buffers right after submitting readers | `BufferLife!MemoryHeld`, ReadOnly not empty |
| `lib/sycl/iris/iris_rts.cpp:451` | a host accessor whose data is on the host makes an empty task, which is done at once: `barrier->wait();` (`buffer.cpp:62`) does not wait for readers whose copy has not run | `Iris!IrisReadsLatest`, HostModes with `read_write`, WaitsFirst = FALSE |
| `lib/sycl/handler.cpp:46` | `copy_dim` looks at the first dimensions where the last ones count: a part of the columns is copied as one block. `test/sycl/copy.cpp:49` expects the box | `CopyRegion!CopiesRegion` |
| `include/charm/sycl/handler.ipp:328` | the third loop of a reduction over three dimensions runs to `range1` in place of `range2`. `test/sycl/reduction.cpp:22` expects every id | `ParallelFor!ReducesAll` |
| `src/kext/stmt_visitor.cpp:174` | the loop of a kernel with a reduction becomes `omp parallel for` over one shared sum without a reduction clause | `Reduction!SumIsRight`, OpenMP = TRUE |
| `lib/sycl/iris/openmp.cpp:97` | the loader gives the fibers IRIS's dimensions innermost first; they count from the outermost, so work items of an nd_range of one or two dimensions share ids. `test/sycl/nd_item.cpp:20` expects each its own | `ParallelFor!LinearIdsCount`, Backends = {"openmp"}, Kinds = {"nd"} |
| `src/chsy-lower/nvidia-cuda.cpp:27` | shuffles with the mask of all lanes in blocks that are no multiple of the warp | `Reduction!SumIsRight`, Threads = 3, WarpSize = 2 |
| `generated/include/charm/sycl/range_3.ipp:25` | `!=` is written with `&&`. `nd_range.hpp:29` has `!(lhs == rhs)` | `IdRange!NotEqualIsNot` |
| `lib/sycl/cuda/cuda_interface.cpp:40` | a failed `init` leaves an object that a second call takes for success: null pointers are called. `test/sycl/platform.cpp:5` makes a manager twice | `Subsystem!NoNullCall`, two managers, library absent |
| `lib/sycl/dep.cpp:128` | a manager shuts down outside of the lock (`rt.hpp:275`) under which the next is made, and closes its driver | `Subsystem!BackendStands`, two threads, two managers |
| `lib/sycl/rts.cpp:62` | "If no RTS is given" the fall-back looks at the library only; a driver without a device throws through it | `Subsystem!AlwaysSome`, library `nodevice` |
| `lib/sycl/dev_rts.hpp:417` | the assertion in `next_param_ptr` is about where an argument starts, not where it ends | `OmpLoader!ArgsFit`, a job larger than ARG_BUF_SIZE |

Vectors and libraries:

| Where | What the code does | Property, instance |
|---|---|---|
| `include/charm/sycl/vec_fwd.py:228` | the device's `--` adds one; the host's body is `x ${op0}= 1` | `Vec!Agree`, Unaries = {"--"} |
| `include/charm/sycl/vec_fwd.py:378` | the device's `!` is true where the element is true | `Vec!Agree`, Unaries = {"!"} |
| `include/charm/sycl/vec_fwd.py:167` | `<<=` and `>>=` become `<` and `>` on the device | `Vec!Agree`, Compounds with "<<" |
| `src/chsy-lower/array_as_vec.cpp:427` | what stores an element of 16 takes a vector of `unsigned short` whatever the type. `test/sycl/vec.cpp:58` has others | `Vec!Agree`, int of width 16 |
| `src/chsy-lower/array_as_vec.cpp:37` | looks for `longlong`; the extraction says `long_long` (`transform_info.cpp:157`), and the compiler aborts. `test/sycl/vec.cpp:67` | `Vec!Builds`, type `long_long` |
| `src/chsy-lower/math.cpp:31` | `powr` is lowered to a function that no C library has | `Vec!Builds`, Funcs with "powr" |
| `lib/sycl/blas/mkl.cpp:16` | MKL that lacks functions stays open: the next search says it is found (`blas.cpp:16`) | `Blas!SaidIsSet`, Lacks with MKL and MaxLoads = 2 |
| `lib/sycl/blas/refblas.cpp:41` | the reference LAPACKE is opened into one variable and looked for in another; the log line of `blas.cpp:75` is never written | `Blas!LapackIsFound`, only the reference libraries |
| `lib/sycl/cuda/dev_rts_cuda.cpp:404` | a BLAS command is looked up as a kernel by name; `blas.cpp:89` says it goes to cuBLAS | `Blas!FoundIsCalled`, Backends with CUDA |
| `include/charm/sycl/runtime/blas_gen.py:35` | an array is bound as one argument and taken as two; `test/sycl/blas_dgemm.cpp:76` is commented out | `Blas!OwnArguments`, Names with functions of arrays |

The compiler (kernels are C++20, `src/cscc/tools.cpp:97`):

| Where | What the code does | Property, instance |
|---|---|---|
| `src/kext/expr_visitor.cpp:101` | the right operand of `&&`, `\|\|` and the branches of `?:` are computed always | `Extract!Same`, programs with an effect or a guarded access there |
| `src/kext/stmt_visitor.cpp:225` | a `continue` in a `while` goes round on the condition of the round before | `Extract!Same`, such programs |
| `src/chsy-c-back/chsy-c-back.cpp:459` | `-(E)` with E = -1 is printed `--1`; `test/c-back/cback_02.cpp:38` has `--` for a decrement | `CBack!ReadsBack`, negative constants |
| `src/chsy-c-back/chsy-c-back.cpp:655` | a condition is put in parentheses above 16, the precedence of a conditional itself; `expr_visitor.cpp:454` makes no temporary of one: `(p ? q : r) ? x : y` is printed `p ? q : r ? x : y`, which is `p ? q : (r ? x : y)` | `CBack!ReadsBack`, the trees `MCCBack!Misread` |
| `src/cscc/cscc_main.cpp:201` | IRIS's symbol table has the kernels of this invocation only, not of packed objects | `Driver!TableComplete`, builds in two invocations |
| `src/cscc/cscc_main.cpp:56` | every object is taken for a packed one; `cscc_main.cpp:66` means to pass others on | `Driver!Accepts`, Plain among the inputs |
| `internal/utils/target/target.cpp:35` | a list of targets (`target.cpp:69`) is refused unless it has one | `Driver!Accepts`, lists of two targets |
| `src/cscc/packed.cpp:33` | the header is written last; a killed driver leaves a file that is read as packed with nothing in it (`packed.cpp:44`) | `Driver!AllLinked`, MayStop = TRUE |
| `src/kext/transform_info.cpp:246` | a record with a pointer to itself is defined for ever | `Unit!DefinedOnce`, such a record |
| `src/kext/decl_visitor.cpp:214` | a function with an empty body is declared and never defined | `Unit!Linked`, such a function |
| `src/chsy-lower/builtin.cpp:54` | runtime functions are defined with external linkage in every unit; `fwd.hpp:223` means them inline | `Unit!OneDefinition`, two sources |
| `src/kext/decl_visitor.cpp:165` | a functor visited as a function before it is a kernel keeps the version that sets no local memory (`test/sycl/local_accessor.cpp:20`) | `Unit!LocalMemorySet`, a kernel that calls another |
| `src/kext/utils.cpp:219` | fields of the second base are entered at their offset in the base (`test/sycl/inherit.cpp:38`) | `Layout!SameBytes`, two bases with fields |
| `src/kext/transform_info.cpp:265` | the struct lacks the padding at the end of a plain base (`test/sycl/inherit.cpp:39`) | `Layout!SameBytes`, a padded plain base |
| `src/kext/utils.cpp:257` | accessors in the base of a member are not found (`test/sycl/functor.cpp:32`) | `Layout!AccessorsFound`, such a member |

## Hazards without a property

- A copy between two accessors of one buffer makes a task its own predecessor and
  locks one `std::mutex` twice, which is undefined (`lib/sycl/dep.cpp:446`).
- An exception in the middle of binding leaves a task in the memory states that is
  never submitted; what should happen then is written nowhere (`handler.ipp:509`).
- Two threads that submit to one queue race on `events_`; a program may not do that here.

## Plan

Done: TaskGraph, EventNode, DepManager and CoarseTask with proofs of their safety and of
both refinements; CpuBackend, Iris and CudaQueues, so that each back end is composed
with what it relies on, and proofs that the first two do what the manager asks and that
kernels and program read the latest data; the runtime around them, with proofs for
fibers, waits, reference counts, the loader and the choice of the back end; the headers'
algorithms; the compiler from tree to linked executable.

Left, most useful first:

1. DMEM of the IRIS back end (`iris_data_mem_*`), where IRIS itself keeps the memories
   coherent.
2. Member access, construction and casts in Extract, the annotated loops of the
   runtime's headers, and vectors in CBack.
3. CoarseTask over CudaQueues in one instance, in place of two that meet at `q_`.

## Not modelled

Profiling time stamps, logging and error texts; device and platform information;
external libraries (CUDA, HIP, IRIS, BS::thread_pool beyond a FIFO, Boost.Context, BLAS)
except for what the library relies on; reading and printing of XML; the code generators
themselves, of which the generated text is modelled; the inliner of chsy-lower, whose
two functions only return their argument (`inline.cpp:396`); swizzles of several
elements, conversions and geometric functions of vectors; bit-fields, alignas and unions
in kernel arguments; examples, benchmarks and containers. `PROJECT.json` lists every
component with its status and what of it is left out.
