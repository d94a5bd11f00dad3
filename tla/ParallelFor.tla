----------------------------- MODULE ParallelFor -----------------------------
(***************************************************************************)
(* From the range of a kernel to its work items.  A kernel function is a   *)
(* nest of loops (include/charm/sycl/handler.ipp) whose bounds the lower   *)
(* compiler fills in for each target (src/chsy-lower): on a CPU one call   *)
(* runs all of them, on a GPU every thread starts at its own place and     *)
(* steps by the number of threads.  How many threads there are the back    *)
(* ends decide (heuristic) or, for an nd_range, the program.  IRIS is      *)
(* given the number of threads and launches blocks of the size asked for   *)
(* on a GPU ("iris"), or calls the loader's launch on a CPU ("openmp").    *)
(*                                                                         *)
(* A place has three coordinates <<z, y, x>>, of which a range of fewer    *)
(* dimensions uses the last.  Threads are numbered by block and within it. *)
(***************************************************************************)
EXTENDS Integers, Sequences, SequencesExt, FiniteSetsExt

CONSTANTS
  MaxRange,    \* bound of the range of a kernel in one dimension
  MaxLocal,    \* and of a work group
  Kinds,       \* the kinds of kernels asked for
  Backends,    \* where they run
  MaxBlock,    \* threads in a block of the heuristics, 512 in the code
  IrisBlock,   \* threads in a block of IRIS, 256 in the code
  Processors   \* blocks that the heuristics ask for at most in one dimension

ForAssumption ==
  /\ {MaxRange, MaxLocal, MaxBlock, IrisBlock, Processors} \subseteq Nat \ {0}
  /\ Kinds \subseteq {"single", "range", "offset", "reduce", "nd"}
  /\ Backends \subseteq {"cpu", "cuda", "hip", "iris", "openmp"}

VARIABLES
  pc,       \* how far it is
  req,      \* the kernel asked for
  par,      \* blocks and threads of a block: what the task was given
  launch,   \* blocks and threads of a block that run
  items     \* what each thread's function is called with

vars == <<pc, req, par, launch, items>>

NONE == [kind |-> "none"]
One == <<1, 1, 1>>

extend(r) ==
  CASE Len(r) = 1 -> <<1, 1, r[1]>>
    [] Len(r) = 2 -> <<1, r[1], r[2]>>
    [] OTHER      -> r

linear_id(range, id) ==
  CASE Len(id) = 1 -> id[1]
    [] Len(id) = 2 -> id[2] + id[1] * range[2]
    [] OTHER       -> id[3] + id[2] * range[3] + id[1] * range[2] * range[3]

Size(r) == FoldFunctionOnSet(LAMBDA a, b : a * b, 1, r, DOMAIN r)

Box(r) == {f \in [DOMAIN r -> 0 .. Max({r[d] : d \in DOMAIN r}) - 1] : \A d \in DOMAIN r : f[d] < r[d]}

Ranges(n) == UNION {[1 .. d -> 1 .. n] : d \in 1 .. 3}

Init ==
  /\ pc = "ask"
  /\ req = NONE
  /\ par = [groups |-> One, threads |-> One]
  /\ launch = par
  /\ items = << >>
-----------------------------------------------------------------------------
Min2(a, b) == IF a <= b THEN a ELSE b
Blocks(n, b) == (n + b - 1) \div b

(* IRIS's set_single, set_range and set_nd_range: the blocks of a range    *)
(* are lines, and the last of a line may have threads to spare.            *)
IrisBlocks(kind, range, local) ==
  CASE kind = "single" -> [groups |-> One, threads |-> One]
    [] kind = "nd"     -> [groups |-> range, threads |-> local]
    [] OTHER           -> [groups |-> [range EXCEPT ![3] = Blocks(@, IrisBlock)],
                           threads |-> [One EXCEPT ![3] = IrisBlock]]

(* The program asks for a kernel; the size of an nd_range is a number of   *)
(* work groups of the given size.                                          *)
Ask ==
  /\ pc = "ask" /\ pc' = "launch"
  /\ \E k \in Kinds, b \in Backends, r \in Ranges(MaxRange) :
       \E l \in IF k = "nd" THEN [DOMAIN r -> 1 .. MaxLocal] ELSE {r},
          o \in IF k = "offset" THEN [DOMAIN r -> 0 .. 1] ELSE {[d \in DOMAIN r |-> 0]} :
         /\ k = "single" => r = <<1>>
         /\ req' = [kind |-> k, backend |-> b, range |-> r, local |-> l, offset |-> o]
         /\ par' = CASE b \in {"iris", "openmp"} -> IrisBlocks(k, extend(r), extend(l))
                     [] k = "single" -> [groups |-> One, threads |-> One]
                     [] k = "nd"     -> [groups |-> extend(r), threads |-> extend(l)]
                     [] OTHER        -> [groups |-> extend(r), threads |-> One]
  /\ UNCHANGED <<launch, items>>

(* The launch heuristics of the GPUs: only the last dimension has blocks,  *)
(* and a range of one dimension has a limited number of them.  The one of  *)
(* HIP does not know which kernels are single tasks.                       *)
heuristic(p, single) ==
  LET n == p[3]
      b == IF p[1] = 1 /\ p[2] = 1 THEN MaxBlock ELSE Min2(n, MaxBlock)
      g == IF p[1] = 1 /\ p[2] = 1 THEN Min2(Processors, Blocks(n, b)) ELSE Blocks(n, b)
  IN  IF single THEN [groups |-> <<p[1], p[2], 1>>, threads |-> One]
      ELSE [groups |-> <<p[1], p[2], g>>, threads |-> <<1, 1, b>>]

(* IRIS counts dimensions from the innermost one, and its loader hands     *)
(* them in this order to the fibers, which count from the outermost.       *)
FiberOrder(f) == [groups |-> Reverse(f.groups), threads |-> Reverse(f.threads)]

(* prep_device and kernel_op: an nd_range runs as it is, another range is  *)
(* one call on the CPU and goes through the heuristics on a GPU.           *)
Launch ==
  /\ pc = "launch" /\ pc' = "run"
  /\ launch' = CASE req.kind = "nd"     -> IF req.backend = "openmp" THEN FiberOrder(par) ELSE par
                 [] req.backend = "iris" -> par
                 [] req.backend \in {"cpu", "openmp"} -> [groups |-> One, threads |-> One]
                 [] OTHER -> heuristic(par.groups, req.kind = "single" /\ req.backend = "cuda")
  /\ UNCHANGED <<req, par, items>>

(* A thread is its block and its place within it.                          *)
Threads == {[group |-> g, local |-> t] : g \in Box(launch.groups), t \in Box(launch.threads)}
-----------------------------------------------------------------------------
iter_begin(t, n) == t.group[n] * launch.threads[n] + t.local[n]

iter_step_fault(n) == launch.threads[n]

iter_step(n) == launch.groups[n] * launch.threads[n]

(* Where a loop over dimension n with this bound takes a thread.           *)
Iterations(t, n, bound) ==
  {i \in 0 .. bound - 1 : i >= iter_begin(t, n) /\ (i - iter_begin(t, n)) % iter_step(n) = 0}

(* The loop for the d-th index runs over the coordinate 4 - d.  The third  *)
(* loop of a reduction is bounded by the second size.                      *)
LoopBound(d) == IF req.kind = "reduce" /\ d = 3 THEN req.range[2] ELSE req.range[d]

Loops(t) ==
  {id \in [DOMAIN req.range -> 0 .. MaxRange - 1] :
     \A d \in DOMAIN id : id[d] \in Iterations(t, 4 - d, LoopBound(d))}

Shift(id, offset) == [d \in DOMAIN id |-> offset[d] + id[d]]

(* What the kernel is called with: an id, or the group and the local id    *)
(* and their ranges.                                                       *)
Reversed(place) == [d \in DOMAIN req.range |-> place[4 - d]]

NdItem(t) ==
  [group_range |-> Reversed(launch.groups), local_range |-> Reversed(launch.threads),
   group_id |-> Reversed(t.group), local_id |-> Reversed(t.local)]

ItemsOf(t) ==
  CASE req.kind = "single" -> {<<0>>}
    [] req.kind = "nd"     -> {NdItem(t)}
    [] OTHER               -> {Shift(id, req.offset) : id \in Loops(t)}

Run ==
  /\ pc = "run" /\ pc' = "ran"
  /\ items' = [t \in Threads |-> ItemsOf(t)]
  /\ UNCHANGED <<req, par, launch>>

Next == Ask \/ Launch \/ Run

Spec == Init /\ [][Next]_vars
-----------------------------------------------------------------------------
GlobalRange(i) == [d \in DOMAIN i.group_id |-> i.group_range[d] * i.local_range[d]]

GlobalId(i) == [d \in DOMAIN i.group_id |-> i.group_id[d] * i.local_range[d] + i.local_id[d]]

GlobalLinearId(i) == linear_id(GlobalRange(i), GlobalId(i))

Ran == pc = "ran"
All == UNION {items[t] : t \in DOMAIN items}
Calls == MapThenSumSet(LAMBDA t : Cardinality(items[t]), DOMAIN items)

TypeOK ==
  /\ \A f \in {par, launch} : f.groups \in [1 .. 3 -> Nat \ {0}] /\ f.threads \in [1 .. 3 -> Nat \ {0}]
  /\ req # NONE => req.kind \in Kinds /\ req.backend \in Backends

(* The kernel of a range is called exactly once for every id of it, from   *)
(* the offset on, however many threads there are: fewer than ids, more, or *)
(* a number that does not divide them.                                     *)
EachItemOnce ==
  (Ran /\ (req.kind \in {"range", "offset"} \/ (req.kind = "reduce" /\ Len(req.range) < 3)))
  => /\ All = {Shift(id, req.offset) : id \in Box(req.range)}
     /\ Calls = Size(req.range)

(* The same for every reduction: the test "reduction single" expects a sum *)
(* of ones to be the number of the ids.                                    *)
(* (The code does not satisfy this; README.md, "Disagreements".)           *)
ReducesAll ==
  (Ran /\ req.kind = "reduce") => All = Box(req.range) /\ Calls = Size(req.range)

(* A single task runs once, but with HIP.                                  *)
SingleOnce == (Ran /\ req.kind = "single" /\ req.backend # "hip") => Calls = 1

(* The global linear ids of an nd_range number its work items without a    *)
(* gap, as the test "nd_item" relies on, and so does the linear id of an   *)
(* item of a range.                                                        *)
LinearIdsCount ==
  /\ (Ran /\ req.kind = "nd") =>
       /\ {GlobalLinearId(i) : i \in All} = 0 .. Size(req.range) * Size(req.local) - 1
       /\ Calls = Size(req.range) * Size(req.local)
  /\ (Ran /\ req.kind = "range") => {linear_id(req.range, i) : i \in All} = 0 .. Size(req.range) - 1

(* Work items see the same group id exactly if they are in one block (or   *)
(* one group of fibers), the ones that share local memory and barriers,    *)
(* and their local linear ids tell them apart.                             *)
GroupsAreBlocks ==
  (Ran /\ req.kind = "nd") =>
    \A t, u \in DOMAIN items : \A i \in items[t], j \in items[u] :
      /\ t.group = u.group <=> i.group_id = j.group_id
      /\ (t.group = u.group /\ t # u) =>
           linear_id(i.local_range, i.local_id) # linear_id(j.local_range, j.local_id)
=============================================================================
