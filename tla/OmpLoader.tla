------------------------------ MODULE OmpLoader ------------------------------
(***************************************************************************)
(* What IRIS loads to run kernels on the CPU (lib/sycl/iris/openmp.cpp).   *)
(* A worker of IRIS runs a command with several calls: the kernel's name,  *)
(* each argument, and the launch.  What the calls build up is global, and  *)
(* a mutex that the first call takes and the last one gives back keeps     *)
(* workers apart.  The kernel comes from the registry (lib/sycl/kreg.cpp), *)
(* the arguments go to a storage of fixed size (task_parameter_storage in  *)
(* lib/sycl/dev_rts.hpp).                                                  *)
(*                                                                         *)
(* Sizes and places are in words; an argument's data is the argument that  *)
(* it belongs to.  Of IRIS it is assumed that each worker makes its calls  *)
(* in this order and launches whatever an argument's call has returned.    *)
(***************************************************************************)
EXTENDS Naturals, Sequences, SequencesExt

CONSTANTS
  Worker, Kernel,
  NoOne,          \* no worker, no kernel
  Jobs,           \* argument lists that a command may have
  MAX_N_ARGS, ARG_BUF_SIZE

(* A scalar is aligned for any type, which is two words; a pointer is one. *)
Arg == [kind : {"scalar", "mem"}, size : Nat \ {0}]

OmpAssumption ==
  /\ NoOne \notin Worker \union Kernel
  /\ MAX_N_ARGS \in Nat /\ ARG_BUF_SIZE \in Nat
  /\ Jobs \subseteq Seq(Arg)

Kind == {"cpu-openmp", "cpu-c"}

VARIABLES
  registry,     \* the kernels of each kind
  kinds,        \* the kinds that the registry has a table for
  pc, job,      \* of each worker: where it is, its kernel and arguments
  given,        \* how many arguments it has given
  g_mutex,      \* its holder
  g_lock,       \* does the global lock object own the mutex?
  g_kinfo,      \* the kernel that was found: its name and kind
  args,         \* args_: where each argument begins
  arg_next,     \* arg_next_
  arg_data,     \* what is in each word: an argument of a worker
  ran           \* what each worker's kernel got to see

vars == <<registry, kinds, pc, job, given, g_mutex, g_lock, g_kinfo, args, arg_next, arg_data, ran>>
g_vars == <<g_lock, g_kinfo, args, arg_next, arg_data>>

Cell == 0 .. (2 * ARG_BUF_SIZE)       \* bound: words that the model has
Nothing == <<NoOne, 0>>
NoKernel == [name |-> NoOne, kind |-> "cpu-c"]

TypeOK ==
  /\ registry \in [Kind -> SUBSET Kernel] /\ kinds \subseteq Kind
  /\ pc \in [Worker -> {"idle", "locked", "args", "error", "done"}]
  /\ job \in [Worker -> [name : Kernel, args : Jobs]]
  /\ given \in [Worker -> Nat]
  /\ g_mutex \in Worker \union {NoOne} /\ g_lock \in BOOLEAN
  /\ g_kinfo \in [name : Kernel \union {NoOne}, kind : Kind]
  /\ args \in Seq(Cell) /\ arg_next \in Cell
  /\ arg_data \in [Cell -> (Worker \X Nat) \union {Nothing}]
  /\ \A w \in Worker : pc[w] \in {"locked", "args"} => g_mutex = w

Init ==
  /\ registry \in [Kind -> SUBSET Kernel] /\ kinds = {k \in Kind : registry[k] # {}}
  /\ pc = [w \in Worker |-> "idle"]
  /\ job \in [Worker -> [name : Kernel, args : Jobs]]
  /\ given = [w \in Worker |-> 0]
  /\ g_mutex = NoOne /\ g_lock = FALSE /\ g_kinfo = NoKernel
  /\ args = << >> /\ arg_next = 0 /\ arg_data = [c \in Cell |-> Nothing]
  /\ ran = [w \in Worker |-> << >>]
-----------------------------------------------------------------------------
(* kernel_registry_impl::find, which makes a table for a kind it does not  *)
(* know.                                                                   *)
Has(name, kind) == name \in registry[kind]

(* The OpenMP version, or else the serial one.                             *)
Found(name) ==
  IF Has(name, "cpu-openmp") THEN {"cpu-openmp"}
  ELSE IF Has(name, "cpu-c") THEN {"cpu-c"} ELSE {}

Asked(name) == IF Has(name, "cpu-openmp") THEN {"cpu-openmp"} ELSE Kind

(* iris_openmp_kernel takes the mutex ...                                  *)
Lock(w) ==
  /\ pc[w] = "idle" /\ g_mutex = NoOne
  /\ g_mutex' = w
  /\ pc' = [pc EXCEPT ![w] = "locked"]
  /\ UNCHANGED <<registry, kinds, job, given, g_vars, ran>>

Keeps(w) == w

(* clear: where the first argument begins.                                 *)
Start == 0

(* ... finds the kernel, and keeps the mutex by a global lock object, or   *)
(* gives it back and returns an error.                                     *)
FindKernel(w) ==
  LET name == job[w].name
  IN  /\ pc[w] = "locked"
      /\ kinds' = kinds \union Asked(name)
      /\ IF Found(name) = {}
           THEN /\ g_mutex' = NoOne /\ pc' = [pc EXCEPT ![w] = "error"]
                /\ UNCHANGED g_vars
           ELSE /\ \E k \in Found(name) : g_kinfo' = [name |-> name, kind |-> k]
                /\ g_mutex' = Keeps(w) /\ g_lock' = (Keeps(w) # NoOne)
                /\ args' = << >> /\ arg_next' = Start
                /\ pc' = [pc EXCEPT ![w] = "args"]
                /\ UNCHANGED arg_data
      /\ UNCHANGED <<registry, job, given, ran>>

Align(arg) == IF arg.kind = "scalar" THEN 2 ELSE 1

AlignedUp_fault(place, align) == (place \div align) * align

(* next_param_ptr: the next place for an argument.                         *)
AlignedUp(place, align) == ((place + align - 1) \div align) * align

(* The arguments of a command end where ends says, and inside the storage  *)
(* (the assertion of next_param_ptr).                                      *)
Fits(as, ends) ==
  /\ ends[0] = 0
  /\ \A i \in 1 .. Len(as) : i <= MAX_N_ARGS =>
       ends[i] = AlignedUp(ends[i - 1], Align(as[i])) + as[i].size

JobsFit ==
  \A as \in Jobs : \E ends \in [0 .. Len(as) -> 0 .. ARG_BUF_SIZE] : Fits(as, ends)

(* iris_openmp_setarg and iris_openmp_setmem.                              *)
SetArg(w) ==
  LET i == given[w] + 1
      arg == job[w].args[i]
      ptr == AlignedUp(arg_next, Align(arg))
  IN  /\ pc[w] = "args" /\ given[w] < Len(job[w].args)
      /\ given' = [given EXCEPT ![w] = i]
      /\ IF Len(args) >= MAX_N_ARGS
           THEN UNCHANGED <<args, arg_next, arg_data>>
           ELSE /\ args' = Append(args, ptr)
                /\ arg_next' = ptr + arg.size
                /\ arg_data' = [c \in Cell |->
                     IF c \in ptr .. (ptr + arg.size - 1) THEN <<w, i>> ELSE arg_data[c]]
      /\ UNCHANGED <<registry, kinds, pc, job, g_mutex, g_lock, g_kinfo, ran>>

Released == IF g_lock THEN NoOne ELSE g_mutex

(* iris_openmp_launch: the kernel runs, and the lock goes with the call.   *)
Launch(w) ==
  /\ pc[w] = "args" /\ given[w] = Len(job[w].args)
  /\ ran' = [ran EXCEPT ![w] = <<g_kinfo, [i \in DOMAIN args |->
       {arg_data[c] : c \in args[i] .. (args[i] + job[w].args[i].size - 1)}]>>]
  /\ g_mutex' = Released
  /\ g_lock' = FALSE
  /\ pc' = [pc EXCEPT ![w] = "done"]
  /\ UNCHANGED <<registry, kinds, job, given, g_kinfo, args, arg_next, arg_data>>

Finished ==
  /\ \A w \in Worker : pc[w] \in {"error", "done"}
  /\ UNCHANGED vars

Call(w) == Lock(w) \/ FindKernel(w) \/ SetArg(w) \/ Launch(w)

Next == Finished \/ \E w \in Worker : Call(w)

Spec == Init /\ [][Next]_vars

(* Workers go on; who waits for the mutex gets it some time.               *)
FairSpec == Spec /\ \A w \in Worker : WF_vars(Call(w))
-----------------------------------------------------------------------------
(* A kernel runs with its worker's name and arguments, each at its place,  *)
(* whatever the other workers are about.  (g_lock and g_args, openmp.cpp.) *)
RunsOwn ==
  \A w \in Worker :
    pc[w] = "done" =>
      /\ ran[w][1].name = job[w].name
      /\ Has(job[w].name, "cpu-openmp") => ran[w][1].kind = "cpu-openmp"
      /\ Len(job[w].args) <= MAX_N_ARGS =>
           ran[w][2] = [i \in DOMAIN job[w].args |-> {<<w, i>>}]

(* Who gets an error has no version of the kernel to run, and keeps        *)
(* nobody waiting.                                                         *)
ErrorsAreDue ==
  \A w \in Worker :
    pc[w] = "error" => g_mutex # w /\ ~\E k \in Kind : Has(job[w].name, k)

(* An argument is in the buffer, and so is the place where the next one    *)
(* begins.  (assert(arg_next_ < arg_data_.data() + arg_data_.size()).)     *)
ArgsFit ==
  \A c \in Cell : c >= ARG_BUF_SIZE => arg_data[c] = Nothing
=============================================================================
