-------------------------------- MODULE Blas --------------------------------
(* The libraries of linear algebra: how a back end finds them, what is then  *)
(* in the descriptors of functions, how a command binds the arguments of one *)
(* (the generated runtime/blas*.hpp) and how the generated wrapper takes     *)
(* them apart for the library.  Arguments are places in the list of a task;  *)
(* numbers and memory are left out.                                          *)
EXTENDS Integers, Sequences, FiniteSets, SequencesExt

CONSTANTS Backends,   \* the back ends that CHARM_SYCL_RTS may ask for
          Opens,      \* the sets of libraries that dlopen may find
          Lacks,      \* the sets of interfaces that a library may not have
          Names,      \* the functions that the program calls
          MaxLoads,   \* bound: back ends made in one process
          MaxCalls    \* bound: commands of one back end

NoLib == "none"

CpuLibs == <<"mkl", "openblas", "libcblas">>

Libs == Range(CpuLibs) \cup
        {"liblapacke", "cublas", "cusolver", "rocblas", "rocsolver"}

BlasAssumption ==
    /\ Backends \subseteq {"CPU", "CUDA", "HIP", "IRIS"}
    /\ Opens \subseteq SUBSET Libs
    /\ Lacks \subseteq SUBSET (Libs \X {"blas", "lapack"})
    /\ MaxLoads \in Nat \ {0} /\ MaxCalls \in Nat \ {0}

(* The parameters of each function, in the order of the library.             *)
Axpy == <<"size", "scalar", "vector", "inc", "vector", "inc">>

Gemv == <<"flag", "size", "size", "scalar", "matrix", "dim",
          "vector", "inc", "scalar", "vector", "inc">>

Gemm == <<"flag", "flag", "size", "size", "size", "scalar", "matrix", "dim",
          "matrix", "dim", "scalar", "matrix", "dim">>

Syrk == <<"flag", "flag", "size", "size", "scalar", "matrix", "dim",
          "scalar", "matrix", "dim">>

Trsm == <<"flag", "flag", "flag", "flag", "size", "size", "scalar",
          "matrix", "dim", "matrix", "dim">>

Potrf == <<"flag", "size", "matrix", "dim">>

Params(name) ==
    CASE name = "axpy" -> Axpy [] name = "gemv" -> Gemv
      [] name = "gemm" -> Gemm [] name = "syrk" -> Syrk
      [] name = "trsm" -> Trsm [] name = "potrf" -> Potrf

Family(name) == IF name = "potrf" THEN "lapack" ELSE "blas"

Arrays == {"vector", "matrix"}

VARIABLES
    opens,     \* the libraries that are installed
    lacks,     \* the interfaces that they are too old for
    backend,   \* the back end that is being made or used, or "none"
    todo,      \* what make_subsystem has still to look for
    held,      \* g_handle of each library of the CPU
    gpu,       \* `initialized' and `lapack_initialized' of the GPUs
    desc,      \* desc[field][family]: the library behind cpu, cuda and hip
    said,      \* what the log has said is found, since this back end
    loads,     \* back ends made
    task,      \* the command: its function and the list of its arguments
    done       \* what has come of each command of this back end

vars == <<opens, lacks, backend, todo, held, gpu, desc, said, loads, task, done>>

Fields == {"cpu", "cuda", "hip"}
Families == {"blas", "lapack"}
Has(l, family) == l \in opens /\ <<l, family>> \notin lacks
Nothing == [f \in Families |-> NoLib]

NoTask == [name |-> "none", args |-> <<>>]

-----------------------------------------------------------------------------
(* Loading.                                                                  *)

(* What each back end looks for, in order.                                   *)
Looks(b) == CASE b = "CPU" -> <<"mkl">>
              [] b = "CUDA" -> <<"cublas">>
              [] b = "HIP" -> <<"rocblas">>
              [] b = "IRIS" -> <<"mkl", "cublas", "rocblas">>

Init == /\ opens \in Opens /\ lacks \in Lacks
        /\ backend = NoLib /\ todo = <<>>
        /\ held = [l \in Range(CpuLibs) |-> NoLib]
        /\ gpu = {}
        /\ desc = [f \in Fields |-> Nothing]
        /\ said = [f \in Fields |-> Nothing]
        /\ loads = 0 /\ task = NoTask /\ done = <<>>

MakeSubsystem(b) ==
    /\ backend = NoLib /\ loads < MaxLoads
    /\ backend' = b /\ loads' = loads + 1
    /\ todo' = Looks(b)
    /\ said' = [f \in Fields |-> Nothing]
    /\ done' = <<>>
    /\ UNCHANGED <<opens, lacks, held, gpu, desc, task>>

(* dlopen of a library under each of its names.                              *)
Opened(l) == IF l \in opens THEN l ELSE NoLib

(* One global interface and one set of descriptors serve every library of    *)
(* the CPU: the descriptors are all set, or all cleared if a function is     *)
(* missing.                                                                  *)
InitCblas(l) == IF Has(l, "blas") THEN l ELSE NoLib

InitLapacke(l) == IF Has(l, "lapack") THEN l ELSE NoLib

(* What follows a library of the CPU: the next one if it does not do, and    *)
(* its LAPACK otherwise.                                                     *)
NextLib(l) == CASE l = "mkl" -> <<"openblas">> [] l = "openblas" -> <<"libcblas">>
                [] OTHER -> <<>>

LapackOf(l) == CASE l = "mkl" -> "lapack mkl" [] l = "openblas" -> "lapack openblas"
                 [] OTHER -> "lapack reference"

Held(l) == held[l] # NoLib

Found(field, family, l) == said' = [said EXCEPT ![field][family] = l]

(* init_mkl, init_openblas and init_refblas.                                 *)
InitCpu(l) ==
    /\ todo # <<>> /\ Head(todo) = l
    /\ \/ /\ Held(l)
          /\ Found("cpu", "blas", l)
          /\ todo' = <<LapackOf(l)>> \o Tail(todo)
          /\ UNCHANGED <<held, desc>>
       \/ /\ ~Held(l)
          /\ held' = [held EXCEPT ![l] = Opened(l)]
          /\ IF Opened(l) = NoLib
             THEN /\ UNCHANGED <<desc, said>>
                  /\ todo' = NextLib(l) \o Tail(todo)
             ELSE /\ desc' = [desc EXCEPT !["cpu"]["blas"] = InitCblas(l)]
                  /\ IF Has(l, "blas")
                     THEN /\ Found("cpu", "blas", l)
                          /\ todo' = <<LapackOf(l)>> \o Tail(todo)
                     ELSE /\ UNCHANGED said
                          /\ todo' = NextLib(l) \o Tail(todo)
    /\ UNCHANGED <<opens, lacks, backend, gpu, loads, task, done>>

SetLapack(l) ==
    /\ desc' = [desc EXCEPT !["cpu"]["lapack"] = InitLapacke(l)]
    /\ IF Has(l, "lapack") THEN Found("cpu", "lapack", l) ELSE UNCHANGED said

InitLapackMkl ==
    /\ todo # <<>> /\ Head(todo) = "lapack mkl"
    /\ SetLapack("mkl")
    /\ todo' = Tail(todo)
    /\ UNCHANGED <<opens, lacks, backend, held, gpu, loads, task, done>>

InitLapackOpenblas ==
    /\ todo # <<>> /\ Head(todo) = "lapack openblas"
    /\ SetLapack("openblas")
    /\ todo' = Tail(todo)
    /\ UNCHANGED <<opens, lacks, backend, held, gpu, loads, task, done>>

(* The library is opened into the handle of the other one, and the handle    *)
(* that is looked at stays null: no LAPACKE is ever found.                   *)
InitLapackRef ==
    /\ todo # <<>> /\ Head(todo) = "lapack reference"
    /\ held' = [held EXCEPT !["libcblas"] = Opened("liblapacke")]
    /\ todo' = Tail(todo)
    /\ UNCHANGED <<opens, lacks, backend, gpu, desc, said, loads, task, done>>

(* The flag of a library that has been found: a failure is tried again.      *)
Initialized_fault(l, ok) == gpu \cup {l}

Initialized(l, ok) == IF ok THEN gpu \cup {l} ELSE gpu

(* What each of them leaves in its descriptors: nothing is set unless every  *)
(* function is there, and only that of cuSOLVER clears what was set before.  *)
CublasLevels(old) == IF Has("cublas", "blas") THEN "cublas" ELSE old

RocblasLevels(old) == IF Has("rocblas", "blas") THEN "rocblas" ELSE old

CusolverLapack(old) == IF Has("cusolver", "lapack") THEN "cusolver" ELSE NoLib

RocsolverLapack(old) == IF Has("rocsolver", "lapack") THEN "rocsolver" ELSE old

InitGpu(field, family, l, set, then) ==
    /\ todo # <<>> /\ Head(todo) = l
    /\ LET ok == l \in gpu \/ Has(l, family)
       IN /\ gpu' = Initialized(l, ok)
          /\ desc' = IF l \in gpu THEN desc
                     ELSE [desc EXCEPT ![field][family] = set]
          /\ IF ok THEN Found(field, family, l) ELSE UNCHANGED said
          /\ todo' = (IF ok THEN then ELSE <<>>) \o Tail(todo)
    /\ UNCHANGED <<opens, lacks, backend, held, loads, task, done>>

InitCublas ==
    InitGpu("cuda", "blas", "cublas", CublasLevels(desc["cuda"]["blas"]), <<"cusolver">>)

InitLapackCublas ==
    InitGpu("cuda", "lapack", "cusolver", CusolverLapack(desc["cuda"]["lapack"]), <<>>)

InitRocblas ==
    InitGpu("hip", "blas", "rocblas", RocblasLevels(desc["hip"]["blas"]), <<"rocsolver">>)

InitLapackRocblas ==
    InitGpu("hip", "lapack", "rocsolver", RocsolverLapack(desc["hip"]["lapack"]), <<>>)

(* The last queue and buffer are gone, and the next one makes a back end.    *)
Leave == /\ backend # NoLib /\ todo = <<>> /\ task = NoTask
         /\ backend' = NoLib
         /\ UNCHANGED <<opens, lacks, todo, held, gpu, desc, said, loads, task, done>>

-----------------------------------------------------------------------------
(* A command.                                                                *)

(* What is bound for a parameter: one argument, the value or the pointer of  *)
(* an array.  The leading dimension is left to the accessor.                 *)
Passed(kind, i) ==
    CASE kind \in Arrays -> <<<<"pointer", i>>>>
      [] kind = "dim" -> <<>>
      [] OTHER -> <<<<"value", i>>>>

BoundArgs(name) ==
    FlattenSeq([i \in DOMAIN Params(name) |-> Passed(Params(name)[i], i)])

At(args, i) == IF i \in DOMAIN args THEN args[i] ELSE <<"null", 0>>

(* What the wrapper of the function takes for parameter i: each parameter    *)
(* moves it on by one place, and the accessor of an array is at the next.    *)
Taken(kind, i, args) ==
    CASE kind \in Arrays -> <<At(args, i), At(args, i + 1)>>
      [] OTHER -> <<At(args, i)>>

(* The wrapper of a GPU finds its handle behind the parameters, and those of *)
(* rocSOLVER the place of the result behind it.                              *)
Handles(l) == CASE l = "rocblas" -> <<<<"handle", 0>>>>
                [] l = "rocsolver" -> <<<<"handle", 0>>, <<"info", 0>>>>
                [] OTHER -> <<>>

Call(name, args, l) ==
    [name |-> name, by |-> l,
     given |-> [i \in DOMAIN Params(name) |-> Taken(Params(name)[i], i, args)],
     extra |-> [k \in DOMAIN Handles(l) |-> At(args, Len(Params(name)) + k)]]

Submit(name) ==
    /\ backend # NoLib /\ todo = <<>> /\ task = NoTask
    /\ Len(done) < MaxCalls
    /\ task' = [name |-> name, args |-> BoundArgs(name)]
    /\ UNCHANGED <<opens, lacks, backend, todo, held, gpu, desc, said, loads, done>>

End(outcome) ==
    /\ done' = Append(done, outcome)
    /\ task' = NoTask
    /\ UNCHANGED <<opens, lacks, backend, todo, held, gpu, desc, said, loads>>

Failed(name, why) == [name |-> name, by |-> why, given |-> <<>>, extra |-> <<>>]

(* prep_desc of the CPU calls the pointer of the descriptor as it is.        *)
RunCpu ==
    /\ task # NoTask /\ backend = "CPU"
    /\ LET l == desc["cpu"][Family(task.name)]
       IN End(IF l = NoLib THEN Failed(task.name, "null pointer")
              ELSE Call(task.name, task.args, l))

(* prep_desc of HIP adds the handles that the tag of the descriptor asks for.*)
RunHip ==
    /\ task # NoTask /\ backend = "HIP"
    /\ LET l == desc["hip"][Family(task.name)]
       IN End(IF l = NoLib THEN Failed(task.name, "null pointer")
              ELSE Call(task.name, task.args \o Handles(l), l))

(* kernel_op of CUDA asks the module for the kernel by its name, which only  *)
(* set_kernel sets.                                                          *)
RunCuda ==
    /\ task # NoTask /\ backend = "CUDA"
    /\ End(Failed(task.name, "no name"))

(* The tasks of IRIS have set_desc from rts::task.                           *)
RunIris ==
    /\ task # NoTask /\ backend = "IRIS"
    /\ End(Failed(task.name, "abort"))

Next ==
    \/ \E b \in Backends : MakeSubsystem(b)
    \/ \E l \in Range(CpuLibs) : InitCpu(l)
    \/ InitLapackMkl
    \/ InitLapackOpenblas
    \/ InitLapackRef
    \/ InitCublas
    \/ InitLapackCublas
    \/ InitRocblas
    \/ InitLapackRocblas
    \/ \E name \in Names : Submit(name)
    \/ RunCpu
    \/ RunHip
    \/ RunCuda
    \/ RunIris
    \/ Leave

Spec == Init /\ [][Next]_vars

-----------------------------------------------------------------------------
(* Properties.                                                               *)

TypeOK ==
    /\ opens \in Opens /\ lacks \in Lacks
    /\ backend \in Backends \cup {NoLib}
    /\ held \in [Range(CpuLibs) -> Libs \cup {NoLib}]
    /\ gpu \subseteq Libs
    /\ desc \in [Fields -> [Families -> Libs \cup {NoLib}]]
    /\ said \in [Fields -> [Families -> Libs \cup {NoLib}]]
    /\ loads \in 0 .. MaxLoads /\ Len(done) <= MaxCalls

Ready == backend # NoLib /\ todo = <<>>

(* What the log says is found is what the descriptors of that processor call *)
(* (init_blas_cpu, init_blas_cuda, init_blas_hip).                           *)
SaidIsSet ==
    Ready => \A field \in Fields, family \in Families :
                 said[field][family] # NoLib =>
                     desc[field][family] = said[field][family]

(* A library that lacks a function is not called for the others either: the  *)
(* functions of a family are those of one library that has them all          *)
(* (clear_cblas1 to 3).                                                      *)
WholeOrNone ==
    \A field \in Fields, family \in Families :
        desc[field][family] # NoLib => Has(desc[field][family], family)

(* If a library that is installed has every function, one is found, however  *)
(* many before it are too old: the search goes on past a failed one.         *)
BestIsFound ==
    Ready /\ "mkl" \in Range(Looks(backend)) /\
    (\E l \in Range(CpuLibs) : Has(l, "blas")) =>
        /\ desc["cpu"]["blas"] # NoLib
        /\ \A i, j \in DOMAIN CpuLibs :
               i < j /\ CpuLibs[j] = desc["cpu"]["blas"] => ~Has(CpuLibs[i], "blas")

(* The LAPACKE that comes with the library of the CPU is found where it has  *)
(* every function (init_lapack_mkl, init_lapack_openblas, init_lapack_refblas).*)
LapackIsFound ==
    Ready =>
        LET l == said["cpu"]["blas"]
            mate == IF l = "libcblas" THEN "liblapacke" ELSE l
        IN l # NoLib /\ Has(mate, "lapack") => desc["cpu"]["lapack"] = mate

(* A library is given each of its parameters from what the program passed for*)
(* it, an array with its accessor, and its handles behind them (the generated*)
(* vars() and params()).                                                     *)
Meant(kind, i) ==
    CASE kind \in Arrays -> <<<<"pointer", i>>, <<"accessor", i>>>>
      [] kind = "dim" -> <<<<"accessor", i - 1>>>>
      [] OTHER -> <<<<"value", i>>>>

(* (The code does not satisfy this; README.md, "Disagreements".)           *)
OwnArguments ==
    \A k \in DOMAIN done :
        done[k].given # <<>> =>
            /\ \A i \in DOMAIN done[k].given :
                   done[k].given[i] = Meant(Params(done[k].name)[i], i)
            /\ done[k].extra = Handles(done[k].by)

(* The library that was reported for the processor of the back end runs the  *)
(* commands (prep_desc, kernel_op).                                          *)
FieldOf(b) == CASE b = "CPU" -> "cpu" [] b = "CUDA" -> "cuda"
                [] b = "HIP" -> "hip" [] OTHER -> "cpu"

FoundIsCalled ==
    Ready => \A k \in DOMAIN done :
                 LET l == said[FieldOf(backend)][Family(done[k].name)]
                 IN l # NoLib => done[k].by = l
=============================================================================
