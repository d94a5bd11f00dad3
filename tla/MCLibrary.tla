----------------------------- MODULE MCLibrary -----------------------------
(***************************************************************************)
(* Small instances of the library's parts that share no state: what an     *)
(* operation of the program becomes on the device.  A behaviour is a       *)
(* behaviour of one part, chosen in the initial state; the variables of    *)
(* the others rest.                                                        *)
(***************************************************************************)
EXTENDS Integers, Sequences

VARIABLES
  part,
  req_c, cmd, moved,
  pc, req, par, launch, items,
  x, y, todo, whole,
  ty, n, form, built, host, dev, rh, rd, args, left,
  recs, host_l, flat, phase, bases, fields, desc, params, idx, bound, slots,
  opens, lacks, backend, todo_b, held, gpu, desc_b, said, loads, task, done
-----------------------------------------------------------------------------
Copies == INSTANCE CopyRegion WITH MaxSize <- 3, MaxPair <- 2, Elem <- 2, req <- req_c

For == INSTANCE ParallelFor WITH
  MaxRange <- 3, MaxLocal <- 2, Kinds <- {"single", "range", "offset", "reduce", "nd"},
  Backends <- {"cpu", "cuda", "hip", "iris"}, MaxBlock <- 2, IrisBlock <- 2, Processors <- 1

(* IRIS on a CPU, without the nd_ranges whose dimensions it mixes up.      *)
Calls == INSTANCE ParallelFor WITH
  MaxRange <- 3, MaxLocal <- 2, Kinds <- {"single", "range", "offset", "reduce"},
  Backends <- {"openmp"}, MaxBlock <- 2, IrisBlock <- 2, Processors <- 1

Ids == INSTANCE IdRange WITH WordBits <- 2, Dims <- {1, 2}, Firsts <- 0 .. 3

(* Vectors of one and of four bytes to an element, two operations each ... *)
V == INSTANCE MCVec

Vecs == INSTANCE Vec WITH
  Types <- V!Small, Widths <- {1, 2, 3, 4}, Forms <- {"array", "ext"}, Values <- {0, 3},
  Binaries <- V!Binaries, Compounds <- V!Compounds, Compares <- V!Compares, Unaries <- V!Unaries,
  Funcs <- {"min", "max"}, Steps <- 2

(* ... of many elements ...                                                *)
Wide == INSTANCE Vec WITH
  Types <- V!UShort, Widths <- {8, 16}, Forms <- {"array", "ext"}, Values <- {1, 2},
  Binaries <- V!Binaries, Compounds <- V!Compounds, Compares <- V!Compares, Unaries <- V!Unaries,
  Funcs <- {"min", "max"}, Steps <- 1

(* ... and of floating point numbers.                                      *)
Floats == INSTANCE Vec WITH
  Types <- V!Floats, Widths <- {1, 2, 3, 4}, Forms <- {"array", "ext"}, Values <- {0, 3},
  Binaries <- {"+", "-"}, Compounds <- {"+"}, Compares <- V!Compares, Unaries <- {"++"},
  Funcs <- {"pow", "sqrt", "fmax"}, Steps <- 2

C == INSTANCE MCLayout

Layouts == INSTANCE Layout WITH
  Programs <- C!Programs, Order <- C!Order, Runtime <- C!Accessor, host <- host_l

(* The libraries of one back end on every machine ...                      *)
L == INSTANCE MCBlas

Libs == INSTANCE Blas WITH
  Backends <- {"CPU", "HIP"}, Opens <- L!Sets, Lacks <- L!Lacks, Names <- L!Matrices,
  MaxLoads <- 1, MaxCalls <- 2, todo <- todo_b, desc <- desc_b

(* ... and of two back ends after each other.                              *)
Relibs == INSTANCE Blas WITH
  Backends <- {"CPU", "CUDA", "HIP", "IRIS"}, Opens <- L!Sets, Lacks <- {{}}, Names <- L!Matrices,
  MaxLoads <- 2, MaxCalls <- 1, todo <- todo_b, desc <- desc_b

ASSUME
  /\ Copies!CopyAssumption /\ For!ForAssumption /\ Ids!IdRangeAssumption
  /\ Libs!BlasAssumption /\ Relibs!BlasAssumption
-----------------------------------------------------------------------------
copy_vars == <<req_c, cmd, moved>>
for_vars == <<pc, req, par, launch, items>>
id_vars == <<x, y, todo, whole>>
vec_vars == <<ty, n, form, built, host, dev, rh, rd, args, left>>
layout_vars == <<recs, host_l, flat, phase, bases, fields, desc, params, idx, bound, slots>>
blas_vars == <<opens, lacks, backend, todo_b, held, gpu, desc_b, said, loads, task, done>>

vars == <<part, copy_vars, for_vars, id_vars, vec_vars, layout_vars, blas_vars>>

Parts == [copy |-> {"copies"}, for |-> {"for", "calls"}, id |-> {"ids"}, vec |-> {"vecs", "wide", "floats"},
          layout |-> {"layouts"}, blas |-> {"libs", "relibs"}]

Begins ==
  CASE part = "copies" -> Copies!Init  [] part = "for" -> For!Init  [] part = "ids" -> Ids!Init
    [] part = "calls" -> Calls!Init
    [] part = "vecs" -> Vecs!Init  [] part = "wide" -> Wide!Init  [] part = "floats" -> Floats!Init
    [] part = "layouts" -> Layouts!Init
    [] part = "libs" -> Libs!Init  [] part = "relibs" -> Relibs!Init

Moves ==
  CASE part = "copies" -> Copies!Next  [] part = "for" -> For!Next  [] part = "ids" -> Ids!Next
    [] part = "calls" -> Calls!Next
    [] part = "vecs" -> Vecs!Next  [] part = "wide" -> Wide!Next  [] part = "floats" -> Floats!Next
    [] part = "layouts" -> Layouts!Next
    [] part = "libs" -> Libs!Next  [] part = "relibs" -> Relibs!Next

Absent(p) ==
  \/ p = "copy" /\ req_c = 0 /\ cmd = 0 /\ moved = 0
  \/ p = "for" /\ pc = 0 /\ req = 0 /\ par = 0 /\ launch = 0 /\ items = 0
  \/ p = "id" /\ x = 0 /\ y = 0 /\ todo = 0 /\ whole = 0
  \/ /\ p = "vec"
     /\ ty = 0 /\ n = 0 /\ form = 0 /\ built = 0 /\ host = 0 /\ dev = 0 /\ rh = 0 /\ rd = 0
     /\ args = 0 /\ left = 0
  \/ /\ p = "layout"
     /\ recs = 0 /\ host_l = 0 /\ flat = 0 /\ phase = 0 /\ bases = 0 /\ fields = 0 /\ desc = 0
     /\ params = 0 /\ idx = 0 /\ bound = 0 /\ slots = 0
  \/ /\ p = "blas"
     /\ opens = 0 /\ lacks = 0 /\ backend = 0 /\ todo_b = 0 /\ held = 0 /\ gpu = 0 /\ desc_b = 0
     /\ said = 0 /\ loads = 0 /\ task = 0 /\ done = 0

Rests(p) ==
  CASE p = "copy" -> UNCHANGED copy_vars  [] p = "for" -> UNCHANGED for_vars
    [] p = "id" -> UNCHANGED id_vars      [] p = "vec" -> UNCHANGED vec_vars
    [] p = "layout" -> UNCHANGED layout_vars  [] p = "blas" -> UNCHANGED blas_vars

Init ==
  /\ part \in UNION {Parts[p] : p \in DOMAIN Parts}
  /\ Begins
  /\ \A p \in DOMAIN Parts : part \notin Parts[p] => Absent(p)

Next ==
  /\ UNCHANGED part
  /\ \A p \in DOMAIN Parts : part \notin Parts[p] => Rests(p)
  /\ Moves

Spec == Init /\ [][Next]_vars
-----------------------------------------------------------------------------
(* handler.cpp, dep.cpp, dev_rts_cuda.cpp: a copy of whole rows moves      *)
(* the bytes that were asked for and a fill fills its part; no copy leaves *)
(* its buffers, and the GPU moves what the CPU does.                       *)
CopiesRight ==
  part = "copies" =>
    Copies!CopiesWholeRows /\ Copies!FillsRegion /\ Copies!StaysInside /\ Copies!GpuAgrees

(* handler.ipp, the wrappers of the lower compiler, launch: whatever the   *)
(* range and its offset, each id is computed once, by one thread of the    *)
(* blocks; the items of a group are those of a block.                      *)
EachItemOnce ==
  /\ part = "for" => /\ For!TypeOK /\ For!EachItemOnce /\ For!SingleOnce
                     /\ For!LinearIdsCount /\ For!GroupsAreBlocks
  /\ part = "calls" => Calls!TypeOK /\ Calls!EachItemOnce /\ Calls!SingleOnce

(* id_*.ipp, range_*.ipp: a compound assignment, written as a statement    *)
(* for each component, gives what the operator gives that is written as a  *)
(* whole, and is defined when that is, also when the right side is the     *)
(* left or a part of it.                                                   *)
IdsAgree ==
  part = "ids" => Ids!TypeOK /\ Ids!AssignIsCompute /\ Ids!StatementsDefined

(* vec.ipp and the code the compiler makes of a vec's functions: host and  *)
(* device compute the same elements, where both expect them.               *)
VecsAgree ==
  /\ part = "vecs" => Vecs!Agree /\ Vecs!InOrder
  /\ part = "wide" => Wide!Agree
  /\ part = "floats" => Floats!Agree /\ Floats!Builds

(* kext/utils.cpp, struct_builder.cpp: a kernel's object has the same      *)
(* bytes on the device as on the host, and each accessor in it gets its    *)
(* pointer.                                                                *)
LayoutAgrees ==
  part = "layouts" =>
    /\ Layouts!TypeOK /\ Layouts!SameBytes /\ Layouts!SameSize
    /\ Layouts!AccessorsFound /\ Layouts!Delivered

(* lib/sycl/blas: the best library that has all of a family is the one     *)
(* that is found, reported and called, on any machine.                     *)
BestIsCalled ==
  /\ part = "libs" => /\ Libs!TypeOK /\ Libs!SaidIsSet /\ Libs!WholeOrNone /\ Libs!BestIsFound
                      /\ Libs!LapackIsFound /\ Libs!FoundIsCalled
  /\ part = "relibs" => Relibs!SaidIsSet
=============================================================================
