---------------------------- MODULE MCCompiler ----------------------------
(***************************************************************************)
(* Small instances of the compiler's parts that share no state: a kernel   *)
(* taken out of the program's source, the unit it becomes, the C that is   *)
(* printed, and the driver that compiles and links.  A behaviour is a      *)
(* behaviour of one part, chosen in the initial state; the variables of    *)
(* the others rest.                                                        *)
(***************************************************************************)
EXTENDS Integers, Sequences

CONSTANTS cpu, gpu      \* Unit: two targets

VARIABLES
  part,
  code, src, out,
  in, out_c,
  disk, promised, pc, inv, targets, next, objects, cpu_symbols_, written, exe, runs,
  target, left, src_u, agenda, u, objs
-----------------------------------------------------------------------------
(* Expressions, and loops that are left in every way.                      *)
K == INSTANCE MCExtract

Expressions == INSTANCE Extract WITH
  Programs <- K!Expressions, Inputs <- K!Inputs({0, 1}), MaxTemp <- 20, Width <- 64

Statements == INSTANCE Extract WITH
  Programs <- K!Statements, Inputs <- K!Inputs({0}), MaxTemp <- 20, Width <- 64

P == INSTANCE MCCBack

Prints == INSTANCE CBack WITH Inputs <- P!Exprs \cup P!Stmts, out <- out_c

(* Builds in several steps, and builds of which any may fail or be killed. *)
B == INSTANCE MCDriver

Builds == INSTANCE Driver WITH
  Source <- {"a.cpp", "b.cpp"}, Plain <- {}, Packed <- {"a.o", "b.o"}, Tools <- {"nvcc"},
  Invocations <- B!Separate, MayFail <- FALSE, MayStop <- FALSE, MaxRuns <- 3

Stops == INSTANCE Driver WITH
  Source <- {"a.cpp", "b.cpp"}, Plain <- {"c.o"}, Packed <- {"a.o", "b.o"}, Tools <- {"nvcc", "hipcc"},
  Invocations <- B!Killed, MayFail <- TRUE, MayStop <- TRUE, MaxRuns <- 3

S == INSTANCE MCUnit

Units == INSTANCE Unit WITH Inputs <- S!Plain, CPU <- cpu, GPU <- gpu, src <- src_u

ASSUME
  /\ Expressions!ExtractAssumption /\ Statements!ExtractAssumption
  /\ Builds!DriverAssumption /\ Stops!DriverAssumption
-----------------------------------------------------------------------------
extract_vars == <<code, src, out>>
print_vars == <<in, out_c>>
driver_vars == <<disk, promised, pc, inv, targets, next, objects, cpu_symbols_, written, exe, runs>>
unit_vars == <<target, left, src_u, agenda, u, objs>>

vars == <<part, extract_vars, print_vars, driver_vars, unit_vars>>

Parts == [extract |-> {"expressions", "statements"}, print |-> {"prints"},
          driver |-> {"builds", "stops"}, unit |-> {"units"}]

Begins ==
  CASE part = "expressions" -> Expressions!Init  [] part = "statements" -> Statements!Init
    [] part = "prints" -> Prints!Init
    [] part = "builds" -> Builds!Init  [] part = "stops" -> Stops!Init
    [] part = "units" -> Units!Init

Moves ==
  CASE part = "expressions" -> Expressions!Next  [] part = "statements" -> Statements!Next
    [] part = "prints" -> Prints!Next
    [] part = "builds" -> Builds!Next  [] part = "stops" -> Stops!Next
    [] part = "units" -> Units!Next

Absent(p) ==
  \/ p = "extract" /\ code = 0 /\ src = 0 /\ out = 0
  \/ p = "print" /\ in = 0 /\ out_c = 0
  \/ /\ p = "driver"
     /\ disk = 0 /\ promised = 0 /\ pc = 0 /\ inv = 0 /\ targets = 0 /\ next = 0 /\ objects = 0
     /\ cpu_symbols_ = 0 /\ written = 0 /\ exe = 0 /\ runs = 0
  \/ p = "unit" /\ target = 0 /\ left = 0 /\ src_u = 0 /\ agenda = 0 /\ u = 0 /\ objs = 0

Rests(p) ==
  CASE p = "extract" -> UNCHANGED extract_vars  [] p = "print" -> UNCHANGED print_vars
    [] p = "driver" -> UNCHANGED driver_vars    [] p = "unit" -> UNCHANGED unit_vars

Init ==
  /\ part \in UNION {Parts[p] : p \in DOMAIN Parts}
  /\ Begins
  /\ \A p \in DOMAIN Parts : part \notin Parts[p] => Absent(p)

Next ==
  /\ UNCHANGED part
  /\ \A p \in DOMAIN Parts : part \notin Parts[p] => Rests(p)
  /\ Moves

(* A kernel goes on (there are no loops in expressions).                   *)
Fairness == WF_extract_vars(part = "statements" /\ (Statements!RunSource \/ Statements!RunExtracted))

Spec == Init /\ [][Next]_vars /\ Fairness
-----------------------------------------------------------------------------
(* kext's visitors, and the passes that flatten expressions and loops: a   *)
(* kernel's extraction leaves in memory what the kernel leaves there.      *)
SameEffects ==
  /\ part = "expressions" => Expressions!Same
  /\ part = "statements" => Statements!Same

(* The extraction of a kernel that ends, ends: no exit of a loop and no     *)
(* part of its condition is lost in the loops that it is made into.        *)
KernelsEnd ==
  []<>(part = "statements" /\ Statements!Ended(code.src, src) => Statements!Done)

(* chsy-c-back.cpp: a C compiler reads what the tree says.                 *)
ReadsBack == part = "prints" => Prints!ReadsBack

(* kext, the lower passes and the back ends over a whole unit, with any    *)
(* calls between lambdas, functors and functions: what is printed has each *)
(* thing once, before it is used and where it can be called.               *)
UnitStands ==
  part = "units" =>
    /\ Units!TypeOK /\ Units!VisitedOnce /\ Units!OwnCaptures /\ Units!DistinctTypes
    /\ Units!DeclaredFirst /\ Units!StructsFirst /\ Units!Linked /\ Units!Registered
    /\ Units!OnDevice /\ Units!LocalMemorySet

(* cscc: an executable is linked from all of its inputs' objects, also     *)
(* through packed files of earlier invocations, and from nothing else,     *)
(* also when one of these was killed.                                      *)
AllLinked ==
  /\ part = "builds" => Builds!TypeOK /\ Builds!AllLinked /\ Builds!LinksOpenMP /\ Builds!Accepts
  /\ part = "stops" => Stops!NothingForeign
=============================================================================
