-------------------------------- MODULE Driver --------------------------------
(***************************************************************************)
(* The compiler driver cscc (src/cscc).  A source file is compiled twice:  *)
(* its kernels are extracted, lowered, printed and compiled for each       *)
(* target, then the file itself is compiled for the host with the          *)
(* descriptions of its kernels.  With -c the objects go into one packed    *)
(* file, which a later invocation takes apart again; without, they are     *)
(* linked with a table of the kernels that IRIS runs on the CPU.  A kernel *)
(* object carries a mark in front, the target it is for, which the linking *)
(* takes off.                                                              *)
(*                                                                         *)
(* A file is a sequence of words, so that what one invocation has written  *)
(* is what another reads, at the offsets the code computes; a word is a    *)
(* header, a number, a character of a target's name or a part of an        *)
(* object.  What the commands do that the driver starts is left out, but   *)
(* for whether they succeed.                                               *)
(***************************************************************************)
EXTENDS Naturals, Sequences, FiniteSets, SequencesExt

CONSTANTS
  Source, Plain,   \* names of source files; of objects of another compiler
  Packed,          \* names that -c may be told to write
  Tools,           \* the compilers the machine may have of "nvcc", "hipcc"
  Invocations,     \* [inputs, targets, exe, output] that a build may make
  MayFail,         \* can a command fail?
  MayStop,         \* can the driver be killed?
  MaxRuns          \* bound: invocations of the driver

CPU == {"cpu-c", "cpu-openmp"}
Target == CPU \union {"nvidia-cuda", "amd-hip"}
default_targets == <<"cpu-openmp", "nvidia-cuda", "amd-hip">>

DriverAssumption ==
  /\ Tools \subseteq {"nvcc", "hipcc"} /\ MayFail \in BOOLEAN /\ MayStop \in BOOLEAN
  /\ MaxRuns \in Nat
  /\ \A inv \in Invocations :
       /\ inv.inputs \in Seq(Source \union Plain \union Packed)
       /\ inv.targets \in Seq(Target) /\ inv.exe \in BOOLEAN /\ inv.output \in Packed

VARIABLES
  disk,          \* the files on disk: packed files and objects
  promised,      \* of each packed file: the objects it was to hold
  pc, inv,       \* where the driver is; its command line
  targets,       \* cfg.targets
  next,          \* the input to process
  objects,       \* the objects so far: temporary files
  cpu_symbols_,  \* the CPU kernels of the sources compiled so far
  written,       \* link_packed_file: how many objects have been copied
  exe,           \* the last executable, or what went wrong
  runs           \* invocations so far

vars == <<disk, promised, pc, inv, targets, next, objects, cpu_symbols_, written, exe, runs>>

------------------------------------------------------------------------------
(* Objects, and the words of a file. *)
Object == {"host", "kernel", "fatbin", "fatbin loader", "ptx", "ptx loader",
           "hsaco", "hsaco loader", "plain"} \X (Source \union Plain) \X (Target \union {"host"})

Part(o, i) == <<"part", o, i>>
Num(n) == <<"num", n>>
Magic(m) == <<"magic", m>>
Hole == Num(0)                       \* what nobody has written reads as zero

(* Objects differ in length. *)
Code(o) == IF o[1] \in {"host", "fatbin"} THEN <<Part(o, 1), Part(o, 2)>> ELSE <<Part(o, 1)>>

(* A word read as a number: code is larger than any file. *)
AsNum(w) == IF w[1] = "num" THEN w[2] ELSE 1000

(* file::read: all of it, or an error. *)
Fits(f, off, len) == off + len <= Len(f)
Read(f, off, len) == SubSeq(f, off + 1, off + len)

(* file::write, which leaves a hole where nothing has been written. *)
Write(f, off, ws) ==
  [i \in 1 .. (IF off + Len(ws) > Len(f) THEN off + Len(ws) ELSE Len(f)) |->
     IF i > off /\ i <= off + Len(ws) THEN ws[i - off] ELSE IF i <= Len(f) THEN f[i] ELSE Hole]

------------------------------------------------------------------------------
(* Marked objects: the header, the length of the target's name, a zero, *)
(* the name, a zero, the object.                                        *)
Name(t) == IF t = "cpu-c" THEN <<<<"char", t, 1>>>> ELSE <<<<"char", t, 1>>, <<"char", t, 2>>>>

make_marked_object(t, f) ==
  <<Magic("CHSY"), Num(Len(Name(t))), Hole>> \o Name(t) \o <<Hole>> \o f

is_marked_object(f) == f[1] = Magic("CHSY")

targets_from_object(f) ==
  IF is_marked_object(f) THEN {t \in Target : Read(f, 3, AsNum(f[2])) = Name(t)} ELSE {}

extract_from_marked_object_fault(f) == Read(f, 3 + AsNum(f[2]), Len(f) - 3 - AsNum(f[2]))

extract_from_marked_object(f) ==
  LET off == 2 + 1 + AsNum(f[2]) + 1 IN Read(f, off, Len(f) - off)

Unmarked(f) == IF is_marked_object(f) THEN extract_from_marked_object(f) ELSE f

------------------------------------------------------------------------------
(* Packed files: the header, the number of files, their lengths, the files. *)
Start(files) == 1 + 1 + Len(files)

RECURSIVE Offset(_, _)
Offset(files, i) == IF i = 1 THEN Start(files) ELSE Offset(files, i - 1) + Len(files[i - 1])

PackHeader(files) ==
  <<Magic("CHSP"), Num(Len(files))>> \o [i \in DOMAIN files |-> Num(Len(files[i]))]

(* The answer of is_packed_file is a result: that the file could be read is *)
(* all that process_input asks of it.                                      *)
is_packed_file(f) == Len(f) >= 1

Count(f) == AsNum(f[2])
MayExtract(f) ==
  /\ Fits(f, 1, 1) /\ Fits(f, 2, Count(f))
  /\ Fits(f, 2 + Count(f), FoldLeft(LAMBDA s, w : s + AsNum(w), 0, Read(f, 2, Count(f))))

RECURSIVE extract_packed_file(_, _, _)
extract_packed_file(f, i, off) ==
  IF i > Count(f) THEN <<>>
  ELSE LET len == AsNum(f[2 + i])
       IN <<Read(f, off, len)>> \o extract_packed_file(f, i + 1, off + len)

------------------------------------------------------------------------------
(* Compiling a source.  (A binary's loader is a source of its own.) *)
HostObject(s) == Code(<<"host", s, "host">>)

KernelObject(s, t) == make_marked_object(t, Code(<<"kernel", s, t>>))

CudaBinaries == <<"fatbin", "ptx">>      \* the latter a cubin if -arch says for what

HipBinaries == <<"hsaco">>

BinaryLoader(k, s, t) == Code(<<k \o " loader", s, t>>)

Embedded(s, t, binaries) ==
  FlattenSeq([i \in DOMAIN binaries |->
    <<make_marked_object(t, Code(<<binaries[i], s, t>>)), BinaryLoader(binaries[i], s, t)>>])

compile_kernel(s, t) ==
  CASE t \in CPU -> <<KernelObject(s, t)>>
    [] t = "nvidia-cuda" -> Embedded(s, t, CudaBinaries)
    [] t = "amd-hip" -> Embedded(s, t, HipBinaries)

(* Extracted once, lowered and printed and compiled for each target. *)
KernelObjects(s, ts) == FlattenSeq([i \in DOMAIN ts |-> compile_kernel(s, ts[i])])

HasTool(t) == (t = "nvidia-cuda" => "nvcc" \in Tools) /\ (t = "amd-hip" => "hipcc" \in Tools)

(* The objects of a source, as an executable is to have them. *)
ObjectsOf(s, ts) ==
  {<<"host", s, "host">>} \union {<<"kernel", s, t>> : t \in ts \intersect CPU}
    \union {<<k, s, "nvidia-cuda">> : k \in IF "nvidia-cuda" \in ts
              THEN {"fatbin", "fatbin loader", "ptx", "ptx loader"} ELSE {}}
    \union {<<k, s, "amd-hip">> : k \in IF "amd-hip" \in ts THEN {"hsaco", "hsaco loader"} ELSE {}}

Wanted(i, ts) ==
  LET Of(name) == IF name \in Source THEN ObjectsOf(name, ts)
                  ELSE IF name \in Plain THEN {<<"plain", name, "host">>}
                  ELSE promised[name]
  IN UNION {Of(i.inputs[j]) : j \in DOMAIN i.inputs}

Nothing == [state |-> "none", objs |-> {}, wanted |-> {}, openmp |-> FALSE, table |-> {}]

Init ==
  /\ disk = [n \in Plain |-> Code(<<"plain", n, "host">>)]
  /\ promised = [n \in Packed |-> {}]
  /\ pc = "idle" /\ inv = CHOOSE i \in Invocations : TRUE
  /\ targets = <<>> /\ next = 1 /\ objects = <<>> /\ cpu_symbols_ = {}
  /\ written = 0 /\ exe = Nothing /\ runs = 0

Error(why) ==
  /\ pc' = "idle" /\ exe' = [Nothing EXCEPT !.state = why]
  /\ UNCHANGED <<disk, promised, inv, targets, next, objects, cpu_symbols_, written, runs>>

(* from_list_string: a name ends where the argument ends, so only the last *)
(* of a list is known.                                                     *)
from_list_string(ts) == [i \in DOMAIN ts |-> IF i = Len(ts) THEN ts[i] ELSE "none"]

set_default_targets == SelectSeq(default_targets, HasTool)

(* parse_args and validate. *)
Invoke ==
  /\ pc = "idle" /\ runs < MaxRuns
  /\ \E i \in Invocations :
       /\ \A j \in DOMAIN i.inputs : i.inputs[j] \in Packed => i.inputs[j] \in DOMAIN disk
       /\ inv' = i /\ runs' = runs + 1
       /\ next' = 1 /\ objects' = <<>> /\ cpu_symbols_' = {} /\ written' = 0
       /\ UNCHANGED <<disk, promised>>
       /\ LET given == from_list_string(i.targets) IN
          \/ /\ \A j \in DOMAIN given : given[j] # "none"
             /\ i.exe \/ Len(i.inputs) = 1
             /\ targets' = IF given = <<>> THEN set_default_targets ELSE given
             /\ pc' = "inputs" /\ exe' = Nothing
          \/ /\ (\E j \in DOMAIN given : given[j] = "none") \/ (~i.exe /\ Len(i.inputs) > 1)
             /\ targets' = <<>> /\ pc' = "idle"
             /\ exe' = [Nothing EXCEPT
                          !.state = IF ~i.exe /\ Len(i.inputs) > 1 THEN "usage" ELSE "targets"]

Input == inv.inputs[next]
AtInput == pc = "inputs" /\ next <= Len(inv.inputs)

(* collect_symbols *)
CollectSymbols(s) == IF \E i \in DOMAIN targets : targets[i] \in CPU THEN {s} ELSE {}

process_sycl_input ==
  /\ AtInput /\ Input \in Source
  /\ \A i \in DOMAIN targets : HasTool(targets[i])
  /\ cpu_symbols_' = cpu_symbols_ \union CollectSymbols(Input)
  /\ objects' = objects \o <<HostObject(Input)>> \o KernelObjects(Input, targets)
  /\ next' = next + 1
  /\ UNCHANGED <<disk, promised, pc, inv, targets, written, exe, runs>>

(* A command cannot be found, or fails. *)
CommandFails ==
  /\ AtInput /\ Input \in Source
  /\ \/ \E i \in DOMAIN targets : ~HasTool(targets[i])
     \/ MayFail
  /\ Error(IF MayFail THEN "command" ELSE "tool")

ProcessObject ==
  /\ AtInput /\ Input \notin Source
  /\ LET f == disk[Input] IN
     /\ is_packed_file(f) /\ MayExtract(f)
     /\ objects' = objects \o extract_packed_file(f, 1, 2 + Count(f))
  /\ next' = next + 1
  /\ UNCHANGED <<disk, promised, pc, inv, targets, cpu_symbols_, written, exe, runs>>

(* Only a file of less than a header's length is passed on. *)
PassObject ==
  /\ AtInput /\ Input \notin Source
  /\ ~is_packed_file(disk[Input])
  /\ objects' = Append(objects, disk[Input])
  /\ next' = next + 1
  /\ UNCHANGED <<disk, promised, pc, inv, targets, cpu_symbols_, written, exe, runs>>

ReadFails ==
  \/ /\ AtInput /\ Input \notin Source
     /\ is_packed_file(disk[Input]) /\ ~MayExtract(disk[Input])
     /\ Error("read")
  \/ /\ pc = "inputs" /\ next > Len(inv.inputs) /\ inv.exe
     /\ \E i \in DOMAIN objects : objects[i] = <<>>       \* is_marked_object
     /\ Error("short")

(* link_exe, with the symbol table of prepare_iris *)
UsesOpenMP == \E i \in DOMAIN objects : "cpu-openmp" \in targets_from_object(objects[i])

LinkExe ==
  /\ pc = "inputs" /\ next > Len(inv.inputs) /\ inv.exe
  /\ \A i \in DOMAIN objects : objects[i] # <<>>
  /\ exe' = [state |-> "linked",
             objs |-> {o \in Object : \E i \in DOMAIN objects : Unmarked(objects[i]) = Code(o)},
             wanted |-> Wanted(inv, ToSet(targets)),
             openmp |-> UsesOpenMP, table |-> cpu_symbols_]
  /\ pc' = "idle"
  /\ UNCHANGED <<disk, promised, inv, targets, next, objects, cpu_symbols_, written, runs>>

(* link_packed_file: create the file, copy the objects, write the header. *)
Created(name) == <<>>                                      \* O_TRUNC

CreatePacked ==
  /\ pc = "inputs" /\ next > Len(inv.inputs) /\ ~inv.exe
  /\ disk' = [n \in DOMAIN disk \union {inv.output} |-> IF n = inv.output THEN Created(n) ELSE disk[n]]
  /\ promised' = [promised EXCEPT ![inv.output] = Wanted(inv, ToSet(targets))]
  /\ pc' = "packing"
  /\ UNCHANGED <<inv, targets, next, objects, cpu_symbols_, written, exe, runs>>

Copied == written + 1

CopyPacked ==
  /\ pc = "packing" /\ written < Len(objects)
  /\ disk' = [disk EXCEPT ![inv.output] =
                Write(@, Offset(objects, written + 1), objects[written + 1])]
  /\ written' = Copied
  /\ UNCHANGED <<promised, pc, inv, targets, next, objects, cpu_symbols_, exe, runs>>

FinishPacked ==
  /\ pc = "packing" /\ written = Len(objects)
  /\ disk' = [disk EXCEPT ![inv.output] = Write(@, 0, PackHeader(objects))]
  /\ pc' = "idle"
  /\ UNCHANGED <<promised, inv, targets, next, objects, cpu_symbols_, written, exe, runs>>

(* The driver is killed; the file it was writing stays. *)
Stop ==
  /\ MayStop /\ pc = "packing"
  /\ Error("killed")

Next ==
  \/ Invoke \/ process_sycl_input \/ CommandFails \/ ProcessObject
  \/ PassObject \/ ReadFails
  \/ LinkExe \/ CreatePacked \/ CopyPacked \/ FinishPacked \/ Stop

Spec == Init /\ [][Next]_vars

------------------------------------------------------------------------------
(* The driver's state has its types. *)
TypeOK ==
  /\ DOMAIN disk \subseteq Plain \union Packed
  /\ pc \in {"idle", "inputs", "packing"} /\ inv \in Invocations
  /\ ToSet(targets) \subseteq Target /\ next \in 1 .. Len(inv.inputs) + 1
  /\ cpu_symbols_ \subseteq Source /\ written \in 0 .. Len(objects) /\ runs \in 0 .. MaxRuns
  /\ exe.objs \subseteq Object /\ exe.openmp \in BOOLEAN

(* An executable has the objects of its inputs, for the targets of the     *)
(* invocation that compiled each, whole and without marks: what was packed *)
(* comes out as it went in (link_packed_file, extract_packed_file,         *)
(* make_marked_object, extract_from_marked_object).                        *)
AllLinked == exe.state = "linked" => exe.objs = exe.wanted

(* An executable has nothing but the objects of its inputs, also when the  *)
(* driver has been killed while it wrote one over an older file            *)
(* (file_desc::create, link_packed_file, extract_packed_file).             *)
NothingForeign == exe.state = "linked" => exe.objs \subseteq exe.wanted

(* An executable with a kernel compiled for OpenMP is linked with its      *)
(* library, also when the kernel comes from an earlier invocation for      *)
(* other targets (link_exe).                                               *)
LinksOpenMP ==
  exe.state = "linked" => (exe.openmp <=> \E o \in exe.wanted : o[3] = "cpu-openmp")

(* The table that IRIS finds the CPU's kernels in has each of the          *)
(* executable's (prepare_iris).                                            *)
(* (The code does not satisfy this; README.md, "Disagreements".)           *)
TableComplete ==
  exe.state = "linked" => \A o \in exe.wanted : o[1] = "kernel" => o[2] \in exe.table

(* An invocation with inputs that exist and a compiler for each target it  *)
(* names ends in an error only if a command fails (parse_args, validate,   *)
(* process_input, set_default_targets).                                    *)
Accepts == exe.state \notin {"read", "targets"} /\ (exe.state = "tool" => inv.targets # <<>>)
=============================================================================
