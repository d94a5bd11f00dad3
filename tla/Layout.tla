------------------------------- MODULE Layout -------------------------------
(***************************************************************************)
(* How an object of a C++ class crosses from the host to a kernel.  kext   *)
(* lists the fields of a class (kext/utils.cpp, layout), makes a C struct  *)
(* of them (define_record_fields), and for the class of a kernel writes a  *)
(* wrapper with one pointer per accessor and a description with the        *)
(* offset of each; the host binds the accessors it finds at these offsets  *)
(* (handler::do_bind) and the object is copied byte by byte.  What clang   *)
(* and the C compiler make of a class and of a struct is the ABI's.        *)
(*                                                                         *)
(* A class is [bases, fields, pod]; a field is [n, t], a type is           *)
(* <<"prim", size>>, <<"rec", class>> or <<"arr", count, type>>.  A path   *)
(* is the sequence of the fields that lead to an object.                   *)
(***************************************************************************)
EXTENDS Integers, Sequences, SequencesExt, FiniteSetsExt, TLC

CONSTANTS Programs,   \* tables of classes, each with a kernel "K"
          Order,      \* the classes, each behind those it has as bases and fields
          Runtime     \* the classes of the accessors

VARIABLES recs,      \* the classes of the program
          host,      \* where the host has their bases and fields
          flat,      \* the structs defined so far, and where C has their members
          phase,     \* how far the kernel is
          bases,     \* layout::impl::init: the classes whose fields are still to be added
          fields,    \* layout::impl::fields of the kernel's class
          desc,      \* its description: the accessors, each with its offset
          params,    \* the pointer parameters of its wrapper, by what they are assigned to
          idx,       \* how many of the description the host has looked at
          bound,     \* the pointers it has bound
          slots      \* the kernel's object on the device: which pointer is where

classes == <<recs, host, flat>>
vars == <<classes, phase, bases, fields, desc, params, idx, bound, slots>>

GARBAGE == "garbage"
RoundUp(n, align) == ((n + align - 1) \div align) * align

Place(lay, child) ==
  LET off == RoundUp(lay.end, child.align)
  IN IF child.empty THEN [lay EXCEPT !.at = Append(@, 0)]
     ELSE [end |-> off + child.size, align |-> Max({lay.align, child.align}), at |-> Append(lay.at, off)]

(* Where the parts of an object are put, one behind the other. *)
Lay(children) == FoldLeft(Place, [end |-> 0, align |-> 1, at |-> <<>>], children)

Part(size, align) == [size |-> size, align |-> align, empty |-> FALSE]

RECURSIVE PartOf(_, _)
(* The room a member of type t takes when the classes are laid out as in table. *)
PartOf(table, t) ==
  CASE t[1] = "prim" -> Part(t[2], t[2])
    [] t[1] = "rec"  -> Part(table[t[2]].size, table[t[2]].align)
    [] t[1] = "arr"  -> LET p == PartOf(table, t[3]) IN Part(t[2] * p.size, p.align)

Bases(r) == recs[r].bases
Fields(r) == recs[r].fields
Sized(lay) == [lay |-> lay, size |-> RoundUp(Max({1, lay.end}), lay.align), align |-> lay.align]

(* The C++ ABI: bases first, without their tail padding unless they are plain data; an
   empty base takes no room.  No class has two bases, or a base and a field, of one empty type. *)
HostLay(table, of, r) ==
  LET AsBase(b) == [size |-> IF of[b].pod THEN table[b].size ELSE table[b].lay.end, align |-> table[b].align,
                    empty |-> table[b].lay.end = 0]
  IN Sized(Lay([i \in DOMAIN of[r].bases |-> AsBase(of[r].bases[i])]
                 \o [i \in DOMAIN of[r].fields |-> PartOf(table, of[r].fields[i].t)]))

(* A class is complete before it is a base or a field. *)
HostTable(of) == FoldLeft(LAMBDA table, r : (r :> HostLay(table, of, r)) @@ table, <<>>, Order)

(* ASTRecordLayout::getFieldOffset: from the start of the class that declares the field. *)
getFieldOffset(r, i) == host[r].lay.at[Len(Bases(r)) + i]

-----------------------------------------------------------------------------
(* kext *)

RECURSIVE Kind(_)
(* The outermost base in the chain of first bases decides. *)
Kind(r) ==
  LET own == CASE r = "accessor" -> "NORMAL" [] r = "device_accessor" -> "DEVICE"
               [] r = "local_accessor" -> "LOCAL" [] OTHER -> "NONE"
      up == IF Bases(r) = <<>> THEN "NONE" ELSE Kind(Bases(r)[1])
  IN IF up # "NONE" THEN up ELSE own

is_accessor(t) == IF t[1] = "rec" THEN Kind(t[2]) ELSE "NONE"

RECURSIVE collect_bases(_)
collect_bases(r) == FlattenSeq([i \in DOMAIN Bases(r) |-> collect_bases(Bases(r)[i])]) \o <<r>>

field_offset(base_off, r, i) == base_off + getFieldOffset(r, i)

RECURSIVE add_field(_, _, _, _, _)
(* A field and, if asked for, the fields of its class: add_record does not look at bases. *)
add_field(r, i, base_off, path, recursive) ==
  LET f == Fields(r)[i]
      off == field_offset(base_off, r, i)
      here == Append(path, f.n)
      inner == f.t[2]
  IN <<[path |-> here, t |-> f.t, off |-> off]>>
       \o (IF recursive /\ f.t[1] = "rec"
           THEN FlattenSeq([j \in DOMAIN Fields(inner) |-> add_field(inner, j, off, here, recursive)])
           ELSE <<>>)

AddFields(r, recursive) == FlattenSeq([i \in DOMAIN Fields(r) |-> add_field(r, i, 0, <<>>, recursive)])

stable_sort(s) ==
  LET order == SortSeq([i \in DOMAIN s |-> i],
                       LAMBDA i, j : s[i].off < s[j].off \/ (s[i].off = s[j].off /\ i < j))
  IN [i \in DOMAIN s |-> s[order[i]]]

layout(r) == stable_sort(FlattenSeq([i \in DOMAIN collect_bases(r) |-> AddFields(collect_bases(r)[i], FALSE)]))

own_fields_fault(r) == IF Fields(r) = <<>> THEN <<[n |-> "__s_dummy", t |-> <<"prim", 1>>]>> ELSE Fields(r)

(* The members of the struct a class becomes, those of its bases among them. *)
record_fields(r) ==
  LET l == layout(r)
  IN IF l = <<>> THEN <<[n |-> "__s_dummy", t |-> <<"prim", 1>>]>>
     ELSE [i \in DOMAIN l |-> [n |-> l[i].path[1], t |-> l[i].t]]

(* The rules of C for a struct; one without members has no size in GNU C. *)
StructLay(members) ==
  LET lay == Lay([i \in DOMAIN members |-> PartOf(flat, members[i].t)])
  IN [Sized(lay) EXCEPT !.size = RoundUp(lay.end, lay.align)] @@ [members |-> members]

(* x->n in C: the place of a member in the struct of r, -1 if it has none. *)
Index(r, n) == SelectInSeq(flat[r].members, LAMBDA f : f.n = n)
Member(r, n) == IF Index(r, n) = 0 THEN -1 ELSE flat[r].lay.at[Index(r, n)]

RECURSIVE MemberAt(_, _)
(* a chain of members, each in the struct of the one before *)
MemberAt(r, path) ==
  IF Len(path) = 1 \/ Index(r, path[1]) = 0 THEN Member(r, path[1])
  ELSE Member(r, path[1]) + MemberAt(flat[r].members[Index(r, path[1])].t[2], Tail(path))

Init ==
  /\ \E p \in Programs : recs = p @@ Runtime
  /\ host = HostTable(recs) /\ flat = <<>>
  /\ phase = "define" /\ bases = collect_bases("K") /\ fields = <<>>
  /\ desc = <<>> /\ params = <<>> /\ idx = 0 /\ bound = <<>> /\ slots = <<>>

(* define_record: the types of the members come first. *)
define_record ==
  /\ phase = "define"
  /\ IF \E i \in DOMAIN Order : Order[i] \notin DOMAIN flat
     THEN /\ LET r == Order[SelectInSeq(Order, LAMBDA c : c \notin DOMAIN flat)]
             IN flat' = (r :> StructLay(record_fields(r))) @@ flat
          /\ UNCHANGED phase
     ELSE phase' = "layout" /\ UNCHANGED flat
  /\ UNCHANGED <<recs, host, bases, fields, desc, params, idx, bound, slots>>

(* layout::impl::init for the kernel's class, a class at a time *)
InitLayout ==
  /\ phase = "layout"
  /\ IF bases # <<>>
     THEN /\ bases' = Tail(bases) /\ fields' = fields \o AddFields(bases[1], TRUE)
          /\ UNCHANGED phase
     ELSE fields' = stable_sort(fields) /\ phase' = "wrap" /\ UNCHANGED bases
  /\ UNCHANGED <<classes, desc, params, idx, bound, slots>>

wrapper_params(l) == SelectSeq(l, LAMBDA f : is_accessor(f.t) = "DEVICE")

define_kernel_wrapper ==
  /\ phase = "wrap"
  /\ params' = [i \in DOMAIN wrapper_params(fields) |-> wrapper_params(fields)[i].path]
  /\ desc' = LET accs == SelectSeq(fields, LAMBDA f : is_accessor(f.t) \in {"DEVICE", "LOCAL"})
             IN [i \in DOMAIN accs |-> [kind |-> is_accessor(accs[i].t), off |-> accs[i].off]]
  /\ phase' = "bind"
  /\ UNCHANGED <<classes, bases, fields, idx, bound, slots>>

-----------------------------------------------------------------------------
(* The host *)

RECURSIVE Parts(_)
(* The objects inside one of class r that are no class, or an accessor: how the kernel's
   source names them, where the host has them, where the kernel's code looks for them
   (a base is a cast of the pointer) and where the flat struct has them. *)
Parts(r) ==
  LET InBase(i) == {[p EXCEPT !.off = @ + host[r].lay.at[i], !.flat = MemberAt(r, p.path)] : p \in Parts(Bases(r)[i])}
      Own(i) ==
        LET f == Fields(r)[i]
            off == getFieldOffset(r, i)
            c == Member(r, f.n)
        IN IF f.t[1] = "rec" /\ is_accessor(f.t) = "NONE"
           THEN {[path |-> <<f.n>> \o p.path, kind |-> p.kind, off |-> off + p.off, at |-> c + p.at,
                  flat |-> c + p.flat] : p \in Parts(f.t[2])}
           ELSE {[path |-> <<f.n>>, kind |-> is_accessor(f.t), off |-> off, at |-> c, flat |-> c]}
  IN UNION ({InBase(i) : i \in DOMAIN Bases(r)} \union {Own(i) : i \in DOMAIN Fields(r)})

Accessors == {p \in Parts("K") : p.kind # "NONE"}

(* do_bind_accessors: the accessor at the offset; a local one has no pointer *)
bind ==
  /\ phase = "bind" /\ idx < Len(desc)
  /\ LET d == desc[idx + 1]
         there == {p \in Accessors : p.off = d.off /\ p.kind = d.kind}
         what == IF there = {} THEN <<GARBAGE>> ELSE (CHOOSE p \in there : TRUE).path
     IN bound' = IF d.kind = "DEVICE" THEN Append(bound, what) ELSE bound
  /\ idx' = idx + 1
  /\ UNCHANGED <<classes, phase, bases, fields, desc, params, slots>>

(* The wrapper puts its parameters where the paths lead. *)
Launch ==
  /\ phase = "bind" /\ idx = Len(desc)
  /\ slots' = FoldLeft(LAMBDA s, i : (MemberAt("K", params[i]) :> (IF i \in DOMAIN bound THEN bound[i] ELSE <<GARBAGE>>)) @@ s,
                       <<>>, [i \in DOMAIN params |-> i])
  /\ phase' = "run"
  /\ UNCHANGED <<classes, bases, fields, desc, params, idx, bound>>

Next == define_record \/ InitLayout \/ define_kernel_wrapper \/ bind \/ Launch

Spec == Init /\ [][Next]_vars

-----------------------------------------------------------------------------
(* The variables have their types; offsets are within the object. *)
TypeOK ==
  /\ phase \in {"define", "layout", "wrap", "bind", "run"}
  /\ \A i \in DOMAIN fields : fields[i].off \in 0..(host["K"].size - 1)
  /\ \A i \in DOMAIN desc : desc[i].kind \in {"DEVICE", "LOCAL"} /\ desc[i].off \in 0..(host["K"].size - 1)
  /\ "K" \in DOMAIN flat => DOMAIN slots \subseteq 0..(flat["K"].size - 1)
  /\ Len(bound) <= idx /\ idx <= Len(desc)

(* What the program wrote on the host is what the kernel reads: each part of an object is
   where the kernel's code, and the struct with the fields of the bases, have it. *)
SameBytes ==
  \A r \in DOMAIN flat : \A p \in Parts(r) : p.at = p.off /\ p.flat = p.off

(* The elements of a buffer are as far apart on the device as on the host. *)
SameSize == \A r \in DOMAIN flat : flat[r].size = host[r].size

(* The description names every accessor of the kernel once, with its kind, where it is. *)
AccessorsFound ==
  phase \in {"bind", "run"} =>
    /\ Len(desc) = Cardinality(Accessors)
    /\ Range(desc) = {[kind |-> p.kind, off |-> p.off] : p \in Accessors}

(* A kernel that runs finds in each of its accessors the pointer bound for that accessor. *)
Delivered ==
  phase = "run" => \A p \in Accessors : p.kind = "DEVICE" => p.at \in DOMAIN slots /\ slots[p.at] = p.path
=============================================================================
