-------------------------------- MODULE Unit --------------------------------
(***************************************************************************)
(* A translation unit on its way from clang's tree to C: kext visits the   *)
(* functions the kernels call and fills an XcodeML program, chsy-lower     *)
(* rewrites the program pass by pass for a target, chsy-c-back prints it.  *)
(* What is followed is the unit as a whole: which functions and types are  *)
(* declared and defined, in what order, and which of them survive.         *)
(*                                                                         *)
(* kext is a recursive visitor.  "agenda" is its call stack: the work that *)
(* is left, the innermost first; a step takes the head and puts what the   *)
(* code would call in front of the rest.  The passes follow, one a step.   *)
(*                                                                         *)
(* A type is a sequence: <<"int">>, <<"rec", A>>, or "ptr", "const",       *)
(* "arr", "ref" in front of a type.  The statements of a body are          *)
(* <<"call", f>>, <<"addr", f>>, <<"use", v>> (of a captured variable) and *)
(* <<"local", t>> (a declaration).                                         *)
(***************************************************************************)
EXTENDS Integers, Sequences, SequencesExt, FiniteSetsExt, TLC

CONSTANTS Inputs,       \* what may be compiled: sequences of sources
          CPU, GPU      \* two of the targets

VARIABLES target,       \* the target all units are compiled for
          left,         \* the units not yet begun
          src,          \* the unit that is compiled
          agenda,       \* the work left to do on it
          u,            \* the XcodeML program and kext's tables
          objs          \* the units printed so far

vars == <<target, left, src, agenda, u, objs>>

(* the functions of the runtime that have no body *)
Builtins == {"kernel", "iter", "lid", "lmem", "assume", "sqrt", "max", "barrier", "leader"}
(* what math.h, string.h, the GPU's headers and the compiler define *)
Library == {"sqrtf", "memcpy", "builtin_assume", "syncthreads"}
FiberFuncs == <<"fiber_barrier", "fiber_memory", "fiber_lid">>

Fun(f) == IF f \in Builtins THEN [static |-> FALSE, of |-> "", sig |-> <<>>, inits |-> <<>>, body |-> <<>>]
          ELSE src.funs[f]
Lambda(r) == r \in DOMAIN src.captures
Fields(r) == IF src.recs[r] = <<>> THEN << <<"char">> >> ELSE src.recs[r]
Basic(t) == Len(t) = 1

RECURSIVE HasLocal(_)
(* the layout of a record has an accessor to local memory, at any depth *)
HasLocal(r) ==
  \E i \in DOMAIN src.recs[r] :
    LET t == src.recs[r][i] IN t[1] = "rec" /\ (t[2] = "LocalAcc" \/ HasLocal(t[2]))

Decl(f, static, c) == [k |-> "decl", n |-> f, body |-> <<>>, attrs |-> {}, c |-> c]
Def(f, body, attrs) == [k |-> "def", n |-> f, body |-> body, attrs |-> attrs, c |-> FALSE]
Sym(f, class, t) == [n |-> f, class |-> class, t |-> t]
Class(static) == IF static THEN "static" ELSE "extern_def"
Called(body) == {body[i][2] : i \in {j \in DOMAIN body : body[j][1] \in {"call", "addr"}}}

(* includes and declarations of functions come first; the order is kept otherwise *)
sort_decls(ds) == SelectSeq(ds, LAMBDA d : d.k = "decl") \o SelectSeq(ds, LAMBDA d : d.k # "decl")

NewType(w, t) == [w EXCEPT !.types = Append(@, [id |-> w.n, t |-> t]), !.n = @ + 1]

-----------------------------------------------------------------------------
(* kext *)

Empty == [decls |-> <<>>, syms |-> <<>>, types |-> <<>>, tydefs |-> {}, funcs |-> {}, marked |-> {},
          caps |-> "", open |-> <<>>, n |-> 0, gensym |-> 0, quals |-> {}]

Passes == IF target = CPU
          THEN <<"loader", "wrapper", "replace", "implement", "fibers", "prune">>
          ELSE <<"wrapper", "replace", "implement", "device", "handlers", "prune">>

Todo == Head(agenda)
Then(work) == agenda' = work \o Tail(agenda)
Tasks(kind, s) == [i \in DOMAIN s |-> <<kind, s[i]>>]
Keep == UNCHANGED <<target, left, src, objs>>

Init == /\ target \in {CPU, GPU}
        /\ left \in Inputs
        /\ agenda = <<>> /\ u = Empty /\ objs = <<>> /\ src = Head(left)

(* cscc runs kext on the next source *)
Begin ==
  /\ agenda = <<>> /\ left # <<>>
  /\ src' = Head(left) /\ left' = Tail(left) /\ u' = Empty
  /\ agenda' = Tasks("kernel", left[1].kernels) \o << <<"finalize">> >> \o Tasks("pass", Passes)
                 \o << <<"print">> >>
  /\ UNCHANGED <<target, objs>>

(* a function is entered once, as soon as it is declared, before its body is visited *)
VisitCall ==
  /\ agenda # <<>> /\ Todo[1] = "call"
  /\ Then((IF Todo[2] \in u.funcs THEN <<>> ELSE << <<"fun", Todo[2]>> >>) \o << <<"emit", Todo>> >>)
  /\ Keep /\ UNCHANGED u

(* runtime::__charm_sycl_kernel(&fn) *)
MarkKernel ==
  /\ agenda # <<>> /\ Todo[1] = "mark"
  /\ u' = [u EXCEPT !.marked = @ \union {Todo[2]}]
  /\ Then(<< <<"call", "kernel">> >>) /\ Keep

(* the function_builder puts the declaration behind those that are in front *)
Declared(w, f) ==
  LET lead == SelectInSeq(w.decls \o <<Def("", <<>>, {})>>, LAMBDA d : d.k # "decl")
      t == NewType(w, <<"func">> \o Fun(f).sig)
  IN [t EXCEPT !.decls = InsertAt(@, lead, Decl(f, Fun(f).static, FALSE)),
               !.syms = Append(@, Sym(f, Class(Fun(f).static), <<"func">>)),
               !.funcs = @ \union {f}]

LocalBase(f) ==
  IF Fun(f).of \in u.marked /\ HasLocal(Fun(f).of)
  THEN << <<"call", "lmem">>, <<"place">> >> ELSE <<>>

VisitFunctionDecl_fault ==
  /\ agenda # <<>> /\ Todo[1] = "fun"
  /\ LET f == Todo[2]
         frame == [n |-> f, body |-> <<>>, placed |-> FALSE, caps |-> u.caps]
     IN /\ u' = [Declared(u, f) EXCEPT !.open = Append(@, frame),
                                       !.caps = IF Lambda(Fun(f).of) THEN Fun(f).of ELSE @]
        /\ Then(Tasks("type", Fun(f).sig)
                  \o (IF Fun(f).inits = <<>> THEN <<>> ELSE << <<"place">> >> \o Fun(f).inits)
                  \o Fun(f).body \o LocalBase(f) \o << <<"endfun">> >>)
  /\ Keep

VisitFunctionDecl ==
  /\ agenda # <<>> /\ Todo[1] = "fun"
  /\ LET f == Todo[2]
         frame == [n |-> f, body |-> <<>>, placed |-> FALSE, caps |-> u.caps]
         w == Declared(u, f)
     IN /\ u' = [w EXCEPT !.open = Append(@, frame),
                          !.caps = IF Lambda(Fun(f).of) THEN Fun(f).of ELSE @]
        /\ Then(Tasks("type", Fun(f).sig)
                  \o (IF Fun(f).inits = <<>> THEN <<>> ELSE << <<"place">> >> \o Fun(f).inits)
                  \o LocalBase(f) \o Fun(f).body \o << <<"endfun">> >>)
  /\ Keep

(* f.body(): the definition takes its place before its statements are visited *)
PlaceBody ==
  /\ agenda # <<>> /\ Todo[1] = "place"
  /\ LET top == Len(u.open)
     IN u' = IF u.open[top].placed THEN u
             ELSE [u EXCEPT !.open[top].placed = TRUE, !.decls = Append(@, Def(u.open[top].n, <<>>, {}))]
  /\ Then(<<>>) /\ Keep

(* the end of VisitFunctionDecl; define_function restores the captures *)
EndFunction ==
  /\ agenda # <<>> /\ Todo[1] = "endfun"
  /\ LET f == Last(u.open)
         defined == [i \in DOMAIN u.decls |->
                       IF u.decls[i].k = "def" /\ u.decls[i].n = f.n THEN Def(f.n, f.body, {}) ELSE u.decls[i]]
         decls == IF f.placed THEN defined
                  ELSE IF f.body = <<>> THEN u.decls ELSE Append(u.decls, Def(f.n, f.body, {}))
     IN u' = [u EXCEPT !.decls = decls, !.open = Front(@), !.caps = f.caps]
  /\ Then(<<>>) /\ Keep

(* a statement of the function that is open; a captured variable is a field of current_captures *)
Emit ==
  /\ agenda # <<>> /\ Todo[1] \in {"emit", "use", "local"}
  /\ LET top == Len(u.open)
         s == CASE Todo[1] = "emit" -> Todo[2]
                [] Todo[1] = "use" -> <<"use", Todo[2], u.caps>>
                [] Todo[1] = "local" -> Todo
     IN u' = [u EXCEPT !.open[top].body = Append(@, s)]
  /\ Then(IF Todo[1] = "local" THEN << <<"type", Todo[2]>> >> ELSE <<>>)
  /\ Keep

define_kernel_wrapper ==
  /\ agenda # <<>> /\ Todo[1] = "kernel"
  /\ LET k == Todo[2]
     IN /\ u' = [u EXCEPT !.open = Append(@, [n |-> k.n, body |-> <<>>, placed |-> FALSE, caps |-> u.caps]),
                          !.caps = k.rec]
        /\ Then(Tasks("type", << <<"ptr", "unsigned">>, <<"ptr", "rec", k.rec>>, <<"rec", k.rec>> >>)
                  \o k.body \o << <<"endkernel">> >>)
  /\ Keep

EndKernel ==
  /\ agenda # <<>> /\ Todo[1] = "endkernel"
  /\ LET k == Last(u.open)
     IN u' = [u EXCEPT !.decls = Append(@, [Def(k.n, k.body, {}) EXCEPT !.k = "kernel"]),
                       !.open = Front(@), !.caps = k.caps]
  /\ Then(<<>>) /\ Keep

(* transform_info::define_type remembers what it defined; the types inside are defined
   by impl::define_type ("raw"), which remembers records only *)
DefineType ==
  /\ agenda # <<>> /\ Todo[1] \in {"type", "raw"}
  /\ LET ref == Todo[2][1] = "ref"
         t == IF ref THEN <<"ptr">> \o Tail(Todo[2]) ELSE Todo[2]
         memo == IF Todo[1] = "type" THEN << <<"memo", t>> >> ELSE <<>>
         inner == << <<"raw", Tail(t)>>, <<"endtype", t, u.n>> >>
     IN IF t \in u.tydefs /\ (Todo[1] = "type" \/ t[1] = "rec") THEN Then(<<>>) /\ UNCHANGED u
        ELSE CASE Basic(t) -> Then(memo) /\ UNCHANGED u
               [] t[1] = "const" /\ t[2] = "ptr" -> Then(<< <<"raw", Tail(t)>> >> \o memo) /\ UNCHANGED u
               [] t[1] = "rec" ->
                    /\ Then(Tasks("type", Fields(t[2])) \o << <<"endrec", t, u.n>> >> \o memo)
                    /\ u' = [u EXCEPT !.n = @ + 1]
               [] OTHER -> Then(inner \o memo) /\ u' = [u EXCEPT !.n = @ + 1]
  /\ Keep

(* the type goes into the table; the struct_builder's destructor also enters its tag *)
EndType ==
  /\ agenda # <<>> /\ Todo[1] \in {"endtype", "endrec", "memo"}
  /\ LET t == Todo[2]
         w == IF Todo[1] = "memo" THEN u ELSE [u EXCEPT !.types = Append(@, [id |-> Todo[3], t |-> t])]
     IN u' = CASE Todo[1] = "endtype" -> w
               [] Todo[1] = "memo" -> [w EXCEPT !.tydefs = @ \union {t}]
               [] OTHER -> [w EXCEPT !.tydefs = @ \union {t}, !.syms = Append(@, Sym(t[2], "tagname", t))]
  /\ Then(<<>>) /\ Keep

Finalize ==
  /\ agenda # <<>> /\ Todo[1] = "finalize"
  /\ u' = [u EXCEPT !.gensym = u.n, !.decls = sort_decls(@)]
  /\ Then(<<>>) /\ Keep

-----------------------------------------------------------------------------
(* chsy-lower *)

add_fdecl(w, f, static, c) ==
  [w EXCEPT !.decls = Append(@, Decl(f, static, c)), !.syms = Append(@, Sym(f, Class(static), <<"func">>))]
create_function(w, f, static, c) == add_fdecl(NewType(w, <<"func">>), f, static, c)
Declares(w, f) == \E i \in DOMAIN w.decls : w.decls[i].k = "decl" /\ w.decls[i].n = f
Kernels(w) == SelectSeq(w.decls, LAMBDA d : d.k = "kernel")

(* a static constructor that registers the kernel; the registry's function is declared once *)
LoadKernel(w, k) ==
  LET name == "function_loader" \o ToString(w.n + 1)
      made == create_function(w, name, TRUE, FALSE)
      def == Def(name, << <<"call", "add_kernel_registry">>, <<"addr", k.n>> >>, {"constructor"})
      loaded == [made EXCEPT !.n = @ + 1, !.decls = Append(@, def)]
  IN IF Declares(w, "add_kernel_registry") THEN loaded
     ELSE create_function(loaded, "add_kernel_registry", FALSE, TRUE)

add_function_loader(w) == FoldLeft(LoadKernel, w, Kernels(w))

(* the wrapper becomes a function, where it stands; its declaration goes to the end *)
WrapKernel(w, k) ==
  LET made == create_function(w, k.n, target = CPU, target = GPU)
  IN [made EXCEPT !.decls = [i \in DOMAIN @ |-> IF @[i] = k THEN Def(k.n, k.body, {}) ELSE @[i]],
                  !.quals = IF target = GPU THEN @ \union {<<k.n, "global">>} ELSE @]

transform_kernel_wrapper(w) == FoldLeft(WrapKernel, w, Kernels(w))

(* calls that become other calls or, "", expressions without one *)
ReplaceMap == [f \in {"kernel", "iter", "lid", "sqrt"} \union (IF target = CPU THEN {"lmem", "assume"} ELSE {}) |->
                 CASE f = "sqrt" -> "sqrtf"
                   [] f = "lid" /\ target = CPU -> "fiber_lid"
                   [] f = "lmem" -> "fiber_memory"
                   [] f = "assume" -> "builtin_assume"
                   [] OTHER -> ""]
Replaced(s) == IF s[1] # "call" \/ s[2] \notin DOMAIN ReplaceMap THEN s ELSE <<"call", ReplaceMap[s[2]]>>

replace_builtin_function_calls(w) ==
  LET body(b) == SelectSeq([i \in DOMAIN b |-> Replaced(b[i])], LAMBDA s : s # <<"call", "">>)
  IN [w EXCEPT !.decls = [i \in DOMAIN @ |-> [@[i] EXCEPT !.body = body(@)]]]

(* a declared function of the runtime gets its body, at the end *)
Implemented(w, bodies) ==
  LET new == SelectSeq(w.decls, LAMBDA d : d.k = "decl" /\ d.n \in DOMAIN bodies)
  IN [w EXCEPT !.decls = @ \o [i \in DOMAIN new |-> Def(new[i].n, bodies[new[i].n], {})]]

implement_builtin_function_calls(w) ==
  Implemented(w, [f \in {"max"} \union (IF target = CPU THEN {"barrier", "leader"} ELSE {}) |->
                    IF f = "barrier" THEN << <<"call", "fiber_barrier">> >> ELSE <<>>])

implement_handlers(w) ==
  Implemented(w, [f \in {"barrier", "lmem", "assume", "leader"} |->
                    CASE f = "barrier" -> << <<"call", "syncthreads">> >>
                      [] f = "assume" -> << <<"call", "builtin_assume">> >>
                      [] OTHER -> <<>>])

add_fiber_funcs(w) == FoldLeft(LAMBDA v, f : create_function(v, f, FALSE, TRUE), w, FiberFuncs)

mark_as_device(w) ==
  LET fs == {w.syms[i].n : i \in {j \in DOMAIN w.syms : w.syms[j].t = <<"func">>}}
  IN [w EXCEPT !.quals = @ \union {<<f, "device">> : f \in {g \in fs : <<g, "global">> \notin @}}]

ClassOf(w, f) == w.syms[SelectLastInSeq(w.syms, LAMBDA s : s.n = f)].class
Defs(w) == {i \in DOMAIN w.decls : w.decls[i].k = "def"}

(* one round: what an unused function uses stays *)
remove_unused_functions(w) ==
  LET used == {w.decls[i].n : i \in {j \in Defs(w) : \/ ClassOf(w, w.decls[j].n) = "extern_def"
                                                     \/ "constructor" \in w.decls[j].attrs}}
                \union UNION {Called(w.decls[i].body) : i \in Defs(w)}
  IN [w EXCEPT !.decls = SelectSeq(@, LAMBDA d : d.n \in used)]

(* recursive_visitor::apply: names go on from the last pass, declarations are sorted *)
fini(w) == [w EXCEPT !.gensym = w.n, !.decls = sort_decls(@)]

Applied(p, w) == CASE p = "loader" -> add_function_loader(w)
                   [] p = "wrapper" -> transform_kernel_wrapper(w)
                   [] p = "replace" -> replace_builtin_function_calls(w)
                   [] p = "implement" -> implement_builtin_function_calls(w)
                   [] p = "handlers" -> implement_handlers(w)
                   [] p = "fibers" -> add_fiber_funcs(w)
                   [] p = "device" -> mark_as_device(w)
                   [] p = "prune" -> remove_unused_functions(w)

Lower ==
  /\ agenda # <<>> /\ Todo[1] = "pass"
  /\ u' = fini(Applied(Todo[2], [u EXCEPT !.n = u.gensym]))
  /\ Then(<<>>) /\ Keep

-----------------------------------------------------------------------------
(* chsy-c-back *)

RECURSIVE Shown(_, _)
(* print_type_definition: what a struct contains goes first; arrays are not looked into *)
Shown(st, t) ==
  IF t \in st.shown THEN st
  ELSE LET in == CASE t[1] = "rec" -> [FoldLeft(Shown, st, Fields(t[2])) EXCEPT !.out = Append(@, t[2])]
                   [] t[1] \in {"ptr", "const"} -> Shown(st, Tail(t))
                   [] OTHER -> st
       IN [in EXCEPT !.shown = @ \union {t}]

(* collect_type_visitor: the global symbols first, then the locals of the definitions *)
Collected ==
  LET locals(d) == LET ls == SelectSeq(d.body, LAMBDA s : s[1] = "local") IN [i \in DOMAIN ls |-> ls[i][2]]
  IN [i \in DOMAIN u.syms |-> u.syms[i].t] \o FlattenSeq([i \in DOMAIN u.decls |-> locals(u.decls[i])])

(* visit_function_definition and visit_function_decl; only a declaration is extern "C" *)
Line(d) == [d EXCEPT !.c = d.c /\ target = GPU, !.attrs = @ \union {q[2] : q \in {r \in u.quals : r[1] = d.n}}]

(* "static" is printed for the symbols that are static *)
Write ==
  /\ agenda # <<>> /\ Todo[1] = "print"
  /\ objs' = Append(objs, [structs |-> FoldLeft(Shown, [out |-> <<>>, shown |-> {}], Collected).out,
                           lines |-> [i \in DOMAIN u.decls |-> Line(u.decls[i])],
                           extern |-> {u.decls[i].n : i \in {j \in Defs(u) : ClassOf(u, u.decls[j].n) = "extern_def"}}])
  /\ Then(<<>>) /\ UNCHANGED <<target, left, src, u>>

Next == \/ Begin \/ VisitCall \/ MarkKernel \/ VisitFunctionDecl \/ PlaceBody \/ EndFunction \/ Emit
        \/ define_kernel_wrapper \/ EndKernel \/ DefineType \/ EndType \/ Finalize \/ Lower \/ Write

Spec == Init /\ [][Next]_vars

-----------------------------------------------------------------------------
(* Properties *)

Objs == {objs[i] : i \in DOMAIN objs}
LineDefs(o) == {i \in DOMAIN o.lines : o.lines[i].k = "def"}

TypeOK == /\ target \in {CPU, GPU}
          /\ \A i \in DOMAIN agenda : agenda[i][1] \in STRING
          /\ u.funcs \subseteq (Builtins \union DOMAIN src.funs)
          /\ u.gensym <= u.n
          /\ \A i \in DOMAIN u.decls : u.decls[i].k \in {"decl", "def", "kernel"}

(* No function is visited while it is being visited, however functions call each other: the
   recursion of kext ends (define_function looks a function up, function_builder enters it
   before the body is visited). *)
VisitedOnce == \A i, j \in DOMAIN u.open : u.open[i].n = u.open[j].n => i = j

(* No record is defined while it is being defined.  The code enters a record's type after its
   fields (define_record), so a record that points to itself sends it around for ever. *)
(* (The code does not satisfy this; README.md, "Disagreements".) *)
DefinedOnce ==
  \A i, j \in {k \in DOMAIN agenda : agenda[k][1] = "endrec"} : agenda[i][2] = agenda[j][2] => i = j

(* A captured variable is looked up in the lambda whose body names it, also behind a call that
   led into another lambda (scoped_set_captures). *)
OwnCaptures ==
  \A i \in DOMAIN u.open : \A s \in Range(u.open[i].body) :
    s[1] = "use" =>
      s[3] = (IF u.open[i].n \in DOMAIN src.funs THEN src.funs[u.open[i].n].of
              ELSE (CHOOSE k \in Range(src.kernels) : k.n = u.open[i].n).rec)

(* No two types of a program have one name, whichever pass made them: the next pass would stop
   with "duplicate type" (recursive_visitor_base::add_type). *)
DistinctTypes == \A i, j \in DOMAIN u.types : u.types[i].id = u.types[j].id => i = j

(* In the C that is printed a function is declared or defined before it is called (sort_decls
   after every pass). *)
DeclaredFirst ==
  \A o \in Objs : \A i \in LineDefs(o) : \A f \in Called(o.lines[i].body) \ Library :
    \E j \in 1..i : o.lines[j].n = f

(* the records a type contains by value *)
ByValue(ts) == {ts[i][Len(ts[i])] : i \in {j \in DOMAIN ts : "rec" \in Range(ts[j]) /\ "ptr" \notin Range(ts[j])}}

(* A struct is printed once, and what it contains, also in an array, is printed before it
   (print_type_definition, which leaves arrays out, and the order of global_symbols). *)
StructsFirst ==
  \A o \in Objs :
    /\ IsInjective(o.structs)
    /\ \A i \in DOMAIN o.structs : \A r \in ByValue(Fields(o.structs[i])) : \E j \in 1..(i - 1) : o.structs[j] = r
    /\ \A d \in LineDefs(o) : \A s \in Range(o.lines[d].body) :
         s[1] = "local" /\ "rec" \in Range(s[2]) => s[2][Len(s[2])] \in Range(o.structs)

(* Whatever a printed function calls is in the printed unit, in a library or in the runtime.
   The code drops the definition of a function whose body is empty (is_empty). *)
Linked ==
  \A o \in Objs : \A i \in LineDefs(o) :
    Called(o.lines[i].body) \ (Library \union Range(FiberFuncs) \union {"add_kernel_registry"})
      \subseteq {o.lines[j].n : j \in LineDefs(o)}

(* Each kernel outlives the passes: on the CPU with a constructor that registers its wrapper, on
   a GPU as a __global__ function of C linkage that the host can look up by its name. *)
Registered ==
  agenda = <<>> /\ objs # <<>> =>
    LET o == Last(objs)
    IN \A k \in Range(src.kernels) :
         /\ \E i \in LineDefs(o) : o.lines[i].n = k.n /\ (target = GPU => "global" \in o.lines[i].attrs)
         /\ IF target = CPU
            THEN \E i \in LineDefs(o) : "constructor" \in o.lines[i].attrs /\ <<"addr", k.n>> \in Range(o.lines[i].body)
            ELSE \E i \in DOMAIN o.lines : o.lines[i].n = k.n /\ o.lines[i].c

(* On a GPU whatever a kernel reaches is a __device__ function, and only kernels are not. *)
OnDevice ==
  target = GPU =>
    \A o \in Objs : \A i \in DOMAIN o.lines :
      o.lines[i].attrs = {IF \E k \in Range(src.kernels) : k.n = o.lines[i].n THEN "global" ELSE "device"}

(* A kernel's functor that holds an accessor to local memory sets the accessor's pointer first.
   The code emits this when it visits the operator(), and it visits it once. *)
LocalMemorySet ==
  agenda # <<>> /\ Todo[1] = "finalize" =>
    \A i \in Defs(u) : LET r == src.funs[u.decls[i].n].of
                       IN r \in u.marked /\ HasLocal(r) =>
                            u.decls[i].body # <<>> /\ u.decls[i].body[1] = <<"call", "lmem">>

(* No two objects for the CPU define one external function: they are linked into one program. *)
(* (The code does not satisfy this; README.md, "Disagreements".) *)
OneDefinition ==
  target = CPU => \A i, j \in DOMAIN objs : i # j => objs[i].extern \intersect objs[j].extern = {}

=============================================================================
