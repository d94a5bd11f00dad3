------------------------------ MODULE Extract ------------------------------
(***************************************************************************)
(* The extraction of kernels (src/src/kext): the statements of a kernel,   *)
(* a tree of clang, become statements of a flat C-like language (XcodeML). *)
(* Every operator's result goes to a new temporary, every assignment to a  *)
(* statement of its own; a variable is not copied, it is read where the    *)
(* result is used.  A loop's condition is computed before the loop, at the *)
(* end of its body and before every "continue" of a for.                   *)
(*                                                                         *)
(* The module runs a kernel and its extraction side by side.  Source trees *)
(* have nodes "var", "rd" (clang's lvalue-to-rvalue conversion), "idx"     *)
(* (a[e], an lvalue) and "callr" (a function with a reference parameter);  *)
(* extracted ones "ref" (var_ref), "deref", "addr" and "callp".  r is a    *)
(* variable of reference type: in the extraction it holds an address.      *)
(***************************************************************************)
EXTENDS Integers, Sequences, SequencesExt

CONSTANTS Programs,     \* the kernels: sequences of source statements
          Inputs,       \* the values of <<x, y, a[0], a[1]>> to start with
          MaxTemp,      \* temporaries a kernel may need
          Width         \* integers are taken modulo Width

ExtractAssumption == MaxTemp \in Nat /\ Width \in Nat /\ Width > 40 + MaxTemp

VARIABLES code,     \* a kernel and its extraction
          src,      \* the kernel as it runs: place and memory
          out       \* its extraction as it runs

vars == <<code, src, out>>

(* addresses: x, y and r, the two elements of a, and the temporaries *)
AddrOf == [v \in {"x", "y", "r"} |-> CASE v = "x" -> 0 [] v = "y" -> 1 [] v = "r" -> 2]
Base == 10
User == {0, 1, Base, Base + 1}
Cells == User \union {2} \union 20..(20 + MaxTemp)

Lit(v) == [k |-> "lit", v |-> v]
Tmp(n) == [k |-> "ref", a |-> 20 + n]
Ref(x) == [k |-> "ref", a |-> AddrOf[x]]
Deref(e) == [k |-> "deref", e |-> e]
Nop == Lit(0)

-----------------------------------------------------------------------------
(* Running: the same for both languages, with C++'s order of evaluation *)

Put(s, a, v) == IF a \in Cells THEN [s EXCEPT !.m[a] = v % Width] ELSE [s EXCEPT !.ok = FALSE]
Get(s, a) == IF a \in Cells THEN s.m[a] ELSE 0
Touched(s, a) == IF a \in Cells THEN s ELSE [s EXCEPT !.ok = FALSE]
Truth(b) == IF b THEN 1 ELSE 0
Apply(op, u, w) == CASE op = "+" -> (u + w) % Width
                     [] op = "<" -> Truth(u < w)
                     [] op = "&&" -> Truth(u # 0 /\ w # 0)
                     [] op = "||" -> Truth(u # 0 \/ w # 0)

RECURSIVE Eval(_, _), Loc(_, _)
(* of a part of an expression *)
Value(e, s) == Eval(e, s)
Place(e, s) == Loc(e, s)

(* the value of e and the state after it *)
Eval(e, s) ==
  CASE e.k = "lit" -> [v |-> e.v, s |-> s]
    [] e.k = "arr" -> [v |-> Base, s |-> s]
    [] e.k = "bin" ->
         LET l == Value(e.l, s)
             r == Value(e.r, l.s)
         IN IF (e.op = "&&" /\ l.v = 0) \/ (e.op = "||" /\ l.v # 0)
            THEN [v |-> Truth(l.v # 0), s |-> l.s]
            ELSE [v |-> Apply(e.op, l.v, r.v), s |-> r.s]
    [] e.k = "cond" -> LET c == Value(e.c, s) IN Value(IF c.v # 0 THEN e.t ELSE e.f, c.s)
    [] e.k = "comma" -> Value(e.r, Value(e.l, s).s)
    [] e.k = "cast" -> LET v == Value(e.e, s) IN [v |-> Truth(v.v # 0), s |-> v.s]
    [] e.k = "rd" -> Value(e.e, s)
    [] e.k = "addr" -> Place(e.e, s)
    [] e.k = "un" /\ e.op = "post" ->
         LET l == Place(e.e, s)
         IN [v |-> Get(l.s, l.v), s |-> Put(l.s, l.v, Get(l.s, l.v) + 1)]
    [] e.k \in {"callr", "callp"} ->
         LET l == IF e.k = "callr" THEN Place(e.e, s) ELSE Value(e.e, s)
             d == Value(e.d, l.s)
             w == (Get(d.s, l.v) + d.v) % Width
         IN [v |-> w, s |-> Put(d.s, l.v, w)]
    [] OTHER -> LET l == Place(e, s) IN [v |-> Get(l.s, l.v), s |-> Touched(l.s, l.v)]

(* the address an lvalue stands for and the state after it *)
Loc(e, s) ==
  CASE e.k = "var" -> [v |-> IF e.x = "r" THEN Get(s, AddrOf["r"]) ELSE AddrOf[e.x], s |-> s]
    [] e.k = "ref" -> [v |-> e.a, s |-> s]
    [] e.k = "deref" -> Value(e.e, s)
    [] e.k = "idx" -> LET i == Value(e.e, s) IN [v |-> Base + i.v, s |-> i.s]
    [] e.k = "asg" ->
         LET r == Value(e.r, s)
             l == Place(e.l, r.s)
         IN [v |-> l.v, s |-> Put(l.s, l.v, IF e.op = "=" THEN r.v ELSE Get(l.s, l.v) + r.v)]
    [] e.k = "un" /\ e.op = "pre" ->
         LET l == Place(e.e, s) IN [v |-> l.v, s |-> Put(l.s, l.v, Get(l.s, l.v) + 1)]

(* Statements become instructions with jumps.  Cases of a switch are labels. *)
RECURSIVE Size(_), SizeOf(_), Code(_, _, _, _), CodeOf(_, _, _, _)

Inner(b) == Size(b)
Size(b) == IF b = <<>> THEN 0 ELSE SizeOf(Head(b)) + Inner(Tail(b))

SizeOf(h) == CASE h.k = "if" -> 2 + Inner(h.t) + Inner(h.f)
               [] h.k = "while" -> 2 + Inner(h.b)
               [] h.k = "for" -> 3 + Inner(h.b)
               [] h.k = "switch" -> 1 + Inner(h.b)
               [] h.k \in {"case", "default"} -> 0
               [] OTHER -> 1

Goto(to) == [k |-> "jump", to |-> to]
Unless(c, to) == [k |-> "unless", c |-> c, to |-> to]

(* where a switch at "at" goes on for each of its labels *)
Labels(b, at) ==
  {[v |-> IF b[i].k = "case" THEN b[i].v ELSE Width, to |-> at + 1 + Size(SubSeq(b, 1, i - 1))] :
     i \in {j \in DOMAIN b : b[j].k \in {"case", "default"}}}

Block(b, at, brk, cnt) == Code(b, at, brk, cnt)

CodeOf(h, at, brk, cnt) ==
  LET end == at + SizeOf(h)
  IN CASE h.k = "if" ->
            LET f == at + 2 + Size(h.t)
            IN <<Unless(h.c, f)>> \o Block(h.t, at + 1, brk, cnt) \o <<Goto(end)>> \o Block(h.f, f, brk, cnt)
       [] h.k = "while" -> <<Unless(h.c, end)>> \o Block(h.b, at + 1, end, at) \o <<Goto(at)>>
       [] h.k = "for" ->
            <<Unless(h.c, end)>> \o Block(h.b, at + 1, end, end - 2)
              \o <<[k |-> "expr", e |-> h.i], Goto(at)>>
       [] h.k = "switch" -> <<[k |-> "switch", c |-> h.c, labels |-> Labels(h.b, at), to |-> end]>>
                              \o Block(h.b, at + 1, end, cnt)
       [] h.k = "break" -> <<Goto(brk)>>
       [] h.k = "continue" -> <<Goto(cnt)>>
       [] h.k \in {"case", "default"} -> <<>>
       [] OTHER -> <<h>>

Code(b, at, brk, cnt) ==
  IF b = <<>> THEN <<>>
  ELSE CodeOf(Head(b), at, brk, cnt) \o Block(Tail(b), at + SizeOf(Head(b)), brk, cnt)

Target(h, v) ==
  LET of(w) == {l \in h.labels : l.v = w}
      found == IF of(v) # {} THEN of(v) ELSE of(Width)
  IN IF found = {} THEN h.to ELSE (CHOOSE l \in found : TRUE).to

(* one instruction of the code *)
Step(prog, c) ==
  LET h == prog[c.pc]
      At(pc, s) == [pc |-> pc, s |-> s]
      On(e) == Eval(e, c.s)
  IN CASE h.k = "expr" -> At(c.pc + 1, On(h.e).s)
       [] h.k = "decl" -> LET v == On(h.e) IN At(c.pc + 1, Put(v.s, AddrOf[h.x], v.v))
       [] h.k = "bind" -> LET l == Loc(h.e, c.s) IN At(c.pc + 1, Put(l.s, AddrOf[h.x], l.v))
       [] h.k = "jump" -> At(h.to, c.s)
       [] h.k = "unless" -> LET v == On(h.c) IN At(IF v.v # 0 THEN c.pc + 1 ELSE h.to, v.s)
       [] h.k = "switch" -> LET v == On(h.c) IN At(Target(h, v.v), v.s)

-----------------------------------------------------------------------------
(* Extraction.  A result has the statements s that were pushed, the node v *)
(* that stands for the value and the number n of temporaries so far.       *)

Expr(e) == [k |-> "expr", e |-> e]
Assign(l, r) == Expr([k |-> "asg", op |-> "=", l |-> l, r |-> r])

(* real_type is a reference type: the node's value is an address *)
RECURSIVE PointsToRef(_)
PointsToRef(e) == CASE e.k = "var" -> e.x = "r"
                    [] e.k = "idx" -> TRUE
                    [] e.k = "rd" -> PointsToRef(e.e)
                    [] OTHER -> FALSE

(* expr_type is one: conversions to a value have a type of their own *)
IsRefType(e) == e.k \in {"var", "idx"} /\ PointsToRef(e)

Result(s, v, n) == [s |-> s, v |-> v, n |-> n]
Add(s, node, n) == Result(Append(s, Assign(Tmp(n), node)), Tmp(n), n + 1)

(* An operand, and whether its node is an address to be followed. *)
As(e) == [e |-> e, deref |-> FALSE]
Val(e) == [e |-> e, deref |-> IsRefType(e)]
Read(e) == [e |-> e, deref |-> PointsToRef(e)]

RECURSIVE Visit(_, _)

(* Operands are visited one after the other; v is the sequence of their nodes. *)
Node(o, x) == IF o.deref THEN Deref(x.v) ELSE x.v
Then(a, o, x) == Result(a.s \o x.s, Append(a.v, Node(o, x)), x.n)
Operands(os, n) ==
  FoldLeft(LAMBDA a, o : Then(a, o, Visit(o.e, a.n)), Result(<<>>, <<>>, n), os)

AsgLhs_fault(e) == As(e)
AsgLhs(e) == Val(e)

VisitBin(e, o) == Add(o.s, [e EXCEPT !.l = o.v[1], !.r = o.v[2]], o.n)

VisitAsg(e, o) ==
  Result(Append(o.s, Expr([e EXCEPT !.l = o.v[1], !.r = o.v[2]])), o.v[1], o.n)

VisitUnary(e, o) == Add(o.s, [e EXCEPT !.e = o.v[1]], o.n)

VisitCond(e, o) == Result(o.s, [e EXCEPT !.c = o.v[1], !.t = o.v[2], !.f = o.v[3]], o.n)

VisitComma(o) == Result(o.s, o.v[2], o.n)

VisitIdx(o) == Add(o.s, [k |-> "bin", op |-> "+", l |-> [k |-> "arr"], r |-> o.v[1]], o.n)

VisitRd(o) == Result(o.s, o.v[1], o.n)

VisitCall(e, o) ==
  LET p == IF PointsToRef(e.e) THEN o.v[1] ELSE [k |-> "addr", e |-> o.v[1]]
  IN Add(o.s, [k |-> "callp", e |-> p, d |-> o.v[2]], o.n)

Visit(e, n) ==
  LET On(os) == Operands(os, n)
  IN CASE e.k = "lit" -> Result(<<>>, e, n)
       [] e.k = "var" -> Result(<<>>, Ref(e.x), n)
       [] e.k = "rd" -> VisitRd(On(<<Read(e.e)>>))
       [] e.k = "bin" -> VisitBin(e, On(<<Val(e.l), Val(e.r)>>))
       [] e.k = "asg" -> VisitAsg(e, On(<<AsgLhs(e.l), Val(e.r)>>))
       [] e.k \in {"un", "cast"} -> VisitUnary(e, On(<<Val(e.e)>>))
       [] e.k = "cond" -> VisitCond(e, On(<<Val(e.c), Val(e.t), Val(e.f)>>))
       [] e.k = "comma" -> VisitComma(On(<<As(e.l), Val(e.r)>>))
       [] e.k = "idx" -> VisitIdx(On(<<Val(e.e)>>))
       [] e.k = "callr" -> VisitCall(e, On(<<As(e.e), Val(e.d)>>))

(* A loop's condition, computed again into the node "cond" that holds it. *)
LoopCond(h) == IF h.k = "for" THEN As(h.c) ELSE Val(h.c)
Again(cond, o) == Result(Append(o.s, Assign(cond, Last(o.v))), Nop, o.n)

ContinueFirst_fault(loop, n) ==
  IF loop.k = "for" THEN Again(loop.cond, Operands(<<As(loop.c)>>, n)) ELSE Result(<<>>, Nop, n)

(* VisitContinueStmt: what a continue of the nearest loop does first.  *)
(* cond is the node that add_for_condition has kept.                   *)
ContinueFirst(loop, n) ==
  IF loop.k = "for" THEN Again(loop.cond, Operands(<<As(loop.i), As(loop.c)>>, n))
                    ELSE Result(<<>>, Nop, n)

(* what VisitForStmt and VisitWhileStmt add to the end of the body *)
LoopEnd(h, cond, n) ==
  Again(cond, Operands((IF h.k = "for" THEN <<As(h.i)>> ELSE <<>>) \o <<LoopCond(h)>>, n))

RECURSIVE VisitStmts(_, _, _)
(* of the body of a statement *)
VisitBody(b, n, loop) == VisitStmts(b, n, loop)

VisitLoop(h, n) ==
  LET c == Operands(<<LoopCond(h)>>, n)
      b == VisitBody(h.b, c.n, [k |-> h.k, i |-> IF h.k = "for" THEN h.i ELSE Nop,
                                c |-> h.c, cond |-> c.v[1]])
      e == LoopEnd(h, c.v[1], b.n)
  IN Result(Append(c.s, [k |-> h.k, c |-> c.v[1], i |-> Nop, b |-> b.s \o e.s]), Nop, e.n)

VisitIf(h, n, loop) ==
  LET c == Visit(h.c, n)
      t == VisitBody(h.t, c.n, loop)
      f == VisitBody(h.f, t.n, loop)
  IN Result(Append(c.s, [k |-> "if", c |-> c.v, t |-> t.s, f |-> f.s]), Nop, f.n)

VisitSwitch(h, n, loop) ==
  LET c == Operands(<<Val(h.c)>>, n)
      b == VisitBody(h.b, c.n, loop)
  IN Result(Append(c.s, [k |-> "switch", c |-> c.v[1], b |-> b.s]), Nop, b.n)

VisitDecl(h, n) ==
  LET x == Visit(h.e, n)
      v == IF h.k = "bind" /\ ~IsRefType(h.e) THEN [k |-> "addr", e |-> x.v] ELSE x.v
  IN Result(Append(x.s, Assign(Ref(h.x), v)), Nop, x.n)

VisitStmt(h, n, loop) ==
  CASE h.k = "expr" -> Visit(h.e, n)
    [] h.k \in {"decl", "bind"} -> VisitDecl(h, n)
    [] h.k = "if" -> VisitIf(h, n, loop)
    [] h.k \in {"while", "for"} -> VisitLoop(h, n)
    [] h.k = "switch" -> VisitSwitch(h, n, loop)
    [] h.k = "continue" -> LET p == ContinueFirst(loop, n) IN [p EXCEPT !.s = Append(@, h)]
    [] OTHER -> Result(<<h>>, Nop, n)

VisitStmts(b, n, loop) ==
  FoldLeft(LAMBDA a, h : Then(a, As(h), VisitStmt(h, a.n, loop)), Result(<<>>, <<>>, n), b)

Extraction(p) == VisitStmts(p, 0, [k |-> "none"]).s

-----------------------------------------------------------------------------
Memory(in) ==
  [m |-> [c \in Cells |-> CASE c = 0 -> in[1] [] c = 1 -> in[2] [] c = Base -> in[3]
                            [] c = Base + 1 -> in[4] [] OTHER -> 0], ok |-> TRUE]

Init == \E p \in Programs, in \in Inputs :
          /\ code = [src |-> Code(p, 1, 0, 0), out |-> Code(Extraction(p), 1, 0, 0)]
          /\ src = [pc |-> 1, s |-> Memory(in)]
          /\ out = [pc |-> 1, s |-> Memory(in)]

Ended(c, x) == x.pc > Len(c)
Busy(c, x) == ~Ended(c, x) /\ x.s.ok

RunSource == Busy(code.src, src) /\ src' = Step(code.src, src) /\ UNCHANGED <<code, out>>

RunExtracted == /\ ~Busy(code.src, src)
                /\ Busy(code.out, out)
                /\ out' = Step(code.out, out)
                /\ UNCHANGED <<code, src>>

Done == ~Busy(code.src, src) /\ ~Busy(code.out, out)

Next == RunSource \/ RunExtracted \/ (Done /\ UNCHANGED vars)

Spec == Init /\ [][Next]_vars /\ WF_vars(RunSource) /\ WF_vars(RunExtracted)

-----------------------------------------------------------------------------
(* The extraction leaves in the kernel's variables what the kernel leaves *)
(* there, and it touches no memory beyond an array if the kernel does not *)
(* (a kernel that does may do anything).                                  *)
Same ==
  Done /\ src.s.ok => /\ out.s.ok
                      /\ \A c \in User : out.s.m[c] = src.s.m[c]
=============================================================================
