----------------------------- MODULE MCExtract -----------------------------
(* Kernels of the shapes that the extraction treats differently, as inputs of Extract. *)
EXTENDS Integers, Sequences

Lit(v) == [k |-> "lit", v |-> v]

Var(x) == [k |-> "var", x |-> x]
Rd(e) == [k |-> "rd", e |-> e]
Idx(e) == [k |-> "idx", e |-> e]
Bin(op, l, r) == [k |-> "bin", op |-> op, l |-> l, r |-> r]
Asg(op, l, r) == [k |-> "asg", op |-> op, l |-> l, r |-> r]
Un(op, e) == [k |-> "un", op |-> op, e |-> e]
Cond(c, t, f) == [k |-> "cond", c |-> c, t |-> t, f |-> f]
Comma(l, r) == [k |-> "comma", l |-> l, r |-> r]
Bump(e, d) == [k |-> "callr", e |-> e, d |-> d]
Bool(e) == [k |-> "cast", e |-> e]

Decl(x, e) == [k |-> "decl", x |-> x, e |-> e]
Bind(e) == [k |-> "bind", x |-> "r", e |-> e]
If(c, t, f) == [k |-> "if", c |-> c, t |-> t, f |-> f]
While(c, b) == [k |-> "while", c |-> c, b |-> b]
For(c, i, b) == [k |-> "for", c |-> c, i |-> i, b |-> b]
Switch(c, b) == [k |-> "switch", c |-> c, b |-> b]
Case(v) == [k |-> "case", v |-> v]
Default == [k |-> "default"]
Break == [k |-> "break"]
Continue == [k |-> "continue"]

X == Rd(Var("x"))
Y == Rd(Var("y"))
R == Rd(Var("r"))
AX == Rd(Idx(X))

-----------------------------------------------------------------------------
(* What the extraction asks of a kernel.  C++ decides at run time whether   *)
(* the right operand of && and the branches of ?: are evaluated; the        *)
(* extraction always evaluates their calls, assignments and operators.      *)

RECURSIVE Writes(_), Reads(_), Indexes(_), Fits(_)

Names(e) == CASE e.k = "var" -> IF e.x = "r" THEN {"x", "y", "a"} ELSE {e.x}
              [] e.k = "idx" -> {"a"}
              [] e.k \in {"asg", "un"} -> Writes(e)
              [] OTHER -> {}

Kids(e) == CASE e.k \in {"bin", "asg", "comma"} -> {e.l, e.r}
             [] e.k = "cond" -> {e.c, e.t, e.f}
             [] e.k \in {"un", "cast", "rd", "idx"} -> {e.e}
             [] e.k = "callr" -> {e.e, e.d}
             [] OTHER -> {}

Writes(e) ==
  UNION {Writes(d) : d \in Kids(e)}
    \union (CASE e.k = "asg" -> Names(e.l) [] e.k \in {"un", "callr"} -> Names(e.e) [] OTHER -> {})

Reads(e) == UNION {Reads(d) : d \in Kids(e)} \union (IF e.k = "rd" THEN Names(e.e) ELSE {})
Indexes(e) == e.k = "idx" \/ \E d \in Kids(e) : Indexes(d)

Quiet(e) == Writes(e) = {} /\ ~Indexes(e)
Lazy(e) == Quiet(e) \/ (e.k = "rd" /\ e.e.k = "idx" /\ Quiet(e.e.e))
Apart(l, r) == Writes(l) \intersect (Reads(r) \union Writes(r)) = {}
Lasting(e) == e.k \in {"var", "idx", "asg"}

Fits(e) ==
  /\ \A d \in Kids(e) : Fits(d)
  /\ e.k = "bin" => IF e.op \in {"&&", "||"} THEN Quiet(e.r) ELSE Apart(e.l, e.r) /\ Apart(e.r, e.l)
  /\ e.k = "asg" => Lasting(e.l) /\ Apart(e.l, e.r) /\ Writes(e.r) \intersect Reads(e.l) = {}
  /\ e.k = "cond" => Lazy(e.t) /\ Lazy(e.f)
  /\ e.k \in {"un", "callr"} /\ e.k # "cast" => Lasting(e.e)
  /\ e.k = "callr" => Apart(e.e, e.d) /\ Apart(e.d, e.e)
                      /\ (Names(e.e) \intersect Writes(e.d) = {})


LValues == <<Var("x"), Var("r"), Idx(X)>>
Plain == <<X, R, AX, Lit(1)>>
Effects ==
  <<Asg("=", Var("x"), Lit(1)), Asg("+", Var("r"), X), Asg("=", Var("r"), AX), Asg("=", Idx(X), Lit(2)),
    Asg("+", Idx(X), R), Un("pre", Var("x")), Un("pre", Idx(X)), Un("post", Var("r")),
    Un("post", Idx(X)), Bump(Var("x"), Lit(1)), Bump(Var("r"), AX), Bump(Idx(X), R)>>
Value(e) == IF e.k = "asg" \/ (e.k = "un" /\ e.op = "pre") THEN Rd(e) ELSE e
Mixed == Plain \o [i \in DOMAIN Effects |-> Value(Effects[i])]
Ops == <<"+", "<", "&&", "||">>
M == DOMAIN Mixed

Nested(i) ==
  CASE i[1] = "bin" -> Bin(Ops[i[2]], Mixed[i[3]], Mixed[i[4]])
    [] i[1] = "cond" -> Cond(Mixed[i[2]], Plain[i[3]], Plain[i[4]])
    [] i[1] = "comma" -> Comma(Effects[i[2]], Plain[i[3]])
    [] i[1] = "asg" -> Rd(Asg(<<"=", "+">>[i[2]], LValues[i[3]], Mixed[i[4]]))
    [] i[1] = "lval" -> Rd(Asg("+", Effects[i[2]], Lit(1)))

Shapes ==
  ({"bin"} \X (1..4) \X M \X M) \union ({"cond"} \X M \X (1..4) \X (2..3))
    \union ({"comma"} \X (DOMAIN Effects) \X (1..4)) \union ({"asg"} \X (1..2) \X (1..3) \X M)
    \union ({"lval"} \X (DOMAIN Effects))

Expressions ==
  {<<Bind(r), Decl("y", e)>> : r \in {Var("x"), Idx(Lit(1))},
                                 e \in {d \in {Nested(s) : s \in Shapes} : Fits(d)}}

(* loops of at most three rounds, left or cut short in the middle *)
Less(n) == Bin("<", X, Lit(n))
Count == Un("post", Var("x"))
Ex(e) == [k |-> "expr", e |-> e]
Small == <<<<>>, <<Ex(Un("pre", Var("y")))>>, <<Ex(Asg("+", Idx(Lit(1)), X))>>>>
Leave(n, s) == <<If(Bin("<", Y, Lit(n)), s, <<>>)>>
Exits == <<<<>>, Leave(1, <<Break>>), Leave(2, <<Break>>), Leave(1, <<Continue>>), Leave(2, <<Continue>>),
           <<Switch(Y, <<Case(0), Ex(Un("pre", Var("y"))), Break, Case(1), Continue, Default>>)>>>>
ForConds == <<Less(2), Rd(Var("x")), Bin("&&", Less(3), Bin("<", Y, Lit(2)))>>

Incs == <<Count, Asg("=", Var("x"), Lit(0)), Un("pre", Var("x"))>>

Shaped(i) ==
  CASE i[1] = "for" -> <<For(ForConds[i[2]], Incs[i[2]], Small[i[3]] \o Exits[i[4]] \o Small[i[5]])>>
    [] i[1] = "while" -> <<While(Less(3), Small[i[2]] \o Exits[i[3]] \o <<Ex(Count)>> \o Small[i[4]])>>
    [] i[1] = "nest" ->
         <<While(Less(2), <<Decl("y", Lit(0)),
                            For(Bin("<", Y, Lit(2)), Un("pre", Var("y")), Small[i[2]] \o Exits[i[3]]),
                            Ex(Count)>>)>>
    [] i[1] = "if" -> <<If(Bool(Mixed[i[2]]), Small[i[3]], Small[i[4]]), Ex(Asg("+", Var("y"), X))>>
    [] i[1] = "switch" ->
         <<Bind(Var("x")),
           Switch(<<X, R, Un("post", Var("y"))>>[i[2]],
                  <<Case(0)>> \o Small[i[3]] \o <<Case(1), Ex(Count)>> \o i[4] \o <<Default>> \o Small[i[3]])>>

Statements ==
  {Shaped(i) : i \in ({"for"} \X (1..3) \X (1..3) \X (1..6) \X (1..3)) \union ({"while"} \X (1..3) \X (1..3) \X (1..3))
     \union ({"nest"} \X {1, 3} \X (1..6)) \union ({"if"} \X (M \ {2}) \X (1..3) \X (1..3))
     \union ({"switch"} \X (1..3) \X (1..3) \X {<<>>, <<Break>>})}

Inputs(ys) == {<<x, y, 1, 0>> : x \in 0..2, y \in ys}
=============================================================================
