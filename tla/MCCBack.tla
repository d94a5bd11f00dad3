------------------------------ MODULE MCCBack ------------------------------
(* Statements to print: every operator under every other, declarators, and
   the statements of a function, as inputs of CBack. *)
EXTENDS Integers, Sequences

None == <<"none">>

Unary == {"log_not", "bit_not", "pre_incr", "pre_decr", "addr_of", "unary_minus", "unary_plus",
          "post_incr", "post_decr", "pointer_ref"}
Assigning == {"asg_bitand", "asg_bitor", "asg_bitxor", "asg_div", "asg_lshift", "asg_minus", "asg_mul",
              "asg_plus", "asg_rshift", "assign"}
Binary == Assigning \cup
  {"bit_and", "bit_or", "bit_xor", "div", "log_and", "log_eq", "log_neq", "log_ge", "log_gt", "log_le",
   "log_lt", "log_or", "lshift", "mod", "minus", "mul", "plus", "rshift"}

A == <<"var_ref", "a">>
B == <<"var_ref", "b">>
SInt == <<"builtin", "int">>
One == <<"int_constant", 1>>
Names == {"void", "_Bool", "char", "short", "int", "long", "long_long", "float", "double", "long_double",
          "unsigned", "unsigned_char", "unsigned_short", "unsigned_long", "unsigned_long_long"}
Builtins == {<<"builtin", n>> : n \in Names}
Strings == {<<"string_constant", s>> : s \in {<<>>, <<"a">>, <<"newline", "a">>, <<"return", "tab", "vtab">>,
                                              <<"backslash", "newline", "backslash">>}}
Types == {SInt, <<"const", SInt>>, <<"struct", "S">>, <<"const", <<"struct", "S">>>>}
Declared ==
  LET P(ts) == ts \cup {<<"pointer", t>> : t \in ts}
      Ar(ts) == ts \cup {<<"array", t, n>> : t \in ts, n \in {0, 3}} IN Ar(Ar(P(P(Types)))) \cup (P(P(Builtins)) \ {<<"builtin", "void">>})
PtrTypes == {<<"pointer", t>> : t \in Types \cup {<<"builtin", "unsigned_long">>}}

(* One operator around the given operands, in each of their places. *)
Around(es) ==
  {<<k, e>> : k \in Unary, e \in es}
  \cup {<<k, e, B>> : k \in Binary, e \in es}
  \cup {<<k, B, e>> : k \in Binary, e \in es}
  \cup {<<"member_ref", e, "m">> : e \in es}
  \cup {<<"call", e, <<>>>> : e \in es} \cup {<<"call", <<"func_addr", "f">>, <<e, B>>>> : e \in es}
  \cup {<<"cast", e, t>> : e \in es, t \in PtrTypes}
  \cup {<<"array_ref", e, <<One>>>> : e \in es} \cup {<<"array_ref", A, <<B, e>>>> : e \in es}
Choice(es) == {<<"cond", e, A, B>> : e \in es} \cup {<<"cond", A, e, B>> : e \in es}
              \cup {<<"cond", A, B, e>> : e \in es}
Leaves == {A, One, <<"var_addr", "x">>}
Levels == Around(Leaves)
AsStmt(es) == {<<"expr_stmt", e>> : e \in es}

(* A conditional has no assignments in it: kext makes a statement of each
   and goes on with its left side (expr_visitor.cpp, push_expr). *)
Choices == Choice({e \in Levels : e[1] \notin Assigning} \cup Choice(Leaves))

(* Where a conditional is the condition of another, a compiler reads what
   the tree does not say (README.md, "Disagreements"). *)
Misread == {e \in Choices : e[2][1] = "cond"}

Exprs == AsStmt(Levels \cup Around(Levels) \cup Around(Choice(Leaves))
                   \cup (Choices \ Misread)
                   \cup Around(Strings) \cup {<<"cast", A, t>> : t \in Builtins})

Body(ds, ss) == <<"compound", ds, ss>>
Set(v) == <<"expr_stmt", <<"assign", A, v>>>>
Empty == Body(<<>>, <<>>)
Vars == {<<"var_decl", c, as, t, "v">> :
           c \in {"auto", "static", "extern"}, as \in {<<>>, <<"p">>, <<"p", "q">>}, t \in Declared}
Simple == {Set(One), <<"return", None>>, <<"return", A>>, <<"break">>, <<"continue">>,
           <<"case", One>>, <<"default">>}
Holding(bs) ==
  {<<"if", A, b, e>> : b \in bs, e \in bs \cup {None, Empty}}
  \cup {<<"while", A, b>> : b \in bs} \cup {<<"switch", A, b>> : b \in bs}
  \cup {<<"for", ps, i, c, n, b>> : ps \in {<<>>, <<"p", "q">>}, i \in {None, <<"assign", A, One>>},
          c \in {None, A}, n \in {None, <<"pre_incr", A>>}, b \in bs}
Blocks(ss) == {Body(<<>>, <<s, Set(B)>>) : s \in ss}
Decl == <<"var_decl", "auto", <<>>, SInt, "v">>
Stmts == Vars \cup Simple \cup Holding(Blocks(Simple) \cup {Empty})
           \cup {Body(<<Decl>>, <<>>), Body(<<Decl, Decl>>, <<Set(A)>>)}
           \cup Blocks(Holding(Blocks({<<"if", A, Empty, None>>, <<"if", A, Empty, Body(<<>>, <<Set(One)>>)>>})))
=============================================================================
