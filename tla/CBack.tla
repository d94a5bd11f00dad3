------------------------------- MODULE CBack -------------------------------
(***************************************************************************)
(* chsy-c-back: a tree of XcodeML is printed as C.                         *)
(*                                                                         *)
(* A tree is a tuple whose first element is its kind; <<"none">> is a null *)
(* pointer.  A text is a sequence of tokens, and " " in it is the blank    *)
(* that the format strings put around binary operators: without a blank    *)
(* two signs become one token for the C compiler that reads the text.      *)
(*                                                                         *)
(* Visit, FormatType and Stmt are the decompiler.  Lex and Read... are the *)
(* C compiler (external): the lexer that takes the longest token and a     *)
(* parser by the grammar of C.  Meaning and StmtMeaning say which C        *)
(* construct a node stands for.                                            *)
(***************************************************************************)
EXTENDS Integers, Sequences, SequencesExt, TLC

CONSTANT Inputs        \* the statements to print

None == <<"none">>

------------------------------ (* The printer *) ------------------------------

Prefix == [log_not |-> "!", bit_not |-> "~", pre_incr |-> "++", pre_decr |-> "--",
           addr_of |-> "&", unary_minus |-> "-", unary_plus |-> "+"]
Postfix == [post_incr |-> "++", post_decr |-> "--"]

Left == [bit_and |-> <<11, "&">>, bit_or |-> <<13, "|">>, bit_xor |-> <<12, "^">>,
         div |-> <<5, "/">>, log_and |-> <<14, "&&">>, log_eq |-> <<10, "==">>,
         log_neq |-> <<10, "!=">>, log_ge |-> <<9, ">=">>, log_gt |-> <<9, ">">>,
         log_le |-> <<9, "<=">>, log_lt |-> <<9, "<">>, log_or |-> <<15, "||">>,
         lshift |-> <<7, "<<">>, mod |-> <<5, "%">>, minus |-> <<6, "-">>,
         mul |-> <<5, "*">>, plus |-> <<6, "+">>, rshift |-> <<7, ">>">>]
Right == [asg_bitand |-> "&=", asg_bitor |-> "|=", asg_bitxor |-> "^=", asg_div |-> "/=",
          asg_lshift |-> "<<=", asg_minus |-> "-=", asg_mul |-> "*=", asg_plus |-> "+=",
          asg_rshift |-> ">>=", assign |-> "="]

(* A printed expression and its precedence. *)
E(str, prec) == [str |-> str, prec |-> prec]
Paren(e, when) == IF when THEN <<"(">> \o e.str \o <<")">> ELSE e.str

(* n is a node, and the other arguments are what its children print.       *)
VisitUnary(n, c) ==
  IF n[1] \in DOMAIN Prefix THEN E(<<Prefix[n[1]]>> \o Paren(c, c.prec >= 3), 3)
                            ELSE E(Append(Paren(c, c.prec >= 2), Postfix[n[1]]), 2)

(* A left-associative operator takes an operand of its own precedence on   *)
(* the left only.  The fault takes one on either side.                     *)
RightNeedsParen_fault(prec, p) == prec > p

RightNeedsParen(prec, p) == prec >= p

VisitLeft(n, l, r) ==
  LET p == Left[n[1]][1] IN
  E(Paren(l, l.prec > p) \o <<" ", Left[n[1]][2], " ">> \o Paren(r, RightNeedsParen(r.prec, p)), p)

VisitRight(n, l, r) ==
  E(Paren(l, l.prec >= 16) \o <<" ", Right[n[1]], " ">> \o Paren(r, r.prec > 16), 16)

(* A member of something addressed is written with a dot, whatever the     *)
(* precedence of the address was.                                          *)
VisitMember(n, val) ==
  LET v == n[2] IN
  E((IF v[1] = "var_addr" THEN <<v[2]>> ELSE Paren(val, val.prec > 2))
      \o <<IF v[1] \in {"var_addr", "addr_of"} THEN "." ELSE "->", n[3]>>, 2)

VisitIntConstant(n) ==
  E(IF n[2] < 0 THEN <<"-", ToString(-n[2])>> ELSE <<ToString(n[2])>>, 0)

(* A string is a sequence of characters; those that are printed as two     *)
(* have names.  Names of kernels, the strings of a program, have no quote. *)
Escape == [newline |-> "\\n", return |-> "\\r", tab |-> "\\t", vtab |-> "\\v", backslash |-> "\\\\"]

VisitStringConstant(n) ==
  LET Char(c) == IF c \in DOMAIN Escape THEN Escape[c] ELSE c IN
  E(<<"\"">> \o [i \in DOMAIN n[2] |-> Char(n[2][i])] \o <<"\"">>, 0)

VisitCall(fn, args) ==
  LET Arg(i) == (IF i > 1 THEN <<",">> ELSE <<>>) \o args[i].str IN
  E(Paren(fn, fn.prec > 2) \o <<"(">>
      \o FlattenSeq([i \in DOMAIN args |-> Arg(i)]) \o <<")">>, 2)

VisitArrayRef(arr, idxs) ==
  E(Paren(arr, arr.prec > 2)
      \o FlattenSeq([i \in DOMAIN idxs |-> <<"[">> \o idxs[i].str \o <<"]">>]), 2)

VisitCond(c, t, f) ==
  LET Part(e) == Paren(e, e.prec > 16) IN
  E(Part(c) \o <<" ", "?", " ">> \o Part(t) \o <<" ", ":", " ">> \o Part(f), 16)

(* init: the types that C has, by their names in XcodeML. *)
Builtin == [void |-> <<"void">>, _Bool |-> <<"_Bool">>, float |-> <<"float">>,
            double |-> <<"double">>, long_double |-> <<"long", "double">>,
            char |-> <<"char">>, unsigned_char |-> <<"unsigned", "char">>,
            short |-> <<"short">>, unsigned_short |-> <<"unsigned", "short">>,
            int |-> <<"int">>, unsigned |-> <<"unsigned", "int">>,
            long |-> <<"long">>, unsigned_long |-> <<"unsigned", "long">>,
            long_long |-> <<"long", "long">>,
            unsigned_long_long |-> <<"unsigned", "long", "long">>]

(* A type is written around the name of what is declared. *)
RECURSIVE FormatType(_)
FormatType(t) ==
  LET ref == FormatType(t[2]) IN
  CASE t[1] = "builtin" -> [left |-> Builtin[t[2]], right |-> <<>>]
    [] t[1] = "const" -> [ref EXCEPT !.left = <<"const">> \o @]
    [] t[1] = "struct" -> [left |-> <<"struct", t[2]>>, right |-> <<>>]
    [] t[1] = "pointer" -> [ref EXCEPT !.left = Append(@, "*")]
    [] t[1] = "array" ->
         [ref EXCEPT !.right = (IF t[3] > 0 THEN <<"[", ToString(t[3]), "]">> ELSE <<"[", "]">>) \o @]

Join(t, name) == FormatType(t).left \o name \o FormatType(t).right

VisitCast(n, val) ==
  E(<<"(">> \o Join(n[3], <<>>) \o <<")">> \o Paren(val, val.prec > 3), 3)

VisitDeref(val) ==
  E(<<"*">> \o Paren(val, val.prec > 3), 3)

Names == {"var_ref", "func_addr", "array_addr"}

RECURSIVE Visit(_)
Visit(n) ==
  LET V(i) == Visit(n[i])
      All(i) == [j \in DOMAIN n[i] |-> Visit(n[i][j])] IN
  CASE n[1] \in Names -> E(<<n[2]>>, 0)
    [] n[1] = "var_addr" -> E(<<"&", n[2]>>, 3)
    [] n[1] = "int_constant" -> VisitIntConstant(n)
    [] n[1] = "string_constant" -> VisitStringConstant(n)
    [] n[1] \in DOMAIN Prefix \cup DOMAIN Postfix -> VisitUnary(n, V(2))
    [] n[1] \in DOMAIN Left -> VisitLeft(n, V(2), V(3))
    [] n[1] \in DOMAIN Right -> VisitRight(n, V(2), V(3))
    [] n[1] = "member_ref" -> VisitMember(n, Visit(IF n[2][1] = "addr_of" THEN n[2][2] ELSE n[2]))
    [] n[1] = "pointer_ref" -> VisitDeref(V(2))
    [] n[1] = "call" -> VisitCall(V(2), All(3))
    [] n[1] = "cast" -> VisitCast(n, V(2))
    [] n[1] = "array_ref" -> VisitArrayRef(V(2), All(3))
    [] n[1] = "cond" -> VisitCond(V(2), V(3), V(4))

Opt(e) == IF e = None THEN <<>> ELSE Visit(e).str

(* Only an else that has something in it is written. *)
IsEmpty(s) == s = None \/ (s[2] = <<>> /\ s[3] = <<>>)

Attributes(as) ==
  IF as = <<>> THEN <<>>
  ELSE <<"__attribute__", "(", "(">>
         \o FlattenSeq([i \in DOMAIN as |-> (IF i > 1 THEN <<",">> ELSE <<>>) \o <<as[i]>>])
         \o <<")", ")">>

VarDecl(s) ==
  (IF s[2] \in {"extern", "static"} THEN <<s[2]>> ELSE <<>>)
    \o Attributes(s[3]) \o Join(s[4], <<s[5]>>) \o <<";">>

(* The last arguments are what the parts of a statement print.             *)
For(s, body) ==
  FlattenSeq([i \in DOMAIN s[2] |-> <<"#pragma", s[2][i]>>])
    \o <<"for", "(">> \o Opt(s[3]) \o <<";">> \o Opt(s[4]) \o <<";">> \o Opt(s[5])
    \o <<")">> \o body

If(s, then, else) ==
  <<"if", "(">> \o Visit(s[2]).str \o <<")">> \o then
    \o (IF IsEmpty(s[4]) THEN <<>> ELSE <<"else">> \o else)

Compound(decls, stmts) ==
  <<"{">> \o FlattenSeq(decls) \o FlattenSeq(stmts) \o <<"}">>

ExprStmt(s) == Append(Visit(s[2]).str, ";")
Return(s) == <<"return">> \o Opt(s[2]) \o <<";">>
While(s, body) == <<"while", "(">> \o Opt(s[2]) \o <<")">> \o body
Switch(s, body) == <<"switch", "(">> \o Visit(s[2]).str \o <<")">> \o body
Case(s) == <<"case">> \o Visit(s[2]).str \o <<":">>

RECURSIVE Stmt(_)
Stmt(s) ==
  LET S(i) == Stmt(s[i])
      All(i) == [j \in DOMAIN s[i] |-> Stmt(s[i][j])] IN
  CASE s[1] = "compound" -> Compound(All(2), All(3))
    [] s[1] = "var_decl" -> VarDecl(s)
    [] s[1] = "expr_stmt" -> ExprStmt(s)
    [] s[1] = "return" -> Return(s)
    [] s[1] = "for" -> For(s, S(6))
    [] s[1] = "while" -> While(s, S(3))
    [] s[1] = "if" -> If(s, S(3), S(4))
    [] s[1] = "switch" -> Switch(s, S(3))
    [] s[1] = "case" -> Case(s)
    [] s[1] = "default" -> <<"default", ":">>
    [] s[1] \in {"break", "continue"} -> <<s[1], ";">>

----------------- (* The C compiler that reads it (external) *) -----------------

(* The longest token first: two equal signs without a blank are one. *)
Lex(str) ==
  SelectSeq(FoldLeft(LAMBDA ts, t : IF t \in {"+", "-", "&"} /\ ts # <<>> /\ Last(ts) = t
                                   THEN Append(Front(ts), t \o t) ELSE Append(ts, t),
                    <<>>, str),
            LAMBDA t : t # " ")

CLevel == [t \in {Left[k][2] : k \in DOMAIN Left} |->
             Left[CHOOSE k \in DOMAIN Left : Left[k][2] = t][1]]
CAssign == {Right[k] : k \in DOMAIN Right}
CPrefix == {"!", "~", "++", "--", "&", "*", "-", "+"}
CWords == {"void", "_Bool", "char", "short", "int", "long", "float", "double", "unsigned"}
CTypes == CWords \cup {"struct", "const"}
CEscape == ("\\n" :> "newline") @@ ("\\r" :> "return") @@ ("\\t" :> "tab") @@ ("\\v" :> "vtab")
             @@ ("\\\\" :> "backslash")

(* Words of a type count, their order does not; int is what is left out.   *)
CType(words) ==
  [unsigned |-> "unsigned" \in Range(words),
   long |-> Len(SelectSeq(words, LAMBDA w : w = "long")),
   base |-> LET b == Range(words) \ {"unsigned", "long"} IN IF b = {} THEN {"int"} ELSE b]

At(ts, i) == IF i <= Len(ts) THEN ts[i] ELSE "end"
Drop(ts, i) == SubSeq(ts, i, Len(ts))
R(tree, rest) == [tree |-> tree, rest |-> rest]

(* A type name or a declarator: specifiers, stars, a name, array bounds.   *)
(* The bounds bind tighter than the stars.                                 *)
RECURSIVE ReadStars(_), ReadBounds(_, _)
ReadStars(r) == IF At(r.rest, 1) = "*" THEN ReadStars(R(<<"pointer", r.tree>>, Tail(r.rest)))
                ELSE r
ReadBounds(t, ts) ==
  IF At(ts, 1) # "[" THEN R(t, ts)
  ELSE LET sized == At(ts, 2) # "]"
           elem == ReadBounds(t, Drop(ts, IF sized THEN 4 ELSE 3)) IN
       R(<<"array", elem.tree, IF sized THEN ts[2] ELSE "">>, elem.rest)
RECURSIVE ReadBase(_)
ReadBase(ts) ==
  CASE At(ts, 1) = "const" ->
         LET b == ReadBase(Tail(ts)) IN R(IF b.tree[1] = "const" THEN b.tree ELSE <<"const", b.tree>>, b.rest)
    [] At(ts, 1) = "struct" -> R(<<"struct", ts[2]>>, Drop(ts, 3))
    [] OTHER ->
         LET n == CHOOSE i \in 1 .. Len(ts) : At(ts, i + 1) \notin CWords
                                               /\ \A j \in 1 .. i : ts[j] \in CWords IN
         R(<<"builtin", CType(SubSeq(ts, 1, n))>>, Drop(ts, n + 1))
ReadDeclarator(ts, named) ==
  LET s == ReadStars(ReadBase(ts))
      b == ReadBounds(s.tree, IF named THEN Tail(s.rest) ELSE s.rest) IN
  [tree |-> b.tree, rest |-> b.rest, name |-> IF named THEN s.rest[1] ELSE ""]

RECURSIVE ReadExpr(_), ReadLevel(_, _), ReadLoop(_, _), ReadUnary(_), ReadPostfix(_), ReadArgs(_, _)

(* 16 is a conditional, 17 an assignment, which no conditional ends with. *)
ReadExpr(ts) == ReadLevel(ts, 17)
ReadLevel(ts, p) == ReadLoop(ReadUnary(ts), p)

ReadLoop(l, p) ==
  LET t == At(l.rest, 1) IN
  CASE t \in DOMAIN CLevel /\ CLevel[t] <= p ->
         LET r == ReadLevel(Tail(l.rest), CLevel[t] - 1) IN
         ReadLoop(R(<<"binary", t, l.tree, r.tree>>, r.rest), p)
    [] t \in CAssign /\ p >= 17 ->
         LET r == ReadExpr(Tail(l.rest)) IN R(<<"binary", t, l.tree, r.tree>>, r.rest)
    [] t = "?" /\ p >= 16 ->
         LET a == ReadExpr(Tail(l.rest))
             b == ReadLevel(Tail(a.rest), 16) IN
         ReadLoop(R(<<"cond", l.tree, a.tree, b.tree>>, b.rest), p)
    [] OTHER -> l

ReadUnary(ts) ==
  CASE At(ts, 1) \in CPrefix ->
         LET r == ReadUnary(Tail(ts)) IN R(<<"prefix", ts[1], r.tree>>, r.rest)
    [] At(ts, 1) = "(" /\ At(ts, 2) \in CTypes ->
         LET t == ReadDeclarator(Tail(ts), FALSE)
             r == ReadUnary(Tail(t.rest)) IN R(<<"cast", t.tree, r.tree>>, r.rest)
    [] At(ts, 1) = "(" ->
         LET r == ReadExpr(Tail(ts)) IN ReadPostfix(R(r.tree, Tail(r.rest)))
    [] At(ts, 1) = "\"" ->
         LET n == CHOOSE i \in 2 .. Len(ts) : ts[i] = "\"" /\ \A j \in 2 .. i - 1 : ts[j] # "\""
             Char(c) == IF c \in DOMAIN CEscape THEN CEscape[c] ELSE c IN
         ReadPostfix(R(<<"string", [i \in 1 .. n - 2 |-> Char(ts[i + 1])]>>, Drop(ts, n + 1)))
    [] OTHER -> ReadPostfix(R(<<"name", At(ts, 1)>>, Tail(ts)))

ReadPostfix(l) ==
  LET t == At(l.rest, 1) IN
  CASE t \in {"++", "--"} -> ReadPostfix(R(<<"postfix", t, l.tree>>, Tail(l.rest)))
    [] t \in {".", "->"} -> ReadPostfix(R(<<"member", t, l.tree, l.rest[2]>>, Drop(l.rest, 3)))
    [] t = "[" -> LET i == ReadExpr(Tail(l.rest)) IN
                  ReadPostfix(R(<<"index", l.tree, i.tree>>, Tail(i.rest)))
    [] t = "(" -> LET as == ReadArgs(Tail(l.rest), <<>>) IN
                  ReadPostfix(R(<<"call", l.tree, as.tree>>, as.rest))
    [] OTHER -> l

ReadArgs(ts, as) ==
  IF At(ts, 1) = ")" THEN R(as, Tail(ts))
  ELSE LET a == ReadExpr(ts) IN
       IF At(a.rest, 1) = "," THEN ReadArgs(Tail(a.rest), Append(as, a.tree))
                              ELSE R(Append(as, a.tree), Tail(a.rest))

ReadOpt(ts, end) == IF At(ts, 1) = end THEN R(None, Tail(ts))
                    ELSE LET e == ReadExpr(ts) IN R(e.tree, Tail(e.rest))

(* The attributes of a declaration, up to the two closing parentheses. *)
ReadAttributes(ts) ==
  IF At(ts, 1) # "__attribute__" THEN R(<<>>, ts)
  ELSE LET n == CHOOSE i \in DOMAIN ts : ts[i] = ")" /\ \A j \in 1 .. i - 1 : ts[j] # ")" IN
       R(SelectSeq(SubSeq(ts, 4, n - 1), LAMBDA t : t # ","), Drop(ts, n + 2))

ReadDecl(ts) ==
  LET stored == At(ts, 1) \in {"extern", "static"}
      as == ReadAttributes(IF stored THEN Tail(ts) ELSE ts)
      d == ReadDeclarator(as.rest, TRUE) IN
  R(<<"var_decl", IF stored THEN ts[1] ELSE "", as.tree, d.tree, d.name>>, Tail(d.rest))

RECURSIVE ReadStmt(_), ReadBlock(_, _), ReadPragmas(_, _)
ReadBlock(ts, q) ==
  IF At(ts, 1) = "}" THEN R(q, Tail(ts))
  ELSE LET s == ReadStmt(ts) IN ReadBlock(s.rest, Append(q, s.tree))
ReadPragmas(ts, q) ==
  IF At(ts, 1) = "#pragma" THEN ReadPragmas(Drop(ts, 3), Append(q, ts[2])) ELSE R(q, ts)

ReadFor(ts) ==
  LET p == ReadPragmas(ts, <<>>)
      i == ReadOpt(Drop(p.rest, 3), ";")
      c == ReadOpt(i.rest, ";")
      n == ReadOpt(c.rest, ")")
      b == ReadStmt(n.rest) IN
  R(<<"for", p.tree, i.tree, c.tree, n.tree, b.tree>>, b.rest)

ReadIf(ts) ==
  LET c == ReadExpr(Drop(ts, 3))
      t == ReadStmt(Tail(c.rest))
      else == At(t.rest, 1) = "else"
      e == IF else THEN ReadStmt(Tail(t.rest)) ELSE R(None, t.rest) IN
  R(<<"if", c.tree, t.tree, e.tree>>, e.rest)

ReadBody(kind, ts) ==
  LET c == ReadExpr(Drop(ts, 3)) b == ReadStmt(Tail(c.rest)) IN R(<<kind, c.tree, b.tree>>, b.rest)

ReadStmt(ts) ==
  LET t == At(ts, 1) IN
  CASE t = "{" -> LET b == ReadBlock(Tail(ts), <<>>) IN R(<<"block", b.tree>>, b.rest)
    [] t = "return" -> LET e == ReadOpt(Tail(ts), ";") IN R(<<"return", e.tree>>, e.rest)
    [] t \in {"#pragma", "for"} -> ReadFor(ts)
    [] t = "if" -> ReadIf(ts)
    [] t \in {"while", "switch"} -> ReadBody(t, ts)
    [] t = "case" -> LET e == ReadExpr(Tail(ts)) IN R(<<"case", e.tree>>, Tail(e.rest))
    [] t = "default" -> R(<<t>>, Drop(ts, 3))
    [] t \in {"break", "continue"} -> R(<<t>>, Drop(ts, 3))
    [] t \in CTypes \cup {"extern", "static", "__attribute__"} -> ReadDecl(ts)
    [] OTHER -> LET e == ReadExpr(ts) IN R(<<"expr", e.tree>>, Tail(e.rest))

----------------------- (* What a node stands for in C *) -----------------------

(* The type that a name of XcodeML stands for. *)
TypeNamed(name) ==
  LET T(u, l, b) == [unsigned |-> u, long |-> l, base |-> {b}] IN
  CASE name = "unsigned" -> T(TRUE, 0, "int")
    [] name = "unsigned_char" -> T(TRUE, 0, "char")
    [] name = "unsigned_short" -> T(TRUE, 0, "short")
    [] name = "long" -> T(FALSE, 1, "int")
    [] name = "unsigned_long" -> T(TRUE, 1, "int")
    [] name = "long_long" -> T(FALSE, 2, "int")
    [] name = "unsigned_long_long" -> T(TRUE, 2, "int")
    [] name = "long_double" -> T(FALSE, 1, "double")
    [] OTHER -> T(FALSE, 0, name)

RECURSIVE TypeMeaning(_)
TypeMeaning(t) ==
  CASE t[1] = "builtin" -> <<"builtin", TypeNamed(t[2])>>
    [] t[1] = "struct" -> t
    [] t[1] \in {"pointer", "const"} -> <<t[1], TypeMeaning(t[2])>>
    [] t[1] = "array" -> <<"array", TypeMeaning(t[2]), IF t[3] > 0 THEN ToString(t[3]) ELSE "">>

(* A member is a member of the object that the value points to. *)
MemberMeaning(n, M(_)) ==
  CASE n[2][1] = "var_addr" -> <<"member", ".", <<"name", n[2][2]>>, n[3]>>
    [] n[2][1] = "addr_of" -> <<"member", ".", M(n[2][2]), n[3]>>
    [] OTHER -> <<"member", "->", M(n[2]), n[3]>>

RECURSIVE Meaning(_), IndexMeaning(_, _)
Meaning(n) ==
  CASE n = None -> None
    [] n[1] \in Names -> <<"name", n[2]>>
    [] n[1] = "var_addr" -> <<"prefix", "&", <<"name", n[2]>>>>
    [] n[1] = "int_constant" ->
         IF n[2] < 0 THEN <<"prefix", "-", <<"name", ToString(-n[2])>>>> ELSE <<"name", ToString(n[2])>>
    [] n[1] = "string_constant" -> <<"string", n[2]>>
    [] n[1] \in DOMAIN Prefix -> <<"prefix", Prefix[n[1]], Meaning(n[2])>>
    [] n[1] \in DOMAIN Postfix -> <<"postfix", Postfix[n[1]], Meaning(n[2])>>
    [] n[1] \in DOMAIN Left -> <<"binary", Left[n[1]][2], Meaning(n[2]), Meaning(n[3])>>
    [] n[1] \in DOMAIN Right -> <<"binary", Right[n[1]], Meaning(n[2]), Meaning(n[3])>>
    [] n[1] = "member_ref" -> MemberMeaning(n, Meaning)
    [] n[1] = "pointer_ref" -> <<"prefix", "*", Meaning(n[2])>>
    [] n[1] = "call" -> <<"call", Meaning(n[2]), [i \in DOMAIN n[3] |-> Meaning(n[3][i])]>>
    [] n[1] = "cast" -> <<"cast", TypeMeaning(n[3]), Meaning(n[2])>>
    [] n[1] = "array_ref" -> IndexMeaning(n, Len(n[3]))
    [] n[1] = "cond" -> <<"cond", Meaning(n[2]), Meaning(n[3]), Meaning(n[4])>>
IndexMeaning(n, i) ==
  IF i = 0 THEN Meaning(n[2]) ELSE <<"index", IndexMeaning(n, i - 1), Meaning(n[3][i])>>

RECURSIVE StmtMeaning(_)
StmtMeaning(s) ==
  CASE s[1] = "compound" -> <<"block", [i \in DOMAIN (s[2] \o s[3]) |-> StmtMeaning((s[2] \o s[3])[i])]>>
    [] s[1] = "var_decl" ->
         <<"var_decl", IF s[2] \in {"extern", "static"} THEN s[2] ELSE "", s[3], TypeMeaning(s[4]), s[5]>>
    [] s[1] = "expr_stmt" -> <<"expr", Meaning(s[2])>>
    [] s[1] \in {"return", "case"} -> <<s[1], Meaning(s[2])>>
    [] s[1] = "for" -> <<"for", s[2], Meaning(s[3]), Meaning(s[4]), Meaning(s[5]), StmtMeaning(s[6])>>
    [] s[1] \in {"while", "switch"} -> <<s[1], Meaning(s[2]), StmtMeaning(s[3])>>
    [] s[1] = "if" -> <<"if", Meaning(s[2]), StmtMeaning(s[3]),
                        IF IsEmpty(s[4]) THEN None ELSE StmtMeaning(s[4])>>
    [] OTHER -> <<s[1]>>

------------------------------------------------------------------------------

VARIABLES in,      \* the statement to print
          out      \* the tokens a compiler sees
vars == <<in, out>>

Init == in \in Inputs /\ out = <<>>

Decompile == out = <<>> /\ out' = Lex(Stmt(in)) /\ UNCHANGED in

Next == Decompile

Spec == Init /\ [][Next]_vars

(* What a C compiler reads is what the tree says: no parenthesis is missing,
   no two tokens run together, and no else or declaration is lost
   (chsy-c-back.cpp, expr_decompiler and decompiler). *)
ReadsBack == out # <<>> => ReadStmt(out) = R(StmtMeaning(in), <<>>)
=============================================================================
