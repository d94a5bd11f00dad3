------------------------------- MODULE IdRange -------------------------------
(***************************************************************************)
(* id and range: the tuples of one to three words that name a work item    *)
(* and bound a kernel.  The six files of generated/include/charm/sycl are  *)
(* one template (generated/crates/id-range-gen) written out for two types  *)
(* and three dimensions, so one definition here stands for a line in each. *)
(*                                                                         *)
(* A word is unsigned and has WordBits bits.  An assignment x op= y is one *)
(* statement for each component, and its right side may be x itself.       *)
(***************************************************************************)
EXTENDS Integers, Sequences, Functions, Bitwise

CONSTANTS
  WordBits,    \* bits of a word: 64 in the code
  Dims,        \* dimensions
  Firsts       \* the words that components start with

IdRangeAssumption ==
  /\ WordBits \in Nat \ {0}
  /\ Dims \subseteq 1 .. 3
  /\ Firsts \subseteq 0 .. 2 ^ WordBits - 1

VARIABLES
  x, y,        \* two objects of one type
  todo,        \* the assignment to x under way, or the last one
  whole        \* what x is to be after it: what the operator gives

vars == <<x, y, todo, whole>>

Word == 0 .. 2 ^ WordBits - 1
Wrap(n) == n % 2 ^ WordBits

Bool(b) == IF b THEN 1 ELSE 0

Arith == {"+", "-", "*", "/", "%"}
Bits == {"<<", ">>", "&", "|", "^"}
Logic == {"&&", "||"}
Order == {"<", ">", "<=", ">="}

(* An operator on two words.  A logical or a comparing one makes an id or  *)
(* a range of ones and zeros.                                              *)
Op(o, a, b) ==
  CASE o = "+" -> Wrap(a + b)
    [] o = "-" -> Wrap(a - b)
    [] o = "*" -> Wrap(a * b)
    [] o = "/" -> a \div b
    [] o = "%" -> a % b
    [] o = "<<" -> Wrap(a * 2 ^ b)
    [] o = ">>" -> a \div 2 ^ b
    [] o = "&" -> a & b
    [] o = "|" -> a | b
    [] o = "^" -> a ^^ b
    [] o = "&&" -> Bool(a # 0 /\ b # 0)
    [] o = "||" -> Bool(a # 0 \/ b # 0)
    [] o = "<" -> Bool(a < b)
    [] o = ">" -> Bool(a > b)
    [] o = "<=" -> Bool(a <= b)
    [] o = ">=" -> Bool(a >= b)

Binary(o, l, r) == [d \in DOMAIN l |-> Op(o, l[d], r[d])]
WordLeft(o, w, r) == [d \in DOMAIN r |-> Op(o, w, r[d])]
WordRight(o, l, w) == [d \in DOMAIN l |-> Op(o, l[d], w)]

Eq(l, r) == \A d \in DOMAIN l : l[d] = r[d]
Ne(l, r) == \A d \in DOMAIN l : l[d] # r[d]
size(v) == Wrap(FoldFunction(LAMBDA a, b : a * b, 1, v))

(* What C++ leaves undefined, a program does not do.                       *)
Defined(o, r) ==
  /\ o \in {"/", "%"} => \A d \in DOMAIN r : r[d] # 0
  /\ o \in {"<<", ">>"} => \A d \in DOMAIN r : r[d] < WordBits

Init ==
  /\ \E n \in Dims : x \in [1 .. n -> Firsts] /\ y \in [1 .. n -> Firsts]
  /\ todo = [op |-> "none", from |-> "y", word |-> 0, next |-> 0]
  /\ whole = x

Idle == todo.next = 0

(* z = x op y, z = w op x, z = x op w, and y = z.                          *)
Compute ==
  /\ Idle
  /\ \E o \in Arith \cup Bits \cup Logic \cup Order, w \in Firsts :
       \/ Defined(o, y) /\ y' = Binary(o, x, y)
       \/ Defined(o, x) /\ y' = WordLeft(o, w, x)
       \/ Defined(o, <<w>>) /\ y' = WordRight(o, x, w)
  /\ UNCHANGED <<x, todo, whole>>

(* x op= y or x op= x.                                                     *)
Assign ==
  /\ Idle
  /\ \E o \in Arith \cup Bits, f \in {"x", "y"} :
       LET r == IF f = "x" THEN x ELSE y
       IN  /\ Defined(o, r)
           /\ todo' = [op |-> o, from |-> f, word |-> 0, next |-> 1]
           /\ whole' = Binary(o, x, r)
  /\ UNCHANGED <<x, y>>

(* x op= w, where w may be a component of x: it is passed by value.        *)
AssignWord ==
  /\ Idle
  /\ \E o \in Arith \cup Bits, d \in DOMAIN x :
       /\ Defined(o, <<x[d]>>)
       /\ todo' = [op |-> o, from |-> "word", word |-> x[d], next |-> 1]
       /\ whole' = WordRight(o, x, x[d])
  /\ UNCHANGED <<x, y>>

(* A mistake: the word is passed by reference, and is x's first component. *)
Right_fault(t, d) == CASE t.from = "x" -> x[d] [] t.from = "y" -> y[d] [] OTHER -> x[1]

Right(t, d) == CASE t.from = "x" -> x[d] [] t.from = "y" -> y[d] [] OTHER -> t.word

(* The statement for one component.                                        *)
Component ==
  /\ ~Idle
  /\ LET d == todo.next
     IN  /\ x' = [x EXCEPT ![d] = Op(todo.op, @, Right(todo, d))]
         /\ todo' = [todo EXCEPT !.next = IF d = Len(x) THEN 0 ELSE d + 1]
  /\ UNCHANGED <<y, whole>>

Next == Compute \/ Assign \/ AssignWord \/ Component

Spec == Init /\ [][Next]_vars

---------------------------------------------------------------------------
(* Words stay words.                                                       *)
TypeOK ==
  /\ Len(x) \in Dims /\ x \in [1 .. Len(x) -> Word]
  /\ y \in [1 .. Len(x) -> Word]
  /\ whole \in [1 .. Len(x) -> Word]
  /\ todo.next \in 0 .. Len(x)

(* One statement after the other, an assignment makes of x what the        *)
(* operator of the same name gives for the whole of it: also when its      *)
(* right side is x, or was a component of x that a statement has changed.  *)
(* (id_3.ipp and the others, operator+= next to operator+.)                *)
AssignIsCompute == Idle => x = whole

(* No statement of an assignment divides by zero or shifts too far when    *)
(* the operator would not, whatever the statements before it have changed. *)
(* (id_3.ipp and the others, operator/=, %=, <<= and >>=.)                 *)
StatementsDefined == ~Idle => Defined(todo.op, <<Right(todo, todo.next)>>)

(* Two ids are equal or they are not.                                      *)
(* (The code does not satisfy this; README.md, "Disagreements".)           *)
NotEqualIsNot == Ne(x, y) <=> ~Eq(x, y)
=============================================================================
