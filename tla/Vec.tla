-------------------------------- MODULE Vec --------------------------------
(***************************************************************************)
(* sycl::vec.  On the host a vec is a vector of the compiler and an        *)
(* operator is the compiler's; in a kernel the same operator is a loop     *)
(* over the elements, written by vec_fwd.py, and what makes, reads and     *)
(* stores an element is a table of C functions that the lowering puts in   *)
(* front of the kernel: array_as_vec for the CPU and CUDA, ext_vector_type *)
(* for HIP.  This module runs one program on both sides.                   *)
(*                                                                         *)
(* The memory of the device is cells of one byte.  The value of an element *)
(* of b bytes takes b cells; cell k of value v is <<v, k>>.                *)
(***************************************************************************)
EXTENDS Integers, Sequences, SequencesExt, Bitwise

CONSTANTS
    Types,   \* element types: [name, sig, bytes, int]
    Widths,  \* numbers of elements, of 1, 2, 3, 4, 8, 16
    Forms,   \* "array" (array_as_vec) and "ext" (ext_vector_type)
    Values,  \* scalars
    Binaries, Compounds, Compares, Unaries, Funcs, \* operators the program uses
    Steps    \* bound: operations of one program

VARIABLES
    ty, n, form,
    built,   \* the kernel was lowered and compiled
    host,    \* host[s]: the elements of vec s of an array of two, x and y
    dev,     \* the cells of the same array on the device
    rh, rd,  \* the last result that is not stored in x: host's and device's
    args,    \* the arguments of the constructor that made x, else << >>
    left     \* operations the program may still do

vars == <<ty, n, form, built, host, dev, rh, rd, args, left>>

Torn == 77  \* the value of cells that no one store has written
Elems == 0 .. n - 1

(***************************************************************************)
(* Sizes.  A vec of three has the size of one of four.                     *)
(***************************************************************************)
HostSize == ty.bytes * (IF n = 3 THEN 4 ELSE n)

RoundUp(k, a) == ((k + a - 1) \div a) * a

\* struct { T __v[N]; } aligned to N (or 4) elements
ArraySize_fault == n * ty.bytes

ArraySize == RoundUp(n * ty.bytes, ty.bytes * (IF n = 3 THEN 4 ELSE n))

\* T ext_vector_type(N): the compiler's, of a power of two of elements
ExtSize == ty.bytes * (IF n = 3 THEN 4 ELSE n)

DevSize == IF form = "array" THEN ArraySize ELSE ExtSize

X == 0
Y == DevSize
Space(size) == [a \in 0 .. size - 1 |-> <<Torn, -1>>]
Blank == Space(DevSize)

(***************************************************************************)
(* Cells.                                                                  *)
(***************************************************************************)
Put(mem, at, bytes, v) ==
    [a \in DOMAIN mem |-> IF a \in at .. at + bytes - 1 THEN <<v, a - at>> ELSE mem[a]]

Get(mem, at) ==
    LET v == mem[at][1]
    IN IF \A k \in 0 .. ty.bytes - 1 : mem[at + k] = <<v, k>> THEN v ELSE Torn

Spread(elems, size) ==
    FoldLeft(LAMBDA m, i : Put(m, i * ty.bytes, ty.bytes, elems[i]), Space(size),
             [k \in 1 .. n |-> k - 1])

Bytes(elems) == Spread(elems, DevSize)

(***************************************************************************)
(* The tables of functions.  The store of a vec of 16 takes a pointer to   *)
(* _s__v16t, a vec of unsigned short, whatever the type in its name.       *)
(***************************************************************************)
ArrayMake(elems) == Bytes(elems)

ExtMake(elems) == Bytes(elems)

ArraySplat(v) == ArrayMake([i \in Elems |-> v])

ExtSplat(v) == Bytes([i \in Elems |-> v])

ArrayIx(mem, at, i) == Get(mem, at + i * ty.bytes)

ExtIx(mem, at, i) == Get(mem, at + i * ty.bytes)

ArrayStore(mem, at, i, v) ==
    LET bytes == IF n = 16 THEN 2 ELSE ty.bytes IN Put(mem, at + i * bytes, bytes, v)

ExtStore(mem, at, i, v) ==
    LET bytes == IF n = 16 THEN 2 ELSE ty.bytes IN Put(mem, at + i * bytes, bytes, v)

\* the function of the kernel's table, which call_builtin and vec_sig name
Make(elems) == IF form = "array" THEN ArrayMake(elems) ELSE ExtMake(elems)
Splat(v) == IF form = "array" THEN ArraySplat(v) ELSE ExtSplat(v)
Ix(mem, at, i) == IF form = "array" THEN ArrayIx(mem, at, i) ELSE ExtIx(mem, at, i)
Store(mem, at, i, v) ==
    IF form = "array" THEN ArrayStore(mem, at, i, v) ELSE ExtStore(mem, at, i, v)

\* a loop over the elements that stores F(memory so far, i) into the vec at "at"
Loop(mem, at, F(_, _)) ==
    FoldLeft(LAMBDA m, i : Store(m, at, i, F(m, i)), mem, [k \in 1 .. n |-> k - 1])

\* assignment of a whole vec to x
Assign(r) == [a \in DOMAIN dev |-> IF a < DevSize THEN r[a] ELSE dev[a]]

(***************************************************************************)
(* C's operators on elements.                                              *)
(***************************************************************************)
Truth(b) == IF b THEN 1 ELSE 0

Trunc(a, b) == \* division rounds to zero
    LET Abs(z) == IF z < 0 THEN -z ELSE z
        q == Abs(a) \div Abs(b)
    IN IF (a < 0) = (b < 0) THEN q ELSE -q

Apply(op, a, b) ==
    CASE op = "+" -> a + b
      [] op = "-" -> a - b
      [] op = "*" -> a * b
      [] op = "/" -> Trunc(a, b)
      [] op = "%" -> a - b * Trunc(a, b)
      [] op = "<<" -> a * 2^b
      [] op = ">>" -> a \div 2^b
      [] op = "&" -> a & b
      [] op = "|" -> a | b
      [] op = "^" -> a ^^ b
      [] op = "&&" -> Truth(a # 0 /\ b # 0)
      [] op = "||" -> Truth(a # 0 \/ b # 0)
      [] op = "==" -> Truth(a = b)
      [] op = "!=" -> Truth(a # b)
      [] op = "<" -> Truth(a < b)
      [] op = ">" -> Truth(a > b)
      [] op = "<=" -> Truth(a <= b)
      [] op = ">=" -> Truth(a >= b)

\* where C++ defines the result
Defined(op, a, b) ==
    /\ op \in {"/", "%"} => b # 0
    /\ op \in {"<<", ">>"} => b \in 0 .. 7 /\ a >= 0
    /\ op \in {"&", "|", "^"} => a >= 0 /\ b >= 0

Shapes == {"vv", "vs", "sv"}  \* vec op vec, vec op scalar, scalar op vec

\* The operands of element i: the host's, and those a kernel's loop reads.
HostArgs(shape, s, i) ==
    CASE shape = "vv" -> <<host["x"][i], host["y"][i]>>
      [] shape = "vs" -> <<host["x"][i], s>>
      [] shape = "sv" -> <<s, host["x"][i]>>

DevArgs(mem, shape, s, i) ==
    CASE shape = "vv" -> <<Ix(mem, X, i), Ix(mem, Y, i)>>
      [] shape = "vs" -> <<Ix(mem, X, i), s>>
      [] shape = "sv" -> <<s, Ix(mem, X, i)>>

Fine(op, shape, s) ==
    \A i \in Elems : LET a == HostArgs(shape, s, i) IN Defined(op, a[1], a[2])

HostEach(op, shape, s) ==
    [i \in Elems |-> LET a == HostArgs(shape, s, i) IN Apply(op, a[1], a[2])]

(***************************************************************************)
(* Operations of the program, each on the host and in a kernel.            *)
(***************************************************************************)
Op == built /\ left > 0 /\ left' = left - 1 /\ UNCHANGED <<ty, n, form, built>>

SetX(h, d) == /\ host' = [host EXCEPT !["x"] = h]
              /\ dev' = d
              /\ UNCHANGED <<rh, rd>>
              /\ args' = << >>

Result(h, d) == rh' = h /\ rd' = d /\ UNCHANGED <<host, dev, args>>

(***************************************************************************)
(* vec(args...): element e is found by walking the arguments, vectors and  *)
(* scalars, with the number of elements passed so far.                     *)
(***************************************************************************)
RECURSIVE VecInitArg(_, _, _, _)
VecInitArg(as, pack, elem, offset) ==
    LET a == as[pack] IN
    IF Len(a) > 1
    THEN IF offset <= elem /\ elem < offset + Len(a)
         THEN a[elem - offset + 1]
         ELSE VecInitArg(as, pack + 1, elem, offset + Len(a))
    ELSE IF offset = elem
         THEN a[1]
         ELSE VecInitArg(as, pack + 1, elem, offset + 1)

\* Lists of arguments, scalars and vectors of up to three, that hold i, ..., n.
RECURSIVE ArgLists(_)
ArgLists(i) ==
    IF i > n
    THEN {<< >>}
    ELSE UNION {{<<[k \in 1 .. m |-> i + k - 1]>> \o rest : rest \in ArgLists(i + m)} :
                   m \in (1 .. 3) \cap (1 .. (n - i + 1))}

Construct ==
    /\ Op
    /\ n <= 4
    /\ \E as \in ArgLists(1) :
          LET elems == [i \in Elems |-> VecInitArg(as, 1, i, 0)]
          IN /\ host' = [host EXCEPT !["x"] = elems]
             /\ dev' = Assign(Make(elems))
             /\ args' = as
             /\ UNCHANGED <<rh, rd>>

SplatX == Op /\ \E v \in Values : SetX([i \in Elems |-> v], Assign(Splat(v)))

Binary ==
    /\ Op
    /\ \E op \in Binaries, shape \in Shapes, s \in Values :
          /\ Fine(op, shape, s)
          /\ SetX(HostEach(op, shape, s),
                  Assign(Loop(Blank, X,
                              LAMBDA m, i : LET a == DevArgs(dev, shape, s, i)
                                            IN Apply(op, a[1], a[2]))))

\* op0 = op[0]: the first character of "op="
FirstChar(op) == CASE op = "<<" -> "<" [] op = ">>" -> ">" [] OTHER -> op

Compound ==
    /\ Op
    /\ \E op \in Compounds, shape \in {"vv", "vs"}, s \in Values :
          /\ Fine(op, shape, s)
          /\ SetX(HostEach(op, shape, s),
                  Loop(dev, X, LAMBDA m, i : LET a == DevArgs(m, shape, s, i)
                                             IN Apply(FirstChar(op), a[1], a[2])))

\* all bits of the signed type of the same size, or 0
Compare ==
    /\ Op
    /\ \E op \in Compares, shape \in Shapes, s \in Values :
          Result([i \in Elems |-> -HostEach(op, shape, s)[i]],
                 Loop(Blank, X,
                      LAMBDA m, i : LET a == DevArgs(dev, shape, s, i)
                                    IN IF Apply(op, a[1], a[2]) # 0 THEN -1 ELSE 0))

\* ++x and --x: a kernel adds 1 for both
Increment ==
    /\ Op
    /\ \E op \in Unaries \cap {"++", "--"} :
          SetX([i \in Elems |-> IF op = "++" THEN host["x"][i] + 1 ELSE host["x"][i] - 1],
               Loop(dev, X, LAMBDA m, i : Ix(m, X, i) + 1))

\* !x: a kernel's function has no "!" in it
LogNot ==
    Result([i \in Elems |-> IF host["x"][i] = 0 THEN -1 ELSE 0],
           Loop(Blank, X, LAMBDA m, i : IF Ix(dev, X, i) # 0 THEN -1 ELSE 0))

Unary ==
    /\ Op
    /\ \E op \in Unaries \cap {"+", "-", "~", "!"} :
          LET F(v) == CASE op = "+" -> v [] op = "-" -> -v [] op = "~" -> -v - 1
          IN IF op = "!"
             THEN LogNot
             ELSE SetX([i \in Elems |-> F(host["x"][i])],
                       Assign(Loop(Blank, X, LAMBDA m, i : F(Ix(dev, X, i)))))

\* x[i] = v
ProxyWrite ==
    /\ Op
    /\ \E i \in Elems, v \in Values :
          SetX([host["x"] EXCEPT ![i] = v], Store(dev, X, i, v))

\* x.y() += v, for a vec of up to four elements
SwizzleAdd ==
    /\ Op
    /\ n <= 4
    /\ \E i \in Elems, v \in Values :
          SetX([host["x"] EXCEPT ![i] = @ + v], Store(dev, X, i, Ix(dev, X, i) + v))

(***************************************************************************)
(* Functions, element by element.  The host calls std::fn; a kernel calls  *)
(* the C library's function of the name that the lowering gives, but min   *)
(* and max of integers, which the lowering implements.                     *)
(***************************************************************************)
HostFunc(fn, a, b) ==
    CASE fn = "max" -> IF a < b THEN b ELSE a
      [] fn = "min" -> IF b < a THEN b ELSE a
      [] fn = "powr" -> <<"pow", a, b>>
      [] OTHER -> <<fn, a, b>>

DevFunc(fn, a, b) ==
    CASE fn = "max" -> IF a < b THEN b ELSE a
      [] fn = "min" -> IF a < b THEN a ELSE b
      [] OTHER -> <<fn, a, b>>

\* what the C libraries of the targets have
CLibrary(fn) == fn # "powr"

Math ==
    /\ built /\ left > 0 /\ left' = left - 1
    /\ UNCHANGED <<ty, n, form>>
    /\ \E fn \in {f \in Funcs : (f \in {"max", "min"}) = ty.int} :
          /\ built' = (fn \in {"max", "min"} \/ CLibrary(fn))
          /\ Result([i \in Elems |-> HostFunc(fn, host["x"][i], host["y"][i])],
                    Make([i \in Elems |-> DevFunc(fn, Ix(dev, X, i), Ix(dev, Y, i))]))

\* the names of element types that the lowering knows; it aborts on others
LoweredNames ==
    {"char", "unsigned_char", "short", "unsigned_short", "int", "unsigned", "long",
     "unsigned_long", "longlong", "unsigned_longlong", "float", "double"}

Init ==
    /\ ty \in Types
    /\ n \in Widths
    /\ form \in Forms
    /\ built = (ty.name \in LoweredNames)
    /\ \E a, b \in Values :
          host = [s \in {"x", "y"} |-> [i \in Elems |-> IF s = "x" THEN a + i ELSE b + (i % 2)]]
    \* a buffer's bytes are copied as they are
    /\ dev = [a \in 0 .. 2 * HostSize - 1 |->
                 IF a < HostSize THEN Spread(host["x"], HostSize)[a]
                                 ELSE Spread(host["y"], HostSize)[a - HostSize]]
    /\ rh = [i \in Elems |-> 0]
    /\ rd = Bytes(rh)
    /\ args = << >>
    /\ left = Steps

Next ==
    \/ Construct \/ SplatX \/ Binary \/ Compound \/ Compare \/ Increment \/ Unary
    \/ ProxyWrite \/ SwizzleAdd \/ Math

Spec == Init /\ [][Next]_vars

(***************************************************************************)
(* Properties.                                                             *)
(***************************************************************************)
\* The device computes what the host computes: the elements of x, those of
\* its neighbour y in the buffer, and the results.  (vec_fwd.py: one
\* function, two bodies)
Agree ==
    built =>
      /\ \A i \in Elems :
            /\ Get(dev, i * ty.bytes) = host["x"][i]
            /\ Get(dev, HostSize + i * ty.bytes) = host["y"][i]
            /\ Get(rd, i * ty.bytes) = rh[i]

\* A vec made of vectors and scalars holds their elements in order.
\* (vec.ipp: vec_init_arg)
InOrder == args # << >> => \A i \in Elems : host["x"][i] = FlattenSeq(args)[i + 1]

\* Every element type and function of a vec can be lowered and compiled for
\* the device.
Builds == built
=============================================================================
