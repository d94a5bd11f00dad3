----------------------------- MODULE CopyRegion -----------------------------
(***************************************************************************)
(* Explicit copies and fills of a part of a buffer: handler_impl::copy     *)
(* (lib/sycl/handler.cpp) reduces the parts that two accessors name to one *)
(* block, to blocks with one stride, or to blocks with two; the dependency *)
(* manager passes the numbers on, and a back end moves the bytes, the CPU  *)
(* with loops of memcpy, the GPUs with the pitched copies of their         *)
(* drivers, and IRIS with one block between a buffer and memory.           *)
(*                                                                         *)
(* A byte is its offset from the start of its buffer or of the memory that *)
(* the program gave.  A command moves a set of bytes <<from, to>>.         *)
(***************************************************************************)
EXTENDS Integers, Sequences, FiniteSetsExt

CONSTANTS
  MaxSize,   \* bound of the sizes of a buffer that is copied from or to memory
  MaxPair,   \* and of two buffers
  Elem       \* size of an element in bytes

CopyAssumption == MaxSize \in Nat \ {0} /\ MaxPair \in Nat \ {0} /\ Elem \in Nat \ {0}

VARIABLES
  req,       \* what the program asks for: two places, or one to fill
  cmd,       \* the command given to the back end
  moved      \* the bytes it moves

vars == <<req, cmd, moved>>

NONE == [kind |-> "none"]

(* detail::extend: the last dimension is the one that every buffer has.    *)
Extend(r, one) ==
  CASE Len(r) = 1 -> <<one, one, r[1]>>
    [] Len(r) = 2 -> <<one, r[1], r[2]>>
    [] OTHER      -> r

Count(r) == r[1] * r[2] * r[3]

LinearId(size, x) == x[3] + x[2] * size[3] + x[1] * size[2] * size[3]

(* The ids of a range.                                                     *)
Ids(r) == {<<i, j, k>> : i \in 0 .. r[1] - 1, j \in 0 .. r[2] - 1, k \in 0 .. r[3] - 1}

(* The accessors of buffers of at most n in each dimension: a buffer of    *)
(* "size" and the part of it from "off".                                   *)
Accessors(n) ==
  UNION {{[size |-> Extend(s, 1), off |-> Extend(o, 0), range |-> Extend(r, 1)] :
            s \in [1 .. d -> 1 .. n], o \in [1 .. d -> 0 .. n - 1], r \in [1 .. d -> 1 .. n]} :
         d \in 1 .. 3}

Fits(a) == \A d \in 1 .. 3 : a.off[d] + a.range[d] <= a.size[d]

Places(n) == {a \in Accessors(n) : Fits(a)}

(* Memory of the program holds the part and nothing else.                  *)
Memory(a) == [size |-> a.range, off |-> <<0, 0, 0>>, range |-> a.range]

Init == req = NONE /\ cmd = NONE /\ moved = {}
-----------------------------------------------------------------------------
(* Is the accessor's part whole in this dimension of its buffer?           *)
Whole(a, d) == a.size[d] = 1 \/ (a.off[d] = 0 /\ a.range[d] = a.size[d])

copy_dim(a) ==
  LET c(d) == Whole(a, d)
  IN  CASE c(1) /\ c(2) /\ c(3) -> 0
        [] c(1) /\ c(2) /\ ~c(3) -> 1
        [] c(1) /\ ~c(2)        -> 2
        [] OTHER                -> 3

compute_offset(a) == LinearId(a.size, a.off) * Elem

Strides_fault(size, dim) ==
  [i |-> IF dim <= 1 THEN 0 ELSE size[2] * size[3] * Elem,
   j |-> IF dim <= 2 THEN 0 ELSE size[2] * Elem]

(* Bytes from one row, or plane, to the next.                              *)
Strides(size, dim) ==
  [i |-> IF dim <= 1 THEN 0 ELSE size[2] * size[3] * Elem,
   j |-> IF dim <= 2 THEN 0 ELSE size[3] * Elem]

(* A 1-, 2- or 3-D copy with its loops, of the source's range, between a   *)
(* pair of buffers or a buffer and memory.                                 *)
CopyCommand(s, d, dim, pair) ==
  LET r == s.range
  IN  [kind |-> "copy", dim |-> dim, pair |-> pair,
       src |-> compute_offset(s), dst |-> compute_offset(d),
       s_stride |-> Strides(s.size, dim), d_stride |-> Strides(d.size, dim),
       i_loop |-> IF dim <= 1 THEN 1 ELSE r[1],
       j_loop |-> IF dim <= 2 THEN 1 ELSE r[2],
       len |-> Elem * (CASE dim <= 1 -> Count(r) [] dim = 2 -> r[2] * r[3] [] dim = 3 -> r[3])]

Asked(s, d, dim, pair) ==
  /\ req' = [kind |-> "copy", src |-> s, dst |-> d]
  /\ cmd' = CopyCommand(s, d, dim, pair)
  /\ UNCHANGED moved

CopyBuffers(s, d) == Asked(s, d, Max({copy_dim(s), copy_dim(d)}), TRUE)
CopyOut(s) == Asked(s, Memory(s), copy_dim(s), FALSE)
CopyIn(d) == Asked(Memory(d), d, copy_dim(d), FALSE)

(* fill is a kernel over the accessor's range.  Its accessor knows the     *)
(* size of the buffer and points to the first element of the part.         *)
Fill(d) ==
  /\ req' = [kind |-> "fill", dst |-> d]
  /\ cmd' = [kind |-> "fill", ptr |-> compute_offset(d), sz |-> d.size, range |-> d.range]
  /\ UNCHANGED moved
-----------------------------------------------------------------------------
(* A GPU's command has pitches and heights instead of strides.             *)
Height(stride) == stride.i \div stride.j
Terminates(c) == c.dim = 3 /\ (c.s_stride.i % c.s_stride.j # 0 \/ c.d_stride.i % c.d_stride.j # 0)

Pitched(base, dim, stride, i, j, k) ==
  CASE dim <= 1 -> base + k
    [] dim = 2  -> base + i * stride.i + k
    [] dim = 3  -> base + (i * Height(stride) + j) * stride.j + k

At(c, F(_, _, _)) ==
  {F(i, j, k) : i \in 0 .. c.i_loop - 1, j \in 0 .. c.j_loop - 1, k \in 0 .. c.len - 1}

(* The drivers move the bytes that their descriptors say, and refuse a row *)
(* longer than its pitch.                                                  *)
GpuMoves(c) ==
  At(c, LAMBDA i, j, k : <<Pitched(c.src, c.dim, c.s_stride, i, j, k),
                           Pitched(c.dst, c.dim, c.d_stride, i, j, k)>>)

GpuRefuses(c) ==
  LET pitch(s) == IF c.dim = 2 THEN s.i ELSE s.j
  IN  c.dim >= 2 /\ (c.len > pitch(c.s_stride) \/ c.len > pitch(c.d_stride))

(* IRIS ends the program for a pair of buffers or a copy of several blocks *)
(* and has one command for any other.                                      *)
IrisAborts(c) == c.pair \/ c.dim >= 2
IrisMoves(c) == {<<c.src + k, c.dst + k>> : k \in 0 .. c.len - 1}

(* The loops of copy_1d_impl, copy_2d_impl and copy_3d_impl.               *)
CpuMoves(c) ==
  At(c, LAMBDA i, j, k : <<c.src + i * c.s_stride.i + j * c.s_stride.j + k,
                           c.dst + i * c.d_stride.i + j * c.d_stride.j + k>>)

(* device_accessor::operator[] in a kernel.                                *)
Index(sz, range, x) == LinearId(sz, x)

Move ==
  /\ cmd # NONE /\ moved = {}
  /\ moved' =
       IF cmd.kind = "copy" THEN CpuMoves(cmd)
       ELSE {<<0, cmd.ptr + Elem * Index(cmd.sz, cmd.range, x) + k>> :
               x \in Ids(cmd.range), k \in 0 .. Elem - 1}
  /\ UNCHANGED <<req, cmd>>

Asks ==
  \/ \E s, d \in Places(MaxPair) : s.range = d.range /\ CopyBuffers(s, d)
  \/ \E a \in Places(MaxSize) : CopyOut(a) \/ CopyIn(a) \/ Fill(a)

Next == (req = NONE /\ Asks) \/ Move

Spec == Init /\ [][Next]_vars
-----------------------------------------------------------------------------
Byte(a, x, k) == Elem * LinearId(a.size, [d \in 1 .. 3 |-> a.off[d] + x[d]]) + k

(* The bytes of the two parts, element by element.                         *)
Wanted ==
  IF req.kind = "copy"
    THEN {<<Byte(req.src, x, k), Byte(req.dst, x, k)>> :
            x \in Ids(req.src.range), k \in 0 .. Elem - 1}
    ELSE {<<0, Byte(req.dst, x, k)>> : x \in Ids(req.dst.range), k \in 0 .. Elem - 1}

Places_of(r) == IF r.kind = "copy" THEN {r.src, r.dst} ELSE {r.dst}

RowsWhole(a) == Whole(a, 3)

(* A copy moves what it was asked to if the rows of both parts are whole,  *)
(* or if one part is of several planes and not all of its buffer's.        *)
CopiesWholeRows ==
  moved # {} /\ req.kind = "copy"
    /\ ((\A a \in Places_of(req) : RowsWhole(a)) \/ (\E a \in Places_of(req) : ~Whole(a, 1)))
      => moved = Wanted

(* A fill writes the part that its accessor names.                         *)
FillsRegion == moved # {} /\ req.kind = "fill" => moved = Wanted

(* Whatever it was asked, a copy touches no byte that is not in the        *)
(* buffers or in the program's memory, and writes none twice.              *)
StaysInside ==
  req # NONE =>
    \A m \in moved :
      /\ m[2] \in 0 .. Elem * Count(req.dst.size) - 1
      /\ req.kind = "copy" => m[1] \in 0 .. Elem * Count(req.src.size) - 1
      /\ \A n \in moved : m[2] = n[2] => m = n

(* The GPUs take the same command and move the same bytes, and so does     *)
(* IRIS if it takes the command.                                           *)
GpuAgrees ==
  cmd.kind = "copy" =>
    /\ ~Terminates(cmd) /\ ~GpuRefuses(cmd)
    /\ GpuMoves(cmd) = CpuMoves(cmd)
    /\ IrisAborts(cmd) \/ IrisMoves(cmd) = CpuMoves(cmd)

(* A copy moves the parts it was asked to, whatever their shape.           *)
(* (The code does not satisfy this; README.md, "Disagreements".)           *)
CopiesRegion == moved # {} /\ req.kind = "copy" => moved = Wanted
=============================================================================
