----------------------------- MODULE HandlerBind -----------------------------
(***************************************************************************)
(* Binding the arguments of a kernel: handler::do_bind and __bind          *)
(* (include/charm/sycl/handler.ipp), handler_impl (lib/sycl/handler.cpp)   *)
(* and the storage of the arguments in a task.  The accessors of a command *)
(* group are looked at twice under the lock of the dependency manager:     *)
(* first to collect which buffers are used and how, then to register one   *)
(* dependency per buffer, in the order of the arguments, with a mode       *)
(* merged from all of its accessors.                                       *)
(*                                                                         *)
(* A buffer is its address.  Sizes and alignments are small numbers.       *)
(***************************************************************************)
EXTENDS Integers, Sequences, FiniteSets

CONSTANTS
  Groups,      \* command groups, each of a thread of its own
  Buffers,     \* addresses of the buffers the kernels use
  Args,        \* what an argument of a kernel may be
  MaxArgs,     \* how many a kernel has at most
  Word,        \* size and alignment of a pointer
  MaxAlign,    \* alignof(std::max_align_t)
  ArrayAlign,  \* alignment of a local array, 16 in the code
  CanThrow     \* may registering an argument throw (the memory runs out)?

Alignments == {1, 2, 4, 8, 16}
Modes == {"read", "write", "read_write", "discard_write", "discard_read_write"}

NOBODY == "nobody"

BindAssumption ==
  /\ NOBODY \notin Groups
  /\ Buffers \subseteq Nat \ {0}
  /\ Args \subseteq [kind : {"accessor"}, buff : Buffers, mode : Modes]
         \cup [kind : {"value"}, size : Nat]
         \cup [kind : {"local"}, size : Nat, align : Alignments, array : BOOLEAN]
  /\ MaxArgs \in Nat /\ {Word, MaxAlign, ArrayAlign} \subseteq Alignments
  /\ Word <= MaxAlign /\ CanThrow \in BOOLEAN

VARIABLES
  lock,      \* the holder of the manager's g_lock
  pc,        \* where each group is
  args,      \* its arguments
  idx,       \* the argument it is at
  pairs,     \* handler_impl::pairs_
  deps,      \* the calls of set_buffer_param, in the order of the manager
  latest,    \* buffers whose latest data the device has; the host has the others
  locals,    \* the local memory given to its local accessors
  lmem,      \* handler_impl::lmem_
  params     \* the values of its arguments in the storage of the task

vars == <<lock, pc, args, idx, pairs, deps, latest, locals, lmem, params>>
local == <<locals, lmem>>

NULL == 0
Bits == {"keep", "w", "r"}

(* access_mode is a set of bits: 0x4 keeps the old data.                   *)
Mode(m) ==
  CASE m = "read"               -> {"keep", "r"}
    [] m = "write"              -> {"keep", "w"}
    [] m = "read_write"         -> {"keep", "w", "r"}
    [] m = "discard_write"      -> {"w"}
    [] m = "discard_read_write" -> {"w", "r"}

to_dep(bits) ==
  CASE bits = Mode("read")          -> "read_only"
    [] bits = Mode("discard_write") -> "write_only"
    [] OTHER                        -> "read_write"

(* (addr & ~mask) + align for an address that is not aligned.              *)
Align(addr, align) == IF addr % align = 0 THEN addr ELSE (addr - (addr % align)) + align

Fresh == [idx |-> NULL, buff |-> NULL, mode |-> {}]

Before(p, q) == p.buff < q.buff \/ (p.buff = q.buff /\ p.idx < q.idx)

Init ==
  /\ lock = NOBODY
  /\ pc = [g \in Groups |-> "group"]
  /\ args = [g \in Groups |-> <<>>]
  /\ idx = [g \in Groups |-> 1]
  /\ pairs = [g \in Groups |-> <<>>]
  /\ deps = <<>>
  /\ latest = {}
  /\ locals = [g \in Groups |-> <<>>]
  /\ lmem = [g \in Groups |-> 0]
  /\ params = [g \in Groups |-> <<>>]
-----------------------------------------------------------------------------
alloc_smem(next, bytes, align, array) ==
  Align(next, IF array /\ align < ArrayAlign THEN ArrayAlign ELSE align)

(* The program makes the next argument; a local accessor gets its memory.  *)
MakeArg(g) ==
  /\ pc[g] = "group"
  /\ Len(args[g]) < MaxArgs
  /\ \E a \in Args :
       /\ args' = [args EXCEPT ![g] = Append(@, a)]
       /\ IF a.kind # "local"
          THEN UNCHANGED local
          ELSE LET off == alloc_smem(lmem[g], a.size, a.align, a.array)
               IN  /\ lmem' = [lmem EXCEPT ![g] = off + a.size]
                   /\ locals' = [locals EXCEPT ![g] = Append(@, [off |-> off, of |-> a])]
  /\ UNCHANGED <<lock, pc, idx, pairs, deps, latest, params>>

(* reserve_binds and begin_binds, which takes g_lock.                      *)
begin_binds(g) ==
  /\ pc[g] = "group" /\ args[g] # <<>>
  /\ lock = NOBODY
  /\ lock' = g
  /\ pc' = [pc EXCEPT ![g] = "pre"]
  /\ pairs' = [pairs EXCEPT ![g] = [i \in 1 .. Len(args[g]) |-> Fresh]]
  /\ UNCHANGED <<args, idx, deps, latest, local, params>>

(* One pre_bind: only an accessor sets the buffer and the mode.            *)
pre_bind(g) ==
  /\ pc[g] = "pre" /\ idx[g] <= Len(args[g])
  /\ LET i == idx[g]
         a == args[g][i]
     IN  pairs' = [pairs EXCEPT ![g][i] =
                     IF a.kind = "accessor"
                     THEN [idx |-> i, buff |-> a.buff, mode |-> Mode(a.mode)]
                     ELSE [@ EXCEPT !.idx = i]]
  /\ idx' = [idx EXCEPT ![g] = @ + 1]
  /\ UNCHANGED <<lock, pc, args, deps, latest, local, params>>

(* The lists of the same pairs in which each is before the next ones.      *)
Sorted(ps) ==
  LET places == DOMAIN ps
  IN  {[k \in places |-> ps[p[k]]] :
         p \in {p \in [places -> places] :
                 /\ \A i \in places : \E k \in places : p[k] = i
                 /\ \A k, l \in places : k < l => Before(ps[p[k]], ps[p[l]])}}

(* stable_sort by the buffer, then by the index.                           *)
end_pre_binds(g) ==
  /\ pc[g] = "pre" /\ idx[g] > Len(args[g])
  /\ \E ps \in Sorted(pairs[g]) : pairs' = [pairs EXCEPT ![g] = ps]
  /\ idx' = [idx EXCEPT ![g] = 1]
  /\ pc' = [pc EXCEPT ![g] = "bind"]
  /\ UNCHANGED <<lock, args, deps, latest, local, params>>
-----------------------------------------------------------------------------
merged_fault(ps, head) ==
  IF head = 1 \/ ps[head].buff # ps[head - 1].buff THEN to_dep(ps[head].mode) ELSE "none"

(* The access that the pair at head registers: the first of its buffer     *)
(* stands for all of them.                                                 *)
merged(ps, head) ==
  IF head = 1 \/ ps[head].buff # ps[head - 1].buff
  THEN to_dep(UNION {ps[k].mode : k \in {k \in head .. Len(ps) : ps[k].buff = ps[head].buff}})
  ELSE "none"

(* next_param_ptr and add_param: the next place of the storage.            *)
next_param(ps, size, align) ==
  [off |-> Align(IF ps = <<>> THEN 0 ELSE ps[Len(ps)].off + ps[Len(ps)].size, align),
   size |-> size, align |-> align]

(* task_impl::depends: the domain that the data of the buffer is to be     *)
(* taken from.                                                             *)
depends(b, acc) == IF b \in latest THEN "device" ELSE "host"

(* lower_bound finds the pair of an index.                                 *)
place(ps, i) == CHOOSE k \in 1 .. Len(ps) : ps[k].idx = i

(* handler_impl::bind(accessor).                                           *)
BindAccessor(g, a) ==
  LET head == place(pairs[g], idx[g])
      acc == merged(pairs[g], head)
      dom == depends(a.buff, acc)
  IN  /\ deps' = Append(deps, [group |-> g, buff |-> a.buff, acc |-> acc,
                               copied |-> acc # "write_only" /\ dom = "host"])
      /\ latest' = IF acc = "none" THEN latest ELSE latest \cup {a.buff}
      /\ params' = [params EXCEPT ![g] = Append(@, next_param(@, Word, Word))]

BindValue(g, a) ==
  /\ params' = [params EXCEPT ![g] = Append(@, next_param(@, a.size, MaxAlign))]
  /\ UNCHANGED <<deps, latest>>

bind(g) ==
  /\ pc[g] = "bind" /\ idx[g] <= Len(args[g])
  /\ LET a == args[g][idx[g]]
     IN  \/ a.kind = "accessor" /\ BindAccessor(g, a)
         \/ a.kind = "value"    /\ BindValue(g, a)
         \/ a.kind = "local"    /\ UNCHANGED <<deps, latest, params>>
  /\ idx' = [idx EXCEPT ![g] = @ + 1]
  /\ UNCHANGED <<lock, pc, args, pairs, local>>

end_binds(g) ==
  /\ pc[g] = "bind" /\ idx[g] > Len(args[g])
  /\ lock' = NOBODY
  /\ pc' = [pc EXCEPT ![g] = "bound"]
  /\ UNCHANGED <<args, idx, pairs, deps, latest, local, params>>

(* The handler catches what a bind throws, ends the binds and throws it    *)
(* again: the group is not submitted.                                      *)
bind_throws(g) ==
  /\ CanThrow /\ pc[g] \in {"pre", "bind"} /\ idx[g] <= Len(args[g])
  /\ lock' = NOBODY
  /\ pc' = [pc EXCEPT ![g] = "thrown"]
  /\ UNCHANGED <<args, idx, pairs, deps, latest, local, params>>

do_bind(g) ==
  begin_binds(g) \/ pre_bind(g) \/ end_pre_binds(g) \/ bind(g) \/ end_binds(g) \/ bind_throws(g)

Finished == (\A g \in Groups : pc[g] \in {"bound", "thrown"}) /\ UNCHANGED vars

Next == (\E g \in Groups : MakeArg(g) \/ do_bind(g)) \/ Finished

Spec == Init /\ [][Next]_vars

(* A thread goes on with what it has started, and one that waits for a     *)
(* std::mutex which stays free gets it.                                    *)
Fairness == \A g \in Groups : WF_vars(do_bind(g))

FairSpec == Spec /\ Fairness
-----------------------------------------------------------------------------
Dep == [group : Groups, buff : Buffers, acc : {"none", "read_only", "write_only", "read_write"},
        copied : BOOLEAN]

(* The types of the variables; and a group holds the lock while it binds.  *)
TypeOK ==
  /\ lock \in Groups \cup {NOBODY}
  /\ pc \in [Groups -> {"group", "pre", "bind", "bound", "thrown"}]
  /\ args \in [Groups -> Seq(Args)]
  /\ idx \in [Groups -> Nat]
  /\ pairs \in [Groups -> Seq([idx : Nat, buff : Buffers \cup {NULL}, mode : SUBSET Bits])]
  /\ deps \in Seq(Dep)
  /\ latest \subseteq Buffers
  /\ \A g \in Groups : pc[g] \in {"pre", "bind"} <=> lock = g

(* What an accessor needs of the access that is registered.                *)
Covers(acc, m) ==
  /\ "keep" \in Mode(m) => acc \in {"read_only", "read_write"}
  /\ "w" \in Mode(m) => acc \in {"write_only", "read_write"}

Accessors(g) == {i \in 1 .. Len(args[g]) : args[g][i].kind = "accessor"}
DepsOf(g, b) == {k \in 1 .. Len(deps) : deps[k].group = g /\ deps[k].buff = b}

(* A bound command group has registered one dependency for each of its     *)
(* buffers, before the kernel gets any other accessor of it, and strong    *)
(* enough for all of them, however many they are and in whatever order.    *)
OneDependency ==
  \A g \in Groups : pc[g] = "bound" =>
    \A i \in Accessors(g) :
      LET ks == DepsOf(g, args[g][i].buff)
      IN  \E k \in ks :
            /\ Covers(deps[k].acc, args[g][i].mode)
            /\ \A l \in ks \ {k} : k < l /\ deps[l].acc = "none"

(* A command group copies a buffer at most once: an accessor that          *)
(* registers no dependency finds the data where the first brought it.      *)
OneCopy == \A k \in 1 .. Len(deps) : deps[k].copied => deps[k].acc # "none"

(* Two command groups register the buffers they share in the same order,   *)
(* whichever way their threads interleave and whether or not one of them   *)
(* gives up: they cannot wait for each other.                              *)
SameOrder ==
  \A g, h \in Groups : \A k1, k2, l1, l2 \in 1 .. Len(deps) :
    ( /\ g # h
      /\ deps[k1].group = g /\ deps[k2].group = h /\ deps[k1].buff = deps[k2].buff
      /\ deps[l1].group = g /\ deps[l2].group = h /\ deps[l1].buff = deps[l2].buff
      /\ k1 < k2 )
    => l1 < l2

(* The memory of the local accessors of a group lies apart, inside what    *)
(* the kernel is given, aligned as each asks.                              *)
LocalsApart ==
  \A g \in Groups : \A k \in 1 .. Len(locals[g]) :
    LET l == locals[g][k]
    IN  /\ l.off % l.of.align = 0
        /\ l.of.array => l.off % ArrayAlign = 0
        /\ l.off + l.of.size <= lmem[g]
        /\ k > 1 => locals[g][k - 1].off + locals[g][k - 1].of.size <= l.off

(* A bound kernel gets the values of its arguments in order, apart from    *)
(* each other and aligned; a local accessor has none.                      *)
ParamsApart ==
  \A g \in Groups :
    /\ pc[g] = "bound" =>
         Len(params[g]) = Cardinality({i \in 1 .. Len(args[g]) : args[g][i].kind # "local"})
    /\ \A k \in 1 .. Len(params[g]) :
         LET p == params[g][k]
         IN  /\ p.off % p.align = 0
             /\ k > 1 => params[g][k - 1].off + params[g][k - 1].size <= p.off
=============================================================================
