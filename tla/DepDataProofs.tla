--------------------------- MODULE DepDataProofs ---------------------------
(* Proofs about the data that DepManager keeps track of, when one thread   *)
(* at a time submits: versions are new, the owner of a buffer has the      *)
(* latest one, memories that have it agree, and every task reads what the  *)
(* tasks bound before it wrote.  For every number of tasks, buffers and    *)
(* domains.                                                                *)
EXTENDS DepManagerProofs

USE DepAssumption DEF Dom

(* What a task has done to the memory stays.                               *)
Final(t) == stage[t] = "done" /\ t \notin live

Pending(t) == stage[t] \in {"bound", "submitted"}

(* Where a task gets the data of b from that it reads.                     *)
Source(t, b, d) == Copies(t, b, d) \/ (Loads(t, b, d) /\ group[t].from[b] = NONE)

(* What a task that stores leaves in its target.                           *)
Leaves(t, b) == IF Writes(group[t].acc[b]) THEN t ELSE want[t][b]

(* The memory of b in d has x, if not yet, then when w is through.         *)
Holds(b, d, w, x) ==
  /\ w = NONE \/ Final(w) => mem[b][d] = x
  /\ w # NONE => Leaves(w, b) = x

(* w is the last to store to b in d before t reads it there: all others    *)
(* come before w or wait for t.                                            *)
Serves(w, t, b, d) ==
  /\ \A u \in Task \ {t} : Stores(u, b, d) => UpTo(u, w) \/ Behind(t, u)
  /\ w # NONE => w \in before[t] /\ w \notin live /\ stage[w] # "open" /\ Stores(w, b, d)
  /\ Holds(b, d, w, want[t][b])

(* fill_zero: one at a time, of a buffer that no host accessor has, with a *)
(* version that is still new.                                              *)
FillInv ==
  /\ \A t, u \in Filling : t = u
  /\ \A t \in Filling : fill[t].ver = ver[fill[t].buf] + 1 /\ Free(fill[t].buf)

(* The writer of a memory_state is a task that stores there.               *)
WriterInv ==
  \A b \in Buffer, d \in Dom :
    state[b][d].writer # NONE =>
      stage[state[b][d].writer] # "open" /\ Stores(state[b][d].writer, b, d)

(* Nobody stores to the host's memory after a host accessor that lives.    *)
HolderInv ==
  \A h \in live, b \in Buffer : Stores(h, b, HOST) => state[b][HOST].writer = h

ValueInv ==
  \A b \in Buffer, d \in Dom : HasLatest(b, d) => Holds(b, d, state[b][d].writer, last[b])

(* What a task reads is in its target, copied there or not, and is not     *)
(* overwritten while the task runs.                                        *)
LoadedInv ==
  \A t \in Task, b \in Buffer :
    Running(t) /\ Reads(group[t].acc[b]) => mem[b][group[t].tgt] = want[t][b]

SourceInv ==
  \A t \in Task, b \in Buffer, d \in Dom :
    Pending(t) /\ Source(t, b, d) => \E w \in Writer : Serves(w, t, b, d)

DataInv ==
  /\ OwnerHasLatest /\ WriterInv /\ HolderInv /\ ValueInv /\ LoadedInv /\ SourceInv
  /\ ReadsLatest
-----------------------------------------------------------------------------
LEMMA DataInit == Init => FillInv /\ DataInv
<1> SUFFICES ASSUME Init PROVE FillInv /\ DataInv
  OBVIOUS
<1>1. FillInv
  BY DEF Init, FillInv, Filling, NoFill
<1>2. OwnerHasLatest
  <2>1. \A b \in Buffer : ver[b] = 1 /\ owner[b] = HOST
    BY DEF Init, HOST_INIT_VER
  <2>2. \A b \in Buffer, d \in Dom : state[b][d].ver = IF d = HOST THEN 1 ELSE 0
    BY DEF Init, HOST_INIT_VER, DEV_INIT_VER
  <2> QED BY <2>1, <2>2 DEF OwnerHasLatest, HasLatest
<1>3. WriterInv /\ HolderInv
  BY DEF Init, WriterInv, HolderInv
<1>4. ValueInv
  <2> SUFFICES ASSUME NEW b \in Buffer, NEW d \in Dom, HasLatest(b, d)
               PROVE  Holds(b, d, state[b][d].writer, last[b])
    BY DEF ValueInv
  <2>1. d = HOST
    BY DEF Init, HasLatest, HOST_INIT_VER, DEV_INIT_VER
  <2> QED BY <2>1 DEF Init, Holds
<1>5. \A t \in Task : stage[t] = "open"
  BY DEF Init, graph!TGInit
<1>6. LoadedInv /\ SourceInv /\ ReadsLatest
  BY <1>5 DEF Init, LoadedInv, Running, SourceInv, Pending, ReadsLatest
<1> QED BY <1>1, <1>2, <1>3, <1>4, <1>6 DEF DataInv

(* What binding a task does to versions and to what is wanted.  A buffer   *)
(* is written, copied to the target, or only read there.                   *)
Updates(n) ==
  /\ \A b \in Buffer :
       LET tgt == group'[n].tgt
           Same(d) == /\ state'[b][d].ver = state[b][d].ver
                      /\ state'[b][d].writer = state[b][d].writer
       IN  \/ /\ Writes(group'[n].acc[b])
              /\ ver'[b] = ver[b] + 1 /\ owner'[b] = tgt /\ last'[b] = n
              /\ state'[b][tgt].ver = ver[b] + 1 /\ state'[b][tgt].writer = n
              /\ \A d \in Dom \ {tgt} : Same(d)
           \/ /\ ~Writes(group'[n].acc[b]) /\ group'[n].from[b] # NONE
              /\ ver'[b] = ver[b] /\ owner'[b] = owner[b] /\ last'[b] = last[b]
              /\ state'[b][tgt].ver = ver[b] /\ state'[b][tgt].writer = n
              /\ \A d \in Dom \ {tgt} : Same(d)
           \/ /\ ~Writes(group'[n].acc[b]) /\ group'[n].from[b] = NONE
              /\ ver'[b] = ver[b] /\ owner'[b] = owner[b] /\ last'[b] = last[b]
              /\ \A d \in Dom : Same(d)
  /\ \A b \in Buffer, d \in Dom : Source(n, b, d)' => HasLatest(b, d)
  /\ want'[n] = last /\ \A u \in Task \ {n} : want'[u] = want[u]
  /\ mem' = mem /\ seen' = seen

(* What is left of a memory_state by the functions that change it.         *)
LEMMA StateVersions ==
  ASSUME NEW s \in State, NEW t \in Task, NEW v \in Nat
  PROVE  /\ PrepareWrite(s, t, v).ver = v /\ PrepareWrite(s, t, v).writer = t
         /\ PrepareRead(s, t).ver = s.ver /\ PrepareRead(s, t).writer = s.writer
BY DEF State, PrepareWrite, PrepareRead

LEMMA PreparedAt ==
  ASSUME TypeOK, NEW t \in Task, NEW b \in Buffer, NEW a \in Access, NEW tgt \in Dom,
         NEW v \in Nat, NEW d \in Dom
  PROVE  LET s == Prepared(t, b, a, tgt, v)[d]
         IN  /\ d \in WriteAt(b, a, tgt) => s.ver = v /\ s.writer = t
             /\ d \notin WriteAt(b, a, tgt) =>
                  s.ver = state[b][d].ver /\ s.writer = state[b][d].writer
<1>1. Prepared(t, b, a, tgt, v)[d] =
        IF d \in WriteAt(b, a, tgt) THEN PrepareWrite(state[b][d], t, v)
        ELSE IF d \in ReadAt(b, a, tgt) THEN PrepareRead(state[b][d], t)
        ELSE state[b][d]
  BY DEF Prepared
<1>2. state[b][d] \in State
  BY DEF TypeOK
<1> QED BY <1>1, <1>2, StateVersions

LEMMA BindAllUpdates ==
  ASSUME TypeOK, OwnerHasLatest, NEW n \in Task, NEW tgt \in Dom,
         NEW acc \in [Buffer -> Access], BindAll(n, tgt, acc), mem' = mem, seen' = seen
  PROVE  Updates(n)
<1>1. /\ group'[n].tgt = tgt /\ group'[n].acc = acc
      /\ \A b \in Buffer : group'[n].from[b] = CopyFrom(b, acc[b], tgt)
  BY DEF BindAll, TypeOK
<1>2. want'[n] = last /\ \A u \in Task \ {n} : want'[u] = want[u]
  BY DEF BindAll, TypeOK
<1>3. ASSUME NEW b \in Buffer
      PROVE  LET Same(d) == /\ state'[b][d].ver = state[b][d].ver
                            /\ state'[b][d].writer = state[b][d].writer
             IN  \/ /\ Writes(acc[b])
                    /\ ver'[b] = ver[b] + 1 /\ owner'[b] = tgt /\ last'[b] = n
                    /\ state'[b][tgt].ver = ver[b] + 1 /\ state'[b][tgt].writer = n
                    /\ \A d \in Dom \ {tgt} : Same(d)
                 \/ /\ ~Writes(acc[b]) /\ group'[n].from[b] # NONE
                    /\ ver'[b] = ver[b] /\ owner'[b] = owner[b] /\ last'[b] = last[b]
                    /\ state'[b][tgt].ver = ver[b] /\ state'[b][tgt].writer = n
                    /\ \A d \in Dom \ {tgt} : Same(d)
                 \/ /\ ~Writes(acc[b]) /\ group'[n].from[b] = NONE
                    /\ ver'[b] = ver[b] /\ owner'[b] = owner[b] /\ last'[b] = last[b]
                    /\ \A d \in Dom : Same(d)
  <2> DEFINE a == acc[b]
             v == NewVersion(b, a, tgt)
  <2>1. /\ a \in Access /\ v \in Nat /\ owner[b] \in Dom /\ ver[b] \in Nat
        /\ \A d \in Dom : state[b][d] \in State
    <3>1. owner[b] \in Dom /\ ver[b] \in Nat /\ \A d \in Dom : state[b][d] \in State
      BY DEF TypeOK
    <3>2. NewVersion(b, acc[b], tgt) \in Nat
      BY AccessTypes
    <3> QED BY <3>1, <3>2
  <2>2. v = IF Writes(a) THEN ver[b] + 1 ELSE ver[b]
    BY <2>1 DEF NewVersion, OwnerHasLatest, HasLatest
  <2>3. /\ \A d \in Dom : state'[b][d] = Prepared(n, b, a, tgt, v)[d]
        /\ ver'[b] = IF Writes(a) THEN v ELSE ver[b]
        /\ owner'[b] = IF Writes(a) THEN tgt ELSE owner[b]
        /\ last'[b] = IF Writes(a) THEN n ELSE last[b]
    BY DEF BindAll
  <2>4. \A d \in Dom :
          /\ d \in WriteAt(b, a, tgt) => state'[b][d].ver = v /\ state'[b][d].writer = n
          /\ d \notin WriteAt(b, a, tgt) => /\ state'[b][d].ver = state[b][d].ver
                                            /\ state'[b][d].writer = state[b][d].writer
    <3> HIDE DEF a, v
    <3> QED BY <2>1, <2>3, PreparedAt
  <2>5. /\ Writes(a) => WriteAt(b, a, tgt) = {tgt}
        /\ ~Writes(a) /\ CopyFrom(b, a, tgt) # NONE => WriteAt(b, a, tgt) = {tgt}
        /\ ~Writes(a) /\ CopyFrom(b, a, tgt) = NONE => WriteAt(b, a, tgt) = {}
    BY <2>1 DEF WriteAt, CopyFrom, Writes, Reads, Access
  <2> QED BY <1>1, <2>2, <2>3, <2>4, <2>5
<1>4. ASSUME NEW b \in Buffer, NEW d \in Dom, Source(n, b, d)' PROVE HasLatest(b, d)
  BY <1>1, <1>4 DEF Source, Copies, Loads, CopyFrom, OwnerHasLatest, TypeOK
<1> QED BY <1>1, <1>2, <1>3, <1>4 DEF Updates

LEMMA FillEndUpdates ==
  ASSUME TypeOK, GroupInv, FillInv, OwnerHasLatest, NEW n \in Task, FillEnd(n)
  PROVE  Updates(n)
<1> DEFINE c == fill[n].buf
           tgt == fill[n].tgt
<1>1. /\ c \in Buffer /\ tgt \in Dom /\ ver[c] \in Nat
      /\ fill[n].ver = ver[c] + 1
  BY DEF FillEnd, TypeOK, Fill, FillInv, Filling
<1>2. /\ group'[n].tgt = tgt /\ group'[n].acc = [NoGroup.acc EXCEPT ![c] = "write_only"]
      /\ \A b \in Buffer : group'[n].from[b] = NONE
  BY DEF FillEnd, TypeOK, NoGroup
<1>3. /\ Writes(group'[n].acc[c]) /\ ~Reads(group'[n].acc[c])
      /\ \A b \in Buffer \ {c} : ~Writes(group'[n].acc[b]) /\ ~Reads(group'[n].acc[b])
  BY <1>1, <1>2 DEF NoGroup, Writes, Reads
<1>4. /\ ver'[c] = ver[c] + 1 /\ owner'[c] = tgt /\ last'[c] = n
      /\ \A b \in Buffer \ {c} :
           ver'[b] = ver[b] /\ owner'[b] = owner[b] /\ last'[b] = last[b]
  BY <1>1 DEF FillEnd, TypeOK
<1>5. /\ state'[c][tgt] = PrepareWrite(state[c][tgt], n, ver[c] + 1)
      /\ \A b \in Buffer, d \in Dom : b # c \/ d # tgt => state'[b][d] = state[b][d]
  <2>1. state' = [state EXCEPT ![c] =
                   [state[c] EXCEPT ![tgt] = PrepareWrite(state[c][tgt], n, ver[c] + 1)]]
    BY <1>1 DEF FillEnd
  <2> QED BY <1>1, <2>1 DEF TypeOK
<1>6. state'[c][tgt].ver = ver[c] + 1 /\ state'[c][tgt].writer = n
  <2>1. state[c][tgt] \in State
    BY <1>1 DEF TypeOK
  <2>2. ver[c] + 1 \in Nat
    BY <1>1
  <2> QED BY <1>5, <2>1, <2>2, StateVersions
<1>7. /\ want'[n] = last /\ \A u \in Task \ {n} : want'[u] = want[u]
      /\ mem' = mem /\ seen' = seen
  BY DEF FillEnd, TypeOK
<1>8. \A b \in Buffer, d \in Dom : ~Source(n, b, d)'
  BY <1>2, <1>3 DEF Source, Copies, Loads
<1>9. ASSUME NEW b \in Buffer
      PROVE  LET Same(d) == /\ state'[b][d].ver = state[b][d].ver
                            /\ state'[b][d].writer = state[b][d].writer
             IN  \/ /\ Writes(group'[n].acc[b])
                    /\ ver'[b] = ver[b] + 1 /\ owner'[b] = tgt /\ last'[b] = n
                    /\ state'[b][tgt].ver = ver[b] + 1 /\ state'[b][tgt].writer = n
                    /\ \A d \in Dom \ {tgt} : Same(d)
                 \/ /\ ~Writes(group'[n].acc[b]) /\ group'[n].from[b] = NONE
                    /\ ver'[b] = ver[b] /\ owner'[b] = owner[b] /\ last'[b] = last[b]
                    /\ \A d \in Dom : Same(d)
  <2>1. CASE b = c
    BY <1>3, <1>4, <1>5, <1>6, <2>1
  <2>2. CASE b # c
    BY <1>2, <1>3, <1>4, <1>5, <2>2
  <2> QED BY <2>1, <2>2
<1> QED BY <1>2, <1>7, <1>8, <1>9 DEF Updates
-----------------------------------------------------------------------------
(* A task enters.                                                          *)
LEMMA EnterHolds ==
  ASSUME NEW n \in Task, Enters(n), Updates(n), live \subseteq live',
         NEW b \in Buffer, NEW d \in Dom, NEW w \in Writer, w # n, NEW x,
         Holds(b, d, w, x)
  PROVE  Holds(b, d, w, x)'
<1>1. w # NONE => /\ w \in Task \ {n} /\ stage'[w] = stage[w] /\ group'[w] = group[w]
                  /\ want'[w] = want[w]
  BY DEF Writer, Enters, Updates
<1>2. mem' = mem
  BY DEF Updates
<1>3. w # NONE => Leaves(w, b)' = Leaves(w, b) /\ (Final(w)' => Final(w))
  BY <1>1 DEF Leaves, Final
<1> QED BY <1>2, <1>3 DEF Holds

LEMMA EnterVersions ==
  ASSUME TypeOK, NEW n \in Task, group'[n].tgt \in Dom, Updates(n), OwnerHasLatest
  PROVE  OwnerHasLatest'
<1> SUFFICES ASSUME NEW b \in Buffer
             PROVE  /\ state'[b][owner'[b]].ver = ver'[b]
                    /\ \A d \in Dom : state'[b][d].ver <= ver'[b]
  BY DEF OwnerHasLatest, HasLatest
<1>1. /\ owner[b] \in Dom /\ ver[b] \in Nat /\ state[b][owner[b]].ver = ver[b]
      /\ \A d \in Dom : state[b][d].ver \in Nat /\ state[b][d].ver <= ver[b]
  BY DEF TypeOK, State, OwnerHasLatest, HasLatest
<1>2. \A d \in Dom : \/ state'[b][d].ver = state[b][d].ver
                     \/ d = group'[n].tgt /\ state'[b][d].ver = ver'[b]
  BY DEF Updates
<1>3. \/ ver'[b] = ver[b] /\ owner'[b] = owner[b]
      \/ /\ ver'[b] = ver[b] + 1 /\ owner'[b] = group'[n].tgt
         /\ state'[b][group'[n].tgt].ver = ver'[b]
  BY DEF Updates
<1>4. \A d \in Dom : state'[b][d].ver <= ver'[b]
  BY <1>1, <1>2, <1>3
<1>5. state'[b][owner'[b]].ver = ver'[b]
  BY <1>1, <1>2, <1>3
<1> QED BY <1>4, <1>5

(* The writer of a memory_state stays or becomes the task that enters,     *)
(* which then stores there.                                                *)
LEMMA EnterWriters ==
  ASSUME TypeOK, NEW n \in Task, Enters(n), Updates(n), WriterInv
  PROVE  /\ WriterInv'
         /\ \A b \in Buffer, d \in Dom :
              \/ state'[b][d].writer = n /\ Stores(n, b, d)'
              \/ state'[b][d].writer = state[b][d].writer /\ ~Stores(n, b, d)'
         /\ \A b \in Buffer, d \in Dom : state[b][d].writer # n
<1>1. \A b \in Buffer, d \in Dom : state[b][d].writer \in Writer
  BY DEF TypeOK, State
<1>2. \A b \in Buffer, d \in Dom : state[b][d].writer # n
  BY DEF WriterInv, Enters, Writer
<1>3. \A b \in Buffer, d \in Dom :
        \/ state'[b][d].writer = n /\ Stores(n, b, d)'
        \/ state'[b][d].writer = state[b][d].writer /\ ~Stores(n, b, d)'
  BY DEF Updates, Stores
<1>4. ASSUME NEW b \in Buffer, NEW d \in Dom, NEW w \in Task, w = state'[b][d].writer
      PROVE  stage'[w] # "open" /\ Stores(w, b, d)'
  <2>1. CASE w = n
    BY <1>2, <1>3, <1>4, <2>1 DEF Enters
  <2>2. CASE w # n
    <3>1. stage[w] # "open" /\ Stores(w, b, d)
      BY <1>3, <1>4, <2>2 DEF WriterInv
    <3> QED BY <2>2, <3>1, EnterSame DEF Enters
  <2> QED BY <2>1, <2>2
<1>5. WriterInv'
  <2> SUFFICES ASSUME NEW b \in Buffer, NEW d \in Dom, state'[b][d].writer # NONE
               PROVE  (stage[state[b][d].writer] # "open" /\ Stores(state[b][d].writer, b, d))'
    BY DEF WriterInv
  <2>1. state'[b][d].writer \in Task
    BY <1>1, <1>3 DEF Writer
  <2> QED BY <1>4, <2>1 DEF Stores
<1> QED BY <1>2, <1>3, <1>5

(* No host accessor lives for what the task is bound to.                   *)
Apart(n) ==
  /\ live' = live \/ live' = live \union {n}
  /\ \A h \in live, b \in Buffer : group[h].acc[b] = "unused" \/ group'[n].acc[b] = "unused"

LEMMA EnterHolder ==
  ASSUME TypeOK, LiveInv, GroupInv, GroupInv', NEW n \in Task, Enters(n), Updates(n), Apart(n),
         WriterInv, HolderInv
  PROVE  HolderInv'
<1> SUFFICES ASSUME NEW h \in live', NEW b \in Buffer, Stores(h, b, HOST)'
             PROVE  state'[b][HOST].writer = h
  BY DEF HolderInv
<1>1. HOST \in Dom
  OBVIOUS
<1>2. CASE h = n
  BY <1>1, <1>2, EnterWriters
<1>3. CASE h # n
  <2>1. h \in live /\ h \in Task \ {n}
    BY <1>3 DEF Apart, TypeOK
  <2>2. Stores(h, b, HOST)
    BY <1>1, <2>1, EnterSame
  <2>3. group[h].acc[b] # "unused"
    BY <2>1, <2>2 DEF Stores, Reads, Writes, GroupInv
  <2>4. ~Stores(n, b, HOST)'
    BY <2>1, <2>3 DEF Apart, Stores, Reads, Writes, GroupInv
  <2> QED BY <1>1, <2>1, <2>2, <2>4, EnterWriters DEF HolderInv
<1> QED BY <1>2, <1>3

LEMMA EnterValue ==
  ASSUME TypeOK, NEW n \in Task, Enters(n), Updates(n), live \subseteq live',
         OwnerHasLatest, WriterInv, ValueInv
  PROVE  ValueInv'
<1> SUFFICES ASSUME NEW b \in Buffer, NEW d \in Dom, state'[b][d].ver = ver'[b]
             PROVE  Holds(b, d, state[b][d].writer, last[b])'
  BY DEF ValueInv, HasLatest
<1>1. /\ ver[b] \in Nat /\ state[b][d].ver \in Nat /\ state[b][d].ver <= ver[b]
      /\ state[b][d].writer \in Writer /\ state[b][d].writer # n /\ last[b] \in Writer
  <2>1. state[b][d] \in State /\ ver[b] \in Nat /\ last[b] \in Writer
    BY DEF TypeOK
  <2> QED BY <2>1, EnterWriters DEF State, OwnerHasLatest
<1>2. CASE /\ state'[b][d].ver = state[b][d].ver /\ state'[b][d].writer = state[b][d].writer
           /\ ver'[b] = ver[b] /\ last'[b] = last[b]
  <2>1. PICK w \in Writer, x \in Writer : w = state[b][d].writer /\ x = last[b]
    BY <1>1
  <2>2. Holds(b, d, w, x)
    BY <1>2, <2>1 DEF ValueInv, HasLatest
  <2>3. Holds(b, d, w, x)'
    BY <1>1, <2>1, <2>2, EnterHolds
  <2> QED BY <1>2, <2>1, <2>3 DEF Holds, Leaves
<1>3. CASE /\ state'[b][d].writer = n
           /\ \/ Writes(group'[n].acc[b]) /\ last'[b] = n
              \/ ~Writes(group'[n].acc[b]) /\ last'[b] = last[b]
  <2>1. n # NONE /\ stage'[n] # "done"
    BY DEF Enters
  <2>2. Leaves(n, b)' = last'[b]
    BY <1>3 DEF Leaves, Updates
  <2> QED BY <1>3, <2>1, <2>2 DEF Holds, Final
<1>4. CASE state'[b][d].ver = state[b][d].ver /\ ver'[b] = ver[b] + 1
  <2>1. state[b][d].ver = ver[b] + 1
    BY <1>4
  <2> QED BY <1>1, <2>1
<1> QED BY <1>2, <1>3, <1>4 DEF Updates

(* Where a task finds the latest data it reads it: the writer there is who *)
(* it waits for.                                                           *)
LEMMA EnterServed ==
  ASSUME TypeOK, TypeOK', PlaceInv, GroupInv', NEW n \in Task, Enters(n), Updates(n), Apart(n),
         WriterInv, ValueInv, GroupInv, NEW b \in Buffer, NEW d \in Dom, Source(n, b, d)'
  PROVE  \E w \in Writer : Serves(w, n, b, d)'
<1>1. PICK w \in Writer : w = state[b][d].writer
  BY DEF TypeOK, State
<1>2. w # n
  BY <1>1, EnterWriters
<1>3. Loads(n, b, d)' \/ Copies(n, b, d)'
  BY DEF Source
<1>4. ASSUME NEW u \in Task \ {n}, Stores(u, b, d)' PROVE UpTo(u, w)'
  <2>1. UpTo(u, w)
    BY <1>1, <1>4, EnterSame DEF PlaceInv
  <2> QED BY <2>1, EnterBehind DEF UpTo, Writer
<1>5. ASSUME w # NONE
      PROVE  w \in before'[n] /\ w \notin live' /\ stage'[w] # "open" /\ Stores(w, b, d)'
  <2>1. w \in Task \ {n} /\ stage[w] # "open" /\ Stores(w, b, d)
    BY <1>1, <1>2, <1>5 DEF WriterInv, Writer
  <2>2. w \in before'[n]
    <3>1. \/ WaitsFor(state[b][d], FALSE) \subseteq before'[n]
          \/ WaitsFor(state[b][d], TRUE) \subseteq before'[n]
      BY <1>3 DEF Enters
    <3> QED BY <1>1, <1>5, <3>1 DEF WaitsFor
  <2>3. group'[n].acc[b] # "unused"
    BY <1>3 DEF Loads, Copies, GroupInv, Reads
  <2>4. group[w].acc[b] # "unused"
    BY <2>1 DEF Stores, GroupInv, Reads, Writes
  <2>5. w \notin live'
    BY <2>1, <2>3, <2>4 DEF Apart
  <2>6. stage'[w] # "open" /\ Stores(w, b, d)'
    BY <2>1, EnterSame DEF Enters
  <2> QED BY <2>2, <2>5, <2>6
<1>6. Holds(b, d, w, want[n][b])'
  <2>1. PICK x \in Writer : x = last[b]
    BY DEF TypeOK
  <2>2. Holds(b, d, w, x)
    BY <1>1, <2>1 DEF ValueInv, Updates
  <2>3. Holds(b, d, w, x)'
    BY <1>2, <2>2, EnterHolds DEF Apart
  <2>4. want'[n][b] = x
    BY <2>1 DEF Updates
  <2> QED BY <2>3, <2>4 DEF Holds, Leaves
<1> QED BY <1>4, <1>5, <1>6 DEF Serves

LEMMA EnterSource ==
  ASSUME TypeOK, TypeOK', PlaceInv, GroupInv', NEW n \in Task, Enters(n), Updates(n), Apart(n),
         WriterInv, ValueInv, GroupInv, SourceInv
  PROVE  SourceInv'
<1> SUFFICES ASSUME NEW t \in Task, NEW b \in Buffer, NEW d \in Dom,
                    Pending(t)', Source(t, b, d)'
             PROVE  \E w \in Writer : Serves(w, t, b, d)'
  BY DEF SourceInv
<1>1. CASE t = n
  BY <1>1, EnterServed
<1>2. CASE t # n
  <2>1. Pending(t) /\ Source(t, b, d)
    BY <1>2 DEF Enters, Pending, Source, Loads, Copies
  <2>2. PICK w \in Writer : Serves(w, t, b, d)
    BY <2>1 DEF SourceInv
  <2>3. w # n
    BY <2>2 DEF Serves, Enters
  <2>4. ASSUME NEW u \in Task \ {t}, Stores(u, b, d)' PROVE UpTo(u, w)' \/ Behind(t, u)'
    <3>1. CASE u = n
      BY <1>2, <2>4, <3>1, EnterLast DEF Source
    <3>2. CASE u # n
      <4>1. UpTo(u, w) \/ Behind(t, u)
        BY <2>2, <2>4, <3>2, EnterSame DEF Serves
      <4> QED BY <4>1, EnterBehind DEF UpTo, Writer
    <3> QED BY <3>1, <3>2
  <2>5. ASSUME w # NONE
        PROVE  w \in before'[t] /\ w \notin live' /\ stage'[w] # "open" /\ Stores(w, b, d)'
    <3>1. w \in Task \ {n}
      BY <2>3, <2>5 DEF Writer
    <3> QED BY <1>2, <2>2, <2>5, <3>1, EnterSame DEF Serves, Enters, Apart
  <2>6. Holds(b, d, w, want[t][b])'
    <3>1. PICK x \in Writer : x = want[t][b]
      BY DEF TypeOK
    <3>2. Holds(b, d, w, x)'
      BY <2>2, <2>3, <3>1, EnterHolds DEF Serves, Apart
    <3>3. want'[t][b] = x
      BY <1>2, <3>1 DEF Updates
    <3> QED BY <3>2, <3>3 DEF Holds, Leaves
  <2> QED BY <2>4, <2>5, <2>6 DEF Serves
<1> QED BY <1>1, <1>2

LEMMA DataEnter ==
  ASSUME TypeOK, TypeOK', ConflictInv, ConflictInv', NEW n \in Task, Enters(n), Updates(n),
         Apart(n), DataInv
  PROVE  DataInv'
<1> USE DEF ConflictInv
<1>1. group'[n].tgt \in Dom /\ live \subseteq live'
  BY DEF TypeOK, Group, Apart
<1>2. OwnerHasLatest' /\ WriterInv' /\ HolderInv' /\ ValueInv' /\ SourceInv'
  BY <1>1, EnterVersions, EnterWriters, EnterHolder, EnterValue, EnterSource DEF DataInv
<1>3. LoadedInv'
  <2> SUFFICES ASSUME NEW t \in Task, NEW b \in Buffer, Running(t)', Reads(group'[t].acc[b])
               PROVE  mem'[b][group'[t].tgt] = want'[t][b]
    BY DEF LoadedInv
  <2>1. t # n /\ Running(t) /\ group'[t] = group[t]
    BY DEF Enters, Running, Apart
  <2>2. mem[b][group[t].tgt] = want[t][b]
    BY <2>1 DEF DataInv, LoadedInv
  <2> QED BY <2>1, <2>2 DEF Updates
<1>4. ReadsLatest'
  BY DEF Enters, Updates, DataInv, ReadsLatest
<1> QED BY <1>2, <1>3, <1>4 DEF DataInv
-----------------------------------------------------------------------------
(* A task moves on: nothing is bound, and memory changes at most where it  *)
(* stores.                                                                 *)
Moves(t) ==
  /\ UNCHANGED <<before, bound_vars>> /\ live' \subseteq live
  /\ stage[t] # "open" /\ stage'[t] # "open"
  /\ \A u \in Task \ {t} : stage'[u] = stage[u] /\ (u \in live' <=> u \in live)
  /\ \A b \in Buffer, d \in Dom : mem'[b][d] = mem[b][d] \/ Stores(t, b, d)

LEMMA MovesKeeps ==
  ASSUME TypeOK, NEW t \in Task, Moves(t), DataInv
  PROVE  /\ OwnerHasLatest' /\ WriterInv' /\ HolderInv'
         /\ \A u \in Task, b \in Buffer, d \in Dom :
              /\ Stores(u, b, d)' = Stores(u, b, d) /\ Loads(u, b, d)' = Loads(u, b, d)
              /\ Copies(u, b, d)' = Copies(u, b, d) /\ Source(u, b, d)' = Source(u, b, d)
              /\ Leaves(u, b)' = Leaves(u, b)
         /\ \A u, w \in Task : Behind(u, w)' = Behind(u, w)
         /\ \A u \in Task \ {t} : /\ Final(u)' = Final(u) /\ Running(u)' = Running(u)
                                  /\ Pending(u)' = Pending(u)
<1>1. OwnerHasLatest' /\ HolderInv'
  BY DEF DataInv, Moves, bound_vars, OwnerHasLatest, HasLatest, HolderInv, Stores
<1>2. WriterInv'
  <2> SUFFICES ASSUME NEW b \in Buffer, NEW d \in Dom, state[b][d].writer # NONE
               PROVE  stage'[state[b][d].writer] # "open" /\ Stores(state[b][d].writer, b, d)
    BY DEF WriterInv, Moves, bound_vars, Stores
  <2>1. state[b][d].writer \in Task
    BY DEF TypeOK, State, Writer
  <2> QED BY <2>1 DEF DataInv, WriterInv, Moves
<1>3. \A u \in Task, b \in Buffer, d \in Dom :
        /\ Stores(u, b, d)' = Stores(u, b, d) /\ Loads(u, b, d)' = Loads(u, b, d)
        /\ Copies(u, b, d)' = Copies(u, b, d) /\ Source(u, b, d)' = Source(u, b, d)
        /\ Leaves(u, b)' = Leaves(u, b)
  BY DEF Moves, bound_vars, Stores, Loads, Copies, Source, Leaves
<1>4. \A u, w \in Task : Behind(u, w)' = Behind(u, w)
  BY DEF Moves, Behind, BehindIn
<1>5. \A u \in Task \ {t} : /\ Final(u)' = Final(u) /\ Running(u)' = Running(u)
                            /\ Pending(u)' = Pending(u)
  BY DEF Moves, Final, Running, Pending
<1> QED BY <1>1, <1>2, <1>3, <1>4, <1>5

(* What a task that waits reads is still there, or will be.  The moving    *)
(* task stores nothing there, unless it is the one that is waited for.     *)
LEMMA MovesServe ==
  ASSUME TypeOK, NEW t \in Task, Moves(t), DataInv, NEW u \in Task, NEW w \in Writer,
         NEW b \in Buffer, NEW d \in Dom, Serves(w, u, b, d),
         w = NONE \/ Final(w)' => mem'[b][d] = want[u][b]
  PROVE  Serves(w, u, b, d)'
<1>1. \A v \in Task \ {u} : Stores(v, b, d)' => UpTo(v, w)' \/ Behind(u, v)'
  BY MovesKeeps DEF Serves, UpTo, Writer
<1>2. w # NONE => w \in before'[u] /\ w \notin live' /\ stage'[w] # "open" /\ Stores(w, b, d)'
  <2> SUFFICES ASSUME w # NONE
               PROVE  w \in before'[u] /\ w \notin live' /\ stage'[w] # "open" /\ Stores(w, b, d)'
    OBVIOUS
  <2>1. w \in Task
    BY DEF Writer
  <2> QED BY <2>1, MovesKeeps DEF Serves, Moves
<1>3. w # NONE => Leaves(w, b)' = want'[u][b]
  BY MovesKeeps DEF Serves, Holds, Moves, bound_vars, Writer
<1>4. want' = want
  BY DEF Moves, bound_vars
<1> QED BY <1>1, <1>2, <1>3, <1>4 DEF Serves, Holds

(* A task may run, and fetches what it reads.  The task of a host accessor *)
(* may also be done at once.                                               *)
Starts(t) ==
  /\ Pending(t) /\ \A p \in before[t] : stage[p] = "done"
  /\ stage'[t] = "started" \/ (stage'[t] = "done" /\ t \in live)
  /\ \A u \in Task \ {t} : stage'[u] = stage[u]
  /\ Fetches(t) /\ UNCHANGED <<before, live, bound_vars>>

LEMMA DataStarts ==
  ASSUME TypeOK, TypeOK', ConflictInv, NoConflict', NEW t \in Task, Starts(t), DataInv
  PROVE  DataInv'
<1> USE DEF ConflictInv
<1>1. /\ Pending(t) /\ stage[t] \notin {"open", "started", "done"}
      /\ stage'[t] # "open" /\ Running(t)' /\ ~Final(t)' /\ ~Pending(t)' /\ live' = live
      /\ \A u \in Task \ {t} : stage'[u] = stage[u]
      /\ \A p \in before[t] : stage[p] = "done"
      /\ UNCHANGED <<before, bound_vars>>
  BY DEF Starts, Pending, Running, Final
<1>2. /\ \A b \in Buffer, d \in Dom :
           mem'[b][d] = IF d = group[t].tgt /\ group[t].from[b] # NONE
                          THEN mem[b][group[t].from[b]] ELSE mem[b][d]
      /\ \A b \in Buffer :
           seen'[t][b] = mem[b][IF group[t].from[b] = NONE THEN group[t].tgt ELSE group[t].from[b]]
      /\ \A u \in Task \ {t} : seen'[u] = seen[u]
  BY DEF Starts, Fetches, TypeOK, Group
<1>3. Moves(t)
  BY <1>1, <1>2 DEF Moves, Stores
(* Whatever it copies or reads is what it should.                          *)
<1>4. ASSUME NEW b \in Buffer, NEW d \in Dom, Source(t, b, d) PROVE mem[b][d] = want[t][b]
  <2>1. PICK w \in Writer : Serves(w, t, b, d)
    BY <1>1, <1>4 DEF DataInv, SourceInv, Pending
  <2> QED BY <1>1, <2>1 DEF Serves, Holds, Final
<1>5. ASSUME NEW u \in Task, Behind(t, u) PROVE stage[u] # "done"
  BY <1>1, <1>5, BehindDone
<1>6. ASSUME NEW u \in Task, Behind(u, t) PROVE stage[u] = "done"
  <2> DEFINE X == {x \in Task : stage[x] = "done"}
  <2>1. before[t] \subseteq X /\ \A x \in X : before[x] \subseteq X
    BY <1>1 DEF RanInv, TypeOK, graph!TGTypeOK
  <2>2. u \in X
    BY <1>6, <2>1 DEF Behind, BehindIn
  <2> QED BY <2>2
<1>7. ValueInv'
  <2> SUFFICES ASSUME NEW b \in Buffer, NEW d \in Dom, NEW w \in Writer,
                      w = state[b][d].writer, Holds(b, d, w, last[b]), w = NONE \/ Final(w)'
               PROVE  mem'[b][d] = last[b]
    <3>1. \A b \in Buffer, d \in Dom : state[b][d].writer \in Writer
      BY DEF TypeOK, State
    <3> QED BY <3>1, <1>3, MovesKeeps
         DEF DataInv, ValueInv, Holds, HasLatest, Moves, bound_vars, Leaves
  <2>1. w # t
    BY <1>1 DEF Final
  <2>2. w = NONE \/ Final(w)
    BY <1>1, <1>3, <2>1, MovesKeeps DEF Writer
  <2>3. ~Stores(t, b, d)
    BY <1>5, <2>1, <2>2 DEF PlaceInv, UpTo, Final, Writer
  <2> QED BY <1>3, <2>2, <2>3 DEF Moves, Holds
<1>8. SourceInv'
  <2> SUFFICES ASSUME NEW u \in Task, NEW b \in Buffer, NEW d \in Dom, Pending(u)', Source(u, b, d)'
               PROVE  \E w \in Writer : Serves(w, u, b, d)'
    BY DEF SourceInv
  <2>1. u # t /\ Pending(u) /\ Source(u, b, d)
    BY <1>1, <1>3, MovesKeeps DEF Pending
  <2>2. PICK w \in Writer : Serves(w, u, b, d)
    BY <2>1 DEF DataInv, SourceInv
  <2>3. ASSUME w = NONE \/ Final(w)' PROVE mem'[b][d] = want[u][b]
    <3>1. w # t
      BY <1>1, <2>3 DEF Final
    <3>2. w = NONE \/ Final(w)
      BY <1>3, <2>3, <3>1, MovesKeeps DEF Writer
    <3>3. ~Stores(t, b, d)
      BY <1>1, <1>5, <1>6, <2>1, <2>2, <3>1, <3>2 DEF Serves, UpTo, Final, Pending, Writer
    <3> QED BY <1>3, <2>2, <3>2, <3>3 DEF Moves, Serves, Holds
  <2> QED BY <1>3, <2>2, <2>3, MovesServe
<1>9. LoadedInv'
  <2> SUFFICES ASSUME NEW u \in Task, NEW b \in Buffer, Running(u)', Reads(group[u].acc[b])
               PROVE  mem'[b][group[u].tgt] = want[u][b]
    BY <1>1 DEF LoadedInv, bound_vars
  <2>1. group[u].tgt \in Dom /\ group[u].from[b] \in Dom \union {NONE}
    BY DEF TypeOK, Group
  <2>2. CASE u = t
    <3> DEFINE d == IF group[t].from[b] = NONE THEN group[t].tgt ELSE group[t].from[b]
    <3>1. d \in Dom /\ Source(t, b, d)
      BY <2>1, <2>2 DEF Source, Copies, Loads
    <3>2. mem'[b][group[t].tgt] = mem[b][d]
      BY <1>2, <2>1, <2>2
    <3> QED BY <1>4, <2>2, <3>1, <3>2
  <2>3. CASE u # t
    <3>1. Running(u) /\ mem[b][group[u].tgt] = want[u][b]
      BY <1>3, <2>3, MovesKeeps DEF DataInv, LoadedInv
    <3>2. ~Stores(t, b, group[u].tgt)
      BY <1>1, <1>3, <2>1, <2>3, MovesKeeps DEF NoConflict, Loads, bound_vars
    <3> QED BY <1>3, <2>1, <3>1, <3>2 DEF Moves
  <2> QED BY <2>2, <2>3
<1>10. ReadsLatest'
  <2> SUFFICES ASSUME NEW u \in Task, NEW b \in Buffer, stage'[u] \in {"started", "done"},
                      Reads(group[u].acc[b])
               PROVE  seen'[u][b] = want[u][b]
    BY <1>1 DEF ReadsLatest, bound_vars
  <2>1. CASE u = t
    <3> DEFINE d == IF group[t].from[b] = NONE THEN group[t].tgt ELSE group[t].from[b]
    <3>1. d \in Dom /\ Source(t, b, d)
      BY <2>1 DEF Source, Copies, Loads, TypeOK, Group
    <3> QED BY <1>2, <1>4, <2>1, <3>1
  <2>2. CASE u # t
    BY <1>1, <1>2, <2>2 DEF DataInv, ReadsLatest
  <2> QED BY <2>1, <2>2
<1> QED BY <1>3, <1>7, <1>8, <1>9, <1>10, MovesKeeps DEF DataInv

(* A task is through with the memory: it is done, or the accessor whose    *)
(* task it is is given up.                                                 *)
Ends(t) ==
  /\ Moves(t) /\ Running(t) /\ Final(t)' /\ Written(t) /\ seen' = seen
  /\ t \in live => stage[t] = "done"

LEMMA DataEnd ==
  ASSUME TypeOK, TypeOK', ConflictInv, NoConflict, NEW t \in Task, Ends(t), DataInv
  PROVE  DataInv'
<1> USE DEF ConflictInv
<1>1. /\ Moves(t) /\ Running(t) /\ Final(t)' /\ seen' = seen
      /\ stage[t] \in {"started", "done"} /\ stage'[t] = "done" /\ t \notin live'
      /\ t \in live <=> stage[t] = "done"
  BY DEF Ends, Running, Final
<1>2. \A b \in Buffer, d \in Dom :
        mem'[b][d] = IF Writes(group[t].acc[b]) /\ d = group[t].tgt THEN t ELSE mem[b][d]
  BY DEF Ends, Written, TypeOK
(* It leaves what a task that stores is to leave.                          *)
<1>3. \A b \in Buffer, d \in Dom : Stores(t, b, d) => mem'[b][d] = Leaves(t, b)
  BY <1>1, <1>2 DEF DataInv, LoadedInv, Leaves, Stores, GroupInv
<1>4. UNCHANGED <<before, bound_vars>>
  BY <1>1 DEF Moves
<1>5. ASSUME NEW u \in Task, Behind(t, u), stage[u] \in {"started", "done"} PROVE t \in live
  BY <1>1, <1>5, BehindDone
<1>6. ASSUME NEW u \in Task, Behind(u, t) PROVE stage[u] = "done"
  BY <1>1, <1>6, BehindDone
<1>7. ValueInv'
  <2> SUFFICES ASSUME NEW b \in Buffer, NEW d \in Dom, NEW w \in Writer,
                      w = state[b][d].writer, Holds(b, d, w, last[b]), w = NONE \/ Final(w)'
               PROVE  mem'[b][d] = last[b]
    <3>1. \A b \in Buffer, d \in Dom : state[b][d].writer \in Writer
      BY DEF TypeOK, State
    <3> QED BY <3>1, <1>1, MovesKeeps
         DEF DataInv, ValueInv, Holds, HasLatest, Moves, bound_vars, Leaves
  <2>1. CASE w = t
    BY <1>3, <2>1 DEF DataInv, WriterInv, Holds
  <2>2. CASE w # t
    <3>1. w = NONE \/ Final(w)
      BY <1>1, <2>2, MovesKeeps DEF Writer
    <3>2. ~Stores(t, b, d)
      <4>1. SUFFICES ASSUME Stores(t, b, d) PROVE FALSE
        OBVIOUS
      <4>2. w \in Task /\ Behind(t, w) /\ stage[w] = "done"
        BY <2>2, <3>1, <4>1 DEF PlaceInv, UpTo, Final, Writer
      <4>3. t \in live /\ d = HOST
        BY <1>5, <4>1, <4>2 DEF LiveInv, Stores
      <4> QED BY <2>2, <4>1, <4>3 DEF DataInv, HolderInv
    <3> QED BY <1>1, <3>1, <3>2 DEF Moves, Holds
  <2> QED BY <2>1, <2>2
<1>8. SourceInv'
  <2> SUFFICES ASSUME NEW u \in Task, NEW b \in Buffer, NEW d \in Dom, Pending(u)', Source(u, b, d)'
               PROVE  \E w \in Writer : Serves(w, u, b, d)'
    BY DEF SourceInv
  <2>1. u # t /\ Pending(u) /\ Source(u, b, d)
    BY <1>1, MovesKeeps DEF Pending
  <2>2. PICK w \in Writer : Serves(w, u, b, d)
    BY <2>1 DEF DataInv, SourceInv
  <2>3. ASSUME w = NONE \/ Final(w)' PROVE mem'[b][d] = want[u][b]
    <3>1. CASE w = t
      BY <1>3, <2>2, <3>1 DEF Serves, Holds
    <3>2. CASE w # t
      <4>1. w = NONE \/ Final(w)
        BY <1>1, <2>3, <3>2, MovesKeeps DEF Writer
      <4>2. ~Stores(t, b, d)
        <5>1. SUFFICES ASSUME Stores(t, b, d) PROVE FALSE
          OBVIOUS
        <5>2. ~Behind(u, t)
          BY <1>6, <2>1 DEF Pending
        <5>3. w \in Task /\ Behind(t, w) /\ stage[w] = "done"
          BY <2>1, <2>2, <3>2, <4>1, <5>1, <5>2 DEF Serves, UpTo, Final, Writer
        <5>4. t \in live /\ d = HOST
          BY <1>5, <5>1, <5>3 DEF LiveInv, Stores
        <5> QED BY <2>1, <5>1, <5>2, <5>4 DEF LiveInv, Source
      <4> QED BY <1>1, <2>2, <4>1, <4>2 DEF Moves, Serves, Holds
    <3> QED BY <3>1, <3>2
  <2> QED BY <1>1, <2>2, <2>3, MovesServe
<1>9. LoadedInv'
  <2> SUFFICES ASSUME NEW u \in Task, NEW b \in Buffer, Running(u)', Reads(group[u].acc[b])
               PROVE  mem'[b][group[u].tgt] = want[u][b]
    BY <1>4 DEF LoadedInv, bound_vars
  <2>1. group[u].tgt \in Dom /\ u # t
    BY <1>1 DEF Running, TypeOK, Group
  <2>2. Running(u) /\ mem[b][group[u].tgt] = want[u][b]
    BY <1>1, <2>1, MovesKeeps DEF DataInv, LoadedInv
  <2>3. ~Stores(t, b, group[u].tgt)
    BY <1>1, <2>1, <2>2 DEF NoConflict, Loads
  <2> QED BY <1>1, <2>1, <2>2, <2>3 DEF Moves
<1>10. ReadsLatest'
  <2> SUFFICES ASSUME NEW u \in Task, NEW b \in Buffer, stage'[u] \in {"started", "done"},
                      Reads(group[u].acc[b])
               PROVE  seen[u][b] = want[u][b]
    BY <1>1, <1>4 DEF ReadsLatest, bound_vars
  <2>1. stage[u] \in {"started", "done"}
    BY <1>1 DEF Moves
  <2> QED BY <2>1 DEF DataInv, ReadsLatest
<1> QED BY <1>1, <1>7, <1>8, <1>9, <1>10, MovesKeeps DEF DataInv

(* A step that no memory and no task that uses it notices.                 *)
LEMMA DataSame ==
  ASSUME TypeOK, DataInv,
         UNCHANGED <<before, ver, owner, state, group, mem, seen, last, want, live>>,
         \A u \in Task : /\ Final(u)' <=> Final(u)
                         /\ Running(u)' <=> Running(u)
                         /\ Pending(u)' <=> Pending(u)
                         /\ stage'[u] = "open" <=> stage[u] = "open"
                         /\ stage'[u] \in {"started", "done"} => stage[u] \in {"started", "done"}
  PROVE  DataInv'
<1>1. /\ \A u \in Task, b \in Buffer, d \in Dom :
           Stores(u, b, d)' = Stores(u, b, d) /\ Source(u, b, d)' = Source(u, b, d)
      /\ \A u \in Task, b \in Buffer : Leaves(u, b)' = Leaves(u, b)
      /\ \A u, w \in Task : Behind(u, w)' = Behind(u, w)
  BY DEF Stores, Loads, Copies, Source, Leaves, Behind, BehindIn
<1>2. \A b \in Buffer, d \in Dom : state[b][d].writer \in Writer
  BY DEF TypeOK, State
<1>3. OwnerHasLatest' /\ HolderInv' /\ LoadedInv' /\ ReadsLatest'
  BY <1>1 DEF DataInv, OwnerHasLatest, HasLatest, HolderInv, Stores, LoadedInv, ReadsLatest
<1>4. WriterInv'
  <2> SUFFICES ASSUME NEW b \in Buffer, NEW d \in Dom, NEW w \in Task, w = state[b][d].writer
               PROVE  stage'[w] # "open" /\ Stores(w, b, d)
    BY <1>1, <1>2 DEF WriterInv, Writer, Stores
  <2> QED BY DEF DataInv, WriterInv
<1>5. \A w \in Writer, b \in Buffer, d \in Dom, x \in Writer :
        Holds(b, d, w, x) => Holds(b, d, w, x)'
  BY <1>1 DEF Holds, Writer
<1>6. ValueInv'
  <2> SUFFICES ASSUME NEW b \in Buffer, NEW d \in Dom, HasLatest(b, d)
               PROVE  Holds(b, d, state[b][d].writer, last[b])'
    BY DEF ValueInv, HasLatest
  <2>1. PICK w \in Writer, x \in Writer : w = state[b][d].writer /\ x = last[b]
    BY <1>2 DEF TypeOK
  <2>2. Holds(b, d, w, x)'
    BY <1>5, <2>1 DEF DataInv, ValueInv
  <2> QED BY <2>1, <2>2 DEF Holds, Leaves
<1>7. SourceInv'
  <2> SUFFICES ASSUME NEW t \in Task, NEW b \in Buffer, NEW d \in Dom, Pending(t), Source(t, b, d)
               PROVE  \E w \in Writer : Serves(w, t, b, d)'
    BY <1>1 DEF SourceInv
  <2>1. PICK w \in Writer : Serves(w, t, b, d)
    BY DEF DataInv, SourceInv
  <2>2. PICK x \in Writer : x = want[t][b]
    BY DEF TypeOK
  <2>3. Holds(b, d, w, x)'
    BY <1>5, <2>1, <2>2 DEF Serves
  <2>4. w # NONE => w \in before'[t] /\ w \notin live' /\ stage'[w] # "open" /\ Stores(w, b, d)'
    BY <1>1, <2>1 DEF Serves, Writer
  <2>5. \A u \in Task \ {t} : Stores(u, b, d)' => UpTo(u, w)' \/ Behind(t, u)'
    BY <1>1, <2>1 DEF Serves, UpTo, Writer
  <2> QED BY <2>2, <2>3, <2>4, <2>5 DEF Serves, Holds, Leaves
<1> QED BY <1>3, <1>4, <1>6, <1>7 DEF DataInv
-----------------------------------------------------------------------------
LEMMA FillStep ==
  ASSUME Concurrent = FALSE, TypeOK, TypeOK', OwnerHasLatest, LiveInv, FillInv, [Next]_vars
  PROVE  FillInv'
<1>1. ASSUME NEW t \in Task, Bind(t) \/ BindHost(t) PROVE FillInv'
  BY <1>1 DEF Bind, BindHost, MayBind, FillInv, Filling
<1>2. ASSUME NEW t \in Task, FillBegin(t) PROVE FillInv'
  <2>1. PICK b \in Buffer, tgt \in Device :
          /\ Free(b)
          /\ fill' = [fill EXCEPT ![t] =
               [buf |-> b, tgt |-> tgt, ver |-> NewVersion(b, "write_only", tgt)]]
    BY <1>2 DEF FillBegin
  <2>2. /\ ver' = ver /\ live' = live /\ group' = group
        /\ \A u \in Task : fill[u] = NoFill
    BY <1>2 DEF FillBegin, MayBind, Filling
  <2>3. NewVersion(b, "write_only", tgt) = ver[b] + 1
    BY DEF NewVersion, OwnerHasLatest, HasLatest, Writes
  <2>4. /\ fill'[t].buf = b /\ fill'[t].ver = ver[b] + 1
        /\ \A u \in Task \ {t} : fill'[u] = NoFill
    BY <2>1, <2>2, <2>3 DEF TypeOK
  <2>5. Filling' \subseteq {t}
    BY <2>4 DEF Filling
  <2>6. Free(b)'
    BY <2>1, <2>2 DEF Free
  <2> QED BY <2>1, <2>2, <2>4, <2>5, <2>6 DEF FillInv, Free
<1>3. ASSUME NEW t \in Task, FillEnd(t) PROVE FillInv'
  <2>1. t \in Filling /\ \A u \in Filling : u = t
    BY <1>3 DEF FillEnd, Filling, FillInv
  <2>2. Filling' = {}
    BY <1>3, <2>1 DEF FillEnd, Filling, TypeOK
  <2> QED BY <2>2 DEF FillInv
<1>4. ASSUME NEW t \in Task, TaskStep(t) PROVE FillInv'
  <2>1. fill' = fill /\ ver' = ver /\ group' = group /\ live' \subseteq live
    BY <1>4 DEF TaskStep, Submit, Run, Done, Release, bound_vars
  <2> QED BY <2>1 DEF FillInv, Filling, Free
<1>5. CASE UNCHANGED vars
  BY <1>5 DEF vars, FillInv, Filling, Free
<1> QED BY <1>1, <1>2, <1>3, <1>4, <1>5 DEF Next, Finished

(* A task is bound; that of a host accessor lives, and may read.           *)
Joins(n) ==
  /\ Enters(n) /\ Updates(n) /\ Apart(n) /\ (n \in live' <=> group'[n].tgt = HOST)
  /\ group'[n].tgt = HOST => \A b \in Buffer : group'[n].acc[b] # "write_only"

LEMMA BindJoins ==
  ASSUME TypeOK, ConflictInv, FillInv, DataInv, NEW t \in Task,
         Bind(t) \/ BindHost(t) \/ FillEnd(t)
  PROVE  Joins(t)
<1>1. t \notin live \/ stage[t] # "open"
  BY DEF ConflictInv, LiveInv
<1>2. CASE Bind(t)
  <2>1. PICK tgt \in Device, acc \in [Buffer -> Access] :
          /\ \A b \in Buffer : acc[b] # "unused" => Free(b)
          /\ BindAll(t, tgt, acc)
    BY <1>2 DEF Bind
  <2>2. tgt \in Dom /\ mem' = mem /\ seen' = seen /\ live' = live
    BY <1>2 DEF Bind
  <2>3. Enters(t) /\ Updates(t) /\ group'[t].acc = acc /\ group'[t].tgt = tgt
    BY <2>1, <2>2, BindAllEnters, BindAllUpdates DEF DataInv
  <2>4. Apart(t)
    BY <2>1, <2>2, <2>3 DEF Apart, Free
  <2> QED BY <1>1, <2>2, <2>3, <2>4 DEF Joins, Enters
<1>3. CASE BindHost(t)
  <2>1. PICK b \in Buffer, a \in {"read_only", "read_write"} :
          /\ Free(b)
          /\ BindAll(t, HOST, [[c \in Buffer |-> "unused"] EXCEPT ![b] = a])
    BY <1>3 DEF BindHost
  <2> DEFINE acc == [[c \in Buffer |-> "unused"] EXCEPT ![b] = a]
  <2>2. acc \in [Buffer -> Access] /\ HOST \in Dom
    BY DEF Access
  <2>3. mem' = mem /\ seen' = seen /\ live' = live \union {t}
    BY <1>3 DEF BindHost
  <2>4. Enters(t) /\ Updates(t) /\ group'[t].acc = acc /\ group'[t].tgt = HOST
    BY <2>1, <2>2, <2>3, BindAllEnters, BindAllUpdates DEF DataInv
  <2>5. Apart(t)
    BY <2>1, <2>3, <2>4 DEF Apart, Free
  <2>6. \A c \in Buffer : group'[t].acc[c] # "write_only"
    BY <2>4
  <2> QED BY <2>3, <2>4, <2>5, <2>6 DEF Joins
<1>4. CASE FillEnd(t)
  <2>1. Enters(t) /\ Updates(t) /\ group'[t].tgt \in Device
    BY <1>4, FillEndEnters, FillEndUpdates DEF ConflictInv, DataInv
  <2>2. live' = live /\ Free(fill[t].buf) /\ fill[t].buf \in Buffer
    BY <1>4 DEF FillEnd, FillInv, Filling, TypeOK, Fill
  <2>3. \A b \in Buffer \ {fill[t].buf} : group'[t].acc[b] = "unused"
    BY <1>4 DEF FillEnd, TypeOK, NoGroup
  <2>4. Apart(t)
    BY <2>2, <2>3 DEF Apart, Free
  <2> QED BY <1>1, <2>1, <2>2, <2>4 DEF Joins, Enters
<1> QED BY <1>2, <1>3, <1>4

LEMMA DataStep ==
  ASSUME TypeOK, TypeOK', ConflictInv, ConflictInv', NoConflict, NoConflict',
         FillInv, DataInv, [Next]_vars
  PROVE  DataInv'
<1>1. ASSUME NEW t \in Task, Bind(t) \/ BindHost(t) \/ FillEnd(t) PROVE DataInv'
  BY <1>1, BindJoins, DataEnter DEF Joins
<1>2. ASSUME NEW t \in Task, FillBegin(t) PROVE DataInv'
  BY <1>2, DataSame DEF FillBegin, Final, Running, Pending
<1>3. ASSUME NEW t \in Task, Submit(t) PROVE DataInv'
  <2>1. /\ UNCHANGED <<before, ver, owner, state, group, last, want, live>>
        /\ stage[t] = "bound" /\ \A u \in Task \ {t} : stage'[u] = stage[u]
    BY <1>3 DEF Submit, bound_vars, graph!SubmitTask, TypeOK, graph!TGTypeOK
  <2>2. CASE stage'[t] = "submitted"
    <3>1. UNCHANGED <<mem, seen>>
      BY <1>3, <2>2 DEF Submit
    <3> QED BY <2>1, <2>2, <3>1, DataSame DEF Final, Running, Pending
  <2>3. CASE stage'[t] # "submitted"
    <3>1. Starts(t)
      BY <1>3, <2>1, <2>3
         DEF Submit, Starts, Pending, graph!SubmitTask, graph!Ready, TypeOK, graph!TGTypeOK
    <3> QED BY <3>1, DataStarts
  <2> QED BY <2>2, <2>3
<1>4. ASSUME NEW t \in Task, Run(t) PROVE DataInv'
  <2>1. Starts(t)
    BY <1>4 DEF Run, Starts, Pending, graph!Start, graph!Ready, TypeOK, graph!TGTypeOK
  <2> QED BY <2>1, DataStarts
<1>5. ASSUME NEW t \in Task, Done(t) PROVE DataInv'
  <2>1. /\ UNCHANGED <<before, seen, live, bound_vars>>
        /\ stage[t] = "started" /\ stage'[t] = "done"
        /\ \A u \in Task \ {t} : stage'[u] = stage[u]
    BY <1>5 DEF Done, graph!Finish, TypeOK, graph!TGTypeOK
  <2>2. CASE t \in live
    <3>1. mem' = mem
      BY <1>5, <2>2 DEF Done
    <3> QED BY <2>1, <2>2, <3>1, DataSame DEF Final, Running, Pending, bound_vars
  <2>3. CASE t \notin live
    <3>1. Written(t)
      BY <1>5, <2>3 DEF Done
    <3>2. Moves(t)
      BY <2>1, <3>1 DEF Moves, Written, Stores, TypeOK
    <3>3. Ends(t)
      BY <2>1, <2>3, <3>1, <3>2 DEF Ends, Running, Final
    <3> QED BY <3>3, DataEnd
  <2> QED BY <2>2, <2>3
<1>6. ASSUME NEW t \in Task, Release(t) PROVE DataInv'
  <2>1. Moves(t)
    BY <1>6 DEF Release, Moves, Written, Stores, TypeOK
  <2>2. Ends(t)
    BY <1>6, <2>1 DEF Release, Ends, Running, Final
  <2> QED BY <2>2, DataEnd
<1>7. CASE UNCHANGED vars
  BY <1>7, DataSame DEF vars, Final, Running, Pending
<1> QED BY <1>1, <1>2, <1>3, <1>4, <1>5, <1>6, <1>7 DEF Next, TaskStep, Finished

LEMMA DataAlways ==
  ASSUME Concurrent = FALSE
  PROVE  Spec => [](TypeOK /\ FillInv /\ DataInv)
<1>1. Init => FillInv /\ DataInv
  BY DataInit
<1>2. /\ TypeOK /\ TypeOK' /\ ConflictInv /\ ConflictInv' /\ NoConflict /\ NoConflict'
      /\ FillInv /\ DataInv /\ [Next]_vars
      => (FillInv /\ DataInv)'
  BY DataStep, FillStep DEF DataInv, ConflictInv
<1>3. Spec => [](TypeOK /\ ConflictInv /\ NoConflict)
  <2>1. Init => TypeOK /\ ConflictInv
    BY TypeInit, ConflictInit
  <2>2. TypeOK /\ ConflictInv /\ [Next]_vars => (TypeOK /\ ConflictInv)'
    BY TypeStep, ConflictStep
  <2> QED BY <2>1, <2>2, NothingConflicts, PTL DEF Spec
<1> QED BY <1>1, <1>2, <1>3, PTL DEF Spec

(* With one thread that submits, the memory that a buffer names as its     *)
(* owner has the latest version, and no memory has a later one.            *)
THEOREM OwnerIsLatest ==
  ASSUME Concurrent = FALSE
  PROVE  Spec => []OwnerHasLatest
<1>1. DataInv => OwnerHasLatest
  BY DEF DataInv
<1> QED BY <1>1, DataAlways, PTL

(* And the version that a fill_zero has computed is still newer than the   *)
(* buffer's when it stores it: the assertion in set_version.               *)
THEOREM VersionStaysNew ==
  ASSUME Concurrent = FALSE
  PROVE  Spec => []VersionIsNew
<1>1. TypeOK /\ FillInv => VersionIsNew
  <2> SUFFICES ASSUME TypeOK, FillInv, NEW t \in Filling PROVE ver[fill[t].buf] < fill[t].ver
    BY DEF VersionIsNew
  <2>1. fill[t].buf \in Buffer /\ fill[t].ver = ver[fill[t].buf] + 1
    BY DEF Filling, FillInv, TypeOK, Fill
  <2> QED BY <2>1 DEF TypeOK
<1> QED BY <1>1, DataAlways, PTL

(* Memories with the latest version have the latest data, as soon as who   *)
(* wrote them is through.                                                  *)
THEOREM MemoriesAgree ==
  ASSUME Concurrent = FALSE
  PROVE  Spec => []Coherent
<1>1. DataInv => Coherent
  BY DEF DataInv, ValueInv, Holds, Final, Coherent
<1> QED BY <1>1, DataAlways, PTL

(* Every task reads what the command groups bound before it wrote, in any  *)
(* order that they ran and on any device.                                  *)
THEOREM LatestIsRead ==
  ASSUME Concurrent = FALSE
  PROVE  Spec => []ReadsLatest
<1>1. DataInv => ReadsLatest
  BY DEF DataInv
<1> QED BY <1>1, DataAlways, PTL
=============================================================================
