-------------------------- MODULE DepManagerProofs --------------------------
(* Proofs about DepManager: tasks that run at the same time never conflict *)
(* on any memory, for every number of tasks, buffers and domains, and even *)
(* when fill_zero races with other threads.                                *)
EXTENDS DepManager, TLAPS

USE DepAssumption DEF Dom

(* What the functions of memory_state return.                              *)
LEMMA StateTypes ==
  ASSUME NEW s \in State, NEW t \in Task, NEW v \in Nat
  PROVE  /\ PrepareRead(s, t) \in State /\ PrepareWrite(s, t, v) \in State
         /\ PrepareRead(s, t).writer = s.writer
         /\ PrepareRead(s, t).readers = s.readers \union {t}
         /\ PrepareRead(s, t).ver = s.ver
         /\ PrepareWrite(s, t, v).writer = t /\ PrepareWrite(s, t, v).readers = {}
         /\ PrepareWrite(s, t, v).ver = v
         /\ WaitsFor(s, TRUE) = ({s.writer} \ {NONE}) \union s.readers
         /\ WaitsFor(s, FALSE) = {s.writer} \ {NONE}
         /\ WaitsFor(s, TRUE) \subseteq Task /\ WaitsFor(s, FALSE) \subseteq Task
<1>1. PrepareRead(s, t) = [s EXCEPT !.readers = s.readers \union {t}]
  BY DEF PrepareRead
<1>2. /\ PrepareRead(s, t) \in State /\ PrepareRead(s, t).writer = s.writer
      /\ PrepareRead(s, t).readers = s.readers \union {t} /\ PrepareRead(s, t).ver = s.ver
  BY <1>1 DEF State
<1>3. /\ PrepareWrite(s, t, v) \in State /\ PrepareWrite(s, t, v).writer = t
      /\ PrepareWrite(s, t, v).readers = {} /\ PrepareWrite(s, t, v).ver = v
  BY DEF State, PrepareWrite, Writer
<1>4. /\ WaitsFor(s, TRUE) = ({s.writer} \ {NONE}) \union s.readers
      /\ WaitsFor(s, FALSE) = {s.writer} \ {NONE}
      /\ WaitsFor(s, TRUE) \subseteq Task /\ WaitsFor(s, FALSE) \subseteq Task
  BY DEF State, WaitsFor, Writer
<1> QED BY <1>2, <1>3, <1>4

(* The values an access computes are of the right kind.                    *)
LEMMA AccessTypes ==
  ASSUME TypeOK, NEW t \in Task, NEW b \in Buffer, NEW a \in Access, NEW tgt \in Dom
  PROVE  /\ NewVersion(b, a, tgt) \in Nat
         /\ CopyFrom(b, a, tgt) \in Dom \union {NONE}
         /\ ReadAt(b, a, tgt) \subseteq Dom /\ WriteAt(b, a, tgt) \subseteq Dom
         /\ Preds(b, a, tgt) \subseteq Task
         /\ Prepared(t, b, a, tgt, NewVersion(b, a, tgt)) \in [Dom -> State]
<1>1. /\ owner[b] \in Dom
      /\ \A d \in Dom : state[b][d] \in State /\ state[b][d].ver \in Nat
  BY DEF TypeOK, State
<1>2. NewVersion(b, a, tgt) \in Nat
  BY <1>1 DEF NewVersion
<1>3. CopyFrom(b, a, tgt) \in Dom \union {NONE}
  BY <1>1 DEF CopyFrom
<1>4. ReadAt(b, a, tgt) \subseteq Dom /\ WriteAt(b, a, tgt) \subseteq Dom
  BY <1>1 DEF ReadAt, WriteAt
<1>5. Preds(b, a, tgt) \subseteq Task
  <2>1. \A d \in Dom : WaitsFor(state[b][d], TRUE) \subseteq Task
    BY <1>1, StateTypes
  <2>2. \A d \in Dom : WaitsFor(state[b][d], FALSE) \subseteq Task
    BY <1>1, StateTypes
  <2>3. ASSUME NEW p \in Preds(b, a, tgt) PROVE p \in Task
    <3>1. \/ \E d \in ReadAt(b, a, tgt) : p \in WaitsFor(state[b][d], FALSE)
          \/ \E d \in WriteAt(b, a, tgt) : p \in WaitsFor(state[b][d], TRUE)
      BY DEF Preds
    <3> QED BY <3>1, <1>4, <2>1, <2>2
  <2> QED BY <2>3
<1>6. Prepared(t, b, a, tgt, NewVersion(b, a, tgt)) \in [Dom -> State]
  <2>1. \A d \in Dom : /\ PrepareRead(state[b][d], t) \in State
                       /\ PrepareWrite(state[b][d], t, NewVersion(b, a, tgt)) \in State
    BY <1>1, <1>2, StateTypes
  <2> QED BY <1>1, <2>1 DEF Prepared
<1> QED BY <1>2, <1>3, <1>4, <1>5, <1>6
-----------------------------------------------------------------------------
LEMMA TypeInit == Init => TypeOK
<1> SUFFICES ASSUME Init PROVE TypeOK
  OBVIOUS
<1>1. graph!TGTypeOK
  BY DEF Init, graph!TGInit, graph!TGTypeOK, graph!Stage
<1>2. NoGroup \in Group
  BY DEF NoGroup, Group, Access
<1> QED
  BY <1>1, <1>2 DEF Init, TypeOK, State, Writer, Data, HOST_INIT_VER, DEV_INIT_VER

(* Sealing a task binds it, and it waits for what it is told to.           *)
LEMMA SealEffect ==
  ASSUME TypeOK, NEW t \in Task, NEW P \in SUBSET Task, graph!Seal(t, P)
  PROVE  /\ stage[t] = "open" /\ stage'[t] = "bound" /\ before'[t] = before[t] \union P
         /\ \A u \in Task \ {t} : stage'[u] = stage[u] /\ before'[u] = before[u]
         /\ graph!TGTypeOK'
<1>1. "bound" \in graph!Stage
  BY DEF graph!Stage
<1> QED BY <1>1 DEF TypeOK, graph!TGTypeOK, graph!Seal

(* The predecessors of a whole command group.                              *)
GroupPreds(acc, tgt) ==
  UNION {Preds(b, acc[b], tgt) : b \in {c \in Buffer : acc[c] # "unused"}}

LEMMA GroupPredsType ==
  ASSUME TypeOK, NEW t \in Task, NEW tgt \in Dom, NEW acc \in [Buffer -> Access]
  PROVE  GroupPreds(acc, tgt) \in SUBSET Task
<1>1. \A b \in Buffer : Preds(b, acc[b], tgt) \subseteq Task
  BY AccessTypes
<1> QED BY <1>1 DEF GroupPreds

LEMMA BindAllType ==
  ASSUME TypeOK, NEW t \in Task, NEW tgt \in Dom, NEW acc \in [Buffer -> Access],
         BindAll(t, tgt, acc)
  PROVE  /\ graph!TGTypeOK' /\ graph!Seal(t, GroupPreds(acc, tgt))
         /\ ver' \in [Buffer -> Nat] /\ owner' \in [Buffer -> Dom]
         /\ state' \in [Buffer -> [Dom -> State]]
         /\ group' \in [Task -> Group]
         /\ want' \in [Task -> [Buffer -> Writer]] /\ last' \in [Buffer -> Writer]
<1>1. \A b \in Buffer : /\ NewVersion(b, acc[b], tgt) \in Nat
                        /\ CopyFrom(b, acc[b], tgt) \in Dom \union {NONE}
                        /\ Prepared(t, b, acc[b], tgt, NewVersion(b, acc[b], tgt)) \in [Dom -> State]
  BY AccessTypes
<1>2. graph!Seal(t, GroupPreds(acc, tgt))
  BY DEF BindAll, GroupPreds
<1>3. graph!TGTypeOK'
  BY <1>2, GroupPredsType, SealEffect
<1>4. ver' \in [Buffer -> Nat] /\ owner' \in [Buffer -> Dom]
  BY <1>1 DEF BindAll, TypeOK
<1>5. state' \in [Buffer -> [Dom -> State]]
  BY <1>1 DEF BindAll
<1>6. group' \in [Task -> Group]
  <2>1. [tgt |-> tgt, acc |-> acc,
         from |-> [b \in Buffer |-> CopyFrom(b, acc[b], tgt)]] \in Group
    BY <1>1 DEF Group
  <2> QED BY <2>1 DEF BindAll, TypeOK
<1>7. want' \in [Task -> [Buffer -> Writer]] /\ last' \in [Buffer -> Writer]
  BY DEF BindAll, TypeOK, Writer
<1> QED BY <1>2, <1>3, <1>4, <1>5, <1>6, <1>7

(* The copies of a task and what it reads.                                 *)
LEMMA FetchesType ==
  ASSUME TypeOK, NEW t \in Task, Fetches(t)
  PROVE  mem' \in [Buffer -> [Dom -> Data]] /\ seen' \in [Task -> [Buffer -> Data]]
<1> DEFINE g == group[t]
           data == [b \in Buffer |-> IF g.from[b] = NONE THEN mem[b][g.tgt] ELSE mem[b][g.from[b]]]
<1>1. g.tgt \in Dom /\ \A b \in Buffer : g.from[b] \in Dom \union {NONE}
  BY DEF TypeOK, Group
<1>2. data \in [Buffer -> Data]
  BY <1>1 DEF TypeOK
<1>3. mem' \in [Buffer -> [Dom -> Data]]
  BY <1>1, <1>2 DEF Fetches, TypeOK
<1>4. seen' \in [Task -> [Buffer -> Data]]
  BY <1>2 DEF Fetches, TypeOK
<1> QED BY <1>3, <1>4

LEMMA TypeStep == TypeOK /\ [Next]_vars => TypeOK'
<1> SUFFICES ASSUME TypeOK, [Next]_vars PROVE TypeOK'
  OBVIOUS
<1>1. ASSUME NEW t \in Task, Bind(t) PROVE TypeOK'
  <2>1. PICK tgt \in Device, acc \in [Buffer -> Access] : BindAll(t, tgt, acc)
    BY <1>1 DEF Bind
  <2>2. tgt \in Dom
    OBVIOUS
  <2> QED BY <1>1, <2>1, <2>2, BindAllType DEF TypeOK, Bind
<1>2. ASSUME NEW t \in Task, BindHost(t) PROVE TypeOK'
  <2>1. PICK b \in Buffer, a \in {"read_only", "read_write"} :
          BindAll(t, HOST, [[c \in Buffer |-> "unused"] EXCEPT ![b] = a])
    BY <1>2 DEF BindHost
  <2>2. [[c \in Buffer |-> "unused"] EXCEPT ![b] = a] \in [Buffer -> Access]
    BY DEF Access
  <2>3. HOST \in Dom
    OBVIOUS
  <2> QED BY <1>2, <2>1, <2>2, <2>3, BindAllType DEF TypeOK, BindHost
<1>3. ASSUME NEW t \in Task, FillBegin(t) PROVE TypeOK'
  <2>1. PICK b \in Buffer, tgt \in Device : fill' = [fill EXCEPT ![t] =
            [buf |-> b, tgt |-> tgt, ver |-> NewVersion(b, "write_only", tgt)]]
    BY <1>3 DEF FillBegin
  <2>2. NewVersion(b, "write_only", tgt) \in Nat
    BY AccessTypes DEF Access
  <2>3. fill' \in [Task -> Fill \union {NoFill}]
    BY <2>1, <2>2 DEF TypeOK, Fill
  <2> QED BY <1>3, <2>3 DEF TypeOK, FillBegin, graph!TGTypeOK
<1>4. ASSUME NEW t \in Task, FillEnd(t) PROVE TypeOK'
  <2> DEFINE b == fill[t].buf
             tgt == fill[t].tgt
             v == fill[t].ver
  <2>1. b \in Buffer /\ tgt \in Dom /\ v \in Nat
    BY <1>4 DEF FillEnd, TypeOK, Fill
  <2>2. state[b][tgt] \in State
    BY <2>1 DEF TypeOK
  <2>3. graph!TGTypeOK'
    <3>1. WaitsFor(state[b][tgt], TRUE) \in SUBSET Task
      BY <2>1, <2>2, StateTypes
    <3> QED BY <1>4, <3>1, SealEffect DEF FillEnd
  <2>4. state' \in [Buffer -> [Dom -> State]]
    <3>1. PrepareWrite(state[b][tgt], t, v) \in State
      BY <2>1, <2>2, StateTypes
    <3>2. state' = [state EXCEPT ![b] = [state[b] EXCEPT ![tgt] = PrepareWrite(state[b][tgt], t, v)]]
      BY <1>4 DEF FillEnd
    <3>3. [state[b] EXCEPT ![tgt] = PrepareWrite(state[b][tgt], t, v)] \in [Dom -> State]
      BY <2>1, <3>1 DEF TypeOK
    <3> QED BY <2>1, <3>2, <3>3 DEF TypeOK
  <2>5. group' \in [Task -> Group]
    <3>1. [NoGroup EXCEPT !.tgt = tgt, !.acc[b] = "write_only"] \in Group
      BY <2>1 DEF NoGroup, Group, Access
    <3> QED BY <1>4, <3>1 DEF FillEnd, TypeOK
  <2>6. /\ ver' \in [Buffer -> Nat] /\ owner' \in [Buffer -> Dom]
        /\ fill' \in [Task -> Fill \union {NoFill}]
    BY <1>4, <2>1 DEF FillEnd, TypeOK
  <2>7. want' \in [Task -> [Buffer -> Writer]] /\ last' \in [Buffer -> Writer]
    BY <1>4, <2>1 DEF FillEnd, TypeOK, Writer
  <2> QED BY <1>4, <2>3, <2>4, <2>5, <2>6, <2>7 DEF FillEnd, TypeOK
<1>5. ASSUME NEW t \in Task, Submit(t) PROVE TypeOK'
  <2>1. graph!TGTypeOK'
    BY <1>5 DEF TypeOK, Submit, graph!SubmitTask, graph!TGTypeOK, graph!Stage
  <2>2. mem' \in [Buffer -> [Dom -> Data]] /\ seen' \in [Task -> [Buffer -> Data]]
    BY <1>5, FetchesType DEF Submit, TypeOK
  <2> QED BY <1>5, <2>1, <2>2 DEF TypeOK, Submit, bound_vars
<1>6. ASSUME NEW t \in Task, Run(t) PROVE TypeOK'
  <2>1. mem' \in [Buffer -> [Dom -> Data]] /\ seen' \in [Task -> [Buffer -> Data]]
    BY <1>6, FetchesType DEF Run
  <2>2. graph!TGTypeOK'
    BY <1>6 DEF TypeOK, Run, graph!Start, graph!TGTypeOK, graph!Stage
  <2> QED BY <1>6, <2>1, <2>2 DEF TypeOK, Run, bound_vars
<1>7. ASSUME NEW t \in Task, Done(t) \/ Release(t) PROVE TypeOK'
  <2>1. Written(t) => mem' \in [Buffer -> [Dom -> Data]]
    <3>1. group[t].tgt \in Dom /\ t \in Data
      BY DEF TypeOK, Group, Data, Writer
    <3>2. \A b \in Buffer : /\ mem[b] \in [Dom -> Data]
                            /\ [mem[b] EXCEPT ![group[t].tgt] = t] \in [Dom -> Data]
      BY <3>1 DEF TypeOK
    <3> QED BY <3>2 DEF Written
  <2>2. mem' \in [Buffer -> [Dom -> Data]]
    BY <1>7, <2>1 DEF Done, Release, TypeOK
  <2>3. graph!TGTypeOK'
    BY <1>7 DEF TypeOK, Done, Release, graph!Finish, graph!TGTypeOK, graph!Stage
  <2> QED BY <1>7, <2>2, <2>3 DEF TypeOK, Done, Release, bound_vars
<1>8. CASE UNCHANGED vars
  BY <1>8 DEF TypeOK, vars, graph!TGTypeOK
<1> QED
  BY <1>1, <1>2, <1>3, <1>4, <1>5, <1>6, <1>7, <1>8 DEF Next, TaskStep, Finished

(* Every variable keeps its type.                                          *)
THEOREM TypeCorrect == Spec => []TypeOK
BY TypeInit, TypeStep, PTL DEF Spec
-----------------------------------------------------------------------------
(* Why nothing conflicts.  Every task that stored to or loaded from a      *)
(* domain's memory is still among the writer and the readers that          *)
(* memory_state has for it, or is (transitively) waited for by the writer. *)
(* So a task that enters finds itself behind all that it conflicts with.   *)

(* With the predecessors bf, u waits for t, if not directly then through   *)
(* other tasks.                                                            *)
BehindIn(bf, t, u) ==
  \A X \in SUBSET Task : bf[u] \subseteq X /\ (\A x \in X : bf[x] \subseteq X) => t \in X

Behind(t, u) == BehindIn(before, t, u)

UpTo(t, w) == w # NONE /\ (t = w \/ Behind(t, w))

RanInv ==
  \A t \in Task : stage[t] \in {"started", "done"} => \A p \in before[t] : stage[p] = "done"

PlaceInv ==
  \A t \in Task, b \in Buffer, d \in Dom :
    /\ Stores(t, b, d) => UpTo(t, state[b][d].writer)
    /\ Loads(t, b, d) \/ Copies(t, b, d) =>
         t \in state[b][d].readers \/ UpTo(t, state[b][d].writer)

OrderInv ==
  \A t, u \in Task, b \in Buffer, d \in Dom :
    t # u /\ Stores(t, b, d) /\ (Stores(u, b, d) \/ Loads(u, b, d) \/ Copies(u, b, d)) =>
      Behind(t, u) \/ Behind(u, t)

(* A task is bound before a host accessor for the same buffer lives, or    *)
(* after it.                                                               *)
LiveInv ==
  \A h \in live :
    /\ stage[h] # "open" /\ group[h].tgt = HOST
    /\ \A u \in Task \ {h}, b \in Buffer :
         /\ u \in live => group[h].acc[b] = "unused" \/ group[u].acc[b] = "unused"
         /\ \/ /\ Stores(h, b, HOST)
               /\ Stores(u, b, HOST) \/ Loads(u, b, HOST) \/ Copies(u, b, HOST)
            \/ Loads(h, b, HOST) /\ Stores(u, b, HOST)
            => Behind(u, h)

GroupInv ==
  /\ \A t \in Task, b \in Buffer : group[t].from[b] # NONE => Reads(group[t].acc[b])
  /\ \A t \in Task : fill[t] # NoFill => fill[t].tgt \in Device

ConflictInv == RanInv /\ PlaceInv /\ OrderInv /\ LiveInv /\ GroupInv
-----------------------------------------------------------------------------
LEMMA BehindFacts ==
  ASSUME NEW bf \in [Task -> SUBSET Task], NEW t \in Task, NEW p \in Task, NEW u \in Task,
         p \in bf[u]
  PROVE  BehindIn(bf, p, u) /\ (BehindIn(bf, t, p) => BehindIn(bf, t, u))
BY DEF BehindIn

LEMMA BehindGrows ==
  ASSUME NEW bf \in [Task -> SUBSET Task], NEW bg \in [Task -> SUBSET Task],
         \A x \in Task : bf[x] \subseteq bg[x],
         NEW t \in Task, NEW u \in Task, BehindIn(bf, t, u)
  PROVE  BehindIn(bg, t, u)
BY DEF BehindIn

(* When u may run all that is before it, however far, is done.             *)
LEMMA BehindDone ==
  ASSUME TypeOK, RanInv, NEW t \in Task, NEW u \in Task, Behind(t, u),
         stage[u] \in {"started", "done"}
  PROVE  stage[t] = "done"
<1> DEFINE X == {x \in Task : stage[x] = "done"}
<1>1. before[u] \subseteq X /\ \A x \in X : before[x] \subseteq X
  BY DEF RanInv, TypeOK, graph!TGTypeOK
<1>2. t \in X
  BY <1>1 DEF Behind, BehindIn
<1> QED BY <1>2

(* A task that is bound becomes a reader or the writer of all that it will *)
(* touch, behind those that were there.                                    *)
Enters(n) ==
  /\ stage[n] = "open" /\ stage'[n] = "bound"
  /\ before[n] \subseteq before'[n]
  /\ \A u \in Task \ {n} :
       stage'[u] = stage[u] /\ before'[u] = before[u] /\ group'[u] = group[u]
  /\ \A b \in Buffer, d \in Dom :
       \/ /\ state'[b][d] = state[b][d]
          /\ ~Stores(n, b, d)' /\ ~Loads(n, b, d)' /\ ~Copies(n, b, d)'
       \/ /\ state'[b][d] = PrepareRead(state[b][d], n)
          /\ WaitsFor(state[b][d], FALSE) \subseteq before'[n]
          /\ ~Stores(n, b, d)'
       \/ /\ \E v \in Nat : state'[b][d] = PrepareWrite(state[b][d], n, v)
          /\ WaitsFor(state[b][d], TRUE) \subseteq before'[n]

LEMMA BindAllEnters ==
  ASSUME TypeOK, NEW t \in Task, NEW tgt \in Dom, NEW acc \in [Buffer -> Access],
         BindAll(t, tgt, acc)
  PROVE  /\ Enters(t)
         /\ group'[t].tgt = tgt /\ group'[t].acc = acc
         /\ \A b \in Buffer : group'[t].from[b] # NONE => Reads(acc[b])
<1>1. /\ graph!Seal(t, GroupPreds(acc, tgt))
      /\ GroupPreds(acc, tgt) \in SUBSET Task
  BY BindAllType, GroupPredsType
<1>2. /\ stage[t] = "open" /\ stage'[t] = "bound"
      /\ before'[t] = before[t] \union GroupPreds(acc, tgt)
      /\ \A u \in Task \ {t} : stage'[u] = stage[u] /\ before'[u] = before[u]
  BY <1>1, SealEffect
<1>3. /\ \A u \in Task \ {t} : group'[u] = group[u]
      /\ group'[t].tgt = tgt /\ group'[t].acc = acc
      /\ \A b \in Buffer : group'[t].from[b] = CopyFrom(b, acc[b], tgt)
  BY DEF BindAll, TypeOK
<1>4. \A b \in Buffer : group'[t].from[b] # NONE => Reads(acc[b])
  BY <1>3 DEF CopyFrom
<1>5. ASSUME NEW b \in Buffer, NEW d \in Dom
      PROVE  \/ /\ state'[b][d] = state[b][d]
                /\ ~Stores(t, b, d)' /\ ~Loads(t, b, d)' /\ ~Copies(t, b, d)'
             \/ /\ state'[b][d] = PrepareRead(state[b][d], t)
                /\ WaitsFor(state[b][d], FALSE) \subseteq before'[t]
                /\ ~Stores(t, b, d)'
             \/ /\ \E v \in Nat : state'[b][d] = PrepareWrite(state[b][d], t, v)
                /\ WaitsFor(state[b][d], TRUE) \subseteq before'[t]
  <2> DEFINE v == NewVersion(b, acc[b], tgt)
  <2>1. /\ v \in Nat /\ owner[b] \in Dom
        /\ state'[b][d] = Prepared(t, b, acc[b], tgt, v)[d]
    BY AccessTypes DEF BindAll, TypeOK
  <2>2. \A e \in WriteAt(b, acc[b], tgt) :
          acc[b] # "unused" /\ WaitsFor(state[b][e], TRUE) \subseteq before'[t]
    <3>1. ASSUME NEW e \in WriteAt(b, acc[b], tgt) PROVE acc[b] # "unused"
      BY DEF WriteAt, Writes
    <3>2. \A e \in WriteAt(b, acc[b], tgt) :
            WaitsFor(state[b][e], TRUE) \subseteq Preds(b, acc[b], tgt)
      BY DEF Preds
    <3> QED BY <1>2, <3>1, <3>2 DEF GroupPreds
  <2>3. \A e \in ReadAt(b, acc[b], tgt) :
          acc[b] # "unused" /\ WaitsFor(state[b][e], FALSE) \subseteq before'[t]
    <3>1. ASSUME NEW e \in ReadAt(b, acc[b], tgt) PROVE acc[b] # "unused"
      BY DEF ReadAt, Reads
    <3>2. \A e \in ReadAt(b, acc[b], tgt) :
            WaitsFor(state[b][e], FALSE) \subseteq Preds(b, acc[b], tgt)
      BY DEF Preds
    <3> QED BY <1>2, <3>1, <3>2 DEF GroupPreds
  <2>4. CASE d \in WriteAt(b, acc[b], tgt)
    BY <2>1, <2>2, <2>4 DEF Prepared
  <2>5. ASSUME d \notin WriteAt(b, acc[b], tgt) PROVE ~Stores(t, b, d)'
    BY <1>3, <2>5 DEF Stores, WriteAt, CopyFrom, Access, Reads, Writes
  <2>6. CASE d \notin WriteAt(b, acc[b], tgt) /\ d \in ReadAt(b, acc[b], tgt)
    BY <2>1, <2>3, <2>5, <2>6 DEF Prepared
  <2>7. CASE d \notin WriteAt(b, acc[b], tgt) /\ d \notin ReadAt(b, acc[b], tgt)
    <3>1. state'[b][d] = state[b][d]
      BY <2>1, <2>7 DEF Prepared
    <3>2. ~Loads(t, b, d)' /\ ~Copies(t, b, d)'
      BY <1>3, <2>7 DEF Loads, Copies, ReadAt, WriteAt, CopyFrom, Access, Reads, Writes
    <3> QED BY <2>5, <2>7, <3>1, <3>2
  <2> QED BY <2>4, <2>6, <2>7
<1> QED BY <1>2, <1>3, <1>4, <1>5 DEF Enters

LEMMA FillEndEnters ==
  ASSUME TypeOK, GroupInv, NEW t \in Task, FillEnd(t)
  PROVE  /\ Enters(t) /\ group'[t].tgt \in Device
         /\ \A b \in Buffer : group'[t].from[b] = NONE
<1> DEFINE b == fill[t].buf
           tgt == fill[t].tgt
           v == fill[t].ver
<1>1. b \in Buffer /\ tgt \in Device /\ v \in Nat /\ state[b][tgt] \in State
  BY DEF FillEnd, TypeOK, Fill, GroupInv
<1>2. WaitsFor(state[b][tgt], TRUE) \in SUBSET Task
  BY <1>1, StateTypes
<1>3. /\ stage[t] = "open" /\ stage'[t] = "bound"
      /\ before'[t] = before[t] \union WaitsFor(state[b][tgt], TRUE)
      /\ \A u \in Task \ {t} : stage'[u] = stage[u] /\ before'[u] = before[u]
  BY <1>2, SealEffect DEF FillEnd
<1>4. /\ \A u \in Task \ {t} : group'[u] = group[u]
      /\ group'[t].tgt = tgt /\ group'[t].acc = [NoGroup.acc EXCEPT ![b] = "write_only"]
      /\ \A c \in Buffer : group'[t].from[c] = NONE
  BY DEF FillEnd, TypeOK, NoGroup
<1>5. ASSUME NEW c \in Buffer, NEW d \in Dom, ~(c = b /\ d = tgt)
      PROVE  /\ state'[c][d] = state[c][d]
             /\ ~Stores(t, c, d)' /\ ~Loads(t, c, d)' /\ ~Copies(t, c, d)'
  <2>1. state'[c][d] = state[c][d]
    BY <1>1, <1>5 DEF FillEnd, TypeOK
  <2>2. ~Stores(t, c, d)' /\ ~Loads(t, c, d)' /\ ~Copies(t, c, d)'
    <3>1. c # b => group'[t].acc[c] = "unused"
      BY <1>4 DEF NoGroup
    <3>2. group'[t].acc[b] = "write_only"
      BY <1>1, <1>4 DEF NoGroup
    <3>3. ~Stores(t, c, d)'
      BY <1>4, <1>5, <3>1 DEF Stores, Writes
    <3>4. ~Loads(t, c, d)'
      BY <3>1, <3>2 DEF Loads, Reads
    <3>5. ~Copies(t, c, d)'
      BY <1>4 DEF Copies
    <3> QED BY <3>3, <3>4, <3>5
  <2> QED BY <2>1, <2>2
<1>6. /\ state'[b][tgt] = PrepareWrite(state[b][tgt], t, v)
      /\ WaitsFor(state[b][tgt], TRUE) \subseteq before'[t]
  <2>1. state' = [state EXCEPT ![b] = [state[b] EXCEPT ![tgt] = PrepareWrite(state[b][tgt], t, v)]]
    BY DEF FillEnd
  <2>2. state'[b][tgt] = PrepareWrite(state[b][tgt], t, v)
    BY <1>1, <2>1 DEF TypeOK
  <2> QED BY <1>3, <2>2
<1> QED BY <1>1, <1>3, <1>4, <1>5, <1>6 DEF Enters
-----------------------------------------------------------------------------
(* The invariant is kept when a task enters.                               *)
LEMMA EnterBehind ==
  ASSUME TypeOK, TypeOK', NEW n \in Task, Enters(n)
  PROVE  /\ \A t, u \in Task : Behind(t, u) => Behind(t, u)'
         /\ \A p \in before'[n] : p \in Task /\ Behind(p, n)'
         /\ \A t \in Task, p \in before'[n] : Behind(t, p) => Behind(t, n)'
<1>1. /\ before \in [Task -> SUBSET Task] /\ before' \in [Task -> SUBSET Task]
      /\ \A u \in Task : before[u] \subseteq before'[u]
  BY DEF TypeOK, graph!TGTypeOK, Enters
<1>2. \A t, u \in Task : Behind(t, u) => Behind(t, u)'
  BY <1>1, BehindGrows DEF Behind
<1>3. \A p \in before'[n] : p \in Task /\ Behind(p, n)'
  BY <1>1, BehindFacts DEF Behind
<1>4. \A t \in Task, p \in before'[n] : Behind(t, p)' => Behind(t, n)'
  BY <1>1, BehindFacts DEF Behind
<1> QED BY <1>1, <1>2, <1>3, <1>4

(* What n finds in a memory_state that it prepares to write or to read is  *)
(* behind it.                                                              *)
LEMMA EnterFinds ==
  ASSUME TypeOK, TypeOK', PlaceInv, NEW n \in Task, Enters(n),
         NEW t \in Task, NEW b \in Buffer, NEW d \in Dom
  PROVE  /\ WaitsFor(state[b][d], FALSE) \subseteq before'[n] /\ Stores(t, b, d)
              => Behind(t, n)'
         /\ WaitsFor(state[b][d], TRUE) \subseteq before'[n]
              /\ (Stores(t, b, d) \/ Loads(t, b, d) \/ Copies(t, b, d))
              => Behind(t, n)'
<1> DEFINE s == state[b][d]
<1>1. /\ s \in State /\ s.writer \in Writer
      /\ WaitsFor(s, TRUE) = ({s.writer} \ {NONE}) \union s.readers
      /\ WaitsFor(s, FALSE) = {s.writer} \ {NONE}
  BY DEF TypeOK, State, WaitsFor
<1>2. s.writer \in before'[n] /\ UpTo(t, s.writer) => Behind(t, n)'
  BY EnterBehind DEF UpTo
<1>3. t \in before'[n] => Behind(t, n)'
  BY EnterBehind
<1>4. /\ Stores(t, b, d) => UpTo(t, s.writer)
      /\ Loads(t, b, d) \/ Copies(t, b, d) => t \in s.readers \/ UpTo(t, s.writer)
  BY DEF PlaceInv
<1>5. UpTo(t, s.writer) => s.writer # NONE
  BY DEF UpTo
<1> QED BY <1>1, <1>2, <1>3, <1>4, <1>5

LEMMA EnterSame ==
  ASSUME NEW n \in Task, Enters(n), NEW t \in Task \ {n}, NEW b \in Buffer, NEW d \in Dom
  PROVE  /\ Stores(t, b, d)' = Stores(t, b, d) /\ Loads(t, b, d)' = Loads(t, b, d)
         /\ Copies(t, b, d)' = Copies(t, b, d)
BY DEF Enters, Stores, Loads, Copies

LEMMA EnterPlace ==
  ASSUME TypeOK, TypeOK', PlaceInv, NEW n \in Task, Enters(n)
  PROVE  PlaceInv'
<1> SUFFICES ASSUME NEW t \in Task, NEW b \in Buffer, NEW d \in Dom
             PROVE  /\ Stores(t, b, d)' => UpTo(t, state[b][d].writer)'
                    /\ Loads(t, b, d)' \/ Copies(t, b, d)' =>
                         t \in state'[b][d].readers \/ UpTo(t, state[b][d].writer)'
  BY DEF PlaceInv
<1> DEFINE s == state[b][d]
<1>1. s \in State /\ s.writer \in Writer
  BY DEF TypeOK, State
<1>2. UpTo(t, s.writer) =>
        s.writer # NONE /\ (t = s.writer \/ BehindIn(before', t, s.writer))
  BY <1>1, EnterBehind DEF UpTo, Writer, Behind
<1>3. t # n => /\ Stores(t, b, d)' => UpTo(t, s.writer)
               /\ Loads(t, b, d)' \/ Copies(t, b, d)' => t \in s.readers \/ UpTo(t, s.writer)
  BY EnterSame DEF PlaceInv
<1>4. CASE state'[b][d] = s /\ ~Stores(n, b, d)' /\ ~Loads(n, b, d)' /\ ~Copies(n, b, d)'
  BY <1>2, <1>3, <1>4 DEF UpTo, Behind
<1>5. CASE state'[b][d] = PrepareRead(s, n) /\ ~Stores(n, b, d)'
  <2>1. state'[b][d].writer = s.writer /\ state'[b][d].readers = s.readers \union {n}
    BY <1>1, <1>5 DEF PrepareRead, State
  <2> QED BY <1>2, <1>3, <1>5, <2>1 DEF UpTo, Behind
<1>6. CASE /\ \E v \in Nat : state'[b][d] = PrepareWrite(s, n, v)
           /\ WaitsFor(s, TRUE) \subseteq before'[n]
  <2>1. state'[b][d].writer = n /\ n # NONE
    BY <1>1, <1>6 DEF PrepareWrite, State
  <2>2. t = n => UpTo(t, state[b][d].writer)'
    BY <2>1 DEF UpTo
  <2>3. t # n /\ (Stores(t, b, d)' \/ Loads(t, b, d)' \/ Copies(t, b, d)') => Behind(t, n)'
    BY <1>6, EnterFinds, EnterSame
  <2> QED BY <2>1, <2>2, <2>3 DEF UpTo
<1> QED BY <1>4, <1>5, <1>6 DEF Enters

(* n is behind all that it conflicts with.                                 *)
LEMMA EnterLast ==
  ASSUME TypeOK, TypeOK', PlaceInv, NEW n \in Task, Enters(n),
         NEW t \in Task \ {n}, NEW b \in Buffer, NEW d \in Dom,
         \/ Stores(t, b, d)' /\ (Stores(n, b, d)' \/ Loads(n, b, d)' \/ Copies(n, b, d)')
         \/ Stores(n, b, d)' /\ (Stores(t, b, d)' \/ Loads(t, b, d)' \/ Copies(t, b, d)')
  PROVE  Behind(t, n)'
<1>1. \/ Stores(t, b, d) /\ (Stores(n, b, d)' \/ Loads(n, b, d)' \/ Copies(n, b, d)')
      \/ Stores(n, b, d)' /\ (Stores(t, b, d) \/ Loads(t, b, d) \/ Copies(t, b, d))
  BY EnterSame
<1>2. \/ WaitsFor(state[b][d], FALSE) \subseteq before'[n] /\ ~Stores(n, b, d)'
      \/ WaitsFor(state[b][d], TRUE) \subseteq before'[n]
  BY <1>1 DEF Enters
<1> QED BY <1>1, <1>2, EnterFinds

LEMMA EnterOrder ==
  ASSUME TypeOK, TypeOK', PlaceInv, OrderInv, NEW n \in Task, Enters(n)
  PROVE  OrderInv'
<1> SUFFICES ASSUME NEW t \in Task, NEW u \in Task, NEW b \in Buffer, NEW d \in Dom,
                    t # u, Stores(t, b, d)',
                    Stores(u, b, d)' \/ Loads(u, b, d)' \/ Copies(u, b, d)'
             PROVE  Behind(t, u)' \/ Behind(u, t)'
  BY DEF OrderInv
<1>1. CASE t = n
  BY <1>1, EnterLast
<1>2. CASE u = n
  BY <1>2, EnterLast
<1>3. CASE t # n /\ u # n
  <2>1. Behind(t, u) \/ Behind(u, t)
    BY <1>3, EnterSame DEF OrderInv
  <2> QED BY <2>1, EnterBehind
<1> QED BY <1>1, <1>2, <1>3

LEMMA EnterRan ==
  ASSUME TypeOK, RanInv, NEW n \in Task, Enters(n)
  PROVE  RanInv'
<1> SUFFICES ASSUME NEW t \in Task, stage'[t] \in {"started", "done"}, NEW p \in before'[t]
             PROVE  stage'[p] = "done"
  BY DEF RanInv
<1>1. t # n
  BY DEF Enters
<1>2. p \in Task /\ stage[p] = "done"
  BY <1>1 DEF Enters, RanInv, TypeOK, graph!TGTypeOK
<1> QED BY <1>2 DEF Enters

(* A task that is not a host accessor enters: nobody it conflicts with has *)
(* a living one.                                                           *)
LEMMA EnterLive ==
  ASSUME TypeOK, TypeOK', LiveInv, NEW n \in Task, Enters(n), live' = live,
         \A h \in live, b \in Buffer : group[h].acc[b] # "unused" =>
           ~Stores(n, b, HOST)' /\ ~Loads(n, b, HOST)' /\ ~Copies(n, b, HOST)',
         GroupInv
  PROVE  LiveInv'
<1>1. n \notin live /\ live \in SUBSET Task
  BY DEF Enters, LiveInv, TypeOK
<1> SUFFICES ASSUME NEW h \in live
             PROVE  /\ stage'[h] # "open" /\ group'[h].tgt = HOST
                    /\ \A u \in Task \ {h}, b \in Buffer :
                         /\ u \in live =>
                              group'[h].acc[b] = "unused" \/ group'[u].acc[b] = "unused"
                         /\ \/ /\ Stores(h, b, HOST)'
                               /\ Stores(u, b, HOST)' \/ Loads(u, b, HOST)' \/ Copies(u, b, HOST)'
                            \/ Loads(h, b, HOST)' /\ Stores(u, b, HOST)'
                            => Behind(u, h)'
  BY DEF LiveInv
<1>2. h \in Task \ {n} /\ HOST \in Dom /\ group'[h] = group[h] /\ stage'[h] = stage[h]
  BY <1>1 DEF Enters
<1>3. \A b \in Buffer : Stores(h, b, HOST) \/ Loads(h, b, HOST) => group[h].acc[b] # "unused"
  BY DEF Stores, Loads, Reads, Writes, GroupInv, TypeOK
<1>4. ASSUME NEW u \in Task \ {h}, NEW b \in Buffer,
             \/ /\ Stores(h, b, HOST)'
                /\ Stores(u, b, HOST)' \/ Loads(u, b, HOST)' \/ Copies(u, b, HOST)'
             \/ Loads(h, b, HOST)' /\ Stores(u, b, HOST)'
      PROVE  Behind(u, h)'
  <2>1. u # n
    BY <1>2, <1>3, <1>4, EnterSame
  <2>2. Behind(u, h)
    BY <1>2, <1>4, <2>1, EnterSame DEF LiveInv
  <2> QED BY <1>2, <2>2, EnterBehind
<1>5. ASSUME NEW u \in Task \ {h}, NEW b \in Buffer, u \in live
      PROVE  group'[h].acc[b] = "unused" \/ group'[u].acc[b] = "unused"
  <2>1. group'[u] = group[u]
    BY <1>1, <1>5 DEF Enters
  <2> QED BY <1>2, <1>5, <2>1 DEF LiveInv
<1>6. stage'[h] # "open" /\ group'[h].tgt = HOST
  BY <1>2 DEF LiveInv
<1> QED BY <1>4, <1>5, <1>6

(* A host accessor enters for a buffer that no living one has.             *)
LEMMA EnterHost ==
  ASSUME TypeOK, TypeOK', PlaceInv, LiveInv, GroupInv', NEW n \in Task, Enters(n),
         live' = live \union {n}, group'[n].tgt = HOST,
         \A h \in live, b \in Buffer :
           group[h].acc[b] = "unused" \/ group'[n].acc[b] = "unused"
  PROVE  LiveInv'
<1>1. n \notin live /\ live \in SUBSET Task /\ HOST \in Dom
  BY DEF Enters, LiveInv, TypeOK
<1>2. \A h \in live : h \in Task \ {n} /\ group'[h] = group[h] /\ stage'[h] = stage[h]
  BY <1>1 DEF Enters
<1> SUFFICES ASSUME NEW h \in live \union {n}
             PROVE  /\ stage'[h] # "open" /\ group'[h].tgt = HOST
                    /\ \A u \in Task \ {h}, b \in Buffer :
                         /\ u \in live \union {n} =>
                              group'[h].acc[b] = "unused" \/ group'[u].acc[b] = "unused"
                         /\ \/ /\ Stores(h, b, HOST)'
                               /\ Stores(u, b, HOST)' \/ Loads(u, b, HOST)' \/ Copies(u, b, HOST)'
                            \/ Loads(h, b, HOST)' /\ Stores(u, b, HOST)'
                            => Behind(u, h)'
  BY DEF LiveInv
<1>3. stage'[h] # "open" /\ group'[h].tgt = HOST
  BY <1>2 DEF LiveInv, Enters
<1>4. ASSUME NEW u \in Task \ {h}, NEW b \in Buffer, u \in live \union {n}
      PROVE  group'[h].acc[b] = "unused" \/ group'[u].acc[b] = "unused"
  BY <1>1, <1>2, <1>4 DEF LiveInv
<1>5. ASSUME NEW u \in Task \ {h}, NEW b \in Buffer,
             \/ /\ Stores(h, b, HOST)'
                /\ Stores(u, b, HOST)' \/ Loads(u, b, HOST)' \/ Copies(u, b, HOST)'
             \/ Loads(h, b, HOST)' /\ Stores(u, b, HOST)'
      PROVE  Behind(u, h)'
  <2>1. CASE h = n
    BY <1>1, <1>5, <2>1, EnterLast
  <2>2. CASE h # n /\ u # n
    <3>1. h \in live /\ h \in Task \ {n} /\ u \in Task \ {n}
      BY <1>1, <2>2
    <3>2. Behind(u, h)
      BY <1>1, <1>5, <3>1, EnterSame DEF LiveInv
    <3> QED BY <3>1, <3>2, EnterBehind
  <2>3. CASE h # n /\ u = n
    <3>1. h \in live /\ group'[h] = group[h]
      BY <1>2, <2>3
    <3>2. group'[h].acc[b] = "unused" \/ group'[n].acc[b] = "unused"
      BY <3>1
    <3>3. /\ group'[h].acc[b] = "unused" => ~Stores(h, b, HOST)' /\ ~Loads(h, b, HOST)'
          /\ group'[n].acc[b] = "unused" =>
               ~Stores(n, b, HOST)' /\ ~Loads(n, b, HOST)' /\ ~Copies(n, b, HOST)'
      BY <1>1, <3>1 DEF Stores, Loads, Copies, Reads, Writes, GroupInv
    <3> QED BY <1>5, <2>3, <3>2, <3>3
  <2> QED BY <2>1, <2>2, <2>3
<1> QED BY <1>3, <1>4, <1>5
-----------------------------------------------------------------------------
LEMMA ConflictInit == Init => ConflictInv
<1> SUFFICES ASSUME Init PROVE ConflictInv
  OBVIOUS
<1>1. \A t \in Task, b \in Buffer, d \in Dom :
        ~Stores(t, b, d) /\ ~Loads(t, b, d) /\ ~Copies(t, b, d)
  BY DEF Init, NoGroup, Stores, Loads, Copies, Reads, Writes
<1>2. RanInv
  BY DEF Init, graph!TGInit, RanInv
<1>3. PlaceInv /\ OrderInv
  BY <1>1 DEF PlaceInv, OrderInv
<1>4. LiveInv /\ GroupInv
  BY DEF Init, LiveInv, GroupInv, NoGroup, NoFill
<1> QED BY <1>2, <1>3, <1>4 DEF ConflictInv

(* The steps that run tasks: nothing is bound.                             *)
LEMMA ConflictRest ==
  ASSUME TypeOK, ConflictInv, UNCHANGED <<before, state, group>>,
         live' \subseteq live, \A h \in live' : stage'[h] # "open"
  PROVE  PlaceInv' /\ OrderInv' /\ LiveInv'
<1>1. \A t, u : Behind(t, u)' = Behind(t, u)
  BY DEF Behind, BehindIn
<1>2. \A t, b, d : /\ Stores(t, b, d)' = Stores(t, b, d) /\ Loads(t, b, d)' = Loads(t, b, d)
                   /\ Copies(t, b, d)' = Copies(t, b, d)
  BY DEF Stores, Loads, Copies
<1>3. \A t, w : UpTo(t, w)' = UpTo(t, w)
  BY <1>1 DEF UpTo
<1>4. PlaceInv' /\ OrderInv'
  BY <1>1, <1>2, <1>3 DEF ConflictInv, PlaceInv, OrderInv
<1>5. LiveInv'
  BY <1>1, <1>2 DEF ConflictInv, LiveInv
<1> QED BY <1>4, <1>5

LEMMA ConflictStep == TypeOK /\ TypeOK' /\ ConflictInv /\ [Next]_vars => ConflictInv'
<1> SUFFICES ASSUME TypeOK, TypeOK', ConflictInv, [Next]_vars PROVE ConflictInv'
  OBVIOUS
<1> USE DEF ConflictInv
<1>1. ASSUME NEW t \in Task, Bind(t) PROVE ConflictInv'
  <2>1. PICK tgt \in Device, acc \in [Buffer -> Access] :
          /\ \A b \in Buffer : acc[b] # "unused" => Free(b)
          /\ BindAll(t, tgt, acc)
    BY <1>1 DEF Bind
  <2>2. /\ Enters(t) /\ group'[t].acc = acc
        /\ \A b \in Buffer : group'[t].from[b] # NONE => Reads(acc[b])
    BY <2>1, BindAllEnters
  <2>3. GroupInv'
    BY <1>1, <2>2 DEF GroupInv, Enters, Bind
  <2>4. ASSUME NEW h \in live, NEW b \in Buffer, group[h].acc[b] # "unused"
        PROVE  ~Stores(t, b, HOST)' /\ ~Loads(t, b, HOST)' /\ ~Copies(t, b, HOST)'
    <3>1. acc[b] = "unused"
      BY <2>1, <2>4 DEF Free
    <3> QED BY <2>2, <3>1 DEF Stores, Loads, Copies, Reads, Writes
  <2>5. LiveInv'
    BY <1>1, <2>2, <2>4, EnterLive DEF Bind
  <2> QED BY <2>2, <2>3, <2>5, EnterRan, EnterPlace, EnterOrder
<1>2. ASSUME NEW t \in Task, BindHost(t) PROVE ConflictInv'
  <2>1. PICK b \in Buffer, a \in {"read_only", "read_write"} :
          /\ Free(b)
          /\ BindAll(t, HOST, [[c \in Buffer |-> "unused"] EXCEPT ![b] = a])
    BY <1>2 DEF BindHost
  <2> DEFINE acc == [[c \in Buffer |-> "unused"] EXCEPT ![b] = a]
  <2>2. acc \in [Buffer -> Access] /\ HOST \in Dom
    BY DEF Access
  <2>3. /\ Enters(t) /\ group'[t].acc = acc /\ group'[t].tgt = HOST
        /\ \A c \in Buffer : group'[t].from[c] # NONE => Reads(acc[c])
    BY <2>1, <2>2, BindAllEnters
  <2>4. GroupInv'
    BY <1>2, <2>3 DEF GroupInv, Enters, BindHost
  <2>5. \A h \in live, c \in Buffer :
          group[h].acc[c] = "unused" \/ group'[t].acc[c] = "unused"
    BY <2>1, <2>3 DEF Free
  <2>6. LiveInv'
    BY <1>2, <2>3, <2>4, <2>5, EnterHost DEF BindHost
  <2> QED BY <2>3, <2>4, <2>6, EnterRan, EnterPlace, EnterOrder
<1>3. ASSUME NEW t \in Task, FillEnd(t) PROVE ConflictInv'
  <2>1. /\ Enters(t) /\ group'[t].tgt \in Device
        /\ \A b \in Buffer : group'[t].from[b] = NONE
    BY <1>3, FillEndEnters
  <2>2. GroupInv'
    <3>1. \A u \in Task, b \in Buffer : group'[u].from[b] # NONE => Reads(group'[u].acc[b])
      BY <2>1 DEF GroupInv, Enters
    <3>2. fill' = [fill EXCEPT ![t] = NoFill]
      BY <1>3 DEF FillEnd
    <3>3. \A u \in Task : fill'[u] # NoFill => fill'[u].tgt \in Device
      BY <3>2 DEF GroupInv, TypeOK
    <3> QED BY <3>1, <3>3 DEF GroupInv
  <2>3. \A b \in Buffer : ~Stores(t, b, HOST)' /\ ~Loads(t, b, HOST)' /\ ~Copies(t, b, HOST)'
    BY <2>1 DEF Stores, Loads, Copies
  <2>4. LiveInv'
    BY <1>3, <2>1, <2>3, EnterLive DEF FillEnd
  <2> QED BY <2>1, <2>2, <2>4, EnterRan, EnterPlace, EnterOrder
<1>4. ASSUME NEW t \in Task, FillBegin(t) PROVE ConflictInv'
  <2>1. GroupInv'
    BY <1>4 DEF GroupInv, FillBegin, TypeOK
  <2>2. RanInv'
    BY <1>4 DEF RanInv, FillBegin
  <2>3. \A h \in live' : stage'[h] # "open"
    BY <1>4 DEF FillBegin, LiveInv
  <2> QED BY <1>4, <2>1, <2>2, <2>3, ConflictRest DEF FillBegin
<1>5. ASSUME NEW t \in Task, Submit(t) \/ Run(t) \/ Done(t) PROVE ConflictInv'
  <2>1. /\ UNCHANGED <<before, live, bound_vars>> /\ stage'[t] # "open"
        /\ stage[t] # "done" /\ \A u \in Task \ {t} : stage'[u] = stage[u]
    BY <1>5 DEF Submit, Run, Done, TypeOK, graph!TGTypeOK, graph!SubmitTask, graph!Start,
                graph!Finish
  <2>2. stage'[t] \in {"started", "done"} => \A p \in before[t] : stage[p] = "done"
    BY <1>5 DEF Submit, Run, Done, TypeOK, graph!TGTypeOK, graph!SubmitTask, graph!Start,
                graph!Finish, graph!Ready, RanInv
  <2>3. RanInv'
    <3>1. \A p \in Task : stage[p] = "done" => stage'[p] = "done"
      BY <2>1
    <3>2. before' = before /\ before \in [Task -> SUBSET Task]
      BY <2>1 DEF TypeOK, graph!TGTypeOK
    <3> QED BY <2>1, <2>2, <3>1, <3>2 DEF RanInv
  <2>4. GroupInv'
    BY <2>1 DEF GroupInv, bound_vars
  <2>5. live' = live /\ \A h \in live' : stage'[h] # "open"
    BY <2>1 DEF LiveInv, TypeOK
  <2> QED BY <2>1, <2>3, <2>4, <2>5, ConflictRest DEF bound_vars
<1>6. ASSUME NEW t \in Task, Release(t) PROVE ConflictInv'
  <2>1. RanInv' /\ GroupInv'
    BY <1>6 DEF Release, RanInv, GroupInv, bound_vars
  <2>2. live' \subseteq live /\ \A h \in live' : stage'[h] # "open"
    BY <1>6 DEF Release, LiveInv
  <2> QED BY <1>6, <2>1, <2>2, ConflictRest DEF Release, bound_vars
<1>7. CASE UNCHANGED vars
  <2>1. RanInv' /\ GroupInv' /\ \A h \in live' : stage'[h] # "open"
    BY <1>7 DEF vars, RanInv, GroupInv, LiveInv
  <2> QED BY <1>7, <2>1, ConflictRest DEF vars
<1> QED BY <1>1, <1>2, <1>3, <1>4, <1>5, <1>6, <1>7 DEF Next, TaskStep, Finished

LEMMA NothingConflicts == TypeOK /\ ConflictInv => NoConflict
<1> SUFFICES ASSUME TypeOK, ConflictInv,
                    NEW t \in Task, NEW u \in Task, NEW b \in Buffer, NEW d \in Dom,
                    t # u, Running(t), Running(u), Stores(t, b, d),
                    Stores(u, b, d) \/ Loads(u, b, d) \/ (stage[u] = "started" /\ Copies(u, b, d))
             PROVE  FALSE
  BY DEF NoConflict
<1> USE DEF ConflictInv
<1>1. stage[t] \in {"started", "done"} /\ stage[u] \in {"started", "done"}
  BY DEF Running
<1>2. Behind(t, u) \/ Behind(u, t)
  BY DEF OrderInv
<1>3. CASE Behind(t, u)
  <2>1. stage[t] = "done"
    BY <1>1, <1>3, BehindDone
  <2>2. t \in live /\ d = HOST
    BY <2>1 DEF Running, LiveInv, Stores
  <2>3. Behind(u, t)
    BY <2>2 DEF LiveInv
  <2>4. stage[u] = "done"
    BY <1>1, <2>3, BehindDone
  <2>5. u \in live /\ (Stores(u, b, d) \/ Loads(u, b, d))
    BY <2>4 DEF Running
  <2>6. group[t].acc[b] # "unused" /\ group[u].acc[b] # "unused"
    BY <2>5 DEF Stores, Loads, Reads, Writes, GroupInv
  <2> QED BY <2>2, <2>5, <2>6 DEF LiveInv
<1>4. CASE Behind(u, t)
  <2>1. stage[u] = "done"
    BY <1>1, <1>4, BehindDone
  <2>2. u \in live /\ d = HOST /\ (Stores(u, b, d) \/ Loads(u, b, d))
    BY <2>1 DEF Running, LiveInv, Stores, Loads
  <2>3. Behind(t, u)
    BY <2>2 DEF LiveInv
  <2> QED BY <1>3, <2>3
<1> QED BY <1>2, <1>3, <1>4

(* Tasks that run at the same time, and the program at an accessor's       *)
(* pointer, never conflict on any memory.                                  *)
THEOREM ConflictFree == Spec => []NoConflict
<1>1. Init => TypeOK /\ ConflictInv
  BY TypeInit, ConflictInit
<1>2. TypeOK /\ ConflictInv /\ [Next]_vars => (TypeOK /\ ConflictInv)'
  BY TypeStep, ConflictStep
<1> QED BY <1>1, <1>2, NothingConflicts, PTL DEF Spec
=============================================================================
