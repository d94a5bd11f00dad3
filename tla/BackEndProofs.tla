---------------------------- MODULE BackEndProofs ----------------------------
(* Proofs about the back ends under the dependency manager: on the CPU,    *)
(* where the host's memory is the device's, and on IRIS, where a task      *)
(* without commands is done at once, kernels and the program read what the *)
(* groups bound before wrote.  For every number of tasks and buffers.      *)
EXTENDS MCBackEnds, DepDataProofs, FiniteSetTheorems

USE DepAssumption DEF Dom

(* What the manager's proofs say of a state.                               *)
BaseInv == TypeOK /\ ConflictInv /\ FillInv /\ DataInv

LEMMA BaseInit == Init => BaseInv
BY TypeInit, ConflictInit, DataInit DEF BaseInv

LEMMA BaseStep ==
  ASSUME Concurrent = FALSE, BaseInv, [Next]_vars
  PROVE  BaseInv' /\ NoConflict /\ NoConflict'
<1>1. TypeOK' /\ ConflictInv'
  BY TypeStep, ConflictStep DEF BaseInv
<1>2. NoConflict
  BY NothingConflicts DEF BaseInv
<1>5. NoConflict'
  BY <1>1, NothingConflicts, PTL
<1>3. FillInv'
  BY <1>1, FillStep DEF BaseInv, DataInv, ConflictInv
<1>4. DataInv'
  BY <1>1, <1>2, <1>5, DataStep DEF BaseInv
<1> QED BY <1>1, <1>2, <1>3, <1>4, <1>5 DEF BaseInv
-----------------------------------------------------------------------------
(* The order in which a program binds its tasks, as want and last have it. *)

Uses(t, b) == group[t].acc[b] # "unused"

Author(t, b) == Writes(group[t].acc[b])

OpenInv ==
  \A t \in Task : stage[t] = "open" => group[t] = NoGroup /\ before[t] = {}

HostInv ==
  \A t \in Task : stage[t] # "open" /\ group[t].tgt = HOST => t \in live \/ stage[t] = "done"

(* Those that write a buffer form a chain, which ends in last.             *)
ChainInv ==
  /\ \A b \in Buffer : last[b] # NONE => Author(last[b], b)
  /\ \A t \in Task, b \in Buffer :
       stage[t] # "open" /\ want[t][b] # NONE => want[t][b] # t /\ Author(want[t][b], b)
  /\ \A t, u \in Task, b \in Buffer :
       t # u /\ Author(t, b) /\ Author(u, b) => want[t][b] # want[u][b]
  /\ \A t \in Task, b \in Buffer : Author(t, b) => want[t][b] # last[b]

(* Who wrote the latest data in a domain is, or waits for, its author.     *)
LatestInv ==
  \A b \in Buffer, d \in Dom :
    HasLatest(b, d) /\ last[b] # NONE => UpTo(last[b], state[b][d].writer)

(* Nobody is bound after a host accessor that lives.                       *)
HeldInv ==
  \A h \in live, b \in Buffer :
    Uses(h, b) => last[b] = IF Author(h, b) THEN h ELSE want[h][b]

ProgramInv == OpenInv /\ HostInv /\ ChainInv /\ LatestInv /\ HeldInv

LEMMA ProgramInit == Init => ProgramInv
<1> SUFFICES ASSUME Init PROVE ProgramInv
  OBVIOUS
<1>1. \A t \in Task : stage[t] = "open" /\ group[t] = NoGroup /\ before[t] = {}
  BY DEF Init, graph!TGInit
<1>2. \A t \in Task, b \in Buffer : ~Author(t, b)
  BY <1>1 DEF Author, NoGroup, Writes
<1>3. live = {} /\ \A b \in Buffer : last[b] = NONE
  BY DEF Init
<1> QED BY <1>1, <1>2, <1>3 DEF ProgramInv, OpenInv, HostInv, ChainInv, LatestInv, HeldInv

(* Nothing is bound.                                                       *)
Rests ==
  /\ UNCHANGED <<before, ver, owner, state, group, last, want>> /\ live' \subseteq live
  /\ \A t \in Task : /\ stage'[t] = "open" <=> stage[t] = "open"
                     /\ stage[t] = "done" => stage'[t] = "done"
                     /\ t \in live \ live' => stage[t] = "done"

LEMMA TaskRests ==
  ASSUME BaseInv, NEW t \in Task, TaskStep(t) \/ FillBegin(t)
  PROVE  Rests
<1> USE DEF BaseInv
<1>1. CASE FillBegin(t)
  BY <1>1 DEF FillBegin, Rests
<1>2. CASE Submit(t) \/ Run(t) \/ Done(t)
  BY <1>2 DEF Submit, Run, Done, bound_vars, graph!SubmitTask, graph!Start, graph!Finish, Rests,
              TypeOK, graph!TGTypeOK
<1>3. CASE Release(t)
  BY <1>3 DEF Release, bound_vars, Rests, TypeOK, graph!TGTypeOK
<1> QED BY <1>1, <1>2, <1>3 DEF TaskStep

LEMMA StepShape ==
  ASSUME BaseInv, [Next]_vars
  PROVE  Rests \/ \E n \in Task : Joins(n)
<1>1. ASSUME NEW t \in Task, Bind(t) \/ BindHost(t) \/ FillEnd(t) PROVE Joins(t)
  BY <1>1, BindJoins DEF BaseInv
<1>2. UNCHANGED vars => Rests
  BY DEF vars, Rests
<1> QED BY <1>1, <1>2, TaskRests DEF Next, Finished

LEMMA RestKeeps ==
  ASSUME BaseInv, ProgramInv, Rests
  PROVE  ProgramInv'
<1>1. OpenInv' /\ HostInv'
  BY DEF Rests, ProgramInv, OpenInv, HostInv
<1>2. \A t \in Task, b \in Buffer : Author(t, b)' = Author(t, b) /\ Uses(t, b)' = Uses(t, b)
  BY DEF Rests, Author, Uses
<1>3. /\ \A b \in Buffer : last[b] \in Writer
      /\ \A t \in Task, b \in Buffer : want[t][b] \in Writer
  BY DEF BaseInv, TypeOK
<1>4. ChainInv'
  BY <1>2, <1>3 DEF Rests, ProgramInv, ChainInv, Writer, Author
<1>5. LatestInv'
  BY DEF Rests, ProgramInv, LatestInv, HasLatest, UpTo, Behind, BehindIn
<1>6. HeldInv'
  BY <1>2 DEF Rests, ProgramInv, HeldInv, BaseInv, TypeOK
<1> QED BY <1>1, <1>4, <1>5, <1>6 DEF ProgramInv

(* A task that is bound and reads finds the latest data, and waits for who *)
(* wrote it.                                                               *)
LEMMA JoinReads ==
  ASSUME BaseInv, BaseInv', ProgramInv, NEW n \in Task, Joins(n), NEW b \in Buffer,
         NEW d \in Dom, Source(n, b, d)', NEW w \in Task, w = last[b]
  PROVE  Behind(w, n)'
<1> USE DEF BaseInv
<1>1. HasLatest(b, d)
  BY DEF Joins, Updates
<1>2. PICK v \in Writer : v = state[b][d].writer
  BY DEF TypeOK, State
<1>3. v \in Task /\ UpTo(w, v)
  BY <1>1, <1>2 DEF ProgramInv, LatestInv, UpTo, Writer
<1>4. v \in before'[n]
  <2>1. \/ WaitsFor(state[b][d], FALSE) \subseteq before'[n]
        \/ WaitsFor(state[b][d], TRUE) \subseteq before'[n]
    BY DEF Joins, Enters, Source
  <2> QED BY <1>2, <1>3, <2>1 DEF WaitsFor, UpTo
<1> QED BY <1>3, <1>4, EnterBehind DEF Joins, UpTo

LEMMA JoinKeeps ==
  ASSUME BaseInv, BaseInv', ProgramInv, NEW n \in Task, Joins(n)
  PROVE  ProgramInv'
<1> USE DEF BaseInv
<1>1. /\ stage[n] = "open" /\ stage'[n] = "bound" /\ n # NONE
      /\ \A u \in Task \ {n} :
           stage'[u] = stage[u] /\ before'[u] = before[u] /\ group'[u] = group[u]
      /\ want'[n] = last /\ \A u \in Task \ {n} : want'[u] = want[u]
  BY DEF Joins, Enters, Updates
<1>2. /\ \A b \in Buffer : ~Author(n, b)
      /\ \A u \in Task \ {n}, b \in Buffer :
           Author(u, b)' = Author(u, b) /\ Uses(u, b)' = Uses(u, b)
  BY <1>1 DEF ProgramInv, OpenInv, NoGroup, Author, Uses, Writes
<1>3. \A b \in Buffer : last'[b] = IF Author(n, b)' THEN n ELSE last[b]
  BY DEF Joins, Updates, Author
<1>4. /\ \A b \in Buffer : last[b] \in Writer \ {n}
      /\ \A u \in Task, b \in Buffer : stage[u] # "open" => want[u][b] \in Writer \ {n}
  BY <1>1, <1>2 DEF ProgramInv, ChainInv, TypeOK
<1>5. \A u \in Task, b \in Buffer : Author(u, b) => stage[u] # "open"
  BY DEF ProgramInv, OpenInv, NoGroup, Author, Writes
<1>6. OpenInv' /\ HostInv'
  BY <1>1 DEF ProgramInv, OpenInv, HostInv, Joins, Apart
<1>7. ChainInv'
  <2>1. \A b \in Buffer : last'[b] # NONE => Author(last[b], b)'
    BY <1>2, <1>3, <1>4 DEF ProgramInv, ChainInv, Writer, Author
  <2>2. \A t \in Task, b \in Buffer :
          stage'[t] # "open" /\ want'[t][b] # NONE =>
            want'[t][b] # t /\ Author(want[t][b], b)'
    BY <1>1, <1>2, <1>4 DEF ProgramInv, ChainInv, Writer, Author
  <2>3. \A t, u \in Task, b \in Buffer :
          t # u /\ Author(t, b)' /\ Author(u, b)' => want'[t][b] # want'[u][b]
    BY <1>1, <1>2 DEF ProgramInv, ChainInv
  <2>4. \A t \in Task, b \in Buffer : Author(t, b)' => want'[t][b] # last'[b]
    BY <1>1, <1>2, <1>3, <1>4, <1>5 DEF ProgramInv, ChainInv
  <2> QED BY <2>1, <2>2, <2>3, <2>4 DEF ChainInv
<1>8. LatestInv'
  <2> SUFFICES ASSUME NEW b \in Buffer, NEW d \in Dom, state'[b][d].ver = ver'[b],
                      last'[b] # NONE
               PROVE  UpTo(last[b], state[b][d].writer)'
    BY DEF LatestInv, HasLatest
  <2>1. /\ ver[b] \in Nat /\ state[b][d].ver \in Nat /\ state[b][d].ver <= ver[b]
        /\ state[b][d].writer \in Writer
    <3>1. state[b][d] \in State /\ ver[b] \in Nat
      BY DEF TypeOK
    <3> QED BY <3>1 DEF State, DataInv, OwnerHasLatest
  <2>2. CASE last'[b] = n /\ state'[b][d].writer = n
    BY <1>1, <2>2 DEF UpTo
  <2>3. CASE last'[b] = last[b] /\ state'[b][d].writer = n /\ group'[n].from[b] # NONE
    <3>1. group'[n].from[b] \in Dom
      BY <2>3 DEF TypeOK, Group
    <3>2. PICK c \in Dom : c = group'[n].from[b]
      BY <3>1
    <3>3. PICK w \in Task : w = last[b]
      BY <1>4, <2>3 DEF Writer
    <3>4. Behind(w, n)'
      BY <3>2, <3>3, JoinReads DEF Source, Copies
    <3> QED BY <1>1, <2>3, <3>3, <3>4 DEF UpTo, Behind
  <2>4. CASE /\ state'[b][d].ver = state[b][d].ver /\ state'[b][d].writer = state[b][d].writer
             /\ ver'[b] = ver[b] /\ last'[b] = last[b]
    <3>1. last[b] \in Task /\ UpTo(last[b], state[b][d].writer)
      BY <1>4, <2>4 DEF ProgramInv, LatestInv, HasLatest, Writer
    <3> QED BY <2>1, <2>4, <3>1, EnterBehind DEF Joins, UpTo, Behind, Writer
  <2>5. ~(state'[b][d].ver = state[b][d].ver /\ ver'[b] = ver[b] + 1)
    BY <2>1
  <2> QED BY <2>2, <2>3, <2>4, <2>5 DEF Joins, Updates
<1>9. HeldInv'
  <2> SUFFICES ASSUME NEW h \in live', NEW b \in Buffer, Uses(h, b)'
               PROVE  last'[b] = IF Author(h, b)' THEN h ELSE want'[h][b]
    BY DEF HeldInv
  <2>1. CASE h = n
    BY <1>1, <1>3, <2>1
  <2>2. CASE h # n
    <3>1. h \in live /\ h \in Task \ {n}
      BY <2>2 DEF Joins, Apart, TypeOK
    <3>2. ~Author(n, b)'
      BY <1>2, <3>1 DEF Joins, Apart, Uses, Author, Writes
    <3> QED BY <1>1, <1>2, <1>3, <3>1, <3>2 DEF ProgramInv, HeldInv
  <2> QED BY <2>1, <2>2
<1> QED BY <1>6, <1>7, <1>8, <1>9 DEF ProgramInv

LEMMA ProgramStep ==
  ASSUME BaseInv, BaseInv', ProgramInv, [Next]_vars
  PROVE  ProgramInv'
BY StepShape, RestKeeps, JoinKeeps
-----------------------------------------------------------------------------
(* One memory domain beside the host's: who wrote the latest data of a     *)
(* buffer is through, or the tasks bound to it since wait for him.         *)
PredInv ==
  \A t \in Task, b \in Buffer :
    stage[t] # "open" /\ Uses(t, b) /\ want[t][b] # NONE =>
      want[t][b] \notin live /\ (Final(want[t][b]) \/ Behind(want[t][b], t))

LEMMA JoinPred ==
  ASSUME BaseInv, BaseInv', ProgramInv, NEW n \in Task, Joins(n), OneDevice', PredInv
  PROVE  PredInv'
<1> USE DEF BaseInv
<1>1. /\ stage[n] = "open" /\ stage'[n] = "bound" /\ live' \subseteq live \union {n}
      /\ \A u \in Task \ {n} : stage'[u] = stage[u] /\ group'[u] = group[u]
      /\ want'[n] = last /\ \A u \in Task \ {n} : want'[u] = want[u]
  BY DEF Joins, Enters, Updates, Apart
<1>2. \A u \in Task, b \in Buffer : Author(u, b) => u # n
  BY <1>1 DEF ProgramInv, OpenInv, NoGroup, Author, Writes
<1>3. \A u \in Task \ {n} : Final(u) => Final(u)'
  BY <1>1 DEF Final
<1>4. ASSUME NEW b \in Buffer, NEW w \in Task, Uses(n, b)', w = last[b]
      PROVE  w \notin live' /\ (Final(w)' \/ Behind(w, n)')
  <2>1. Author(w, b) /\ w \in Task \ {n}
    BY <1>2, <1>4 DEF ProgramInv, ChainInv
  <2>2. w \notin live'
    BY <1>1, <1>4, <2>1 DEF Joins, Apart, Author, Uses, Writes
  <2>3. CASE Reads(group'[n].acc[b])
    <3>1. group'[n].tgt \in Dom /\ group'[n].from[b] \in Dom \union {NONE}
      BY DEF TypeOK, Group
    <3>2. PICK d \in Dom : Source(n, b, d)'
      BY <2>3, <3>1 DEF Source, Copies, Loads
    <3> QED BY <1>4, <2>2, <3>2, JoinReads
  <2>4. CASE ~Reads(group'[n].acc[b])
    <3>1. PICK d \in Dom : d = group'[n].tgt
      BY DEF TypeOK, Group
    <3>2. d \in Device /\ Stores(n, b, d)'
      <4>1. group'[n].acc[b] = "write_only"
        BY <1>4, <2>4 DEF TypeOK, Group, Access, Reads, Uses
      <4>2. d # HOST
        BY <3>1, <4>1 DEF Joins
      <4> QED BY <3>1, <4>1, <4>2 DEF Stores, Writes
    <3>3. CASE group[w].tgt = HOST
      <4>1. stage[w] # "open"
        BY <2>1 DEF ProgramInv, OpenInv, NoGroup, Author, Writes
      <4>2. Final(w)
        BY <1>1, <2>1, <2>2, <3>3, <4>1 DEF ProgramInv, HostInv, Final, Joins, Apart
      <4> QED BY <1>3, <2>1, <2>2, <4>2
    <3>4. CASE group[w].tgt # HOST
      <4>1. group'[w].tgt = d
        BY <1>1, <2>1, <3>1, <3>2, <3>4 DEF OneDevice
      <4>2. Stores(w, b, d)'
        BY <1>1, <2>1, <4>1 DEF Stores, Author
      <4> QED BY <2>1, <2>2, <3>2, <4>2, EnterLast DEF Joins, ConflictInv
    <3> QED BY <3>3, <3>4
  <2> QED BY <2>2, <2>3, <2>4
<1> SUFFICES ASSUME NEW t \in Task, NEW b \in Buffer, NEW w \in Task,
                    stage'[t] # "open", Uses(t, b)', want'[t][b] = w
             PROVE  w \notin live' /\ (Final(w)' \/ Behind(w, t)')
  <2>1. \A t \in Task, b \in Buffer : want'[t][b] \in Writer
    BY DEF TypeOK
  <2> QED BY <2>1 DEF PredInv, Writer, Final, Behind
<1>5. CASE t = n
  BY <1>1, <1>4, <1>5
<1>6. CASE t # n
  <2>1. stage[t] # "open" /\ Uses(t, b) /\ want[t][b] = w
    BY <1>1, <1>6 DEF Uses
  <2>2. w # n
    BY <1>2, <2>1 DEF ProgramInv, ChainInv
  <2>3. w \notin live /\ (Final(w) \/ Behind(w, t))
    BY <2>1 DEF PredInv
  <2> QED BY <1>1, <1>3, <2>2, <2>3, EnterBehind DEF Joins
<1> QED BY <1>5, <1>6

LEMMA RestPred ==
  ASSUME BaseInv, PredInv, Rests
  PROVE  PredInv'
<1> SUFFICES ASSUME NEW t \in Task, NEW b \in Buffer, NEW w \in Task,
                    stage'[t] # "open", Uses(t, b)', want'[t][b] = w
             PROVE  w \notin live' /\ (Final(w)' \/ Behind(w, t)')
  <2>1. \A t \in Task, b \in Buffer : want'[t][b] \in Writer
    BY DEF Rests, BaseInv, TypeOK
  <2> QED BY <2>1 DEF PredInv, Writer, Final, Behind
<1>1. w \notin live /\ (Final(w) \/ Behind(w, t))
  BY DEF Rests, Uses, PredInv
<1> QED BY <1>1 DEF Rests, Final, Behind, BehindIn

(* When t has run, what it wants from the last author before it is there   *)
(* for good.                                                               *)
LEMMA WantFinal ==
  ASSUME BaseInv, PredInv, NEW t \in Task, NEW b \in Buffer, Uses(t, b),
         stage[t] # "open", \A p \in before[t] : stage[p] = "done"
  PROVE  want[t][b] # NONE => Final(want[t][b])
<1> SUFFICES ASSUME NEW w \in Task, w = want[t][b], Behind(w, t) PROVE stage[w] = "done"
  BY DEF BaseInv, TypeOK, Writer, PredInv, Final
<1> DEFINE X == {x \in Task : stage[x] = "done"}
<1>1. before[t] \subseteq X /\ \A x \in X : before[x] \subseteq X
  BY DEF BaseInv, ConflictInv, RanInv, TypeOK, graph!TGTypeOK
<1>2. w \in X
  BY <1>1 DEF Behind, BehindIn
<1> QED BY <1>2
-----------------------------------------------------------------------------
(* The one memory of the CPU.                                              *)

(* w is the last to have written b.                                        *)
Tip(w, b) ==
  /\ w = NONE \/ (Final(w) /\ Author(w, b))
  /\ \A u \in Task : Author(u, b) /\ want[u][b] = w => ~Final(u)

MemoryInv == \A b \in Buffer, w \in Writer : Tip(w, b) => memory[b] = w

(* Nobody is through with the memory in this step.                         *)
Quiet == memory' = memory /\ \A u \in Task : Final(u)' <=> Final(u)

(* t is, and has written it.                                               *)
CpuEnds(t) ==
  /\ stage[t] \in {"started", "done"} /\ ~Final(t) /\ Final(t)'
  /\ \A u \in Task \ {t} : Final(u)' <=> Final(u)
  /\ memory' = CpuWritten(t)
  /\ UNCHANGED <<before, group, want, last>>

LEMMA JoinMemory ==
  ASSUME BaseInv, BaseInv', ProgramInv, NEW n \in Task, Joins(n), Quiet, MemoryInv
  PROVE  MemoryInv'
<1> SUFFICES ASSUME NEW b \in Buffer, NEW w \in Writer, Tip(w, b)' PROVE memory[b] = w
  BY DEF MemoryInv, Quiet
<1>1. /\ stage'[n] = "bound" /\ stage[n] = "open"
      /\ \A u \in Task \ {n} : group'[u] = group[u] /\ want'[u] = want[u]
  BY DEF Joins, Enters, Updates
<1>2. \A u \in Task : ~Author(n, b) /\ (u # n => Author(u, b)' = Author(u, b))
  BY <1>1 DEF ProgramInv, OpenInv, NoGroup, Author, Writes
<1>3. ~Final(n)'
  BY <1>1 DEF Final
<1>4. Tip(w, b)
  BY <1>1, <1>2, <1>3 DEF Tip, Quiet, Writer
<1> QED BY <1>4 DEF MemoryInv

LEMMA RestMemory ==
  ASSUME Rests, Quiet, MemoryInv
  PROVE  MemoryInv'
<1> SUFFICES ASSUME NEW b \in Buffer, NEW w \in Writer, Tip(w, b)' PROVE memory[b] = w
  BY DEF MemoryInv, Quiet
<1>1. Tip(w, b)
  BY DEF Tip, Quiet, Writer, Rests, Author
<1> QED BY <1>1 DEF MemoryInv

LEMMA EndMemory ==
  ASSUME BaseInv, ProgramInv, PredInv, NEW t \in Task, CpuEnds(t), MemoryInv
  PROVE  MemoryInv'
<1> SUFFICES ASSUME NEW b \in Buffer, NEW w \in Writer, Tip(w, b)' PROVE memory'[b] = w
  BY DEF MemoryInv
<1>1. /\ \A u \in Task : Author(u, b)' = Author(u, b)
      /\ want' = want /\ ~Final(t) /\ Final(t)'
      /\ \A u \in Task : Final(u) => Final(u)'
      /\ memory'[b] = IF Author(t, b) THEN t ELSE memory[b]
  BY DEF CpuEnds, Author, CpuWritten
<1>2. ASSUME w # t PROVE Tip(w, b)
  BY <1>1, <1>2 DEF Tip, Writer, CpuEnds
<1>3. CASE ~Author(t, b)
  BY <1>1, <1>2, <1>3 DEF MemoryInv, Tip
<1>4. CASE Author(t, b)
  <2>1. PICK v \in Writer : v = want[t][b]
    BY DEF BaseInv, TypeOK
  <2>2. v = NONE \/ (Final(v) /\ Author(v, b))
    <3>1. stage[t] # "open" /\ \A p \in before[t] : stage[p] = "done"
      BY DEF CpuEnds, BaseInv, ConflictInv, RanInv
    <3>2. Uses(t, b)
      BY <1>4 DEF Author, Uses, Writes
    <3> QED BY <2>1, <3>1, <3>2, WantFinal DEF ProgramInv, ChainInv
  <2>3. Tip(v, b)
    BY <1>1, <1>4, <2>1, <2>2 DEF Tip, ProgramInv, ChainInv
  <2>4. w # t => w = v
    BY <1>2, <2>3 DEF MemoryInv
  <2>5. w # v
    BY <1>1, <1>4, <2>1 DEF Tip
  <2> QED BY <1>1, <1>4, <2>4, <2>5
<1> QED BY <1>3, <1>4

(* A program that has waited for its accessor finds the latest data.       *)
LEMMA HostSees ==
  ASSUME BaseInv, ProgramInv, CpuTypeOK, PredInv, MemoryInv
  PROVE  HostSeesLatest
<1> SUFFICES ASSUME NEW t \in woken \intersect live, NEW b \in Buffer, Uses(t, b)
             PROVE  memory[b] = want[t][b]
  BY DEF HostSeesLatest, Uses
<1>1. t \in Task /\ stage[t] = "done"
  BY DEF CpuTypeOK
<1>2. PICK w \in Writer : w = want[t][b]
  BY <1>1 DEF BaseInv, TypeOK
<1>3. w = NONE \/ (Final(w) /\ Author(w, b))
  <2>1. \A p \in before[t] : stage[p] = "done"
    BY <1>1 DEF BaseInv, ConflictInv, RanInv
  <2> QED BY <1>1, <1>2, <2>1, WantFinal DEF ProgramInv, ChainInv
<1>4. ASSUME NEW u \in Task, Author(u, b), want[u][b] = w, Final(u) PROVE FALSE
  <2>1. u # t
    BY <1>4 DEF Final
  <2>2. last[b] = IF Author(t, b) THEN t ELSE w
    BY <1>2 DEF ProgramInv, HeldInv
  <2> QED BY <1>1, <1>2, <1>4, <2>1, <2>2 DEF ProgramInv, ChainInv
<1> QED BY <1>2, <1>3, <1>4 DEF MemoryInv, Tip
-----------------------------------------------------------------------------
(* The steps of the CPU's back end.                                        *)
LEMMA CpuIsNext ==
  ASSUME NEW modes, CpuNext(modes)
  PROVE  [Next]_vars
<1>1. ASSUME NEW t \in Task, CpuBinds(t, modes) PROVE [Next]_vars
  BY <1>1 DEF CpuBinds, Next
<1>2. ASSUME NEW t \in Task, CpuGoesOn(t) PROVE [Next]_vars
  BY <1>2 DEF CpuGoesOn, CpuSubmits, CpuWaits, Next, TaskStep
<1>3. ASSUME NEW t \in Task, CpuReleases(t) PROVE [Next]_vars
  BY <1>3 DEF CpuReleases, Next, TaskStep
<1>4. ASSUME NEW t \in Task, Pool(t) PROVE [Next]_vars
  BY <1>4 DEF Pool, PoolStart, PoolWakes, PoolDone, InlineStep, Completes, Next, TaskStep
<1>5. CpuFinished => [Next]_vars
  BY DEF CpuFinished, Finished
<1> QED BY <1>1, <1>2, <1>3, <1>4, <1>5 DEF CpuNext

LEMMA CpuRests ==
  ASSUME BaseInv, NEW modes, CpuNext(modes), ~\E n \in Task : CpuBinds(n, modes)
  PROVE  Rests
<1>1. \/ \E t \in Task : TaskStep(t)
      \/ UNCHANGED vars
  BY DEF CpuNext, CpuGoesOn, CpuSubmits, CpuWaits, CpuReleases, Pool, PoolStart, PoolWakes,
         PoolDone, InlineStep, Completes, CpuFinished, Finished, TaskStep
<1>2. UNCHANGED vars => Rests
  BY DEF vars, Rests
<1> QED BY <1>1, <1>2, TaskRests

LEMMA CpuShape ==
  ASSUME BaseInv, ProgramInv, NEW modes, CpuNext(modes)
  PROVE  Quiet \/ \E t \in Task : CpuEnds(t)
<1> USE DEF BaseInv
<1>1. ASSUME NEW t \in Task, CpuBinds(t, modes) PROVE Quiet
  <2>1. Joins(t) /\ memory' = memory
    BY <1>1, BindJoins DEF CpuBinds
  <2> QED BY <2>1 DEF Joins, Enters, Apart, Quiet, Final
<1>2. ASSUME NEW t \in Task, CpuSubmits(t) PROVE Quiet
  <2>1. /\ memory' = memory /\ live' = live /\ stage[t] = "bound" /\ stage'[t] = "submitted"
        /\ \A u \in Task \ {t} : stage'[u] = stage[u]
    BY <1>2 DEF CpuSubmits, Submit, graph!SubmitTask, TypeOK, graph!TGTypeOK
  <2> QED BY <2>1 DEF Quiet, Final
<1>3. ASSUME NEW t \in Task, CpuWaits(t) \/ PoolWakes(t) PROVE Quiet
  BY <1>3 DEF CpuWaits, PoolWakes, vars, Quiet, Final
<1>4. ASSUME NEW t \in Task, CpuReleases(t) PROVE CpuEnds(t)
  BY <1>4 DEF CpuReleases, Release, bound_vars, CpuEnds, Final
<1>5. ASSUME NEW t \in Task, Run(t), memory' = memory PROVE Quiet
  <2>1. /\ live' = live /\ stage[t] = "submitted" /\ stage'[t] = "started"
        /\ \A u \in Task \ {t} : stage'[u] = stage[u]
    BY <1>5 DEF Run, graph!Start, TypeOK, graph!TGTypeOK
  <2> QED BY <1>5, <2>1 DEF Quiet, Final
<1>6. ASSUME NEW t \in Task, Done(t)
      PROVE  /\ UNCHANGED <<before, group, want, last, live>>
             /\ stage[t] = "started" /\ stage'[t] = "done"
             /\ \A u \in Task \ {t} : stage'[u] = stage[u]
  BY <1>6 DEF Done, bound_vars, graph!Finish, TypeOK, graph!TGTypeOK
<1>7. ASSUME NEW t \in Task, PoolDone(t) PROVE Quiet \/ CpuEnds(t)
  <2>1. Done(t) /\ memory' = IF t \in live THEN memory ELSE CpuWritten(t)
    BY <1>7 DEF PoolDone, Completes
  <2> QED BY <1>6, <2>1 DEF Quiet, CpuEnds, Final
<1>8. ASSUME NEW t \in Task, InlineStep(t) PROVE Quiet
  <2>1. CASE Run(t)
    BY <1>5, <1>8, <2>1 DEF InlineStep
  <2>2. CASE Done(t)
    <3>1. t \in live
      BY <1>6, <1>8, <2>2 DEF InlineStep, Inline, HasFn, ProgramInv, HostInv
    <3> QED BY <1>6, <1>8, <2>2, <3>1 DEF InlineStep, Quiet, Final
  <2> QED BY <1>8, <2>1, <2>2 DEF InlineStep, Completes
<1>9. CpuFinished => Quiet
  BY DEF CpuFinished, cpu_system, vars, cpu_vars, Quiet, Final
<1> QED
  BY <1>1, <1>2, <1>3, <1>4, <1>5, <1>7, <1>8, <1>9 DEF CpuNext, CpuGoesOn, Pool, PoolStart

LEMMA CpuStep ==
  ASSUME BaseInv, BaseInv', ProgramInv, PredInv, MemoryInv, OneDevice', NEW modes, CpuNext(modes)
  PROVE  PredInv' /\ MemoryInv'
<1>1. [Next]_vars
  BY CpuIsNext
<1>2. Rests \/ \E n \in Task : Joins(n)
  BY <1>1, StepShape
<1>3. PredInv'
  BY <1>2, RestPred, JoinPred
<1>4. ASSUME Quiet PROVE MemoryInv'
  <2>1. ASSUME NEW n \in Task, Joins(n) PROVE MemoryInv'
    BY <1>4, <2>1, JoinMemory
  <2>2. Rests => MemoryInv'
    BY <1>4, RestMemory
  <2> QED BY <1>2, <2>1, <2>2
<1>5. ASSUME NEW t \in Task, CpuEnds(t) PROVE MemoryInv'
  BY <1>5, EndMemory
<1> QED BY <1>3, <1>4, <1>5, CpuShape

(* A program whose host accessors only read.                               *)
ModesInv ==
  \A t \in Task : group[t].tgt = HOST => \A b \in Buffer : ~Author(t, b)

(* The next author of a buffer waits for the kernels that read it before.  *)
NextInv ==
  \A t, u \in Task, b \in Buffer :
    t # u /\ stage[t] # "open" /\ group[t].tgt # HOST /\ Reads(group[t].acc[b])
      /\ Author(u, b) /\ want[u][b] = want[t][b] => Behind(t, u)

LEMMA DeviceBinds ==
  ASSUME BaseInv, NEW n \in Task, Bind(n) \/ FillEnd(n)
  PROVE  group'[n].tgt # HOST
<1> USE DEF BaseInv
<1>1. CASE Bind(n)
  <2>1. PICK tgt \in Device, acc \in [Buffer -> Access] : BindAll(n, tgt, acc)
    BY <1>1 DEF Bind
  <2> QED BY <2>1, BindAllEnters
<1>2. CASE FillEnd(n)
  BY <1>2, FillEndEnters DEF ConflictInv
<1> QED BY <1>1, <1>2

(* What has changed when a program that only reads there has bound n.      *)
LEMMA BindModes ==
  ASSUME BaseInv, ModesInv, NEW n \in Task, Joins(n),
         group'[n].tgt = HOST => \A b \in Buffer : group'[n].acc[b] \in Readers \union {"unused"}
  PROVE  ModesInv'
BY DEF ModesInv, Author, Joins, Enters, Writes, Readers

LEMMA JoinNext ==
  ASSUME BaseInv, BaseInv', ProgramInv, NEW n \in Task, Joins(n), OneDevice', ModesInv',
         NextInv
  PROVE  NextInv'
<1> USE DEF BaseInv
<1> SUFFICES ASSUME NEW t \in Task, NEW u \in Task, NEW b \in Buffer, t # u,
                    stage'[t] # "open", group'[t].tgt # HOST, Reads(group'[t].acc[b]),
                    Author(u, b)', want'[u][b] = want'[t][b]
             PROVE  Behind(t, u)'
  BY DEF NextInv
<1>1. /\ want'[n] = last
      /\ \A x \in Task \ {n} :
           stage'[x] = stage[x] /\ group'[x] = group[x] /\ want'[x] = want[x]
  BY DEF Joins, Enters, Updates
<1>2. CASE t = n
  <2>1. Author(u, b) /\ want[u][b] = last[b]
    BY <1>1, <1>2 DEF Author
  <2> QED BY <2>1 DEF ProgramInv, ChainInv
<1>3. CASE u = n
  <2>1. PICK d \in Dom : d = group'[n].tgt
    BY DEF TypeOK, Group
  <2>2. d # HOST
    BY <1>3, <2>1 DEF ModesInv
  <2>3. group'[t].tgt = d
    BY <2>1, <2>2 DEF OneDevice
  <2>4. Stores(n, b, d)' /\ Loads(t, b, d)'
    BY <1>3, <2>1, <2>3 DEF Stores, Loads, Author
  <2> QED BY <1>3, <2>4, EnterLast DEF Joins, ConflictInv
<1>4. CASE t # n /\ u # n
  <2>1. Behind(t, u)
    BY <1>1, <1>4 DEF NextInv, Author
  <2> QED BY <2>1, EnterBehind DEF Joins
<1> QED BY <1>2, <1>3, <1>4

LEMMA RestNext ==
  ASSUME BaseInv, NextInv, ModesInv, Rests
  PROVE  NextInv' /\ ModesInv'
BY DEF NextInv, ModesInv, Rests, Author, Behind, BehindIn

(* A kernel that may run finds the latest data.                            *)
LEMMA KernelFinds ==
  ASSUME BaseInv, ProgramInv, PredInv, MemoryInv, NextInv, NEW t \in Task, NEW b \in Buffer,
         stage[t] = "submitted", graph!Ready(t), group[t].tgt # HOST, Reads(group[t].acc[b])
  PROVE  memory[b] = want[t][b]
<1>1. PICK w \in Writer : w = want[t][b]
  BY DEF BaseInv, TypeOK
<1>2. w = NONE \/ (Final(w) /\ Author(w, b))
  <2>1. Uses(t, b)
    BY DEF Uses, Reads
  <2> QED BY <1>1, <2>1, WantFinal DEF graph!Ready, ProgramInv, ChainInv
<1>3. ASSUME NEW u \in Task, Author(u, b), want[u][b] = w, Final(u) PROVE FALSE
  <2>1. u # t /\ stage[u] = "done"
    BY <1>3 DEF Final
  <2>2. Behind(t, u)
    BY <1>1, <1>3, <2>1 DEF NextInv
  <2> QED BY <2>1, <2>2, BehindDone DEF BaseInv, ConflictInv
<1> QED BY <1>1, <1>2, <1>3 DEF MemoryInv, Tip

(* found changes when the pool starts a task.                              *)
LEMMA CpuFinds ==
  ASSUME BaseInv, NEW modes, CpuNext(modes)
  PROVE  \/ /\ found' = found
            /\ \A t \in Task : stage'[t] \in {"started", "done"} /\ ~Host(t)' =>
                 stage[t] \in {"started", "done"} /\ group'[t] = group[t] /\ want'[t] = want[t]
         \/ \E t \in Task : PoolStart(t)
<1> DEFINE Same == found' = found /\ \A t \in Task :
             stage'[t] \in {"started", "done"} /\ ~Host(t)' =>
               stage[t] \in {"started", "done"} /\ group'[t] = group[t] /\ want'[t] = want[t]
<1> USE DEF BaseInv
<1>1. ASSUME NEW t \in Task, CpuBinds(t, modes) PROVE Same
  <2>1. Joins(t) /\ found' = found
    BY <1>1, BindJoins DEF CpuBinds
  <2> QED BY <2>1 DEF Joins, Enters, Updates
<1>2. ASSUME NEW t \in Task, CpuSubmits(t) PROVE Same
  <2>1. /\ found' = found /\ stage'[t] = "submitted" /\ group' = group /\ want' = want
        /\ \A u \in Task \ {t} : stage'[u] = stage[u]
    BY <1>2 DEF CpuSubmits, Submit, bound_vars, graph!SubmitTask, TypeOK, graph!TGTypeOK
  <2> QED BY <2>1
<1>3. ASSUME NEW t \in Task, CpuWaits(t) \/ PoolWakes(t) \/ CpuReleases(t) PROVE Same
  BY <1>3 DEF CpuWaits, PoolWakes, CpuReleases, Release, bound_vars, vars
<1>4. ASSUME NEW t \in Task, Done(t), found' = found PROVE Same
  <2>1. /\ stage[t] = "started" /\ group' = group /\ want' = want
        /\ \A u \in Task \ {t} : stage'[u] = stage[u]
    BY <1>4 DEF Done, bound_vars, graph!Finish, TypeOK, graph!TGTypeOK
  <2> QED BY <1>4, <2>1
<1>5. ASSUME NEW t \in Task, InlineStep(t) PROVE Same
  <2>1. CASE Run(t)
    <3>1. /\ group' = group /\ want' = want /\ group[t].tgt = HOST
          /\ \A u \in Task \ {t} : stage'[u] = stage[u]
      BY <1>5, <2>1
         DEF InlineStep, Inline, HasFn, Run, bound_vars, graph!Start, TypeOK, graph!TGTypeOK
    <3> QED BY <1>5, <3>1 DEF InlineStep, Host
  <2> QED BY <1>4, <1>5, <2>1 DEF InlineStep, Completes
<1>6. ASSUME NEW t \in Task, PoolDone(t) PROVE Same
  BY <1>4, <1>6 DEF PoolDone, Completes
<1>7. CpuFinished => Same
  BY DEF CpuFinished, cpu_system, vars, cpu_vars
<1> QED BY <1>1, <1>2, <1>3, <1>5, <1>6, <1>7 DEF CpuNext, CpuGoesOn, Pool

LEMMA ReadersStep ==
  ASSUME BaseInv, BaseInv', ProgramInv, CpuTypeOK, PredInv, MemoryInv, OneDevice',
         ModesInv, NextInv, CpuReadsLatest, CpuNext(Readers)
  PROVE  ModesInv' /\ NextInv' /\ CpuReadsLatest'
<1> USE DEF BaseInv
<1>1. ASSUME NEW n \in Task, CpuBinds(n, Readers) PROVE ModesInv' /\ NextInv'
  <2>1. Joins(n)
    BY <1>1, BindJoins DEF CpuBinds
  <2>2. ASSUME group'[n].tgt = HOST
        PROVE  \A b \in Buffer : group'[n].acc[b] \in Readers \union {"unused"}
    <3>1. ~Bind(n)
      BY <2>2, DeviceBinds
    <3>2. BindHost(n) /\ \E b \in Buffer : group'[n].acc[b] \in Readers
      BY <1>1, <3>1 DEF CpuBinds
    <3>3. PICK b \in Buffer, a \in {"read_only", "read_write"} :
            BindAll(n, HOST, [[c \in Buffer |-> "unused"] EXCEPT ![b] = a])
      BY <3>2 DEF BindHost
    <3>4. [[c \in Buffer |-> "unused"] EXCEPT ![b] = a] \in [Buffer -> Access] /\ HOST \in Dom
      BY DEF Access
    <3>5. group'[n].acc = [[c \in Buffer |-> "unused"] EXCEPT ![b] = a]
      BY <3>3, <3>4, BindAllEnters
    <3> QED BY <3>2, <3>5 DEF Readers
  <2> QED BY <2>1, <2>2, BindModes, JoinNext
<1>2. ASSUME ~\E n \in Task : CpuBinds(n, Readers) PROVE Rests
  BY <1>2, CpuRests
<1>3. ModesInv' /\ NextInv'
  BY <1>1, <1>2, RestNext
<1>4. ASSUME NEW n \in Task, PoolStart(n) PROVE CpuReadsLatest'
  <2>1. /\ graph!Ready(n) /\ stage[n] = "submitted" /\ stage'[n] = "started"
        /\ \A u \in Task \ {n} : stage'[u] = stage[u]
        /\ group' = group /\ want' = want
    BY <1>4 DEF PoolStart, Run, bound_vars, graph!Start, TypeOK, graph!TGTypeOK
  <2>2. found'[n] = memory /\ \A u \in Task \ {n} : found'[u] = found[u]
    BY <1>4 DEF PoolStart, CpuTypeOK
  <2>3. \A b \in Buffer : group[n].tgt # HOST /\ Reads(group[n].acc[b]) => memory[b] = want[n][b]
    BY <2>1, KernelFinds
  <2> QED BY <2>1, <2>2, <2>3 DEF CpuReadsLatest, Host
<1>5. CASE /\ found' = found
           /\ \A t \in Task : stage'[t] \in {"started", "done"} /\ ~Host(t)' =>
                stage[t] \in {"started", "done"} /\ group'[t] = group[t] /\ want'[t] = want[t]
  <2> SUFFICES ASSUME NEW t \in Task, NEW b \in Buffer, stage'[t] \in {"started", "done"},
                      ~Host(t)', Reads(group'[t].acc[b])
               PROVE  found'[t][b] = want'[t][b]
    BY <1>3 DEF CpuReadsLatest
  <2>1. stage[t] \in {"started", "done"} /\ group'[t] = group[t] /\ want'[t] = want[t]
    BY <1>5
  <2> QED BY <1>5, <2>1 DEF CpuReadsLatest, Host
<1> QED BY <1>3, <1>4, <1>5, CpuFinds
-----------------------------------------------------------------------------
(* The queue of the CPU's pool.                                            *)
Distinct(s) == \A i, j \in DOMAIN s : i # j => s[i] # s[j]

LEMMA ConcatFacts ==
  ASSUME NEW S, NEW s \in Seq(S), NEW r \in Seq(S)
  PROVE  /\ s \o r \in Seq(S)
         /\ \A i \in DOMAIN (s \o r) : \/ \E j \in DOMAIN s : (s \o r)[i] = s[j]
                                      \/ \E j \in DOMAIN r : (s \o r)[i] = r[j]
         /\ Distinct(s) /\ Distinct(r) /\ (\A i \in DOMAIN s, j \in DOMAIN r : s[i] # r[j])
              => Distinct(s \o r)
<1>1. s \o r \in Seq(S) /\ Len(s) \in Nat /\ Len(r) \in Nat
  OBVIOUS
<1>2. /\ DOMAIN s = 1 .. Len(s) /\ DOMAIN r = 1 .. Len(r)
      /\ DOMAIN (s \o r) = 1 .. Len(s) + Len(r)
  OBVIOUS
<1>3. \A i \in DOMAIN (s \o r) :
        /\ i <= Len(s) => i \in DOMAIN s /\ (s \o r)[i] = s[i]
        /\ i > Len(s) => i - Len(s) \in DOMAIN r /\ (s \o r)[i] = r[i - Len(s)]
  BY <1>1, <1>2
<1>4. ASSUME Distinct(s), Distinct(r), \A i \in DOMAIN s, j \in DOMAIN r : s[i] # r[j]
      PROVE  Distinct(s \o r)
  <2> SUFFICES ASSUME NEW i \in DOMAIN (s \o r), NEW j \in DOMAIN (s \o r), i < j
               PROVE  (s \o r)[i] # (s \o r)[j]
    BY <1>1, <1>2 DEF Distinct
  <2>1. CASE j <= Len(s)
    BY <1>1, <1>2, <1>3, <1>4, <2>1 DEF Distinct
  <2>2. CASE i <= Len(s) /\ j > Len(s)
    BY <1>3, <1>4, <2>2
  <2>3. CASE i > Len(s)
    BY <1>1, <1>2, <1>3, <1>4, <2>3 DEF Distinct
  <2> QED BY <1>1, <1>2, <2>1, <2>2, <2>3
<1> QED BY <1>1, <1>2, <1>3, <1>4

LEMMA TailFacts ==
  ASSUME NEW S, NEW s \in Seq(S), s # << >>
  PROVE  /\ Tail(s) \in Seq(S) /\ Head(s) \in S
         /\ \A i \in DOMAIN Tail(s) : \E j \in DOMAIN s : j # 1 /\ Tail(s)[i] = s[j]
         /\ 1 \in DOMAIN s /\ s[1] = Head(s)
         /\ Distinct(s) => Distinct(Tail(s))
<1>1. /\ Tail(s) \in Seq(S) /\ Head(s) \in S /\ Len(s) \in Nat /\ Len(s) > 0
      /\ DOMAIN s = 1 .. Len(s) /\ DOMAIN Tail(s) = 1 .. Len(s) - 1 /\ s[1] = Head(s)
      /\ \A i \in 1 .. Len(s) - 1 : Tail(s)[i] = s[i + 1]
  OBVIOUS
<1> QED BY <1>1 DEF Distinct

(* The job may be run.                                                     *)
Due(j) ==
  /\ j.kind = "task" => stage[j.of] = "submitted" /\ graph!Ready(j.of) /\ HasFn(j.of)
  /\ j.kind = "sync" => stage[j.of] = "done" /\ j.of \in waiting

DueInv == Distinct(q_task) /\ \A i \in DOMAIN q_task : Due(q_task[i])

(* order has the tasks that are bound, each once.                          *)
BoundInv ==
  /\ Distinct(order)
  /\ \A t \in Task : stage[t] # "open" <=> \E i \in DOMAIN order : order[i] = t

QueueInv == DueInv /\ BoundInv

LEMMA QueueIsDue == DueInv => JobsAreDue
BY DEF DueInv, Distinct, Due, JobsAreDue

LEMMA DueStep ==
  ASSUME BaseInv, [Next]_vars, NEW j \in Job, Due(j),
         j.kind = "task" => stage'[j.of] = "submitted",
         j.kind = "sync" => j.of \in waiting'
  PROVE  Due(j)'
<1> DEFINE t == j.of
<1>1. t \in Task /\ j.kind \in {"task", "sync"}
  BY DEF Job
<1>2. /\ \A u \in Task : stage[u] = "done" => stage'[u] = "done"
      /\ before'[t] = before[t] /\ group'[t] = group[t]
  <2>1. stage[t] # "open"
    BY <1>1 DEF Due
  <2>2. ASSUME NEW n \in Task, Joins(n)
        PROVE  /\ \A u \in Task : stage[u] = "done" => stage'[u] = "done"
               /\ before'[t] = before[t] /\ group'[t] = group[t]
    BY <1>1, <2>1, <2>2 DEF Joins, Enters
  <2> QED BY <2>2, StepShape DEF Rests
<1>3. before[t] \subseteq Task
  BY <1>1 DEF BaseInv, TypeOK, graph!TGTypeOK
<1> QED BY <1>1, <1>2, <1>3 DEF Due, graph!Ready, HasFn

(* The tasks that follow in order are counted by a number.                 *)
LEMMA BoundFinite ==
  ASSUME CpuTypeOK, BoundInv, NEW S \in SUBSET Task, \A t \in S : stage[t] # "open"
  PROVE  Cardinality(S) \in Nat
<1> DEFINE D == {i \in DOMAIN order : order[i] \in S}
           f == [i \in D |-> order[i]]
<1>1. D \in SUBSET (1 .. Len(order)) /\ Len(order) \in Int
  BY DEF CpuTypeOK
<1>2. IsFiniteSet(D)
  <2>1. IsFiniteSet(1 .. Len(order))
    BY <1>1, FS_Interval
  <2> QED BY <1>1, <2>1, FS_Subset
<1>3. f \in Surjection(D, S)
  BY DEF Surjection, BoundInv
<1>4. IsFiniteSet(S)
  BY <1>2, <1>3, FS_Surjection
<1> QED BY <1>4, FS_CardinalityType

LEMMA InOrderFacts ==
  ASSUME CpuTypeOK, BoundInv, NEW S \in SUBSET Task, \A t \in S : stage[t] # "open",
         NEW ts \in InOrder(S)
  PROVE  ts \in Seq(S) /\ Distinct(ts)
<1>1. Cardinality(S) \in Nat /\ ts \in [1 .. Cardinality(S) -> S]
  BY BoundFinite DEF InOrder
<1>2. ts \in Seq(S) /\ DOMAIN ts = 1 .. Cardinality(S)
  BY <1>1
<1>3. ASSUME NEW i \in DOMAIN ts, NEW j \in DOMAIN ts, i < j PROVE ts[i] # ts[j]
  <2>1. PICK k, l \in DOMAIN order : k < l /\ order[k] = ts[i] /\ order[l] = ts[j]
    BY <1>3 DEF InOrder
  <2>2. DOMAIN order = 1 .. Len(order) /\ Len(order) \in Nat
    BY DEF CpuTypeOK
  <2> QED BY <2>1, <2>2 DEF BoundInv, Distinct
<1> QED BY <1>1, <1>2, <1>3 DEF Distinct

(* What the completion of t puts into the queue.                           *)
LEMMA JobsFacts ==
  ASSUME NEW t \in Task, NEW S \in SUBSET Task, NEW ts \in Seq(S), Distinct(ts)
  PROVE  /\ Jobs(t, ts) \in Seq(Job) /\ Distinct(Jobs(t, ts))
         /\ \A i \in DOMAIN Jobs(t, ts) :
              \/ t \in waiting /\ Jobs(t, ts)[i] = [kind |-> "sync", of |-> t]
              \/ \E u \in S : Jobs(t, ts)[i] = [kind |-> "task", of |-> u]
<1> DEFINE a == IF t \in waiting THEN << [kind |-> "sync", of |-> t] >> ELSE << >>
           r == [i \in DOMAIN ts |-> [kind |-> "task", of |-> ts[i]]]
<1>1. DOMAIN ts = 1 .. Len(ts) /\ Len(ts) \in Nat /\ \A i \in DOMAIN ts : ts[i] \in S
  OBVIOUS
<1>2. /\ r \in Seq(Job) /\ DOMAIN r = DOMAIN ts
      /\ \A i \in DOMAIN r : r[i] = [kind |-> "task", of |-> ts[i]]
  BY <1>1 DEF Job
<1>3. /\ a \in Seq(Job) /\ Distinct(a)
      /\ \A i \in DOMAIN a : t \in waiting /\ a[i] = [kind |-> "sync", of |-> t]
  <2> DEFINE j == [kind |-> "sync", of |-> t]
  <2>1. j \in Job
    BY DEF Job
  <2>2. CASE t \in waiting
    <3>1. a = << j >>
      BY <2>2
    <3> HIDE DEF a, j
    <3>2. a \in Seq(Job) /\ \A i \in DOMAIN a : i = 1 /\ a[i] = j
      BY <2>1, <3>1
    <3> QED BY <2>2, <3>2 DEF Distinct, j
  <2>3. CASE t \notin waiting
    BY <2>3 DEF Distinct
  <2> QED BY <2>2, <2>3
<1>4. Distinct(r)
  BY <1>2 DEF Distinct
<1>5. Jobs(t, ts) = a \o r
  BY DEF Jobs
<1>6. \A i \in DOMAIN a, j \in DOMAIN r : a[i] # r[j]
  BY <1>2, <1>3
<1>7. \A i \in DOMAIN r : \E u \in S : r[i] = [kind |-> "task", of |-> u]
  BY <1>1, <1>2
<1> HIDE DEF a, r
<1>8. /\ a \o r \in Seq(Job) /\ Distinct(a \o r)
      /\ \A i \in DOMAIN (a \o r) : \/ \E j \in DOMAIN a : (a \o r)[i] = a[j]
                                   \/ \E j \in DOMAIN r : (a \o r)[i] = r[j]
  BY <1>2, <1>3, <1>4, <1>6, ConcatFacts
<1> QED BY <1>3, <1>5, <1>7, <1>8

InQueue(j) == \E i \in DOMAIN q_task : q_task[i] = j

LEMMA QueueGrows ==
  ASSUME CpuTypeOK, DueInv, NEW r \in Seq(Job), q_task' = q_task \o r, Distinct(r),
         \A j \in Job : InQueue(j) => Due(j)' /\ \A i \in DOMAIN r : r[i] # j,
         \A i \in DOMAIN r : Due(r[i])'
  PROVE  q_task' \in Seq(Job) /\ DueInv'
<1>1. q_task \in Seq(Job) /\ \A i \in DOMAIN q_task : q_task[i] \in Job /\ InQueue(q_task[i])
  BY DEF CpuTypeOK, InQueue
<1>2. \A i \in DOMAIN q_task, k \in DOMAIN r : q_task[i] # r[k]
  BY <1>1
<1>3. /\ q_task' \in Seq(Job) /\ Distinct(q_task')
      /\ \A i \in DOMAIN q_task' : \/ \E j \in DOMAIN q_task : q_task'[i] = q_task[j]
                                  \/ \E j \in DOMAIN r : q_task'[i] = r[j]
  BY <1>1, <1>2, ConcatFacts DEF DueInv
<1>4. ASSUME NEW i \in DOMAIN q_task' PROVE Due(q_task[i])'
  <2>1. PICK j : j = q_task'[i]
    OBVIOUS
  <2>2. (j \in Job /\ InQueue(j)) \/ \E k \in DOMAIN r : j = r[k]
    BY <1>1, <1>3, <2>1
  <2>3. Due(j)'
    BY <2>2
  <2> QED BY <2>1, <2>3 DEF Due
<1> QED BY <1>3, <1>4 DEF DueInv, Distinct

LEMMA QueueShrinks ==
  ASSUME CpuTypeOK, DueInv, q_task # << >>, q_task' = Tail(q_task),
         \A j \in Job : InQueue(j) /\ j # Head(q_task) => Due(j)'
  PROVE  q_task' \in Seq(Job) /\ DueInv'
<1>1. /\ q_task' \in Seq(Job) /\ Distinct(q_task')
      /\ \A i \in DOMAIN q_task' : \E j \in DOMAIN q_task : j # 1 /\ q_task'[i] = q_task[j]
      /\ 1 \in DOMAIN q_task /\ q_task[1] = Head(q_task)
  BY TailFacts DEF CpuTypeOK, DueInv
<1>2. ASSUME NEW i \in DOMAIN q_task' PROVE Due(q_task[i])'
  <2>1. PICK j \in Job : j = q_task'[i]
    BY <1>1
  <2>2. InQueue(j) /\ j # Head(q_task)
    BY <1>1, <2>1 DEF InQueue, DueInv, Distinct
  <2> QED BY <2>1, <2>2 DEF Due
<1> QED BY <1>1, <1>2 DEF DueInv, Distinct

LEMMA QueueSame ==
  ASSUME CpuTypeOK, DueInv, q_task' = q_task, \A j \in Job : InQueue(j) => Due(j)'
  PROVE  q_task' \in Seq(Job) /\ DueInv'
<1>1. q_task \in Seq(Job) /\ \A i \in DOMAIN q_task : q_task[i] \in Job /\ InQueue(q_task[i])
  BY DEF CpuTypeOK, InQueue
<1>2. ASSUME NEW i \in DOMAIN q_task' PROVE Due(q_task[i])'
  <2>1. PICK j \in Job : j = q_task'[i] /\ InQueue(j)
    BY <1>1
  <2> QED BY <2>1 DEF Due
<1> QED BY <1>1, <1>2 DEF DueInv, Distinct

(* A job that is due stays so while its task is neither started nor done.  *)
LEMMA DueStays ==
  ASSUME BaseInv, DueInv, [Next]_vars, waiting \subseteq waiting',
         \A u \in Task : stage[u] = "submitted" /\ HasFn(u) => stage'[u] = "submitted"
  PROVE  \A j \in Job : InQueue(j) => Due(j)'
<1> SUFFICES ASSUME NEW j \in Job, InQueue(j) PROVE Due(j)'
  OBVIOUS
<1>1. Due(j) /\ j.of \in Task
  BY DEF DueInv, InQueue, Job
<1> QED BY <1>1, DueStep DEF Due

LEMMA CompletesDue ==
  ASSUME BaseInv, CpuTypeOK, QueueInv, NEW t \in Task, Completes(t), waiting' = waiting
  PROVE  q_task' \in Seq(Job) /\ DueInv'
<1> USE DEF BaseInv, QueueInv
<1>1. PICK ts \in InOrder(MadeReady(t)) : q_task' = q_task \o Jobs(t, ts)
  BY DEF Completes
<1>2. /\ Done(t) /\ UNCHANGED <<before, group>>
      /\ stage[t] = "started" /\ stage'[t] = "done"
      /\ \A u \in Task \ {t} : stage'[u] = stage[u]
  BY DEF Completes, Done, bound_vars, graph!Finish, TypeOK, graph!TGTypeOK
<1>3. [Next]_vars
  BY <1>2 DEF Next, TaskStep
<1>4. ts \in Seq(MadeReady(t)) /\ Distinct(ts) /\ MadeReady(t) \subseteq Task
  <2>1. MadeReady(t) \in SUBSET Task /\ \A u \in MadeReady(t) : stage[u] # "open"
    BY DEF MadeReady
  <2> QED BY <2>1, InOrderFacts
<1>5. PICK r \in Seq(Job) :
        /\ r = Jobs(t, ts) /\ Distinct(r)
        /\ \A i \in DOMAIN r : \/ t \in waiting /\ r[i] = [kind |-> "sync", of |-> t]
                             \/ \E u \in MadeReady(t) : r[i] = [kind |-> "task", of |-> u]
  BY <1>4, JobsFacts
<1>6. \A j \in Job : InQueue(j) => Due(j) /\ Due(j)'
  <2>1. \A j \in Job : InQueue(j) => Due(j)
    BY DEF InQueue, DueInv
  <2> QED BY <1>2, <1>3, <2>1, DueStays
<1>7. ASSUME NEW u \in MadeReady(t)
      PROVE  /\ ~Due([kind |-> "task", of |-> u])
             /\ Due([kind |-> "task", of |-> u])'
  <2>1. /\ u \in Task \ {t} /\ stage[u] = "submitted" /\ HasFn(u) /\ t \in before[u]
        /\ \A p \in before[u] \ {t} : stage[p] = "done"
    BY <1>2 DEF MadeReady
  <2>2. ~graph!Ready(u)
    BY <1>2, <2>1 DEF graph!Ready
  <2>3. graph!Ready(u)' /\ HasFn(u)' /\ stage'[u] = "submitted"
    BY <1>2, <2>1 DEF graph!Ready, HasFn, TypeOK, graph!TGTypeOK
  <2> QED BY <2>2, <2>3 DEF Due
<1>8. /\ ~Due([kind |-> "sync", of |-> t])
      /\ t \in waiting => Due([kind |-> "sync", of |-> t])'
  BY <1>2 DEF Due
<1>9. \A i \in DOMAIN r : ~Due(r[i]) /\ Due(r[i])'
  <2> SUFFICES ASSUME NEW i \in DOMAIN r PROVE ~Due(r[i]) /\ Due(r[i])'
    OBVIOUS
  <2>1. CASE t \in waiting /\ r[i] = [kind |-> "sync", of |-> t]
    BY <1>8, <2>1
  <2>2. CASE \E u \in MadeReady(t) : r[i] = [kind |-> "task", of |-> u]
    BY <1>7, <2>2
  <2> QED BY <1>5, <2>1, <2>2
<1>10. \A j \in Job : InQueue(j) => \A i \in DOMAIN r : r[i] # j
  BY <1>6, <1>9
<1> QED BY <1>1, <1>5, <1>6, <1>9, <1>10, QueueGrows

LEMMA QueueStep ==
  ASSUME BaseInv, CpuTypeOK, QueueInv, NEW modes, CpuNext(modes)
  PROVE  q_task' \in Seq(Job) /\ DueInv'
<1> USE DEF BaseInv, QueueInv
<1> DEFINE Stays == \A u \in Task : stage[u] = "submitted" /\ HasFn(u) => stage'[u] = "submitted"
           Goal == q_task' \in Seq(Job) /\ DueInv'
<1>1. [Next]_vars
  BY CpuIsNext
<1>2. ASSUME q_task' = q_task, waiting \subseteq waiting', Stays PROVE Goal
  BY <1>1, <1>2, DueStays, QueueSame
<1>3. ASSUME NEW t \in Task, CpuBinds(t, modes) PROVE Goal
  <2>1. Joins(t) /\ q_task' = q_task /\ waiting' = waiting
    BY <1>3, BindJoins DEF CpuBinds
  <2> QED BY <1>2, <2>1 DEF Joins, Enters
<1>4. ASSUME NEW t \in Task, CpuSubmits(t) PROVE Goal
  <2>1. /\ stage[t] = "bound" /\ stage'[t] = "submitted" /\ UNCHANGED <<before, group, waiting>>
        /\ \A u \in Task \ {t} : stage'[u] = stage[u]
    BY <1>4 DEF CpuSubmits, Submit, bound_vars, graph!SubmitTask, TypeOK, graph!TGTypeOK
  <2>2. CASE q_task' = q_task
    BY <1>2, <2>1, <2>2
  <2>3. CASE HasFn(t) /\ graph!Ready(t) /\ q_task' = Append(q_task, [kind |-> "task", of |-> t])
    <3>1. PICK e \in Job : e = [kind |-> "task", of |-> t]
      BY DEF Job
    <3>2. PICK r \in Seq(Job) : r = << e >>
      <4>1. << e >> \in Seq(Job)
        OBVIOUS
      <4> QED BY <4>1
    <3>3. q_task' = q_task \o r
      BY <2>3, <3>1, <3>2 DEF CpuTypeOK
    <3>4. ~Due(e) /\ Due(e)'
      <4>1. graph!Ready(t)' /\ HasFn(t)'
        BY <2>1, <2>3 DEF graph!Ready, HasFn, TypeOK, graph!TGTypeOK
      <4> QED BY <2>1, <3>1, <4>1 DEF Due
    <3>5. \A j \in Job : InQueue(j) => Due(j) /\ Due(j)'
      <4>1. \A j \in Job : InQueue(j) => Due(j)
        BY DEF InQueue, DueInv
      <4> QED BY <1>1, <2>1, <4>1, DueStays
    <3>6. Distinct(r) /\ \A i \in DOMAIN r : r[i] = e
      BY <3>2 DEF Distinct
    <3>7. /\ \A j \in Job : InQueue(j) => Due(j)' /\ \A i \in DOMAIN r : r[i] # j
          /\ \A i \in DOMAIN r : Due(r[i])'
      BY <3>4, <3>5, <3>6
    <3> QED BY <3>3, <3>6, <3>7, QueueGrows
  <2> QED BY <1>4, <2>2, <2>3 DEF CpuSubmits
<1>5. ASSUME NEW t \in Task, CpuWaits(t) PROVE Goal
  BY <1>2, <1>5 DEF CpuWaits, vars
<1>6. ASSUME NEW t \in Task, CpuReleases(t) PROVE Goal
  BY <1>2, <1>6 DEF CpuReleases, Release
<1>7. ASSUME NEW t \in Task, PoolStart(t) PROVE Goal
  <2>1. /\ q_task # << >> /\ Head(q_task) = [kind |-> "task", of |-> t] /\ q_task' = Tail(q_task)
        /\ waiting' = waiting /\ stage[t] = "submitted"
        /\ \A u \in Task \ {t} : stage'[u] = stage[u]
    BY <1>7 DEF PoolStart, Run, graph!Start, TypeOK, graph!TGTypeOK
  <2>2. ASSUME NEW j \in Job, InQueue(j), j # Head(q_task) PROVE Due(j)'
    <3>1. Due(j) /\ j.of \in Task
      BY <2>2 DEF DueInv, InQueue, Job
    <3>2. j.kind = "task" => j.of # t
      BY <2>1, <2>2 DEF Job
    <3> QED BY <1>1, <2>1, <3>1, <3>2, DueStep DEF Due
  <2> QED BY <2>1, <2>2, QueueShrinks
<1>8. ASSUME NEW t \in Task, PoolWakes(t) PROVE Goal
  <2>1. /\ q_task # << >> /\ Head(q_task) = [kind |-> "sync", of |-> t] /\ q_task' = Tail(q_task)
        /\ waiting' = waiting \ {t} /\ stage' = stage
    BY <1>8 DEF PoolWakes, vars
  <2>2. ASSUME NEW j \in Job, InQueue(j), j # Head(q_task) PROVE Due(j)'
    <3>1. Due(j) /\ j.of \in Task
      BY <2>2 DEF DueInv, InQueue, Job
    <3>2. j.kind = "sync" => j.of # t
      BY <2>1, <2>2 DEF Job
    <3> QED BY <1>1, <2>1, <3>1, <3>2, DueStep DEF Due
  <2> QED BY <2>1, <2>2, QueueShrinks
<1>9. ASSUME NEW t \in Task, PoolDone(t) PROVE Goal
  BY <1>9, CompletesDue DEF PoolDone
<1>10. ASSUME NEW t \in Task, InlineStep(t) PROVE Goal
  <2>1. CASE Run(t) /\ q_task' = q_task
    <3>1. ~HasFn(t) /\ waiting' = waiting /\ \A u \in Task \ {t} : stage'[u] = stage[u]
      BY <1>10, <2>1 DEF InlineStep, Inline, Run, graph!Start, TypeOK, graph!TGTypeOK
    <3> QED BY <1>2, <2>1, <3>1
  <2>2. CASE Completes(t)
    BY <1>10, <2>2, CompletesDue DEF InlineStep
  <2> QED BY <1>10, <2>1, <2>2 DEF InlineStep
<1>11. CpuFinished => Goal
  BY <1>2 DEF CpuFinished, cpu_system, vars, cpu_vars
<1> QED
  BY <1>3, <1>4, <1>5, <1>6, <1>7, <1>8, <1>9, <1>10, <1>11 DEF CpuNext, CpuGoesOn, Pool

LEMMA OrderStep ==
  ASSUME BaseInv, CpuTypeOK, QueueInv, NEW modes, CpuNext(modes)
  PROVE  order' \in Seq(Task) /\ BoundInv'
<1> USE DEF BaseInv, QueueInv
<1>1. ASSUME NEW t \in Task, CpuBinds(t, modes) PROVE order' \in Seq(Task) /\ BoundInv'
  <2>1. Joins(t) /\ order' = Append(order, t)
    BY <1>1, BindJoins DEF CpuBinds
  <2>2. /\ order \in Seq(Task) /\ stage[t] = "open" /\ stage'[t] = "bound"
        /\ \A u \in Task \ {t} : stage'[u] = stage[u]
    BY <2>1 DEF CpuTypeOK, Joins, Enters
  <2>3. /\ order' \in Seq(Task) /\ Len(order) \in Nat /\ DOMAIN order = 1 .. Len(order)
        /\ DOMAIN order' = 1 .. Len(order) + 1
        /\ order'[Len(order) + 1] = t /\ \A i \in DOMAIN order : order'[i] = order[i]
    BY <2>1, <2>2
  <2>4. \A i \in DOMAIN order : order[i] # t
    BY <2>2 DEF BoundInv
  <2>5. Distinct(order')
    BY <2>3, <2>4 DEF BoundInv, Distinct
  <2>6. ASSUME NEW u \in Task
        PROVE  stage'[u] # "open" <=> \E i \in DOMAIN order' : order'[i] = u
    <3>1. stage[u] # "open" <=> \E i \in DOMAIN order : order[i] = u
      BY DEF BoundInv
    <3>2. CASE u = t
      BY <2>2, <2>3, <3>2
    <3>3. CASE u # t
      BY <2>2, <2>3, <3>1, <3>3
    <3> QED BY <3>2, <3>3
  <2> QED BY <2>3, <2>5, <2>6 DEF BoundInv, Distinct
<1>2. ASSUME ~\E t \in Task : CpuBinds(t, modes) PROVE order' \in Seq(Task) /\ BoundInv'
  <2>1. Rests
    BY <1>2, CpuRests
  <2>2. order' = order
    BY <1>2 DEF CpuNext, CpuGoesOn, CpuSubmits, CpuWaits, CpuReleases, Pool, PoolStart, PoolWakes,
                PoolDone, InlineStep, CpuFinished, cpu_system, cpu_vars
  <2> QED BY <2>1, <2>2 DEF Rests, BoundInv, Distinct, CpuTypeOK
<1> QED BY <1>1, <1>2

LEMMA CpuType ==
  ASSUME BaseInv, BaseInv', ProgramInv, CpuTypeOK, QueueInv, NEW modes, CpuNext(modes)
  PROVE  CpuTypeOK' /\ QueueInv'
<1> USE DEF BaseInv
<1>1. q_task' \in Seq(Job) /\ order' \in Seq(Task) /\ QueueInv'
  BY QueueStep, OrderStep DEF QueueInv
<1>2. \A t \in Task : stage[t] = "done" => stage'[t] = "done"
  <2>1. ASSUME NEW n \in Task, Joins(n) PROVE \A t \in Task : stage[t] = "done" => stage'[t] = "done"
    BY <2>1 DEF Joins, Enters
  <2> QED BY <2>1, CpuIsNext, StepShape DEF Rests
<1>3. ASSUME NEW t \in Task PROVE CpuWritten(t) \in [Buffer -> Writer]
  BY DEF CpuWritten, CpuTypeOK, Writer
<1>4. memory' \in [Buffer -> Writer]
  BY <1>3, CpuShape DEF Quiet, CpuEnds, CpuTypeOK
<1>5. found' \in [Task -> [Buffer -> Writer]]
  BY CpuFinds DEF PoolStart, CpuTypeOK
<1>6. waiting' \subseteq Task /\ woken' \subseteq {t \in Task : stage'[t] = "done"}
  <2>1. ASSUME NEW t \in Task, PoolWakes(t)
        PROVE  stage'[t] = "done" /\ waiting' = waiting \ {t} /\ woken' = woken \union {t}
    <3>1. Due([kind |-> "sync", of |-> t])
      <4>1. q_task # << >> /\ Head(q_task) = [kind |-> "sync", of |-> t]
        BY <2>1 DEF PoolWakes
      <4>2. 1 \in DOMAIN q_task /\ q_task[1] = Head(q_task)
        BY <4>1, TailFacts DEF CpuTypeOK
      <4> QED BY <4>1, <4>2 DEF QueueInv, DueInv
    <3> QED BY <2>1, <3>1 DEF PoolWakes, vars, Due
  <2>2. ASSUME NEW t \in Task, CpuWaits(t)
        PROVE  \/ waiting' = waiting \union {t} /\ woken' = woken
               \/ stage'[t] = "done" /\ waiting' = waiting /\ woken' = woken \union {t}
    BY <2>2 DEF CpuWaits, NeedsWait, vars
  <2>3. CASE ~\E t \in Task : PoolWakes(t) \/ CpuWaits(t)
    BY <1>2, <2>3 DEF CpuNext, CpuBinds, CpuGoesOn, CpuSubmits, CpuReleases, Pool, PoolStart, PoolDone,
              InlineStep, CpuFinished, cpu_system, cpu_vars, CpuTypeOK
  <2> QED BY <1>2, <2>1, <2>2, <2>3 DEF CpuTypeOK
<1> QED BY <1>1, <1>4, <1>5, <1>6 DEF CpuTypeOK

LEMMA CpuInitInv == CpuInit => CpuTypeOK /\ PredInv /\ MemoryInv /\ QueueInv
<1> SUFFICES ASSUME CpuInit PROVE CpuTypeOK /\ PredInv /\ MemoryInv /\ QueueInv
  OBVIOUS
<1>1. TypeOK /\ \A t \in Task : stage[t] = "open"
  BY TypeInit DEF CpuInit, Init, graph!TGInit
<1>2. CpuTypeOK
  BY <1>1 DEF CpuInit, CpuTypeOK, Writer
<1>3. PredInv
  BY <1>1 DEF PredInv
<1>4. MemoryInv
  BY <1>1 DEF CpuInit, MemoryInv, Tip, Final, Writer
<1>5. QueueInv
  BY <1>1 DEF CpuInit, QueueInv, DueInv, BoundInv, Distinct
<1> QED BY <1>2, <1>3, <1>4, <1>5
-----------------------------------------------------------------------------
(* IRIS: a task that waits for the task of a host accessor finds it done,  *)
(* and one without commands waits for nothing that is not.                 *)
HostsDone == \A t \in Task : \A h \in before[t] : IsHost(h) => stage[h] = "done"

EmptyInv ==
  \A t \in Task : stage[t] # "open" /\ Empty(t) =>
    stage[t] \in {"bound", "done"} /\ \A p \in before[t] : stage[p] = "done"

(* The program is between two of its statements.                           *)
Settled == \A t \in Task : stage[t] # "bound" /\ (t \in live => t \in waited)

FillFree == Filling # {} => Settled

IrisInv == IrisTypeOK /\ HostsDone /\ EmptyInv /\ FillFree

LEMMA SettledHosts ==
  ASSUME ProgramInv, IrisTypeOK, Settled
  PROVE  \A t \in Task : stage[t] # "open" /\ IsHost(t) => stage[t] = "done"
BY DEF ProgramInv, HostInv, IrisTypeOK, Settled, IsHost

LEMMA IrisIsNext ==
  ASSUME BaseInv, ProgramInv, HostsDone, EmptyInv, NEW modes, NEW first, IrisNext(modes, first)
  PROVE  [Next]_vars
<1> USE DEF BaseInv
<1>1. ASSUME NEW t \in Task, IrisSubmits(t) PROVE Submit(t)
  <2>1. /\ stage[t] = "bound" /\ UNCHANGED <<before, live, bound_vars, mem>>
        /\ stage' = [stage EXCEPT ![t] = IF Empty(t) THEN "done" ELSE "submitted"]
        /\ seen' = IF Empty(t) THEN [seen EXCEPT ![t] = [b \in Buffer |-> mem[b][HOST]]] ELSE seen
    BY <1>1 DEF IrisSubmits
  <2>2. CASE ~Empty(t)
    <3>1. stage'[t] = "submitted"
      BY <2>1, <2>2 DEF TypeOK, graph!TGTypeOK
    <3> QED BY <2>1, <2>2, <3>1 DEF Submit, graph!SubmitTask
  <2>3. CASE Empty(t)
    <3>1. graph!Ready(t)
      BY <2>1, <2>3 DEF EmptyInv, graph!Ready
    <3>2. group[t].tgt = HOST /\ \A b \in Buffer : group[t].from[b] = NONE
      BY <2>3 DEF Empty, Commands, CopiesIn, IsHost
    <3>3. t \in live
      BY <2>1, <3>2 DEF ProgramInv, HostInv
    <3>4. Fetches(t)
      <4>1. [b \in Buffer |-> [mem[b] EXCEPT ![HOST] = mem[b][HOST]]] = mem
        BY DEF TypeOK
      <4>2. [b \in Buffer |-> IF group[t].from[b] = NONE THEN mem[b][group[t].tgt]
                              ELSE mem[b][group[t].from[b]]] = [b \in Buffer |-> mem[b][HOST]]
        BY <3>2
      <4> QED BY <2>1, <2>3, <3>2, <4>1, <4>2 DEF Fetches
    <3>5. stage'[t] = "done"
      BY <2>1, <2>3 DEF TypeOK, graph!TGTypeOK
    <3> QED BY <2>1, <2>3, <3>1, <3>2, <3>3, <3>4, <3>5 DEF Submit, graph!SubmitTask
  <2> QED BY <2>2, <2>3
<1>2. ASSUME NEW t \in Task, IrisStarts(t) PROVE Run(t)
  <2>1. \A p \in before[t] : stage[p] = "done"
    BY <1>2 DEF IrisStarts, HeldBy, HostsDone, Empty, Commands
  <2>2. stage'[t] = "started"
    BY <1>2 DEF IrisStarts, TypeOK, graph!TGTypeOK
  <2> QED BY <1>2, <2>1, <2>2 DEF IrisStarts, Run, graph!Start, graph!Ready
<1>3. ASSUME NEW t \in Task, IrisWaits(t) PROVE UNCHANGED vars
  BY <1>3 DEF IrisWaits
<1>4. IrisFinished => UNCHANGED vars
  BY DEF IrisFinished, iris_system
<1> QED BY <1>1, <1>2, <1>3, <1>4
         DEF IrisNext, IrisBinds, IrisBindsHost, IrisFills, IrisReleases, IrisDone, Next, TaskStep

(* Those that a task waits for were bound before it.                       *)
LEMMA JoinPreds ==
  ASSUME BaseInv, ProgramInv, NEW n \in Task, Bind(n) \/ BindHost(n) \/ FillEnd(n)
  PROVE  \A p \in before'[n] : p \in Task /\ stage[p] # "open"
<1> USE DEF BaseInv
<1>1. PICK P : graph!Seal(n, P)
  BY DEF Bind, BindHost, FillEnd, BindAll
<1>2. before'[n] = before[n] \union P /\ \A p \in P : stage[p] # "open"
  BY <1>1 DEF graph!Seal, TypeOK, graph!TGTypeOK
<1>3. before[n] = {}
  BY <1>1 DEF graph!Seal, ProgramInv, OpenInv
<1>4. TypeOK'
  BY TypeStep DEF Next
<1> QED BY <1>2, <1>3, <1>4 DEF TypeOK, graph!TGTypeOK

(* The task of a host accessor without commands: what it waits for is      *)
(* done, since the program only reads there, or has waited first.          *)
LEMMA EmptyPreds ==
  ASSUME BaseInv, ProgramInv, IrisTypeOK, NEW n \in Task, NEW modes, NEW first,
         modes = Readers \/ first = TRUE, IrisBindsHost(n, modes, first), Empty(n)'
  PROVE  \A p \in before'[n] : stage[p] = "done"
<1> USE DEF BaseInv
<1>1. Settled /\ BindHost(n)
  BY DEF IrisBindsHost, IrisFree, Settled
<1>2. \A p \in before'[n] : p \in Task /\ stage[p] # "open"
  BY <1>1, JoinPreds
<1>3. CASE first = TRUE
  BY <1>1, <1>2, <1>3 DEF IrisBindsHost, InFlight, Settled, TypeOK, graph!TGTypeOK, graph!Stage
<1>4. CASE modes = Readers
  <2>1. PICK b \in Buffer, a \in {"read_only", "read_write"} :
          BindAll(n, HOST, [[c \in Buffer |-> "unused"] EXCEPT ![b] = a])
    BY <1>1 DEF BindHost
  <2> DEFINE acc == [[c \in Buffer |-> "unused"] EXCEPT ![b] = a]
  <2>2. acc \in [Buffer -> Access] /\ HOST \in Dom
    BY DEF Access
  <2>3. group'[n].acc = acc /\ group'[n].from[b] = CopyFrom(b, acc[b], HOST)
    BY <2>1, <2>2, BindAllEnters DEF BindAll, TypeOK
  <2>4. a = "read_only"
    BY <1>4, <2>3 DEF IrisBindsHost, Readers
  <2>5. HasLatest(b, HOST)
    <3>1. group'[n].from[b] = NONE
      BY DEF Empty, Commands, CopiesIn
    <3>2. owner[b] \in Dom
      BY DEF TypeOK
    <3> QED BY <2>3, <2>4, <3>1, <3>2 DEF CopyFrom, Reads
  <2>6. Preds(b, acc[b], HOST) \subseteq {state[b][HOST].writer} \ {NONE}
    <3>1. ReadAt(b, acc[b], HOST) = {HOST} /\ WriteAt(b, acc[b], HOST) = {}
      BY <2>4, <2>5 DEF ReadAt, WriteAt, Writes
    <3>2. WaitsFor(state[b][HOST], FALSE) = {state[b][HOST].writer} \ {NONE}
      BY DEF WaitsFor
    <3> QED BY <3>1, <3>2 DEF Preds
  <2>7. before'[n] \subseteq {state[b][HOST].writer} \ {NONE}
    <3>1. graph!Seal(n, GroupPreds(acc, HOST)) /\ GroupPreds(acc, HOST) \in SUBSET Task
      BY <2>1, <2>2, BindAllType, GroupPredsType
    <3>2. before'[n] = before[n] \union GroupPreds(acc, HOST) /\ stage[n] = "open"
      BY <3>1, SealEffect
    <3>3. GroupPreds(acc, HOST) \subseteq Preds(b, acc[b], HOST)
      <4>1. {c \in Buffer : acc[c] # "unused"} \subseteq {b}
        OBVIOUS
      <4> HIDE DEF acc
      <4> QED BY <4>1 DEF GroupPreds
    <3> QED BY <2>6, <3>2, <3>3 DEF ProgramInv, OpenInv
  <2>8. \A p \in before'[n] : IsHost(p)
    BY <1>2, <2>2, <2>7 DEF DataInv, WriterInv, Stores, IsHost
  <2> QED BY <1>1, <1>2, <2>8, SettledHosts
<1> QED BY <1>3, <1>4

LEMMA IrisInitInv == IrisInit => IrisInv /\ AccessorsReadLatest
<1> SUFFICES ASSUME IrisInit PROVE IrisInv /\ AccessorsReadLatest
  OBVIOUS
<1>1. TypeOK /\ Filling = {} /\ \A t \in Task : stage[t] = "open" /\ before[t] = {}
  BY TypeInit DEF IrisInit, Init, graph!TGInit, Filling
<1>2. IrisTypeOK
  BY <1>1 DEF IrisInit, IrisTypeOK, Data, Writer
<1>3. HostsDone /\ EmptyInv /\ FillFree
  BY <1>1 DEF HostsDone, EmptyInv, FillFree
<1> QED BY <1>2, <1>3 DEF IrisInv, IrisInit, AccessorsReadLatest

(* A task is bound between two statements of the program, or none is.      *)
IrisJoins(n, modes) ==
  /\ Joins(n) /\ Settled /\ UNCHANGED iris_vars /\ fill'[n] = NoFill
  /\ \A u \in Task \ {n} : fill'[u] = fill[u]
  /\ FillEnd(n) \/ (Filling = {} /\ (Bind(n) \/ BindHost(n)))
  /\ group'[n].tgt = HOST => \A b \in Buffer : group'[n].acc[b] \in modes \union {"unused"}
  /\ Empty(n)' => \A p \in before'[n] : stage[p] = "done"

IrisMoves(t) ==
  \/ IrisFree /\ FillBegin(t) /\ UNCHANGED iris_vars
  \/ IrisSubmits(t) \/ IrisWaits(t) \/ IrisReleases(t) \/ IrisStarts(t) \/ IrisDone(t)

LEMMA IrisMovesRest ==
  ASSUME BaseInv, [Next]_vars, NEW t \in Task, IrisMoves(t)
  PROVE  Rests
<1> USE DEF BaseInv
<1>1. \A n \in Task : stage[n] = "open" => stage'[n] = "open"
  <2>1. CASE IrisSubmits(t) \/ IrisStarts(t)
    BY <2>1 DEF IrisSubmits, IrisStarts, TypeOK, graph!TGTypeOK
  <2>2. CASE IrisDone(t)
    BY <2>2 DEF IrisDone, Done, graph!Finish, TypeOK, graph!TGTypeOK
  <2>3. CASE stage' = stage
    BY <2>3
  <2> QED BY <2>1, <2>2, <2>3 DEF IrisMoves, FillBegin, IrisWaits, vars, IrisReleases, Release
<1>2. ~\E n \in Task : Joins(n)
  BY <1>1 DEF Joins, Enters
<1> QED BY <1>2, StepShape

LEMMA IrisShape ==
  ASSUME BaseInv, ProgramInv, IrisInv, NEW modes, NEW first,
         modes = Readers \/ first = TRUE, IrisNext(modes, first)
  PROVE  \/ \E n \in Task : IrisJoins(n, modes)
         \/ Rests /\ \E n \in Task : IrisMoves(n)
         \/ UNCHANGED iris_system
<1> USE DEF BaseInv, IrisInv
<1>1. ASSUME NEW n \in Task, IrisBinds(n) PROVE IrisJoins(n, modes)
  <2>1. Bind(n) /\ Settled /\ UNCHANGED iris_vars /\ Filling = {}
    BY <1>1 DEF IrisBinds, IrisFree, Settled
  <2>2. Joins(n) /\ group'[n].tgt # HOST
    BY <2>1, BindJoins, DeviceBinds
  <2> QED BY <2>1, <2>2 DEF IrisJoins, Bind, Empty, Commands, IsHost
<1>2. ASSUME NEW n \in Task, IrisBindsHost(n, modes, first) PROVE IrisJoins(n, modes)
  <2>1. BindHost(n) /\ Settled /\ UNCHANGED iris_vars /\ Filling = {}
    BY <1>2 DEF IrisBindsHost, IrisFree, Settled
  <2>2. Empty(n)' => \A p \in before'[n] : stage[p] = "done"
    BY <1>2, EmptyPreds
  <2> QED BY <1>2, <2>1, <2>2, BindJoins DEF IrisJoins, IrisBindsHost, BindHost
<1>3. ASSUME NEW n \in Task, FillEnd(n), UNCHANGED iris_vars PROVE IrisJoins(n, modes)
  <2>1. Joins(n) /\ group'[n].tgt # HOST
    BY <1>3, BindJoins, DeviceBinds
  <2>2. Settled
    BY <1>3 DEF FillEnd, Filling, FillFree
  <2>3. fill'[n] = NoFill /\ \A u \in Task \ {n} : fill'[u] = fill[u]
    BY <1>3 DEF FillEnd, TypeOK
  <2> QED BY <1>3, <2>1, <2>2, <2>3 DEF IrisJoins, Empty, Commands, IsHost
<1>4. ASSUME NEW n \in Task, IrisMoves(n) PROVE Rests
  <2>1. [Next]_vars
    BY IrisIsNext
  <2> QED BY <1>4, <2>1, IrisMovesRest
<1>5. \A n \in Task : IrisFills(n) => IrisMoves(n) \/ (FillEnd(n) /\ UNCHANGED iris_vars)
  BY DEF IrisFills, IrisMoves
<1>6. IrisFinished => UNCHANGED iris_system
  BY DEF IrisFinished
<1> QED BY <1>1, <1>2, <1>3, <1>4, <1>5, <1>6 DEF IrisNext, IrisMoves

(* When a wait ends, the task of the accessor is done.                     *)
LEMMA WaitIsDone ==
  ASSUME BaseInv, EmptyInv, NEW t \in Task, IrisWaits(t)
  PROVE  stage[t] = "done"
BY DEF IrisWaits, WaitEnds, NeedsSync, InFlight, EmptyInv

LEMMA IrisEnter ==
  ASSUME BaseInv, BaseInv', ProgramInv, IrisInv, AccessorsReadLatest,
         NEW modes, NEW n \in Task, IrisJoins(n, modes)
  PROVE  IrisInv' /\ AccessorsReadLatest'
<1> USE DEF BaseInv, IrisInv
<1>1. /\ stage[n] = "open" /\ stage'[n] = "bound" /\ waited' = waited /\ read' = read
      /\ \A u \in Task \ {n} : /\ stage'[u] = stage[u] /\ before'[u] = before[u]
                             /\ group'[u] = group[u] /\ want'[u] = want[u]
  BY DEF IrisJoins, iris_vars, Joins, Enters, Updates
<1>2. IrisTypeOK'
  BY <1>1 DEF IrisTypeOK
<1>3. group[n].tgt = HOST
  BY <1>1 DEF ProgramInv, OpenInv, NoGroup
<1>4. HostsDone'
  <2> SUFFICES ASSUME NEW t \in Task, NEW h \in before'[t], IsHost(h)' PROVE stage'[h] = "done"
    BY DEF HostsDone
  <2>1. CASE t = n
    <3>1. h \in Task /\ stage[h] # "open"
      BY <2>1, JoinPreds DEF IrisJoins
    <3>2. h # n /\ IsHost(h)
      BY <1>1, <3>1 DEF IsHost
    <3> QED BY <1>1, <3>1, <3>2, SettledHosts DEF IrisJoins
  <2>2. CASE t # n
    <3>1. h \in before[t] /\ h \in Task
      BY <1>1, <2>2 DEF TypeOK, graph!TGTypeOK
    <3>2. h # n
      BY <1>1, <1>3, <3>1 DEF HostsDone, IsHost
    <3> QED BY <1>1, <3>1, <3>2 DEF HostsDone, IsHost
  <2> QED BY <2>1, <2>2
<1>5. EmptyInv'
  <2> SUFFICES ASSUME NEW t \in Task, stage'[t] # "open", Empty(t)'
               PROVE  stage'[t] \in {"bound", "done"} /\ \A p \in before'[t] : stage'[p] = "done"
    BY DEF EmptyInv
  <2>1. \A p \in Task : stage[p] = "done" => stage'[p] = "done"
    BY <1>1
  <2>2. CASE t = n
    BY <1>1, <2>1, <2>2, JoinPreds DEF IrisJoins
  <2>3. CASE t # n
    <3>1. stage[t] # "open" /\ Empty(t)
      BY <1>1, <2>3 DEF Empty, Commands, CopiesIn, IsHost
    <3> QED BY <1>1, <2>1, <2>3, <3>1 DEF EmptyInv, TypeOK, graph!TGTypeOK
  <2> QED BY <2>2, <2>3
<1>6. FillFree'
  <2>1. \A t, u \in Filling : t = u
    BY DEF FillInv
  <2>2. Filling' \subseteq Filling \ {n}
    BY DEF IrisJoins, Filling
  <2>3. Filling' = {}
    <3>1. CASE FillEnd(n)
      BY <2>1, <2>2, <3>1 DEF FillEnd, Filling
    <3>2. CASE Filling = {}
      BY <2>2, <3>2
    <3> QED BY <3>1, <3>2 DEF IrisJoins
  <2> QED BY <2>3 DEF FillFree
<1>7. AccessorsReadLatest'
  BY <1>1 DEF AccessorsReadLatest, IrisTypeOK
<1> QED BY <1>2, <1>4, <1>5, <1>6, <1>7

LEMMA IrisRest ==
  ASSUME BaseInv, BaseInv', ProgramInv, IrisInv, AccessorsReadLatest, Rests,
         NEW n \in Task, IrisMoves(n)
  PROVE  IrisInv' /\ AccessorsReadLatest'
<1> USE DEF BaseInv, IrisInv
<1>1. /\ UNCHANGED <<before, group, want>> /\ live' \subseteq live
      /\ \A t \in Task : /\ stage'[t] = "open" <=> stage[t] = "open"
                         /\ stage[t] = "done" => stage'[t] = "done"
  BY DEF Rests
<1>2. \/ IrisWaits(n) /\ stage' = stage /\ fill' = fill
      \/ ~IrisWaits(n) /\ waited' = waited /\ read' = read
  BY DEF IrisMoves, IrisWaits, iris_vars, IrisSubmits, IrisReleases, IrisStarts, IrisDone, vars
<1>3. IrisTypeOK' /\ waited \subseteq waited'
  <2>1. CASE IrisWaits(n)
    <3>1. \A b \in Buffer : mem[b][HOST] \in Data
      BY DEF TypeOK
    <3> QED BY <1>1, <2>1, <3>1, WaitIsDone DEF IrisWaits, IrisTypeOK
  <2>2. CASE ~IrisWaits(n)
    BY <1>1, <1>2, <2>2 DEF IrisTypeOK
  <2> QED BY <2>1, <2>2
<1>4. HostsDone'
  BY <1>1 DEF HostsDone, IsHost, TypeOK, graph!TGTypeOK
<1>5. EmptyInv'
  <2>1. \A t \in Task : Empty(t)' = Empty(t)
    BY <1>1 DEF Empty, Commands, CopiesIn, IsHost
  <2>2. ASSUME NEW t \in Task, Empty(t), stage[t] \in {"bound", "done"}
        PROVE  stage'[t] \in {"bound", "done"}
    <3>1. CASE IrisSubmits(n)
      BY <2>2, <3>1 DEF IrisSubmits, TypeOK, graph!TGTypeOK
    <3>2. CASE IrisStarts(n)
      BY <2>2, <3>2 DEF IrisStarts, TypeOK, graph!TGTypeOK
    <3>3. CASE IrisDone(n)
      BY <2>2, <3>3 DEF IrisDone, Done, graph!Finish, TypeOK, graph!TGTypeOK
    <3>4. CASE stage' = stage
      BY <2>2, <3>4
    <3> QED BY <3>1, <3>2, <3>3, <3>4 DEF IrisMoves, FillBegin, IrisWaits, vars, IrisReleases, Release
  <2> QED BY <1>1, <2>1, <2>2 DEF EmptyInv, TypeOK, graph!TGTypeOK
<1>6. FillFree'
  <2>1. CASE IrisFree /\ FillBegin(n)
    <3>1. stage' = stage /\ live' = live
      BY <2>1 DEF FillBegin
    <3> QED BY <1>1, <1>3, <2>1, <3>1 DEF IrisFree, FillFree, Settled
  <2>2. CASE IrisSubmits(n) \/ IrisWaits(n) \/ IrisReleases(n) \/ IrisStarts(n) \/ IrisDone(n)
    <3>1. \A t \in Task : stage[t] # "bound" => stage'[t] # "bound"
      <4>1. CASE IrisSubmits(n)
        BY <4>1 DEF IrisSubmits, TypeOK, graph!TGTypeOK
      <4>2. CASE IrisStarts(n)
        BY <4>2 DEF IrisStarts, TypeOK, graph!TGTypeOK
      <4>3. CASE IrisDone(n)
        BY <4>3 DEF IrisDone, Done, graph!Finish, TypeOK, graph!TGTypeOK
      <4>4. CASE IrisWaits(n) \/ IrisReleases(n)
        BY <4>4 DEF IrisWaits, vars, IrisReleases, Release
      <4> QED BY <2>2, <4>1, <4>2, <4>3, <4>4
    <3>2. fill' = fill
      BY <2>2 DEF IrisSubmits, IrisWaits, vars, IrisReleases, Release, IrisStarts, IrisDone, Done,
           bound_vars
    <3>3. Settled => Settled'
      BY <1>1, <1>3, <3>1 DEF Settled
    <3> QED BY <3>2, <3>3 DEF FillFree, Filling
  <2> QED BY <2>1, <2>2 DEF IrisMoves
<1>7. AccessorsReadLatest'
  <2>1. CASE ~IrisWaits(n)
    BY <1>1, <1>2, <2>1 DEF AccessorsReadLatest
  <2>2. CASE IrisWaits(n)
    <3>1. n \in live /\ stage[n] = "done"
      BY <2>2, WaitIsDone DEF IrisWaits
    <3>2. group[n].tgt = HOST /\ Running(n)
      BY <3>1 DEF ConflictInv, LiveInv, Running
    <3>3. \A b \in Buffer : Reads(group[n].acc[b]) => mem[b][HOST] = want[n][b]
      BY <3>2 DEF DataInv, LoadedInv
    <3>4. /\ waited' = waited \union {n} /\ n \notin waited
          /\ \A b \in Buffer : read'[n][b] = mem[b][HOST]
          /\ \A t \in Task \ {n} : read'[t] = read[t]
      BY <2>2 DEF IrisWaits, IrisTypeOK
    <3> QED BY <1>1, <3>3, <3>4 DEF AccessorsReadLatest, IrisTypeOK
  <2> QED BY <2>1, <2>2
<1> QED BY <1>3, <1>4, <1>5, <1>6, <1>7

(* A program whose host accessors only read does so after an IRIS step.    *)
LEMMA IrisModes ==
  ASSUME BaseInv, ProgramInv, IrisInv, ModesInv, IrisNext(Readers, FALSE)
  PROVE  ModesInv'
<1>1. ASSUME NEW n \in Task, IrisJoins(n, Readers) PROVE ModesInv'
  BY <1>1, BindModes DEF IrisJoins
<1>2. Rests => ModesInv'
  BY DEF ModesInv, Rests, Author
<1>3. UNCHANGED iris_system => Rests
  BY DEF iris_system, vars, Rests
<1> QED BY <1>1, <1>2, <1>3, IrisShape

LEMMA IrisStepKeeps ==
  ASSUME BaseInv, BaseInv', ProgramInv, IrisInv, AccessorsReadLatest, NEW modes, NEW first,
         modes = Readers \/ first = TRUE, IrisNext(modes, first)
  PROVE  IrisInv' /\ AccessorsReadLatest'
<1>1. UNCHANGED iris_system => IrisInv' /\ AccessorsReadLatest'
  BY DEF IrisInv, IrisTypeOK, BaseInv, HostsDone, EmptyInv, Empty, Commands, CopiesIn, IsHost,
         FillFree, Filling, Settled, AccessorsReadLatest, iris_system, vars, iris_vars
<1> QED BY <1>1, IrisShape, IrisEnter, IrisRest

(* While a copy to the host's memory runs, no other uses it: a task that   *)
(* copies from there is bound before it and done, or waits for it, and     *)
(* nothing waits for a host's task that is not done.                       *)
LEMMA CopiesAlone ==
  ASSUME BaseInv, NoConflict, IrisInv, NEW t \in Task, NEW b \in Buffer,
         stage[t] = "started", IsHost(t), b \in CopiesIn(t), NEW u \in InFlight \ {t}
  PROVE  /\ group[u].from[b] # HOST
         /\ stage[u] = "started" => ~(IsHost(u) /\ b \in CopiesIn(u))
<1> USE DEF BaseInv
<1>1. Stores(t, b, HOST) /\ u \in Task /\ u # t /\ stage[u] \in {"submitted", "started"}
  BY DEF Stores, IsHost, CopiesIn, InFlight
<1>2. ASSUME group[u].from[b] = HOST PROVE FALSE
  <2>1. Behind(t, u) \/ Behind(u, t)
    BY <1>1, <1>2 DEF Copies, ConflictInv, OrderInv
  <2>2. ~Behind(u, t)
    BY <1>1, BehindDone DEF ConflictInv
  <2> DEFINE X == {x \in Task : IsHost(x) => stage[x] = "done"}
  <2>3. before[u] \subseteq X /\ \A x \in X : before[x] \subseteq X
    BY <1>1 DEF IrisInv, HostsDone, TypeOK, graph!TGTypeOK
  <2>4. t \notin X
    OBVIOUS
  <2>5. X \in SUBSET Task
    OBVIOUS
  <2> HIDE DEF X
  <2> QED BY <2>1, <2>2, <2>3, <2>4, <2>5 DEF Behind, BehindIn
<1>3. ASSUME stage[u] = "started", IsHost(u), b \in CopiesIn(u) PROVE FALSE
  BY <1>1, <1>3 DEF NoConflict, Running, Stores, IsHost, CopiesIn
<1> QED BY <1>2, <1>3

LEMMA QuietHost ==
  ASSUME BaseInv, NoConflict, IrisInv, ModesInv
  PROVE  HostMemoryIsQuiet
<1>1. \A t \in live, b \in Buffer : t \in Task => ~Writes(group[t].acc[b])
  BY DEF BaseInv, ConflictInv, LiveInv, ModesInv, Author
<1> QED BY <1>1, CopiesAlone DEF HostMemoryIsQuiet

LEMMA KernelsRead ==
  ASSUME BaseInv
  PROVE  ReadsLatest /\ IrisReadsLatest
BY DEF BaseInv, DataInv, ReadsLatest, IrisReadsLatest
-----------------------------------------------------------------------------
(* What holds under each back end.                                         *)
CpuInv == CpuTypeOK /\ PredInv /\ MemoryInv /\ QueueInv

ReadersInv == ModesInv /\ NextInv /\ CpuReadsLatest

MCInv ==
  /\ BaseInv /\ ProgramInv
  /\ part \in {"cpu_readers", "cpu"} => CpuInv
  /\ part = "cpu_readers" => ReadersInv
  /\ part \in {"iris_readers", "iris_waits"} => IrisInv /\ AccessorsReadLatest
  /\ part = "iris_readers" => ModesInv

LEMMA StartInv == MCInit => Init /\ MCInv
<1> SUFFICES ASSUME MCInit PROVE Init /\ MCInv
  OBVIOUS
<1>1. Init
  BY DEF MCInit, CpuInit, IrisInit
<1>2. BaseInv /\ ProgramInv
  BY <1>1, BaseInit, ProgramInit
<1>3. \A t \in Task : stage[t] = "open" /\ \A b \in Buffer : ~Author(t, b)
  BY <1>1 DEF Init, graph!TGInit, Author, NoGroup, Writes
<1>4. ModesInv /\ NextInv
  BY <1>3 DEF ModesInv, NextInv
<1>5. CpuReadsLatest
  BY <1>3 DEF CpuReadsLatest
<1>6. CpuInit => CpuInv
  BY CpuInitInv DEF CpuInv
<1> QED BY <1>1, <1>2, <1>4, <1>5, <1>6, IrisInitInv DEF MCInit, MCInv, ReadersInv

(* Every step of a back end is one of the dependency manager.              *)
LEMMA BackEndIsNext ==
  ASSUME MCInv, [MCNext]_all_vars
  PROVE  [Next]_vars
<1>1. CASE UNCHANGED all_vars
  BY <1>1 DEF all_vars
<1>2. CASE MCNext
  <2>1. \A modes : CpuNext(modes) => [Next]_vars
    BY CpuIsNext
  <2>2. ASSUME part \in {"iris_readers", "iris_waits"}, NEW modes, NEW first, IrisNext(modes, first)
        PROVE  [Next]_vars
    BY <2>2, IrisIsNext DEF MCInv, IrisInv
  <2> QED BY <1>2, <2>1, <2>2 DEF MCNext
<1> QED BY <1>1, <1>2

LEMMA CpuSame ==
  ASSUME BaseInv, BaseInv', CpuInv, UNCHANGED cpu_system
  PROVE  CpuInv' /\ (ReadersInv => ReadersInv')
<1>1. Rests /\ Quiet
  BY DEF cpu_system, cpu_vars, vars, Rests, Quiet, Final
<1>2. PredInv' /\ MemoryInv'
  BY <1>1, RestPred, RestMemory DEF CpuInv
<1>3. CpuTypeOK'
  BY DEF CpuInv, CpuTypeOK, BaseInv, cpu_system, cpu_vars, vars
<1>4. QueueInv'
  BY DEF CpuInv, QueueInv, DueInv, BoundInv, Due, Distinct, HasFn, graph!Ready, cpu_system,
         cpu_vars, vars
<1>5. ReadersInv => ReadersInv'
  BY <1>1, RestNext DEF ReadersInv, CpuReadsLatest, Host, cpu_system, cpu_vars, vars
<1> QED BY <1>2, <1>3, <1>4, <1>5 DEF CpuInv

LEMMA MCStep ==
  ASSUME Concurrent = FALSE, MCInv, [MCNext]_all_vars
  PROVE  MCInv'
<1>1. BaseInv /\ BaseInv' /\ ProgramInv /\ ProgramInv'
  BY BackEndIsNext, BaseStep, ProgramStep DEF MCInv
<1>2. part' = part
  BY DEF MCNext, all_vars
<1>3. ASSUME part \in {"cpu_readers", "cpu"}
      PROVE  CpuInv' /\ (part = "cpu_readers" => ReadersInv')
  <2>1. CASE UNCHANGED all_vars
    BY <1>1, <1>3, <2>1, CpuSame DEF all_vars, cpu_system, MCInv
  <2>2. ASSUME NEW modes, CpuNext(modes), OneDevice' PROVE CpuInv'
    BY <1>1, <1>3, <2>2, CpuStep, CpuType DEF MCInv, CpuInv
  <2>3. ASSUME part = "cpu_readers", CpuNext(Readers), OneDevice' PROVE ReadersInv'
    BY <1>1, <2>3, ReadersStep DEF MCInv, CpuInv, ReadersInv
  <2> QED BY <1>3, <2>1, <2>2, <2>3 DEF MCNext
<1>4. ASSUME part \in {"iris_readers", "iris_waits"}
      PROVE  /\ IrisInv' /\ AccessorsReadLatest'
             /\ part = "iris_readers" => ModesInv'
  <2>1. CASE UNCHANGED all_vars
    <3>1. UNCHANGED iris_system
      BY <2>1 DEF all_vars, iris_system
    <3>2. IrisInv' /\ AccessorsReadLatest'
      BY <1>1, <1>4, <3>1 DEF MCInv, IrisInv, IrisTypeOK, BaseInv, HostsDone, EmptyInv, Empty,
           Commands, CopiesIn, IsHost, FillFree, Filling, Settled, AccessorsReadLatest,
           iris_system, vars, iris_vars
    <3>3. part = "iris_readers" => ModesInv'
      BY <3>1 DEF MCInv, ModesInv, Author, iris_system, vars
    <3> QED BY <3>2, <3>3
  <2>2. CASE part = "iris_readers" /\ IrisNext(Readers, FALSE)
    BY <1>1, <2>2, IrisStepKeeps, IrisModes DEF MCInv
  <2>3. CASE part = "iris_waits" /\ IrisNext(Both, TRUE)
    BY <1>1, <2>3, IrisStepKeeps DEF MCInv
  <2> QED BY <1>4, <2>1, <2>2, <2>3 DEF MCNext
<1> QED BY <1>1, <1>2, <1>3, <1>4 DEF MCInv

LEMMA MCFacts ==
  ASSUME MCInv
  PROVE  KernelsReadLatest /\ HostReadsLatest
<1>1. NoConflict
  BY NothingConflicts DEF MCInv, BaseInv
<1>2. KernelsReadLatest
  BY KernelsRead DEF KernelsReadLatest, MCInv, ReadersInv
<1>3. part = "cpu" => CpuTypeOK /\ HostSeesLatest /\ JobsAreDue
  BY HostSees, QueueIsDue DEF MCInv, CpuInv, QueueInv
<1>4. part \in {"iris_readers", "iris_waits"} => IrisTypeOK /\ AccessorsReadLatest
  BY DEF MCInv, IrisInv
<1>5. part = "iris_readers" => HostMemoryIsQuiet
  BY <1>1, QuietHost DEF MCInv
<1> QED BY <1>2, <1>3, <1>4, <1>5 DEF HostReadsLatest

(* dev_rts_cpu.cpp, iris_rts.cpp: the CPU's pool and IRIS run the tasks as *)
(* the dependency manager supposes that a back end does.                   *)
THEOREM BackEndsRefine == ASSUME Concurrent = FALSE PROVE MCSpec => Spec
<1>1. MCInit => Init /\ MCInv
  BY StartInv
<1>2. MCInv /\ [MCNext]_all_vars => MCInv' /\ [Next]_vars
  BY MCStep, BackEndIsNext
<1> QED BY <1>1, <1>2, PTL DEF MCSpec, Spec

(* A kernel reads what the groups bound before it wrote, under any back    *)
(* end, on the CPU's one memory, and on IRIS, where a task without         *)
(* commands is done at once (KernelsReadLatest of MCBackEnds).             *)
THEOREM KernelsRight == ASSUME Concurrent = FALSE PROVE MCSpec => []KernelsReadLatest
<1>1. MCInit => MCInv
  BY StartInv
<1>2. MCInv /\ [MCNext]_all_vars => MCInv'
  BY MCStep
<1> QED BY <1>1, <1>2, MCFacts, PTL DEF MCSpec

(* A program that has waited for its host accessor finds there what was    *)
(* bound before it wrote, nobody else uses the host's memory meanwhile,    *)
(* and the pool's queue has a job only when it is due (HostReadsLatest).   *)
THEOREM HostRight == ASSUME Concurrent = FALSE PROVE MCSpec => []HostReadsLatest
<1>1. MCInit => MCInv
  BY StartInv
<1>2. MCInv /\ [MCNext]_all_vars => MCInv'
  BY MCStep
<1> QED BY <1>1, <1>2, MCFacts, PTL DEF MCSpec
=============================================================================
