---------------------------- MODULE LaunchProofs ----------------------------
(* How kernels are launched: their arguments are bound with one sufficient *)
(* dependency for each buffer, the fibers of a work group meet at their    *)
(* barriers, the workers of IRIS run their own kernels, and the back end   *)
(* that launches is there.  For every value of MCRuntime's constants.      *)
EXTENDS MCRuntime, FiniteSetTheorems, WellFoundedInduction, TLAPS

(* The round that the last work item has to run next; the items before the *)
(* active one have run theirs.                                             *)
Round == passed[n - 1]

Place(i) == <<Items, i>>

(* Every fiber is in its own slot, but the active one, and the thread is   *)
(* in tail_ while it waits.                                                *)
SlotsAre(a) ==
  /\ slot \in [Fiber!Slot -> Fiber!Handle] /\ prev \in [0 .. Items - 1 -> {0, Items}]
  /\ \A i \in 0 .. Items - 1 : slot[Place(i)] = IF a = i THEN EMPTY ELSE i
  /\ slot[TAIL] = IF a = MAIN THEN EMPTY ELSE MAIN

(* Item 0 ends the group, in the last round.                               *)
FiberInv ==
  /\ Fiber!TypeOK
  /\ cap = Items /\ size = Items
  /\ SlotsAre(active)
  /\ active # MAIN => active \in 0 .. n - 1
  /\ \A i \in 0 .. n - 1 : passed[i] = IF active # MAIN /\ i < active THEN Round + 1 ELSE Round
  /\ Round \in 0 .. barriers + 1
  /\ active # MAIN => launches > 0 /\ Round <= barriers
  /\ launches = 0 => ~running
  /\ launches > 0 =>
       (running <=> IF active = MAIN \/ active = 0 THEN Round <= barriers ELSE Round < barriers)

LEMMA Constants ==
  /\ Items \in Nat \ {0} /\ Barriers \in Nat /\ Launches \in Nat
  /\ MAIN \notin Nat /\ EMPTY \notin Nat /\ MAIN # EMPTY
  /\ Fiber!Item = 0 .. Items - 1 /\ Fiber!Handle = (0 .. Items - 1) \union {MAIN, EMPTY}
BY FiberIsGiven DEF Fiber!FiberAssumption, Fiber!Item, Fiber!Handle

LEMMA Places ==
  /\ TAIL \in Fiber!Slot
  /\ \A i \in 0 .. Items - 1 : Place(i) \in Fiber!Slot /\ Place(i) # TAIL
  /\ \A i, j \in 0 .. Items - 1 : Place(i) = Place(j) => i = j
BY FiberIsGiven DEF Fiber!FiberAssumption, Fiber!Slot, Fiber!Item, Place

LEMMA SlotTypes ==
  ASSUME NEW a, SlotsAre(a)
  PROVE  slot \in [Fiber!Slot -> Fiber!Handle] /\ prev \in [Fiber!Item -> 0 .. Items]
<1>1. prev \in [Fiber!Item -> {0, Items}] /\ {0, Items} \subseteq 0 .. Items
  BY Constants DEF SlotsAre
<1> QED BY <1>1 DEF SlotsAre

LEMMA FiberStarts ==
  ASSUME Fiber!Init
  PROVE  FiberInv
<1>1. SlotsAre(active)
  <2>1. slot \in [Fiber!Slot -> Fiber!Handle] /\ prev \in [0 .. Items - 1 -> {0, Items}]
    BY Constants DEF Fiber!Init, Fiber!Slot
  <2>2. \A i \in 0 .. Items - 1 : slot[Place(i)] = i
    BY Constants, Places DEF Fiber!Init, Place
  <2>3. slot[TAIL] = EMPTY
    BY Constants, Places DEF Fiber!Init
  <2>4. active = MAIN
    BY DEF Fiber!Init
  <2> QED BY <2>1, <2>2, <2>3, <2>4, Constants DEF SlotsAre
<1>2. slot \in [Fiber!Slot -> Fiber!Handle] /\ prev \in [Fiber!Item -> 0 .. Items]
  BY <1>1, SlotTypes
<1>3. /\ cap = Items /\ size = Items /\ n = Items /\ running = FALSE /\ active = MAIN
      /\ barriers = 0 /\ launches = 0 /\ passed = [i \in 0 .. Items - 1 |-> 0]
  BY Constants DEF Fiber!Init
<1>4. passed \in [Fiber!Item -> 0 .. Barriers + 1] /\ active \in Fiber!Handle \ {EMPTY} /\ running \in BOOLEAN
  <2>1. passed \in [Fiber!Item -> 0 .. Barriers + 1]
    BY <1>3, Constants
  <2>2. active \in Fiber!Handle \ {EMPTY}
    BY <1>3, Constants
  <2> QED BY <1>3, <2>1, <2>2
<1>5. Fiber!TypeOK
  BY <1>2, <1>3, <1>4, Constants DEF Fiber!TypeOK
<1> QED BY <1>1, <1>3, <1>5, Constants DEF FiberInv, Round

LEMMA FiberLaunch ==
  ASSUME FiberInv, NEW s \in 1 .. Items, NEW b \in 0 .. Barriers, Fiber!Launch(s, b)
  PROVE  FiberInv'
<1>1. UNCHANGED <<cap, size, slot, prev, active>>
  BY Constants DEF Fiber!Launch, FiberInv
<1>2. SlotsAre(active)'
  BY <1>1 DEF FiberInv, SlotsAre
<1>3. /\ active = MAIN /\ n' = s /\ barriers' = b /\ running' = TRUE /\ launches' = launches + 1
      /\ passed' = [i \in 0 .. Items - 1 |-> 0] /\ launches \in 0 .. Launches - 1
  BY Constants DEF Fiber!Launch, FiberInv, Fiber!TypeOK
<1>4. Fiber!TypeOK'
  BY <1>1, <1>3, Constants DEF FiberInv, Fiber!TypeOK
<1> QED BY <1>1, <1>2, <1>3, <1>4, Constants DEF FiberInv, Round

(* Whom y resumes.                                                         *)
NextOf(y) == IF y = MAIN THEN 0 ELSE IF y = n - 1 THEN MAIN ELSE y + 1

LEMMA FiberResumes ==
  ASSUME FiberInv, Fiber!Resume(active)
  PROVE  active' = NextOf(active) /\ SlotsAre(active)'
<1> DEFINE h == NextOf(active)
           from == Fiber!Front(active)
           to == Fiber!Back(h)
<1>1. n \in 1 .. Items /\ (active = MAIN \/ active \in 0 .. n - 1)
  BY Constants DEF FiberInv, Fiber!TypeOK
<1>2. from = IF h = MAIN THEN TAIL ELSE Place(h)
  BY <1>1, Constants DEF FiberInv, Fiber!Front, NextOf, Place
<1>3. slot[from] = h
  BY <1>1, <1>2, Constants DEF FiberInv, SlotsAre, NextOf
<1>4. to = IF active = MAIN THEN TAIL ELSE Place(active)
  <2>1. cap = Items /\ \A i \in 0 .. Items - 1 : prev[i] \in {0, Items}
    BY DEF FiberInv, SlotsAre
  <2>2. CASE active = MAIN
    BY <2>2, Constants DEF Fiber!Back, NextOf
  <2>3. CASE active = n - 1
    BY <1>1, <2>1, <2>3, Constants DEF Fiber!Back, NextOf, Place
  <2>4. CASE active \in 0 .. n - 2
    BY <1>1, <2>1, <2>4, Constants DEF Fiber!Back, NextOf, Place
  <2> QED BY <1>1, <2>2, <2>3, <2>4, Constants
<1>5. /\ active' = h
      /\ slot' = [slot EXCEPT ![from] = EMPTY, ![to] = active]
      /\ prev' \in [0 .. Items - 1 -> {0, Items}]
  BY <1>1, <1>3, Constants DEF Fiber!Resume, FiberInv, SlotsAre, Fiber!TypeOK
<1>6. h = MAIN \/ h \in 0 .. n - 1
  BY <1>1, Constants DEF NextOf
<1>7. from \in Fiber!Slot /\ to \in Fiber!Slot /\ h # active
  BY <1>1, <1>2, <1>4, <1>6, Places, Constants DEF NextOf
<1> HIDE DEF h, from, to
<1>8. slot' \in [Fiber!Slot -> Fiber!Handle]
  BY <1>1, <1>5, <1>7, Constants DEF FiberInv, SlotsAre
<1>9. ASSUME NEW i \in 0 .. Items - 1
      PROVE  slot'[Place(i)] = IF h = i THEN EMPTY ELSE i
  BY <1>1, <1>2, <1>4, <1>5, <1>6, <1>7, Places, Constants DEF FiberInv, SlotsAre
<1>10. slot'[TAIL] = IF h = MAIN THEN EMPTY ELSE MAIN
  BY <1>1, <1>2, <1>4, <1>5, <1>6, <1>7, Places, Constants DEF FiberInv, SlotsAre
<1> QED BY <1>5, <1>8, <1>9, <1>10 DEF SlotsAre, h

LEMMA FiberResumeGroup ==
  ASSUME FiberInv, Fiber!ResumeGroup
  PROVE  FiberInv'
<1>1. active' = 0 /\ SlotsAre(active)'
  BY FiberResumes DEF Fiber!ResumeGroup, NextOf
<1>2. slot' \in [Fiber!Slot -> Fiber!Handle] /\ prev' \in [Fiber!Item -> 0 .. Items]
  BY <1>1, Constants DEF SlotsAre
<1>3. active = MAIN /\ running /\ UNCHANGED <<cap, size, n, running, barriers, passed, launches>>
  BY DEF Fiber!ResumeGroup
<1>4. Fiber!TypeOK'
  <2>1. active' \in Fiber!Handle \ {EMPTY}
    BY <1>1, Constants
  <2> QED BY <1>2, <1>3, <2>1 DEF FiberInv, Fiber!TypeOK
<1> QED BY <1>1, <1>3, <1>4, Constants DEF FiberInv, Fiber!TypeOK, Round

LEMMA FiberRunItem ==
  ASSUME FiberInv, NEW i \in Fiber!Item, Fiber!RunItem(i)
  PROVE  FiberInv'
<1>1. active = i /\ active' = NextOf(i) /\ SlotsAre(active)'
  BY FiberResumes DEF Fiber!RunItem
<1>2. /\ i \in 0 .. n - 1 /\ n \in 1 .. Items
      /\ passed \in [0 .. Items - 1 -> 0 .. Barriers + 1] /\ Round <= barriers
      /\ barriers \in 0 .. Barriers
      /\ passed[i] = Round /\ i # MAIN
  BY <1>1, Constants DEF FiberInv, Fiber!TypeOK, Round
<1>3. passed' = [passed EXCEPT ![i] = Round + 1] /\ UNCHANGED <<cap, size, n, barriers, launches>>
  BY <1>2 DEF Fiber!RunItem
<1>4. running' <=> (running /\ ~(i = 0 /\ Round = barriers))
  BY <1>2 DEF Fiber!RunItem, Fiber!Ends
<1>5. /\ passed' \in [0 .. Items - 1 -> 0 .. Barriers + 1]
      /\ Round' = IF i = n - 1 THEN Round + 1 ELSE Round
      /\ \A j \in 0 .. n - 1 : passed'[j] = IF j <= i THEN Round + 1 ELSE Round
  BY <1>1, <1>2, <1>3, Constants DEF FiberInv, Round
<1> HIDE DEF Round
<1>6. Fiber!TypeOK'
  <2>1. slot' \in [Fiber!Slot -> Fiber!Handle] /\ prev' \in [Fiber!Item -> 0 .. Items]
    BY <1>1, Constants DEF SlotsAre
  <2>2. running' \in BOOLEAN /\ active' \in Fiber!Handle \ {EMPTY}
    BY <1>1, <1>2, Constants DEF Fiber!RunItem, NextOf
  <2> QED BY <1>3, <1>5, <2>1, <2>2, Constants DEF FiberInv, Fiber!TypeOK
<1>7. \A j \in 0 .. n' - 1 : passed'[j] = IF active' # MAIN /\ j < active' THEN Round' + 1 ELSE Round'
  BY <1>1, <1>2, <1>3, <1>5, Constants DEF NextOf
<1>8. /\ launches' > 0
      /\ running' <=> IF active' = MAIN \/ active' = 0 THEN Round' <= barriers' ELSE Round' < barriers'
  BY <1>1, <1>2, <1>3, <1>4, <1>5, Constants DEF NextOf, FiberInv
<1>9. active' # MAIN => active' \in 0 .. n' - 1 /\ Round' <= barriers'
  BY <1>1, <1>2, <1>3, <1>5, Constants DEF NextOf
<1>10. Round' \in 0 .. barriers' + 1
  BY <1>2, <1>3, <1>5 DEF FiberInv
<1> QED BY <1>1, <1>3, <1>6, <1>7, <1>8, <1>9, <1>10 DEF FiberInv, Fiber!TypeOK

LEMMA FiberStep ==
  ASSUME FiberInv, [Fiber!Next]_fiber_vars
  PROVE  FiberInv'
<1>1. CASE Fiber!Next
  <2>1. CASE Fiber!Finished
    BY <2>1 DEF Fiber!Finished, Fiber!vars, FiberInv, Fiber!TypeOK, Round, SlotsAre
  <2> QED BY <1>1, <2>1, FiberLaunch, FiberResumeGroup, FiberRunItem DEF Fiber!Next
<1>2. CASE UNCHANGED fiber_vars
  BY <1>2 DEF fiber_vars, FiberInv, Fiber!TypeOK, Round, SlotsAre
<1> QED BY <1>1, <1>2

LEMMA FibersMeet ==
  ASSUME FiberInv
  PROVE  Fiber!BarrierHolds /\ Fiber!NextIsThere /\ Fiber!EachOnce /\ Fiber!GroupDone
<1>1. /\ n \in 1 .. Items /\ passed \in [0 .. Items - 1 -> 0 .. Barriers + 1]
      /\ barriers \in 0 .. Barriers /\ cap = Items /\ size = Items
      /\ active = MAIN \/ active \in 0 .. n - 1
      /\ Round \in 0 .. Barriers + 1
  BY Constants DEF FiberInv, Fiber!TypeOK, Round
<1>2. \A i \in 0 .. n - 1 : passed[i] = IF active # MAIN /\ i < active THEN Round + 1 ELSE Round
  BY DEF FiberInv
<1>3. Fiber!BarrierHolds
  <2>1. \A i \in 0 .. n - 1 : passed[i] \in {Round, Round + 1}
    BY <1>2
  <2> QED BY <1>1, <2>1 DEF Fiber!BarrierHolds
<1>4. Fiber!NextIsThere
  <2>1. \A i \in 0 .. Items - 1 : slot[Place(i)] = IF active = i THEN EMPTY ELSE i
    BY DEF FiberInv, SlotsAre
  <2>2. slot[TAIL] = IF active = MAIN THEN EMPTY ELSE MAIN
    BY DEF FiberInv, SlotsAre
  <2>3. CASE active = MAIN
    <3>1. slot[<<cap, 0>>] = 0
      BY <1>1, <2>1, <2>3, Constants DEF Place
    <3> QED BY <2>3, <3>1, Constants DEF Fiber!NextIsThere, Fiber!Front
  <2>4. CASE active = n - 1
    BY <1>1, <2>2, <2>4, Constants DEF Fiber!NextIsThere, Fiber!Front
  <2>5. CASE active \in 0 .. n - 2
    <3>1. slot[<<cap, active + 1>>] = active + 1
      BY <1>1, <2>1, <2>5, Constants DEF Place
    <3> QED BY <1>1, <2>5, <3>1, Constants DEF Fiber!NextIsThere, Fiber!Front
  <2> QED BY <1>1, <2>3, <2>4, <2>5
<1>5. Fiber!EachOnce
  <2>1. Fiber!InUse = {Place(i) : i \in 0 .. Items - 1} \union {TAIL}
    BY <1>1, Constants DEF Fiber!InUse, Place
  <2>2. SlotsAre(active)
    BY DEF FiberInv
  <2>3. ASSUME NEW h \in 0 .. Items - 1
        PROVE  /\ slot[TAIL] # h /\ \A i \in (0 .. Items - 1) \ {h} : slot[Place(i)] # h
               /\ slot[Place(h)] = h <=> h # active
    BY <2>2, <1>1, Constants, Places DEF SlotsAre
  <2>4. /\ slot[TAIL] = MAIN <=> MAIN # active
        /\ \A i \in 0 .. Items - 1 : slot[Place(i)] # MAIN
    BY <2>2, <1>1, Constants, Places DEF SlotsAre
  <2> HIDE DEF Fiber!InUse
  <2>5. ASSUME NEW h \in 0 .. Items - 1
        PROVE  \/ h = active /\ \A p \in Fiber!InUse : slot[p] # h
               \/ h # active /\ \E p \in Fiber!InUse : slot[p] = h /\ \A o \in Fiber!InUse \ {p} : slot[o] # h
    BY <2>1, <2>3, Places
  <2>6. \/ MAIN = active /\ \A p \in Fiber!InUse : slot[p] # MAIN
        \/ /\ MAIN # active
           /\ \E p \in Fiber!InUse : slot[p] = MAIN /\ \A o \in Fiber!InUse \ {p} : slot[o] # MAIN
    BY <2>1, <2>4, Places
  <2> QED BY <1>1, <2>5, <2>6 DEF Fiber!EachOnce
<1>6. Fiber!GroupDone
  <2> SUFFICES ASSUME active = MAIN, ~running, launches > 0
               PROVE  \A i \in 0 .. n - 1 : passed[i] = barriers + 1
    BY DEF Fiber!GroupDone, Fiber!Idle
  <2>1. ~(Round <= barriers) /\ Round <= barriers + 1
    BY DEF FiberInv
  <2>2. \A i \in 0 .. n - 1 : passed[i] = Round
    BY <1>2
  <2> QED BY <1>1, <2>1, <2>2
<1> QED BY <1>3, <1>4, <1>5, <1>6

FiberPart == part = "fiber" => FiberInv

(* fiber.cpp: no work item passes a barrier before all have come to it,    *)
(* whoever has the control finds a fiber to hand it to, no fiber is lost   *)
(* or in two places, and a group that is done has run all of each item:    *)
(* for any number of items, barriers and launches.                         *)
THEOREM ItemsMeet == Spec => []WorkItemsMeet
<1>1. Init => FiberPart
  BY FiberStarts DEF Init, Begins, FiberPart
<1>2. FiberPart /\ [Next]_vars => FiberPart'
  BY FiberStep DEF Next, Moves, FiberPart, vars
<1>3. FiberPart => WorkItemsMeet
  BY FibersMeet DEF FiberPart, WorkItemsMeet
<1> QED BY <1>1, <1>2, <1>3, PTL DEF Spec
-----------------------------------------------------------------------------
(* The loader of IRIS.                                                     *)

EndsOf(as) == CHOOSE ends \in [0 .. Len(as) -> 0 .. ARG_BUF_SIZE] : Omp!Fits(as, ends)

Given(w) == IF given[w] < MAX_N_ARGS THEN given[w] ELSE MAX_N_ARGS

(* Of worker w, which has the lock, all is in the storage that it gave.    *)
Building(w) ==
  LET as == job[w].args
  IN  /\ given[w] <= Len(as) /\ Len(args_o) = Given(w)
      /\ arg_next = EndsOf(as)[Len(args_o)]
      /\ \A i \in 1 .. Len(args_o) :
           /\ args_o[i] \in Nat /\ args_o[i] + as[i].size <= arg_next
           /\ \A c \in args_o[i] .. (args_o[i] + as[i].size - 1) : arg_data[c] = <<w, i>>

KernelOf(w) ==
  /\ g_kinfo.name = job[w].name
  /\ Omp!Has(job[w].name, "cpu-openmp") => g_kinfo.kind = "cpu-openmp"

OwnRun(w) ==
  /\ ran[w][1].name = job[w].name
  /\ Omp!Has(job[w].name, "cpu-openmp") => ran[w][1].kind = "cpu-openmp"
  /\ Len(job[w].args) <= MAX_N_ARGS =>
       ran[w][2] = [i \in DOMAIN job[w].args |-> {<<w, i>>}]

OmpTypes ==
  /\ pc_o \in [Actor -> {"idle", "locked", "args", "error", "done"}]
  /\ job \in [Actor -> [name : Kernel, args : Jobs]]
  /\ given \in [Actor -> Nat]
  /\ args_o \in Seq(Nat) /\ arg_next \in 0 .. ARG_BUF_SIZE
  /\ DOMAIN arg_data = 0 .. 2 * ARG_BUF_SIZE
  /\ DOMAIN ran = Actor

OmpInv ==
  /\ OmpTypes
  /\ \A c \in 0 .. 2 * ARG_BUF_SIZE : c >= ARG_BUF_SIZE => arg_data[c] = Omp!Nothing
  /\ \A w \in Actor :
       /\ pc_o[w] \in {"locked", "args"} <=> g_mutex = w
       /\ pc_o[w] \in {"idle", "locked"} => given[w] = 0
       /\ pc_o[w] = "args" => g_lock /\ KernelOf(w) /\ Building(w)
       /\ pc_o[w] = "done" => OwnRun(w)
       /\ pc_o[w] = "error" => ~\E k \in Omp!Kind : Omp!Has(job[w].name, k)

LEMMA OmpConstants ==
  /\ NoOne \notin Actor /\ MAX_N_ARGS \in Nat /\ ARG_BUF_SIZE \in Nat
  /\ Jobs \subseteq Seq(Omp!Arg)
BY OmpIsGiven DEF Omp!OmpAssumption

LEMMA AlignsUp ==
  ASSUME NEW place \in Nat, NEW arg \in Omp!Arg
  PROVE  /\ Omp!AlignedUp(place, Omp!Align(arg)) \in Nat
         /\ Omp!AlignedUp(place, Omp!Align(arg)) >= place
<1>1. ((place + 2 - 1) \div 2) * 2 \in Nat /\ ((place + 2 - 1) \div 2) * 2 >= place
  OBVIOUS
<1>2. ((place + 1 - 1) \div 1) * 1 = place
  OBVIOUS
<1> QED BY <1>1, <1>2 DEF Omp!AlignedUp, Omp!Align

LEMMA JobTypes ==
  ASSUME OmpTypes, NEW w \in Actor
  PROVE  /\ job[w].args \in Seq(Omp!Arg) /\ Len(job[w].args) \in Nat
         /\ \A i \in 1 .. Len(job[w].args) :
              job[w].args[i] \in Omp!Arg /\ job[w].args[i].size \in Nat \ {0}
         /\ EndsOf(job[w].args) \in [0 .. Len(job[w].args) -> 0 .. ARG_BUF_SIZE]
         /\ Omp!Fits(job[w].args, EndsOf(job[w].args))
<1>1. job[w].args \in Jobs
  BY DEF OmpTypes
<1>2. job[w].args \in Seq(Omp!Arg)
  BY <1>1, OmpConstants
<1>3. \A i \in 1 .. Len(job[w].args) : job[w].args[i] \in Omp!Arg
  BY <1>2
<1>4. \A a \in Omp!Arg : a.size \in Nat \ {0}
  BY DEF Omp!Arg
<1>5. \E ends \in [0 .. Len(job[w].args) -> 0 .. ARG_BUF_SIZE] : Omp!Fits(job[w].args, ends)
  BY <1>1, OmpIsGiven DEF Omp!JobsFit
<1>6. /\ EndsOf(job[w].args) \in [0 .. Len(job[w].args) -> 0 .. ARG_BUF_SIZE]
      /\ Omp!Fits(job[w].args, EndsOf(job[w].args))
  BY <1>5 DEF EndsOf
<1> QED BY <1>2, <1>3, <1>4, <1>6

LEMMA OmpStarts ==
  ASSUME Omp!Init
  PROVE  OmpInv
<1>1. OmpTypes
  BY OmpConstants DEF OmpTypes, Omp!Init, Omp!Cell
<1> QED BY <1>1, OmpConstants DEF OmpInv, Omp!Init, Omp!Cell

LEMMA OmpLock ==
  ASSUME OmpInv, NEW w \in Actor, Omp!Lock(w)
  PROVE  OmpInv'
<1>1. /\ pc_o[w] = "idle" /\ g_mutex = NoOne /\ g_mutex' = w
      /\ pc_o' = [pc_o EXCEPT ![w] = "locked"]
      /\ UNCHANGED <<registry, job, given, g_lock, g_kinfo, args_o, arg_next, arg_data, ran>>
  BY DEF Omp!Lock, Omp!g_vars
<1>2. OmpTypes'
  BY <1>1 DEF OmpInv, OmpTypes
<1>3. ASSUME NEW u \in Actor, u # w
      PROVE  pc_o'[u] = pc_o[u] /\ pc_o[u] \notin {"locked", "args"}
  BY <1>1, <1>3, OmpConstants DEF OmpInv, OmpTypes
<1>4. pc_o'[w] = "locked" /\ given'[w] = 0
  BY <1>1 DEF OmpInv, OmpTypes
<1>5. \A u \in Actor : OwnRun(u)' <=> OwnRun(u)
  BY <1>1 DEF OwnRun, Omp!Has
<1> QED BY <1>1, <1>2, <1>3, <1>4, <1>5 DEF OmpInv, Omp!Has

LEMMA OmpFindKernel ==
  ASSUME OmpInv, NEW w \in Actor, Omp!FindKernel(w)
  PROVE  OmpInv'
<1>1. pc_o[w] = "locked" /\ g_mutex = w /\ given[w] = 0 /\ UNCHANGED <<registry, job, given, arg_data, ran>>
  BY DEF Omp!FindKernel, OmpInv, Omp!g_vars
<1>2. \A u \in Actor : u # w => pc_o[u] \notin {"locked", "args"}
  BY <1>1 DEF OmpInv
<1>3. CASE Omp!Found(job[w].name) = {}
  <2>1. /\ g_mutex' = NoOne /\ pc_o' = [pc_o EXCEPT ![w] = "error"]
        /\ UNCHANGED <<g_lock, g_kinfo, args_o, arg_next>>
    BY <1>3 DEF Omp!FindKernel, Omp!g_vars
  <2>2. OmpTypes'
    BY <1>1, <2>1 DEF OmpInv, OmpTypes
  <2>3. \A u \in Actor : pc_o'[u] = IF u = w THEN "error" ELSE pc_o[u]
    BY <2>1 DEF OmpInv, OmpTypes
  <2>4. ~\E k \in Omp!Kind : Omp!Has(job[w].name, k)
    BY <1>3 DEF Omp!Found, Omp!Kind
  <2> QED BY <1>1, <1>2, <2>1, <2>2, <2>3, <2>4, OmpConstants DEF OmpInv, OwnRun, Omp!Has
<1>4. CASE Omp!Found(job[w].name) # {}
  <2>1. /\ g_mutex' = w /\ g_lock' /\ pc_o' = [pc_o EXCEPT ![w] = "args"]
        /\ args_o' = << >> /\ arg_next' = 0
        /\ \E k \in Omp!Found(job[w].name) : g_kinfo' = [name |-> job[w].name, kind |-> k]
    BY <1>4, OmpConstants DEF Omp!FindKernel, Omp!Keeps, Omp!Start
  <2>2. OmpTypes'
    BY <1>1, <2>1, OmpConstants DEF OmpInv, OmpTypes
  <2>3. \A u \in Actor : pc_o'[u] = IF u = w THEN "args" ELSE pc_o[u]
    BY <2>1 DEF OmpInv, OmpTypes
  <2>4. KernelOf(w)'
    BY <1>1, <2>1 DEF KernelOf, Omp!Found, Omp!Has
  <2>5. Building(w)'
    <3>1. EndsOf(job[w].args)[0] = 0 /\ Len(job[w].args) \in Nat
      BY JobTypes DEF OmpInv, Omp!Fits
    <3>2. Given(w)' = 0
      BY <1>1, OmpConstants DEF Given
    <3> QED BY <1>1, <2>1, <3>1, <3>2 DEF Building
  <2> QED BY <1>1, <1>2, <2>1, <2>2, <2>3, <2>4, <2>5, OmpConstants DEF OmpInv, OwnRun, Omp!Has
<1> QED BY <1>3, <1>4

LEMMA OmpSetArg ==
  ASSUME OmpInv, NEW w \in Actor, Omp!SetArg(w)
  PROVE  OmpInv'
<1> DEFINE as == job[w].args
           i == given[w] + 1
           ptr == Omp!AlignedUp(arg_next, Omp!Align(as[i]))
           k == Len(args_o)
<1>1. /\ pc_o[w] = "args" /\ given[w] < Len(as) /\ given' = [given EXCEPT ![w] = i]
      /\ UNCHANGED <<registry, pc_o, job, g_mutex, g_lock, g_kinfo, ran>>
  BY DEF Omp!SetArg
<1>2. \A u \in Actor : u # w => pc_o[u] \notin {"locked", "args"} /\ given'[u] = given[u]
  BY <1>1 DEF OmpInv, OmpTypes
<1>3. /\ given[w] \in Nat /\ k \in Nat /\ arg_next \in Nat /\ Building(w) /\ Len(as) \in Nat
      /\ given'[w] = i /\ given' \in [Actor -> Nat]
  BY <1>1, JobTypes DEF OmpInv, OmpTypes
<1>4. CASE k >= MAX_N_ARGS
  <2>1. UNCHANGED <<args_o, arg_next, arg_data>>
    BY <1>4 DEF Omp!SetArg
  <2>2. OmpTypes'
    BY <1>1, <1>3, <2>1 DEF OmpInv, OmpTypes
  <2>3. Given(w)' = Given(w)
    BY <1>1, <1>3, <1>4, OmpConstants DEF Given, Building
  <2>4. Building(w)'
    BY <1>1, <1>3, <2>1, <2>3 DEF Building
  <2> QED BY <1>1, <1>2, <2>1, <2>2, <2>4 DEF OmpInv, KernelOf, OwnRun, Omp!Has
<1>5. CASE k < MAX_N_ARGS
  <2>1. k = given[w] /\ i \in 1 .. Len(as) /\ i <= MAX_N_ARGS /\ arg_next = EndsOf(as)[i - 1]
    BY <1>1, <1>3, <1>5, OmpConstants DEF Building, Given
  <2>2. as[i] \in Omp!Arg /\ as[i].size \in Nat \ {0}
    BY <2>1, JobTypes DEF OmpInv
  <2>3. ptr \in Nat /\ ptr >= arg_next
    BY <1>3, <2>2, AlignsUp
  <2>4. ptr + as[i].size = EndsOf(as)[i] /\ EndsOf(as)[i] \in 0 .. ARG_BUF_SIZE
    <3> DEFINE e == EndsOf(as)
    <3>1. Omp!Fits(as, e) /\ e \in [0 .. Len(as) -> 0 .. ARG_BUF_SIZE]
      BY JobTypes DEF OmpInv
    <3>2. e[i] \in 0 .. ARG_BUF_SIZE
      BY <2>1, <3>1
    <3>3. e[i] = Omp!AlignedUp(e[i - 1], Omp!Align(as[i])) + as[i].size
      BY <2>1, <3>1 DEF Omp!Fits
    <3> QED BY <2>1, <3>2, <3>3
  <2>5. ~(k >= MAX_N_ARGS)
    BY <1>3, <1>5, OmpConstants
  <2>6. /\ args_o' = Append(args_o, ptr) /\ arg_next' = ptr + as[i].size
        /\ arg_data' = [c \in 0 .. 2 * ARG_BUF_SIZE |->
             IF c \in ptr .. (ptr + as[i].size - 1) THEN <<w, i>> ELSE arg_data[c]]
    BY <2>5 DEF Omp!SetArg, Omp!Cell
  <2> HIDE DEF ptr
  <2>7. /\ args_o' \in Seq(Nat) /\ Len(args_o') = k + 1 /\ args_o'[k + 1] = ptr
        /\ \A j \in 1 .. k : args_o'[j] = args_o[j] /\ args_o[j] \in Nat
    BY <2>3, <2>6 DEF OmpInv, OmpTypes
  <2>8. arg_next' = EndsOf(as)[i] /\ arg_next' \in 0 .. ARG_BUF_SIZE /\ arg_next' >= arg_next
    <3>1. arg_next' = EndsOf(as)[i] /\ EndsOf(as)[i] \in 0 .. ARG_BUF_SIZE
      BY <2>4, <2>6
    <3>2. \A x, y, z \in Nat : y >= x => y + z >= x
      OBVIOUS
    <3>3. arg_next' >= arg_next
      BY <1>3, <2>2, <2>3, <2>6, <3>2
    <3> QED BY <3>1, <3>3
  <2>9. OmpTypes'
    BY <1>1, <1>3, <2>6, <2>7, <2>8 DEF OmpInv, OmpTypes
  <2> DEFINE sz == as[i].size
  <2>12. sz \in Nat \ {0} /\ ptr \in Nat /\ ptr + sz \in 0 .. ARG_BUF_SIZE /\ arg_next' = ptr + sz
    BY <2>2, <2>3, <2>6, <2>8
  <2>13. \A c \in 0 .. 2 * ARG_BUF_SIZE :
           arg_data'[c] = IF ptr <= c /\ c < ptr + sz THEN <<w, i>> ELSE arg_data[c]
    <3> HIDE DEF sz
    <3>1. \A c \in 0 .. 2 * ARG_BUF_SIZE : c \in ptr .. (ptr + sz - 1) <=> ptr <= c /\ c < ptr + sz
      BY <2>12, OmpConstants
    <3> QED BY <2>6, <3>1 DEF sz
  <2> HIDE DEF sz
  <2>10. \A c \in 0 .. 2 * ARG_BUF_SIZE : c >= ARG_BUF_SIZE => arg_data'[c] = arg_data[c]
    BY <2>12, <2>13, OmpConstants
  <2>11. Building(w)'
    <3>1. Given(w)' = k + 1 /\ job'[w].args = as
      BY <1>1, <1>3, <1>5, <2>1, OmpConstants DEF Given
    <3>2. ASSUME NEW j \in 1 .. k
          PROVE  /\ args_o'[j] + as[j].size <= arg_next'
                 /\ \A c \in args_o'[j] .. (args_o'[j] + as[j].size - 1) : arg_data'[c] = <<w, j>>
      <4>1. /\ args_o[j] \in Nat /\ args_o[j] + as[j].size <= arg_next
            /\ \A c \in args_o[j] .. (args_o[j] + as[j].size - 1) : arg_data[c] = <<w, j>>
        BY <1>3, <3>2 DEF Building
      <4>2. as[j].size \in Nat
        <5>1. \A l \in 1 .. Len(job[w].args) : job[w].args[l].size \in Nat
          BY JobTypes DEF OmpInv
        <5>2. j \in 1 .. Len(as)
          BY <1>3, <2>1
        <5> QED BY <5>1, <5>2
      <4>3. arg_next \in 0 .. ARG_BUF_SIZE
        BY DEF OmpInv, OmpTypes
      <4>4. args_o'[j] = args_o[j] /\ args_o[j] + as[j].size <= arg_next'
        <5>1. args_o'[j] = args_o[j]
          BY <2>7, <3>2
        <5>2. arg_next' >= arg_next /\ arg_next' \in Nat
          BY <2>8, OmpConstants
        <5> QED BY <4>1, <4>2, <4>3, <5>1, <5>2
      <4>5. ASSUME NEW c \in args_o[j] .. (args_o[j] + as[j].size - 1)
            PROVE  c \in 0 .. 2 * ARG_BUF_SIZE /\ c < ptr
        <5>1. c \in Nat /\ c < args_o[j] + as[j].size
          BY <4>1, <4>2
        <5>2. c < arg_next
          BY <4>1, <4>2, <4>3, <5>1
        <5> QED BY <2>3, <4>3, <5>1, <5>2, OmpConstants
      <4>6. ASSUME NEW c \in args_o[j] .. (args_o[j] + as[j].size - 1)
            PROVE  arg_data'[c] = <<w, j>>
        <5>1. ~(ptr <= c) /\ c \in 0 .. 2 * ARG_BUF_SIZE
          BY <2>12, <4>5
        <5> QED BY <2>13, <4>1, <5>1
      <4> QED BY <4>4, <4>6
    <3>3. /\ args_o'[i] + as[i].size <= arg_next'
          /\ \A c \in args_o'[i] .. (args_o'[i] + as[i].size - 1) : arg_data'[c] = <<w, i>>
      <4>1. args_o'[i] = ptr /\ arg_next' = ptr + sz
        BY <2>1, <2>7, <2>12
      <4>2. ASSUME NEW c \in ptr .. (ptr + sz - 1)
            PROVE  arg_data'[c] = <<w, i>>
        <5>1. c \in 0 .. 2 * ARG_BUF_SIZE /\ ptr <= c /\ c < ptr + sz
          BY <2>12, OmpConstants
        <5> QED BY <2>13, <5>1
      <4>3. ptr + sz <= arg_next'
        BY <2>12, <4>1
      <4> QED BY <4>1, <4>2, <4>3 DEF sz
    <3>4. \A j \in 1 .. k + 1 : j \in 1 .. k \/ j = i
      BY <1>3, <2>1
    <3>5. given'[w] <= Len(as) /\ Len(args_o') = k + 1 /\ k + 1 = i
      BY <1>1, <1>3, <2>1, <2>7
    <3>6. arg_next' = EndsOf(as)[Len(args_o')]
      BY <2>8, <3>5
    <3>7. \A j \in 1 .. Len(args_o') :
            /\ args_o'[j] \in Nat /\ args_o'[j] + as[j].size <= arg_next'
            /\ \A c \in args_o'[j] .. (args_o'[j] + as[j].size - 1) : arg_data'[c] = <<w, j>>
      <4>1. args_o'[i] \in Nat /\ \A j \in 1 .. k : args_o'[j] \in Nat
        BY <2>3, <2>7, <3>5
      <4> HIDE DEF as, k, i
      <4> QED BY <3>2, <3>3, <3>4, <3>5, <4>1
    <3> QED BY <3>1, <3>5, <3>6, <3>7 DEF Building
  <2> QED BY <1>1, <1>2, <2>9, <2>10, <2>11 DEF OmpInv, KernelOf, OwnRun, Omp!Has
<1> QED BY <1>3, <1>4, <1>5, OmpConstants

LEMMA OmpLaunch ==
  ASSUME OmpInv, NEW w \in Actor, Omp!Launch(w)
  PROVE  OmpInv'
<1> DEFINE as == job[w].args
<1>1. /\ pc_o[w] = "args" /\ given[w] = Len(as) /\ g_lock /\ g_mutex = w
      /\ KernelOf(w) /\ Building(w)
      /\ g_mutex' = NoOne /\ pc_o' = [pc_o EXCEPT ![w] = "done"]
      /\ UNCHANGED <<registry, job, given, g_kinfo, args_o, arg_next, arg_data>>
  BY DEF Omp!Launch, Omp!Released, OmpInv
<1>2. /\ DOMAIN ran' = Actor /\ \A u \in Actor : u # w => ran'[u] = ran[u]
      /\ ran'[w] = <<g_kinfo, [i \in DOMAIN args_o |->
           {arg_data[c] : c \in args_o[i] .. (args_o[i] + as[i].size - 1)}]>>
  BY DEF Omp!Launch, OmpInv, OmpTypes
<1>3. OmpTypes'
  BY <1>1, <1>2 DEF OmpInv, OmpTypes
<1>4. OwnRun(w)'
  <2>1. ran'[w][1] = g_kinfo
    BY <1>2
  <2>2. ASSUME Len(as) <= MAX_N_ARGS
        PROVE  ran'[w][2] = [i \in DOMAIN as |-> {<<w, i>>}]
    <3>1. Len(as) \in Nat /\ DOMAIN as = 1 .. Len(as)
      BY JobTypes DEF OmpInv
    <3>2. DOMAIN args_o = 1 .. Len(as) /\ Len(args_o) = Len(as)
      BY <1>1, <2>2, <3>1, OmpConstants DEF Building, Given, OmpInv, OmpTypes
    <3>3. ASSUME NEW i \in 1 .. Len(as)
          PROVE  {arg_data[c] : c \in args_o[i] .. (args_o[i] + as[i].size - 1)} = {<<w, i>>}
      <4>1. as[i].size \in Nat \ {0}
        BY JobTypes DEF OmpInv
      <4>2. /\ args_o[i] \in Nat
            /\ \A c \in args_o[i] .. (args_o[i] + as[i].size - 1) : arg_data[c] = <<w, i>>
        BY <1>1, <3>2 DEF Building
      <4>3. args_o[i] \in args_o[i] .. (args_o[i] + as[i].size - 1)
        BY <4>1, <4>2
      <4> QED BY <4>2, <4>3
    <3> QED BY <1>2, <3>1, <3>2, <3>3
  <2> QED BY <1>1, <2>1, <2>2 DEF OwnRun, KernelOf, Omp!Has
<1>5. \A u \in Actor : u # w => pc_o[u] \notin {"locked", "args"} /\ pc_o'[u] = pc_o[u]
  BY <1>1 DEF OmpInv, OmpTypes
<1>6. pc_o'[w] = "done"
  BY <1>1 DEF OmpInv, OmpTypes
<1>7. \A u \in Actor : u # w => (OwnRun(u)' <=> OwnRun(u))
  BY <1>1, <1>2 DEF OwnRun, Omp!Has
<1> QED BY <1>1, <1>3, <1>4, <1>5, <1>6, <1>7, OmpConstants DEF OmpInv, Omp!Has

LEMMA OmpStep ==
  ASSUME OmpInv, [Omp!Next]_omp_vars
  PROVE  OmpInv'
<1>1. CASE Omp!Finished \/ UNCHANGED omp_vars
  <2>1. /\ UNCHANGED <<registry, pc_o, job, given, g_mutex, g_lock>>
        /\ UNCHANGED <<g_kinfo, args_o, arg_next, arg_data, ran>>
    BY <1>1 DEF Omp!Finished, Omp!vars, omp_vars
  <2>2. OmpTypes'
    BY <2>1 DEF OmpInv, OmpTypes
  <2>3. \A w \in Actor : (KernelOf(w)' <=> KernelOf(w)) /\ (OwnRun(w)' <=> OwnRun(w))
    BY <2>1 DEF KernelOf, OwnRun, Omp!Has
  <2>4. \A w \in Actor : Building(w) => Building(w)'
    BY <2>1 DEF Building, Given
  <2> QED BY <2>1, <2>2, <2>3, <2>4 DEF OmpInv, Omp!Has
<1>2. CASE \E w \in Actor : Omp!Call(w)
  BY <1>2, OmpLock, OmpFindKernel, OmpSetArg, OmpLaunch DEF Omp!Call
<1> QED BY <1>1, <1>2 DEF Omp!Next

LEMMA OmpIsRight ==
  ASSUME OmpInv
  PROVE  Omp!RunsOwn /\ Omp!ErrorsAreDue /\ Omp!ArgsFit
<1>1. Omp!RunsOwn
  BY DEF Omp!RunsOwn, OmpInv, OwnRun
<1>2. Omp!ErrorsAreDue
  BY DEF Omp!ErrorsAreDue, OmpInv
<1>3. Omp!ArgsFit
  BY DEF Omp!ArgsFit, OmpInv, Omp!Cell
<1> QED BY <1>1, <1>2, <1>3

OmpPart == part = "omp" => OmpInv

(* openmp.cpp: however the workers' calls interleave, each runs its own    *)
(* kernel, the OpenMP version if there is one, with its own arguments; an  *)
(* error is given only for a kernel that is not there; and what fits into  *)
(* the storage stays inside.  For any number of workers and any jobs.      *)
THEOREM WorkersRunOwn == Spec => []RunsOwn
<1>1. Init => OmpPart
  BY OmpStarts DEF Init, Begins, OmpPart
<1>2. OmpPart /\ [Next]_vars => OmpPart'
  BY OmpStep DEF Next, Moves, OmpPart, vars
<1>3. OmpPart => RunsOwn
  BY OmpIsRight DEF OmpPart, RunsOwn
<1> QED BY <1>1, <1>2, <1>3, PTL DEF Spec
-----------------------------------------------------------------------------
(* The choice of the back end.                                             *)
LEMMA SubsystemConstants ==
  /\ Managers \in Nat /\ Remakes!Manager = 1 .. Managers /\ Makes!Manager = {1}
  /\ Makes!Driver = {"iris", "cuda", "hip"} /\ Remakes!Driver = {"iris", "cuda", "hip"}
  /\ Makes!Backend = {"iris", "cuda", "hip", "cpu"} /\ Remakes!Backend = {"iris", "cuda", "hip", "cpu"}
BY BackEndIsGiven DEF Remakes!SubsystemAssumption, Remakes!Manager, Makes!Manager, Makes!Driver,
  Remakes!Driver, Makes!Backend, Remakes!Backend

LEMMA Least ==
  ASSUME NEW S \in SUBSET Nat, S # {}
  PROVE  \E i \in S : \A j \in S : i <= j
<1>1. PICK i \in S : \A j \in S : ~(<<j, i>> \in OpToRel(<, Nat))
  BY NatLessThanWellFounded, WFMin
<1>2. \A j \in S : ~(j < i)
  BY <1>1 DEF OpToRel
<1> QED BY <1>2

(* A thread that tries driver k, and later the ones after it.              *)
Untried(k) ==
  CASE k = "iris" -> {"iris", "cuda", "hip"} [] k = "cuda" -> {"cuda", "hip"}
    [] k = "hip" -> {"hip"} [] OTHER -> {}

Making(t) == pc_s[t].at \in {"init", "construct"}

(* There is one manager: before it is made, the thread in get_depmgr tries *)
(* one closed driver after the other; once it is made, nobody gets there.  *)
MakesInv ==
  /\ Makes!TypeOK /\ ~crashed
  /\ \A t \in Actor : pc_s[t].at # "failed"
  /\ \A t, u \in lock_s : t = u
  /\ \A t \in Actor : Making(t) => t \in lock_s /\ backend[1] = "none"
  /\ \A t \in Actor : holds[t] # 0 \/ pc_s[t].at \in {"wait", "close"} => backend[1] # "none"
  /\ backend[1] = "none" /\ (\A t \in Actor : pc_s[t].at \notin {"init", "construct", "exit"}) =>
       \A k \in Makes!Driver : handle[k] = "closed"
  /\ \A t \in Actor : pc_s[t].at = "init" =>
       LET k == pc_s[t].of
       IN  /\ k \in Makes!Driver => handle[k] = "closed"
           /\ env = "none" => \A d \in Untried(k) : handle[d] = "closed"
  /\ \A t \in Actor : pc_s[t].at = "construct" =>
       (pc_s[t].of \in Makes!Driver => handle[pc_s[t].of] = "open")

LEMMA MakesStarts ==
  ASSUME Makes!Init
  PROVE  MakesInv
<1> USE SubsystemConstants
<1>1. \A t \in Actor : pc_s[t].at = "run" /\ pc_s[t] = [at |-> "run", of |-> "none"] /\ holds[t] = 0
  BY DEF Makes!Init
<1>2. \A k \in Makes!Driver : handle[k] = "closed"
  BY DEF Makes!Init
<1>3. Makes!TypeOK
  BY <1>1 DEF Makes!Init, Makes!TypeOK, Makes!Place
<1> QED BY <1>1, <1>2, <1>3 DEF MakesInv, Makes!Init, Making

(* A step that leaves alone what the search for a back end is about.       *)
LEMMA MakesRests ==
  ASSUME MakesInv, Makes!TypeOK', backend[1] # "none", ~crashed', NEW u \in Actor,
         \/ pc_s' = pc_s
         \/ \E p \in {"run", "wait", "close"}, k \in Makes!Backend \union {"none"} : Makes!Goes(u, p, k),
         UNCHANGED <<lock_s, backend>>
  PROVE  MakesInv'
<1>1. \A t \in Actor : pc_s'[t] = pc_s[t] \/ pc_s'[t].at \in {"run", "wait", "close"}
  BY DEF Makes!Goes, MakesInv, Makes!TypeOK
<1>2. \A t \in Actor : pc_s'[t].at \notin {"init", "construct", "failed"}
  BY <1>1 DEF MakesInv, Making
<1> QED BY <1>2 DEF MakesInv, Making

LEMMA MakesGet ==
  ASSUME MakesInv, NEW t \in Actor, Makes!Get(t), ~Makes!Exited
  PROVE  MakesInv'
<1> USE SubsystemConstants
<1>1. /\ pc_s[t] = [at |-> "run", of |-> "none"] /\ holds[t] = 0 /\ lock_s = {}
      /\ UNCHANGED <<env, lib, handle, closing, backend, tasks, pool, crashed>>
  BY DEF Makes!Get, Makes!Running, Makes!At, Makes!MayEnter
<1>2. CASE Makes!Alive # {}
  <2>1. PICK m \in Makes!Alive : holds' = [holds EXCEPT ![t] = m] /\ UNCHANGED <<lock_s, pc_s>>
    BY <1>2 DEF Makes!Get, Makes!MayShare
  <2>2. m = 1 /\ backend[1] # "none"
    BY <2>1 DEF Makes!Alive, MakesInv, Makes!TypeOK
  <2>3. Makes!TypeOK'
    BY <1>1, <2>1, <2>2 DEF MakesInv, Makes!TypeOK
  <2> QED BY <1>1, <2>1, <2>2, <2>3, MakesRests DEF MakesInv
<1>3. CASE Makes!Alive = {}
  <2> DEFINE k == IF env = "none" THEN "iris" ELSE env
  <2>1. /\ lock_s' = lock_s \union {t} /\ pc_s' = [pc_s EXCEPT ![t] = [at |-> "init", of |-> k]]
        /\ UNCHANGED holds /\ Makes!Made # Makes!Manager
    BY <1>3 DEF Makes!Get, Makes!MayShare, Makes!Goes
  <2>2. backend[1] = "none"
    BY <2>1 DEF Makes!Made
  <2>3. k \in Makes!Backend
    BY DEF MakesInv, Makes!TypeOK
  <2>4. \A u \in Actor : pc_s[u].at \notin {"init", "construct", "exit"}
    BY <1>1 DEF MakesInv, Making, Makes!Exited
  <2>5. \A d \in Makes!Driver : handle[d] = "closed"
    BY <2>2, <2>4 DEF MakesInv
  <2> HIDE DEF k
  <2>6. Makes!TypeOK'
    BY <1>1, <2>1, <2>3 DEF MakesInv, Makes!TypeOK, Makes!Place
  <2>7. \A u \in Actor : pc_s'[u] = IF u = t THEN [at |-> "init", of |-> k] ELSE pc_s[u]
    BY <2>1 DEF MakesInv, Makes!TypeOK
  <2>8. Untried(k) \subseteq Makes!Driver
    BY DEF Untried
  <2>9. lock_s' = {t}
    BY <1>1, <2>1
  <2> QED BY <1>1, <2>1, <2>2, <2>4, <2>5, <2>6, <2>7, <2>8, <2>9 DEF MakesInv, Making
<1> QED BY <1>2, <1>3

LEMMA MakesTryInit ==
  ASSUME MakesInv, NEW t \in Actor, Makes!TryInit(t)
  PROVE  MakesInv'
<1> USE SubsystemConstants
<1>1. PICK k \in Makes!Driver :
        /\ pc_s[t] = [at |-> "init", of |-> k]
        /\ IF Makes!Reopens(k)
             THEN \E h \in Makes!Opened(k) : handle' = [handle EXCEPT ![k] = h] /\ Makes!NextTry(t, h, k)
             ELSE Makes!Goes(t, "construct", k) /\ UNCHANGED handle
  BY DEF Makes!TryInit, Makes!At
<1>2. handle[k] = "closed" /\ backend[1] = "none" /\ t \in lock_s
  BY <1>1 DEF MakesInv, Making
<1>3. PICK h \in Makes!Opened(k) : handle' = [handle EXCEPT ![k] = h] /\ Makes!NextTry(t, h, k)
  BY <1>1, <1>2 DEF Makes!Reopens
<1>4. h \in {"closed", "open", "bad"}
  BY <1>3 DEF Makes!Opened, MakesInv, Makes!TypeOK
<1>5. UNCHANGED <<env, lib, lock_s, holds, closing, backend, tasks, pool, crashed>>
  BY DEF Makes!TryInit
<1>6. /\ handle' \in [Makes!Driver -> {"closed", "open", "bad"}]
      /\ \A d \in Makes!Driver : handle'[d] = IF d = k THEN h ELSE handle[d]
  BY <1>3, <1>4 DEF MakesInv, Makes!TypeOK
<1>7. PICK p \in {"construct", "init", "exit"}, of \in Makes!Backend :
        /\ pc_s' = [pc_s EXCEPT ![t] = [at |-> p, of |-> of]]
        /\ p = "construct" => h = "open" /\ of = k
        /\ p = "init" => env = "none" /\ of = Makes!After(k)
  <2>1. Makes!After(k) \in Makes!Backend
    BY DEF Makes!After
  <2>2. CASE h = "open"
    BY <1>3, <2>2 DEF Makes!NextTry, Makes!Goes
  <2>3. CASE h # "open" /\ env = "none"
    BY <1>3, <2>1, <2>3 DEF Makes!NextTry, Makes!Goes
  <2>4. CASE h # "open" /\ env # "none"
    BY <1>3, <2>4 DEF Makes!NextTry, Makes!Goes
  <2> QED BY <2>2, <2>3, <2>4
<1>8. \A u \in Actor : pc_s'[u] = IF u = t THEN [at |-> p, of |-> of] ELSE pc_s[u]
  BY <1>7 DEF MakesInv, Makes!TypeOK
<1>9. \A u \in Actor \ {t} : pc_s'[u].at \notin {"init", "construct"}
  BY <1>2, <1>8 DEF MakesInv, Making
<1>10. Makes!TypeOK'
  BY <1>5, <1>6, <1>7 DEF MakesInv, Makes!TypeOK, Makes!Place
<1>11. p = "init" => /\ of \in Makes!Driver => handle'[of] = "closed"
                     /\ \A d \in Untried(of) : handle'[d] = "closed"
  <2> SUFFICES ASSUME p = "init"
               PROVE  /\ of \in Makes!Driver => handle'[of] = "closed"
                      /\ \A d \in Untried(of) : handle'[d] = "closed"
    OBVIOUS
  <2>1. \A d \in Untried(k) : handle[d] = "closed"
    BY <1>1, <1>7 DEF MakesInv
  <2>2. of = IF k = "iris" THEN "cuda" ELSE IF k = "cuda" THEN "hip" ELSE "cpu"
    BY <1>7 DEF Makes!After
  <2>3. of \in Makes!Driver => of \in Untried(of)
    BY DEF Untried
  <2>4. Untried(of) \subseteq Untried(k) \ {k} /\ Untried(of) \subseteq Makes!Driver
    BY <2>2 DEF Untried
  <2> QED BY <1>6, <2>1, <2>3, <2>4
<1>12. p = "construct" => handle'[of] = "open"
  BY <1>6, <1>7
<1> QED BY <1>2, <1>5, <1>8, <1>9, <1>10, <1>11, <1>12 DEF MakesInv, Making

LEMMA MakesConstruct ==
  ASSUME MakesInv, NEW t \in Actor, NEW k \in Makes!Backend, Makes!Construct(t, k), Making(t),
         lock_s' = lock_s \ {t}, UNCHANGED <<env, lib, handle, closing, tasks>>
  PROVE  MakesInv'
<1> USE SubsystemConstants
<1>1. Makes!Manager \ Makes!Made = {1} /\ t \in lock_s
  BY DEF MakesInv, Making, Makes!Made
<1>2. (CHOOSE i \in Makes!Manager \ Makes!Made : \A j \in Makes!Manager \ Makes!Made : i <= j) = 1
  BY <1>1
<1>3. /\ backend' = [backend EXCEPT ![1] = k] /\ pool' \in {1, pool}
      /\ holds' = [holds EXCEPT ![t] = 1] /\ pc_s' = [pc_s EXCEPT ![t] = [at |-> "run", of |-> "none"]]
      /\ UNCHANGED crashed
  BY <1>2 DEF Makes!Construct, Makes!Goes
<1>4. Makes!TypeOK'
  BY <1>3 DEF MakesInv, Makes!TypeOK, Makes!Place
<1>5. backend'[1] # "none"
  BY <1>3 DEF MakesInv, Makes!TypeOK
<1>6. \A u \in Actor : pc_s'[u] = IF u = t THEN [at |-> "run", of |-> "none"] ELSE pc_s[u]
  BY <1>3 DEF MakesInv, Makes!TypeOK
<1>7. \A u \in Actor : ~Making(u)'
  BY <1>1, <1>6 DEF MakesInv, Making
<1> QED BY <1>3, <1>4, <1>5, <1>6, <1>7 DEF MakesInv, Making

LEMMA MakesStep ==
  ASSUME MakesInv, [Makes!Next]_sub_vars
  PROVE  MakesInv'
<1> USE SubsystemConstants
<1> SUFFICES ASSUME Makes!Next PROVE MakesInv'
  <2>1. ASSUME UNCHANGED <<env, lib, handle, lock_s, pc_s, holds, closing, backend, tasks, pool, crashed>>
        PROVE  MakesInv'
    <3>1. Makes!TypeOK'
      BY <2>1 DEF MakesInv, Makes!TypeOK
    <3> QED BY <2>1, <3>1 DEF MakesInv, Making
  <2> QED BY <2>1 DEF sub_vars
<1>1. ASSUME ~Makes!Exited, NEW t \in Actor, Makes!Step(t)
      PROVE  MakesInv'
  <2>1. CASE Makes!Get(t)
    BY <1>1, <2>1, MakesGet
  <2>2. CASE Makes!TryInit(t)
    BY <2>2, MakesTryInit
  <2>3. CASE Makes!MakeDriver(t)
    <3>1. PICK k \in Makes!Driver :
            /\ pc_s[t] = [at |-> "construct", of |-> k]
            /\ handle[k] # "bad" /\ ~Makes!Refuses(k) => Makes!Construct(t, k)
      BY <2>3 DEF Makes!MakeDriver, Makes!At
    <3>2. handle[k] = "open" /\ lib[k] # "nodevice"
      BY <3>1 DEF MakesInv, Makes!TypeOK
    <3> QED BY <2>3, <3>1, <3>2, MakesConstruct DEF Makes!MakeDriver, Makes!Refuses, Making
  <2>4. CASE Makes!MakeCpu(t)
    BY <2>4, MakesConstruct DEF Makes!MakeCpu, Makes!At, Making
  <2>5. CASE Makes!Submit(t)
    <3>1. holds[t] = 1 /\ tasks' = tasks \union {1}
      BY <2>5 DEF Makes!Submit, MakesInv, Makes!TypeOK
    <3>2. Makes!TypeOK'
      BY <2>5, <3>1 DEF Makes!Submit, MakesInv, Makes!TypeOK
    <3> QED BY <2>5, <3>1, <3>2, MakesRests DEF Makes!Submit, MakesInv
  <2>6. CASE Makes!Drop(t)
    <3>1. holds[t] = 1 /\ backend[1] # "none"
      BY <2>6 DEF Makes!Drop, MakesInv, Makes!TypeOK
    <3>2. pc_s' = pc_s \/ Makes!Goes(t, "wait", backend[1])
      BY <2>6, <3>1 DEF Makes!Drop
    <3>3. backend[1] \in Makes!Backend \union {"none"}
      BY DEF MakesInv, Makes!TypeOK
    <3>4. Makes!TypeOK'
      <4>1. pc_s' \in [Actor -> Makes!Place]
        BY <3>2, <3>3 DEF Makes!Goes, MakesInv, Makes!TypeOK, Makes!Place
      <4>2. closing' \in [Actor -> Makes!Manager \union {0}] /\ holds' \in [Actor -> Makes!Manager \union {0}]
        BY <2>6, <3>1 DEF Makes!Drop, MakesInv, Makes!TypeOK
      <4> QED BY <2>6, <4>1, <4>2 DEF Makes!Drop, MakesInv, Makes!TypeOK
    <3> QED BY <2>6, <3>1, <3>2, <3>3, <3>4, MakesRests DEF Makes!Drop, MakesInv
  <2>7. CASE Makes!ShutdownWait(t)
    <3>1. pc_s[t].at = "wait" /\ pc_s[t].of \in Makes!Backend \union {"none"} /\ backend[1] # "none"
      BY <2>7 DEF Makes!ShutdownWait, MakesInv, Makes!TypeOK, Makes!Place
    <3>2. Makes!TypeOK'
      BY <2>7, <3>1 DEF Makes!ShutdownWait, Makes!Goes, MakesInv, Makes!TypeOK, Makes!Place
    <3> QED BY <2>7, <3>1, <3>2, MakesRests DEF Makes!ShutdownWait, MakesInv
  <2>8. CASE Makes!ShutdownClose(t)
    <3>1. pc_s[t].at = "close" /\ backend[1] # "none"
      BY <2>8 DEF Makes!ShutdownClose, MakesInv
    <3>2. Makes!TypeOK'
      <4>1. handle' = handle \/ handle' = [handle EXCEPT ![pc_s[t].of] = "closed"]
        BY <2>8 DEF Makes!ShutdownClose, Makes!CloseDriver, Makes!Closed
      <4>2. handle' \in [Makes!Driver -> {"closed", "open", "bad"}]
        BY <4>1 DEF MakesInv, Makes!TypeOK
      <4> QED BY <2>8, <4>2 DEF Makes!ShutdownClose, Makes!Goes, MakesInv, Makes!TypeOK, Makes!Place
    <3> QED BY <2>8, <3>1, <3>2, MakesRests DEF Makes!ShutdownClose, MakesInv
  <2> QED BY <1>1, <2>1, <2>2, <2>3, <2>4, <2>5, <2>6, <2>7, <2>8 DEF Makes!Step
<1>2. ASSUME NEW m \in Makes!Manager, Makes!Finish(m)
      PROVE  MakesInv'
  BY <1>2 DEF Makes!Finish, MakesInv, Makes!TypeOK, Making
<1>3. CASE Makes!Finished
  <2>1. UNCHANGED <<env, lib, handle, lock_s, pc_s, holds, closing, backend, tasks, pool, crashed>>
    BY <1>3 DEF Makes!Finished, Makes!vars
  <2>2. Makes!TypeOK'
    BY <2>1 DEF MakesInv, Makes!TypeOK
  <2> QED BY <2>1, <2>2 DEF MakesInv, Making
<1> QED BY <1>1, <1>2, <1>3 DEF Makes!Next

LEMMA MakesIsRight ==
  ASSUME MakesInv
  PROVE  Makes!NoNullCall /\ Makes!AlwaysSome /\ Makes!OneManager
<1>1. Makes!OneManager
  BY SubsystemConstants DEF Makes!OneManager, Makes!Alive, MakesInv, Makes!TypeOK
<1> QED BY <1>1 DEF MakesInv, Makes!NoNullCall, Makes!AlwaysSome
-----------------------------------------------------------------------------
(* What a manager with back end k in place needs.                          *)
Stands(m) ==
  /\ m # 0 /\ backend[m] # "none"
  /\ backend[m] # "cpu" => handle[backend[m]] = "open"
  /\ Remakes!UsesPool(backend[m]) => pool = m

(* A thread that is alone has one manager, or shuts one down, or makes     *)
(* one.  Tasks of those that wait for them are of the first two.           *)
RemakesInv ==
  /\ Remakes!TypeOK /\ ~crashed
  /\ \A k \in Remakes!Driver : handle[k] # "bad"
  /\ pc_s[ONE].at = "construct" /\ pc_s[ONE].of \in Remakes!Driver => handle[pc_s[ONE].of] = "open"
  /\ holds[ONE] # 0 => pc_s[ONE].at = "run" /\ Stands(holds[ONE])
  /\ pc_s[ONE].at = "wait" => Stands(closing[ONE])
  /\ \A m \in tasks : backend[m] # "cuda" =>
       m = holds[ONE] \/ (m = closing[ONE] /\ pc_s[ONE].at = "wait")

LEMMA RemakesStarts ==
  ASSUME Remakes!Init
  PROVE  RemakesInv
<1> USE SubsystemConstants
<1>1. pc_s[ONE] = [at |-> "run", of |-> "none"] /\ holds[ONE] = 0
  BY DEF Remakes!Init
<1>2. \A k \in Remakes!Driver : handle[k] = "closed"
  BY DEF Remakes!Init
<1>3. Remakes!TypeOK
  BY DEF Remakes!Init, Remakes!TypeOK, Remakes!Place
<1> QED BY <1>1, <1>2, <1>3 DEF RemakesInv, Remakes!Init

LEMMA RemakesConstruct ==
  ASSUME RemakesInv, NEW k \in Remakes!Backend, Remakes!Construct(ONE, k),
         pc_s[ONE].at \in {"init", "construct"}, Remakes!Made # Remakes!Manager,
         k # "cpu" => handle[k] = "open",
         lock_s' = lock_s \ {ONE}, UNCHANGED <<env, lib, handle, closing, tasks>>
  PROVE  RemakesInv'
<1> USE SubsystemConstants
<1>1. \E m \in Remakes!Manager \ Remakes!Made :
        /\ backend' = [backend EXCEPT ![m] = k] /\ pool' = IF Remakes!UsesPool(k) THEN m ELSE pool
        /\ holds' = [holds EXCEPT ![ONE] = m] /\ pc_s' = [pc_s EXCEPT ![ONE] = [at |-> "run", of |-> "none"]]
        /\ UNCHANGED crashed
  <2> DEFINE S == Remakes!Manager \ Remakes!Made
  <2>1. S \in SUBSET Nat /\ S # {}
    BY DEF Remakes!Made
  <2> HIDE DEF S
  <2>2. (CHOOSE i \in S : \A j \in S : i <= j) \in S
    BY <2>1, Least
  <2> QED BY <2>2 DEF Remakes!Construct, Remakes!Goes, S
<1> PICK m \in Remakes!Manager \ Remakes!Made :
      /\ backend' = [backend EXCEPT ![m] = k] /\ pool' = IF Remakes!UsesPool(k) THEN m ELSE pool
      /\ holds' = [holds EXCEPT ![ONE] = m] /\ pc_s' = [pc_s EXCEPT ![ONE] = [at |-> "run", of |-> "none"]]
      /\ UNCHANGED crashed
  BY <1>1
<1>2. m \in Remakes!Manager /\ backend[m] = "none" /\ m # 0
  BY DEF Remakes!Made
<1>3. Remakes!TypeOK'
  BY <1>2 DEF RemakesInv, Remakes!TypeOK, Remakes!Place
<1>4. holds'[ONE] = m /\ pc_s'[ONE] = [at |-> "run", of |-> "none"] /\ backend'[m] = k
  BY <1>2 DEF RemakesInv, Remakes!TypeOK
<1>5. \A i \in tasks : backend[i] = "cuda" /\ backend'[i] = "cuda"
  <2>1. \A i \in tasks : backend[i] = "cuda"
    BY DEF RemakesInv, Remakes!TypeOK
  <2> QED BY <1>2, <2>1 DEF RemakesInv, Remakes!TypeOK
<1>6. Stands(m)'
  BY <1>2, <1>4 DEF Stands
<1>7. \A d \in Remakes!Driver : handle'[d] # "bad"
  BY DEF RemakesInv
<1> QED BY <1>3, <1>4, <1>5, <1>6, <1>7 DEF RemakesInv

LEMMA RemakesStep ==
  ASSUME RemakesInv, [Remakes!Next]_sub_vars
  PROVE  RemakesInv'
<1> USE SubsystemConstants
<1> SUFFICES ASSUME Remakes!Next PROVE RemakesInv'
  <2>1. ASSUME UNCHANGED <<env, lib, handle, lock_s, pc_s, holds, closing, backend, tasks, pool, crashed>>
        PROVE  RemakesInv'
    <3>1. Remakes!TypeOK'
      BY <2>1 DEF RemakesInv, Remakes!TypeOK
    <3> QED BY <2>1, <3>1 DEF RemakesInv, Stands
  <2> QED BY <2>1 DEF sub_vars
<1>1. CASE Remakes!Get(ONE)
  <2>1. pc_s[ONE] = [at |-> "run", of |-> "none"] /\ holds[ONE] = 0 /\ ~Remakes!MayShare(ONE)
    BY <1>1 DEF Remakes!Get, Remakes!Running, Remakes!At, Remakes!MayShare, Remakes!Alive
  <2>2. PICK k \in Remakes!Backend : pc_s' = [pc_s EXCEPT ![ONE] = [at |-> "init", of |-> k]]
    BY <1>1, <2>1 DEF Remakes!Get, Remakes!Goes, RemakesInv, Remakes!TypeOK
  <2>3. /\ UNCHANGED <<env, lib, handle, closing, backend, tasks, pool, crashed, holds>>
        /\ lock_s' = lock_s \union {ONE}
    BY <1>1, <2>1 DEF Remakes!Get
  <2>4. pc_s'[ONE] = [at |-> "init", of |-> k]
    BY <2>2 DEF RemakesInv, Remakes!TypeOK
  <2>5. Remakes!TypeOK'
    BY <2>2, <2>3 DEF RemakesInv, Remakes!TypeOK, Remakes!Place
  <2> QED BY <2>1, <2>3, <2>4, <2>5 DEF RemakesInv
<1>2. CASE Remakes!TryInit(ONE)
  <2>1. PICK k \in Remakes!Driver :
          /\ pc_s[ONE] = [at |-> "init", of |-> k]
          /\ IF Remakes!Reopens(k)
               THEN \E h \in Remakes!Opened(k) :
                      handle' = [handle EXCEPT ![k] = h] /\ Remakes!NextTry(ONE, h, k)
               ELSE Remakes!Goes(ONE, "construct", k) /\ UNCHANGED handle
    BY <1>2 DEF Remakes!TryInit, Remakes!At
  <2>2. Remakes!Opened(k) = {"open"}
    BY DEF RemakesInv, Remakes!TypeOK, Remakes!Opened
  <2>3. /\ pc_s' = [pc_s EXCEPT ![ONE] = [at |-> "construct", of |-> k]]
        /\ handle' \in [Remakes!Driver -> {"closed", "open", "bad"}]
        /\ handle'[k] = "open" /\ \A d \in Remakes!Driver : handle'[d] # "bad"
    BY <2>1, <2>2 DEF Remakes!NextTry, Remakes!Goes, Remakes!Reopens, RemakesInv, Remakes!TypeOK
  <2>4. UNCHANGED <<env, lib, lock_s, holds, closing, backend, tasks, pool, crashed>>
    BY <1>2 DEF Remakes!TryInit
  <2>5. pc_s'[ONE] = [at |-> "construct", of |-> k]
    BY <2>3 DEF RemakesInv, Remakes!TypeOK
  <2>6. Remakes!TypeOK'
    BY <2>3, <2>4 DEF RemakesInv, Remakes!TypeOK, Remakes!Place
  <2>7. holds[ONE] = 0
    BY <2>1 DEF RemakesInv
  <2> QED BY <2>1, <2>3, <2>4, <2>5, <2>6, <2>7 DEF RemakesInv
<1>3. CASE Remakes!MakeDriver(ONE)
  <2>1. PICK k \in Remakes!Driver :
          /\ pc_s[ONE] = [at |-> "construct", of |-> k]
          /\ handle[k] # "bad" /\ ~Remakes!Refuses(k) => Remakes!Construct(ONE, k)
    BY <1>3 DEF Remakes!MakeDriver, Remakes!At
  <2>2. handle[k] = "open" /\ lib[k] # "nodevice"
    BY <2>1 DEF RemakesInv, Remakes!TypeOK
  <2> QED BY <1>3, <2>1, <2>2, RemakesConstruct DEF Remakes!MakeDriver, Remakes!Refuses
<1>4. CASE Remakes!MakeCpu(ONE)
  BY <1>4, RemakesConstruct DEF Remakes!MakeCpu, Remakes!At
<1>5. CASE Remakes!Submit(ONE)
  <2>1. holds[ONE] # 0 /\ tasks' = tasks \union {holds[ONE]} /\ holds[ONE] \in Remakes!Manager
    BY <1>5 DEF Remakes!Submit, RemakesInv, Remakes!TypeOK
  <2>2. UNCHANGED <<env, lib, handle, lock_s, pc_s, holds, closing, backend, pool, crashed>>
    BY <1>5 DEF Remakes!Submit
  <2>3. Remakes!TypeOK'
    BY <2>1, <2>2 DEF RemakesInv, Remakes!TypeOK
  <2> QED BY <2>1, <2>2, <2>3 DEF RemakesInv, Stands
<1>6. CASE Remakes!Drop(ONE)
  <2> PICK m : m = holds[ONE]
    OBVIOUS
  <2>1. /\ m # 0 /\ Stands(m) /\ m \in Remakes!Manager
        /\ pc_s' = [pc_s EXCEPT ![ONE] = [at |-> "wait", of |-> backend[m]]]
        /\ closing' = [closing EXCEPT ![ONE] = m] /\ holds' = [holds EXCEPT ![ONE] = 0]
        /\ UNCHANGED <<env, lib, handle, lock_s, backend, tasks, pool, crashed>>
    BY <1>6 DEF Remakes!Drop, Remakes!Goes, RemakesInv, Remakes!TypeOK
  <2>2. pc_s'[ONE] = [at |-> "wait", of |-> backend[m]] /\ closing'[ONE] = m /\ holds'[ONE] = 0
    BY <2>1 DEF RemakesInv, Remakes!TypeOK
  <2>3. backend[m] \in Remakes!Backend \union {"none"}
    BY <2>1 DEF RemakesInv, Remakes!TypeOK
  <2>4. \A i \in tasks : backend[i] # "cuda" => i = m
    BY <1>6 DEF Remakes!Drop, Remakes!Running, Remakes!At, RemakesInv
  <2>5. Remakes!TypeOK'
    BY <2>1, <2>3 DEF RemakesInv, Remakes!TypeOK, Remakes!Place
  <2>6. Stands(m)'
    BY <2>1 DEF Stands
  <2> QED BY <2>1, <2>2, <2>4, <2>5, <2>6 DEF RemakesInv
<1>7. CASE Remakes!ShutdownWait(ONE)
  <2>1. /\ pc_s[ONE].at = "wait" /\ Stands(closing[ONE])
        /\ backend[closing[ONE]] = "cuda" \/ closing[ONE] \notin tasks
        /\ pc_s' = [pc_s EXCEPT ![ONE] = [at |-> "close", of |-> pc_s[ONE].of]]
        /\ UNCHANGED <<env, lib, handle, lock_s, holds, closing, backend, tasks, pool, crashed>>
    BY <1>7 DEF Remakes!ShutdownWait, Remakes!Goes, Remakes!MayClose, RemakesInv
  <2>2. pc_s'[ONE] = [at |-> "close", of |-> pc_s[ONE].of] /\ holds[ONE] = 0
    BY <2>1 DEF RemakesInv, Remakes!TypeOK
  <2>3. Remakes!TypeOK'
    BY <2>1 DEF RemakesInv, Remakes!TypeOK, Remakes!Place
  <2> QED BY <2>1, <2>2, <2>3 DEF RemakesInv
<1>8. CASE Remakes!ShutdownClose(ONE)
  <2>1. /\ pc_s[ONE].at = "close" /\ holds[ONE] = 0
        /\ pc_s' = [pc_s EXCEPT ![ONE] = [at |-> "run", of |-> "none"]]
        /\ closing' = [closing EXCEPT ![ONE] = 0] /\ pool' \in {0, pool}
        /\ handle' = handle \/ handle' = [handle EXCEPT ![pc_s[ONE].of] = "closed"]
        /\ UNCHANGED <<env, lib, lock_s, holds, backend, tasks, crashed>>
    BY <1>8 DEF Remakes!ShutdownClose, Remakes!Goes, Remakes!CloseDriver, Remakes!Closed, RemakesInv
  <2>2. pc_s'[ONE] = [at |-> "run", of |-> "none"] /\ holds'[ONE] = 0
    BY <2>1 DEF RemakesInv, Remakes!TypeOK
  <2>3. /\ handle' \in [Remakes!Driver -> {"closed", "open", "bad"}]
        /\ \A d \in Remakes!Driver : handle'[d] # "bad"
    BY <2>1 DEF RemakesInv, Remakes!TypeOK
  <2>4. Remakes!TypeOK'
    BY <2>1, <2>3 DEF RemakesInv, Remakes!TypeOK, Remakes!Place
  <2> QED BY <2>1, <2>2, <2>3, <2>4 DEF RemakesInv
<1>9. ASSUME NEW m \in Remakes!Manager, Remakes!Finish(m)
      PROVE  RemakesInv'
  <2>1. /\ tasks' = tasks \ {m}
        /\ UNCHANGED <<env, lib, handle, lock_s, pc_s, holds, closing, backend, pool, crashed>>
    BY <1>9 DEF Remakes!Finish
  <2>2. Remakes!TypeOK'
    BY <2>1 DEF RemakesInv, Remakes!TypeOK
  <2> QED BY <2>1, <2>2 DEF RemakesInv, Stands
<1>10. CASE Remakes!Finished
  <2>1. UNCHANGED <<env, lib, handle, lock_s, pc_s, holds, closing, backend, tasks, pool, crashed>>
    BY <1>10 DEF Remakes!Finished, Remakes!vars
  <2>2. Remakes!TypeOK'
    BY <2>1 DEF RemakesInv, Remakes!TypeOK
  <2> QED BY <2>1, <2>2 DEF RemakesInv, Stands
<1> QED BY <1>1, <1>2, <1>3, <1>4, <1>5, <1>6, <1>7, <1>8, <1>9, <1>10 DEF Remakes!Next, Remakes!Step

LEMMA RemakesIsRight ==
  ASSUME RemakesInv
  PROVE  Remakes!BackendStands /\ Remakes!TasksHaveDriver
<1> USE SubsystemConstants
<1>1. Remakes!BackendStands
  BY DEF Remakes!BackendStands, Remakes!Alive, RemakesInv, Stands
<1>2. ASSUME NEW m \in tasks, backend[m] # "cuda"
      PROVE  Stands(m)
  BY <1>2 DEF RemakesInv, Remakes!TypeOK
<1>3. \A m \in tasks : backend[m] # "cuda" => Stands(m)
  BY <1>2
<1>4. Remakes!TasksHaveDriver
  BY <1>3 DEF Remakes!TasksHaveDriver, Stands
<1> QED BY <1>1, <1>4

SubsystemParts == (part = "makes" => MakesInv) /\ (part = "remakes" => RemakesInv)

(* rt.hpp, rts.cpp: with one manager no function is called that was not    *)
(* found and without a setting there is some back end, for any number of   *)
(* threads and any libraries; a program of one thread, however many        *)
(* managers it makes one after the other, has the driver and the pool of a *)
(* live manager, and of tasks that run.                                    *)
THEOREM DriversStand == Spec => []BackendStands
<1>1. Init => SubsystemParts
  BY MakesStarts, RemakesStarts DEF Init, Begins, SubsystemParts
<1>2. SubsystemParts /\ [Next]_vars => SubsystemParts'
  BY MakesStep, RemakesStep DEF Next, Moves, SubsystemParts, vars
<1>3. SubsystemParts => BackendStands
  BY MakesIsRight, RemakesIsRight DEF SubsystemParts, BackendStands
<1> QED BY <1>1, <1>2, <1>3, PTL DEF Spec
-----------------------------------------------------------------------------
(* The pair of the i-th argument of a list, and the pairs as end_pre_binds *)
(* leaves them.                                                            *)
PairOf(list, i) ==
  IF list[i].kind = "accessor"
    THEN [idx |-> i, buff |-> list[i].buff, mode |-> Binds!Mode(list[i].mode)]
    ELSE [idx |-> i, buff |-> 0, mode |-> {}]

Uses(list, b) == {i \in 1 .. Len(list) : list[i].kind = "accessor" /\ list[i].buff = b}
Wanted(list, b) == Binds!to_dep(UNION {Binds!Mode(list[i].mode) : i \in Uses(list, b)})

InOrderOf(list, ps) ==
  /\ ps \in Seq([idx : Nat, buff : Nat, mode : SUBSET Binds!Bits]) /\ Len(ps) = Len(list)
  /\ \A k \in 1 .. Len(ps) : \E i \in 1 .. Len(list) : ps[k] = PairOf(list, i)
  /\ \A i \in 1 .. Len(list) : \E k \in 1 .. Len(ps) : ps[k] = PairOf(list, i)
  /\ \A k, l \in 1 .. Len(ps) : k < l => Binds!Before(ps[k], ps[l])

LEMMA ArgumentsAre ==
  /\ Buffers \subseteq Nat \ {0}
  /\ \A a \in Arguments :
       \/ a.kind = "accessor" /\ a.buff \in Buffers /\ a.mode \in Binds!Modes
       \/ a.kind = "value" /\ a.size \in Nat
       \/ a.kind = "local" /\ a.size \in Nat /\ a.align \in Binds!Alignments /\ a.array \in BOOLEAN
  /\ {Word, MaxAlign, ArrayAlign} \subseteq Binds!Alignments
BY BindsAreGiven DEF Binds!BindAssumption

LEMMA ModeType ==
  \A m \in Binds!Modes : Binds!Mode(m) \subseteq Binds!Bits
BY DEF Binds!Modes, Binds!Mode, Binds!Bits

(* A merged mode is as strong as each that went into it.                   *)
LEMMA MergedCovers ==
  ASSUME NEW U \in SUBSET Binds!Bits, NEW m \in Binds!Modes, Binds!Mode(m) \subseteq U
  PROVE  Binds!Covers(Binds!to_dep(U), m)
<1>1. Binds!Mode("read") = {"keep", "r"} /\ Binds!Mode("discard_write") = {"w"}
  BY DEF Binds!Mode
<1>2. CASE U = {"keep", "r"}
  <2>1. Binds!to_dep(U) = "read_only" /\ "w" \notin Binds!Mode(m)
    BY <1>1, <1>2 DEF Binds!to_dep
  <2> QED BY <2>1 DEF Binds!Covers
<1>3. CASE U = {"w"}
  <2>1. Binds!to_dep(U) = "write_only" /\ "keep" \notin Binds!Mode(m)
    BY <1>1, <1>3 DEF Binds!to_dep
  <2> QED BY <2>1 DEF Binds!Covers
<1>4. CASE U # {"keep", "r"} /\ U # {"w"}
  <2>1. Binds!to_dep(U) = "read_write"
    BY <1>1, <1>4 DEF Binds!to_dep
  <2> QED BY <2>1 DEF Binds!Covers
<1> QED BY <1>2, <1>3, <1>4

LEMMA DepKinds ==
  \A U : Binds!to_dep(U) \in {"read_only", "write_only", "read_write"}
BY DEF Binds!to_dep

LEMMA PairsAre ==
  ASSUME NEW list \in Seq(Arguments), NEW i \in 1 .. Len(list)
  PROVE  /\ PairOf(list, i).idx = i /\ PairOf(list, i).buff \in Nat
         /\ list[i].kind = "accessor" => /\ PairOf(list, i).buff = list[i].buff
                                       /\ PairOf(list, i).mode = Binds!Mode(list[i].mode)
         /\ list[i].kind # "accessor" => PairOf(list, i).buff = 0
         /\ PairOf(list, i) \in [idx : Nat, buff : Nat, mode : SUBSET Binds!Bits]
<1>1. list[i] \in Arguments /\ i \in Nat
  OBVIOUS
<1> QED BY <1>1, ArgumentsAre, ModeType DEF PairOf

(* lower_bound finds it.                                                   *)
LEMMA PlaceIs ==
  ASSUME NEW list \in Seq(Arguments), NEW ps, InOrderOf(list, ps), NEW i \in 1 .. Len(list)
  PROVE  Binds!place(ps, i) \in 1 .. Len(ps) /\ ps[Binds!place(ps, i)] = PairOf(list, i)
<1>1. PICK k \in 1 .. Len(ps) : ps[k] = PairOf(list, i)
  BY DEF InOrderOf
<1>2. ps[k].idx = i
  BY <1>1, PairsAre
<1>3. Binds!place(ps, i) \in 1 .. Len(ps) /\ ps[Binds!place(ps, i)].idx = i
  BY <1>2 DEF Binds!place
<1>4. PICK j \in 1 .. Len(list) : ps[Binds!place(ps, i)] = PairOf(list, j)
  BY <1>3 DEF InOrderOf
<1>5. j = i
  BY <1>3, <1>4, PairsAre
<1> QED BY <1>3, <1>4, <1>5

LEMMA MergedFirst ==
  ASSUME NEW list \in Seq(Arguments), NEW ps, InOrderOf(list, ps), NEW i \in 1 .. Len(list),
         list[i].kind = "accessor", \A j \in Uses(list, list[i].buff) : i <= j
  PROVE  Binds!merged(ps, Binds!place(ps, i)) = Wanted(list, list[i].buff)
<1> DEFINE head == Binds!place(ps, i)  b == list[i].buff
           ks == {k \in head .. Len(ps) : ps[k].buff = b}
<1>1. head \in 1 .. Len(ps) /\ ps[head] = PairOf(list, i)
  BY PlaceIs
<1>2. ps[head].buff = b /\ ps[head].idx = i /\ b \in Nat \ {0}
  <2>1. list[i] \in Arguments
    OBVIOUS
  <2> QED BY <1>1, <2>1, PairsAre, ArgumentsAre
<1> HIDE DEF head
<1>3. Len(ps) \in Nat /\ Len(list) \in Nat
  BY DEF InOrderOf
<1>4. ASSUME NEW k \in 1 .. Len(ps), ps[k].buff = b
      PROVE  \E j \in Uses(list, b) : ps[k] = PairOf(list, j) /\ ps[k].mode = Binds!Mode(list[j].mode)
  <2>1. PICK j \in 1 .. Len(list) : ps[k] = PairOf(list, j)
    BY DEF InOrderOf
  <2>2. list[j].kind = "accessor" /\ list[j].buff = b
    BY <1>2, <1>4, <2>1, PairsAre
  <2> QED BY <2>1, <2>2, PairsAre DEF Uses
<1>5. ASSUME NEW k \in 1 .. Len(ps), ps[k].buff = b PROVE k >= head
  <2>1. PICK j \in Uses(list, b) : ps[k] = PairOf(list, j)
    BY <1>4, <1>5
  <2>2. j \in 1 .. Len(list) /\ i <= j /\ ps[k].idx = j
    BY <2>1, PairsAre DEF Uses
  <2>3. k < head => Binds!Before(ps[k], ps[head])
    BY <1>1 DEF InOrderOf
  <2>4. ~Binds!Before(ps[k], ps[head])
    BY <1>2, <1>5, <2>2 DEF Binds!Before
  <2> QED BY <1>1, <1>3, <2>3, <2>4
<1>6. head = 1 \/ ps[head].buff # ps[head - 1].buff
  <2>1. ASSUME head # 1, ps[head - 1].buff = b PROVE FALSE
    <3>1. head - 1 \in 1 .. Len(ps) /\ ~(head - 1 >= head)
      BY <1>1, <1>3, <2>1
    <3> QED BY <1>5, <2>1, <3>1
  <2> QED BY <1>2, <2>1
<1>7. UNION {ps[k].mode : k \in ks} = UNION {Binds!Mode(list[j].mode) : j \in Uses(list, b)}
  <2>1. ASSUME NEW k \in ks PROVE \E j \in Uses(list, b) : ps[k].mode = Binds!Mode(list[j].mode)
    <3>1. k \in 1 .. Len(ps)
      BY <1>1, <1>3
    <3> QED BY <1>4, <3>1
  <2>2. ASSUME NEW j \in Uses(list, b) PROVE \E k \in ks : ps[k].mode = Binds!Mode(list[j].mode)
    <3>1. j \in 1 .. Len(list) /\ list[j].kind = "accessor" /\ list[j].buff = b
      BY DEF Uses
    <3>2. PICK k \in 1 .. Len(ps) : ps[k] = PairOf(list, j)
      BY <3>1 DEF InOrderOf
    <3>3. ps[k].buff = b /\ ps[k].mode = Binds!Mode(list[j].mode)
      BY <3>1, <3>2, PairsAre
    <3>4. k \in head .. Len(ps)
      BY <1>1, <1>3, <1>5, <3>3
    <3> QED BY <3>3, <3>4
  <2> HIDE DEF ks
  <2> QED BY <2>1, <2>2
<1>8. Binds!merged(ps, head) = Binds!to_dep(UNION {ps[k].mode : k \in ks})
  BY <1>2, <1>6 DEF Binds!merged
<1> QED BY <1>7, <1>8 DEF head, Wanted

LEMMA MergedNext ==
  ASSUME NEW list \in Seq(Arguments), NEW ps, InOrderOf(list, ps), NEW i \in 1 .. Len(list),
         list[i].kind = "accessor", NEW j \in Uses(list, list[i].buff), j < i
  PROVE  Binds!merged(ps, Binds!place(ps, i)) = "none"
<1> DEFINE head == Binds!place(ps, i)  other == Binds!place(ps, j)  b == list[i].buff
<1>1. j \in 1 .. Len(list) /\ list[j].kind = "accessor" /\ list[j].buff = b
  BY DEF Uses
<1>2. /\ head \in 1 .. Len(ps) /\ ps[head] = PairOf(list, i)
      /\ other \in 1 .. Len(ps) /\ ps[other] = PairOf(list, j)
  BY <1>1, PlaceIs
<1>3. /\ ps[head].buff = b /\ ps[head].idx = i
      /\ ps[other].buff = b /\ ps[other].idx = j /\ b \in Nat
  BY <1>1, <1>2, PairsAre
<1> HIDE DEF head, other
<1>4. Len(ps) \in Nat
  BY DEF InOrderOf
<1>5. other < head
  <2> i \in Nat /\ j \in Nat
    BY <1>1
  <2>1. ~Binds!Before(ps[head], ps[other]) /\ head # other
    BY <1>3 DEF Binds!Before
  <2>2. head < other => Binds!Before(ps[head], ps[other])
    BY <1>2 DEF InOrderOf
  <2> QED BY <1>2, <1>4, <2>1, <2>2
<1>6. ps[head - 1].buff = b
  <2>1. head - 1 \in 1 .. Len(ps) /\ head - 1 < head /\ (other = head - 1 \/ other < head - 1)
    BY <1>2, <1>4, <1>5
  <2>2. Binds!Before(ps[head - 1], ps[head]) /\ (other < head - 1 => Binds!Before(ps[other], ps[head - 1]))
    BY <1>2, <2>1 DEF InOrderOf
  <2>3. ps[head - 1].buff \in Nat
    <3>1. PICK l \in 1 .. Len(list) : ps[head - 1] = PairOf(list, l)
      BY <2>1 DEF InOrderOf
    <3> QED BY <3>1, PairsAre
  <2> QED BY <1>3, <2>1, <2>2, <2>3 DEF Binds!Before
<1>7. head # 1
  BY <1>2, <1>4, <1>5
<1> QED BY <1>3, <1>6, <1>7 DEF head, Binds!merged

LEMMA ListOf ==
  ASSUME NEW T, NEW m \in Nat, NEW f \in [1 .. m -> T]
  PROVE  f \in Seq(T) /\ Len(f) = m
OBVIOUS

(* What end_pre_binds makes of the pairs.                                  *)
LEMMA SortedPairs ==
  ASSUME NEW list \in Seq(Arguments), NEW ps \in Seq([idx : Nat, buff : Nat, mode : SUBSET Binds!Bits]),
         Len(ps) = Len(list), \A i \in 1 .. Len(list) : ps[i] = PairOf(list, i), NEW s \in Binds!Sorted(ps)
  PROVE  InOrderOf(list, s)
<1> DEFINE D == 1 .. Len(list)  R == [idx : Nat, buff : Nat, mode : SUBSET Binds!Bits]
<1>1. DOMAIN ps = D /\ Len(list) \in Nat
  OBVIOUS
<1>2. PICK p \in [D -> D] :
        /\ s = [k \in D |-> ps[p[k]]]
        /\ \A i \in D : \E k \in D : p[k] = i
        /\ \A k, l \in D : k < l => Binds!Before(ps[p[k]], ps[p[l]])
  BY <1>1 DEF Binds!Sorted
<1>3. ASSUME NEW k \in D
      PROVE  /\ p[k] \in 1 .. Len(list) /\ s[k] = ps[p[k]] /\ s[k] = PairOf(list, p[k])
             /\ s[k] \in [idx : Nat, buff : Nat, mode : SUBSET Binds!Bits]
  <2>1. p[k] \in 1 .. Len(list) /\ s[k] = ps[p[k]]
    BY <1>2
  <2> QED BY <2>1, PairsAre
<1>4. s \in [1 .. Len(list) -> [idx : Nat, buff : Nat, mode : SUBSET Binds!Bits]]
  BY <1>2, <1>3
<1>5. s \in Seq(R) /\ Len(s) = Len(list)
  <2>1. s \in [1 .. Len(list) -> R]
    BY <1>4
  <2> HIDE DEF R
  <2> QED BY <1>1, <2>1, ListOf
<1>6. \A k \in 1 .. Len(s) : \E i \in 1 .. Len(list) : s[k] = PairOf(list, i)
  BY <1>3, <1>5
<1>7. ASSUME NEW i \in 1 .. Len(list) PROVE \E k \in 1 .. Len(s) : s[k] = PairOf(list, i)
  <2>1. PICK k \in D : p[k] = i
    BY <1>2
  <2> QED BY <1>3, <1>5, <2>1
<1>8. \A k, l \in 1 .. Len(s) : k < l => Binds!Before(s[k], s[l])
  BY <1>2, <1>3, <1>5
<1> QED BY <1>5, <1>6, <1>7, <1>8 DEF InOrderOf

LEMMA AlignIs ==
  ASSUME NEW addr \in Nat, NEW align \in Binds!Alignments
  PROVE  /\ Binds!Align(addr, align) \in Nat /\ addr <= Binds!Align(addr, align)
         /\ Binds!Align(addr, align) % align = 0
<1>1. CASE align = 1
  BY <1>1 DEF Binds!Align
<1>2. CASE align = 2
  BY <1>2 DEF Binds!Align
<1>3. CASE align = 4
  BY <1>3 DEF Binds!Align
<1>4. CASE align = 8
  BY <1>4 DEF Binds!Align
<1>5. CASE align = 16
  BY <1>5 DEF Binds!Align
<1> QED BY <1>1, <1>2, <1>3, <1>4, <1>5 DEF Binds!Alignments

(* The larger of two alignments is a multiple of both.                     *)
LEMMA AlignBoth ==
  ASSUME NEW addr \in Nat, NEW a \in Binds!Alignments, NEW b \in Binds!Alignments, b <= a, addr % a = 0
  PROVE  addr % b = 0
<1>1. CASE a = 1
  BY <1>1 DEF Binds!Alignments
<1>2. CASE a = 2
  BY <1>2 DEF Binds!Alignments
<1>3. CASE a = 4
  BY <1>3 DEF Binds!Alignments
<1>4. CASE a = 8
  BY <1>4 DEF Binds!Alignments
<1>5. CASE a = 16
  BY <1>5 DEF Binds!Alignments
<1> QED BY <1>1, <1>2, <1>3, <1>4, <1>5 DEF Binds!Alignments
-----------------------------------------------------------------------------
(* The dependencies ds, and what the device has, when the first pos - 1    *)
(* arguments have been bound: a buffer's first accessor has registered     *)
(* what all of them want, and the others nothing.                          *)
DepsGood(list, pos, ds, lat) ==
  /\ \A k \in 1 .. Len(ds) :
       /\ ds[k].group = ONE /\ \E i \in Uses(list, ds[k].buff) : i < pos
       /\ ds[k].acc # "none" => ds[k].buff \in lat
       /\ ds[k].copied => ds[k].acc # "none"
  /\ \A b \in Buffers : (\E i \in Uses(list, b) : i < pos) =>
       \E k \in 1 .. Len(ds) :
         /\ ds[k].buff = b /\ ds[k].acc = Wanted(list, b)
         /\ \A l \in 1 .. Len(ds) : ds[l].buff = b /\ l # k => k < l /\ ds[l].acc = "none"

LEMMA DepIsAdded ==
  ASSUME NEW list \in Seq(Arguments), NEW pos \in 1 .. Len(list), list[pos].kind = "accessor",
         NEW ds \in Seq(Binds!Dep), NEW lat, DepsGood(list, pos, ds, lat),
         NEW d \in Binds!Dep, d.buff = list[pos].buff, d.copied => d.buff \notin lat,
         (\A j \in Uses(list, d.buff) : pos <= j) => d.acc = Wanted(list, d.buff),
         (\E j \in Uses(list, d.buff) : j < pos) => d.acc = "none"
  PROVE  /\ Append(ds, d) \in Seq(Binds!Dep)
         /\ DepsGood(list, pos + 1, Append(ds, d), IF d.acc = "none" THEN lat ELSE lat \union {d.buff})
<1> DEFINE c == Append(ds, d)  lt == IF d.acc = "none" THEN lat ELSE lat \union {d.buff}
           m == Len(ds) + 1
<1>1. /\ c \in Seq(Binds!Dep) /\ Len(c) = m /\ m \in Nat /\ Len(ds) \in Nat /\ c[m] = d
      /\ \A k \in 1 .. Len(ds) : c[k] = ds[k] /\ k < m /\ k \in 1 .. m
      /\ \A k \in 1 .. m : k \in 1 .. Len(ds) \/ k = m
      /\ m \in 1 .. m
  OBVIOUS
<1>2. pos \in Nat /\ pos \in Uses(list, d.buff) /\ pos < pos + 1 /\ \A b : \A i \in Uses(list, b) : i \in Nat
  BY DEF Uses
<1>3. d.group = ONE /\ d.buff \in Buffers
  BY DEF Binds!Dep
<1> HIDE DEF c, m
<1>4. ASSUME d.acc = "none" PROVE d.buff \in lat /\ \E j \in Uses(list, d.buff) : j < pos
  <2>1. ASSUME \A j \in Uses(list, d.buff) : pos <= j PROVE FALSE
    BY <1>4, <2>1, DepKinds DEF Wanted
  <2>2. \E j \in Uses(list, d.buff) : j < pos
    BY <1>2, <2>1
  <2>3. PICK k \in 1 .. Len(ds) : ds[k].buff = d.buff /\ ds[k].acc = Wanted(list, d.buff)
    BY <1>3, <2>2 DEF DepsGood
  <2>4. ds[k].acc # "none"
    BY <2>3, DepKinds DEF Wanted
  <2> QED BY <2>2, <2>3, <2>4 DEF DepsGood
<1>5. ASSUME NEW k \in 1 .. m
      PROVE  /\ c[k].group = ONE /\ \E i \in Uses(list, c[k].buff) : i < pos + 1
             /\ c[k].acc # "none" => c[k].buff \in lt
             /\ c[k].copied => c[k].acc # "none"
  <2>1. CASE k = m
    BY <1>1, <1>2, <1>3, <1>4, <2>1
  <2>2. CASE k \in 1 .. Len(ds)
    <3>1. PICK i \in Uses(list, ds[k].buff) : i < pos
      BY <2>2 DEF DepsGood
    <3>2. i < pos + 1
      BY <1>2, <3>1 DEF Uses
    <3> QED BY <1>1, <2>2, <3>1, <3>2 DEF DepsGood
  <2> QED BY <1>1, <2>1, <2>2
<1>6. ASSUME NEW b \in Buffers, NEW i \in Uses(list, b), i < pos + 1
      PROVE  \E k \in 1 .. m :
               /\ c[k].buff = b /\ c[k].acc = Wanted(list, b)
               /\ \A l \in 1 .. m : c[l].buff = b /\ l # k => k < l /\ c[l].acc = "none"
  <2>1. CASE \E j \in Uses(list, b) : j < pos
    <3>1. PICK k \in 1 .. Len(ds) :
            /\ ds[k].buff = b /\ ds[k].acc = Wanted(list, b)
            /\ \A l \in 1 .. Len(ds) : ds[l].buff = b /\ l # k => k < l /\ ds[l].acc = "none"
      BY <2>1 DEF DepsGood
    <3>2. \A l \in 1 .. m : c[l].buff = b /\ l # k => k < l /\ c[l].acc = "none"
      BY <1>1, <2>1, <3>1
    <3> QED BY <1>1, <3>1, <3>2
  <2>2. CASE ~ \E j \in Uses(list, b) : j < pos
    <3>1. i = pos
      BY <1>2, <1>6, <2>2
    <3>2. b = d.buff
      BY <1>6, <3>1 DEF Uses
    <3>3. d.acc = Wanted(list, b)
      BY <1>2, <2>2, <3>2 DEF Uses
    <3>4. \A l \in 1 .. Len(ds) : ds[l].buff # b
      BY <2>2 DEF DepsGood
    <3>5. \A l \in 1 .. m : c[l].buff = b /\ l # m => m < l /\ c[l].acc = "none"
      BY <1>1, <3>4
    <3>6. m \in 1 .. m /\ c[m].buff = b /\ c[m].acc = Wanted(list, b)
      BY <1>1, <3>2, <3>3
    <3> QED BY <3>5, <3>6
  <2> QED BY <2>1, <2>2
<1>7. DepsGood(list, pos + 1, c, lt)
  BY <1>1, <1>5, <1>6 DEF DepsGood
<1> QED BY <1>1, <1>7 DEF c

LEMMA NoDepIsAdded ==
  ASSUME NEW list \in Seq(Arguments), NEW pos \in 1 .. Len(list), list[pos].kind # "accessor",
         NEW ds, NEW lat, DepsGood(list, pos, ds, lat)
  PROVE  DepsGood(list, pos + 1, ds, lat)
<1>1. \A b : \A i \in Uses(list, b) : i \in Nat /\ i # pos
  BY DEF Uses
<1>2. \A b : \A i \in Uses(list, b) : i < pos <=> i < pos + 1
  BY <1>1
<1> QED BY <1>2 DEF DepsGood
-----------------------------------------------------------------------------
(* The values of the first pos - 1 arguments.                              *)
Passed(list, pos) == {i \in 1 .. pos - 1 : list[i].kind # "local"}

Aligned(ps) ==
  \A k \in 1 .. Len(ps) :
    /\ ps[k].off % ps[k].align = 0
    /\ k > 1 => ps[k - 1].off + ps[k - 1].size <= ps[k].off

Param == [off : Nat, size : Nat, align : Binds!Alignments]

LEMMA ParamIsAdded ==
  ASSUME NEW ps \in Seq(Param), Aligned(ps), NEW sz \in Nat, NEW al \in Binds!Alignments
  PROVE  LET c == Append(ps, Binds!next_param(ps, sz, al))
         IN  c \in Seq(Param) /\ Aligned(c) /\ Len(c) = Len(ps) + 1
<1> DEFINE from == IF ps = << >> THEN 0 ELSE ps[Len(ps)].off + ps[Len(ps)].size
           p == Binds!next_param(ps, sz, al)  c == Append(ps, p)
<1>1. Len(ps) \in Nat /\ (ps # << >> => Len(ps) \in 1 .. Len(ps)) /\ \A k \in 1 .. Len(ps) : ps[k] \in Param
  OBVIOUS
<1>2. from \in Nat /\ (ps # << >> => from = ps[Len(ps)].off + ps[Len(ps)].size)
  BY <1>1 DEF Param
<1>3. p = [off |-> Binds!Align(from, al), size |-> sz, align |-> al]
  BY DEF Binds!next_param
<1> HIDE DEF from, p
<1>4. p \in Param /\ p.off % p.align = 0 /\ from <= p.off
  BY <1>2, <1>3, AlignIs DEF Param
<1>5. /\ c \in Seq(Param) /\ Len(c) = Len(ps) + 1 /\ c[Len(ps) + 1] = p
      /\ \A k \in 1 .. Len(ps) : c[k] = ps[k]
      /\ \A k \in 1 .. Len(c) : k \in 1 .. Len(ps) \/ k = Len(ps) + 1
  BY <1>4
<1> HIDE DEF c
<1>6. ASSUME NEW k \in 1 .. Len(c)
      PROVE  /\ c[k].off % c[k].align = 0
             /\ k > 1 => c[k - 1].off + c[k - 1].size <= c[k].off
  <2>1. CASE k \in 1 .. Len(ps)
    <3>1. k > 1 => k - 1 \in 1 .. Len(ps)
      BY <1>1, <2>1
    <3> QED BY <1>5, <2>1, <3>1 DEF Aligned
  <2>2. CASE k = Len(ps) + 1
    <3>1. k > 1 => k - 1 = Len(ps) /\ Len(ps) \in 1 .. Len(ps) /\ ps # << >>
      BY <1>1, <2>2
    <3> QED BY <1>2, <1>4, <1>5, <2>2, <3>1
  <2> QED BY <1>5, <2>1, <2>2
<1> QED BY <1>5, <1>6 DEF c, p, Aligned

LEMMA PassedSets ==
  ASSUME NEW list, NEW pos \in Nat \ {0}
  PROVE  /\ Binds!Cardinality(Passed(list, 1)) = 0
         /\ Binds!Cardinality(Passed(list, pos)) \in Nat
         /\ Binds!Cardinality(Passed(list, pos + 1)) =
              Binds!Cardinality(Passed(list, pos)) + (IF list[pos].kind # "local" THEN 1 ELSE 0)
<1>1. \A S : Binds!Cardinality(S) = Cardinality(S)
  BY DEF Binds!Cardinality, Cardinality
<1>2. IsFiniteSet(Passed(list, pos)) /\ Cardinality(Passed(list, pos)) \in Nat
  <2>1. IsFiniteSet(1 .. pos - 1) /\ Passed(list, pos) \subseteq 1 .. pos - 1
    BY FS_Interval DEF Passed
  <2> QED BY <2>1, FS_Subset, FS_CardinalityType
<1>3. Passed(list, pos + 1) = IF list[pos].kind # "local" THEN Passed(list, pos) \union {pos} ELSE Passed(list, pos)
  <2>1. 1 .. (pos + 1) - 1 = (1 .. pos - 1) \union {pos}
    OBVIOUS
  <2> QED BY <2>1 DEF Passed
<1>4. pos \notin Passed(list, pos)
  BY DEF Passed
<1>5. Passed(list, 1) = {}
  BY DEF Passed
<1>6. Cardinality(Passed(list, pos) \union {pos}) = Cardinality(Passed(list, pos)) + 1
  BY <1>2, <1>4, FS_AddElement
<1>7. Cardinality(Passed(list, 1)) = 0
  BY <1>5, FS_EmptySet
<1> QED BY <1>1, <1>2, <1>3, <1>6, <1>7
-----------------------------------------------------------------------------
(* The memory m of the local accessors, and where each lies in it.         *)
LocalArgument == {a \in Arguments : a.kind = "local"}

LocalsGood(ls, m) ==
  /\ ls \in Seq([off : Nat, of : LocalArgument]) /\ m \in Nat
  /\ \A k \in 1 .. Len(ls) :
       /\ ls[k].off % ls[k].of.align = 0
       /\ ls[k].of.array => ls[k].off % ArrayAlign = 0
       /\ ls[k].off + ls[k].of.size <= m
       /\ k > 1 => ls[k - 1].off + ls[k - 1].of.size <= ls[k].off

LEMMA LocalIsAdded ==
  ASSUME NEW ls, NEW m, LocalsGood(ls, m), NEW a \in LocalArgument
  PROVE  LET off == Binds!alloc_smem(m, a.size, a.align, a.array)
         IN  LocalsGood(Append(ls, [off |-> off, of |-> a]), off + a.size)
<1> DEFINE off == Binds!alloc_smem(m, a.size, a.align, a.array)
           l == [off |-> off, of |-> a]  c == Append(ls, l)
<1>1. a.size \in Nat /\ a.align \in Binds!Alignments /\ a.array \in BOOLEAN /\ ArrayAlign \in Binds!Alignments
  BY ArgumentsAre DEF LocalArgument
<1>2. m \in Nat /\ ls \in Seq([off : Nat, of : LocalArgument])
  BY DEF LocalsGood
<1>3. off \in Nat /\ m <= off /\ off % a.align = 0 /\ (a.array => off % ArrayAlign = 0)
  <2>1. CASE a.array /\ a.align < ArrayAlign
    <3>1. off = Binds!Align(m, ArrayAlign) /\ a.align <= ArrayAlign
      BY <1>1, <2>1 DEF Binds!alloc_smem, Binds!Alignments
    <3>2. off \in Nat /\ m <= off /\ off % ArrayAlign = 0
      BY <1>1, <1>2, <3>1, AlignIs
    <3> QED BY <1>1, <3>1, <3>2, AlignBoth
  <2>2. CASE ~(a.array /\ a.align < ArrayAlign)
    <3>1. off = Binds!Align(m, a.align)
      BY <2>2 DEF Binds!alloc_smem
    <3>2. off \in Nat /\ m <= off /\ off % a.align = 0
      BY <1>1, <1>2, <3>1, AlignIs
    <3>3. a.array => ArrayAlign <= a.align
      BY <1>1, <2>2 DEF Binds!Alignments
    <3> QED BY <1>1, <3>2, <3>3, AlignBoth
  <2> QED BY <2>1, <2>2
<1> HIDE DEF off
<1>4. /\ c \in Seq([off : Nat, of : LocalArgument]) /\ Len(c) = Len(ls) + 1 /\ c[Len(ls) + 1] = l
      /\ Len(ls) \in Nat /\ \A k \in 1 .. Len(ls) : c[k] = ls[k]
      /\ \A k \in 1 .. Len(c) : k \in 1 .. Len(ls) \/ k = Len(ls) + 1
  BY <1>2, <1>3
<1>5. l.off = off /\ l.of = a
  OBVIOUS
<1>6. \A k \in 1 .. Len(ls) : ls[k].off \in Nat /\ ls[k].of.size \in Nat
  <2>1. ASSUME NEW T, ls \in Seq(T) PROVE \A k \in 1 .. Len(ls) : ls[k] \in T
    BY <2>1
  <2>2. \A k \in 1 .. Len(ls) : ls[k] \in [off : Nat, of : LocalArgument]
    BY <1>2, <2>1
  <2> QED BY <2>2, ArgumentsAre DEF LocalArgument
<1> HIDE DEF c, l
<1>7. ASSUME NEW k \in 1 .. Len(c)
      PROVE  /\ c[k].off % c[k].of.align = 0
             /\ c[k].of.array => c[k].off % ArrayAlign = 0
             /\ c[k].off + c[k].of.size <= off + a.size
             /\ k > 1 => c[k - 1].off + c[k - 1].of.size <= c[k].off
  <2>1. CASE k \in 1 .. Len(ls)
    <3>1. k > 1 => k - 1 \in 1 .. Len(ls)
      BY <1>4, <2>1
    <3>2. ls[k].off + ls[k].of.size <= m
      BY <2>1 DEF LocalsGood
    <3>3. ls[k].off + ls[k].of.size <= off + a.size
      <4>1. ls[k].off + ls[k].of.size \in Nat
        BY <1>6, <2>1
      <4>2. m <= off + a.size /\ off + a.size \in Nat
        BY <1>1, <1>2, <1>3
      <4> QED BY <1>2, <3>2, <4>1, <4>2
    <3> QED BY <1>4, <2>1, <3>1, <3>3 DEF LocalsGood
  <2>2. CASE k = Len(ls) + 1
    <3>1. k > 1 => k - 1 = Len(ls) /\ Len(ls) \in 1 .. Len(ls)
      BY <1>4, <2>2
    <3>2. ASSUME k > 1 PROVE ls[k - 1].off + ls[k - 1].of.size <= off
      <4>1. k - 1 \in 1 .. Len(ls) /\ ls[k - 1].off + ls[k - 1].of.size \in Nat
        BY <1>6, <3>1, <3>2
      <4>2. ls[k - 1].off + ls[k - 1].of.size <= m
        BY <4>1 DEF LocalsGood
      <4> QED BY <1>2, <1>3, <4>1, <4>2
    <3>3. c[k].off = off /\ c[k].of = a
      BY <1>4, <1>5, <2>2
    <3>4. k > 1 => c[k - 1] = ls[k - 1]
      BY <1>4, <3>1
    <3>5. c[k].off + c[k].of.size <= off + a.size
      BY <1>1, <1>3, <3>3
    <3> QED BY <1>3, <3>2, <3>3, <3>4, <3>5
  <2> QED BY <1>4, <2>1, <2>2
<1>8. off + a.size \in Nat
  BY <1>1, <1>3
<1> QED BY <1>4, <1>7, <1>8 DEF c, l, off, LocalsGood
-----------------------------------------------------------------------------
(* A handler's binds: pre_bind has gone through the first of the arguments *)
(* (while at "pre"), or they have been bound (at "bind").                  *)
Pairs == [idx : Nat, buff : Nat, mode : SUBSET Binds!Bits]

BindTypes ==
  /\ pc_h \in [{ONE} -> {"group", "pre", "bind", "bound"}]
  /\ args \in [{ONE} -> Seq(Arguments)] /\ idx \in [{ONE} -> Nat]
  /\ pairs \in [{ONE} -> Seq(Pairs)]
  /\ deps \in Seq(Binds!Dep)
  /\ locals \in [{ONE} -> Seq([off : Nat, of : LocalArgument])] /\ lmem \in [{ONE} -> Nat]
  /\ params \in [{ONE} -> Seq(Param)]

NothingBound ==
  deps = << >> /\ params[ONE] = << >>

PreBound ==
  /\ Len(pairs[ONE]) = Len(args[ONE]) /\ idx[ONE] \in 1 .. Len(args[ONE]) + 1
  /\ \A i \in 1 .. Len(args[ONE]) :
       pairs[ONE][i] = IF i < idx[ONE] THEN PairOf(args[ONE], i) ELSE Binds!Fresh

Bound ==
  /\ idx[ONE] \in 1 .. Len(args[ONE]) + 1
  /\ DepsGood(args[ONE], idx[ONE], deps, latest)
  /\ Len(params[ONE]) = Binds!Cardinality(Passed(args[ONE], idx[ONE]))

BindInv ==
  /\ BindTypes /\ LocalsGood(locals[ONE], lmem[ONE]) /\ Aligned(params[ONE])
  /\ pc_h[ONE] = "group" => idx[ONE] = 1 /\ NothingBound
  /\ pc_h[ONE] = "pre" => PreBound /\ NothingBound
  /\ pc_h[ONE] = "bind" => InOrderOf(args[ONE], pairs[ONE]) /\ Bound
  /\ pc_h[ONE] = "bound" => idx[ONE] = Len(args[ONE]) + 1 /\ Bound

LEMMA BindFacts ==
  ASSUME BindInv
  PROVE  /\ args[ONE] \in Seq(Arguments) /\ Len(args[ONE]) \in Nat /\ idx[ONE] \in Nat
         /\ pairs[ONE] \in Seq(Pairs) /\ deps \in Seq(Binds!Dep)
         /\ params[ONE] \in Seq(Param) /\ Aligned(params[ONE])
         /\ LocalsGood(locals[ONE], lmem[ONE])
BY DEF BindInv, BindTypes

LEMMA BindsStart ==
  ASSUME Binds!Init
  PROVE  BindInv
<1>1. BindTypes
  BY DEF Binds!Init, BindTypes
<1>2. locals[ONE] = << >> /\ lmem[ONE] = 0 /\ params[ONE] = << >>
  BY DEF Binds!Init
<1>3. LocalsGood(locals[ONE], lmem[ONE]) /\ Aligned(params[ONE])
  BY <1>2 DEF LocalsGood, Aligned
<1>4. pc_h[ONE] = "group" /\ idx[ONE] = 1 /\ NothingBound
  BY DEF Binds!Init, NothingBound
<1> QED BY <1>1, <1>3, <1>4 DEF BindInv

LEMMA BindMakeArg ==
  ASSUME BindInv, Binds!MakeArg(ONE)
  PROVE  BindInv'
<1> PICK a \in Arguments :
      /\ args' = [args EXCEPT ![ONE] = Append(@, a)]
      /\ IF a.kind # "local"
           THEN UNCHANGED <<locals, lmem>>
           ELSE LET off == Binds!alloc_smem(lmem[ONE], a.size, a.align, a.array)
                IN  /\ lmem' = [lmem EXCEPT ![ONE] = off + a.size]
                    /\ locals' = [locals EXCEPT ![ONE] = Append(@, [off |-> off, of |-> a])]
  BY DEF Binds!MakeArg, Binds!local
<1>1. pc_h[ONE] = "group" /\ UNCHANGED <<pc_h, idx, pairs, deps, latest, params>>
  BY DEF Binds!MakeArg
<1>2. args' \in [{ONE} -> Seq(Arguments)]
  BY DEF BindInv, BindTypes
<1>3. /\ LocalsGood(locals'[ONE], lmem'[ONE])
      /\ locals' \in [{ONE} -> Seq([off : Nat, of : LocalArgument])] /\ lmem' \in [{ONE} -> Nat]
  <2>1. CASE a.kind # "local"
    BY <2>1 DEF BindInv, BindTypes
  <2>2. CASE a.kind = "local"
    <3> DEFINE off == Binds!alloc_smem(lmem[ONE], a.size, a.align, a.array)
               ls == Append(locals[ONE], [off |-> off, of |-> a])
    <3>1. a \in LocalArgument
      BY <2>2 DEF LocalArgument
    <3>2. LocalsGood(ls, off + a.size)
      BY <3>1, BindFacts, LocalIsAdded
    <3>3. ls \in Seq([off : Nat, of : LocalArgument]) /\ off + a.size \in Nat
      BY <3>2 DEF LocalsGood
    <3>4. locals' = [locals EXCEPT ![ONE] = ls] /\ lmem' = [lmem EXCEPT ![ONE] = off + a.size]
      BY <2>2
    <3> HIDE DEF ls, off
    <3>5. locals' = [g \in {ONE} |-> ls] /\ lmem' = [g \in {ONE} |-> off + a.size]
      BY <3>4 DEF BindInv, BindTypes
    <3> QED BY <3>2, <3>3, <3>5
  <2> QED BY <2>1, <2>2
<1>4. BindTypes'
  BY <1>1, <1>2, <1>3 DEF BindInv, BindTypes
<1>5. NothingBound' /\ idx'[ONE] = 1 /\ Aligned(params'[ONE])
  BY <1>1 DEF BindInv, NothingBound
<1> QED BY <1>1, <1>3, <1>4, <1>5 DEF BindInv

LEMMA BindBegin ==
  ASSUME BindInv, Binds!begin_binds(ONE)
  PROVE  BindInv'
<1>1. /\ pc_h[ONE] = "group" /\ pc_h' = [pc_h EXCEPT ![ONE] = "pre"]
      /\ pairs' = [pairs EXCEPT ![ONE] = [i \in 1 .. Len(args[ONE]) |-> Binds!Fresh]]
      /\ UNCHANGED <<args, idx, deps, latest, locals, lmem, params>>
  BY DEF Binds!begin_binds, Binds!local
<1>2. Binds!Fresh \in Pairs
  BY DEF Pairs, Binds!Fresh, Binds!NULL, Binds!Bits
<1>3. pairs'[ONE] = [i \in 1 .. Len(args[ONE]) |-> Binds!Fresh] /\ pc_h'[ONE] = "pre"
  BY <1>1 DEF BindInv, BindTypes
<1>4. pairs'[ONE] \in Seq(Pairs) /\ Len(pairs'[ONE]) = Len(args[ONE])
  BY <1>2, <1>3, BindFacts
<1>5. BindTypes'
  BY <1>1, <1>4 DEF BindInv, BindTypes
<1>6. PreBound'
  BY <1>1, <1>3, <1>4, BindFacts DEF BindInv, PreBound
<1>7. NothingBound' /\ LocalsGood(locals[ONE], lmem[ONE])' /\ Aligned(params[ONE])'
  BY <1>1 DEF BindInv, NothingBound
<1> QED BY <1>3, <1>5, <1>6, <1>7 DEF BindInv

LEMMA BindPre ==
  ASSUME BindInv, Binds!pre_bind(ONE)
  PROVE  BindInv'
<1> DEFINE i == idx[ONE]  a == args[ONE][i]
           new == IF a.kind = "accessor"
                    THEN [idx |-> i, buff |-> a.buff, mode |-> Binds!Mode(a.mode)]
                    ELSE [pairs[ONE][i] EXCEPT !.idx = i]
<1>1. /\ pc_h[ONE] = "pre" /\ i <= Len(args[ONE]) /\ idx' = [idx EXCEPT ![ONE] = @ + 1]
      /\ UNCHANGED <<pc_h, args, deps, latest, locals, lmem, params>>
  BY DEF Binds!pre_bind, Binds!local
<1>2. pairs' = [pairs EXCEPT ![ONE][i] = new]
  BY DEF Binds!pre_bind
<1>3. PreBound /\ NothingBound /\ i \in 1 .. Len(args[ONE]) /\ i \in Nat
  BY <1>1, BindFacts DEF BindInv, PreBound
<1>4. new = PairOf(args[ONE], i)
  <2>1. pairs[ONE][i] = [idx |-> 0, buff |-> 0, mode |-> {}]
    BY <1>3 DEF PreBound, Binds!Fresh, Binds!NULL
  <2> QED BY <2>1 DEF PairOf
<1>5. new \in Pairs
  <2>1. PairOf(args[ONE], i) \in [idx : Nat, buff : Nat, mode : SUBSET Binds!Bits]
    BY <1>3, BindFacts, PairsAre
  <2> HIDE DEF new
  <2> QED BY <1>4, <2>1 DEF Pairs
<1> HIDE DEF new
<1>6. /\ pairs'[ONE] \in Seq(Pairs) /\ Len(pairs'[ONE]) = Len(args[ONE])
      /\ \A k \in 1 .. Len(args[ONE]) : pairs'[ONE][k] = IF k = i THEN new ELSE pairs[ONE][k]
      /\ pairs' = [g \in {ONE} |-> pairs'[ONE]]
  <2>1. pairs'[ONE] = [pairs[ONE] EXCEPT ![i] = new] /\ pairs' = [g \in {ONE} |-> pairs'[ONE]]
    BY <1>2 DEF BindInv, BindTypes
  <2>2. Len(pairs[ONE]) = Len(args[ONE])
    BY <1>3 DEF PreBound
  <2> QED BY <1>3, <1>5, <2>1, <2>2, BindFacts
<1>7. idx'[ONE] = i + 1 /\ idx' \in [{ONE} -> Nat]
  BY <1>1, <1>3 DEF BindInv, BindTypes
<1>8. BindTypes'
  BY <1>1, <1>6, <1>7 DEF BindInv, BindTypes
<1>9. PreBound'
  <2>1. ASSUME NEW k \in 1 .. Len(args[ONE])
        PROVE  pairs'[ONE][k] = IF k < i + 1 THEN PairOf(args[ONE], k) ELSE Binds!Fresh
    <3>1. k < i + 1 <=> k < i \/ k = i
      BY <1>3
    <3>2. pairs[ONE][k] = IF k < i THEN PairOf(args[ONE], k) ELSE Binds!Fresh
      BY <1>3 DEF PreBound
    <3> QED BY <1>4, <1>6, <3>1, <3>2
  <2>2. i + 1 \in 1 .. Len(args[ONE]) + 1
    BY <1>3, BindFacts
  <2> QED BY <1>1, <1>6, <1>7, <2>1, <2>2 DEF PreBound
<1>10. NothingBound' /\ LocalsGood(locals[ONE], lmem[ONE])' /\ Aligned(params[ONE])'
  BY <1>1, <1>3 DEF BindInv, NothingBound
<1> QED BY <1>1, <1>8, <1>9, <1>10 DEF BindInv

LEMMA BindSorts ==
  ASSUME BindInv, Binds!end_pre_binds(ONE)
  PROVE  BindInv'
<1>1. /\ pc_h[ONE] = "pre" /\ idx[ONE] > Len(args[ONE])
      /\ idx' = [idx EXCEPT ![ONE] = 1] /\ pc_h' = [pc_h EXCEPT ![ONE] = "bind"]
      /\ UNCHANGED <<args, deps, latest, locals, lmem, params>>
  BY DEF Binds!end_pre_binds, Binds!local
<1> PICK ps \in Binds!Sorted(pairs[ONE]) : pairs' = [pairs EXCEPT ![ONE] = ps]
  BY DEF Binds!end_pre_binds
<1>2. PreBound /\ NothingBound
  BY <1>1 DEF BindInv
<1>3. \A i \in 1 .. Len(args[ONE]) : pairs[ONE][i] = PairOf(args[ONE], i)
  <2>1. ASSUME NEW i \in 1 .. Len(args[ONE]) PROVE pairs[ONE][i] = PairOf(args[ONE], i)
    <3>1. i < idx[ONE]
      BY <1>1, BindFacts
    <3> QED BY <1>2, <3>1 DEF PreBound
  <2> QED BY <2>1
<1>4. InOrderOf(args[ONE], ps)
  BY <1>2, <1>3, BindFacts, SortedPairs DEF Pairs, PreBound
<1>5. ps \in Seq(Pairs)
  BY <1>4 DEF InOrderOf, Pairs
<1>6. BindTypes' /\ pairs'[ONE] = ps /\ idx'[ONE] = 1 /\ pc_h'[ONE] = "bind" /\ args'[ONE] = args[ONE]
  BY <1>1, <1>5 DEF BindInv, BindTypes
<1>7. Bound'
  <2>1. DepsGood(args[ONE], 1, << >>, latest)
    <3>1. \A b : \A i \in Uses(args[ONE], b) : ~(i < 1)
      BY DEF Uses
    <3> QED BY <3>1 DEF DepsGood
  <2>2. Len(params[ONE]) = Binds!Cardinality(Passed(args[ONE], 1))
    BY <1>2, PassedSets DEF NothingBound
  <2>3. 1 \in 1 .. Len(args[ONE]) + 1
    BY BindFacts
  <2> QED BY <1>1, <1>2, <1>6, <2>1, <2>2, <2>3 DEF Bound, NothingBound
<1>8. LocalsGood(locals[ONE], lmem[ONE])' /\ Aligned(params[ONE])'
  BY <1>1 DEF BindInv
<1> QED BY <1>4, <1>6, <1>7, <1>8 DEF BindInv

LEMMA BindArgument ==
  ASSUME BindInv, Binds!bind(ONE)
  PROVE  BindInv'
<1> DEFINE i == idx[ONE]  a == args[ONE][i]  list == args[ONE]
<1>1. /\ pc_h[ONE] = "bind" /\ i <= Len(list) /\ idx' = [idx EXCEPT ![ONE] = @ + 1]
      /\ UNCHANGED <<pc_h, args, pairs, locals, lmem>>
  BY DEF Binds!bind, Binds!local
<1>2. /\ InOrderOf(list, pairs[ONE]) /\ Bound /\ i \in 1 .. Len(list) /\ i \in Nat /\ list \in Seq(Arguments)
      /\ DepsGood(list, i, deps, latest) /\ a \in Arguments
  <2>1. InOrderOf(list, pairs[ONE]) /\ Bound
    BY <1>1 DEF BindInv
  <2>2. i \in 1 .. Len(list) /\ i \in Nat /\ list \in Seq(Arguments)
    BY <1>1, <2>1, BindFacts DEF Bound
  <2> QED BY <2>1, <2>2 DEF Bound
<1>3. idx'[ONE] = i + 1 /\ idx' \in [{ONE} -> Nat] /\ i + 1 \in 1 .. Len(list) + 1
  BY <1>1, <1>2, BindFacts DEF BindInv, BindTypes
<1>4. /\ deps' \in Seq(Binds!Dep) /\ DepsGood(list, i + 1, deps', latest')
  <2>1. CASE a.kind # "accessor"
    <3>1. deps' = deps /\ latest' = latest
      BY <2>1 DEF Binds!bind, Binds!BindValue
    <3> QED BY <1>2, <2>1, <3>1, BindFacts, NoDepIsAdded
  <2>2. CASE a.kind = "accessor"
    <3> DEFINE b == a.buff  acc == Binds!merged(pairs[ONE], Binds!place(pairs[ONE], i))
               d == [group |-> ONE, buff |-> b, acc |-> acc,
                     copied |-> acc # "write_only" /\ Binds!depends(b, acc) = "host"]
    <3>1. deps' = Append(deps, d) /\ latest' = IF acc = "none" THEN latest ELSE latest \union {b}
      BY <2>2 DEF Binds!bind, Binds!BindAccessor
    <3>2. b \in Buffers
      BY <1>2, <2>2, ArgumentsAre
    <3>3. (\A j \in Uses(list, b) : i <= j) => acc = Wanted(list, b)
      BY <1>2, <2>2, MergedFirst
    <3>4. (\E j \in Uses(list, b) : j < i) => acc = "none"
      BY <1>2, <2>2, MergedNext
    <3>5. acc \in {"none", "read_only", "write_only", "read_write"}
      <4>1. (\A j \in Uses(list, b) : i <= j) \/ \E j \in Uses(list, b) : j < i
        BY <1>2 DEF Uses
      <4> QED BY <3>3, <3>4, <4>1, DepKinds DEF Wanted
    <3>6. d.copied => b \notin latest
      BY DEF Binds!depends
    <3> HIDE DEF acc
    <3>7. d \in Binds!Dep /\ d.buff = b /\ d.acc = acc
      BY <3>2, <3>5 DEF Binds!Dep
    <3> HIDE DEF d
    <3>8. /\ Append(deps, d) \in Seq(Binds!Dep)
          /\ DepsGood(list, i + 1, Append(deps, d), IF d.acc = "none" THEN latest ELSE latest \union {d.buff})
      BY <1>2, <2>2, <3>3, <3>4, <3>6, <3>7, BindFacts, DepIsAdded
    <3> QED BY <3>1, <3>7, <3>8
  <2> QED BY <2>1, <2>2
<1>5. /\ params' \in [{ONE} -> Seq(Param)] /\ Aligned(params'[ONE])
      /\ Len(params'[ONE]) = Binds!Cardinality(Passed(list, i + 1))
  <2>1. Len(params[ONE]) = Binds!Cardinality(Passed(list, i)) /\ params \in [{ONE} -> Seq(Param)]
    BY <1>2 DEF Bound, BindInv, BindTypes
  <2>2. Binds!Cardinality(Passed(list, i + 1)) =
          Binds!Cardinality(Passed(list, i)) + (IF a.kind # "local" THEN 1 ELSE 0)
    <3>1. i \in Nat \ {0}
      BY <1>2
    <3> HIDE DEF i, a
    <3>2. Binds!Cardinality(Passed(list, i + 1)) =
            Binds!Cardinality(Passed(list, i)) + (IF list[i].kind # "local" THEN 1 ELSE 0)
      BY <3>1, PassedSets
    <3> QED BY <3>2 DEF a
  <2>3. CASE a.kind = "local"
    <3>1. params' = params
      BY <2>3 DEF Binds!bind
    <3> QED BY <2>1, <2>2, <2>3, <3>1, BindFacts
  <2>4. ASSUME NEW sz \in Nat, NEW al \in Binds!Alignments, a.kind # "local",
               params' = [params EXCEPT ![ONE] = Append(@, Binds!next_param(@, sz, al))]
        PROVE  /\ params' \in [{ONE} -> Seq(Param)] /\ Aligned(params'[ONE])
               /\ Len(params'[ONE]) = Binds!Cardinality(Passed(list, i + 1))
    <3> DEFINE c == Append(params[ONE], Binds!next_param(params[ONE], sz, al))
    <3>1. c \in Seq(Param) /\ Aligned(c) /\ Len(c) = Len(params[ONE]) + 1
      BY BindFacts, ParamIsAdded
    <3>2. params' = [params EXCEPT ![ONE] = c]
      BY <2>4
    <3> HIDE DEF c
    <3>3. params' = [g \in {ONE} |-> c]
      BY <2>1, <3>2
    <3> QED BY <2>1, <2>2, <2>4, <3>1, <3>3
  <2>5. CASE a.kind = "value"
    <3>1. a.size \in Nat /\ MaxAlign \in Binds!Alignments
      BY <1>2, <2>5, ArgumentsAre
    <3>2. params' = [params EXCEPT ![ONE] = Append(@, Binds!next_param(@, a.size, MaxAlign))]
      BY <2>5 DEF Binds!bind, Binds!BindValue
    <3> QED BY <2>4, <2>5, <3>1, <3>2
  <2>6. CASE a.kind = "accessor"
    <3>1. Word \in Nat /\ Word \in Binds!Alignments
      BY ArgumentsAre DEF Binds!Alignments
    <3>2. params' = [params EXCEPT ![ONE] = Append(@, Binds!next_param(@, Word, Word))]
      BY <2>6 DEF Binds!bind, Binds!BindAccessor
    <3> QED BY <2>4, <2>6, <3>1, <3>2
  <2> QED BY <1>2, <2>3, <2>5, <2>6, ArgumentsAre
<1>6. BindTypes'
  BY <1>1, <1>3, <1>4, <1>5 DEF BindInv, BindTypes
<1>7. Bound'
  BY <1>1, <1>3, <1>4, <1>5 DEF Bound
<1>8. LocalsGood(locals[ONE], lmem[ONE])'
  BY <1>1 DEF BindInv
<1> QED BY <1>1, <1>2, <1>5, <1>6, <1>7, <1>8 DEF BindInv

LEMMA BindEnds ==
  ASSUME BindInv, Binds!end_binds(ONE)
  PROVE  BindInv'
<1>1. /\ pc_h[ONE] = "bind" /\ idx[ONE] > Len(args[ONE]) /\ pc_h' = [pc_h EXCEPT ![ONE] = "bound"]
      /\ UNCHANGED <<args, idx, pairs, deps, latest, locals, lmem, params>>
  BY DEF Binds!end_binds, Binds!local
<1>2. Bound /\ idx[ONE] = Len(args[ONE]) + 1
  <2>1. Bound
    BY <1>1 DEF BindInv
  <2> QED BY <1>1, <2>1, BindFacts DEF Bound
<1>3. BindTypes' /\ pc_h'[ONE] = "bound"
  BY <1>1 DEF BindInv, BindTypes
<1>4. Bound' /\ idx'[ONE] = Len(args'[ONE]) + 1
  BY <1>1, <1>2 DEF Bound
<1> QED BY <1>1, <1>3, <1>4 DEF BindInv

LEMMA BindStep ==
  ASSUME BindInv, Binds!Next \/ UNCHANGED Binds!vars
  PROVE  BindInv'
<1>1. CASE UNCHANGED Binds!vars
  BY <1>1 DEF Binds!vars, BindInv, BindTypes, NothingBound, PreBound, Bound
<1>2. Binds!Finished => UNCHANGED Binds!vars
  BY DEF Binds!Finished
<1>3. ~Binds!bind_throws(ONE)
  BY DEF Binds!bind_throws
<1> QED BY <1>1, <1>2, <1>3, BindMakeArg, BindBegin, BindPre, BindSorts, BindArgument, BindEnds
        DEF Binds!Next, Binds!do_bind

LEMMA BindIsRight ==
  ASSUME BindInv
  PROVE  Binds!OneDependency /\ Binds!OneCopy /\ Binds!LocalsApart /\ Binds!ParamsApart
<1>1. Binds!OneDependency
  <2> SUFFICES ASSUME pc_h[ONE] = "bound", NEW i \in Binds!Accessors(ONE)
               PROVE  \E k \in Binds!DepsOf(ONE, args[ONE][i].buff) :
                        /\ Binds!Covers(deps[k].acc, args[ONE][i].mode)
                        /\ \A l \in Binds!DepsOf(ONE, args[ONE][i].buff) \ {k} : k < l /\ deps[l].acc = "none"
    BY DEF Binds!OneDependency
  <2> DEFINE b == args[ONE][i].buff  m == args[ONE][i].mode
             U == UNION {Binds!Mode(args[ONE][j].mode) : j \in Uses(args[ONE], b)}
  <2>1. Bound /\ idx[ONE] = Len(args[ONE]) + 1
    BY DEF BindInv
  <2>2. i \in 1 .. Len(args[ONE]) /\ args[ONE][i].kind = "accessor"
    BY DEF Binds!Accessors
  <2>3. i \in Uses(args[ONE], b) /\ i < idx[ONE] /\ b \in Buffers /\ m \in Binds!Modes
    BY <2>1, <2>2, BindFacts, ArgumentsAre DEF Uses
  <2>4. PICK k \in 1 .. Len(deps) :
          /\ deps[k].buff = b /\ deps[k].acc = Wanted(args[ONE], b)
          /\ \A l \in 1 .. Len(deps) : deps[l].buff = b /\ l # k => k < l /\ deps[l].acc = "none"
    BY <2>1, <2>3 DEF Bound, DepsGood
  <2>5. \A l \in 1 .. Len(deps) : deps[l].group = ONE
    BY <2>1 DEF Bound, DepsGood
  <2>6. U \in SUBSET Binds!Bits /\ Binds!Mode(m) \subseteq U
    <3>1. \A j \in Uses(args[ONE], b) : args[ONE][j].mode \in Binds!Modes
      BY BindFacts, ArgumentsAre DEF Uses
    <3> QED BY <2>3, <3>1, ModeType
  <2>7. Binds!Covers(Wanted(args[ONE], b), m)
    BY <2>3, <2>6, MergedCovers DEF Wanted
  <2> QED BY <2>4, <2>5, <2>7 DEF Binds!DepsOf
<1>2. Binds!OneCopy
  <2>1. pc_h[ONE] \in {"group", "pre", "bind", "bound"}
    BY DEF BindInv, BindTypes
  <2>2. NothingBound \/ Bound
    BY <2>1 DEF BindInv
  <2>3. NothingBound => Len(deps) = 0
    BY DEF NothingBound
  <2> QED BY <2>2, <2>3 DEF Binds!OneCopy, Bound, DepsGood
<1>3. Binds!LocalsApart
  BY BindFacts DEF LocalsGood, Binds!LocalsApart
<1>4. Binds!ParamsApart
  <2>1. ASSUME pc_h[ONE] = "bound"
        PROVE  Len(params[ONE]) = Binds!Cardinality({i \in 1 .. Len(args[ONE]) : args[ONE][i].kind # "local"})
    <3>1. Bound /\ idx[ONE] = Len(args[ONE]) + 1
      BY <2>1 DEF BindInv
    <3>2. 1 .. idx[ONE] - 1 = 1 .. Len(args[ONE])
      BY <3>1, BindFacts
    <3> QED BY <3>1, <3>2 DEF Bound, Passed
  <2> QED BY <2>1, BindFacts DEF Aligned, Binds!ParamsApart
<1> QED BY <1>1, <1>2, <1>3, <1>4
-----------------------------------------------------------------------------
(* The groups that share buffers: one that binds is alone, and so are its  *)
(* dependencies: those of any group are next to each other.                *)
SharedDep == [group : Actor, buff : Buffers, acc : {"none", "read_only", "write_only", "read_write"},
              copied : BOOLEAN]

SharedTypes ==
  /\ pc_h \in [Actor -> {"group", "pre", "bind", "bound", "thrown"}]
  /\ args \in [Actor -> Seq(SharedArguments)] /\ idx \in [Actor -> Nat \ {0}]
  /\ deps \in Seq(SharedDep)

SharesInv ==
  /\ SharedTypes
  /\ \A g \in Actor : pc_h[g] \in {"pre", "bind"} => lock = g
  /\ \A k \in 1 .. Len(deps) : pc_h[deps[k].group] \notin {"group", "pre"}
  /\ \A k, l \in 1 .. Len(deps) :
       pc_h[deps[k].group] = "bind" /\ k <= l => deps[l].group = deps[k].group
  /\ \A k, l, z \in 1 .. Len(deps) :
       k <= l /\ l <= z /\ deps[k].group = deps[z].group => deps[l].group = deps[k].group

LEMMA SharesStart ==
  ASSUME Shares!Init
  PROVE  SharesInv
<1>1. SharedTypes
  BY DEF Shares!Init, SharedTypes
<1>2. deps = << >> /\ \A g \in Actor : pc_h[g] = "group"
  BY DEF Shares!Init
<1>3. Len(deps) = 0
  BY <1>2
<1> QED BY <1>1, <1>2, <1>3 DEF SharesInv

(* A group moves without a dependency.                                     *)
LEMMA SharesMove ==
  ASSUME SharesInv, NEW g \in Actor, UNCHANGED deps, SharedTypes',
         \A h \in Actor : h # g => pc_h'[h] = pc_h[h],
         pc_h'[g] \in {"pre", "bind"} => lock' = g,
         \A h \in Actor : h # g /\ pc_h[h] \in {"pre", "bind"} => lock' = lock,
         pc_h[g] \notin {"group", "pre"} => pc_h'[g] \notin {"group", "pre"},
         pc_h'[g] = "bind" => pc_h[g] \in {"pre", "bind"}
  PROVE  SharesInv'
<1>1. \A k \in 1 .. Len(deps) : deps[k].group \in Actor /\ pc_h[deps[k].group] \notin {"group", "pre"}
  <2>1. \A k \in 1 .. Len(deps) : deps[k] \in SharedDep
    BY DEF SharesInv, SharedTypes
  <2> QED BY <2>1 DEF SharesInv, SharedDep
<1>2. \A h \in Actor : pc_h'[h] \in {"pre", "bind"} => lock' = h
  BY DEF SharesInv
<1>3. \A k \in 1 .. Len(deps) :
        /\ pc_h'[deps[k].group] \notin {"group", "pre"}
        /\ pc_h'[deps[k].group] = "bind" => pc_h[deps[k].group] = "bind"
  BY <1>1
<1> QED BY <1>2, <1>3 DEF SharesInv

LEMMA SharedArgumentsAre ==
  /\ "nobody" \notin Actor
  /\ \A a \in SharedArguments : a.kind = "accessor" => a.buff \in Buffers
BY BindsAreGiven DEF Shares!BindAssumption, Shares!NOBODY

LEMMA SharesBind ==
  ASSUME SharesInv, NEW g \in Actor, Shares!bind(g)
  PROVE  SharesInv'
<1> DEFINE i == idx[g]  a == args[g][i]
<1>1. /\ pc_h[g] = "bind" /\ i <= Len(args[g]) /\ idx' = [idx EXCEPT ![g] = @ + 1]
      /\ UNCHANGED <<pc_h, args, lock>>
  BY DEF Shares!bind
<1>2. idx' \in [Actor -> Nat \ {0}]
  BY <1>1 DEF SharesInv, SharedTypes
<1>3. a \in SharedArguments
  <2>1. args[g] \in Seq(SharedArguments) /\ i \in Nat \ {0}
    BY DEF SharesInv, SharedTypes
  <2> QED BY <1>1, <2>1
<1>4. CASE a.kind # "accessor"
  <2>1. deps' = deps
    BY <1>4 DEF Shares!bind, Shares!BindValue
  <2>2. SharedTypes'
    BY <1>1, <1>2, <2>1 DEF SharesInv, SharedTypes
  <2> QED BY <1>1, <2>1, <2>2, SharesMove DEF SharesInv
<1>5. CASE a.kind = "accessor"
  <2> DEFINE acc == Shares!merged(pairs[g], Shares!place(pairs[g], i))
             d == [group |-> g, buff |-> a.buff, acc |-> acc,
                   copied |-> acc # "write_only" /\ Shares!depends(a.buff, acc) = "host"]
             m == Len(deps) + 1
  <2>1. deps' = Append(deps, d)
    BY <1>5 DEF Shares!bind, Shares!BindAccessor
  <2>2. acc \in {"none", "read_only", "write_only", "read_write"}
    <3>1. \A U : Shares!to_dep(U) \in {"read_only", "write_only", "read_write"}
      BY DEF Shares!to_dep
    <3> QED BY <3>1 DEF Shares!merged
  <2> HIDE DEF acc
  <2>3. d \in SharedDep /\ d.group = g
    BY <1>3, <1>5, <2>2, SharedArgumentsAre DEF SharedDep
  <2> HIDE DEF d
  <2>4. /\ deps' \in Seq(SharedDep) /\ Len(deps') = m /\ m \in Nat /\ Len(deps) \in Nat /\ deps'[m] = d
        /\ \A k \in 1 .. Len(deps) : deps'[k] = deps[k] /\ deps[k].group \in Actor
        /\ \A k \in 1 .. m : k \in 1 .. Len(deps) \/ k = m
    <3>1. deps \in Seq(SharedDep)
      BY DEF SharesInv, SharedTypes
    <3>2. \A k \in 1 .. Len(deps) : deps[k] \in SharedDep
      BY <3>1
    <3> QED BY <2>1, <2>3, <3>1, <3>2 DEF SharedDep
  <2> HIDE DEF m
  <2>5. SharedTypes'
    BY <1>1, <1>2, <2>4 DEF SharesInv, SharedTypes
  <2>6. \A k \in 1 .. Len(deps) : pc_h[deps[k].group] = "bind" <=> deps[k].group = g
    <3>1. ASSUME NEW k \in 1 .. Len(deps), pc_h[deps[k].group] = "bind" PROVE deps[k].group = g
      BY <1>1, <2>4, <3>1 DEF SharesInv
    <3> QED BY <1>1, <3>1
  <2>7. ASSUME NEW k \in 1 .. m, NEW l \in 1 .. m, pc_h[deps'[k].group] = "bind", k <= l
        PROVE  deps'[l].group = deps'[k].group
    <3>1. deps'[k].group = g
      BY <2>3, <2>4, <2>6, <2>7
    <3>2. CASE l = m
      BY <2>3, <2>4, <3>1, <3>2
    <3>3. CASE l \in 1 .. Len(deps)
      <4>1. k \in 1 .. Len(deps)
        BY <2>4, <2>7, <3>3
      <4> QED BY <2>4, <2>7, <3>3, <4>1 DEF SharesInv
    <3> QED BY <2>4, <3>2, <3>3
  <2>8. ASSUME NEW k \in 1 .. m, NEW l \in 1 .. m, NEW z \in 1 .. m, k <= l, l <= z,
               deps'[k].group = deps'[z].group
        PROVE  deps'[l].group = deps'[k].group
    <3>1. CASE z = m
      <4>1. pc_h[deps'[k].group] = "bind"
        BY <1>1, <2>3, <2>4, <2>8, <3>1
      <4> QED BY <2>7, <2>8, <4>1
    <3>2. CASE z \in 1 .. Len(deps)
      <4>1. k \in 1 .. Len(deps) /\ l \in 1 .. Len(deps)
        BY <2>4, <2>8, <3>2
      <4> QED BY <2>4, <2>8, <3>2, <4>1 DEF SharesInv
    <3> QED BY <2>4, <3>1, <3>2
  <2>9. \A k \in 1 .. m : pc_h[deps'[k].group] \notin {"group", "pre"}
    BY <1>1, <2>3, <2>4 DEF SharesInv
  <2>10. \A h \in Actor : pc_h'[h] \in {"pre", "bind"} => lock' = h
    BY <1>1 DEF SharesInv
  <2> QED BY <1>1, <2>4, <2>5, <2>7, <2>8, <2>9, <2>10 DEF SharesInv
<1> QED BY <1>4, <1>5

LEMMA SharesStep ==
  ASSUME SharesInv, Shares!Next \/ UNCHANGED Shares!vars
  PROVE  SharesInv'
<1>1. CASE UNCHANGED Shares!vars
  BY <1>1 DEF Shares!vars, SharesInv, SharedTypes
<1>2. Shares!Finished => UNCHANGED Shares!vars
  BY DEF Shares!Finished
<1>3. ASSUME NEW g \in Actor, Shares!MakeArg(g) PROVE SharesInv'
  <2>1. UNCHANGED <<lock, pc_h, idx, deps>>
    BY <1>3 DEF Shares!MakeArg
  <2>2. args' \in [Actor -> Seq(SharedArguments)]
    <3>1. PICK a \in SharedArguments : args' = [args EXCEPT ![g] = Append(@, a)]
      BY <1>3 DEF Shares!MakeArg
    <3>2. Append(args[g], a) \in Seq(SharedArguments)
      BY DEF SharesInv, SharedTypes
    <3> QED BY <3>1, <3>2 DEF SharesInv, SharedTypes
  <2>3. SharedTypes'
    BY <2>1, <2>2 DEF SharesInv, SharedTypes
  <2> QED BY <2>1, <2>3, SharesMove DEF SharesInv
<1>4. ASSUME NEW g \in Actor, Shares!begin_binds(g) PROVE SharesInv'
  <2>1. /\ pc_h[g] = "group" /\ lock = "nobody" /\ lock' = g /\ pc_h' = [pc_h EXCEPT ![g] = "pre"]
        /\ UNCHANGED <<args, idx, deps>>
    BY <1>4 DEF Shares!begin_binds, Shares!NOBODY
  <2>2. SharedTypes' /\ pc_h'[g] = "pre" /\ \A h \in Actor : h # g => pc_h'[h] = pc_h[h]
    BY <2>1 DEF SharesInv, SharedTypes
  <2>3. \A h \in Actor : pc_h[h] \notin {"pre", "bind"}
    BY <2>1, SharedArgumentsAre DEF SharesInv
  <2> QED BY <2>1, <2>2, <2>3, SharesMove
<1>5. ASSUME NEW g \in Actor, Shares!pre_bind(g) PROVE SharesInv'
  <2>1. pc_h[g] = "pre" /\ idx' = [idx EXCEPT ![g] = @ + 1] /\ UNCHANGED <<lock, pc_h, args, deps>>
    BY <1>5 DEF Shares!pre_bind
  <2>2. SharedTypes'
    BY <2>1 DEF SharesInv, SharedTypes
  <2> QED BY <2>1, <2>2, SharesMove DEF SharesInv
<1>6. ASSUME NEW g \in Actor, Shares!end_pre_binds(g) PROVE SharesInv'
  <2>1. /\ pc_h[g] = "pre" /\ idx' = [idx EXCEPT ![g] = 1] /\ pc_h' = [pc_h EXCEPT ![g] = "bind"]
        /\ UNCHANGED <<lock, args, deps>>
    BY <1>6 DEF Shares!end_pre_binds
  <2>2. SharedTypes' /\ pc_h'[g] = "bind" /\ \A h \in Actor : h # g => pc_h'[h] = pc_h[h]
    BY <2>1 DEF SharesInv, SharedTypes
  <2> QED BY <2>1, <2>2, SharesMove DEF SharesInv
<1>7. ASSUME NEW g \in Actor, Shares!end_binds(g) \/ Shares!bind_throws(g) PROVE SharesInv'
  <2>1. PICK p \in {"bound", "thrown"} :
          /\ pc_h[g] \in {"pre", "bind"} /\ pc_h' = [pc_h EXCEPT ![g] = p]
          /\ UNCHANGED <<args, idx, deps>>
    BY <1>7 DEF Shares!end_binds, Shares!bind_throws
  <2>2. SharedTypes' /\ pc_h'[g] = p /\ \A h \in Actor : h # g => pc_h'[h] = pc_h[h]
    BY <2>1 DEF SharesInv, SharedTypes
  <2>3. \A h \in Actor : h # g => pc_h[h] \notin {"pre", "bind"}
    BY <2>1 DEF SharesInv
  <2> QED BY <2>1, <2>2, <2>3, SharesMove
<1> QED BY <1>1, <1>2, <1>3, <1>4, <1>5, <1>6, <1>7, SharesBind DEF Shares!Next, Shares!do_bind

LEMMA SharesIsRight ==
  ASSUME SharesInv
  PROVE  Shares!SameOrder
<1> SUFFICES ASSUME NEW g \in Actor, NEW h \in Actor, g # h,
                    NEW k1 \in 1 .. Len(deps), NEW k2 \in 1 .. Len(deps),
                    NEW l1 \in 1 .. Len(deps), NEW l2 \in 1 .. Len(deps),
                    deps[k1].group = g, deps[k2].group = h, deps[l1].group = g, deps[l2].group = h,
                    k1 < k2
             PROVE  l1 < l2
  BY DEF Shares!SameOrder
<1>1. Len(deps) \in Nat
  BY DEF SharesInv, SharedTypes
<1>2. ~(k1 <= k2 /\ k2 <= l1)
  BY DEF SharesInv
<1>3. ~(l2 <= l1 /\ l1 <= k2)
  BY DEF SharesInv
<1> QED BY <1>1, <1>2, <1>3

BindParts == (part = "binds" => BindInv) /\ (part = "shares" => SharesInv)

(* handler.ipp, handler.cpp: however many accessors of however many        *)
(* buffers a command group has, in whatever order and of whatever modes:   *)
(* one dependency for each buffer, which covers all of them, and one copy  *)
(* at most; local memory and values apart and aligned; and the buffers     *)
(* that any number of groups share bound in one order, for all that        *)
(* throws.                                                                 *)
THEOREM BindsAreRight == Spec => []OneDependency
<1>1. Init => BindParts
  BY BindsStart, SharesStart DEF Init, Begins, BindParts
<1>2. BindParts /\ [Next]_vars => BindParts'
  BY BindStep, SharesStep DEF Next, Moves, BindParts, vars, bind_vars, Binds!vars, Shares!vars,
     Binds!local, Shares!local
<1>3. BindParts => OneDependency
  BY BindIsRight, SharesIsRight DEF BindParts, OneDependency
<1> QED BY <1>1, <1>2, <1>3, PTL DEF Spec
-----------------------------------------------------------------------------
(* The types of what launches kernels.  Fibers and back ends have them in  *)
(* their invariants; those of the loader and of the binds follow.          *)
LEMMA OmpTypesStart ==
  ASSUME Omp!Init
  PROVE  Omp!TypeOK
<1>1. /\ registry \in [Omp!Kind -> SUBSET Kernel] /\ kinds \subseteq Omp!Kind
      /\ job \in [Actor -> [name : Kernel, args : Jobs]]
      /\ pc_o = [w \in Actor |-> "idle"] /\ given = [w \in Actor |-> 0]
      /\ g_mutex = NoOne /\ g_lock = FALSE /\ g_kinfo = [name |-> NoOne, kind |-> "cpu-c"]
  BY DEF Omp!Init, Omp!NoKernel
<1>2. args_o \in Seq(Omp!Cell) /\ arg_next \in Omp!Cell
  BY OmpConstants DEF Omp!Init, Omp!Cell
<1>3. arg_data \in [Omp!Cell -> (Actor \X Nat) \union {Omp!Nothing}]
  BY DEF Omp!Init
<1>4. g_kinfo \in [name : Kernel \union {NoOne}, kind : Omp!Kind]
  BY <1>1 DEF Omp!Kind
<1> QED BY <1>1, <1>2, <1>3, <1>4 DEF Omp!TypeOK

(* What is built up under the mutex.                                       *)
LEMMA OmpTypesFind ==
  ASSUME OmpInv, OmpInv', Omp!TypeOK, NEW w \in Actor, Omp!FindKernel(w)
  PROVE  Omp!TypeOK'
<1>1. /\ UNCHANGED <<registry, job, given, arg_data>>
      /\ kinds' = kinds \union Omp!Asked(job[w].name)
  BY DEF Omp!FindKernel, Omp!g_vars
<1>2. kinds' \subseteq Omp!Kind
  BY <1>1 DEF Omp!Asked, Omp!Kind, Omp!TypeOK
<1>3. /\ g_lock' \in BOOLEAN /\ args_o' \in Seq(Omp!Cell) /\ arg_next' \in Omp!Cell
      /\ g_mutex' \in Actor \union {NoOne}
  <2>1. CASE Omp!Found(job[w].name) = {}
    BY <2>1 DEF Omp!FindKernel, Omp!g_vars, Omp!TypeOK
  <2>2. CASE Omp!Found(job[w].name) # {}
    <3>1. g_mutex' = w /\ g_lock' = (w # NoOne) /\ args_o' = << >> /\ arg_next' = 0
      BY <2>2 DEF Omp!FindKernel, Omp!Keeps, Omp!Start
    <3>2. 0 \in Omp!Cell
      BY OmpConstants DEF Omp!Cell
    <3> QED BY <3>1, <3>2
  <2> QED BY <2>1, <2>2
<1>4. g_kinfo' \in [name : Kernel \union {NoOne}, kind : Omp!Kind]
  <2>1. CASE UNCHANGED g_kinfo
    BY <2>1 DEF Omp!TypeOK
  <2>2. CASE \E k \in Omp!Found(job[w].name) : g_kinfo' = [name |-> job[w].name, kind |-> k]
    <3>1. Omp!Found(job[w].name) \subseteq Omp!Kind /\ job[w].name \in Kernel
      BY DEF Omp!Found, Omp!Kind, Omp!TypeOK
    <3> QED BY <2>2, <3>1
  <2> QED BY <2>1, <2>2 DEF Omp!FindKernel, Omp!g_vars
<1>5. /\ pc_o' \in [Actor -> {"idle", "locked", "args", "error", "done"}]
      /\ \A u \in Actor : pc_o'[u] \in {"locked", "args"} => g_mutex' = u
  BY DEF OmpInv, OmpTypes
<1> QED BY <1>1, <1>2, <1>3, <1>4, <1>5 DEF Omp!TypeOK

LEMMA OmpTypesSet ==
  ASSUME OmpInv, OmpInv', Omp!TypeOK, NEW w \in Actor, Omp!SetArg(w)
  PROVE  Omp!TypeOK'
<1> DEFINE i == given[w] + 1  arg == job[w].args[i]
           ptr == Omp!AlignedUp(arg_next, Omp!Align(arg))
<1>1. /\ UNCHANGED <<registry, kinds, pc_o, job, g_mutex, g_lock, g_kinfo>>
      /\ given' = [given EXCEPT ![w] = i] /\ given[w] < Len(job[w].args)
  BY DEF Omp!SetArg
<1>2. given' \in [Actor -> Nat] /\ given[w] \in Nat
  BY <1>1 DEF Omp!TypeOK
<1>3. CASE Len(args_o) >= MAX_N_ARGS
  <2>1. UNCHANGED <<args_o, arg_next, arg_data>>
    BY <1>3 DEF Omp!SetArg
  <2> QED BY <1>1, <1>2, <2>1 DEF Omp!TypeOK
<1>4. CASE ~(Len(args_o) >= MAX_N_ARGS)
  <2>1. /\ args_o' = Append(args_o, ptr) /\ arg_next' = ptr + arg.size
        /\ arg_data' = [c \in Omp!Cell |->
             IF c \in ptr .. (ptr + arg.size - 1) THEN <<w, i>> ELSE arg_data[c]]
    BY <1>4 DEF Omp!SetArg
  <2>2. arg \in Omp!Arg /\ arg.size \in Nat
    <3>1. Len(job[w].args) \in Nat /\ i \in 1 .. Len(job[w].args)
      BY <1>1, <1>2, JobTypes DEF OmpInv
    <3> QED BY <3>1, JobTypes DEF OmpInv
  <2>3. arg_next \in Nat /\ arg_next' \in 0 .. ARG_BUF_SIZE
    BY OmpConstants DEF OmpInv, OmpTypes
  <2>4. ptr \in Nat
    BY <2>2, <2>3, AlignsUp
  <2> HIDE DEF ptr, arg
  <2>5. ptr \in Omp!Cell /\ arg_next' \in Omp!Cell
    BY <2>1, <2>2, <2>3, <2>4, OmpConstants DEF Omp!Cell
  <2>6. args_o' \in Seq(Omp!Cell)
    BY <2>1, <2>5 DEF Omp!TypeOK
  <2>7. <<w, i>> \in Actor \X Nat
    BY <1>2
  <2> HIDE DEF i
  <2>8. arg_data' \in [Omp!Cell -> (Actor \X Nat) \union {Omp!Nothing}]
    BY <2>1, <2>7 DEF Omp!TypeOK
  <2> QED BY <1>1, <1>2, <2>5, <2>6, <2>8 DEF Omp!TypeOK
<1> QED BY <1>3, <1>4

LEMMA OmpTypesStep ==
  ASSUME OmpInv, OmpInv', Omp!TypeOK, [Omp!Next]_omp_vars
  PROVE  Omp!TypeOK'
<1>1. CASE Omp!Finished \/ UNCHANGED omp_vars
  BY <1>1 DEF Omp!Finished, Omp!vars, omp_vars, Omp!TypeOK
<1>2. ASSUME NEW w \in Actor, Omp!Lock(w) \/ Omp!Launch(w)
      PROVE  Omp!TypeOK'
  <2>1. /\ UNCHANGED <<registry, kinds, job, given, g_kinfo, args_o, arg_next, arg_data>>
        /\ g_lock' \in BOOLEAN /\ g_mutex' \in Actor \union {NoOne}
    BY <1>2 DEF Omp!Lock, Omp!Launch, Omp!Released, Omp!g_vars, Omp!TypeOK
  <2>2. /\ pc_o' \in [Actor -> {"idle", "locked", "args", "error", "done"}]
        /\ \A u \in Actor : pc_o'[u] \in {"locked", "args"} => g_mutex' = u
    BY DEF OmpInv, OmpTypes
  <2> QED BY <2>1, <2>2 DEF Omp!TypeOK
<1> QED BY <1>1, <1>2, OmpTypesFind, OmpTypesSet DEF Omp!Next, Omp!Call
-----------------------------------------------------------------------------
(* The binds of one group, and of several.                                 *)
LEMMA BindTypesStart ==
  ASSUME Binds!Init
  PROVE  Binds!TypeOK
<1>1. deps = << >> /\ latest = {} /\ << >> \in Seq(Binds!Dep)
  BY DEF Binds!Init
<1>2. lock = Binds!NOBODY /\ pc_h = [g \in {ONE} |-> "group"] /\ ONE # Binds!NOBODY
  BY BindsAreGiven DEF Binds!Init, Binds!BindAssumption
<1>3. /\ args = [g \in {ONE} |-> << >>] /\ pairs = [g \in {ONE} |-> << >>]
      /\ idx = [g \in {ONE} |-> 1]
  BY DEF Binds!Init
<1> QED BY <1>1, <1>2, <1>3 DEF Binds!TypeOK

BindPair == [idx : Nat, buff : Buffers \union {Binds!NULL}, mode : SUBSET Binds!Bits]

(* A pair that pre_bind fills, or a list of pairs in another order.        *)
LEMMA BindPairTypes ==
  /\ Binds!Fresh \in BindPair
  /\ \A p \in BindPair, i \in Nat : [p EXCEPT !.idx = i] \in BindPair
  /\ \A i \in Nat, b \in Buffers, m \in Binds!Modes :
       [idx |-> i, buff |-> b, mode |-> Binds!Mode(m)] \in BindPair
<1>1. Binds!Fresh \in BindPair
  BY DEF Binds!Fresh, Binds!NULL, BindPair
<1>2. \A p \in BindPair, i \in Nat : [p EXCEPT !.idx = i] \in BindPair
  BY DEF BindPair
<1> QED BY <1>1, <1>2, ModeType DEF BindPair

LEMMA SortedTypes ==
  ASSUME NEW ps \in Seq(BindPair), NEW qs \in Binds!Sorted(ps)
  PROVE  qs \in Seq(BindPair)
<1> DEFINE places == DOMAIN ps
<1>1. PICK p \in [places -> places] : qs = [k \in places |-> ps[p[k]]]
  BY DEF Binds!Sorted
<1>2. places = 1 .. Len(ps) /\ Len(ps) \in Nat /\ \A k \in places : ps[p[k]] \in BindPair
  BY <1>1
<1> QED BY <1>1, <1>2

LEMMA BindTypesArgument ==
  ASSUME BindInv, Binds!TypeOK, Binds!bind(ONE)
  PROVE  deps' \in Seq(Binds!Dep) /\ latest' \subseteq Buffers
<1> DEFINE i == idx[ONE]  a == args[ONE][i]
           acc == Binds!merged(pairs[ONE], Binds!place(pairs[ONE], i))
           d == [group |-> ONE, buff |-> a.buff, acc |-> acc,
                 copied |-> acc # "write_only" /\ Binds!depends(a.buff, acc) = "host"]
<1>1. pc_h[ONE] = "bind" /\ i \in 1 .. Len(args[ONE]) /\ a \in Arguments
  BY BindFacts DEF Binds!bind, BindInv, Bound
<1>2. CASE a.kind # "accessor"
  BY <1>2 DEF Binds!bind, Binds!BindValue, Binds!TypeOK
<1>3. CASE a.kind = "accessor"
  <2>1. deps' = Append(deps, d) /\ latest' \subseteq latest \union {a.buff}
    BY <1>3 DEF Binds!bind, Binds!BindAccessor
  <2>2. a.buff \in Buffers
    BY <1>1, <1>3, ArgumentsAre
  <2>3. acc \in {"none", "read_only", "write_only", "read_write"}
    <3>1. \A U : Binds!to_dep(U) \in {"read_only", "write_only", "read_write"}
      BY DEF Binds!to_dep
    <3> QED BY <3>1 DEF Binds!merged
  <2> HIDE DEF acc
  <2>4. d \in Binds!Dep
    BY <2>2, <2>3 DEF Binds!Dep
  <2> QED BY <2>1, <2>2, <2>4 DEF Binds!TypeOK
<1> QED BY <1>2, <1>3

LEMMA BindTypesStep ==
  ASSUME BindInv, BindInv', Binds!TypeOK, Binds!Next \/ UNCHANGED Binds!vars
  PROVE  Binds!TypeOK'
<1>1. /\ pc_h' \in [{ONE} -> {"group", "pre", "bind", "bound", "thrown"}]
      /\ args' \in [{ONE} -> Seq(Arguments)] /\ idx' \in [{ONE} -> Nat]
  BY DEF BindInv, BindTypes
<1>2. ONE # Binds!NOBODY
  BY BindsAreGiven DEF Binds!BindAssumption
<1>3. pairs \in [{ONE} -> Seq(BindPair)]
  BY DEF Binds!TypeOK, BindPair
<1>4. ASSUME UNCHANGED <<lock, pc_h, pairs, deps, latest>> PROVE Binds!TypeOK'
  BY <1>1, <1>4 DEF Binds!TypeOK
<1>5. CASE Binds!begin_binds(ONE)
  <2>1. [k \in 1 .. Len(args[ONE]) |-> Binds!Fresh] \in Seq(BindPair)
    BY BindFacts, BindPairTypes
  <2>2. pairs' \in [{ONE} -> Seq(BindPair)]
    BY <1>3, <1>5, <2>1 DEF Binds!begin_binds
  <2>3. pc_h'[ONE] = "pre" /\ lock' = ONE /\ UNCHANGED <<deps, latest>>
    BY <1>5 DEF Binds!begin_binds, Binds!TypeOK
  <2> QED BY <1>1, <2>2, <2>3 DEF Binds!TypeOK, BindPair
<1>6. CASE Binds!pre_bind(ONE)
  <2> DEFINE i == idx[ONE]  a == args[ONE][i]
             p == IF a.kind = "accessor"
                    THEN [idx |-> i, buff |-> a.buff, mode |-> Binds!Mode(a.mode)]
                    ELSE [pairs[ONE][i] EXCEPT !.idx = i]
  <2>1. pairs' = [pairs EXCEPT ![ONE] = [pairs[ONE] EXCEPT ![i] = p]]
    BY <1>6, <1>3 DEF Binds!pre_bind
  <2>2. pairs[ONE] \in Seq(BindPair) /\ i \in 1 .. Len(pairs[ONE]) /\ a \in Arguments
    BY <1>6, <1>3, BindFacts DEF Binds!pre_bind, BindInv, PreBound
  <2>3. p \in BindPair
    <3>1. CASE a.kind = "accessor"
      <4>1. a.buff \in Buffers /\ a.mode \in Binds!Modes /\ i \in Nat
        BY <2>2, <3>1, ArgumentsAre DEF Binds!TypeOK
      <4> QED BY <3>1, <4>1, BindPairTypes
    <3>2. CASE a.kind # "accessor"
      <4>1. i \in Nat
        BY <2>2
      <4>2. pairs[ONE][i] \in BindPair
        BY <2>2
      <4> QED BY <3>2, <4>1, <4>2, BindPairTypes
    <3> QED BY <3>1, <3>2
  <2> HIDE DEF p, i
  <2>4. [pairs[ONE] EXCEPT ![i] = p] \in Seq(BindPair)
    BY <2>2, <2>3
  <2>5. pairs' \in [{ONE} -> Seq(BindPair)]
    BY <1>3, <2>1, <2>4
  <2>6. UNCHANGED <<lock, pc_h, deps, latest>>
    BY <1>6 DEF Binds!pre_bind
  <2> QED BY <1>1, <2>5, <2>6 DEF Binds!TypeOK, BindPair
<1>7. CASE Binds!end_pre_binds(ONE)
  <2>1. PICK qs \in Binds!Sorted(pairs[ONE]) : pairs' = [pairs EXCEPT ![ONE] = qs]
    BY <1>7 DEF Binds!end_pre_binds
  <2>2. qs \in Seq(BindPair)
    BY <1>3, SortedTypes
  <2>3. pairs' \in [{ONE} -> Seq(BindPair)]
    BY <1>3, <2>1, <2>2
  <2>4. pc_h[ONE] = "pre" /\ pc_h'[ONE] = "bind" /\ UNCHANGED <<lock, deps, latest>>
    BY <1>7 DEF Binds!end_pre_binds, Binds!TypeOK
  <2> QED BY <1>1, <2>3, <2>4 DEF Binds!TypeOK, BindPair
<1>8. CASE Binds!bind(ONE)
  <2>1. UNCHANGED <<lock, pc_h, pairs>>
    BY <1>8 DEF Binds!bind
  <2> QED BY <1>1, <1>8, <2>1, BindTypesArgument DEF Binds!TypeOK
<1>9. CASE Binds!end_binds(ONE) \/ Binds!bind_throws(ONE)
  <2>1. /\ pc_h'[ONE] \in {"bound", "thrown"} /\ lock' = Binds!NOBODY
        /\ UNCHANGED <<pairs, deps, latest>>
    BY <1>9 DEF Binds!end_binds, Binds!bind_throws, Binds!TypeOK
  <2> QED BY <1>1, <1>2, <2>1 DEF Binds!TypeOK
<1>10. CASE UNCHANGED Binds!vars \/ Binds!Finished \/ Binds!MakeArg(ONE)
  BY <1>4, <1>10 DEF Binds!vars, Binds!Finished, Binds!MakeArg
<1> QED BY <1>5, <1>6, <1>7, <1>8, <1>9, <1>10 DEF Binds!Next, Binds!do_bind

LEMMA SharedModes ==
  ASSUME NEW a \in SharedArguments, a.kind = "accessor"
  PROVE  a.buff \in Buffers /\ a.mode \in Binds!Modes
<1>1. Shares!Modes = Binds!Modes
  BY DEF Shares!Modes, Binds!Modes
<1> QED BY <1>1, BindsAreGiven DEF Shares!BindAssumption

LEMMA SharedTypesStart ==
  ASSUME Shares!Init
  PROVE  Shares!TypeOK
<1>1. deps = << >> /\ latest = {} /\ << >> \in Seq(Shares!Dep)
  BY DEF Shares!Init
<1>2. lock = Shares!NOBODY /\ pc_h = [g \in Actor |-> "group"] /\ Shares!NOBODY \notin Actor
  BY BindsAreGiven DEF Shares!Init, Shares!BindAssumption
<1>3. /\ args = [g \in Actor |-> << >>] /\ pairs = [g \in Actor |-> << >>]
      /\ idx = [g \in Actor |-> 1]
  BY DEF Shares!Init
<1> QED BY <1>1, <1>2, <1>3 DEF Shares!TypeOK

LEMMA SharedTypesArgument ==
  ASSUME SharesInv, Shares!TypeOK, NEW g \in Actor, Shares!bind(g)
  PROVE  deps' \in Seq(Shares!Dep) /\ latest' \subseteq Buffers
<1> DEFINE i == idx[g]  a == args[g][i]
           acc == Shares!merged(pairs[g], Shares!place(pairs[g], i))
           d == [group |-> g, buff |-> a.buff, acc |-> acc,
                 copied |-> acc # "write_only" /\ Shares!depends(a.buff, acc) = "host"]
<1>1. a \in SharedArguments
  <2>1. args[g] \in Seq(SharedArguments) /\ i \in 1 .. Len(args[g])
    BY DEF Shares!bind, SharesInv, SharedTypes
  <2> QED BY <2>1
<1>2. CASE a.kind # "accessor"
  BY <1>2 DEF Shares!bind, Shares!BindValue, Shares!TypeOK
<1>3. CASE a.kind = "accessor"
  <2>1. deps' = Append(deps, d) /\ latest' \subseteq latest \union {a.buff}
    BY <1>3 DEF Shares!bind, Shares!BindAccessor
  <2>2. a.buff \in Buffers
    BY <1>1, <1>3, SharedModes
  <2>3. acc \in {"none", "read_only", "write_only", "read_write"}
    <3>1. \A U : Shares!to_dep(U) \in {"read_only", "write_only", "read_write"}
      BY DEF Shares!to_dep
    <3> QED BY <3>1 DEF Shares!merged
  <2> HIDE DEF acc
  <2>4. d \in Shares!Dep
    BY <2>2, <2>3 DEF Shares!Dep
  <2> QED BY <2>1, <2>2, <2>4 DEF Shares!TypeOK
<1> QED BY <1>2, <1>3

(* The pairs of a group that shares.                                       *)
LEMMA SharedPairs ==
  ASSUME SharesInv, Shares!TypeOK, NEW g \in Actor,
         Shares!begin_binds(g) \/ Shares!pre_bind(g) \/ Shares!end_pre_binds(g)
  PROVE  pairs' \in [Actor -> Seq(BindPair)]
<1>1. /\ Shares!Fresh = Binds!Fresh /\ \A ps : Shares!Sorted(ps) = Binds!Sorted(ps)
      /\ \A m \in Binds!Modes : Shares!Mode(m) = Binds!Mode(m)
  BY DEF Shares!Fresh, Binds!Fresh, Shares!Sorted, Binds!Sorted, Shares!Before, Binds!Before,
     Shares!Mode, Binds!Mode, Binds!Modes, Shares!NULL, Binds!NULL
<1>2. pairs \in [Actor -> Seq(BindPair)]
  BY DEF Shares!TypeOK, BindPair, Binds!NULL, Shares!NULL, Binds!Bits, Shares!Bits
<1>3. args[g] \in Seq(SharedArguments) /\ Len(args[g]) \in Nat /\ idx[g] \in Nat \ {0}
  BY DEF SharesInv, SharedTypes
<1>4. CASE Shares!begin_binds(g)
  <2>1. [k \in 1 .. Len(args[g]) |-> Shares!Fresh] \in Seq(BindPair)
    BY <1>1, <1>3, BindPairTypes
  <2> QED BY <1>2, <1>4, <2>1 DEF Shares!begin_binds
<1>5. CASE Shares!pre_bind(g)
  <2> DEFINE i == idx[g]  a == args[g][i]
             p == IF a.kind = "accessor"
                    THEN [idx |-> i, buff |-> a.buff, mode |-> Shares!Mode(a.mode)]
                    ELSE [pairs[g][i] EXCEPT !.idx = i]
  <2>1. pairs' = [pairs EXCEPT ![g] = [pairs[g] EXCEPT ![i] = p]]
    BY <1>2, <1>5 DEF Shares!pre_bind
  <2>2. a \in SharedArguments
    BY <1>3, <1>5 DEF Shares!pre_bind
  <2>3. ASSUME i \in 1 .. Len(pairs[g]) PROVE p \in BindPair
    <3>1. CASE a.kind = "accessor"
      BY <1>1, <1>3, <2>2, <3>1, SharedModes, BindPairTypes
    <3>2. CASE a.kind # "accessor"
      <4>1. pairs[g][i] \in BindPair /\ i \in Nat
        BY <1>2, <1>3, <2>3
      <4> QED BY <3>2, <4>1, BindPairTypes
    <3> QED BY <3>1, <3>2
  <2> HIDE DEF p, i
  <2>4. pairs[g] \in Seq(BindPair) /\ DOMAIN pairs[g] = 1 .. Len(pairs[g])
    BY <1>2
  <2>5. [pairs[g] EXCEPT ![i] = p] \in Seq(BindPair)
    <3>1. CASE i \in 1 .. Len(pairs[g])
      BY <2>3, <2>4, <3>1
    <3>2. CASE i \notin 1 .. Len(pairs[g])
      <4>1. [pairs[g] EXCEPT ![i] = p] = pairs[g]
        BY <2>4, <3>2
      <4> QED BY <2>4, <4>1
    <3> QED BY <3>1, <3>2
  <2> QED BY <1>2, <2>1, <2>5
<1>6. CASE Shares!end_pre_binds(g)
  <2>1. PICK qs \in Shares!Sorted(pairs[g]) : pairs' = [pairs EXCEPT ![g] = qs]
    BY <1>6 DEF Shares!end_pre_binds
  <2>2. qs \in Seq(BindPair)
    BY <1>1, <1>2, SortedTypes
  <2> QED BY <1>2, <2>1, <2>2
<1> QED BY <1>4, <1>5, <1>6

LEMMA SharedTypesStep ==
  ASSUME SharesInv, SharesInv', Shares!TypeOK, Shares!Next \/ UNCHANGED Shares!vars
  PROVE  Shares!TypeOK'
<1>1. /\ pc_h' \in [Actor -> {"group", "pre", "bind", "bound", "thrown"}]
      /\ args' \in [Actor -> Seq(SharedArguments)] /\ idx' \in [Actor -> Nat]
  BY DEF SharesInv, SharedTypes
<1>2. Shares!NOBODY \notin Actor
  BY BindsAreGiven DEF Shares!BindAssumption
<1> DEFINE Held == /\ lock \in Actor \union {Shares!NOBODY}
                   /\ \A h \in Actor : pc_h[h] \in {"pre", "bind"} <=> lock = h
<1>3. Held
  BY DEF Shares!TypeOK
<1>4. ASSUME UNCHANGED <<lock, pc_h, pairs, deps, latest>> PROVE Shares!TypeOK'
  BY <1>1, <1>4 DEF Shares!TypeOK
<1>5. ASSUME NEW g \in Actor,
             Shares!begin_binds(g) \/ Shares!pre_bind(g) \/ Shares!end_pre_binds(g)
      PROVE  Shares!TypeOK'
  <2>1. pairs' \in [Actor -> Seq([idx : Nat, buff : Buffers \union {Shares!NULL}, mode : SUBSET Shares!Bits])]
    BY <1>5, SharedPairs DEF BindPair, Binds!NULL, Shares!NULL, Binds!Bits, Shares!Bits
  <2>2. UNCHANGED <<deps, latest>>
    BY <1>5 DEF Shares!begin_binds, Shares!pre_bind, Shares!end_pre_binds
  <2>3. \/ pc_h' = [pc_h EXCEPT ![g] = "pre"] /\ lock = Shares!NOBODY /\ lock' = g
        \/ UNCHANGED <<pc_h, lock>>
        \/ pc_h[g] = "pre" /\ pc_h' = [pc_h EXCEPT ![g] = "bind"] /\ UNCHANGED lock
    BY <1>5 DEF Shares!begin_binds, Shares!pre_bind, Shares!end_pre_binds
  <2>4. Held'
    BY <1>2, <1>3, <2>3 DEF Shares!TypeOK
  <2> QED BY <1>1, <2>1, <2>2, <2>4 DEF Shares!TypeOK
<1>6. ASSUME NEW g \in Actor, Shares!bind(g) PROVE Shares!TypeOK'
  <2>1. UNCHANGED <<lock, pc_h, pairs>>
    BY <1>6 DEF Shares!bind
  <2> QED BY <1>1, <1>6, <2>1, SharedTypesArgument DEF Shares!TypeOK
<1>7. ASSUME NEW g \in Actor, Shares!end_binds(g) \/ Shares!bind_throws(g) PROVE Shares!TypeOK'
  <2>1. /\ pc_h[g] \in {"pre", "bind"} /\ lock' = Shares!NOBODY
        /\ \E p \in {"bound", "thrown"} : pc_h' = [pc_h EXCEPT ![g] = p]
        /\ UNCHANGED <<pairs, deps, latest>>
    BY <1>7 DEF Shares!end_binds, Shares!bind_throws
  <2>2. Held'
    BY <1>2, <1>3, <2>1 DEF Shares!TypeOK
  <2> QED BY <1>1, <2>1, <2>2 DEF Shares!TypeOK
<1>8. ASSUME NEW g \in Actor, Shares!MakeArg(g) PROVE Shares!TypeOK'
  BY <1>4, <1>8 DEF Shares!MakeArg
<1>9. CASE UNCHANGED Shares!vars \/ Shares!Finished
  BY <1>4, <1>9 DEF Shares!vars, Shares!Finished
<1> QED BY <1>5, <1>6, <1>7, <1>8, <1>9 DEF Shares!Next, Shares!do_bind

(* The launching parts have their types in every state.                    *)
LaunchTypes ==
  /\ part = "fiber" => Fiber!TypeOK
  /\ part = "binds" => Binds!TypeOK
  /\ part = "shares" => Shares!TypeOK
  /\ part = "makes" => Makes!TypeOK
  /\ part = "remakes" => Remakes!TypeOK
  /\ part = "omp" => Omp!TypeOK

LaunchParts == FiberPart /\ OmpPart /\ SubsystemParts /\ BindParts

LEMMA LaunchTypesHold == Spec => []LaunchTypes
<1>1. Init => LaunchParts
  BY FiberStarts, OmpStarts, MakesStarts, RemakesStarts, BindsStart, SharesStart
     DEF Init, Begins, LaunchParts, FiberPart, OmpPart, SubsystemParts, BindParts
<1>2. LaunchParts /\ [Next]_vars => LaunchParts'
  <2> SUFFICES ASSUME LaunchParts, [Next]_vars PROVE LaunchParts'
    OBVIOUS
  <2>1. FiberPart' /\ OmpPart' /\ SubsystemParts'
    BY FiberStep, OmpStep, MakesStep, RemakesStep
       DEF Next, Moves, LaunchParts, FiberPart, OmpPart, SubsystemParts, vars
  <2>2. BindParts'
    BY BindStep, SharesStep DEF Next, Moves, LaunchParts, BindParts, vars, bind_vars, Binds!vars,
       Shares!vars, Binds!local, Shares!local
  <2> QED BY <2>1, <2>2 DEF LaunchParts
<1>3. Init => LaunchTypes
  <2> SUFFICES ASSUME Init PROVE LaunchTypes
    OBVIOUS
  <2>1. part \in {"fiber", "makes", "remakes"} => LaunchTypes
    BY <1>1 DEF LaunchParts, LaunchTypes, FiberPart, SubsystemParts, FiberInv, MakesInv, RemakesInv
  <2>2. part \in {"binds", "shares", "omp"} => LaunchTypes
    BY BindTypesStart, SharedTypesStart, OmpTypesStart DEF Init, Begins, LaunchTypes
  <2> QED BY <2>1, <2>2 DEF LaunchTypes
<1>4. LaunchParts /\ LaunchParts' /\ LaunchTypes /\ [Next]_vars => LaunchTypes'
  <2> SUFFICES ASSUME LaunchParts, LaunchParts', LaunchTypes, [Next]_vars PROVE LaunchTypes'
    OBVIOUS
  <2>1. part' = part
    BY DEF Next, vars
  <2>2. CASE part \in {"fiber", "makes", "remakes"}
    BY <2>1, <2>2
       DEF LaunchParts, LaunchTypes, FiberPart, SubsystemParts, FiberInv, MakesInv, RemakesInv
  <2>3. CASE part = "omp"
    BY <2>1, <2>3, OmpTypesStep DEF LaunchParts, LaunchTypes, OmpPart, Next, Moves, vars
  <2>4. CASE part \in {"binds", "shares"}
    BY <2>1, <2>4, BindTypesStep, SharedTypesStep
       DEF LaunchParts, LaunchTypes, BindParts, Next, Moves, vars, bind_vars, Binds!vars,
           Shares!vars, Binds!local, Shares!local
  <2> QED BY <2>1, <2>2, <2>3, <2>4 DEF LaunchTypes
<1> QED BY <1>1, <1>2, <1>3, <1>4, PTL DEF Spec
=============================================================================
