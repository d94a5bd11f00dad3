----------------------------- MODULE WaitProofs -----------------------------
(* What a program may rely on after it has waited: queue::wait returns     *)
(* when all that was submitted before has run, and the last destructor of  *)
(* a buffer leaves the data at the host's pointer, and an operation of     *)
(* CUDA is issued when all that it waits for has run, as the threads wait  *)
(* for their streams; and the types of all parts.  For every value of      *)
(* MCRuntime's constants.                                                  *)
EXTENDS LaunchProofs, FiniteSetTheorems, TLAPS

Top == 2 ^ Width

(* The instances have definitions of their own of what FiniteSets defines. *)
LEMMA QueueSets ==
  \A S : (Queue!IsFiniteSet(S) <=> IsFiniteSet(S)) /\ Queue!Cardinality(S) = Cardinality(S)
BY DEF Queue!IsFiniteSet, IsFiniteSet, Queue!Cardinality, Cardinality

LEMMA QueueConstants ==
  /\ IsFiniteSet(Command) /\ Cardinality(Command) \in Nat
  /\ Top \in Nat /\ 2 * Cardinality(Command) + 1 < Top
<1>1. IsFiniteSet(Command)
  BY QueueIsGiven, QueueSets DEF Queue!CountersFit
<1> QED BY <1>1, FS_CardinalityType, QueueIsGiven, QueueSets DEF Queue!CountersFit, Top

LEMMA Increments ==
  ASSUME NEW i \in Nat, i + 1 < Top
  PROVE  Queue!Inc(i) = i + 1
<1>1. Top \in Nat
  BY QueueConstants
<1>2. (i + 1) % Top = i + 1
  BY <1>1
<1> QED BY <1>2 DEF Queue!Inc, Top
-----------------------------------------------------------------------------
(* How often a barrier has counted an event that is still pending.         *)
Once == {t \in Command : owed[t] > 0}
Twice == {t \in Command : owed[t] > 1}
Counted == Cardinality(Once) + Cardinality(Twice)

OwedType == owed \in [Command -> 0 .. 2]

LEMMA CountedType ==
  ASSUME OwedType
  PROVE  /\ IsFiniteSet(Once) /\ IsFiniteSet(Twice) /\ Counted \in Nat
         /\ Counted = 0 <=> \A t \in Command : owed[t] = 0
<1>1. IsFiniteSet(Once) /\ IsFiniteSet(Twice)
  BY QueueConstants, FS_Subset DEF Once, Twice
<1>2. Cardinality(Once) \in Nat /\ Cardinality(Twice) \in Nat
  BY <1>1, FS_CardinalityType
<1>3. Counted = 0 <=> Once = {} /\ Twice = {}
  BY <1>1, <1>2, FS_EmptySet DEF Counted
<1>4. Once = {} /\ Twice = {} <=> \A t \in Command : owed[t] = 0
  BY DEF OwedType, Once, Twice
<1> QED BY <1>1, <1>2, <1>3, <1>4 DEF Counted

LEMMA CountsUp ==
  ASSUME OwedType, NEW t \in Command, owed[t] < 2, owed' = [owed EXCEPT ![t] = @ + 1]
  PROVE  OwedType' /\ Counted' = Counted + 1
<1>1. IsFiniteSet(Once) /\ IsFiniteSet(Twice) /\ Cardinality(Once) \in Nat /\ Cardinality(Twice) \in Nat
  BY CountedType, FS_CardinalityType
<1>2. OwedType'
  BY DEF OwedType
<1>3. CASE owed[t] = 0
  <2>1. Once' = Once \union {t} /\ t \notin Once /\ Twice' = Twice
    BY <1>3 DEF OwedType, Once, Twice
  <2>2. Cardinality(Once') = Cardinality(Once) + 1
    BY <1>1, <2>1, FS_AddElement
  <2> QED BY <1>1, <1>2, <2>1, <2>2 DEF Counted
<1>4. CASE owed[t] = 1
  <2>1. Once' = Once /\ t \notin Twice /\ Twice' = Twice \union {t}
    BY <1>4 DEF OwedType, Once, Twice
  <2>2. Cardinality(Twice') = Cardinality(Twice) + 1
    BY <1>1, <2>1, FS_AddElement
  <2> QED BY <1>1, <1>2, <2>1, <2>2 DEF Counted
<1> QED BY <1>3, <1>4 DEF OwedType

LEMMA CountsDown ==
  ASSUME OwedType, NEW t \in Command, owed[t] > 0, owed' = [owed EXCEPT ![t] = @ - 1]
  PROVE  OwedType' /\ Counted' = Counted - 1
<1>1. OwedType'
  BY DEF OwedType
<1>2. IsFiniteSet(Once') /\ IsFiniteSet(Twice')
  BY QueueConstants, FS_Subset DEF Once, Twice
<1>3. Cardinality(Once') \in Nat /\ Cardinality(Twice') \in Nat
  BY <1>2, FS_CardinalityType
<1>4. CASE owed[t] = 1
  <2>1. Once = Once' \union {t} /\ t \notin Once' /\ Twice' = Twice
    BY <1>4 DEF OwedType, Once, Twice
  <2>2. Cardinality(Once) = Cardinality(Once') + 1
    BY <1>2, <2>1, FS_AddElement
  <2> QED BY <1>1, <1>3, <2>1, <2>2 DEF Counted
<1>5. CASE owed[t] = 2
  <2>1. Once' = Once /\ t \notin Twice' /\ Twice = Twice' \union {t}
    BY <1>5 DEF OwedType, Once, Twice
  <2>2. Cardinality(Twice) = Cardinality(Twice') + 1
    BY <1>2, <2>1, FS_AddElement
  <2> QED BY <1>1, <1>3, <2>1, <2>2 DEF Counted
<1> QED BY <1>4, <1>5 DEF OwedType
-----------------------------------------------------------------------------
(* How often a group is in a list of events.                               *)
InList(s, t) == \E i \in 1 .. Len(s) : s[i] = t
TwiceIn(s, t) == \E i, j \in 1 .. Len(s) : i < j /\ s[i] = t /\ s[j] = t
ThriceIn(s, t) ==
  \E i, j, k \in 1 .. Len(s) : i < j /\ j < k /\ s[i] = t /\ s[j] = t /\ s[k] = t

Known == {t \in Command : stage[t] # "new"}

QueueTypes ==
  /\ events \in Seq(Command) /\ adding \in Seq(Command)
  /\ stage \in [Command -> Queue!Stage] /\ OwedType
  /\ n_wait \in Nat /\ n_wake \in Nat
  /\ run_ \in {"no", "empty", "ready"} /\ need_wait \in BOOLEAN
  /\ pc \in {"idle", "add", "wait"} /\ waited \subseteq Command

(* A group is in the lists twice at most, and each time it is taken out    *)
(* the barrier is owed one notification more at most.                      *)
Lists ==
  /\ \A t \in Command : InList(events, t) \/ InList(adding, t) => stage[t] # "new"
  /\ \A t \in Command : ~ThriceIn(events, t) /\ ~ThriceIn(adding, t)
  /\ \A t \in Command : owed[t] = 1 => ~TwiceIn(adding, t)
  /\ \A t \in Command : owed[t] = 2 => ~InList(adding, t)
  /\ \A t \in Command : owed[t] > 0 => stage[t] \in {"submitted", "completing"}
  /\ Len(events) <= 2 * Cardinality(Known)
  /\ Len(adding) + n_wait <= 1 + 2 * Cardinality(Known)

(* The counters, where the program is.                                     *)
Counters ==
  /\ pc = "idle" => adding = << >> /\ Counted = 0
  /\ pc = "add" => n_wait = n_wake + 1 + Counted /\ run_ = "no"
  /\ pc = "wait" => n_wait = n_wake + Counted /\ adding = << >>
  /\ pc = "wait" => run_ = IF Counted = 0 THEN "ready" ELSE "no"
  /\ ~need_wait => Counted = 0

(* What the wait is for.                                                   *)
Waiting ==
  /\ \A t \in waited : \/ pc # "idle" /\ (InList(adding, t) \/ owed[t] > 0)
                       \/ stage[t] \in {"completing", "done"}
  /\ \A t \in Command : Queue!Pending(t) => InList(events, t) \/ (pc # "idle" /\ t \in waited)

QueueInv == QueueTypes /\ Lists /\ Counters /\ Waiting

LEMMA KnownType ==
  ASSUME QueueTypes
  PROVE  IsFiniteSet(Known) /\ Cardinality(Known) \in 0 .. Cardinality(Command)
<1>1. Known \subseteq Command
  BY DEF Known
<1> QED BY <1>1, QueueConstants, FS_Subset, FS_CardinalityType

LEMMA QueueStarts ==
  ASSUME Queue!Init
  PROVE  QueueInv
<1>1. QueueTypes
  <2>1. << >> \in Seq(Command)
    OBVIOUS
  <2>2. stage \in [Command -> Queue!Stage] /\ OwedType
    BY DEF Queue!Init, Queue!Stage, OwedType
  <2>3. /\ events = << >> /\ adding = << >> /\ n_wait = 1 /\ n_wake = 0 /\ run_ = "no"
        /\ need_wait = FALSE /\ pc = "idle" /\ waited = {}
    BY DEF Queue!Init
  <2> QED BY <2>1, <2>2, <2>3 DEF QueueTypes
<1>2. Counted = 0 /\ Len(events) = 0 /\ Len(adding) = 0 /\ n_wait = 1
  BY <1>1, CountedType DEF QueueTypes, Queue!Init
<1>3. Cardinality(Known) \in Nat
  BY <1>1, KnownType
<1>4. Lists
  BY <1>2, <1>3 DEF Lists, Queue!Init, InList, TwiceIn, ThriceIn
<1> QED BY <1>1, <1>2, <1>4 DEF QueueInv, Counters, Waiting, Queue!Init, Queue!Pending

(* What one more group adds to the list.                                   *)
LEMMA AppendsTwice ==
  ASSUME NEW s \in Seq(Command), NEW t \in Command, ~InList(s, t)
  PROVE  LET s2 == Append(Append(s, t), t)
         IN  /\ s2 \in Seq(Command) /\ Len(s2) = Len(s) + 2
             /\ InList(s2, t) /\ ~ThriceIn(s2, t)
             /\ \A u \in Command \ {t} : /\ InList(s2, u) <=> InList(s, u)
                                         /\ ThriceIn(s2, u) => ThriceIn(s, u)
<1> DEFINE s2 == Append(Append(s, t), t)
<1>1. s2 \in Seq(Command) /\ Len(s2) = Len(s) + 2 /\ Len(s) \in Nat
  OBVIOUS
<1>2. /\ \A i \in 1 .. Len(s) : s2[i] = s[i]
      /\ s2[Len(s) + 1] = t /\ s2[Len(s) + 2] = t
  OBVIOUS
<1>3. \A i \in 1 .. Len(s2) : i \in 1 .. Len(s) \/ i = Len(s) + 1 \/ i = Len(s) + 2
  BY <1>1
<1> HIDE DEF s2
<1>4. InList(s2, t)
  BY <1>1, <1>2 DEF InList
<1>5. ~ThriceIn(s2, t)
  BY <1>1, <1>2, <1>3 DEF ThriceIn, InList
<1>6. ASSUME NEW u \in Command \ {t}
      PROVE  (InList(s2, u) <=> InList(s, u)) /\ (ThriceIn(s2, u) => ThriceIn(s, u))
  <2>1. \A i \in 1 .. Len(s2) : s2[i] = u => i \in 1 .. Len(s) /\ s[i] = u
    BY <1>2, <1>3
  <2>2. \A i \in 1 .. Len(s) : i \in 1 .. Len(s2) /\ s2[i] = s[i]
    BY <1>1, <1>2
  <2> QED BY <2>1, <2>2 DEF InList, ThriceIn
<1> QED BY <1>1, <1>4, <1>5, <1>6 DEF s2

LEMMA QueueSubmit ==
  ASSUME QueueInv, NEW t \in Command, Queue!Submit(t)
  PROVE  QueueInv'
<1>1. /\ pc = "idle" /\ stage[t] = "new" /\ stage' = [stage EXCEPT ![t] = "submitted"]
      /\ events' = Append(Append(events, t), t)
      /\ UNCHANGED <<owed, adding, pc, waited, n_wait, n_wake, run_, need_wait>>
  BY DEF Queue!Submit, Queue!Recorded, Queue!sync_vars
<1>2. /\ events \in Seq(Command) /\ ~InList(events, t) /\ ~InList(adding, t)
      /\ stage \in [Command -> Queue!Stage]
  BY <1>1 DEF QueueInv, QueueTypes, Lists
<1>3. /\ events' \in Seq(Command) /\ Len(events') = Len(events) + 2
      /\ InList(events', t) /\ ~ThriceIn(events', t)
      /\ \A u \in Command \ {t} : /\ InList(events', u) <=> InList(events, u)
                                  /\ ThriceIn(events', u) => ThriceIn(events, u)
  BY <1>1, <1>2, AppendsTwice
<1>4. /\ stage' \in [Command -> Queue!Stage]
      /\ \A u \in Command : stage'[u] = IF u = t THEN "submitted" ELSE stage[u]
  BY <1>1, <1>2 DEF Queue!Stage
<1>5. QueueTypes'
  BY <1>1, <1>3, <1>4 DEF QueueInv, QueueTypes, OwedType
<1>6. Counted' = Counted
  BY <1>1 DEF Counted, Once, Twice
<1>7. Cardinality(Known') = Cardinality(Known) + 1 /\ Cardinality(Known) \in Nat
  <2>1. Known' = Known \union {t} /\ t \notin Known
    BY <1>1, <1>4 DEF Known
  <2>2. IsFiniteSet(Known) /\ Cardinality(Known) \in Nat
    BY KnownType, QueueConstants DEF QueueInv
  <2>3. Cardinality(Known \union {t}) = Cardinality(Known) + 1
    BY <2>1, <2>2, FS_AddElement
  <2> QED BY <2>1, <2>2, <2>3
<1>8. Lists'
  <2>1. Len(events') <= 2 * Cardinality(Known') /\ Len(adding') + n_wait' <= 1 + 2 * Cardinality(Known')
    BY <1>1, <1>3, <1>7 DEF QueueInv, Lists, QueueTypes
  <2>2. \A u \in Command : owed'[u] > 0 => stage'[u] \in {"submitted", "completing"}
    BY <1>1, <1>4 DEF QueueInv, Lists
  <2>3. \A u \in Command : InList(events, u)' \/ InList(adding, u)' => stage'[u] # "new"
    BY <1>1, <1>3, <1>4 DEF QueueInv, Lists, InList
  <2>4. \A u \in Command : ~ThriceIn(events, u)' /\ ~ThriceIn(adding, u)'
    <3>1. \A u \in Command : ~ThriceIn(events', u) /\ ~ThriceIn(adding, u)
      BY <1>3 DEF QueueInv, Lists
    <3>2. adding' = adding
      BY <1>1
    <3> QED BY <3>1, <3>2 DEF ThriceIn
  <2>5. \A u \in Command : /\ owed'[u] = 1 => ~TwiceIn(adding, u)'
                           /\ owed'[u] = 2 => ~InList(adding, u)'
    BY <1>1 DEF QueueInv, Lists, TwiceIn, InList
  <2> QED BY <2>1, <2>2, <2>3, <2>4, <2>5 DEF Lists
<1>9. Counters'
  BY <1>1, <1>6 DEF QueueInv, Counters
<1>10. Waiting'
  BY <1>1, <1>3, <1>4 DEF QueueInv, Waiting, Queue!Pending, InList
<1> QED BY <1>5, <1>8, <1>9, <1>10 DEF QueueInv

LEMMA QueueWaitBegin ==
  ASSUME QueueInv, Queue!WaitBegin
  PROVE  QueueInv'
<1>1. /\ pc = "idle" /\ adding' = events /\ events' = << >>
      /\ waited' = {events[i] : i \in DOMAIN events}
      /\ n_wait' = 1 /\ n_wake' = 0 /\ run_' = "no" /\ need_wait' = FALSE /\ pc' = "add"
      /\ UNCHANGED <<stage, owed>>
  BY DEF Queue!WaitBegin
<1>2. events \in Seq(Command) /\ Len(events) \in Nat
  BY DEF QueueInv, QueueTypes
<1>3. QueueTypes'
  <2>1. << >> \in Seq(Command) /\ waited' \subseteq Command
    BY <1>1, <1>2
  <2>2. stage' \in [Command -> Queue!Stage] /\ OwedType'
    BY <1>1 DEF QueueInv, QueueTypes, OwedType
  <2>3. need_wait' \in BOOLEAN
    BY <1>1
  <2> QED BY <1>1, <1>2, <2>1, <2>2, <2>3 DEF QueueTypes
<1>4. Counted' = Counted /\ Counted = 0 /\ \A t \in Command : owed[t] = 0
  BY <1>1, CountedType DEF Counted, Once, Twice, QueueInv, Counters, QueueTypes
<1>5. \A t : ~InList(events', t) /\ ~ThriceIn(events', t)
  BY <1>1 DEF InList, ThriceIn
<1>6. \A t \in Command : t \in waited' <=> InList(adding', t)
  BY <1>1, <1>2 DEF InList
<1>7. Cardinality(Known') = Cardinality(Known) /\ Cardinality(Known) \in Nat
  BY <1>1, KnownType DEF Known, QueueInv
<1>8. Lists'
  BY <1>1, <1>2, <1>4, <1>5, <1>7 DEF QueueInv, Lists
<1>9. Waiting'
  BY <1>1, <1>3, <1>6 DEF QueueInv, Waiting, Queue!Pending, QueueTypes
<1> QED BY <1>1, <1>3, <1>4, <1>8, <1>9 DEF QueueInv, Counters

LEMMA TakesOut ==
  ASSUME NEW s \in Seq(Command), s # << >>
  PROVE  LET s2 == Tail(s)
         IN  /\ s2 \in Seq(Command) /\ Len(s) = Len(s2) + 1 /\ Head(s) \in Command
             /\ \A u \in Command :
                  /\ InList(s, u) <=> u = Head(s) \/ InList(s2, u)
                  /\ TwiceIn(s2, u) => TwiceIn(s, u)
                  /\ ThriceIn(s2, u) => ThriceIn(s, u)
             /\ InList(s2, Head(s)) => TwiceIn(s, Head(s))
             /\ TwiceIn(s2, Head(s)) => ThriceIn(s, Head(s))
<1> DEFINE s2 == Tail(s)
<1>1. /\ s2 \in Seq(Command) /\ Len(s) = Len(s2) + 1 /\ Head(s) \in Command /\ Len(s2) \in Nat
      /\ Head(s) = s[1] /\ \A i \in 1 .. Len(s2) : s2[i] = s[i + 1]
  OBVIOUS
<1> HIDE DEF s2
<1>2. \A i \in 1 .. Len(s2) : i + 1 \in 1 .. Len(s) /\ 1 < i + 1
  BY <1>1
<1>3. 1 \in 1 .. Len(s) /\ \A i \in 1 .. Len(s) : i = 1 \/ (i - 1 \in 1 .. Len(s2) /\ s[i] = s2[i - 1])
  BY <1>1
<1>4. \A i, j \in 1 .. Len(s2) : i < j => i + 1 < j + 1
  BY <1>1
<1>5. ASSUME NEW u \in Command
      PROVE  /\ InList(s, u) <=> u = Head(s) \/ InList(s2, u)
             /\ TwiceIn(s2, u) => TwiceIn(s, u)
             /\ ThriceIn(s2, u) => ThriceIn(s, u)
  <2>1. InList(s, u) <=> u = Head(s) \/ InList(s2, u)
    <3>1. ASSUME InList(s, u), u # Head(s) PROVE InList(s2, u)
      BY <1>1, <1>3, <3>1 DEF InList
    <3>2. InList(s2, u) => InList(s, u)
      BY <1>1, <1>2 DEF InList
    <3>3. u = Head(s) => InList(s, u)
      BY <1>1, <1>3 DEF InList
    <3> QED BY <3>1, <3>2, <3>3
  <2>2. TwiceIn(s2, u) => TwiceIn(s, u)
    BY <1>1, <1>2, <1>4 DEF TwiceIn
  <2>3. ThriceIn(s2, u) => ThriceIn(s, u)
    BY <1>1, <1>2, <1>4 DEF ThriceIn
  <2> QED BY <2>1, <2>2, <2>3
<1>6. InList(s2, Head(s)) => TwiceIn(s, Head(s))
  BY <1>1, <1>2, <1>3 DEF InList, TwiceIn
<1>7. TwiceIn(s2, Head(s)) => ThriceIn(s, Head(s))
  BY <1>1, <1>2, <1>3, <1>4 DEF TwiceIn, ThriceIn
<1> QED BY <1>1, <1>5, <1>6, <1>7 DEF s2

LEMMA QueueAddEvent ==
  ASSUME QueueInv, Queue!AddEvent
  PROVE  QueueInv'
<1> DEFINE t == Head(adding)
<1>1. /\ pc = "add" /\ adding # << >> /\ stage[t] # "completing" /\ adding' = Tail(adding)
      /\ need_wait' = (need_wait \/ Queue!Pending(t))
      /\ n_wait' = IF Queue!Pending(t) THEN Queue!Inc(n_wait) ELSE n_wait
      /\ owed' = IF Queue!Pending(t) THEN [owed EXCEPT ![t] = @ + 1] ELSE owed
      /\ UNCHANGED <<events, stage, n_wake, run_, pc, waited>>
  BY DEF Queue!AddEvent, Queue!NeedWait, Queue!NWait
<1>2. /\ adding' \in Seq(Command) /\ Len(adding) = Len(adding') + 1 /\ t \in Command /\ Len(adding') \in Nat
      /\ \A u \in Command :
           /\ InList(adding, u) <=> u = t \/ InList(adding', u)
           /\ TwiceIn(adding', u) => TwiceIn(adding, u)
           /\ ThriceIn(adding', u) => ThriceIn(adding, u)
      /\ InList(adding', t) => TwiceIn(adding, t)
      /\ TwiceIn(adding', t) => ThriceIn(adding, t)
  BY <1>1, TakesOut DEF QueueInv, QueueTypes
<1> HIDE DEF t
<1>3. OwedType /\ stage \in [Command -> Queue!Stage] /\ n_wait \in Nat
  BY DEF QueueInv, QueueTypes
<1>4. Cardinality(Known') = Cardinality(Known) /\ Cardinality(Known) \in 0 .. Cardinality(Command)
  BY <1>1, KnownType DEF Known, QueueInv
<1>5. n_wait + 1 < Top
  BY <1>2, <1>3, <1>4, QueueConstants DEF QueueInv, Lists
<1>6. \A u : (InList(events, u)' <=> InList(events, u)) /\ (ThriceIn(events, u)' <=> ThriceIn(events, u))
  BY <1>1 DEF InList, ThriceIn
<1>7. CASE ~Queue!Pending(t)
  <2>1. (need_wait' <=> need_wait) /\ UNCHANGED <<n_wait, owed>> /\ need_wait' \in BOOLEAN
    BY <1>1, <1>7
  <2>2. Counted' = Counted
    BY <2>1 DEF Counted, Once, Twice
  <2>3. QueueTypes'
    BY <1>1, <1>2, <2>1 DEF QueueInv, QueueTypes, OwedType
  <2>4. Lists'
    <3>1. Len(adding') + n_wait' <= 1 + 2 * Cardinality(Known') /\ Len(events') <= 2 * Cardinality(Known')
      BY <1>1, <1>2, <1>3, <1>4, <2>1, QueueConstants DEF QueueInv, Lists
    <3>2. \A u \in Command : /\ InList(events, u) \/ InList(adding', u) => stage[u] # "new"
                             /\ ~ThriceIn(events, u) /\ ~ThriceIn(adding', u)
                             /\ owed[u] = 1 => ~TwiceIn(adding', u)
                             /\ owed[u] = 2 => ~InList(adding', u)
                             /\ owed[u] > 0 => stage[u] \in {"submitted", "completing"}
      BY <1>2 DEF QueueInv, Lists
    <3> QED BY <1>1, <2>1, <3>1, <3>2 DEF Lists
  <2>5. Counters'
    BY <1>1, <2>1, <2>2 DEF QueueInv, Counters
  <2>6. stage[t] = "done"
    <3>1. stage[t] # "new" /\ stage[t] \in Queue!Stage
      BY <1>2, <1>3 DEF QueueInv, Lists
    <3> QED BY <1>1, <1>7, <3>1 DEF Queue!Pending, Queue!Stage
  <2>7. Waiting'
    <3>1. \A u \in Command : InList(adding, u) => u = t \/ InList(adding, u)'
      BY <1>2 DEF InList
    <3>2. waited \subseteq Command
      BY DEF QueueInv, QueueTypes
    <3> QED BY <1>1, <1>6, <2>1, <2>6, <3>1, <3>2 DEF QueueInv, Waiting, Queue!Pending
  <2> QED BY <2>3, <2>4, <2>5, <2>7 DEF QueueInv
<1>8. CASE Queue!Pending(t)
  <2>1. need_wait' /\ need_wait' \in BOOLEAN /\ n_wait' = n_wait + 1 /\ owed' = [owed EXCEPT ![t] = @ + 1]
    BY <1>1, <1>3, <1>5, <1>8, Increments
  <2>2. owed[t] \in {0, 1}
    <3>1. InList(adding, t) /\ owed[t] \in 0 .. 2
      BY <1>2, <1>3 DEF OwedType
    <3> QED BY <1>2, <3>1 DEF QueueInv, Lists
  <2>3. OwedType' /\ Counted' = Counted + 1
    <3>1. owed[t] < 2
      BY <2>2
    <3> QED BY <1>2, <1>3, <2>1, <3>1, CountsUp
  <2>4. Counted \in Nat /\ (Counted' # 0)
    <3>1. Counted \in Nat
      BY <1>3, CountedType
    <3> QED BY <2>3, <3>1
  <2>5. \A u \in Command : owed'[u] = IF u = t THEN owed[t] + 1 ELSE owed[u]
    BY <1>2, <1>3, <2>1 DEF OwedType
  <2>6. QueueTypes'
    BY <1>1, <1>2, <2>1, <2>3 DEF QueueInv, QueueTypes
  <2>7. Lists'
    <3>1. Len(adding') + n_wait' <= 1 + 2 * Cardinality(Known') /\ Len(events') <= 2 * Cardinality(Known')
      BY <1>1, <1>2, <1>3, <1>4, <2>1, QueueConstants DEF QueueInv, Lists
    <3>2. ASSUME NEW u \in Command, u # t
          PROVE  /\ InList(events, u) \/ InList(adding', u) => stage[u] # "new"
                 /\ ~ThriceIn(events, u) /\ ~ThriceIn(adding', u)
                 /\ owed'[u] = 1 => ~TwiceIn(adding', u)
                 /\ owed'[u] = 2 => ~InList(adding', u)
                 /\ owed'[u] > 0 => stage[u] \in {"submitted", "completing"}
      <4>1. owed'[u] = owed[u]
        BY <2>5, <3>2
      <4> QED BY <1>2, <4>1 DEF QueueInv, Lists
    <3>3. stage[t] = "submitted" /\ ~ThriceIn(events, t) /\ ~ThriceIn(adding', t)
      BY <1>2, <1>8 DEF QueueInv, Lists, Queue!Pending
    <3>4. ~TwiceIn(adding', t)
      BY <1>2 DEF QueueInv, Lists
    <3>5. owed'[t] = 2 => ~InList(adding', t)
      <4>1. owed'[t] = 2 => owed[t] = 1
        BY <1>2, <2>2, <2>5
      <4> QED BY <1>2, <4>1 DEF QueueInv, Lists
    <3> QED BY <1>1, <3>1, <3>2, <3>3, <3>4, <3>5 DEF Lists
  <2>8. Counters'
    <3>1. n_wake \in Nat /\ n_wait = n_wake + 1 + Counted /\ run_ = "no"
      BY <1>1 DEF QueueInv, QueueTypes, Counters
    <3>2. n_wait' = n_wake' + 1 + Counted'
      BY <1>1, <2>1, <2>3, <2>4, <3>1
    <3> QED BY <1>1, <2>1, <3>1, <3>2 DEF Counters
  <2>9. Waiting'
    <3>1. \A u \in Command : InList(adding, u) => u = t \/ InList(adding, u)'
      BY <1>2 DEF InList
    <3>2. waited \subseteq Command /\ owed'[t] > 0
      BY <1>2, <2>2, <2>5 DEF QueueInv, QueueTypes
    <3>3. \A u \in Command : owed[u] > 0 => owed'[u] > 0
      BY <2>5, <3>2
    <3> QED BY <1>1, <1>6, <3>1, <3>2, <3>3 DEF QueueInv, Waiting, Queue!Pending
  <2> QED BY <2>6, <2>7, <2>8, <2>9 DEF QueueInv
<1> QED BY <1>7, <1>8

LEMMA QueueWaitFinal ==
  ASSUME QueueInv, Queue!WaitFinal
  PROVE  QueueInv'
<1>1. /\ pc = "add" /\ adding = << >>
      /\ UNCHANGED <<events, stage, owed, adding, n_wait, need_wait, waited>>
  BY DEF Queue!WaitFinal
<1>2. /\ n_wait = n_wake + 1 + Counted /\ run_ = "no" /\ n_wait \in Nat /\ n_wake \in Nat
      /\ (need_wait \/ Counted = 0)
  BY <1>1 DEF QueueInv, QueueTypes, Counters
<1>3. Counted \in Nat /\ Counted' = Counted /\ Cardinality(Known') = Cardinality(Known)
  BY <1>1, CountedType DEF Counted, Once, Twice, Known, QueueInv, QueueTypes
<1>4. n_wait < Top
  BY <1>1, <1>2, KnownType, QueueConstants DEF QueueInv, Lists
<1>5. Queue!Inc(n_wake) = n_wake + 1
  BY <1>2, <1>3, <1>4, QueueConstants, Increments
<1>6. Lists'
  BY <1>1, <1>3 DEF QueueInv, Lists, InList, TwiceIn, ThriceIn
<1>7. \A u \in Command : ~InList(adding, u)
  BY <1>1 DEF InList
<1>8. CASE need_wait
  <2>1. pc' = "wait" /\ n_wake' = n_wake + 1 /\ run_' = Queue!Notified(n_wake + 1, FALSE)
    BY <1>5, <1>8 DEF Queue!WaitFinal
  <2>2. run_' = IF Counted = 0 THEN "ready" ELSE "no"
    BY <1>2, <1>3, <2>1 DEF Queue!Notified
  <2>3. QueueTypes'
    <3>1. run_' \in {"no", "empty", "ready"} /\ pc' \in {"idle", "add", "wait"}
      BY <2>1, <2>2
    <3>2. n_wake' \in Nat
      BY <1>2, <2>1
    <3> QED BY <1>1, <3>1, <3>2 DEF QueueInv, QueueTypes, OwedType
  <2>4. Counters'
    BY <1>1, <1>2, <1>3, <1>8, <2>1, <2>2 DEF Counters
  <2>5. Waiting'
    BY <1>1, <2>1 DEF QueueInv, Waiting, Queue!Pending, InList
  <2> QED BY <1>6, <2>3, <2>4, <2>5 DEF QueueInv
<1>9. CASE ~need_wait
  <2>1. pc' = "idle" /\ UNCHANGED <<n_wake, run_>>
    BY <1>9 DEF Queue!WaitFinal
  <2>2. \A u \in Command : owed[u] = 0
    BY <1>2, <1>9, CountedType DEF QueueInv, QueueTypes
  <2>3. QueueTypes'
    BY <1>1, <2>1 DEF QueueInv, QueueTypes, OwedType
  <2>4. Counters'
    BY <1>1, <1>2, <1>3, <1>9, <2>1 DEF Counters
  <2>5. Waiting'
    <3>1. \A u \in waited : stage[u] \in {"completing", "done"}
      BY <1>7, <2>2 DEF QueueInv, QueueTypes, Waiting
    <3>2. \A u \in Command : Queue!Pending(u) => InList(events, u)
      BY <3>1 DEF QueueInv, Waiting, Queue!Pending
    <3> QED BY <1>1, <3>1, <3>2 DEF Waiting, Queue!Pending, InList
  <2> QED BY <1>6, <2>3, <2>4, <2>5 DEF QueueInv
<1> QED BY <1>8, <1>9

LEMMA QueueWaitReturn ==
  ASSUME QueueInv, Queue!WaitReturn
  PROVE  QueueInv'
<1>1. /\ pc = "wait" /\ run_ = "ready" /\ pc' = "idle"
      /\ UNCHANGED <<events, stage, owed, adding, waited, n_wait, n_wake, run_, need_wait>>
  BY DEF Queue!WaitReturn, Queue!sync_vars
<1>2. Counted = 0 /\ adding = << >>
  BY <1>1 DEF QueueInv, Counters
<1>3. Counted' = Counted /\ Known' = Known /\ \A u \in Command : owed[u] = 0 /\ ~InList(adding, u)
  BY <1>1, <1>2, CountedType DEF Counted, Once, Twice, Known, QueueInv, QueueTypes, InList
<1>4. QueueTypes'
  BY <1>1 DEF QueueInv, QueueTypes, OwedType
<1>5. Lists'
  BY <1>1, <1>3 DEF QueueInv, Lists, InList, TwiceIn, ThriceIn
<1>6. Counters'
  BY <1>1, <1>2, <1>3 DEF Counters
<1>7. Waiting'
  <2>1. \A u \in waited : stage[u] \in {"completing", "done"}
    BY <1>3 DEF QueueInv, QueueTypes, Waiting
  <2>2. \A u \in Command : Queue!Pending(u) => InList(events, u)
    BY <2>1 DEF QueueInv, Waiting, Queue!Pending
  <2> QED BY <1>1, <2>1, <2>2 DEF Waiting, Queue!Pending, InList
<1> QED BY <1>4, <1>5, <1>6, <1>7 DEF QueueInv

LEMMA QueueComplete ==
  ASSUME QueueInv, NEW t \in Command, Queue!Complete(t)
  PROVE  QueueInv'
<1>1. /\ stage[t] = "submitted" /\ stage' = [stage EXCEPT ![t] = "completing"]
      /\ UNCHANGED <<events, owed, adding, pc, waited, n_wait, n_wake, run_, need_wait>>
  BY DEF Queue!Complete, Queue!sync_vars
<1>2. \A u \in Command : stage'[u] = IF u = t THEN "completing" ELSE stage[u]
  BY <1>1 DEF QueueInv, QueueTypes
<1>3. Counted' = Counted /\ Known' = Known
  BY <1>1, <1>2 DEF Counted, Once, Twice, Known
<1>4. QueueTypes'
  BY <1>1, <1>2 DEF QueueInv, QueueTypes, OwedType, Queue!Stage
<1>5. Lists'
  BY <1>1, <1>2, <1>3 DEF QueueInv, Lists, InList, TwiceIn, ThriceIn
<1>6. Counters'
  BY <1>1, <1>3 DEF QueueInv, Counters
<1>7. Waiting'
  <2>1. waited \subseteq Command
    BY DEF QueueInv, QueueTypes
  <2> QED BY <1>1, <1>2, <2>1 DEF QueueInv, Waiting, Queue!Pending, InList
<1> QED BY <1>4, <1>5, <1>6, <1>7 DEF QueueInv

(* A step that leaves the two lists alone leaves what they hold alone.     *)
LEMMA SameLists ==
  ASSUME UNCHANGED <<events, adding>>, NEW u \in Command
  PROVE  /\ InList(events, u)' <=> InList(events, u)
         /\ InList(adding, u)' <=> InList(adding, u)
         /\ TwiceIn(adding, u)' <=> TwiceIn(adding, u)
         /\ ThriceIn(events, u)' <=> ThriceIn(events, u)
         /\ ThriceIn(adding, u)' <=> ThriceIn(adding, u)
<1>1. events' = events /\ adding' = adding
  OBVIOUS
<1>2. (InList(events, u)' <=> InList(events, u)) /\ (InList(adding, u)' <=> InList(adding, u))
  BY <1>1 DEF InList
<1>3. TwiceIn(adding, u)' <=> TwiceIn(adding, u)
  BY <1>1 DEF TwiceIn
<1>4. ThriceIn(events, u)' <=> ThriceIn(events, u)
  BY <1>1 DEF ThriceIn
<1>5. ThriceIn(adding, u)' <=> ThriceIn(adding, u)
  BY <1>1 DEF ThriceIn
<1> QED BY <1>2, <1>3, <1>4, <1>5

LEMMA QueueNotify ==
  ASSUME QueueInv, NEW t \in Command, Queue!Notify(t)
  PROVE  QueueInv'
<1>1. /\ stage[t] = "completing"
      /\ UNCHANGED <<events, adding, n_wait, need_wait, pc, waited>>
  BY DEF Queue!Notify
<1>2. OwedType /\ n_wait \in Nat /\ n_wake \in Nat /\ Counted \in Nat /\ owed[t] \in 0 .. 2
      /\ waited \subseteq Command
  BY CountedType DEF QueueInv, QueueTypes, OwedType
<1>3. CASE owed[t] > 0
  <2>1. /\ owed' = [owed EXCEPT ![t] = @ - 1] /\ n_wake' = Queue!Inc(n_wake) /\ UNCHANGED stage
        /\ run_' = Queue!Notified(Queue!Inc(n_wake), pc = "add")
    BY <1>3 DEF Queue!Notify
  <2>2. OwedType' /\ Counted' = Counted - 1 /\ Counted' \in Nat
    <3>1. OwedType' /\ Counted' = Counted - 1
      BY <1>2, <1>3, <2>1, CountsDown
    <3>2. Counted' \in Nat
      <4>1. IsFiniteSet(Once') /\ IsFiniteSet(Twice')
        BY QueueConstants, FS_Subset DEF Once, Twice
      <4> QED BY <4>1, FS_CardinalityType DEF Counted
    <3> QED BY <3>1, <3>2
  <2>3. pc \in {"add", "wait"}
    BY <1>2, <2>2 DEF QueueInv, QueueTypes, Counters
  <2>4. n_wait < Top
    <3>1. Len(adding) \in Nat /\ Len(adding) + n_wait <= 1 + 2 * Cardinality(Known)
      BY DEF QueueInv, QueueTypes, Lists
    <3>2. Cardinality(Known) \in 0 .. Cardinality(Command)
      BY KnownType DEF QueueInv
    <3> QED BY <1>2, <3>1, <3>2, QueueConstants
  <2>5. n_wait = (IF pc = "add" THEN n_wake + 1 + Counted ELSE n_wake + Counted)
    BY <2>3 DEF QueueInv, Counters
  <2>6. n_wake + 1 < Top
    BY <1>2, <2>2, <2>3, <2>4, <2>5, QueueConstants
  <2>7. Queue!Inc(n_wake) = n_wake + 1
    BY <1>2, <2>6, Increments
  <2>8. n_wake' = n_wake + 1 /\ n_wait' = (IF pc' = "add" THEN n_wake' + 1 + Counted' ELSE n_wake' + Counted')
    BY <1>1, <1>2, <2>1, <2>2, <2>3, <2>5, <2>7
  <2>9. run_ = "no"
    BY <1>2, <2>2, <2>3 DEF QueueInv, Counters
  <2>10. run_' = IF pc = "wait" /\ Counted' = 0 THEN "ready" ELSE "no"
    <3>1. CASE pc = "add"
      <4>1. n_wake + 1 # n_wait
        BY <1>2, <2>2, <2>5, <3>1
      <4> QED BY <2>1, <2>7, <2>9, <3>1, <4>1 DEF Queue!Notified
    <3>2. CASE pc = "wait"
      <4>1. n_wake + 1 = n_wait <=> Counted' = 0
        BY <1>2, <2>2, <2>5, <3>2
      <4> QED BY <2>1, <2>7, <2>9, <3>2, <4>1 DEF Queue!Notified
    <3> QED BY <2>3, <3>1, <3>2
  <2>11. \A u \in Command : owed'[u] = IF u = t THEN owed[t] - 1 ELSE owed[u]
    BY <1>2, <2>1 DEF OwedType
  <2>12. QueueTypes'
    <3>1. run_' \in {"no", "empty", "ready"} /\ n_wake' \in Nat
      BY <1>2, <2>8, <2>10
    <3> QED BY <1>1, <2>1, <2>2, <3>1 DEF QueueInv, QueueTypes
  <2>13. Lists'
    <3>1. Known' = Known
      BY <2>1 DEF Known
    <3>2. ASSUME NEW u \in Command
          PROVE  /\ owed'[u] = 1 => ~TwiceIn(adding, u)
                 /\ owed'[u] = 2 => ~InList(adding, u)
                 /\ owed'[u] > 0 => stage[u] \in {"submitted", "completing"}
      <4>1. CASE u # t
        BY <2>11, <4>1 DEF QueueInv, Lists
      <4>2. CASE u = t
        <5>1. owed'[t] = 1 => owed[t] = 2
          BY <1>2, <2>11
        <5>2. TwiceIn(adding, t) => InList(adding, t)
          BY DEF TwiceIn, InList
        <5>3. owed'[t] # 2
          BY <1>2, <2>11
        <5> QED BY <1>1, <4>2, <5>1, <5>2, <5>3 DEF QueueInv, Lists
      <4> QED BY <4>1, <4>2
    <3>3. \A u \in Command : InList(events, u)' \/ InList(adding, u)' => stage'[u] # "new"
      BY <1>1, <2>1, SameLists DEF QueueInv, Lists
    <3>4. \A u \in Command : ~ThriceIn(events, u)' /\ ~ThriceIn(adding, u)'
      BY <1>1, SameLists DEF QueueInv, Lists
    <3>5. \A u \in Command : /\ owed'[u] = 1 => ~TwiceIn(adding, u)'
                             /\ owed'[u] = 2 => ~InList(adding, u)'
      BY <1>1, <3>2, SameLists
    <3>6. \A u \in Command : owed'[u] > 0 => stage'[u] \in {"submitted", "completing"}
      BY <2>1, <3>2
    <3>7. Len(events') <= 2 * Cardinality(Known') /\ Len(adding') + n_wait' <= 1 + 2 * Cardinality(Known')
      BY <1>1, <3>1 DEF QueueInv, Lists
    <3> QED BY <3>3, <3>4, <3>5, <3>6, <3>7 DEF Lists
  <2>14. Counters'
    <3>1. need_wait
      BY <1>2, <2>2 DEF QueueInv, Counters
    <3> QED BY <1>1, <2>3, <2>8, <2>10, <3>1 DEF QueueInv, Counters
  <2>15. Waiting'
    BY <1>1, <1>2, <2>1, <2>3, <2>11 DEF QueueInv, Waiting, Queue!Pending, InList
  <2> QED BY <2>12, <2>13, <2>14, <2>15 DEF QueueInv
<1>4. CASE ~(owed[t] > 0)
  <2>1. stage' = [stage EXCEPT ![t] = "done"] /\ UNCHANGED <<owed, n_wake, run_>>
    BY <1>4 DEF Queue!Notify
  <2>2. \A u \in Command : stage'[u] = IF u = t THEN "done" ELSE stage[u]
    BY <2>1 DEF QueueInv, QueueTypes
  <2>3. Counted' = Counted /\ Known' = Known
    BY <1>1, <2>1, <2>2 DEF Counted, Once, Twice, Known
  <2>4. QueueTypes'
    BY <1>1, <2>1, <2>2 DEF QueueInv, QueueTypes, OwedType, Queue!Stage
  <2>5. Lists'
    <3>1. owed[t] = 0 /\ stage[t] = "completing"
      BY <1>1, <1>2, <1>4
    <3>2. ASSUME NEW u \in Command
          PROVE  /\ owed[u] = 1 => ~TwiceIn(adding, u)
                 /\ owed[u] = 2 => ~InList(adding, u)
                 /\ owed[u] > 0 => stage'[u] \in {"submitted", "completing"}
      BY <2>2, <3>1 DEF QueueInv, Lists
    <3>3. \A u \in Command : InList(events, u)' \/ InList(adding, u)' => stage'[u] # "new"
      BY <1>1, <2>2, SameLists DEF QueueInv, Lists
    <3>4. \A u \in Command : ~ThriceIn(events, u)' /\ ~ThriceIn(adding, u)'
      BY <1>1, SameLists DEF QueueInv, Lists
    <3>5. \A u \in Command : /\ owed'[u] = 1 => ~TwiceIn(adding, u)'
                             /\ owed'[u] = 2 => ~InList(adding, u)'
      BY <1>1, <2>1, <3>2, SameLists
    <3>6. \A u \in Command : owed'[u] > 0 => stage'[u] \in {"submitted", "completing"}
      BY <2>1, <3>2
    <3>7. Len(events') <= 2 * Cardinality(Known') /\ Len(adding') + n_wait' <= 1 + 2 * Cardinality(Known')
      BY <1>1, <2>3 DEF QueueInv, Lists
    <3> QED BY <3>3, <3>4, <3>5, <3>6, <3>7 DEF Lists
  <2>6. Counters'
    BY <1>1, <2>1, <2>3 DEF QueueInv, Counters
  <2>7. Waiting'
    BY <1>1, <1>2, <2>1, <2>2 DEF QueueInv, Waiting, Queue!Pending, InList
  <2> QED BY <2>4, <2>5, <2>6, <2>7 DEF QueueInv
<1> QED BY <1>3, <1>4

LEMMA QueueStep ==
  ASSUME QueueInv, [Queue!Next]_queue_vars
  PROVE  QueueInv'
<1>1. CASE Queue!Finished \/ UNCHANGED queue_vars
  <2>1. UNCHANGED <<events, stage, owed, adding, n_wait, n_wake, run_, need_wait, pc, waited>>
    BY <1>1 DEF Queue!Finished, Queue!vars, queue_vars
  <2>2. Counted' = Counted /\ Known' = Known
    BY <2>1 DEF Counted, Once, Twice, Known
  <2>3. QueueTypes'
    BY <2>1 DEF QueueInv, QueueTypes, OwedType
  <2>4. Lists'
    BY <2>1, <2>2 DEF QueueInv, Lists, InList, TwiceIn, ThriceIn
  <2>5. Counters' /\ Waiting'
    BY <2>1, <2>2 DEF QueueInv, Counters, Waiting, Queue!Pending, InList
  <2> QED BY <2>3, <2>4, <2>5 DEF QueueInv
<1>2. CASE Queue!Next /\ ~Queue!Finished
  BY <1>2, QueueSubmit, QueueWaitBegin, QueueAddEvent, QueueWaitFinal, QueueWaitReturn,
     QueueComplete, QueueNotify
     DEF Queue!Next, Queue!Pool, Queue!Program
<1> QED BY <1>1, <1>2

LEMMA QueueIsRight ==
  ASSUME QueueInv
  PROVE  Queue!WaitIsEnough /\ Queue!NotForgotten /\ Queue!CounterIsOwed
<1>1. Queue!WaitIsEnough
  BY DEF QueueInv, Waiting, Queue!WaitIsEnough
<1>2. Queue!NotForgotten
  BY DEF QueueInv, QueueTypes, Waiting, Queue!NotForgotten, InList
<1>3. Queue!CounterIsOwed
  BY QueueSets DEF QueueInv, Counters, Counted, Once, Twice, Queue!CounterIsOwed
<1> QED BY <1>1, <1>2, <1>3

QueuePart == part = "queue" => QueueInv

(* queue.cpp: a wait returns when all the groups submitted before it have  *)
(* run, none is forgotten, and the barrier's counters agree with what it   *)
(* is owed: for any number of groups that the counters have room for.      *)
THEOREM WaitsAreEnough == Spec => []WaitIsEnough
<1>1. Init => QueuePart
  BY QueueStarts DEF Init, Begins, QueuePart
<1>2. QueuePart /\ [Next]_vars => QueuePart'
  BY QueueStep DEF Next, Moves, QueuePart, vars
<1>3. QueuePart => WaitIsEnough
  BY QueueIsRight DEF QueuePart, WaitIsEnough
<1> QED BY <1>1, <1>2, <1>3, PTL DEF Spec
-----------------------------------------------------------------------------
(* The references to a buffer, by the threads T: both instances of         *)
(* BufferLife count them in the same way.                                  *)
Owned == {o \in Object : owner[o] # NONE}
Busy(T, p) == {t \in T : pc_b[t] \in p}

Holding == {"group", "release"}
Ending == {"write_back", "delete"}

Holders(T) ==
  /\ owner \in [Object -> T \union {NONE}]
  /\ pc_b \in [T -> {"idle", "group", "release", "write_back", "delete"}]
  /\ ref \in Nat /\ ref = Cardinality(Owned) + Cardinality(Busy(T, Holding))
  /\ alive \in BOOLEAN /\ (ref > 0 => alive)
  /\ \A t \in T : pc_b[t] \in Ending => ref = 0 /\ alive
  /\ \A t, u \in T : pc_b[t] \in Ending /\ pc_b[u] \in Ending => t = u

Goes(t, place) == pc_b' = [pc_b EXCEPT ![t] = place]

Copies(T) ==
  /\ \E o \in Object, u \in T : owner[o] = NONE /\ owner' = [owner EXCEPT ![o] = u]
  /\ Owned # {} /\ ref' = ref + 1 /\ UNCHANGED <<alive, pc_b>>

Opens(t) ==
  /\ pc_b[t] = "idle" /\ Owned # {}
  /\ ref' = ref + 1 /\ Goes(t, "group") /\ UNCHANGED <<alive, owner>>

Releases(t) ==
  /\ pc_b[t] \in Holding /\ Goes(t, "idle") /\ UNCHANGED owner
  /\ ref' = ref - 1 /\ alive' = (alive /\ ref # 1)

Destroys(t) ==
  /\ pc_b[t] = "idle" /\ UNCHANGED alive
  /\ \E o \in Object : owner[o] = t /\ owner' = [owner EXCEPT ![o] = NONE]
  /\ \/ ref = 1 /\ ref' = 0 /\ \E p \in Ending : Goes(t, p)
     \/ ref # 1 /\ ref' = ref /\ Goes(t, "release")

Ends(t) ==
  /\ UNCHANGED <<ref, owner>>
  /\ \/ pc_b[t] = "write_back" /\ Goes(t, "delete") /\ UNCHANGED alive
     \/ pc_b[t] = "delete" /\ Goes(t, "idle") /\ alive' = FALSE

Counts(T) ==
  Copies(T) \/ \E t \in T : Opens(t) \/ Releases(t) \/ Destroys(t) \/ Ends(t)

LEMMA HeldSets ==
  ASSUME NEW T, IsFiniteSet(T), IsFiniteSet(Object), NEW p
  PROVE  /\ IsFiniteSet(Owned) /\ Cardinality(Owned) \in Nat
         /\ IsFiniteSet(Busy(T, p)) /\ Cardinality(Busy(T, p)) \in Nat
<1>1. Owned \subseteq Object /\ Busy(T, p) \subseteq T
  BY DEF Owned, Busy
<1> QED BY <1>1, FS_Subset, FS_CardinalityType

LEMMA HeldSetsNext ==
  ASSUME NEW T, IsFiniteSet(T), IsFiniteSet(Object), NEW p
  PROVE  /\ IsFiniteSet(Owned') /\ Cardinality(Owned') \in Nat
         /\ IsFiniteSet(Busy(T, p)') /\ Cardinality(Busy(T, p)') \in Nat
<1>1. Owned' \subseteq Object /\ Busy(T, p)' \subseteq T
  BY DEF Owned, Busy
<1> QED BY <1>1, FS_Subset, FS_CardinalityType

LEMMA CopiesCount ==
  ASSUME NEW T, IsFiniteSet(T), IsFiniteSet(Object), NONE \notin T, Holders(T), Copies(T)
  PROVE  Holders(T)'
<1> PICK o \in Object, u \in T : owner[o] = NONE /\ owner' = [owner EXCEPT ![o] = u]
  BY DEF Copies
<1>1. Owned' = Owned \union {o} /\ o \notin Owned
  BY DEF Holders, Owned
<1>2. Cardinality(Owned') = Cardinality(Owned) + 1 /\ Cardinality(Owned) \in Nat /\ Cardinality(Owned) # 0
  BY <1>1, HeldSets, FS_AddElement, FS_EmptySet DEF Copies
<1>3. Busy(T, Holding)' = Busy(T, Holding) /\ Cardinality(Busy(T, Holding)) \in Nat
  BY HeldSets DEF Copies, Busy
<1>4. owner' \in [Object -> T \union {NONE}]
  BY DEF Holders
<1>5. ref > 0
  BY <1>2, <1>3 DEF Holders
<1>6. \A t \in T : pc_b[t] \notin Ending
  BY <1>5 DEF Holders
<1> QED BY <1>2, <1>3, <1>4, <1>5, <1>6 DEF Holders, Copies

LEMMA OpensCount ==
  ASSUME NEW T, IsFiniteSet(T), IsFiniteSet(Object), Holders(T), NEW t \in T, Opens(t)
  PROVE  Holders(T)'
<1>1. Owned' = Owned /\ Cardinality(Owned) \in Nat /\ Cardinality(Owned) # 0
  BY HeldSets, FS_EmptySet DEF Opens, Owned
<1>2. \A u \in T : pc_b'[u] = IF u = t THEN "group" ELSE pc_b[u]
  BY DEF Opens, Goes, Holders
<1>3. Busy(T, Holding)' = Busy(T, Holding) \union {t} /\ t \notin Busy(T, Holding)
  BY <1>2 DEF Busy, Holding, Opens
<1>4. /\ Cardinality(Busy(T, Holding)') = Cardinality(Busy(T, Holding)) + 1
      /\ Cardinality(Busy(T, Holding)) \in Nat
  BY <1>3, HeldSets, FS_AddElement
<1>5. ref > 0 /\ \A u \in T : pc_b[u] \notin Ending
  BY <1>1, <1>4 DEF Holders
<1>6. \A u \in T : pc_b'[u] \notin Ending
  BY <1>2, <1>5 DEF Ending
<1>7. pc_b' \in [T -> {"idle", "group", "release", "write_back", "delete"}]
  BY DEF Opens, Goes, Holders
<1> QED BY <1>1, <1>4, <1>5, <1>6, <1>7 DEF Holders, Opens

LEMMA ReleasesCount ==
  ASSUME NEW T, IsFiniteSet(T), IsFiniteSet(Object), Holders(T), NEW t \in T, Releases(t)
  PROVE  Holders(T)'
<1>1. Owned' = Owned /\ Cardinality(Owned) \in Nat
  BY HeldSets DEF Releases, Owned
<1>2. \A u \in T : pc_b'[u] = IF u = t THEN "idle" ELSE pc_b[u]
  BY DEF Releases, Goes, Holders
<1>3. Busy(T, Holding) = Busy(T, Holding)' \union {t} /\ t \notin Busy(T, Holding)'
  BY <1>2 DEF Busy, Holding, Releases
<1>4. /\ Cardinality(Busy(T, Holding)) = Cardinality(Busy(T, Holding)') + 1
      /\ Cardinality(Busy(T, Holding)') \in Nat
  BY <1>3, HeldSetsNext, FS_AddElement
<1>5. ref > 0 /\ \A u \in T : pc_b[u] \notin Ending
  BY <1>1, <1>4 DEF Holders
<1>6. \A u \in T : pc_b'[u] \notin Ending
  BY <1>2, <1>5 DEF Ending
<1>7. pc_b' \in [T -> {"idle", "group", "release", "write_back", "delete"}]
  BY DEF Releases, Goes, Holders
<1>8. ref' \in Nat /\ ref' = Cardinality(Owned') + Cardinality(Busy(T, Holding)')
  BY <1>1, <1>4, <1>5 DEF Holders, Releases
<1>9. alive' \in BOOLEAN /\ (ref' > 0 => alive')
  <2>1. alive /\ ref \in Nat /\ ref' = ref - 1
    BY <1>5 DEF Holders, Releases
  <2>2. alive' = (alive /\ ref # 1)
    BY DEF Releases
  <2>3. ref' > 0 => ref # 1
    BY <2>1
  <2> QED BY <2>1, <2>2, <2>3
<1> QED BY <1>6, <1>7, <1>8, <1>9 DEF Holders, Releases

LEMMA DestroysCount ==
  ASSUME NEW T, IsFiniteSet(T), IsFiniteSet(Object), NONE \notin T, Holders(T), NEW t \in T, Destroys(t)
  PROVE  Holders(T)'
<1> PICK o \in Object : owner[o] = t /\ owner' = [owner EXCEPT ![o] = NONE]
  BY DEF Destroys
<1>1. Owned = Owned' \union {o} /\ o \notin Owned'
  BY DEF Holders, Owned
<1>2. Cardinality(Owned) = Cardinality(Owned') + 1 /\ Cardinality(Owned') \in Nat
  BY <1>1, HeldSetsNext, FS_AddElement
<1>3. Cardinality(Busy(T, Holding)) \in Nat /\ IsFiniteSet(Busy(T, Holding))
  BY HeldSets
<1>4. ref > 0 /\ alive /\ \A u \in T : pc_b[u] \notin Ending
  BY <1>2, <1>3 DEF Holders
<1>5. owner' \in [Object -> T \union {NONE}] /\ UNCHANGED alive
  BY DEF Holders, Destroys
<1>6. CASE ref = 1
  <2> PICK p \in Ending : ref' = 0 /\ Goes(t, p)
    BY <1>6 DEF Destroys
  <2>1. \A u \in T : pc_b'[u] = IF u = t THEN p ELSE pc_b[u]
    BY DEF Goes, Holders
  <2>2. Busy(T, Holding)' = Busy(T, Holding)
    BY <2>1 DEF Busy, Holding, Ending, Destroys
  <2>3. pc_b' \in [T -> {"idle", "group", "release", "write_back", "delete"}]
    BY DEF Goes, Holders, Ending
  <2>4. ref' = Cardinality(Owned') + Cardinality(Busy(T, Holding)') /\ ref' \in Nat
    BY <1>2, <1>3, <1>6, <2>2 DEF Holders
  <2>5. \A u \in T : pc_b'[u] \in Ending => u = t
    BY <1>4, <2>1
  <2> QED BY <1>4, <1>5, <2>3, <2>4, <2>5 DEF Holders
<1>7. CASE ref # 1
  <2>1. ref' = ref /\ Goes(t, "release")
    BY <1>7 DEF Destroys
  <2>2. \A u \in T : pc_b'[u] = IF u = t THEN "release" ELSE pc_b[u]
    BY <2>1 DEF Goes, Holders
  <2>3. Busy(T, Holding)' = Busy(T, Holding) \union {t} /\ t \notin Busy(T, Holding)
    BY <2>2 DEF Busy, Holding, Destroys
  <2>4. Cardinality(Busy(T, Holding)') = Cardinality(Busy(T, Holding)) + 1
    BY <1>3, <2>3, FS_AddElement
  <2>5. pc_b' \in [T -> {"idle", "group", "release", "write_back", "delete"}]
    BY <2>1 DEF Goes, Holders
  <2>6. ref' = Cardinality(Owned') + Cardinality(Busy(T, Holding)') /\ ref' \in Nat
    BY <1>2, <1>3, <2>1, <2>4 DEF Holders
  <2>7. \A u \in T : pc_b'[u] \notin Ending
    BY <1>4, <2>2 DEF Ending
  <2> QED BY <1>4, <1>5, <2>5, <2>6, <2>7 DEF Holders
<1> QED BY <1>6, <1>7

LEMMA EndsCount ==
  ASSUME NEW T, IsFiniteSet(T), IsFiniteSet(Object), Holders(T), NEW t \in T, Ends(t)
  PROVE  Holders(T)'
<1>1. PICK p \in {"idle", "delete"} :
        /\ \A u \in T : pc_b'[u] = IF u = t THEN p ELSE pc_b[u]
        /\ IF p = "idle" THEN alive' = FALSE ELSE UNCHANGED alive
  BY DEF Ends, Goes, Holders
<1>2. pc_b[t] \in Ending /\ ref = 0 /\ alive
  BY DEF Ends, Ending, Holders
<1>3. Owned' = Owned /\ Busy(T, Holding)' = Busy(T, Holding)
  BY <1>1, <1>2 DEF Ends, Owned, Busy, Holding, Ending
<1>4. \A u \in T : pc_b'[u] \in Ending => pc_b[u] \in Ending /\ u = t /\ p = "delete"
  BY <1>1, <1>2 DEF Holders, Ending
<1>5. pc_b' \in [T -> {"idle", "group", "release", "write_back", "delete"}]
  BY DEF Ends, Goes, Holders
<1>6. alive' \in BOOLEAN /\ (p = "delete" => alive')
  BY <1>1, <1>2
<1> QED BY <1>2, <1>3, <1>4, <1>5, <1>6 DEF Holders, Ends

LEMMA HoldersCount ==
  ASSUME NEW T, IsFiniteSet(T), IsFiniteSet(Object), NONE \notin T, Holders(T), Counts(T)
  PROVE  Holders(T)'
BY CopiesCount, OpensCount, ReleasesCount, DestroysCount, EndsCount DEF Counts
-----------------------------------------------------------------------------
LEMMA LifeSets ==
  /\ \A S : (Life!IsFiniteSet(S) <=> IsFiniteSet(S)) /\ Life!Cardinality(S) = Cardinality(S)
  /\ \A S : (Lives!IsFiniteSet(S) <=> IsFiniteSet(S)) /\ Lives!Cardinality(S) = Cardinality(S)
BY DEF Life!IsFiniteSet, Lives!IsFiniteSet, IsFiniteSet, Life!Cardinality, Lives!Cardinality, Cardinality

LEMMA LifeConstants ==
  /\ IsFiniteSet(Object) /\ IsFiniteSet(Actor) /\ IsFiniteSet({ONE})
  /\ NONE \notin Actor /\ NONE # ONE /\ NONE \notin Object /\ NONE \notin Group
  /\ FIRST \in Object
BY LifeIsGiven, LifeSets DEF Life!BufferAssumption, Lives!BufferAssumption

LEMMA StartsAlone ==
  ASSUME NEW T, IsFiniteSet(T), NONE \notin T, NEW t \in T,
         ref = 1, alive = TRUE, pc_b = [u \in T |-> "idle"],
         owner = [o \in Object |-> IF o = FIRST THEN t ELSE NONE]
  PROVE  Holders(T)
<1>1. Owned = {FIRST} /\ Busy(T, Holding) = {}
  BY LifeConstants DEF Owned, Busy, Holding
<1>2. Cardinality(Owned) = 1 /\ Cardinality(Busy(T, Holding)) = 0
  BY <1>1, FS_Singleton, FS_EmptySet
<1>3. owner \in [Object -> T \union {NONE}]
  OBVIOUS
<1>4. \A u \in T : pc_b[u] \notin Ending
  BY DEF Ending
<1> QED BY <1>2, <1>3, <1>4 DEF Holders

(* Many threads, groups that read, writing back turned off: the count.     *)
LEMMA LivesStarts ==
  ASSUME Lives!Init
  PROVE  Holders(Actor)
<1>1. PICK t \in Actor : owner = [o \in Object |-> IF o = FIRST THEN t ELSE NONE]
  BY DEF Lives!Init
<1> QED BY <1>1, StartsAlone, LifeConstants DEF Lives!Init

LEMMA LivesCounts ==
  ASSUME Holders(Actor), [Lives!Next]_life_vars
  PROVE  Counts(Actor) \/ UNCHANGED <<ref, alive, owner, pc_b>>
<1> SUFFICES ASSUME Lives!Next PROVE Counts(Actor) \/ UNCHANGED <<ref, alive, owner, pc_b>>
  BY DEF life_vars
<1>1. ASSUME NEW t \in Actor, NEW o \in Object, Lives!CopyBuffer(t, o)
      PROVE  Counts(Actor)
  BY <1>1, LifeConstants DEF Lives!CopyBuffer, Lives!Has, Counts, Copies, Owned
<1>2. ASSUME NEW t \in Actor, NEW o \in Object, Lives!Destroy(t, o)
      PROVE  Counts(Actor)
  BY <1>2 DEF Lives!Destroy, Lives!Unwrapped, Counts, Destroys, Goes, Ending
<1>3. ASSUME NEW t \in Actor, NEW g \in SharedGroup, Lives!GroupBegin(t, g)
      PROVE  Counts(Actor)
  BY <1>3, LifeConstants DEF Lives!GroupBegin, Lives!Has, Counts, Opens, Owned, Goes
<1>4. ASSUME NEW t \in Actor, Lives!GroupEnd(t) \/ Lives!ReleaseObject(t)
      PROVE  Counts(Actor)
  <2>1. alive' = (alive /\ ref # 1)
    BY <1>4 DEF Lives!GroupEnd, Lives!ReleaseObject, Lives!Release, Holders
  <2>2. pc_b[t] \in Holding /\ Goes(t, "idle") /\ UNCHANGED owner /\ ref' = ref - 1
    BY <1>4 DEF Lives!GroupEnd, Lives!ReleaseObject, Lives!Release, Holding, Goes
  <2> QED BY <2>1, <2>2 DEF Counts, Releases
<1>5. ASSUME NEW t \in Actor, Lives!WriteBack(t) \/ Lives!DeleteOwned(t)
      PROVE  Counts(Actor)
  BY <1>5 DEF Lives!WriteBack, Lives!DeleteOwned, Counts, Ends, Goes
<1>6. ASSUME NEW t \in Actor, Lives!Detach(t)
      PROVE  UNCHANGED <<ref, alive, owner, pc_b>>
  BY <1>6 DEF Lives!Detach
<1>7. ASSUME NEW g \in SharedGroup, Lives!Complete(g)
      PROVE  UNCHANGED <<ref, alive, owner, pc_b>>
  BY <1>7 DEF Lives!Complete
<1>8. ASSUME Lives!Finished
      PROVE  UNCHANGED <<ref, alive, owner, pc_b>>
  BY <1>8 DEF Lives!Finished, Lives!vars
<1> QED BY <1>1, <1>2, <1>3, <1>4, <1>5, <1>6, <1>7, <1>8 DEF Lives!Next, Lives!ThreadStep

LEMMA HoldersStay ==
  ASSUME NEW T, Holders(T), UNCHANGED <<ref, alive, owner, pc_b>>
  PROVE  Holders(T)'
BY DEF Holders, Owned, Busy

LEMMA LivesStep ==
  ASSUME Holders(Actor), [Lives!Next]_life_vars
  PROVE  Holders(Actor)'
BY LivesCounts, HoldersCount, HoldersStay, LifeConstants

LEMMA EndingAlone ==
  ASSUME NEW T, IsFiniteSet(T), Holders(T)
  PROVE  Cardinality(Busy(T, Ending)) <= 1
<1>1. CASE Busy(T, Ending) = {}
  BY <1>1, FS_EmptySet
<1>2. CASE Busy(T, Ending) # {}
  <2>1. PICK t \in T : t \in Busy(T, Ending)
    BY <1>2 DEF Busy
  <2>2. Busy(T, Ending) = {t}
    BY <2>1 DEF Busy, Holders
  <2> QED BY <2>2, FS_Singleton
<1> QED BY <1>1, <1>2

LEMMA LivesIsRight ==
  ASSUME Holders(Actor)
  PROVE  Lives!CountIsHolders
<1>1. /\ Lives!Owned = Owned /\ Lives!Busy({"group", "release"}) = Busy(Actor, Holding)
      /\ Lives!Busy({"write_back", "delete"}) = Busy(Actor, Ending)
  BY DEF Lives!Owned, Owned, Lives!Busy, Busy, Holding, Ending
<1>2. Busy(Actor, Ending) # {} => ref = 0 /\ alive
  BY DEF Busy, Holders
<1> QED BY <1>1, <1>2, EndingAlone, LifeConstants, LifeSets DEF Holders, Lives!CountIsHolders
-----------------------------------------------------------------------------
(* One thread and groups that write: also what the last one leaves.        *)
BoundGroups == {g \in Group : stage_b[g] \in {"pending", "done"}}

(* Each group waits for the one bound before it, so when the last writer   *)
(* is done all are: earlier gives the groups that were bound before one.   *)
InOrder(earlier) ==
  /\ earlier \in [Group -> SUBSET BoundGroups]
  /\ \A h \in BoundGroups :
       /\ stage_b[h] = "done" => \A g \in earlier[h] : stage_b[g] = "done"
       /\ earlier[h] = {} \/ \E p \in before_b[h] : p \in BoundGroups /\ earlier[h] = earlier[p] \union {p}
  /\ writer = NONE => BoundGroups = {}
  /\ writer # NONE => writer \in BoundGroups /\ BoundGroups = earlier[writer] \union {writer}

LifeTypes ==
  /\ stage_b \in [Group -> {"new", "open", "pending", "done"}]
  /\ before_b \in [Group -> SUBSET Group] /\ DOMAIN in_group = {ONE}
  /\ readers = {} /\ latest_b = writer /\ write_back_ = TRUE

LifeInv ==
  /\ Holders({ONE}) /\ LifeTypes
  /\ pc_b[ONE] = "group" => in_group[ONE] \in Group /\ stage_b[in_group[ONE]] = "open"
  /\ pc_b[ONE] \in Holding => Owned # {}
  /\ pc_b[ONE] = "delete" \/ ~alive => host = latest_b /\ \A g \in Group : stage_b[g] # "pending"
  /\ ~alive => ref = 0
  /\ \E earlier : InOrder(earlier)

LEMMA LifeStarts ==
  ASSUME Life!Init
  PROVE  LifeInv
<1>1. owner = [o \in Object |-> IF o = FIRST THEN ONE ELSE NONE]
  BY DEF Life!Init
<1>2. Holders({ONE})
  BY <1>1, StartsAlone, LifeConstants DEF Life!Init
<1>3. BoundGroups = {}
  BY DEF Life!Init, BoundGroups
<1>4. InOrder([g \in Group |-> {}])
  BY <1>3 DEF InOrder, Life!Init
<1> QED BY <1>2, <1>4 DEF LifeInv, LifeTypes, Life!Init, Holding

LEMMA LifeCounts ==
  ASSUME LifeInv, [Life!Next]_life_vars
  PROVE  Counts({ONE}) \/ UNCHANGED <<ref, alive, owner, pc_b>>
<1> SUFFICES ASSUME Life!Next PROVE Counts({ONE}) \/ UNCHANGED <<ref, alive, owner, pc_b>>
  BY DEF life_vars
<1>1. ASSUME NEW o \in Object, Life!CopyBuffer(ONE, o)
      PROVE  Counts({ONE})
  BY <1>1, LifeConstants DEF Life!CopyBuffer, Life!Has, Counts, Copies, Owned
<1>2. ASSUME NEW o \in Object, Life!Destroy(ONE, o)
      PROVE  Counts({ONE})
  BY <1>2 DEF Life!Destroy, Life!Unwrapped, Counts, Destroys, Goes, Ending
<1>3. ASSUME NEW g \in Group, Life!GroupBegin(ONE, g)
      PROVE  Counts({ONE})
  BY <1>3, LifeConstants DEF Life!GroupBegin, Life!Has, Counts, Opens, Owned, Goes
<1>4. ASSUME Life!GroupEnd(ONE) \/ Life!ReleaseObject(ONE)
      PROVE  Counts({ONE})
  <2>1. alive' = (alive /\ ref # 1)
    BY <1>4 DEF Life!GroupEnd, Life!ReleaseObject, Life!Release, LifeInv, Holders
  <2>2. pc_b[ONE] \in Holding /\ Goes(ONE, "idle") /\ UNCHANGED owner /\ ref' = ref - 1
    BY <1>4 DEF Life!GroupEnd, Life!ReleaseObject, Life!Release, Holding, Goes
  <2> QED BY <2>1, <2>2 DEF Counts, Releases
<1>5. ASSUME Life!WriteBack(ONE) \/ Life!DeleteOwned(ONE)
      PROVE  Counts({ONE})
  BY <1>5 DEF Life!WriteBack, Life!DeleteOwned, Counts, Ends, Goes
<1>6. ASSUME NEW g \in Group, Life!Complete(g)
      PROVE  UNCHANGED <<ref, alive, owner, pc_b>>
  BY <1>6 DEF Life!Complete
<1>7. ASSUME Life!Finished
      PROVE  UNCHANGED <<ref, alive, owner, pc_b>>
  BY <1>7 DEF Life!Finished, Life!vars
<1> QED BY <1>1, <1>2, <1>3, <1>4, <1>5, <1>6, <1>7 DEF Life!Next, Life!ThreadStep, Life!Detach

(* With an object of the buffer there, a release is never the last one.    *)
LEMMA NotLast ==
  ASSUME LifeInv, pc_b[ONE] \in Holding
  PROVE  ref # 1 /\ alive
<1>1. Cardinality(Owned) \in Nat /\ Cardinality(Owned) # 0
  BY HeldSets, LifeConstants, FS_EmptySet DEF LifeInv
<1>2. Busy({ONE}, Holding) = {ONE}
  BY DEF Busy
<1>3. Cardinality(Busy({ONE}, Holding)) = 1
  BY <1>2, FS_Singleton
<1> QED BY <1>1, <1>3 DEF LifeInv, Holders

LEMMA OrderStays ==
  ASSUME NEW earlier, InOrder(earlier), UNCHANGED <<before_b, writer>>,
         BoundGroups' = BoundGroups, \A g \in BoundGroups : stage_b'[g] = stage_b[g]
  PROVE  InOrder(earlier)'
<1>1. before_b' = before_b /\ writer' = writer
  OBVIOUS
<1>2. earlier \in [Group -> SUBSET BoundGroups']
  BY DEF InOrder
<1>3. ASSUME NEW h \in BoundGroups
      PROVE  /\ stage_b'[h] = "done" => \A f \in earlier[h] : stage_b'[f] = "done"
             /\ \/ earlier[h] = {}
                \/ \E p \in before_b'[h] : p \in BoundGroups /\ earlier[h] = earlier[p] \union {p}
  <2>1. h \in Group
    BY DEF BoundGroups
  <2>2. earlier[h] \subseteq BoundGroups
    BY <2>1 DEF InOrder
  <2> QED BY <1>1, <2>2 DEF InOrder
<1>4. /\ writer' = NONE => BoundGroups = {}
      /\ writer' # NONE => writer' \in BoundGroups /\ BoundGroups = earlier[writer'] \union {writer'}
  BY <1>1 DEF InOrder
<1> QED BY <1>2, <1>3, <1>4 DEF InOrder

LEMMA LifeGroupBegin ==
  ASSUME LifeInv, Holders({ONE})', NEW g \in Group, Life!GroupBegin(ONE, g)
  PROVE  LifeInv'
<1>1. /\ pc_b[ONE] = "idle" /\ stage_b[g] = "new" /\ \E o \in Object : owner[o] = ONE
      /\ stage_b' = [stage_b EXCEPT ![g] = "open"] /\ pc_b' = [pc_b EXCEPT ![ONE] = "group"]
      /\ in_group' = [in_group EXCEPT ![ONE] = g] /\ ref' = ref + 1
      /\ UNCHANGED <<alive, owner, write_back_, host, before_b, latest_b, writer, readers>>
  BY DEF Life!GroupBegin, Life!Has, Life!state_vars
<1>2. \A h \in Group : stage_b'[h] = IF h = g THEN "open" ELSE stage_b[h]
  BY <1>1 DEF LifeInv, LifeTypes
<1>3. BoundGroups' = BoundGroups /\ \A h \in BoundGroups : stage_b'[h] = stage_b[h]
  BY <1>1, <1>2 DEF BoundGroups
<1>4. \E earlier : InOrder(earlier)'
  BY <1>1, <1>3, OrderStays DEF LifeInv
<1>5. LifeTypes'
  BY <1>1 DEF LifeInv, LifeTypes
<1>6. pc_b'[ONE] = "group" /\ in_group'[ONE] = g /\ Owned' # {}
  BY <1>1, LifeConstants DEF LifeInv, LifeTypes, Holders, Owned
<1>7. alive'
  <2>1. Cardinality(Owned) \in Nat /\ Cardinality(Owned) # 0 /\ Cardinality(Busy({ONE}, Holding)) \in Nat
    BY <1>1, HeldSets, LifeConstants, FS_EmptySet DEF Owned
  <2> QED BY <1>1, <2>1 DEF LifeInv, Holders
<1> QED BY <1>2, <1>4, <1>5, <1>6, <1>7 DEF LifeInv

LEMMA LifeGroupEnd ==
  ASSUME LifeInv, Holders({ONE})', Life!GroupEnd(ONE)
  PROVE  LifeInv'
<1> DEFINE g == in_group[ONE]
<1>1. /\ pc_b[ONE] = "group" /\ g \in Group /\ stage_b[g] = "open"
      /\ ref # 1 /\ alive
  BY NotLast DEF Life!GroupEnd, LifeInv, Holding
<1>2. /\ before_b' = [before_b EXCEPT ![g] = {writer} \ {NONE}]
      /\ readers' = {} /\ writer' = g /\ latest_b' = g
      /\ stage_b' = [stage_b EXCEPT ![g] = "pending"]
      /\ in_group' = [in_group EXCEPT ![ONE] = NONE] /\ pc_b' = [pc_b EXCEPT ![ONE] = "idle"]
      /\ UNCHANGED <<owner, write_back_, host>> /\ UNCHANGED alive
  BY <1>1 DEF Life!GroupEnd, Life!Bound, Life!Release, LifeInv, LifeTypes
<1> HIDE DEF g
<1>3. \A h \in Group : stage_b'[h] = IF h = g THEN "pending" ELSE stage_b[h]
  BY <1>2 DEF LifeInv, LifeTypes
<1>4. BoundGroups' = BoundGroups \union {g} /\ g \notin BoundGroups
  BY <1>1, <1>3 DEF BoundGroups
<1>5. \A h \in Group : before_b'[h] = IF h = g THEN {writer} \ {NONE} ELSE before_b[h]
  BY <1>2 DEF LifeInv, LifeTypes
<1>6. PICK earlier : InOrder(earlier)
  BY DEF LifeInv
<1>7. \E e : InOrder(e)'
  <2> PICK e : e = [earlier EXCEPT ![g] = BoundGroups]
    OBVIOUS
  <2>1. \A h \in Group : e[h] = IF h = g THEN BoundGroups ELSE earlier[h]
    BY <1>6 DEF InOrder
  <2>2. e \in [Group -> SUBSET BoundGroups']
    BY <1>4, <1>6 DEF InOrder
  <2>3. BoundGroups \subseteq Group /\ g \in Group
    BY <1>1 DEF BoundGroups
  <2>4. ASSUME NEW h \in BoundGroups
        PROVE  /\ stage_b'[h] = "done" => \A f \in e[h] : stage_b'[f] = "done"
               /\ e[h] = {} \/ \E p \in before_b'[h] : p \in BoundGroups' /\ e[h] = e[p] \union {p}
    <3>1. h # g /\ h \in Group /\ e[h] = earlier[h] /\ before_b'[h] = before_b[h] /\ stage_b'[h] = stage_b[h]
      BY <1>3, <1>4, <1>5, <2>1, <2>3
    <3>2. earlier[h] \subseteq BoundGroups
      BY <1>6, <3>1 DEF InOrder
    <3>3. \A f \in BoundGroups : stage_b'[f] = stage_b[f] /\ e[f] = earlier[f]
      BY <1>3, <1>4, <2>1, <2>3
    <3> QED BY <1>4, <1>6, <3>1, <3>2, <3>3 DEF InOrder
  <2>5. e[g] = {} \/ \E p \in before_b'[g] : p \in BoundGroups' /\ e[g] = e[p] \union {p}
    <3>1. CASE writer = NONE
      BY <1>6, <2>1, <2>3, <3>1 DEF InOrder
    <3>2. CASE writer # NONE
      <4>1. writer \in BoundGroups /\ BoundGroups = earlier[writer] \union {writer} /\ writer # g
        BY <1>4, <1>6, <3>2 DEF InOrder
      <4>2. writer \in before_b'[g] /\ e[writer] = earlier[writer] /\ e[g] = BoundGroups
        BY <1>5, <2>1, <2>3, <3>2, <4>1
      <4> QED BY <1>4, <4>1, <4>2
    <3> QED BY <3>1, <3>2
  <2>6. stage_b'[g] = "pending" /\ BoundGroups' = e[writer'] \union {writer'} /\ writer' \in BoundGroups'
    BY <1>1, <1>2, <1>3, <1>4, <2>1
  <2>7. writer' # NONE
    BY <1>1, <1>2, LifeConstants
  <2>8. ASSUME NEW h \in BoundGroups'
        PROVE  /\ stage_b'[h] = "done" => \A f \in e[h] : stage_b'[f] = "done"
               /\ e[h] = {} \/ \E p \in before_b'[h] : p \in BoundGroups' /\ e[h] = e[p] \union {p}
    <3>1. CASE h = g
      BY <2>5, <2>6, <3>1
    <3>2. CASE h \in BoundGroups
      BY <2>4, <3>2
    <3> QED BY <1>4, <3>1, <3>2
  <2>9. InOrder(e)'
    BY <2>2, <2>6, <2>7, <2>8 DEF InOrder
  <2> QED BY <2>9
<1>8. LifeTypes'
  <2>1. {writer} \ {NONE} \subseteq Group
    BY <1>6 DEF InOrder, BoundGroups
  <2> QED BY <1>1, <1>2, <2>1 DEF LifeInv, LifeTypes
<1>9. pc_b'[ONE] = "idle"
  BY <1>2 DEF LifeInv, Holders
<1> QED BY <1>1, <1>2, <1>7, <1>8, <1>9 DEF LifeInv, Holding

LEMMA LifeWriteBack ==
  ASSUME LifeInv, Holders({ONE})', Life!WriteBack(ONE)
  PROVE  LifeInv'
<1>1. /\ pc_b[ONE] = "write_back" /\ Life!Waited /\ host' = latest_b
      /\ pc_b' = [pc_b EXCEPT ![ONE] = "delete"]
      /\ UNCHANGED <<ref, alive, owner, in_group, write_back_, stage_b, before_b, latest_b, writer, readers>>
  BY DEF Life!WriteBack, Life!state_vars
<1>2. PICK earlier : InOrder(earlier)
  BY DEF LifeInv
<1>3. \A g \in Group : stage_b[g] # "pending"
  <2>1. CASE writer = NONE
    BY <1>2, <2>1 DEF InOrder, BoundGroups
  <2>2. CASE writer # NONE
    <3>1. writer \in BoundGroups /\ BoundGroups = earlier[writer] \union {writer}
      BY <1>2, <2>2 DEF InOrder
    <3>2. stage_b[writer] = "done"
      BY <1>1, <2>2, <3>1 DEF Life!Waited, Life!Pending, LifeInv, LifeTypes, BoundGroups
    <3>3. \A g \in BoundGroups : stage_b[g] = "done"
      BY <1>2, <3>1, <3>2 DEF InOrder
    <3> QED BY <3>3 DEF BoundGroups
  <2> QED BY <2>1, <2>2
<1>4. pc_b'[ONE] = "delete" /\ alive'
  BY <1>1 DEF LifeInv, Holders, Ending
<1>5. InOrder(earlier)'
  BY <1>1, <1>2, OrderStays DEF BoundGroups
<1> QED BY <1>1, <1>3, <1>4, <1>5 DEF LifeInv, LifeTypes, Holding

LEMMA LifeComplete ==
  ASSUME LifeInv, Holders({ONE})', NEW g \in Group, Life!Complete(g)
  PROVE  LifeInv'
<1>1. /\ stage_b[g] = "pending" /\ before_b[g] \intersect Life!Pending = {}
      /\ stage_b' = [stage_b EXCEPT ![g] = "done"]
      /\ UNCHANGED <<ref, alive, owner, pc_b, in_group, write_back_, host>>
      /\ UNCHANGED <<before_b, latest_b, writer, readers>>
  BY DEF Life!Complete, Life!state_vars
<1>2. \A h \in Group : stage_b'[h] = IF h = g THEN "done" ELSE stage_b[h]
  BY <1>1 DEF LifeInv, LifeTypes
<1>3. BoundGroups' = BoundGroups /\ g \in BoundGroups
  BY <1>1, <1>2 DEF BoundGroups
<1>4. PICK earlier : InOrder(earlier)
  BY DEF LifeInv
<1>5. \A h \in earlier[g] : stage_b[h] = "done"
  <2>1. CASE earlier[g] = {}
    BY <2>1
  <2>2. ASSUME NEW p \in before_b[g], p \in BoundGroups, earlier[g] = earlier[p] \union {p}
        PROVE  \A h \in earlier[g] : stage_b[h] = "done"
    <3>1. stage_b[p] = "done"
      BY <1>1, <2>2 DEF BoundGroups, Life!Pending
    <3> QED BY <1>4, <2>2, <3>1 DEF InOrder
  <2> QED BY <1>3, <1>4, <2>1, <2>2 DEF InOrder
<1>6. InOrder(earlier)'
  <2>1. \A h \in BoundGroups : stage_b[h] = "done" => stage_b'[h] = "done"
    BY <1>2, <1>3 DEF BoundGroups
  <2>2. ASSUME NEW h \in BoundGroups, stage_b'[h] = "done"
        PROVE  \A f \in earlier[h] : stage_b'[f] = "done"
    <3>1. h \in Group /\ earlier[h] \subseteq BoundGroups
      BY <1>4 DEF BoundGroups, InOrder
    <3>2. h = g \/ stage_b[h] = "done"
      BY <1>2, <2>2, <3>1
    <3> QED BY <1>4, <1>5, <2>1, <3>1, <3>2 DEF InOrder
  <2> QED BY <1>1, <1>3, <1>4, <2>2 DEF InOrder
<1>7. LifeTypes'
  BY <1>1 DEF LifeInv, LifeTypes
<1>8. ASSUME pc_b[ONE] = "group"
      PROVE  stage_b'[in_group[ONE]] = "open" /\ in_group[ONE] \in Group
  BY <1>1, <1>2, <1>8 DEF LifeInv
<1> QED BY <1>1, <1>2, <1>6, <1>7, <1>8 DEF LifeInv, Owned

(* The steps that leave the groups and the data alone.                     *)
LEMMA LifeOthers ==
  ASSUME LifeInv, Holders({ONE})',
         UNCHANGED <<write_back_, stage_b, host, before_b, latest_b, writer, readers, in_group>>,
         \/ UNCHANGED <<ref, alive, owner, pc_b>>
         \/ \E o \in Object : Life!CopyBuffer(ONE, o) \/ Life!Destroy(ONE, o)
         \/ Life!ReleaseObject(ONE) \/ Life!DeleteOwned(ONE)
  PROVE  LifeInv'
<1>1. \E earlier : InOrder(earlier)'
  BY OrderStays DEF LifeInv, BoundGroups
<1>2. LifeTypes'
  BY DEF LifeInv, LifeTypes
<1>3. CASE UNCHANGED <<ref, alive, owner, pc_b>>
  BY <1>1, <1>2, <1>3 DEF LifeInv, Owned
<1>4. ASSUME NEW o \in Object, Life!CopyBuffer(ONE, o)
      PROVE  LifeInv'
  <2>1. pc_b'[ONE] = "idle" /\ alive' = alive /\ \E x \in Object : owner[x] = ONE
    BY <1>4 DEF Life!CopyBuffer, Life!Has
  <2>2. alive
    <3>1. Cardinality(Owned) \in Nat /\ Cardinality(Owned) # 0 /\ Cardinality(Busy({ONE}, Holding)) \in Nat
      BY <2>1, HeldSets, LifeConstants, FS_EmptySet DEF Owned
    <3> QED BY <3>1 DEF LifeInv, Holders
  <2> QED BY <1>1, <1>2, <2>1, <2>2 DEF LifeInv, Holding
<1>5. ASSUME NEW o \in Object, Life!Destroy(ONE, o)
      PROVE  LifeInv'
  <2>1. /\ pc_b[ONE] = "idle" /\ owner[o] = ONE /\ owner' = [owner EXCEPT ![o] = NONE] /\ UNCHANGED alive
        /\ \/ ref = 1 /\ ref' = 0 /\ pc_b' = [pc_b EXCEPT ![ONE] = "write_back"]
           \/ ref # 1 /\ ref' = ref /\ pc_b' = [pc_b EXCEPT ![ONE] = "release"]
    BY <1>5 DEF Life!Destroy, Life!Unwrapped, LifeInv, LifeTypes
  <2>2. Owned = Owned' \union {o} /\ o \notin Owned'
    BY <2>1, LifeConstants DEF LifeInv, Holders, Owned
  <2>3. Busy({ONE}, Holding) = {}
    BY <2>1 DEF Busy, Holding
  <2>4. ref = Cardinality(Owned) /\ alive
    <3>1. Cardinality(Owned) \in Nat /\ Cardinality(Owned) # 0
      BY <2>2, HeldSets, LifeConstants, FS_EmptySet
    <3>2. Cardinality(Busy({ONE}, Holding)) = 0
      BY <2>3, FS_EmptySet
    <3> QED BY <3>1, <3>2 DEF LifeInv, Holders
  <2>5. ref # 1 => Owned' # {}
    BY <2>2, <2>4, FS_Singleton
  <2>6. CASE ref = 1
    <3>1. pc_b'[ONE] = "write_back"
      BY <2>1, <2>6 DEF LifeInv, Holders
    <3> QED BY <1>1, <1>2, <2>1, <2>4, <3>1 DEF LifeInv, Holding
  <2>7. CASE ref # 1
    <3>1. pc_b'[ONE] = "release"
      BY <2>1, <2>7 DEF LifeInv, Holders
    <3> QED BY <1>1, <1>2, <2>1, <2>4, <2>5, <2>7, <3>1 DEF LifeInv, Holding
  <2> QED BY <2>6, <2>7
<1>6. CASE Life!ReleaseObject(ONE)
  <2>1. pc_b[ONE] = "release" /\ ref # 1 /\ alive
    BY <1>6, NotLast DEF Life!ReleaseObject, Holding
  <2>2. pc_b' = [pc_b EXCEPT ![ONE] = "idle"] /\ UNCHANGED alive
    BY <1>6, <2>1 DEF Life!ReleaseObject, Life!Release
  <2>3. pc_b'[ONE] = "idle"
    BY <2>2 DEF LifeInv, Holders
  <2> QED BY <1>1, <1>2, <2>1, <2>2, <2>3 DEF LifeInv, Holding
<1>7. CASE Life!DeleteOwned(ONE)
  <2>1. pc_b[ONE] = "delete" /\ alive' = FALSE /\ pc_b' = [pc_b EXCEPT ![ONE] = "idle"] /\ UNCHANGED ref
    BY <1>7 DEF Life!DeleteOwned
  <2>2. pc_b'[ONE] = "idle" /\ ref = 0
    BY <2>1 DEF LifeInv, Holders, Ending
  <2> QED BY <1>1, <1>2, <2>1, <2>2 DEF LifeInv, Holding
<1> QED BY <1>3, <1>4, <1>5, <1>6, <1>7

LEMMA LifeStep ==
  ASSUME LifeInv, [Life!Next]_life_vars
  PROVE  LifeInv'
<1>1. Holders({ONE})'
  BY LifeCounts, HoldersCount, HoldersStay, LifeConstants DEF LifeInv
<1>2. CASE UNCHANGED life_vars
  BY <1>1, <1>2, LifeOthers DEF life_vars
<1>3. CASE Life!Next
  <2>1. ASSUME NEW o \in Object, Life!CopyBuffer(ONE, o) \/ Life!Destroy(ONE, o)
        PROVE  LifeInv'
    BY <1>1, <2>1, LifeOthers DEF Life!CopyBuffer, Life!Destroy, Life!state_vars
  <2>2. CASE Life!ReleaseObject(ONE) \/ Life!DeleteOwned(ONE)
    BY <1>1, <2>2, LifeOthers DEF Life!ReleaseObject, Life!DeleteOwned, Life!state_vars
  <2>3. CASE Life!Finished
    BY <1>1, <2>3, LifeOthers DEF Life!Finished, Life!vars
  <2> QED BY <1>1, <1>3, <2>1, <2>2, <2>3, LifeGroupBegin, LifeGroupEnd, LifeWriteBack, LifeComplete
          DEF Life!Next, Life!ThreadStep, Life!Detach
<1> QED BY <1>2, <1>3

LEMMA LifeIsRight ==
  ASSUME LifeInv
  PROVE  Life!WrittenBack /\ Life!MemoryHeld /\ Life!CountIsHolders
<1>1. Life!WrittenBack /\ Life!MemoryHeld
  BY DEF LifeInv, Life!WrittenBack, Life!MemoryHeld, Life!Pending
<1>2. /\ Life!Owned = Owned /\ Life!Busy({"group", "release"}) = Busy({ONE}, Holding)
      /\ Life!Busy({"write_back", "delete"}) = Busy({ONE}, Ending)
  BY DEF Life!Owned, Owned, Life!Busy, Busy, Holding, Ending
<1>3. Busy({ONE}, Ending) # {} => ref = 0 /\ alive
  BY DEF Busy, Holders, LifeInv
<1>4. Life!CountIsHolders
  BY <1>2, <1>3, EndingAlone, LifeConstants, LifeSets DEF LifeInv, Holders, Life!CountIsHolders
<1> QED BY <1>1, <1>4

LifeParts == (part = "life" => LifeInv) /\ (part = "lives" => Holders(Actor))

(* buffer.ipp, intrusive_ptr.hpp: the count is the number of holders, for  *)
(* any threads; with one thread and groups that write, the data is at the  *)
(* host's pointer when the buffer is gone, and no group that uses its      *)
(* memory is still to run.                                                 *)
THEOREM DataWrittenBack == Spec => []WrittenBack
<1>1. Init => LifeParts
  BY LifeStarts, LivesStarts DEF Init, Begins, LifeParts
<1>2. LifeParts /\ [Next]_vars => LifeParts'
  BY LifeStep, LivesStep DEF Next, Moves, LifeParts, vars
<1>3. LifeParts => WrittenBack
  BY LifeIsRight, LivesIsRight DEF LifeParts, WrittenBack
<1> QED BY <1>1, <1>2, <1>3, PTL DEF Spec

-----------------------------------------------------------------------------
(* A list with no element twice.                                           *)
NoneTwice(s) == \A i, j \in DOMAIN s : s[i] = s[j] => i = j

(* CUDA's queues.  A task is in task::q_ once, when it is there; one that  *)
(* a queue has is among its jobs; and the queues that shutdown has waited  *)
(* for have none of those that they had when it began.                     *)
CudaInv ==
  /\ Cuda!TypeOK
  /\ NoneTwice(q)
  /\ \A t \in Cuda!Task :
       /\ at[t] \notin {"new", "held"} => before[t] \subseteq Cuda!Done
       /\ device[t] # "no" => at[t] \in {"issued", "done"}
       /\ at[t] = "done" /\ kind[t] # "none" => device[t] = "ran"
       /\ at[t] \in {"queue", "issued"} =>
            kind[t] # "none" /\ InList(jobs[kind[t]], t)
  /\ waited_c = -1 => early = {}
  /\ \A t \in early : at[t] \in {"queue", "issued", "done"} /\ kind[t] # "none"
  /\ \A i \in 1 .. waited_c : \A t \in early : kind[t] = Cuda!Queues[i] => at[t] = "done"
  /\ closed => waited_c = Len(Cuda!Queues)

LEMMA CudaConstants ==
  /\ Tasks \in Nat /\ Cuda!Task = 1 .. Tasks /\ Len(Cuda!Queues) = 6
  /\ Cuda!Queue = {"h2d", "d2h", "d2d", "fill", "kernel", "host"}
  /\ Kinds \subseteq Cuda!Queue \union {"none"}
  /\ \A k \in Cuda!Queue : \E i \in 1 .. 6 : Cuda!Queues[i] = k
  /\ \A i \in 1 .. 6 : Cuda!Queues[i] \in Cuda!Queue
BY CudaIsGiven DEF Cuda!QueuesAssumption, Cuda!Task, Cuda!Queue, Cuda!Queues, Cuda!ToSet

LEMMA CudaSets ==
  \A S : Cuda!Cardinality(S) = Cardinality(S)
BY DEF Cuda!Cardinality, Cardinality

(* The tasks of a set, in their order.                                     *)
LEMMA InTheirOrder ==
  ASSUME NEW S \in SUBSET Cuda!Task, NEW s \in [1 .. Cardinality(S) -> S],
         \A i, j \in DOMAIN s : i < j => s[i] < s[j]
  PROVE  /\ s \in Seq(Cuda!Task) /\ Len(s) = Cardinality(S)
         /\ NoneTwice(s) /\ \A t \in Cuda!Task : InList(s, t) <=> t \in S
<1>1. IsFiniteSet(S) /\ Cardinality(S) \in Nat
  <2>1. IsFiniteSet(1 .. Tasks)
    BY CudaConstants, FS_Interval
  <2> QED BY <2>1, CudaConstants, FS_Subset, FS_CardinalityType
<1>2. \A i \in DOMAIN s : s[i] \in Nat
  <2>1. \A t \in Cuda!Task : t \in Nat
    BY CudaConstants
  <2> QED BY <2>1
<1>3. ASSUME NEW i \in DOMAIN s, NEW j \in DOMAIN s, s[i] = s[j] PROVE i = j
  <2>1. i \in Int /\ j \in Int /\ s[i] \in Nat /\ s[j] \in Nat
    BY <1>1, <1>2
  <2>2. ~(i < j) /\ ~(j < i)
    BY <1>3, <2>1
  <2> QED BY <2>1, <2>2
<1>4. s \in Surjection(1 .. Cardinality(S), S)
  <2>1. s \in Injection(1 .. Cardinality(S), S)
    BY <1>3 DEF Injection, IsInjective
  <2>2. Cardinality(1 .. Cardinality(S)) = Cardinality(S)
    BY <1>1, FS_Interval
  <2> QED BY <1>1, <2>1, <2>2, FS_Injection
<1>5. s \in Seq(Cuda!Task) /\ Len(s) = Cardinality(S)
  BY <1>1
<1>6. \A t \in Cuda!Task : InList(s, t) <=> t \in S
  <2>1. DOMAIN s = 1 .. Len(s)
    BY <1>5
  <2> QED BY <1>4, <2>1 DEF Surjection, InList
<1> QED BY <1>3, <1>5, <1>6 DEF NoneTwice

LEMMA Joined ==
  ASSUME NEW T, NEW a \in Seq(T), NEW b \in Seq(T)
  PROVE  /\ a \o b \in Seq(T) /\ Len(a \o b) = Len(a) + Len(b)
         /\ \A i \in 1 .. Len(a) : (a \o b)[i] = a[i]
         /\ \A i \in 1 .. Len(b) : (a \o b)[Len(a) + i] = b[i]
         /\ \A i \in 1 .. Len(a) + Len(b) : i \in 1 .. Len(a) \/ i - Len(a) \in 1 .. Len(b)
OBVIOUS

(* Two lists that have nothing in common, one after the other.             *)
LEMMA JoinedOnce ==
  ASSUME NEW T, NEW a \in Seq(T), NEW b \in Seq(T), NoneTwice(a), NoneTwice(b),
         \A t \in T : ~(InList(a, t) /\ InList(b, t))
  PROVE  /\ a \o b \in Seq(T) /\ NoneTwice(a \o b)
         /\ \A t \in T : InList(a \o b, t) <=> InList(a, t) \/ InList(b, t)
<1> DEFINE c == a \o b
<1>1. /\ c \in Seq(T) /\ Len(c) = Len(a) + Len(b) /\ Len(a) \in Nat /\ Len(b) \in Nat
      /\ \A i \in 1 .. Len(a) : c[i] = a[i]
      /\ \A i \in 1 .. Len(b) : c[Len(a) + i] = b[i]
      /\ \A i \in 1 .. Len(c) : i \in 1 .. Len(a) \/ i - Len(a) \in 1 .. Len(b)
  BY Joined
<1>2. DOMAIN a = 1 .. Len(a) /\ DOMAIN b = 1 .. Len(b) /\ DOMAIN c = 1 .. Len(c)
  BY <1>1
<1> HIDE DEF c
<1>3. ASSUME NEW i \in 1 .. Len(c)
      PROVE  \/ i \in 1 .. Len(a) /\ c[i] = a[i]
             \/ i - Len(a) \in 1 .. Len(b) /\ c[i] = b[i - Len(a)]
  <2>1. CASE i \in 1 .. Len(a)
    BY <1>1, <2>1
  <2>2. CASE i - Len(a) \in 1 .. Len(b)
    <3>1. Len(a) + (i - Len(a)) = i
      BY <1>1
    <3> QED BY <1>1, <2>2, <3>1
  <2> QED BY <1>1, <2>1, <2>2
<1>4. ASSUME NEW i \in 1 .. Len(c), NEW j \in 1 .. Len(c), c[i] = c[j] PROVE i = j
  <2>1. CASE i \in 1 .. Len(a) /\ c[i] = a[i] /\ j \in 1 .. Len(a) /\ c[j] = a[j]
    BY <1>2, <1>4, <2>1 DEF NoneTwice
  <2>2. CASE i - Len(a) \in 1 .. Len(b) /\ c[i] = b[i - Len(a)] /\ j - Len(a) \in 1 .. Len(b) /\ c[j] = b[j - Len(a)]
    <3>1. i - Len(a) = j - Len(a)
      BY <1>2, <1>4, <2>2 DEF NoneTwice
    <3> QED BY <1>1, <3>1
  <2>3. ASSUME NEW k \in 1 .. Len(a), NEW l \in 1 .. Len(b) PROVE a[k] # b[l]
    <3>1. a[k] \in T
      BY <2>3
    <3> QED BY <1>2, <3>1 DEF InList
  <2> QED BY <1>3, <1>4, <2>1, <2>2, <2>3
<1>5. ASSUME NEW t \in T PROVE InList(c, t) <=> InList(a, t) \/ InList(b, t)
  <2>1. InList(c, t) => InList(a, t) \/ InList(b, t)
    BY <1>2, <1>3 DEF InList
  <2>2. InList(a, t) => InList(c, t)
    BY <1>1, <1>2 DEF InList
  <2>3. ASSUME InList(b, t) PROVE InList(c, t)
    <3>1. PICK i \in 1 .. Len(b) : b[i] = t
      BY <1>2, <2>3 DEF InList
    <3>2. Len(a) + i \in 1 .. Len(c)
      BY <1>1
    <3> QED BY <1>1, <1>2, <3>1, <3>2 DEF InList
  <2> QED BY <2>1, <2>2, <2>3
<1> QED BY <1>1, <1>2, <1>4, <1>5 DEF c, NoneTwice

LEMMA AppendHas ==
  ASSUME NEW T, NEW s \in Seq(T), NEW t \in T
  PROVE  /\ Append(s, t) \in Seq(T) /\ InList(Append(s, t), t)
         /\ \A u : InList(s, u) => InList(Append(s, t), u)
<1> DEFINE c == Append(s, t)
<1>1. /\ c \in Seq(T) /\ DOMAIN c = 1 .. Len(s) + 1 /\ DOMAIN s = 1 .. Len(s) /\ Len(s) \in Nat
      /\ c[Len(s) + 1] = t /\ \A i \in 1 .. Len(s) : c[i] = s[i]
  OBVIOUS
<1> HIDE DEF c
<1>2. Len(s) + 1 \in DOMAIN c /\ \A i \in DOMAIN s : i \in DOMAIN c
  BY <1>1
<1>3. InList(c, t)
  BY <1>1, <1>2 DEF InList
<1>4. \A u : InList(s, u) => InList(c, u)
  BY <1>1, <1>2 DEF InList
<1> QED BY <1>1, <1>3, <1>4 DEF c

LEMMA RestOnce ==
  ASSUME NEW T, NEW s \in Seq(T), s # << >>, NoneTwice(s)
  PROVE  /\ Head(s) \in T /\ Tail(s) \in Seq(T) /\ NoneTwice(Tail(s)) /\ InList(s, Head(s))
         /\ \A t \in T : InList(Tail(s), t) <=> InList(s, t) /\ t # Head(s)
<1> DEFINE r2 == Tail(s)
<1>1. /\ r2 \in Seq(T) /\ Len(s) = Len(r2) + 1 /\ Head(s) = s[1] /\ Len(r2) \in Nat
      /\ \A i \in 1 .. Len(r2) : r2[i] = s[i + 1]
  OBVIOUS
<1>2. DOMAIN s = 1 .. Len(s) /\ DOMAIN r2 = 1 .. Len(r2) /\ s[1] \in T
  BY <1>1
<1> HIDE DEF r2
<1>3. \A i \in 1 .. Len(r2) : i + 1 \in 1 .. Len(s) /\ i + 1 # 1
  BY <1>1
<1>4. 1 \in 1 .. Len(s) /\ \A i \in 1 .. Len(s) : i = 1 \/ (i - 1 \in 1 .. Len(r2) /\ s[i] = r2[i - 1])
  BY <1>1
<1>5. ASSUME NEW i \in 1 .. Len(r2), NEW j \in 1 .. Len(r2), r2[i] = r2[j] PROVE i = j
  <2>1. i + 1 = j + 1
    BY <1>1, <1>2, <1>3, <1>5 DEF NoneTwice
  <2> QED BY <2>1
<1>6. ASSUME NEW t \in T PROVE InList(r2, t) <=> InList(s, t) /\ t # Head(s)
  <2>1. InList(r2, t) => InList(s, t)
    BY <1>1, <1>2, <1>3 DEF InList
  <2>2. InList(r2, t) => t # Head(s)
    BY <1>1, <1>2, <1>3, <1>4 DEF InList, NoneTwice
  <2>3. InList(s, t) /\ t # Head(s) => InList(r2, t)
    BY <1>1, <1>2, <1>4 DEF InList
  <2> QED BY <2>1, <2>2, <2>3
<1> QED BY <1>1, <1>2, <1>4, <1>5, <1>6 DEF r2, NoneTwice, InList

LEMMA RestHas ==
  ASSUME NEW T, NEW s \in Seq(T), s # << >>
  PROVE  /\ Head(s) \in T /\ Tail(s) \in Seq(T)
         /\ \A t : t # Head(s) /\ InList(s, t) => InList(Tail(s), t)
<1> DEFINE r2 == Tail(s)
<1>1. /\ r2 \in Seq(T) /\ Len(s) = Len(r2) + 1 /\ Head(s) = s[1] /\ Len(r2) \in Nat
      /\ \A i \in 1 .. Len(r2) : r2[i] = s[i + 1]
  OBVIOUS
<1>2. DOMAIN s = 1 .. Len(s) /\ DOMAIN r2 = 1 .. Len(r2) /\ s[1] \in T
  BY <1>1
<1> HIDE DEF r2
<1>3. \A i \in 1 .. Len(s) : i = 1 \/ (i - 1 \in 1 .. Len(r2) /\ s[i] = r2[i - 1])
  BY <1>1
<1>4. \A t : t # Head(s) /\ InList(s, t) => InList(r2, t)
  BY <1>1, <1>2, <1>3 DEF InList
<1> QED BY <1>1, <1>2, <1>4 DEF r2

LEMMA CudaFacts ==
  ASSUME CudaInv
  PROVE  /\ kind \in [Cuda!Task -> Kinds] /\ before \in [Cuda!Task -> SUBSET Cuda!Task]
         /\ at \in [Cuda!Task -> Cuda!Place] /\ device \in [Cuda!Task -> {"no", "running", "ran"}]
         /\ q \in Seq(Cuda!Task) /\ jobs \in [Cuda!Queue -> Seq(Cuda!Task)]
         /\ early \in SUBSET Cuda!Task /\ waited_c \in -1 .. 6 /\ closed \in BOOLEAN
         /\ \A t \in Cuda!Task : at[t] = "q" <=> InList(q, t)
         /\ \A t \in Cuda!Task : t \in Cuda!Done <=> at[t] = "done"
         /\ \A t \in Cuda!Task : kind[t] # "none" => kind[t] \in Cuda!Queue
<1>1. \A t \in Cuda!Task : t \in Cuda!ToSet(q) <=> InList(q, t)
  BY DEF Cuda!ToSet, InList
<1>2. \A t \in Cuda!Task : kind[t] # "none" => kind[t] \in Cuda!Queue
  BY CudaConstants DEF CudaInv, Cuda!TypeOK
<1> QED BY <1>1, <1>2, CudaConstants DEF CudaInv, Cuda!TypeOK, Cuda!Done

(* What a step that moves tasks has to show.                               *)
LEMMA CudaKeeps ==
  ASSUME CudaInv, UNCHANGED <<kind, before>>,
         at' \in [Cuda!Task -> Cuda!Place], device' \in [Cuda!Task -> {"no", "running", "ran"}],
         q' \in Seq(Cuda!Task), NoneTwice(q'), jobs' \in [Cuda!Queue -> Seq(Cuda!Task)],
         \A t \in Cuda!Task : at'[t] = "q" <=> InList(q', t),
         \A t \in Cuda!Task :
           /\ at[t] = "done" => at'[t] = "done"
           /\ at'[t] \notin {"new", "held"} => \A u \in before[t] : at'[u] = "done"
           /\ device'[t] # "no" => at'[t] \in {"issued", "done"}
           /\ at'[t] = "done" /\ kind[t] # "none" => device'[t] = "ran"
           /\ at'[t] \in {"queue", "issued"} => kind[t] # "none" /\ InList(jobs'[kind[t]], t)
           /\ t \in early => at'[t] \in {"queue", "issued", "done"},
         UNCHANGED <<waited_c, closed, early>>
  PROVE  CudaInv'
<1>1. \A t \in Cuda!Task : t \in Cuda!ToSet(q') <=> InList(q', t)
  BY DEF Cuda!ToSet, InList
<1>2. Cuda!TypeOK'
  BY <1>1, CudaFacts DEF CudaInv, Cuda!TypeOK, Cuda!ToSet
<1>3. \A t \in Cuda!Task : t \in Cuda!Done' <=> at'[t] = "done"
  BY DEF Cuda!Done
<1>4. \A t \in Cuda!Task :
        /\ at'[t] \notin {"new", "held"} => before'[t] \subseteq Cuda!Done'
        /\ device'[t] # "no" => at'[t] \in {"issued", "done"}
        /\ at'[t] = "done" /\ kind'[t] # "none" => device'[t] = "ran"
        /\ at'[t] \in {"queue", "issued"} => kind'[t] # "none" /\ InList(jobs'[kind'[t]], t)
  BY <1>3, CudaFacts
<1>5. \A t \in early' : at'[t] \in {"queue", "issued", "done"} /\ kind'[t] # "none"
  BY CudaFacts DEF CudaInv
<1>6. \A i \in 1 .. waited_c' : \A t \in early' : kind'[t] = Cuda!Queues[i] => at'[t] = "done"
  BY CudaFacts DEF CudaInv
<1>7. (waited_c' = -1 => early' = {}) /\ (closed' => waited_c' = Len(Cuda!Queues))
  BY DEF CudaInv
<1> QED BY <1>2, <1>4, <1>5, <1>6, <1>7 DEF CudaInv, NoneTwice, InList

LEMMA CudaSubmit ==
  ASSUME CudaInv, NEW t \in Cuda!Task, Cuda!Submit(t)
  PROVE  CudaInv'
<1>1. /\ at[t] = "new" /\ UNCHANGED <<kind, before, jobs, device, waited_c, closed, early>>
      /\ t \notin early
  BY DEF Cuda!Submit, CudaInv
<1>2. CASE before[t] \subseteq Cuda!Done
  <2>1. at' = [at EXCEPT ![t] = "q"] /\ q' = Append(q, t)
    BY <1>2 DEF Cuda!Submit
  <2>2. /\ <<t>> \in Seq(Cuda!Task) /\ NoneTwice(<<t>>) /\ q \o <<t>> = Append(q, t)
        /\ \A u \in Cuda!Task : InList(<<t>>, u) <=> u = t
    BY CudaFacts DEF NoneTwice, InList
  <2>3. q' \in Seq(Cuda!Task) /\ NoneTwice(q') /\ \A u \in Cuda!Task : InList(q', u) <=> InList(q, u) \/ u = t
    <3>1. \A u \in Cuda!Task : ~(InList(q, u) /\ InList(<<t>>, u))
      BY <1>1, <2>2, CudaFacts
    <3>2. NoneTwice(q)
      BY DEF CudaInv
    <3>3. q \o <<t>> \in Seq(Cuda!Task) /\ NoneTwice(q \o <<t>>)
      BY <2>2, <3>1, <3>2, CudaFacts, JoinedOnce
    <3>4. \A u \in Cuda!Task : InList(q \o <<t>>, u) <=> InList(q, u) \/ InList(<<t>>, u)
      BY <2>2, <3>1, <3>2, CudaFacts, JoinedOnce
    <3> QED BY <2>1, <2>2, <3>3, <3>4
  <2>4. at' \in [Cuda!Task -> Cuda!Place] /\ \A u \in Cuda!Task : at'[u] = IF u = t THEN "q" ELSE at[u]
    BY <2>1, CudaFacts DEF Cuda!Place
  <2>5. \A u \in before[t] : at[u] = "done" /\ u # t
    BY <1>1, <1>2, CudaFacts
  <2>6. \A u \in Cuda!Task : at'[u] \notin {"new", "held"} => \A p \in before[u] : at'[p] = "done"
    BY <1>1, <2>4, <2>5, CudaFacts DEF CudaInv
  <2> QED
    <3>1. \A u \in Cuda!Task :
           /\ at[u] = "done" => at'[u] = "done"
           /\ device'[u] # "no" => at'[u] \in {"issued", "done"}
           /\ at'[u] = "done" /\ kind[u] # "none" => device'[u] = "ran"
           /\ at'[u] \in {"queue", "issued"} => kind[u] # "none" /\ InList(jobs'[kind[u]], u)
           /\ u \in early => at'[u] \in {"queue", "issued", "done"}
      BY <1>1, <2>4 DEF CudaInv
    <3>2. \A u \in Cuda!Task : at'[u] = "q" <=> InList(q', u)
      BY <2>3, <2>4, CudaFacts
    <3> QED BY <1>1, <2>3, <2>4, <2>6, <3>1, <3>2, CudaFacts, CudaKeeps
<1>3. CASE ~(before[t] \subseteq Cuda!Done)
  <2>1. at' = [at EXCEPT ![t] = "held"] /\ q' = q
    BY <1>3 DEF Cuda!Submit
  <2>2. at' \in [Cuda!Task -> Cuda!Place] /\ \A u \in Cuda!Task : at'[u] = IF u = t THEN "held" ELSE at[u]
    BY <2>1, CudaFacts DEF Cuda!Place
  <2>3. \A u \in Cuda!Task : at'[u] \notin {"new", "held"} => \A p \in before[u] : at'[p] = "done"
    BY <1>1, <2>2, CudaFacts DEF CudaInv
  <2>4. \A u \in Cuda!Task :
         /\ at[u] = "done" => at'[u] = "done"
         /\ device'[u] # "no" => at'[u] \in {"issued", "done"}
         /\ at'[u] = "done" /\ kind[u] # "none" => device'[u] = "ran"
         /\ at'[u] \in {"queue", "issued"} => kind[u] # "none" /\ InList(jobs'[kind[u]], u)
         /\ u \in early => at'[u] \in {"queue", "issued", "done"}
    BY <1>1, <2>2 DEF CudaInv
  <2>5. \A u \in Cuda!Task : at'[u] = "q" <=> InList(q', u)
    BY <1>1, <2>1, <2>2, CudaFacts
  <2>6. NoneTwice(q')
    BY <2>1 DEF CudaInv
  <2> QED BY <1>1, <2>1, <2>2, <2>3, <2>4, <2>5, <2>6, CudaFacts, CudaKeeps
<1> QED BY <1>2, <1>3

(* A task has completed: those that it was the last one for follow it.     *)
LEMMA CudaCompletes ==
  ASSUME CudaInv, NEW u \in Cuda!Task, NEW old \in Seq(Cuda!Task), NoneTwice(old),
         \A t \in Cuda!Task : InList(old, t) <=> at[t] = "q" /\ t # u,
         at[u] \notin {"new", "held"}, Cuda!Completed(u, old)
  PROVE  /\ at' \in [Cuda!Task -> Cuda!Place] /\ q' \in Seq(Cuda!Task) /\ NoneTwice(q')
         /\ \A t \in Cuda!Task : at'[t] = "q" <=> InList(q', t)
         /\ at'[u] = "done"
         /\ \A t \in Cuda!Task : t # u =>
              \/ at'[t] = at[t]
              \/ at[t] = "held" /\ at'[t] = "q" /\ \A p \in before[t] : at[p] = "done" \/ p = u
<1> DEFINE next == {t \in Cuda!Task : Cuda!Notified(t, u)}
<1>1. \A t \in Cuda!Task : at'[t] = IF t = u THEN "done" ELSE IF t \in next THEN "q" ELSE at[t]
  BY DEF Cuda!Completed
<1>2. at' \in [Cuda!Task -> Cuda!Place]
  BY CudaFacts DEF Cuda!Completed, Cuda!Place
<1>3. PICK s \in [1 .. Cardinality(next) -> next] :
        (\A i, j \in DOMAIN s : i < j => s[i] < s[j]) /\ q' = old \o s
  BY CudaSets DEF Cuda!Completed
<1>4. \A t \in next : at[t] = "held" /\ before[t] \subseteq Cuda!Done \union {u}
  BY DEF Cuda!Notified
<1>5. next \in SUBSET Cuda!Task
  OBVIOUS
<1> HIDE DEF next
<1>6. s \in Seq(Cuda!Task) /\ NoneTwice(s) /\ \A t \in Cuda!Task : InList(s, t) <=> t \in next
  BY <1>3, <1>5, InTheirOrder
<1>7. \A t \in Cuda!Task : ~(InList(old, t) /\ InList(s, t))
  BY <1>4, <1>6
<1>8. q' \in Seq(Cuda!Task) /\ NoneTwice(q')
  BY <1>3, <1>6, <1>7, JoinedOnce
<1>9. \A t \in Cuda!Task : InList(q', t) <=> InList(old, t) \/ t \in next
  <2>1. \A t \in Cuda!Task : InList(old \o s, t) <=> InList(old, t) \/ InList(s, t)
    BY <1>6, <1>7, JoinedOnce
  <2> QED BY <1>3, <1>6, <2>1
<1>10. \A t \in Cuda!Task : at'[t] = "q" <=> InList(q', t)
  BY <1>1, <1>4, <1>9
<1>11. ASSUME NEW t \in Cuda!Task, t # u
       PROVE  \/ at'[t] = at[t]
              \/ at[t] = "held" /\ at'[t] = "q" /\ \A p \in before[t] : at[p] = "done" \/ p = u
  <2>1. CASE t \in next
    <3>1. \A p \in before[t] : p \in Cuda!Task
      BY CudaFacts
    <3> QED BY <1>1, <1>4, <1>11, <2>1, <3>1, CudaFacts
  <2> QED BY <1>1, <1>11, <2>1
<1> QED BY <1>1, <1>2, <1>8, <1>10, <1>11

(* ... and with it the invariant, if its operation, if any, has run.       *)
LEMMA CudaAfter ==
  ASSUME CudaInv, NEW u \in Cuda!Task, NEW old \in Seq(Cuda!Task), NoneTwice(old),
         \A t \in Cuda!Task : InList(old, t) <=> at[t] = "q" /\ t # u,
         at[u] \notin {"new", "held"}, Cuda!Completed(u, old),
         kind[u] # "none" => device[u] = "ran",
         jobs' \in [Cuda!Queue -> Seq(Cuda!Task)],
         \A t \in Cuda!Task : t # u /\ at[t] \in {"queue", "issued"} => InList(jobs'[kind[t]], t),
         UNCHANGED <<kind, before, device, waited_c, closed, early>>
  PROVE  CudaInv'
<1>1. /\ at' \in [Cuda!Task -> Cuda!Place] /\ q' \in Seq(Cuda!Task) /\ NoneTwice(q')
      /\ \A t \in Cuda!Task : at'[t] = "q" <=> InList(q', t)
      /\ at'[u] = "done"
  BY CudaCompletes
<1>2. \A t \in Cuda!Task : t # u =>
        \/ at'[t] = at[t]
        \/ at[t] = "held" /\ at'[t] = "q" /\ \A p \in before[t] : at[p] = "done" \/ p = u
  BY CudaCompletes
<1>3. \A t \in Cuda!Task : at[t] = "done" => at'[t] = "done"
  BY <1>1, <1>2
<1>4. ASSUME NEW t \in Cuda!Task, at'[t] \notin {"new", "held"}, NEW p \in before[t]
      PROVE  at'[p] = "done"
  <2>1. p \in Cuda!Task
    BY CudaFacts
  <2>2. CASE at[t] \notin {"new", "held"}
    BY <1>3, <2>1, <2>2, CudaFacts DEF CudaInv
  <2> QED BY <1>1, <1>2, <1>3, <1>4, <2>1, <2>2
<1>5. \A t \in Cuda!Task :
        /\ device'[t] # "no" => at'[t] \in {"issued", "done"}
        /\ at'[t] = "done" /\ kind[t] # "none" => device'[t] = "ran"
        /\ at'[t] \in {"queue", "issued"} => kind[t] # "none" /\ InList(jobs'[kind[t]], t)
        /\ t \in early => at'[t] \in {"queue", "issued", "done"}
  BY <1>1, <1>2 DEF CudaInv
<1>6. device' \in [Cuda!Task -> {"no", "running", "ran"}]
  BY CudaFacts
<1> QED BY <1>1, <1>3, <1>4, <1>5, <1>6, CudaFacts, CudaKeeps

LEMMA CudaCall ==
  ASSUME CudaInv, Cuda!Call
  PROVE  CudaInv'
<1> DEFINE t == Head(q)  rest == Tail(q)
<1>1. /\ q # << >> /\ UNCHANGED <<kind, before, device, waited_c, closed, early>>
      /\ IF kind[t] = "none"
           THEN Cuda!Completed(t, rest) /\ UNCHANGED jobs
           ELSE /\ jobs' = [jobs EXCEPT ![kind[t]] = Append(@, t)]
                /\ at' = [at EXCEPT ![t] = "queue"]
                /\ q' = rest
  BY DEF Cuda!Call, Cuda!Rest
<1>2. NoneTwice(q) /\ q \in Seq(Cuda!Task)
  BY CudaFacts DEF CudaInv
<1>3. /\ t \in Cuda!Task /\ rest \in Seq(Cuda!Task) /\ NoneTwice(rest) /\ InList(q, t)
      /\ \A u \in Cuda!Task : InList(rest, u) <=> InList(q, u) /\ u # t
  BY <1>1, <1>2, RestOnce
<1> HIDE DEF t, rest
<1>4. at[t] = "q" /\ \A u \in Cuda!Task : InList(rest, u) <=> at[u] = "q" /\ u # t
  BY <1>3, CudaFacts
<1>5. CASE kind[t] = "none"
  <2>1. \A u \in Cuda!Task : u # t /\ at[u] \in {"queue", "issued"} => InList(jobs'[kind[u]], u)
    BY <1>1, <1>5 DEF CudaInv
  <2> QED BY <1>1, <1>3, <1>4, <1>5, <2>1, CudaFacts, CudaAfter
<1>6. CASE kind[t] # "none"
  <2>1. kind[t] \in Cuda!Queue /\ jobs[kind[t]] \in Seq(Cuda!Task)
    BY <1>3, <1>6, CudaFacts
  <2>2. at' \in [Cuda!Task -> Cuda!Place] /\ \A u \in Cuda!Task : at'[u] = IF u = t THEN "queue" ELSE at[u]
    BY <1>1, <1>6, CudaFacts DEF Cuda!Place
  <2>3. /\ jobs' \in [Cuda!Queue -> Seq(Cuda!Task)] /\ jobs'[kind[t]] = Append(jobs[kind[t]], t)
        /\ \A k \in Cuda!Queue : k # kind[t] => jobs'[k] = jobs[k]
    <3>1. jobs' = [jobs EXCEPT ![kind[t]] = Append(jobs[kind[t]], t)]
      BY <1>1, <1>6, <2>1, CudaFacts
    <3>2. Append(jobs[kind[t]], t) \in Seq(Cuda!Task) /\ jobs \in [Cuda!Queue -> Seq(Cuda!Task)]
      BY <1>3, <2>1, AppendHas, CudaFacts
    <3> QED BY <2>1, <3>1, <3>2
  <2>4. InList(Append(jobs[kind[t]], t), t) /\ \A u : InList(jobs[kind[t]], u) => InList(Append(jobs[kind[t]], t), u)
    BY <1>3, <2>1, AppendHas
  <2>5. \A u \in Cuda!Task :
          at'[u] \in {"queue", "issued"} => kind[u] # "none" /\ InList(jobs'[kind[u]], u)
    <3>1. ASSUME NEW u \in Cuda!Task, u # t, at[u] \in {"queue", "issued"}
          PROVE  kind[u] # "none" /\ InList(jobs'[kind[u]], u)
      <4>1. kind[u] # "none" /\ kind[u] \in Cuda!Queue /\ InList(jobs[kind[u]], u)
        BY <3>1, CudaFacts DEF CudaInv
      <4> QED BY <2>3, <2>4, <4>1
    <3>2. InList(jobs'[kind[t]], t)
      BY <2>3, <2>4
    <3> QED BY <1>6, <2>2, <3>1, <3>2
  <2>6. \A u \in Cuda!Task :
         /\ at[u] = "done" => at'[u] = "done"
         /\ device'[u] # "no" => at'[u] \in {"issued", "done"}
         /\ at'[u] = "done" /\ kind[u] # "none" => device'[u] = "ran"
         /\ u \in early => at'[u] \in {"queue", "issued", "done"}
    BY <1>1, <1>4, <2>2 DEF CudaInv
  <2>7. \A u \in Cuda!Task : at'[u] \notin {"new", "held"} => \A p \in before[u] : at'[p] = "done"
    <3>1. \A u \in Cuda!Task : at[u] \notin {"new", "held"} => \A p \in before[u] : p \in Cuda!Task /\ at[p] = "done"
      BY CudaFacts DEF CudaInv
    <3> QED BY <1>4, <2>2, <2>6, <3>1
  <2>8. q' \in Seq(Cuda!Task) /\ NoneTwice(q') /\ \A u \in Cuda!Task : at'[u] = "q" <=> InList(q', u)
    BY <1>1, <1>3, <1>4, <1>6, <2>2
  <2>9. device' \in [Cuda!Task -> {"no", "running", "ran"}]
    BY <1>1, CudaFacts
  <2> QED BY <1>1, <2>2, <2>3, <2>5, <2>6, <2>7, <2>8, <2>9, CudaKeeps
<1> QED BY <1>5, <1>6

LEMMA CudaIssue ==
  ASSUME CudaInv, NEW k \in Cuda!Queue, Cuda!Issue(k)
  PROVE  CudaInv'
<1> DEFINE t == Head(jobs[k])
<1>1. /\ jobs[k] # << >> /\ at[t] = "queue"
      /\ UNCHANGED <<kind, before, q, jobs, waited_c, closed, early>>
      /\ IF closed /\ k # "host"
           THEN at' = [at EXCEPT ![t] = "failed"] /\ UNCHANGED device
           ELSE /\ at' = [at EXCEPT ![t] = "issued"]
                /\ device' = [device EXCEPT ![t] = IF k = "host" THEN "ran" ELSE "running"]
  BY DEF Cuda!Issue
<1>2. t \in Cuda!Task
  <2>1. jobs[k] \in Seq(Cuda!Task)
    BY CudaFacts
  <2> QED BY <1>1, <2>1
<1> HIDE DEF t
<1>3. /\ at' \in [Cuda!Task -> Cuda!Place]
      /\ \A u \in Cuda!Task : at'[u] = IF u = t THEN (IF closed /\ k # "host" THEN "failed" ELSE "issued") ELSE at[u]
  BY <1>1, <1>2, CudaFacts DEF Cuda!Place
<1>4. /\ device' \in [Cuda!Task -> {"no", "running", "ran"}]
      /\ \A u \in Cuda!Task : u # t => device'[u] = device[u]
      /\ closed /\ k # "host" => device' = device
  BY <1>1, CudaFacts
<1>5. closed => t \notin early
  <2>1. ASSUME closed, t \in early PROVE FALSE
    <3>1. kind[t] \in Cuda!Queue /\ waited_c = 6
      BY <1>2, <2>1, CudaConstants, CudaFacts DEF CudaInv
    <3>2. PICK i \in 1 .. 6 : Cuda!Queues[i] = kind[t]
      BY <3>1, CudaConstants
    <3>3. at[t] = "done"
      BY <2>1, <3>1, <3>2 DEF CudaInv
    <3> QED BY <1>1, <3>3
  <2> QED BY <2>1
<1>6. device[t] = "no"
  BY <1>1, <1>2, CudaFacts DEF CudaInv
<1>7. ASSUME NEW u \in Cuda!Task
      PROVE  /\ at[u] = "done" => at'[u] = "done"
             /\ device'[u] # "no" => at'[u] \in {"issued", "done"}
             /\ at'[u] = "done" /\ kind[u] # "none" => device'[u] = "ran"
             /\ at'[u] \in {"queue", "issued"} => kind[u] # "none" /\ InList(jobs'[kind[u]], u)
             /\ u \in early => at'[u] \in {"queue", "issued", "done"}
  <2>1. CASE u = t
    <3>1. kind[t] # "none" /\ InList(jobs[kind[t]], t)
      BY <1>1, <1>2 DEF CudaInv
    <3>2. at'[t] \in {"failed", "issued"} /\ (at'[t] = "failed" => closed /\ device'[t] = "no")
      BY <1>2, <1>3, <1>4, <1>6
    <3> QED BY <1>1, <1>5, <2>1, <3>1, <3>2
  <2>2. CASE u # t
    <3>1. at'[u] = at[u] /\ device'[u] = device[u] /\ jobs' = jobs
      BY <1>1, <1>3, <1>4, <2>2
    <3> QED BY <3>1 DEF CudaInv
  <2> QED BY <2>1, <2>2
<1>8. \A u \in Cuda!Task : at'[u] \notin {"new", "held"} => \A p \in before[u] : at'[p] = "done"
  <2>1. \A u \in Cuda!Task : at[u] \notin {"new", "held"} => \A p \in before[u] : p \in Cuda!Task /\ at[p] = "done"
    BY CudaFacts DEF CudaInv
  <2> QED BY <1>1, <1>3, <1>7, <2>1
<1>9. q' \in Seq(Cuda!Task) /\ NoneTwice(q') /\ \A u \in Cuda!Task : at'[u] = "q" <=> InList(q', u)
  <2>1. q' = q /\ NoneTwice(q)
    BY <1>1 DEF CudaInv
  <2> QED BY <1>1, <1>2, <1>3, <2>1, CudaFacts
<1>10. jobs' \in [Cuda!Queue -> Seq(Cuda!Task)]
  BY <1>1, CudaFacts
<1> QED BY <1>1, <1>3, <1>4, <1>7, <1>8, <1>9, <1>10, CudaKeeps

LEMMA CudaDeviceRuns ==
  ASSUME CudaInv, NEW t \in Cuda!Task, Cuda!DeviceRuns(t)
  PROVE  CudaInv'
<1>1. /\ device[t] = "running" /\ device' = [device EXCEPT ![t] = "ran"]
      /\ UNCHANGED <<kind, before, at, q, jobs, waited_c, closed, early>>
  BY DEF Cuda!DeviceRuns
<1>2. /\ device' \in [Cuda!Task -> {"no", "running", "ran"}]
      /\ \A u \in Cuda!Task : device'[u] = IF u = t THEN "ran" ELSE device[u]
  BY <1>1, CudaFacts
<1>3. \A u \in Cuda!Task :
        /\ device'[u] # "no" => at'[u] \in {"issued", "done"}
        /\ at'[u] = "done" /\ kind[u] # "none" => device'[u] = "ran"
        /\ at'[u] \in {"queue", "issued"} => kind[u] # "none" /\ InList(jobs'[kind[u]], u)
        /\ u \in early => at'[u] \in {"queue", "issued", "done"}
  BY <1>1, <1>2 DEF CudaInv
<1>4. \A u \in Cuda!Task : at'[u] \notin {"new", "held"} => \A p \in before[u] : at'[p] = "done"
  BY <1>1, CudaFacts DEF CudaInv
<1>5. NoneTwice(q')
  BY <1>1 DEF CudaInv
<1> QED BY <1>1, <1>2, <1>3, <1>4, <1>5, CudaFacts, CudaKeeps

LEMMA CudaJobEnds ==
  ASSUME CudaInv, NEW k \in Cuda!Queue, Cuda!JobEnds(k)
  PROVE  CudaInv'
<1> DEFINE u == Head(jobs[k])
<1>1. /\ jobs[k] # << >> /\ at[u] = "issued" /\ device[u] = "ran" /\ Cuda!Completed(u, q)
      /\ jobs' = [jobs EXCEPT ![k] = Tail(@)]
      /\ UNCHANGED <<kind, before, device, waited_c, closed, early>>
  BY DEF Cuda!JobEnds, Cuda!Synchronized
<1>2. jobs[k] \in Seq(Cuda!Task)
  BY CudaFacts
<1>3. /\ u \in Cuda!Task /\ Tail(jobs[k]) \in Seq(Cuda!Task)
      /\ \A t : t # u /\ InList(jobs[k], t) => InList(Tail(jobs[k]), t)
  BY <1>1, <1>2, RestHas
<1> HIDE DEF u
<1>4. jobs' \in [Cuda!Queue -> Seq(Cuda!Task)] /\ jobs'[k] = Tail(jobs[k]) /\ \A l \in Cuda!Queue : l # k => jobs'[l] = jobs[l]
  <2>1. jobs' = [jobs EXCEPT ![k] = Tail(jobs[k])] /\ jobs \in [Cuda!Queue -> Seq(Cuda!Task)]
    BY <1>1, CudaFacts
  <2> QED BY <1>3, <2>1
<1>5. ASSUME NEW t \in Cuda!Task, t # u, at[t] \in {"queue", "issued"}
      PROVE  InList(jobs'[kind[t]], t)
  <2>1. kind[t] \in Cuda!Queue /\ InList(jobs[kind[t]], t)
    BY <1>5, CudaFacts DEF CudaInv
  <2> QED BY <1>3, <1>4, <1>5, <2>1
<1>6. NoneTwice(q) /\ q \in Seq(Cuda!Task) /\ \A t \in Cuda!Task : InList(q, t) <=> at[t] = "q" /\ t # u
  BY <1>1, <1>3, CudaFacts DEF CudaInv
<1> QED BY <1>1, <1>3, <1>4, <1>5, <1>6, CudaAfter

(* Shutdown: it waits for one queue after the other.                       *)
LEMMA CudaShuts ==
  ASSUME CudaInv, Cuda!Shutdown
  PROVE  CudaInv'
<1>1. UNCHANGED <<kind, before, at, q, jobs, device>>
  BY DEF Cuda!Shutdown, Cuda!ShutdownStep, Cuda!ShutdownBegins, Cuda!WaitAll, Cuda!Close, Cuda!moving
<1>2. CASE Cuda!ShutdownBegins
  <2>1. waited_c = -1 /\ waited_c' = 0 /\ early' = {t \in Cuda!Task : at[t] \in {"queue", "issued"}} /\ closed' = closed
    BY <1>2 DEF Cuda!ShutdownBegins
  <2>2. Cuda!TypeOK'
    BY <1>1, <2>1, CudaConstants DEF CudaInv, Cuda!TypeOK
  <2>3. closed = FALSE
    BY <2>1, CudaConstants, CudaFacts DEF CudaInv
  <2>4. \A t \in early' : at'[t] \in {"queue", "issued", "done"} /\ kind'[t] # "none"
    BY <1>1, <2>1 DEF CudaInv
  <2>5. NoneTwice(q)' /\ \A t \in Cuda!Task :
         /\ at'[t] \notin {"new", "held"} => before'[t] \subseteq Cuda!Done'
         /\ device'[t] # "no" => at'[t] \in {"issued", "done"}
         /\ at'[t] = "done" /\ kind'[t] # "none" => device'[t] = "ran"
         /\ at'[t] \in {"queue", "issued"} => kind'[t] # "none" /\ InList(jobs'[kind'[t]], t)
    BY <1>1 DEF CudaInv, Cuda!Done, NoneTwice, InList
  <2>6. waited_c' # -1 /\ 1 .. waited_c' = {} /\ ~closed'
    BY <2>1, <2>3
  <2> QED BY <2>2, <2>4, <2>5, <2>6 DEF CudaInv, NoneTwice, InList
<1>3. CASE Cuda!WaitAll
  <2>1. /\ waited_c \in 0 .. 5 /\ jobs[Cuda!Queues[waited_c + 1]] = << >> /\ waited_c' = waited_c + 1
        /\ UNCHANGED <<early, closed>>
    BY <1>3, CudaConstants DEF Cuda!WaitAll, Cuda!Idle
  <2>2. Cuda!TypeOK'
    BY <1>1, <2>1, CudaConstants DEF CudaInv, Cuda!TypeOK
  <2>3. ASSUME NEW i \in 1 .. waited_c', NEW t \in early, kind[t] = Cuda!Queues[i]
        PROVE  at[t] = "done"
    <3>1. i \in 1 .. waited_c \/ i = waited_c + 1
      BY <2>1
    <3>2. t \in Cuda!Task /\ at[t] \in {"queue", "issued", "done"}
      BY CudaFacts DEF CudaInv
    <3>3. ASSUME i = waited_c + 1, at[t] \in {"queue", "issued"} PROVE FALSE
      <4>1. InList(jobs[kind[t]], t)
        BY <3>2, <3>3 DEF CudaInv
      <4> QED BY <2>1, <2>3, <3>3, <4>1 DEF InList
    <3> QED BY <2>3, <3>1, <3>2, <3>3 DEF CudaInv
  <2>4. NoneTwice(q)' /\ \A t \in Cuda!Task :
         /\ at'[t] \notin {"new", "held"} => before'[t] \subseteq Cuda!Done'
         /\ device'[t] # "no" => at'[t] \in {"issued", "done"}
         /\ at'[t] = "done" /\ kind'[t] # "none" => device'[t] = "ran"
         /\ at'[t] \in {"queue", "issued"} => kind'[t] # "none" /\ InList(jobs'[kind'[t]], t)
    BY <1>1 DEF CudaInv, Cuda!Done, NoneTwice, InList
  <2>5. \A t \in early' : at'[t] \in {"queue", "issued", "done"} /\ kind'[t] # "none"
    BY <1>1, <2>1 DEF CudaInv
  <2>6. waited_c' # -1 /\ ~closed'
    BY <2>1, CudaConstants, CudaFacts DEF CudaInv
  <2>7. \A i \in 1 .. waited_c' : \A t \in early' : kind'[t] = Cuda!Queues[i] => at'[t] = "done"
    BY <1>1, <2>1, <2>3
  <2> QED BY <2>2, <2>4, <2>5, <2>6, <2>7 DEF CudaInv, NoneTwice, InList
<1>4. CASE Cuda!Close
  <2>1. waited_c = Len(Cuda!Queues) /\ closed' = TRUE /\ UNCHANGED <<waited_c, early>>
    BY <1>4 DEF Cuda!Close
  <2>2. Cuda!TypeOK'
    BY <1>1, <2>1, CudaConstants DEF CudaInv, Cuda!TypeOK
  <2> QED BY <1>1, <2>1, <2>2 DEF CudaInv, Cuda!Done, NoneTwice, InList
<1> QED BY <1>2, <1>3, <1>4 DEF Cuda!Shutdown, Cuda!ShutdownStep

LEMMA CudaStarts ==
  ASSUME Cuda!Init
  PROVE  CudaInv
<1>1. Cuda!TypeOK
  <2>1. /\ kind \in [Cuda!Task -> Kinds] /\ before \in [Cuda!Task -> SUBSET Cuda!Task]
        /\ at \in [Cuda!Task -> Cuda!Place] /\ device \in [Cuda!Task -> {"no", "running", "ran"}]
    BY DEF Cuda!Init, Cuda!Place
  <2>2. \A t \in Cuda!Task : at[t] = "q" <=> t \in Cuda!ToSet(q)
    BY DEF Cuda!Init, Cuda!ToSet
  <2>3. q \in Seq(Cuda!Task) /\ jobs \in [Cuda!Queue -> Seq(Cuda!Task)]
    BY DEF Cuda!Init
  <2>4. waited_c \in -1 .. Len(Cuda!Queues) /\ closed \in BOOLEAN /\ early \subseteq Cuda!Task
    <3>1. waited_c = -1 /\ closed = FALSE /\ early = {}
      BY DEF Cuda!Init
    <3>2. -1 \in -1 .. 6
      OBVIOUS
    <3> QED BY <3>1, <3>2, CudaConstants
  <2> QED BY <2>1, <2>2, <2>3, <2>4 DEF Cuda!TypeOK
<1>2. \A t \in Cuda!Task : at[t] = "new" /\ device[t] = "no"
  BY DEF Cuda!Init
<1>3. q = << >> /\ waited_c = -1 /\ closed = FALSE /\ early = {} /\ 1 .. waited_c = {}
  BY DEF Cuda!Init
<1> QED BY <1>1, <1>2, <1>3 DEF CudaInv, NoneTwice

LEMMA CudaStep ==
  ASSUME CudaInv, Cuda!Next \/ UNCHANGED Cuda!vars
  PROVE  CudaInv'
<1>1. CASE UNCHANGED Cuda!vars
  BY <1>1 DEF Cuda!vars, CudaInv, Cuda!TypeOK, Cuda!Done, NoneTwice, InList
<1>2. ASSUME NEW k \in Cuda!Queue, Cuda!QueueStep(k) PROVE CudaInv'
  BY <1>2, CudaIssue, CudaJobEnds DEF Cuda!QueueStep
<1>3. Cuda!Finished => UNCHANGED Cuda!vars
  BY DEF Cuda!Finished
<1> QED BY <1>1, <1>2, <1>3, CudaSubmit, CudaDeviceRuns, CudaCall, CudaShuts DEF Cuda!Next

LEMMA CudaIsRight ==
  ASSUME CudaInv
  PROVE  Cuda!DataIsReady /\ Cuda!QueuedHaveRun
<1>1. Cuda!DataIsReady
  BY CudaFacts DEF CudaInv, Cuda!DataIsReady
<1>2. ASSUME closed, NEW t \in early PROVE t \in Cuda!Done
  <2>1. t \in Cuda!Task /\ kind[t] \in Cuda!Queue /\ waited_c = 6
    BY <1>2, CudaConstants, CudaFacts DEF CudaInv
  <2>2. PICK i \in 1 .. 6 : Cuda!Queues[i] = kind[t]
    BY <2>1, CudaConstants
  <2> QED BY <1>2, <2>1, <2>2, CudaFacts DEF CudaInv
<1> QED BY <1>1, <1>2 DEF Cuda!QueuedHaveRun

CudaPart == part = "cuda" => CudaInv

(* dev_rts_cuda.cpp: for any tasks, kinds and order, over six streams: an  *)
(* operation is issued when all that it runs after have run on the device, *)
(* and what a queue had when shutdown began has run when the driver is     *)
(* closed.                                                                 *)
THEOREM OperationsAreInOrder == Spec => []DataIsReady
<1>1. Init => CudaPart
  BY CudaStarts DEF Init, Begins, CudaPart
<1>2. CudaPart /\ [Next]_vars => CudaPart'
  BY CudaStep DEF Next, Moves, CudaPart, vars, cuda_vars, Cuda!vars
<1>3. CudaPart => DataIsReady
  BY CudaIsRight DEF CudaPart, DataIsReady
<1> QED BY <1>1, <1>2, <1>3, PTL DEF Spec
-----------------------------------------------------------------------------
(* The types of what waits.  The counters of a barrier wrap, and stay      *)
(* below Top.                                                              *)
WakesFit == n_wake \in 0 .. Top - 1

LEMMA WakesStay ==
  ASSUME QueueInv, WakesFit, [Queue!Next]_queue_vars
  PROVE  WakesFit'
<1>1. Queue!Inc(n_wake) \in 0 .. Top - 1 /\ 0 \in 0 .. Top - 1
  BY QueueConstants, Z3 DEF Queue!Inc, WakesFit, Top
<1>2. n_wake' \in {n_wake, Queue!Inc(n_wake), 0}
  BY DEF Queue!Next, Queue!Submit, Queue!Pool, Queue!Complete, Queue!Notify, Queue!WaitBegin,
     Queue!Program, Queue!AddEvent, Queue!WaitFinal, Queue!WaitReturn, Queue!Finished,
     Queue!vars, Queue!sync_vars, queue_vars
<1> QED BY <1>1, <1>2 DEF WakesFit

LEMMA QueueTyped ==
  ASSUME QueueInv, WakesFit
  PROVE  Queue!TypeOK
<1>1. n_wait \in 0 .. Top - 1
  <2>1. Cardinality(Known) \in 0 .. Cardinality(Command)
    BY KnownType DEF QueueInv
  <2>2. Len(adding) \in Nat /\ n_wait \in Nat /\ Len(adding) + n_wait <= 1 + 2 * Cardinality(Known)
    BY DEF QueueInv, QueueTypes, Lists
  <2> QED BY <2>1, <2>2, QueueConstants
<1> QED BY <1>1 DEF QueueInv, QueueTypes, OwedType, WakesFit, Top, Queue!TypeOK
-----------------------------------------------------------------------------
(* A buffer's count is at most the objects and the threads.                *)
LEMMA CountFits ==
  ASSUME NEW T, IsFiniteSet(T), Holders(T)
  PROVE  ref \in 0 .. Cardinality(Object) + Cardinality(T)
<1>1. Owned \subseteq Object /\ Busy(T, Holding) \subseteq T
  BY DEF Owned, Busy
<1>2. /\ Cardinality(Owned) <= Cardinality(Object)
      /\ Cardinality(Busy(T, Holding)) <= Cardinality(T)
      /\ Cardinality(Object) \in Nat /\ Cardinality(T) \in Nat
  BY <1>1, LifeConstants, FS_Subset, FS_CardinalityType
<1>3. Cardinality(Owned) \in Nat /\ Cardinality(Busy(T, Holding)) \in Nat
  BY LifeConstants, HeldSets
<1> QED BY <1>2, <1>3 DEF Holders

(* The rest of a buffer's state, of threads T and groups G.                *)
UsesTyped(T, G) ==
  /\ write_back_ \in BOOLEAN
  /\ in_group \in [T -> G \union {NONE}]
  /\ stage_b \in [G -> {"new", "open", "pending", "done"}]
  /\ before_b \in [G -> SUBSET G]
  /\ {latest_b, host, writer} \subseteq G \union {NONE}
  /\ readers \subseteq G /\ h_readers \subseteq G /\ on_device \in BOOLEAN
  /\ \A t \in T : pc_b[t] = "group" => in_group[t] \in G

(* What a step does to it, of groups that only read R.                     *)
GroupOpens(t, g) ==
  /\ in_group' = [in_group EXCEPT ![t] = g] /\ stage_b' = [stage_b EXCEPT ![g] = "open"]
  /\ UNCHANGED <<write_back_, host, before_b, latest_b, writer, readers, h_readers, on_device>>

GroupCloses(t, R) ==
  LET g == in_group[t]
      reads == g \in R /\ on_device
  IN  /\ pc_b[t] = "group" /\ pc_b' = [pc_b EXCEPT ![t] = "idle"]
      /\ in_group' = [in_group EXCEPT ![t] = NONE] /\ stage_b' = [stage_b EXCEPT ![g] = "pending"]
      /\ before_b' = [before_b EXCEPT ![g] =
           ({writer} \ {NONE}) \union (IF reads THEN {} ELSE readers)]
      /\ IF reads THEN readers' = readers \union {g} /\ UNCHANGED writer
                  ELSE readers' = {} /\ writer' = g
      /\ h_readers' = IF on_device THEN h_readers ELSE h_readers \union {g}
      /\ on_device' = TRUE /\ latest_b' = (IF g \in R THEN latest_b ELSE g)
      /\ UNCHANGED <<write_back_, host>>

OtherUses(G) ==
  /\ write_back_' \in {write_back_, FALSE} /\ host' \in {host, latest_b}
  /\ stage_b' = stage_b \/ \E g \in G : stage_b' = [stage_b EXCEPT ![g] = "done"]
  /\ UNCHANGED <<in_group, before_b, latest_b, writer, readers, h_readers, on_device>>

LEMMA UsesOpen ==
  ASSUME NEW T, NEW G, UsesTyped(T, G), NEW t \in T, NEW g \in G, GroupOpens(t, g),
         \A u \in T : pc_b'[u] = IF u = t THEN "group" ELSE pc_b[u]
  PROVE  UsesTyped(T, G)'
BY DEF UsesTyped, GroupOpens

LEMMA UsesClose ==
  ASSUME NEW T, NEW G, NEW R \in SUBSET G, UsesTyped(T, G), NEW t \in T, GroupCloses(t, R),
         \A u \in T : pc_b'[u] = IF u = t THEN "idle" ELSE pc_b[u]
  PROVE  UsesTyped(T, G)'
<1> DEFINE g == in_group[t]
           b == ({writer} \ {NONE}) \union (IF g \in R /\ on_device THEN {} ELSE readers)
<1>1. g \in G /\ b \in SUBSET G
  BY DEF UsesTyped, GroupCloses
<1>2. before_b' = [before_b EXCEPT ![g] = b]
  BY DEF GroupCloses
<1> HIDE DEF b
<1>3. before_b' \in [G -> SUBSET G]
  BY <1>1, <1>2 DEF UsesTyped
<1>4. readers' \subseteq G /\ h_readers' \subseteq G /\ {latest_b', host', writer'} \subseteq G \union {NONE}
  BY <1>1 DEF UsesTyped, GroupCloses
<1>5. /\ in_group' \in [T -> G \union {NONE}] /\ stage_b' \in [G -> {"new", "open", "pending", "done"}]
      /\ write_back_' \in BOOLEAN /\ on_device' \in BOOLEAN
  BY <1>1 DEF UsesTyped, GroupCloses
<1>6. \A u \in T : pc_b'[u] = "group" => in_group'[u] \in G
  BY DEF UsesTyped, GroupCloses
<1> QED BY <1>3, <1>4, <1>5, <1>6 DEF UsesTyped

LEMMA UsesStay ==
  ASSUME NEW T, NEW G, UsesTyped(T, G), OtherUses(G),
         \A u \in T : pc_b'[u] = "group" => pc_b[u] = "group"
  PROVE  UsesTyped(T, G)'
<1>1. stage_b' \in [G -> {"new", "open", "pending", "done"}]
  BY DEF UsesTyped, OtherUses
<1>2. write_back_' \in BOOLEAN /\ host' \in G \union {NONE}
  BY DEF UsesTyped, OtherUses
<1>3. UNCHANGED <<in_group, before_b, latest_b, writer, readers, h_readers, on_device>>
  BY DEF OtherUses
<1> QED BY <1>1, <1>2, <1>3 DEF UsesTyped

LEMMA UsesStart ==
  ASSUME NEW T, NEW G, write_back_ = TRUE, on_device = FALSE,
         pc_b = [t \in T |-> "idle"], in_group = [t \in T |-> NONE],
         stage_b = [g \in G |-> "new"], before_b = [g \in G |-> {}],
         latest_b = NONE, host = NONE, writer = NONE, readers = {}, h_readers = {}
  PROVE  UsesTyped(T, G)
<1>1. /\ in_group \in [T -> G \union {NONE}] /\ before_b \in [G -> SUBSET G]
      /\ stage_b \in [G -> {"new", "open", "pending", "done"}]
  OBVIOUS
<1>2. \A t \in T : pc_b[t] # "group"
  OBVIOUS
<1> QED BY <1>1, <1>2 DEF UsesTyped

LEMMA LifeUses ==
  ASSUME Holders({ONE}), UsesTyped({ONE}, Group), [Life!Next]_life_vars
  PROVE  UsesTyped({ONE}, Group)'
<1>1. ASSUME NEW t \in {ONE}, NEW g \in Group, Life!GroupBegin(t, g)
      PROVE  UsesTyped({ONE}, Group)'
  <2>1. GroupOpens(t, g) /\ \A u \in {ONE} : pc_b'[u] = IF u = t THEN "group" ELSE pc_b[u]
    BY <1>1 DEF Life!GroupBegin, Life!state_vars, GroupOpens, Holders
  <2> QED BY <2>1, UsesOpen
<1>2. ASSUME NEW t \in {ONE}, Life!GroupEnd(t)
      PROVE  UsesTyped({ONE}, Group)'
  <2>1. GroupCloses(t, {}) /\ \A u \in {ONE} : pc_b'[u] = IF u = t THEN "idle" ELSE pc_b[u]
    BY <1>2 DEF Life!GroupEnd, Life!Bound, GroupCloses, Holders
  <2> QED BY <2>1, UsesClose
<1>3. ASSUME NEW t \in {ONE}, NEW o \in Object, Life!CopyBuffer(t, o) \/ Life!Destroy(t, o)
      PROVE  UsesTyped({ONE}, Group)'
  <2>1. OtherUses(Group) /\ \A u \in {ONE} : pc_b'[u] = "group" => pc_b[u] = "group"
    BY <1>3 DEF Life!CopyBuffer, Life!Destroy, Life!Unwrapped, Life!state_vars, OtherUses, Holders
  <2> QED BY <2>1, UsesStay
<1>4. ASSUME NEW t \in {ONE},
             Life!ReleaseObject(t) \/ Life!WriteBack(t) \/ Life!DeleteOwned(t) \/ Life!Detach(t)
      PROVE  UsesTyped({ONE}, Group)'
  <2>1. OtherUses(Group) /\ \A u \in {ONE} : pc_b'[u] = "group" => pc_b[u] = "group"
    BY <1>4 DEF Life!ReleaseObject, Life!WriteBack, Life!DeleteOwned, Life!Detach, Life!state_vars,
       OtherUses, Holders
  <2> QED BY <2>1, UsesStay
<1>5. ASSUME NEW g \in Group, Life!Complete(g)
      PROVE  UsesTyped({ONE}, Group)'
  BY <1>5, UsesStay DEF Life!Complete, Life!state_vars, OtherUses
<1>6. CASE Life!Finished \/ UNCHANGED life_vars
  BY <1>6, UsesStay DEF Life!Finished, Life!vars, life_vars, OtherUses
<1> QED BY <1>1, <1>2, <1>3, <1>4, <1>5, <1>6 DEF Life!Next, Life!ThreadStep

LEMMA LifeTyped ==
  ASSUME Holders({ONE}), UsesTyped({ONE}, Group)
  PROVE  Life!TypeOK
BY CountFits, LifeConstants, LifeSets DEF Holders, UsesTyped, Life!TypeOK, Life!Pc

LEMMA LivesUses ==
  ASSUME Holders(Actor), UsesTyped(Actor, SharedGroup), [Lives!Next]_life_vars
  PROVE  UsesTyped(Actor, SharedGroup)'
<1>1. ASSUME NEW t \in Actor, NEW g \in SharedGroup, Lives!GroupBegin(t, g)
      PROVE  UsesTyped(Actor, SharedGroup)'
  <2>1. GroupOpens(t, g) /\ \A u \in Actor : pc_b'[u] = IF u = t THEN "group" ELSE pc_b[u]
    BY <1>1 DEF Lives!GroupBegin, Lives!state_vars, GroupOpens, Holders
  <2> QED BY <2>1, UsesOpen
<1>2. ASSUME NEW t \in Actor, Lives!GroupEnd(t)
      PROVE  UsesTyped(Actor, SharedGroup)'
  <2>1. GroupCloses(t, Reader) /\ \A u \in Actor : pc_b'[u] = IF u = t THEN "idle" ELSE pc_b[u]
    BY <1>2 DEF Lives!GroupEnd, Lives!Bound, GroupCloses, Holders
  <2> QED BY <2>1, UsesClose, LifeIsGiven DEF Lives!BufferAssumption
<1>3. ASSUME NEW t \in Actor, NEW o \in Object, Lives!CopyBuffer(t, o) \/ Lives!Destroy(t, o)
      PROVE  UsesTyped(Actor, SharedGroup)'
  <2>1. OtherUses(SharedGroup) /\ \A u \in Actor : pc_b'[u] = "group" => pc_b[u] = "group"
    BY <1>3 DEF Lives!CopyBuffer, Lives!Destroy, Lives!Unwrapped, Lives!state_vars, OtherUses, Holders
  <2> QED BY <2>1, UsesStay
<1>4. ASSUME NEW t \in Actor,
             Lives!ReleaseObject(t) \/ Lives!WriteBack(t) \/ Lives!DeleteOwned(t) \/ Lives!Detach(t)
      PROVE  UsesTyped(Actor, SharedGroup)'
  <2>1. OtherUses(SharedGroup) /\ \A u \in Actor : pc_b'[u] = "group" => pc_b[u] = "group"
    BY <1>4 DEF Lives!ReleaseObject, Lives!WriteBack, Lives!DeleteOwned, Lives!Detach, Lives!state_vars,
       OtherUses, Holders
  <2> QED BY <2>1, UsesStay
<1>5. ASSUME NEW g \in SharedGroup, Lives!Complete(g)
      PROVE  UsesTyped(Actor, SharedGroup)'
  BY <1>5, UsesStay DEF Lives!Complete, Lives!state_vars, OtherUses
<1>6. CASE Lives!Finished \/ UNCHANGED life_vars
  BY <1>6, UsesStay DEF Lives!Finished, Lives!vars, life_vars, OtherUses
<1> QED BY <1>1, <1>2, <1>3, <1>4, <1>5, <1>6 DEF Lives!Next, Lives!ThreadStep

LEMMA LivesTyped ==
  ASSUME Holders(Actor), UsesTyped(Actor, SharedGroup)
  PROVE  Lives!TypeOK
BY CountFits, LifeConstants, LifeSets DEF Holders, UsesTyped, Lives!TypeOK, Lives!Pc

(* What waits has its types in every state.                                *)
WaitTypes ==
  /\ part = "queue" => WakesFit
  /\ part = "life" => UsesTyped({ONE}, Group)
  /\ part = "lives" => UsesTyped(Actor, SharedGroup)

WaitParts == QueuePart /\ LifeParts /\ CudaPart /\ WaitTypes

LEMMA TypesFollow ==
  ASSUME LaunchTypes, WaitParts
  PROVE  TypeOK
<1>1. part = "queue" => Queue!TypeOK
  BY QueueTyped DEF WaitParts, QueuePart, WaitTypes
<1>2. part = "life" => Life!TypeOK
  BY LifeTyped DEF WaitParts, LifeParts, WaitTypes, LifeInv
<1>3. part = "lives" => Lives!TypeOK
  BY LivesTyped DEF WaitParts, LifeParts, WaitTypes
<1>4. part = "cuda" => Cuda!TypeOK
  BY DEF WaitParts, CudaPart, CudaInv
<1> QED BY <1>1, <1>2, <1>3, <1>4 DEF LaunchTypes, TypeOK

(* Every variable of every part keeps its type: among them the counters of *)
(* a barrier, which wrap at 2 ^ Width, the count of a buffer, which is at  *)
(* most its objects and threads, the sorted pairs of a handler and the     *)
(* places of the IRIS loader, which stay inside its storage.               *)
THEOREM TypeCorrect == Spec => []TypeOK
<1>1. Init => WaitParts
  <2> SUFFICES ASSUME Init PROVE WaitParts
    OBVIOUS
  <2>1. QueuePart /\ LifeParts /\ CudaPart
    BY QueueStarts, LifeStarts, LivesStarts, CudaStarts
       DEF Init, Begins, QueuePart, LifeParts, CudaPart
  <2>2. part = "queue" => WakesFit
    BY QueueConstants DEF Init, Begins, Queue!Init, WakesFit
  <2>3. part = "life" => UsesTyped({ONE}, Group)
    BY UsesStart DEF Init, Begins, Life!Init
  <2>4. part = "lives" => UsesTyped(Actor, SharedGroup)
    BY UsesStart DEF Init, Begins, Lives!Init
  <2> QED BY <2>1, <2>2, <2>3, <2>4 DEF WaitParts, WaitTypes
<1>2. WaitParts /\ [Next]_vars => WaitParts'
  <2> SUFFICES ASSUME WaitParts, [Next]_vars PROVE WaitParts'
    OBVIOUS
  <2>1. QueuePart' /\ LifeParts'
    BY QueueStep, LifeStep, LivesStep DEF Next, Moves, WaitParts, QueuePart, LifeParts, vars
  <2>2. CudaPart'
    BY CudaStep DEF Next, Moves, WaitParts, CudaPart, vars, cuda_vars, Cuda!vars
  <2>3. WaitTypes'
    BY WakesStay, LifeUses, LivesUses
       DEF Next, Moves, WaitParts, QueuePart, LifeParts, LifeInv, WaitTypes, vars
  <2> QED BY <2>1, <2>2, <2>3 DEF WaitParts
<1>3. LaunchTypes /\ WaitParts => TypeOK
  BY TypesFollow
<1> QED BY <1>1, <1>2, <1>3, LaunchTypesHold, PTL DEF Spec
=============================================================================
