--------------------------- MODULE EventNodeProofs ---------------------------
(* Proofs about EventNode: its inductive invariant, and the order of tasks *)
(* and barriers that follows from it, for every number of nodes, threads   *)
(* and edges below the width of the counters.                              *)
EXTENDS EventNode, FiniteSetTheorems, TLAPS

USE DEF Pending, CountEdge, Due, AllNotified, Awake, Signalled

(* What Append and Pop do to a sequence.                                   *)
LEMMA AppendFacts ==
  ASSUME NEW S, NEW s \in Seq(S), NEW e \in S
  PROVE  /\ Append(s, e) \in Seq(S)
         /\ Len(Append(s, e)) = Len(s) + 1
         /\ DOMAIN Append(s, e) = DOMAIN s \union {Len(s) + 1}
         /\ \A i \in DOMAIN s : Append(s, e)[i] = s[i]
         /\ Append(s, e)[Len(s) + 1] = e
         /\ Append(s, e) # <<>>
  OBVIOUS

LEMMA PopFacts ==
  ASSUME NEW S, NEW s \in Seq(S), s # <<>>
  PROVE  /\ Pop(s) \in Seq(S)
         /\ Top(s) \in S
         /\ Len(s) \in DOMAIN s
         /\ DOMAIN Pop(s) = DOMAIN s \ {Len(s)}
         /\ \A i \in DOMAIN Pop(s) : Pop(s)[i] = s[i]
  BY DEF Pop, Top

LEMMA TailFacts ==
  ASSUME NEW S, NEW s \in Seq(S), s # <<>>
  PROVE  /\ Tail(s) \in Seq(S)
         /\ Head(s) \in S
         /\ 1 \in DOMAIN s /\ Head(s) = s[1]
         /\ \A i \in DOMAIN Tail(s) : i + 1 \in DOMAIN s /\ Tail(s)[i] = s[i + 1]
  OBVIOUS
(* The counters stay within their width, and below it they count.          *)
LEMMA ModFacts ==
  ASSUME NEW a \in Nat
  PROVE  /\ a % CounterMod \in 0 .. CounterMod - 1
         /\ a < CounterMod => a % CounterMod = a
<1>1. CounterMod \in Nat \ {0}
  BY CounterAssumption
<1> QED BY <1>1
-----------------------------------------------------------------------------
(* The variables that notify() touches keep their types.                   *)
LEMMA NotifyType ==
  ASSUME TypeOK, NEW t \in Thread, NEW n \in Node, NEW f, Notify(t, n, f)
  PROVE  /\ n_wake' \in [Node -> 0 .. CounterMod - 1]
         /\ run' \in [Node -> BOOLEAN]
         /\ done' \in [Node -> BOOLEAN]
         /\ mutex' \in [Node -> Thread \union {NONE}]
         /\ stack' \in [Thread -> Seq(Node)]
         /\ pool' \in Seq(Node)
<1>1. (n_wake[n] + 1) % CounterMod \in 0 .. CounterMod - 1
  <2>1. n_wake[n] + 1 \in Nat
    BY CounterAssumption DEF TypeOK
  <2> QED BY <2>1, ModFacts
<1>2. n_wake' \in [Node -> 0 .. CounterMod - 1]
  BY <1>1 DEF TypeOK, Notify
<1>3. run' \in [Node -> BOOLEAN]
  BY DEF TypeOK, Notify
<1>4. done' \in [Node -> BOOLEAN] /\ mutex' \in [Node -> Thread \union {NONE}]
  BY DEF TypeOK, Notify, CompleteNoLock
<1>5. stack' \in [Thread -> Seq(Node)]
  <2>1. Append(stack[t], n) \in Seq(Node)
    BY AppendFacts DEF TypeOK
  <2> QED BY <2>1 DEF TypeOK, Notify, CompleteNoLock
<1>6. pool' \in Seq(Node)
  <2>1. Append(pool, n) \in Seq(Node)
    BY AppendFacts DEF TypeOK
  <2> QED BY <2>1 DEF TypeOK, Notify
<1> QED BY <1>2, <1>3, <1>4, <1>5, <1>6

(* The step of complete_no_lock's loop, with its two nodes named.          *)
NextEdge(t, p, n) ==
  /\ stack[t] # <<>> /\ p = stack[t][Len(stack[t])] /\ Len(stack[t]) \in DOMAIN stack[t]
  /\ pos[p] \in DOMAIN nexts[p] /\ n = nexts[p][pos[p]]
  /\ Notify(t, n, fn[n])
  /\ pos' = [pos EXCEPT ![p] = @ + 1]
  /\ UNCHANGED <<phase, cur, call, need_wait, ready, n_wait, nexts, fn, job>>

LEMMA NotifyNextEdge ==
  ASSUME TypeOK, NEW t \in Thread, NotifyNext(t)
  PROVE  \E p, n \in Node : NextEdge(t, p, n)
<1> DEFINE p == Top(stack[t])
           n == nexts[p][pos[p]]
<1>1. stack[t] \in Seq(Node) /\ stack[t] # <<>>
  BY DEF TypeOK, NotifyNext, Calling
<1>2. p \in Node /\ p = stack[t][Len(stack[t])] /\ Len(stack[t]) \in DOMAIN stack[t]
  BY <1>1, PopFacts DEF Top
<1>3. nexts[p] \in Seq(Node) /\ pos[p] \in Nat \ {0} /\ pos[p] <= Len(nexts[p])
  BY <1>2 DEF TypeOK, NotifyNext
<1>4. n \in Node /\ pos[p] \in DOMAIN nexts[p]
  BY <1>3
<1>5. NextEdge(t, p, n)
  BY <1>1, <1>2, <1>4 DEF NotifyNext, NextEdge
<1> QED BY <1>2, <1>4, <1>5

LEMMA TypeInit == Init => TypeOK
<1>1. 1 % CounterMod = 1 /\ 1 \in 0 .. CounterMod - 1 /\ 0 \in 0 .. CounterMod - 1
  BY ModFacts, CounterAssumption
<1>2. Init => n_wait \in [Node -> 0 .. CounterMod - 1]
  BY <1>1 DEF Init
<1> QED BY <1>1, <1>2 DEF Init, TypeOK, Phase

LEMMA TypeStep == TypeOK /\ BuildInv /\ [Next]_vars => TypeOK'
<1> SUFFICES ASSUME TypeOK, BuildInv, [Next]_vars PROVE TypeOK'
  OBVIOUS
<1>1. ASSUME NEW t \in User, NEW n \in Node, Create(t, n) PROVE TypeOK'
  BY <1>1 DEF TypeOK, Create, Phase, node_vars
<1>2. ASSUME NEW t \in User, NEW p \in Node, HappensBefore(t, p) PROVE TypeOK'
  BY <1>2 DEF TypeOK, HappensBefore, Thread
<1>3. ASSUME NEW t \in User, Link(t) PROVE TypeOK'
  <2>1. call[t] \in Node /\ cur[t] \in Node
    BY <1>3 DEF TypeOK, Link, BuildInv
  <2>2. Append(nexts[call[t]], cur[t]) \in Seq(Node)
    BY <2>1, AppendFacts DEF TypeOK
  <2>3. nexts' \in [Node -> Seq(Node)]
    BY <1>3, <2>1, <2>2 DEF TypeOK, Link
  <2>4. (n_wait[cur[t]] + 1) % CounterMod \in 0 .. CounterMod - 1
    <3>1. n_wait[cur[t]] + 1 \in Nat
      BY <2>1, CounterAssumption DEF TypeOK
    <3> QED BY <3>1, ModFacts
  <2>5. n_wait' \in [Node -> 0 .. CounterMod - 1]
    BY <1>3, <2>1, <2>4 DEF TypeOK, Link
  <2> QED BY <1>3, <2>1, <2>3, <2>5 DEF TypeOK, Link
<1>4. ASSUME NEW t \in User, Bind(t) PROVE TypeOK'
  BY <1>4 DEF TypeOK, Bind, Phase, node_vars
<1>5. ASSUME NEW t \in User, Submit(t) PROVE TypeOK'
  <2>1. t \in Thread /\ cur[t] \in Node
    BY <1>5 DEF TypeOK, Submit, Thread
  <2>2. PICK f \in BOOLEAN : fn' = [fn EXCEPT ![cur[t]] = f] /\ Notify(t, cur[t], f)
    BY <1>5 DEF Submit
  <2> QED BY <1>5, <2>1, <2>2, NotifyType DEF TypeOK, Submit, Phase
<1>6. ASSUME NEW t \in User, WaitNothing(t) PROVE TypeOK'
  BY <1>6 DEF TypeOK, WaitNothing, Phase, node_vars
<1>7. ASSUME NEW t \in User, Wait(t) PROVE TypeOK'
  <2>1. t \in Thread /\ cur[t] \in Node
    BY <1>7 DEF TypeOK, Wait, Thread
  <2> QED BY <1>7, <2>1, NotifyType DEF TypeOK, Wait, Phase
<1>8. ASSUME NEW t \in User, WakeUp(t) PROVE TypeOK'
  BY <1>8 DEF TypeOK, WakeUp, Phase, node_vars
<1>9. ASSUME NEW t \in Worker, TakeJob(t) PROVE TypeOK'
  BY <1>9, TailFacts DEF TypeOK, TakeJob, node_vars
<1>10. ASSUME NEW t \in Worker, Signal(t) PROVE TypeOK'
  BY <1>10 DEF TypeOK, Signal, node_vars
<1>11. ASSUME NEW t \in Worker, Complete(t) PROVE TypeOK'
  <2>1. t \in Thread /\ job[t] \in Node
    BY <1>11 DEF TypeOK, Complete, Thread
  <2>2. stack' \in [Thread -> Seq(Node)]
    <3>1. Append(stack[t], job[t]) \in Seq(Node)
      BY <2>1, AppendFacts DEF TypeOK
    <3> QED BY <1>11, <2>1, <3>1 DEF TypeOK, Complete, CompleteNoLock
  <2> QED BY <1>11, <2>1, <2>2 DEF TypeOK, Complete, CompleteNoLock
<1>12. ASSUME NEW t \in Thread, NotifyNext(t) PROVE TypeOK'
  <2>1. PICK p \in Node, n \in Node : NextEdge(t, p, n)
    BY <1>12, NotifyNextEdge
  <2>2. pos' \in [Node -> Nat \ {0}]
    <3>1. pos[p] + 1 \in Nat \ {0}
      BY DEF TypeOK
    <3>2. pos' = [pos EXCEPT ![p] = pos[p] + 1]
      BY <2>1 DEF NextEdge
    <3> QED BY <3>1, <3>2 DEF TypeOK
  <2>3. fn[n] \in BOOLEAN /\ Notify(t, n, fn[n])
    BY <2>1 DEF TypeOK, NextEdge
  <2>4. /\ n_wake' \in [Node -> 0 .. CounterMod - 1]
        /\ run' \in [Node -> BOOLEAN] /\ done' \in [Node -> BOOLEAN]
        /\ mutex' \in [Node -> Thread \union {NONE}]
        /\ stack' \in [Thread -> Seq(Node)] /\ pool' \in Seq(Node)
    BY <2>3, NotifyType
  <2> QED BY <2>1, <2>2, <2>4 DEF TypeOK, NextEdge
<1>13. ASSUME NEW t \in Thread, Return(t) PROVE TypeOK'
  <2>1. Top(stack[t]) \in Node /\ Pop(stack[t]) \in Seq(Node)
    BY <1>13, PopFacts DEF TypeOK, Return, Calling
  <2> QED BY <1>13, <2>1 DEF TypeOK, Return
<1>14. CASE UNCHANGED vars
  BY <1>14 DEF TypeOK, vars
<1> QED
  BY <1>1, <1>2, <1>3, <1>4, <1>5, <1>6, <1>7, <1>8, <1>9, <1>10, <1>11, <1>12,
     <1>13, <1>14 DEF Next, UserStep, WorkerStep, CallStep, Finished
-----------------------------------------------------------------------------
(* What a notification changes.                                            *)
LEMMA NotifyEffect ==
  ASSUME TypeOK, NEW t \in Thread, NEW n \in Node, NEW f, Notify(t, n, f)
  PROVE  /\ mutex[n] = NONE
         /\ \A m \in Node \ {n} : /\ mutex'[m] = mutex[m] /\ done'[m] = done[m]
                                  /\ run'[m] = run[m] /\ n_wake'[m] = n_wake[m]
         /\ n_wake'[n] = (n_wake[n] + 1) % CounterMod
         /\ done[n] => done'[n]
         /\ run'[n] <=> run[n] \/ n_wake'[n] = n_wait[n]
         /\ \/ UNCHANGED <<done, mutex, stack>>
            \/ CompleteNoLock(t, n) /\ run'[n]
  BY DEF TypeOK, Notify, CompleteNoLock

LEMMA EdgeMember ==
  ASSUME NEW n
  PROVE  \A e : e \in EdgesInto(n) <=>
           \E q \in Node : \E i \in DOMAIN nexts[q] : e = <<q, i>> /\ nexts[q][i] = n
  BY DEF EdgesInto

(* Edges appear only in happens_before.                                    *)
LEMMA SameEdges ==
  ASSUME UNCHANGED nexts, NEW n
  PROVE  EdgesInto(n)' = EdgesInto(n)
  BY DEF EdgesInto

LEMMA LinkEdges ==
  ASSUME TypeOK, NEW t \in User, NEW p \in Node, NEW n \in Node,
         p = call[t], n = cur[t], Link(t)
  PROVE  /\ EdgesInto(n)' = EdgesInto(n) \union {<<p, Len(nexts[p]) + 1>>}
         /\ <<p, Len(nexts[p]) + 1>> \notin EdgesInto(n)
         /\ \A m \in Node \ {n} : EdgesInto(m)' = EdgesInto(m)
         /\ nexts' \in [Node -> Seq(Node)]
         /\ \A q \in Node : Len(nexts'[q]) = (IF q = p THEN Len(nexts[q]) + 1 ELSE Len(nexts[q]))
<1>1. nexts' = [nexts EXCEPT ![p] = Append(nexts[p], n)] /\ nexts[p] \in Seq(Node)
  BY DEF Link, TypeOK
<1>2. /\ nexts'[p] = Append(nexts[p], n) /\ DOMAIN nexts'[p] = DOMAIN nexts[p] \union {Len(nexts[p]) + 1}
      /\ Len(nexts'[p]) = Len(nexts[p]) + 1 /\ Len(nexts[p]) + 1 \notin DOMAIN nexts[p]
      /\ nexts'[p] \in Seq(Node)
      /\ \A i \in DOMAIN nexts[p] : nexts'[p][i] = nexts[p][i]
      /\ nexts'[p][Len(nexts[p]) + 1] = n
  <2>1. nexts'[p] = Append(nexts[p], n)
    BY <1>1 DEF TypeOK
  <2> QED BY <1>1, <2>1, AppendFacts
<1>3. \A q \in Node \ {p} : nexts'[q] = nexts[q]
  BY <1>1 DEF TypeOK
<1>4. nexts' \in [Node -> Seq(Node)]
  BY <1>1, <1>2 DEF TypeOK
<1>5. \A q \in Node : Len(nexts'[q]) = (IF q = p THEN Len(nexts[q]) + 1 ELSE Len(nexts[q]))
  BY <1>2, <1>3
<1> DEFINE l == Len(nexts[p]) + 1
<1> HIDE DEF l
<1>0. /\ \A e, m : e \in EdgesInto(m)' <=>
           \E q \in Node : \E i \in DOMAIN nexts'[q] : e = <<q, i>> /\ nexts'[q][i] = m
      /\ \A e, m : e \in EdgesInto(m) <=>
           \E q \in Node : \E i \in DOMAIN nexts[q] : e = <<q, i>> /\ nexts[q][i] = m
  BY DEF EdgesInto
<1>6. EdgesInto(n)' = EdgesInto(n) \union {<<p, Len(nexts[p]) + 1>>}
  <2>1. ASSUME NEW e \in EdgesInto(n)' PROVE e \in EdgesInto(n) \union {<<p, l>>}
    <3>1. PICK q \in Node : \E i \in DOMAIN nexts'[q] : e = <<q, i>> /\ nexts'[q][i] = n
      BY <2>1, <1>0
    <3>0. PICK i \in DOMAIN nexts'[q] : e = <<q, i>> /\ nexts'[q][i] = n
      BY <3>1
    <3>2. CASE q = p /\ i = l
      BY <3>0, <3>2
    <3>3. CASE ~(q = p /\ i = l)
      <4>1. i \in DOMAIN nexts[q] /\ nexts[q][i] = n
        BY <1>2, <1>3, <3>0, <3>3 DEF l
      <4> QED BY <1>0, <3>0, <4>1
    <3> QED BY <3>2, <3>3
  <2>2. ASSUME NEW e \in EdgesInto(n) PROVE e \in EdgesInto(n)'
    <3>1. PICK q \in Node : \E i \in DOMAIN nexts[q] : e = <<q, i>> /\ nexts[q][i] = n
      BY <2>2, <1>0
    <3>0. PICK i \in DOMAIN nexts[q] : e = <<q, i>> /\ nexts[q][i] = n
      BY <3>1
    <3>2. i \in DOMAIN nexts'[q] /\ nexts'[q][i] = n
      BY <1>2, <1>3, <3>0
    <3> QED BY <1>0, <3>0, <3>2
  <2>3. <<p, l>> \in EdgesInto(n)'
    BY <1>0, <1>2 DEF l
  <2> QED BY <2>1, <2>2, <2>3 DEF l
<1>7. <<p, Len(nexts[p]) + 1>> \notin EdgesInto(n)
  BY <1>2 DEF EdgesInto
<1>8. ASSUME NEW m \in Node \ {n} PROVE EdgesInto(m)' = EdgesInto(m)
  <2>1. ASSUME NEW e \in EdgesInto(m)' PROVE e \in EdgesInto(m)
    <3>1. PICK q \in Node : \E i \in DOMAIN nexts'[q] : e = <<q, i>> /\ nexts'[q][i] = m
      BY <2>1, <1>0
    <3>2. PICK i \in DOMAIN nexts'[q] : e = <<q, i>> /\ nexts'[q][i] = m
      BY <3>1
    <3>3. i \in DOMAIN nexts[q] /\ nexts[q][i] = m
      BY <3>2, <1>2, <1>3
    <3> QED BY <3>2, <3>3, <1>0
  <2>2. ASSUME NEW e \in EdgesInto(m) PROVE e \in EdgesInto(m)'
    BY <2>2, <1>0, <1>2, <1>3
  <2> QED BY <2>1, <2>2
<1> QED BY <1>4, <1>5, <1>6, <1>7, <1>8
-----------------------------------------------------------------------------
(* A mutex that is taken while free is not one held in happens_before.     *)
LEMMA CallsKept ==
  ASSUME TypeOK, BuildInv, NEW n \in Node, mutex[n] = NONE,
         \A m \in Node \ {n} : mutex'[m] = mutex[m] /\ done'[m] = done[m]
  PROVE  \A u \in User : call[u] # NONE => mutex'[call[u]] = u /\ ~done'[call[u]]
<1> SUFFICES ASSUME NEW u \in User, call[u] # NONE
             PROVE  mutex'[call[u]] = u /\ ~done'[call[u]]
  OBVIOUS
<1>1. call[u] \in Node /\ mutex[call[u]] = u /\ ~done[call[u]]
  BY DEF TypeOK, BuildInv
<1>2. u # NONE
  BY DistinctAssumption DEF Thread
<1> QED BY <1>1, <1>2

LEMMA BuildStep == TypeOK /\ BuildInv /\ StackInv /\ [Next]_vars => BuildInv'
<1> SUFFICES ASSUME TypeOK, BuildInv, StackInv, [Next]_vars PROVE BuildInv'
  OBVIOUS
<1> USE DistinctAssumption DEF Thread
<1>a. /\ \A u \in User : cur[u] \in Node \union {NONE} /\ call[u] \in Node \union {NONE}
      /\ \A u \in User : cur[u] # NONE => phase[cur[u]] \in {"open", "bound", "sync", "waiting"}
      /\ \A u, v \in User : cur[u] # NONE /\ cur[u] = cur[v] => u = v
  BY DEF BuildInv, TypeOK
<1>b. \A u \in User : call[u] # NONE =>
        /\ cur[u] # NONE /\ phase[cur[u]] \in {"open", "sync"}
        /\ mutex[call[u]] = u /\ ~done[call[u]]
        /\ Cardinality(EdgesInto(cur[u])) < MaxPreds
  BY DEF BuildInv
<1>0. ASSUME UNCHANGED <<cur, call, phase, nexts>>,
             \A u \in User : call[u] # NONE => mutex'[call[u]] = u /\ ~done'[call[u]]
      PROVE  BuildInv'
  BY <1>0 DEF BuildInv, EdgesInto
<1>1. ASSUME NEW t \in User, NEW n \in Node, Create(t, n) PROVE BuildInv'
  <2>1. /\ cur[t] = NONE /\ phase[n] = "none" /\ cur' = [cur EXCEPT ![t] = n]
        /\ phase'[n] \in {"open", "sync"}
        /\ \A m \in Node \ {n} : phase'[m] = phase[m]
        /\ UNCHANGED <<call, mutex, done, nexts>>
    BY <1>1 DEF Create, TypeOK, node_vars
  <2>2. \A u \in User : cur[u] # NONE => cur[u] # n /\ cur[u] \in Node
    BY <2>1, <1>a
  <2>3. \A u \in User : cur'[u] = (IF u = t THEN n ELSE cur[u])
    BY <2>1 DEF TypeOK
  <2>4. \A m : EdgesInto(m)' = EdgesInto(m)
    BY <2>1 DEF EdgesInto
  <2> QED BY <1>a, <1>b, <2>1, <2>2, <2>3, <2>4 DEF BuildInv
<1>2. ASSUME NEW t \in User, NEW p \in Node, HappensBefore(t, p) PROVE BuildInv'
  <2>1. /\ mutex[p] = NONE /\ ~done[p] /\ cur[t] # NONE /\ call[t] = NONE
        /\ phase[cur[t]] \in {"open", "sync"}
        /\ call'[t] = p /\ \A u \in User \ {t} : call'[u] = call[u]
        /\ mutex'[p] = t /\ \A m \in Node \ {p} : mutex'[m] = mutex[m]
        /\ UNCHANGED <<phase, cur, done, nexts>>
        /\ Cardinality(EdgesInto(cur[t])) < MaxPreds
    BY <1>2 DEF HappensBefore, TypeOK
  <2>2. \A u \in User : call[u] # NONE => call[u] # p /\ call[u] \in Node
    BY <2>1 DEF BuildInv, TypeOK
  <2>3. \A m : EdgesInto(m)' = EdgesInto(m)
    BY <2>1 DEF EdgesInto
  <2> QED BY <2>1, <2>2, <2>3 DEF BuildInv
<1>3. ASSUME NEW t \in User, Link(t) PROVE BuildInv'
  <2>1. PICK p \in Node, n \in Node : p = call[t] /\ n = cur[t]
    BY <1>3 DEF Link, TypeOK, BuildInv
  <2>2. /\ call'[t] = NONE /\ \A u \in User \ {t} : call'[u] = call[u]
        /\ \A m \in Node \ {p} : mutex'[m] = mutex[m]
        /\ UNCHANGED <<phase, cur, done>>
    BY <1>3, <2>1 DEF Link, TypeOK
  <2>3. \A u \in User \ {t} : call[u] # NONE =>
          /\ call[u] # p /\ call[u] \in Node
          /\ cur[u] # n /\ cur[u] \in Node
    BY <1>3, <2>1 DEF BuildInv, TypeOK, Link
  <2>4. \A m \in Node \ {n} : EdgesInto(m)' = EdgesInto(m)
    BY <1>3, <2>1, LinkEdges
  <2> QED BY <1>a, <1>b, <2>1, <2>2, <2>3, <2>4 DEF BuildInv
<1>4. ASSUME NEW t \in User, Bind(t) PROVE BuildInv'
  <2>1. /\ cur[t] \in Node /\ call[t] = NONE /\ phase'[cur[t]] = "bound"
        /\ \A m \in Node \ {cur[t]} : phase'[m] = phase[m]
        /\ UNCHANGED <<cur, call, mutex, done, nexts>>
    BY <1>4 DEF Bind, TypeOK, node_vars
  <2>2. \A m : EdgesInto(m)' = EdgesInto(m)
    BY <2>1 DEF EdgesInto
  <2>3. \A u \in User \ {t} : cur[u] # NONE => phase'[cur[u]] = phase[cur[u]]
    BY <2>1, <1>a
  <2> QED BY <1>a, <1>b, <2>1, <2>2, <2>3 DEF BuildInv
(* The steps in which a user thread gives up its node n.                   *)
<1>5. ASSUME NEW t \in User, NEW n \in Node, cur[t] = n, call[t] = NONE,
             cur' = [cur EXCEPT ![t] = NONE], UNCHANGED <<call, nexts>>,
             \A m \in Node \ {n} : phase'[m] = phase[m],
             \A u \in User : call[u] # NONE => mutex'[call[u]] = u /\ ~done'[call[u]]
      PROVE  BuildInv'
  <2>1. \A u \in User \ {t} : cur'[u] = cur[u] /\ (cur[u] # NONE => cur[u] \in Node \ {n})
    BY <1>5 DEF BuildInv, TypeOK
  <2>2. cur'[t] = NONE /\ \A m : EdgesInto(m)' = EdgesInto(m)
    BY <1>5 DEF TypeOK, EdgesInto
  <2> QED BY <1>5, <2>1, <2>2 DEF BuildInv
<1>6. ASSUME NEW t \in User, Submit(t) PROVE BuildInv'
  <2>1. PICK n \in Node, f \in BOOLEAN : n = cur[t] /\ Notify(t, n, f)
    BY <1>6 DEF Submit, TypeOK
  <2>2. /\ mutex[n] = NONE
        /\ \A m \in Node \ {n} : mutex'[m] = mutex[m] /\ done'[m] = done[m]
    BY <2>1, NotifyEffect
  <2>3. \A u \in User : call[u] # NONE => mutex'[call[u]] = u /\ ~done'[call[u]]
    BY <2>2, CallsKept
  <2> QED BY <1>5, <1>6, <2>1, <2>3 DEF Submit, TypeOK
<1>7. ASSUME NEW t \in User, WaitNothing(t) PROVE BuildInv'
  <2>1. UNCHANGED <<mutex, done, nexts>> /\ cur[t] \in Node
    BY <1>7, <1>a DEF WaitNothing, node_vars
  <2>2. \A u \in User : call[u] # NONE => mutex'[call[u]] = u /\ ~done'[call[u]]
    BY <2>1 DEF BuildInv
  <2> QED BY <1>5, <1>7, <2>1, <2>2 DEF WaitNothing, TypeOK
<1>8. ASSUME NEW t \in User, WakeUp(t) PROVE BuildInv'
  <2>1. UNCHANGED <<mutex, done, nexts>> /\ cur[t] \in Node /\ call[t] = NONE
    BY <1>8, <1>a, <1>b DEF WakeUp, node_vars
  <2>2. \A u \in User : call[u] # NONE => mutex'[call[u]] = u /\ ~done'[call[u]]
    BY <2>1 DEF BuildInv
  <2> QED BY <1>5, <1>8, <2>1, <2>2 DEF WakeUp, TypeOK
<1>9. ASSUME NEW t \in User, Wait(t) PROVE BuildInv'
  <2>1. PICK n \in Node : n = cur[t] /\ Notify(t, n, TRUE)
    BY <1>9 DEF Wait, TypeOK
  <2>2. /\ mutex[n] = NONE
        /\ \A m \in Node \ {n} : mutex'[m] = mutex[m] /\ done'[m] = done[m]
    BY <2>1, NotifyEffect
  <2>3. \A u \in User : call[u] # NONE => mutex'[call[u]] = u /\ ~done'[call[u]]
    BY <2>2, CallsKept
  <2>4. /\ call[t] = NONE /\ phase'[n] = "waiting" /\ UNCHANGED <<cur, call, nexts>>
        /\ \A m \in Node \ {n} : phase'[m] = phase[m]
    BY <1>9, <2>1 DEF Wait, TypeOK
  <2>5. \A m : EdgesInto(m)' = EdgesInto(m)
    BY <2>4 DEF EdgesInto
  <2>6. \A u \in User \ {t} : cur[u] # NONE => phase'[cur[u]] = phase[cur[u]]
    BY <2>1, <2>4, <1>a
  <2> QED BY <1>a, <1>b, <2>1, <2>3, <2>4, <2>5, <2>6 DEF BuildInv
<1>10. ASSUME NEW t \in Worker, TakeJob(t) \/ Signal(t) PROVE BuildInv'
  BY <1>0, <1>10 DEF TakeJob, Signal, node_vars, BuildInv
<1>11. ASSUME NEW t \in Worker, Complete(t) PROVE BuildInv'
  <2>1. /\ job[t] \in Node /\ mutex[job[t]] = NONE
        /\ \A m \in Node \ {job[t]} : mutex'[m] = mutex[m] /\ done'[m] = done[m]
    BY <1>11 DEF Complete, CompleteNoLock, TypeOK
  <2> QED BY <1>0, <1>11, <2>1, CallsKept DEF Complete
<1>12. ASSUME NEW t \in Thread, NotifyNext(t) PROVE BuildInv'
  <2>1. PICK p \in Node, n \in Node : NextEdge(t, p, n)
    BY <1>12, NotifyNextEdge
  <2>0. Notify(t, n, fn[n])
    BY <2>1 DEF NextEdge
  <2>2. /\ mutex[n] = NONE
        /\ \A m \in Node \ {n} : mutex'[m] = mutex[m] /\ done'[m] = done[m]
    BY <2>0, NotifyEffect
  <2> QED BY <1>0, <2>1, <2>2, CallsKept DEF NextEdge
<1>13. ASSUME NEW t \in Thread, Return(t) PROVE BuildInv'
  <2>1. PICK p \in Node : /\ p = stack[t][Len(stack[t])] /\ Len(stack[t]) \in DOMAIN stack[t]
                          /\ \A m \in Node \ {p} : mutex'[m] = mutex[m]
    BY <1>13, PopFacts DEF Return, Calling, TypeOK, Top
  <2>2. \A u \in User : call[u] # NONE => call[u] \in Node /\ call[u] # p
    BY <2>1 DEF BuildInv, StackInv, TypeOK
  <2> QED BY <1>0, <1>13, <2>1, <2>2 DEF Return, BuildInv
<1>14. CASE UNCHANGED vars
  BY <1>0, <1>14 DEF vars, BuildInv
<1> QED
  BY <1>1, <1>2, <1>3, <1>4, <1>6, <1>7, <1>8, <1>9, <1>10, <1>11, <1>12, <1>13, <1>14
     DEF Next, UserStep, WorkerStep, CallStep, Finished
-----------------------------------------------------------------------------
(* complete_no_lock on a free node: it is new on the stack.                *)
LEMMA PushStack ==
  ASSUME TypeOK, StackInv, NEW t \in Thread, NEW n \in Node, mutex[n] = NONE,
         CompleteNoLock(t, n)
  PROVE  /\ \A u \in Thread : \A i \in DOMAIN stack'[u] :
              mutex'[stack'[u][i]] = u /\ done'[stack'[u][i]]
         /\ \A u \in Thread : \A i, j \in DOMAIN stack'[u] :
              stack'[u][i] = stack'[u][j] => i = j
         /\ \A u \in Thread, m \in Node : OnStack(u, m) => OnStack(u, m)'
         /\ OnStack(t, n)' /\ done'[n]
         /\ \A m \in Node \ {n} : done'[m] = done[m]
<1>1. /\ done'[n] /\ mutex'[n] = t
      /\ \A m \in Node \ {n} : done'[m] = done[m] /\ mutex'[m] = mutex[m]
      /\ stack'[t] = Append(stack[t], n) /\ \A u \in Thread \ {t} : stack'[u] = stack[u]
  BY DEF TypeOK, CompleteNoLock
<1>2. /\ \A u \in Thread : \A i \in DOMAIN stack[u] :
           stack[u][i] \in Node /\ mutex[stack[u][i]] = u /\ done[stack[u][i]]
      /\ \A u \in Thread : \A i, j \in DOMAIN stack[u] : stack[u][i] = stack[u][j] => i = j
  BY DEF TypeOK, StackInv
<1>3. \A u \in Thread : \A i \in DOMAIN stack[u] : stack[u][i] # n
  BY <1>2, DistinctAssumption
<1> DEFINE l == Len(stack[t]) + 1
<1>4. /\ DOMAIN stack'[t] = DOMAIN stack[t] \union {l}
      /\ stack'[t][l] = n
      /\ \A i \in DOMAIN stack[t] : stack'[t][i] = stack[t][i]
  BY <1>1, AppendFacts DEF TypeOK
<1> HIDE DEF l
<1>5. /\ \A u \in Thread, m \in Node : OnStack(u, m) => OnStack(u, m)'
      /\ OnStack(t, n)'
  BY <1>1, <1>4 DEF OnStack
<1>6. \A u \in Thread : \A i \in DOMAIN stack'[u] :
        IF u = t /\ i = l THEN stack'[u][i] = n
                          ELSE i \in DOMAIN stack[u] /\ stack'[u][i] = stack[u][i]
  BY <1>1, <1>4
<1>7. \A u \in Thread : \A i \in DOMAIN stack'[u] :
        mutex'[stack'[u][i]] = u /\ done'[stack'[u][i]]
  BY <1>1, <1>2, <1>3, <1>6
<1>8. \A u \in Thread : \A i, j \in DOMAIN stack'[u] :
        stack'[u][i] = stack'[u][j] => i = j
  BY <1>2, <1>3, <1>6
<1> QED BY <1>1, <1>5, <1>7, <1>8

LEMMA NotifyStack ==
  ASSUME TypeOK, StackInv, NEW t \in Thread, NEW n \in Node, NEW f, Notify(t, n, f)
  PROVE  /\ \A u \in Thread : \A i \in DOMAIN stack'[u] :
              mutex'[stack'[u][i]] = u /\ done'[stack'[u][i]]
         /\ \A u \in Thread : \A i, j \in DOMAIN stack'[u] :
              stack'[u][i] = stack'[u][j] => i = j
         /\ \A u \in Thread, m \in Node : OnStack(u, m) => OnStack(u, m)'
         /\ \A m \in Node : done[m] => done'[m]
         /\ \A m \in Node : done'[m] => done[m] \/ OnStack(t, m)'
<1>1. mutex[n] = NONE /\ (UNCHANGED <<done, mutex, stack>> \/ CompleteNoLock(t, n))
  BY NotifyEffect
<1>2. CASE UNCHANGED <<done, mutex, stack>>
  BY <1>2 DEF StackInv, OnStack
<1>3. CASE CompleteNoLock(t, n)
  BY <1>1, <1>3, PushStack
<1> QED BY <1>1, <1>2, <1>3

LEMMA StackStep == TypeOK /\ BuildInv /\ StackInv /\ [Next]_vars => StackInv'
<1> SUFFICES ASSUME TypeOK, BuildInv, StackInv, [Next]_vars PROVE StackInv'
  OBVIOUS
<1>a. /\ \A u \in Thread : \A i \in DOMAIN stack[u] :
           stack[u][i] \in Node /\ mutex[stack[u][i]] = u /\ done[stack[u][i]]
      /\ \A u \in Thread : \A i, j \in DOMAIN stack[u] : stack[u][i] = stack[u][j] => i = j
  BY DEF TypeOK, StackInv
<1>b. /\ \A m \in Node : pos[m] <= Len(nexts[m]) + 1 /\ (pos[m] > 1 => done[m])
      /\ \A m \in Node : done[m] /\ pos[m] <= Len(nexts[m]) =>
           \E u \in Thread : OnStack(u, m)
  BY DEF StackInv
<1>0. ASSUME UNCHANGED <<mutex, done, stack, pos, nexts>> PROVE StackInv'
  BY <1>0 DEF StackInv, OnStack
<1>1. CASE \E t \in User : \/ \E n \in Node : Create(t, n)
                           \/ Bind(t) \/ WaitNothing(t) \/ WakeUp(t)
  BY <1>0, <1>1 DEF Create, Bind, WaitNothing, WakeUp, node_vars
<1>2. CASE (\E t \in Worker : TakeJob(t) \/ Signal(t)) \/ UNCHANGED vars
  BY <1>0, <1>2 DEF TakeJob, Signal, node_vars, vars
<1>3. ASSUME NEW t \in User, NEW p \in Node, HappensBefore(t, p) PROVE StackInv'
  <2>1. /\ mutex[p] = NONE /\ \A m \in Node \ {p} : mutex'[m] = mutex[m]
        /\ UNCHANGED <<done, stack, pos, nexts>>
    BY <1>3 DEF HappensBefore, TypeOK
  <2>2. \A u \in Thread : \A i \in DOMAIN stack[u] : stack[u][i] \in Node \ {p}
    BY <1>a, <2>1, DistinctAssumption
  <2> QED BY <1>a, <1>b, <2>1, <2>2 DEF StackInv, OnStack
<1>4. ASSUME NEW t \in User, Link(t) PROVE StackInv'
  <2>1. PICK p \in Node, n \in Node : p = call[t] /\ n = cur[t] /\ ~done[p]
    BY <1>4 DEF Link, TypeOK, BuildInv
  <2>2. /\ \A m \in Node \ {p} : mutex'[m] = mutex[m]
        /\ UNCHANGED <<done, stack, pos>>
    BY <1>4, <2>1 DEF Link, TypeOK
  <2>3. \A u \in Thread : \A i \in DOMAIN stack[u] : stack[u][i] \in Node \ {p}
    BY <1>a, <2>1
  <2>4. \A q \in Node : Len(nexts'[q]) = (IF q = p THEN Len(nexts[q]) + 1 ELSE Len(nexts[q]))
    BY <1>4, <2>1, LinkEdges
  <2>5. \A q \in Node : pos[q] \in Nat /\ Len(nexts[q]) \in Nat
    BY DEF TypeOK
  <2>6. \A q \in Node : pos'[q] <= Len(nexts'[q]) + 1 /\ (pos'[q] > 1 => done'[q])
    BY <1>b, <2>2, <2>4, <2>5
  <2>7. \A q \in Node : done'[q] /\ pos'[q] <= Len(nexts'[q]) =>
          \E u \in Thread : OnStack(u, q)'
    BY <1>b, <2>1, <2>2, <2>4, <2>5 DEF OnStack
  <2> QED BY <1>a, <2>2, <2>3, <2>6, <2>7 DEF StackInv
(* The steps that notify a node and leave the loops alone.                 *)
<1>5. ASSUME NEW t \in Thread, NEW n \in Node, NEW f, Notify(t, n, f),
             UNCHANGED <<pos, nexts>>
      PROVE  StackInv'
  <2>1. /\ \A m \in Node : done[m] => done'[m]
        /\ \A m \in Node : done'[m] => done[m] \/ OnStack(t, m)'
        /\ \A u \in Thread, m \in Node : OnStack(u, m) => OnStack(u, m)'
    BY <1>5, NotifyStack
  <2>2. \A m \in Node : done'[m] /\ pos'[m] <= Len(nexts'[m]) =>
          \E u \in Thread : OnStack(u, m)'
    BY <1>5, <1>b, <2>1
  <2>3. \A m \in Node : pos'[m] <= Len(nexts'[m]) + 1 /\ (pos'[m] > 1 => done'[m])
    BY <1>5, <1>b, <2>1
  <2> QED BY <1>5, <2>2, <2>3, NotifyStack DEF StackInv
<1>6. CASE \E t \in User : Submit(t) \/ Wait(t)
  <2>1. PICK t \in User : Submit(t) \/ Wait(t)
    BY <1>6
  <2>2. t \in Thread /\ cur[t] \in Node /\ UNCHANGED <<pos, nexts>>
        /\ \E f : Notify(t, cur[t], f)
    BY <2>1 DEF Submit, Wait, TypeOK, Thread
  <2> QED BY <1>5, <2>2
<1>7. ASSUME NEW t \in Worker, Complete(t) PROVE StackInv'
  <2>1. /\ job[t] \in Node /\ t \in Thread /\ mutex[job[t]] = NONE
        /\ CompleteNoLock(t, job[t]) /\ UNCHANGED <<pos, nexts>>
    BY <1>7 DEF Complete, TypeOK, Thread
  <2>2. /\ \A m \in Node : done[m] => done'[m]
        /\ \A m \in Node : done'[m] => done[m] \/ OnStack(t, m)'
        /\ \A u \in Thread, m \in Node : OnStack(u, m) => OnStack(u, m)'
    BY <2>1, PushStack
  <2>3. \A m \in Node : done'[m] /\ pos'[m] <= Len(nexts'[m]) =>
          \E u \in Thread : OnStack(u, m)'
    BY <1>b, <2>1, <2>2
  <2>4. \A m \in Node : pos'[m] <= Len(nexts'[m]) + 1 /\ (pos'[m] > 1 => done'[m])
    BY <1>b, <2>1, <2>2
  <2> QED BY <2>1, <2>3, <2>4, PushStack DEF StackInv
<1>8. ASSUME NEW t \in Thread, NotifyNext(t) PROVE StackInv'
  <2>1. PICK p \in Node, n \in Node : NextEdge(t, p, n)
    BY <1>8, NotifyNextEdge
  <2>2. Notify(t, n, fn[n]) /\ nexts' = nexts
    BY <2>1 DEF NextEdge
  <2>3. OnStack(t, p) /\ done[p]
    BY <2>1, <1>a DEF NextEdge, OnStack
  <2>4. /\ pos[p] \in Nat /\ pos[p] <= Len(nexts[p])
        /\ pos'[p] = pos[p] + 1 /\ \A m \in Node \ {p} : pos'[m] = pos[m]
    <3>1. pos[p] \in DOMAIN nexts[p] /\ pos' = [pos EXCEPT ![p] = @ + 1]
      BY <2>1 DEF NextEdge
    <3>2. nexts[p] \in Seq(Node) /\ pos \in [Node -> Nat \ {0}]
      BY DEF TypeOK
    <3> QED BY <3>1, <3>2
  <2>5. /\ \A m \in Node : done[m] => done'[m]
        /\ \A m \in Node : done'[m] => done[m] \/ OnStack(t, m)'
        /\ \A u \in Thread, m \in Node : OnStack(u, m) => OnStack(u, m)'
    BY <2>2, NotifyStack
  <2>6. \A m \in Node : done'[m] /\ pos'[m] <= Len(nexts'[m]) =>
          \E u \in Thread : OnStack(u, m)'
    BY <1>b, <2>2, <2>3, <2>4, <2>5
  <2>7. \A m \in Node : pos'[m] <= Len(nexts'[m]) + 1 /\ (pos'[m] > 1 => done'[m])
    BY <1>b, <2>2, <2>3, <2>4, <2>5
  <2> QED BY <2>2, <2>6, <2>7, NotifyStack DEF StackInv
<1>9. ASSUME NEW t \in Thread, Return(t) PROVE StackInv'
  <2> DEFINE p == stack[t][Len(stack[t])]
  <2>1. /\ p \in Node /\ Len(stack[t]) \in DOMAIN stack[t]
        /\ stack' = [stack EXCEPT ![t] = Pop(stack[t])]
        /\ pos[p] > Len(nexts[p]) /\ pos[p] \in Nat
        /\ \A m \in Node \ {p} : mutex'[m] = mutex[m]
        /\ UNCHANGED <<done, pos, nexts>>
    BY <1>9, PopFacts DEF Return, Calling, TypeOK, Top
  <2>2. /\ DOMAIN Pop(stack[t]) = DOMAIN stack[t] \ {Len(stack[t])}
        /\ \A i \in DOMAIN Pop(stack[t]) : Pop(stack[t])[i] = stack[t][i]
    BY <1>9, PopFacts DEF Return, Calling, TypeOK
  <2>3. stack'[t] = Pop(stack[t]) /\ \A u \in Thread \ {t} : stack'[u] = stack[u]
    BY <2>1 DEF TypeOK
  <2>4. \A u \in Thread : \A i \in DOMAIN stack'[u] :
          i \in DOMAIN stack[u] /\ stack'[u][i] = stack[u][i] /\ stack[u][i] # p
    BY <1>a, <2>1, <2>2, <2>3
  <2>5. \A u \in Thread, m \in Node \ {p} : OnStack(u, m) => OnStack(u, m)'
    BY <2>2, <2>3 DEF OnStack
  <2>6. \A m \in Node : done'[m] /\ pos'[m] <= Len(nexts'[m]) =>
          \E u \in Thread : OnStack(u, m)'
    <3>1. Len(nexts[p]) \in Nat
      BY <2>1 DEF TypeOK
    <3> QED BY <1>b, <2>1, <2>5, <3>1
  <2>7. \A u \in Thread : \A i \in DOMAIN stack'[u] :
          mutex'[stack'[u][i]] = u /\ done'[stack'[u][i]]
    BY <1>a, <2>1, <2>4
  <2> QED BY <1>a, <1>b, <2>1, <2>4, <2>6, <2>7 DEF StackInv
<1> QED
  BY <1>1, <1>2, <1>3, <1>4, <1>6, <1>7, <1>8, <1>9
     DEF Next, UserStep, WorkerStep, CallStep, Finished
-----------------------------------------------------------------------------
(* How the counters are read off the edges.                                *)
Fin(n) == IF Finalized(n) THEN 1 ELSE 0

LEMMA EdgeCount ==
  ASSUME TypeOK, CountInv, NEW n \in Node
  PROVE  /\ IsFiniteSet(EdgesInto(n)) /\ IsFiniteSet(Notified(n))
         /\ Cardinality(EdgesInto(n)) \in Nat /\ Cardinality(Notified(n)) \in Nat
         /\ Cardinality(Notified(n)) <= Cardinality(EdgesInto(n))
         /\ Cardinality(EdgesInto(n)) <= MaxPreds
         /\ Cardinality(Notified(n)) = Cardinality(EdgesInto(n)) => Notified(n) = EdgesInto(n)
         /\ n_wait[n] = Cardinality(EdgesInto(n)) + 1
         /\ n_wake[n] = Cardinality(Notified(n)) + Fin(n)
         /\ n_wait[n] < CounterMod
<1>1. /\ IsFiniteSet(EdgesInto(n)) /\ Cardinality(EdgesInto(n)) <= MaxPreds
      /\ n_wait[n] = Cardinality(EdgesInto(n)) + 1
      /\ n_wake[n] = Cardinality(Notified(n)) + Fin(n)
  BY DEF CountInv, Fin
<1>2. Notified(n) \in SUBSET EdgesInto(n)
  BY DEF Notified
<1>3. /\ IsFiniteSet(Notified(n))
      /\ Cardinality(Notified(n)) <= Cardinality(EdgesInto(n))
      /\ Cardinality(EdgesInto(n)) = Cardinality(Notified(n)) => EdgesInto(n) = Notified(n)
  BY <1>1, <1>2, FS_Subset
<1>4. Cardinality(EdgesInto(n)) \in Nat /\ Cardinality(Notified(n)) \in Nat
  BY <1>1, <1>3, FS_CardinalityType
<1>5. n_wait[n] < CounterMod
  BY <1>1, <1>4, CounterAssumption
<1> QED BY <1>1, <1>3, <1>4, <1>5

(* A notification that is due counts, and it is the last one that runs.    *)
LEMMA NotifyCount ==
  ASSUME TypeOK, CountInv, RunInv, NEW t \in Thread, NEW n \in Node, NEW f,
         Notify(t, n, f), n_wake[n] < n_wait[n]
  PROVE  /\ n_wake'[n] = n_wake[n] + 1
         /\ run'[n] <=> n_wake'[n] = n_wait[n]
<1>1. n_wake[n] \in Nat /\ n_wait[n] < CounterMod /\ n_wait[n] \in Nat /\ CounterMod \in Nat
  BY EdgeCount, CounterAssumption DEF TypeOK
<1>2. (n_wake[n] + 1) % CounterMod = n_wake[n] + 1
  <2>1. n_wake[n] + 1 \in Nat /\ n_wake[n] + 1 < CounterMod
    BY <1>1
  <2> QED BY <2>1, ModFacts
<1>3. ~run[n]
  BY <1>1 DEF RunInv
<1>4. n_wake'[n] = (n_wake[n] + 1) % CounterMod /\ (run'[n] <=> run[n] \/ n_wake'[n] = n_wait[n])
  BY NotifyEffect
<1> QED BY <1>2, <1>3, <1>4

(* finalize() is a notification that is due.                               *)
LEMMA FinalizeDue ==
  ASSUME TypeOK, CountInv, NEW n \in Node, ~Finalized(n)
  PROVE  n_wake[n] < n_wait[n]
BY EdgeCount DEF Fin

(* So is that of the loop: its edge is not among those notified before.    *)
LEMMA EdgeDue ==
  ASSUME TypeOK, CountInv, NEW t \in Thread, NEW p \in Node, NEW n \in Node,
         NextEdge(t, p, n)
  PROVE  /\ n_wake[n] < n_wait[n]
         /\ <<p, pos[p]>> \in EdgesInto(n) \ Notified(n)
         /\ Notified(n)' = Notified(n) \union {<<p, pos[p]>>}
         /\ \A m \in Node \ {n} : Notified(m)' = Notified(m)
<1> DEFINE e == <<p, pos[p]>>
<1>1. /\ pos[p] \in DOMAIN nexts[p] /\ nexts[p][pos[p]] = n /\ pos[p] \in Nat
      /\ pos'[p] = pos[p] + 1 /\ \A q \in Node \ {p} : pos'[q] = pos[q]
      /\ nexts' = nexts
  BY DEF NextEdge, TypeOK
<1>2. e \in EdgesInto(n) \ Notified(n)
  BY <1>1, EdgeMember DEF Notified
<1>3. /\ \A m : EdgesInto(m)' = EdgesInto(m)
      /\ \A m, x : x \in EdgesInto(m) =>
           \E q \in Node : \E i \in DOMAIN nexts[q] : x = <<q, i>> /\ nexts[q][i] = m /\ i \in Nat
  <2>1. \A q \in Node : \A i \in DOMAIN nexts[q] : i \in Nat
    <3>1. \A q \in Node : nexts[q] \in Seq(Node)
      BY DEF TypeOK
    <3> QED BY <3>1
  <2>2. \A m : EdgesInto(m)' = EdgesInto(m)
    BY <1>1, SameEdges
  <2>3. \A m, x : x \in EdgesInto(m) =>
          \E q \in Node : \E i \in DOMAIN nexts[q] : x = <<q, i>> /\ nexts[q][i] = m
    BY EdgeMember
  <2> QED BY <2>1, <2>2, <2>3
<1>4. ASSUME NEW m \in Node, NEW x \in EdgesInto(m)
      PROVE  x[2] < pos'[x[1]] <=> x[2] < pos[x[1]] \/ (m = n /\ x = e)
  <2>1. PICK q \in Node : \E i \in DOMAIN nexts[q] : x = <<q, i>> /\ nexts[q][i] = m /\ i \in Nat
    BY <1>3, <1>4
  <2>2. PICK i \in DOMAIN nexts[q] : x = <<q, i>> /\ nexts[q][i] = m /\ i \in Nat
    BY <2>1
  <2>3. x[1] = q /\ x[2] = i /\ (x = e <=> q = p /\ i = pos[p])
    BY <2>2
  <2>4. CASE q = p
    BY <1>1, <2>2, <2>3, <2>4
  <2>5. CASE q # p
    BY <1>1, <2>3, <2>5
  <2> QED BY <2>4, <2>5
<1>5. Notified(n)' = Notified(n) \union {e}
  BY <1>2, <1>3, <1>4 DEF Notified
<1>6. \A m \in Node \ {n} : Notified(m)' = Notified(m)
  BY <1>3, <1>4 DEF Notified
<1>7. n_wake[n] < n_wait[n]
  <2>1. Cardinality(Notified(n)) # Cardinality(EdgesInto(n))
    BY <1>2, EdgeCount
  <2>2. Fin(n) \in {0, 1}
    BY DEF Fin
  <2> QED BY <2>1, <2>2, EdgeCount
<1> QED BY <1>2, <1>5, <1>6, <1>7

(* A new edge has not been notified: its predecessor has not completed.    *)
LEMMA LinkNotified ==
  ASSUME TypeOK, StackInv, NEW t \in User, NEW p \in Node, NEW n \in Node,
         p = call[t], n = cur[t], Link(t)
  PROVE  \A m \in Node : Notified(m)' = Notified(m)
<1> DEFINE e == <<p, Len(nexts[p]) + 1>>
<1>1. /\ EdgesInto(n)' = EdgesInto(n) \union {e}
      /\ \A m \in Node \ {n} : EdgesInto(m)' = EdgesInto(m)
  BY LinkEdges
<1>2. pos' = pos /\ ~(e[2] < pos[e[1]])
  BY DEF Link, StackInv, TypeOK
<1> HIDE DEF e
<1> QED BY <1>1, <1>2 DEF Notified

LEMMA SameCount ==
  ASSUME CountInv, UNCHANGED <<n_wait, n_wake, nexts, pos>>,
         \A n \in Node : Finalized(n)' <=> Finalized(n)
  PROVE  CountInv'
<1>1. \A n : EdgesInto(n)' = EdgesInto(n) /\ Notified(n)' = Notified(n)
  BY DEF EdgesInto, Notified
<1> QED BY <1>1 DEF CountInv

(* submit() and finalize_and_wait() finalize the node of their thread.     *)
LEMMA FinalizeStep ==
  ASSUME TypeOK, BarrierInv, NEW t \in User, Submit(t) \/ Wait(t)
  PROVE  \E n \in Node : \E f \in BOOLEAN :
           /\ n = cur[t] /\ t \in Thread /\ Notify(t, n, f)
           /\ ~Finalized(n) /\ Finalized(n)'
           /\ \A m \in Node \ {n} : Finalized(m)' <=> Finalized(m)
           /\ UNCHANGED <<n_wait, nexts, pos, need_wait, ready, job>>
           /\ \A m \in Node \ {n} : phase'[m] = phase[m]
           /\ \/ phase'[n] = "final"
              \/ phase'[n] = "waiting" /\ need_wait[n]
<1>1. CASE Submit(t)
  <2>1. PICK f \in BOOLEAN : Notify(t, cur[t], f)
    BY <1>1 DEF Submit
  <2>2. /\ cur[t] \in Node /\ t \in Thread
        /\ phase[cur[t]] \in {"open", "bound"} /\ phase'[cur[t]] = "final"
        /\ \A m \in Node \ {cur[t]} : phase'[m] = phase[m]
        /\ UNCHANGED <<n_wait, nexts, pos, need_wait, ready, job>>
    BY <1>1 DEF Submit, TypeOK, Thread
  <2> QED BY <2>1, <2>2 DEF Finalized
<1>2. CASE Wait(t)
  <2>1. /\ cur[t] \in Node /\ t \in Thread /\ need_wait[cur[t]]
        /\ phase[cur[t]] = "sync" /\ phase'[cur[t]] = "waiting"
        /\ \A m \in Node \ {cur[t]} : phase'[m] = phase[m]
        /\ UNCHANGED <<n_wait, nexts, pos, need_wait, ready, job>>
        /\ Notify(t, cur[t], TRUE)
    BY <1>2 DEF Wait, TypeOK, Thread
  <2> QED BY <2>1 DEF Finalized
<1> QED BY <1>1, <1>2

LEMMA CountStep ==
  TypeOK /\ BuildInv /\ StackInv /\ CountInv /\ RunInv /\ BarrierInv /\ [Next]_vars => CountInv'
<1> SUFFICES ASSUME TypeOK, BuildInv, StackInv, CountInv, RunInv, BarrierInv, [Next]_vars
             PROVE  CountInv'
  OBVIOUS
<1>1. ASSUME NEW t \in User, NEW n \in Node, Create(t, n) PROVE CountInv'
  BY <1>1, SameCount DEF Create, TypeOK, Finalized, node_vars
<1>2. CASE \E t \in User : \E p \in Node : HappensBefore(t, p)
  BY <1>2, SameCount DEF HappensBefore, Finalized
<1>3. ASSUME NEW t \in User, Link(t) PROVE CountInv'
  <2>1. PICK p \in Node, n \in Node : p = call[t] /\ n = cur[t]
    BY <1>3 DEF Link, TypeOK, BuildInv
  <2>2. /\ phase[n] \in {"open", "sync"} /\ Cardinality(EdgesInto(n)) < MaxPreds
        /\ n_wait' = [n_wait EXCEPT ![n] = (n_wait[n] + 1) % CounterMod]
        /\ UNCHANGED <<phase, n_wake>>
        /\ \A m \in Node \ {n} : need_wait'[m] = need_wait[m]
    BY <1>3, <2>1 DEF Link, BuildInv, TypeOK
  <2>3. \A m \in Node : Finalized(m)' <=> Finalized(m)
    BY <2>2 DEF Finalized
  <2>4. \A m \in Node : Notified(m)' = Notified(m)
    BY <1>3, <2>1, LinkNotified
  <2>5. /\ EdgesInto(n)' = EdgesInto(n) \union {<<p, Len(nexts[p]) + 1>>}
        /\ <<p, Len(nexts[p]) + 1>> \notin EdgesInto(n)
        /\ \A m \in Node \ {n} : EdgesInto(m)' = EdgesInto(m)
    BY <1>3, <2>1, LinkEdges
  <2>6. /\ IsFiniteSet(EdgesInto(n)') /\ Cardinality(EdgesInto(n)') = Cardinality(EdgesInto(n)) + 1
    <3> DEFINE e == <<p, Len(nexts[p]) + 1>>
    <3>1. e \notin EdgesInto(n) /\ IsFiniteSet(EdgesInto(n)) /\ EdgesInto(n)' = EdgesInto(n) \union {e}
      BY <2>5, EdgeCount
    <3> HIDE DEF e
    <3>2. /\ IsFiniteSet(EdgesInto(n) \union {e})
          /\ Cardinality(EdgesInto(n) \union {e}) = Cardinality(EdgesInto(n)) + 1
      BY <3>1, FS_AddElement
    <3> QED BY <3>1, <3>2
  <2>7. n_wait'[n] = n_wait[n] + 1 /\ \A m \in Node \ {n} : n_wait'[m] = n_wait[m]
    <3>1. n_wait[n] + 1 \in Nat /\ n_wait[n] + 1 < CounterMod
      BY <2>2, EdgeCount, CounterAssumption
    <3> QED BY <2>2, <3>1, ModFacts DEF TypeOK
  <2>8. Cardinality(EdgesInto(n)') <= MaxPreds
    BY <2>2, <2>6, EdgeCount, CounterAssumption
  <2>9. n_wait'[n] = Cardinality(EdgesInto(n)') + 1
    BY <2>6, <2>7 DEF CountInv
  <2> QED BY <2>2, <2>3, <2>4, <2>5, <2>6, <2>7, <2>8, <2>9 DEF CountInv
<1>4. CASE \E t \in User : Bind(t) \/ WaitNothing(t)
  BY <1>4, SameCount DEF Bind, WaitNothing, TypeOK, Finalized, node_vars
<1>5. CASE \E t \in User : WakeUp(t)
  BY <1>5, SameCount DEF WakeUp, TypeOK, Finalized, node_vars, BarrierInv
<1>6. CASE \E t \in User : Submit(t) \/ Wait(t)
  <2>1. PICK t \in User : Submit(t) \/ Wait(t)
    BY <1>6
  <2>2. PICK n \in Node, f \in BOOLEAN :
           /\ t \in Thread /\ Notify(t, n, f)
           /\ ~Finalized(n) /\ Finalized(n)'
           /\ \A m \in Node \ {n} : Finalized(m)' <=> Finalized(m)
           /\ UNCHANGED <<n_wait, nexts, pos>>
    BY <2>1, FinalizeStep
  <2>3. n_wake[n] < n_wait[n]
    BY <2>2, FinalizeDue
  <2>4. n_wake'[n] = n_wake[n] + 1 /\ \A m \in Node \ {n} : n_wake'[m] = n_wake[m]
    BY <2>2, <2>3, NotifyCount, NotifyEffect
  <2>5. \A m \in Node : EdgesInto(m)' = EdgesInto(m) /\ Notified(m)' = Notified(m)
    BY <2>2 DEF EdgesInto, Notified
  <2>6. n_wake'[n] = Cardinality(Notified(n)') + 1
    BY <2>2, <2>4, <2>5, EdgeCount DEF Fin
  <2> QED BY <2>2, <2>4, <2>5, <2>6 DEF CountInv
<1>7. CASE (\E t \in Worker : TakeJob(t) \/ Signal(t) \/ Complete(t)) \/ UNCHANGED vars
  BY <1>7, SameCount DEF TakeJob, Signal, Complete, Finalized, node_vars, vars
<1>8. ASSUME NEW t \in Thread, NotifyNext(t) PROVE CountInv'
  <2>1. PICK p \in Node, n \in Node : NextEdge(t, p, n)
    BY <1>8, NotifyNextEdge
  <2>2. /\ Notify(t, n, fn[n]) /\ UNCHANGED <<n_wait, nexts, phase, need_wait>>
    BY <2>1 DEF NextEdge
  <2>3. /\ n_wake[n] < n_wait[n]
        /\ <<p, pos[p]>> \in EdgesInto(n) \ Notified(n)
        /\ Notified(n)' = Notified(n) \union {<<p, pos[p]>>}
        /\ \A m \in Node \ {n} : Notified(m)' = Notified(m)
    BY <2>1, EdgeDue
  <2>4. n_wake'[n] = n_wake[n] + 1 /\ \A m \in Node \ {n} : n_wake'[m] = n_wake[m]
    BY <2>2, <2>3, NotifyCount, NotifyEffect
  <2>5. Cardinality(Notified(n)') = Cardinality(Notified(n)) + 1
    BY <2>3, FS_AddElement, EdgeCount
  <2>6. \A m \in Node : EdgesInto(m)' = EdgesInto(m) /\ (Finalized(m)' <=> Finalized(m))
    BY <2>2 DEF EdgesInto, Finalized
  <2>7. n_wake'[n] = Cardinality(Notified(n)') + (IF Finalized(n)' THEN 1 ELSE 0)
    <3>1. Fin(n) \in {0, 1} /\ Cardinality(Notified(n)) \in Nat
      BY EdgeCount DEF Fin
    <3>2. n_wake'[n] = Cardinality(Notified(n)') + Fin(n)
      BY <2>4, <2>5, <3>1, EdgeCount
    <3> QED BY <2>6, <3>2 DEF Fin
  <2> QED BY <2>2, <2>3, <2>4, <2>6, <2>7 DEF CountInv
<1>9. CASE \E t \in Thread : Return(t)
  BY <1>9, SameCount DEF Return, Finalized
<1> QED
  BY <1>1, <1>2, <1>3, <1>4, <1>5, <1>6, <1>7, <1>8, <1>9
     DEF Next, UserStep, WorkerStep, CallStep, Finished
-----------------------------------------------------------------------------
(* A notification that is due keeps run, done and the pool in step.        *)
LEMMA NotifyRun ==
  ASSUME TypeOK, CountInv, RunInv, NEW t \in Thread, NEW n \in Node, NEW f,
         Notify(t, n, f), n_wake[n] < n_wait[n], UNCHANGED <<n_wait, ready, job>>
  PROVE  RunInv'
<1>1. /\ n_wake'[n] = n_wake[n] + 1
      /\ run'[n] <=> n_wake'[n] = n_wait[n]
  BY NotifyCount
<1>2. /\ \A m \in Node \ {n} : /\ done'[m] = done[m] /\ run'[m] = run[m]
                               /\ n_wake'[m] = n_wake[m]
      /\ run'[n] <=> run[n] \/ n_wake'[n] = n_wait[n]
      /\ UNCHANGED done \/ run'[n]
  BY NotifyEffect
<1>3. /\ \A m \in Node : run[m] <=> n_wake[m] = n_wait[m]
      /\ \A m \in Node : (done[m] => run[m]) /\ (ready[m] => run[m])
      /\ \A i \in DOMAIN pool : pool[i] \in Node /\ run[pool[i]]
      /\ \A w \in Worker : job[w] # NONE => job[w] \in Node /\ run[job[w]]
  BY DEF RunInv, TypeOK
<1>4. \A m \in Node : run[m] => run'[m]
  BY <1>2
<1>5. \A i \in DOMAIN pool' : run'[pool'[i]]
  <2>1. CASE pool' = pool
    BY <2>1, <1>3, <1>4
  <2>2. CASE pool' = Append(pool, n) /\ run'[n]
    <3>1. /\ DOMAIN pool' = DOMAIN pool \union {Len(pool) + 1}
          /\ \A i \in DOMAIN pool : pool'[i] = pool[i]
          /\ pool'[Len(pool) + 1] = n
      BY <2>2, AppendFacts DEF TypeOK
    <3> QED BY <2>2, <3>1, <1>3, <1>4
  <2>3. pool' = pool \/ (pool' = Append(pool, n) /\ run'[n])
    BY DEF Notify, TypeOK
  <2> QED BY <2>1, <2>2, <2>3
<1>6. \A m \in Node : (done'[m] => run'[m]) /\ (ready'[m] => run'[m])
  BY <1>2, <1>3, <1>4
<1>7. \A m \in Node : run'[m] <=> n_wake'[m] = n_wait'[m]
  BY <1>1, <1>2, <1>3
<1> QED BY <1>3, <1>4, <1>5, <1>6, <1>7 DEF RunInv

LEMMA RunStep ==
  TypeOK /\ BuildInv /\ StackInv /\ CountInv /\ RunInv /\ BarrierInv /\ [Next]_vars => RunInv'
<1> SUFFICES ASSUME TypeOK, BuildInv, StackInv, CountInv, RunInv, BarrierInv, [Next]_vars
             PROVE  RunInv'
  OBVIOUS
<1>1. ASSUME UNCHANGED <<n_wake, n_wait, run, done, ready, pool, job>> PROVE RunInv'
  BY <1>1 DEF RunInv
<1>2. CASE \E t \in User : \/ \E n \in Node : Create(t, n) \/ HappensBefore(t, n)
                           \/ Bind(t) \/ WaitNothing(t) \/ WakeUp(t)
  BY <1>1, <1>2 DEF Create, HappensBefore, Bind, WaitNothing, WakeUp, node_vars
<1>3. ASSUME NEW t \in User, Link(t) PROVE RunInv'
  <2>1. PICK p \in Node, n \in Node : p = call[t] /\ n = cur[t]
    BY <1>3 DEF Link, TypeOK, BuildInv
  <2>2. /\ phase[n] \in {"open", "sync"}
        /\ Cardinality(EdgesInto(n)) < MaxPreds
        /\ n_wait' = [n_wait EXCEPT ![n] = (n_wait[n] + 1) % CounterMod]
        /\ UNCHANGED <<n_wake, run, done, ready, pool, job>>
    BY <1>3, <2>1 DEF Link, BuildInv
  <2>3. n_wait'[n] = n_wait[n] + 1 /\ \A m \in Node \ {n} : n_wait'[m] = n_wait[m]
    <3>1. n_wait[n] + 1 \in Nat /\ n_wait[n] + 1 < CounterMod
      BY <2>2, EdgeCount, CounterAssumption
    <3> QED BY <2>2, <3>1, ModFacts DEF TypeOK
  <2>4. n_wake[n] < n_wait[n]
    BY <2>2, FinalizeDue DEF Finalized
  <2>5. n_wake[n] \in Nat /\ n_wait[n] \in Nat
    BY CounterAssumption DEF TypeOK
  <2>6. \A m \in Node : run'[m] <=> n_wake'[m] = n_wait'[m]
    BY <2>2, <2>3, <2>4, <2>5 DEF RunInv
  <2> QED BY <2>2, <2>6 DEF RunInv
<1>4. CASE \E t \in User : Submit(t) \/ Wait(t)
  <2>1. PICK t \in User : Submit(t) \/ Wait(t)
    BY <1>4
  <2>2. PICK n \in Node, f \in BOOLEAN :
           /\ t \in Thread /\ Notify(t, n, f) /\ ~Finalized(n)
           /\ UNCHANGED <<n_wait, ready, job>>
    BY <2>1, FinalizeStep
  <2> QED BY <2>2, FinalizeDue, NotifyRun
<1>5. ASSUME NEW t \in Worker, TakeJob(t) PROVE RunInv'
  <2>1. pool # <<>> /\ job' = [job EXCEPT ![t] = Head(pool)] /\ pool' = Tail(pool)
        /\ UNCHANGED <<n_wake, n_wait, run, done, ready>>
    BY <1>5 DEF TakeJob, node_vars
  <2>2. /\ 1 \in DOMAIN pool /\ Head(pool) = pool[1]
        /\ \A i \in DOMAIN Tail(pool) : i + 1 \in DOMAIN pool /\ Tail(pool)[i] = pool[i + 1]
    BY <2>1, TailFacts DEF TypeOK
  <2> QED BY <2>1, <2>2 DEF RunInv, TypeOK
<1>6. ASSUME NEW t \in Worker, Signal(t) PROVE RunInv'
  BY <1>6 DEF Signal, RunInv, TypeOK, node_vars
<1>7. ASSUME NEW t \in Worker, Complete(t) PROVE RunInv'
  <2>1. /\ job[t] \in Node /\ job[t] # NONE
        /\ job' = [job EXCEPT ![t] = NONE] /\ done' = [done EXCEPT ![job[t]] = TRUE]
        /\ UNCHANGED <<n_wake, n_wait, run, ready, pool>>
    BY <1>7, DistinctAssumption DEF Complete, CompleteNoLock, TypeOK
  <2> QED BY <2>1 DEF RunInv, TypeOK
<1>8. ASSUME NEW t \in Thread, NotifyNext(t) PROVE RunInv'
  <2>1. PICK p \in Node, n \in Node : NextEdge(t, p, n)
    BY <1>8, NotifyNextEdge
  <2>2. Notify(t, n, fn[n]) /\ UNCHANGED <<n_wait, ready, job>>
    BY <2>1 DEF NextEdge
  <2>3. n_wake[n] < n_wait[n]
    BY <2>1, EdgeDue
  <2> QED BY <2>2, <2>3, NotifyRun
<1>9. CASE \E t \in Thread : Return(t)
  BY <1>1, <1>9 DEF Return
<1>10. CASE UNCHANGED vars
  BY <1>1, <1>10 DEF vars
<1> QED
  BY <1>2, <1>3, <1>4, <1>5, <1>6, <1>7, <1>8, <1>9, <1>10
     DEF Next, UserStep, WorkerStep, CallStep, Finished

LEMMA BarrierStep == TypeOK /\ BuildInv /\ BarrierInv /\ [Next]_vars => BarrierInv'
<1> SUFFICES ASSUME TypeOK, BuildInv, BarrierInv, [Next]_vars PROVE BarrierInv'
  OBVIOUS
<1>1. ASSUME UNCHANGED <<phase, need_wait, nexts>>, \A n \in Node : ready[n] => ready'[n]
      PROVE  BarrierInv'
  BY <1>1 DEF BarrierInv, EdgesInto
<1>2. ASSUME NEW t \in User, UserStep(t) PROVE BarrierInv'
  <2>1. ASSUME UNCHANGED <<need_wait, nexts, ready>>, NEW n \in Node,
               \A m \in Node \ {n} : phase'[m] = phase[m],
               \/ phase[n] = "none" /\ phase'[n] \in {"open", "sync"}
               \/ phase'[n] \in {"bound", "final"}
               \/ phase'[n] = "waiting" /\ need_wait[n]
               \/ phase[n] = "sync" /\ phase'[n] = "over" /\ ~need_wait[n]
               \/ phase[n] = "waiting" /\ phase'[n] = "over" /\ ready[n]
        PROVE  BarrierInv'
    BY <2>1 DEF BarrierInv, EdgesInto
  <2>2. CASE \E n \in Node : Create(t, n)
    BY <2>1, <2>2 DEF Create, TypeOK, node_vars
  <2>3. CASE \E n \in Node : HappensBefore(t, n)
    BY <1>1, <2>3 DEF HappensBefore
  <2>4. CASE Link(t)
    <3>1. PICK p \in Node, n \in Node : p = call[t] /\ n = cur[t]
      BY <2>4 DEF Link, TypeOK, BuildInv
    <3>2. /\ phase[n] \in {"open", "sync"} /\ UNCHANGED <<phase, ready>>
          /\ need_wait'[n] = (phase[n] = "sync")
          /\ \A m \in Node \ {n} : need_wait'[m] = need_wait[m]
      BY <2>4, <3>1 DEF Link, BuildInv, TypeOK
    <3>3. \A m \in Node \ {n} : EdgesInto(m)' = EdgesInto(m)
      BY <2>4, <3>1, LinkEdges
    <3> QED BY <3>2, <3>3 DEF BarrierInv
  <2>5. CASE Bind(t) \/ WaitNothing(t)
    BY <2>1, <2>5 DEF Bind, WaitNothing, TypeOK, node_vars
  <2>6. CASE Submit(t) \/ Wait(t)
    <3>1. PICK n \in Node : /\ UNCHANGED <<need_wait, nexts, ready>>
                            /\ \A m \in Node \ {n} : phase'[m] = phase[m]
                            /\ \/ phase'[n] = "final"
                               \/ phase'[n] = "waiting" /\ need_wait[n]
      BY <2>6, FinalizeStep
    <3> QED BY <2>1, <3>1
  <2>7. CASE WakeUp(t)
    BY <2>1, <2>7 DEF WakeUp, TypeOK, BuildInv, node_vars
  <2> QED BY <1>2, <2>2, <2>3, <2>4, <2>5, <2>6, <2>7 DEF UserStep
<1>3. CASE (\E t \in Worker : WorkerStep(t)) \/ (\E t \in Thread : CallStep(t)) \/ UNCHANGED vars
  BY <1>1, <1>3 DEF WorkerStep, TakeJob, Signal, Complete, CallStep, NotifyNext, Return,
                    TypeOK, node_vars, vars
<1> QED BY <1>2, <1>3 DEF Next, Finished
-----------------------------------------------------------------------------
LEMMA InitInv == Init => IInv
<1> SUFFICES ASSUME Init PROVE IInv
  OBVIOUS
<1>1. TypeOK
  BY TypeInit
<1>2. \A n \in Node : EdgesInto(n) = {} /\ Notified(n) = {} /\ ~Finalized(n)
  BY DEF Init, EdgesInto, Notified, Finalized
<1>3. 1 % CounterMod = 1
  BY ModFacts, CounterAssumption
<1>4. BuildInv /\ StackInv /\ BarrierInv
  BY <1>2 DEF Init, BuildInv, StackInv, BarrierInv
<1>5. CountInv
  <2>1. \A n \in Node : n_wait[n] = 1 /\ n_wake[n] = 0
    BY <1>3 DEF Init
  <2>2. \A n \in Node : /\ IsFiniteSet(EdgesInto(n)) /\ Cardinality(EdgesInto(n)) = 0
                        /\ Cardinality(Notified(n)) = 0
    BY <1>2, FS_EmptySet
  <2> QED BY <1>2, <2>1, <2>2, CounterAssumption DEF CountInv
<1>6. RunInv
  BY <1>3 DEF Init, RunInv
<1> QED BY <1>1, <1>4, <1>5, <1>6 DEF IInv

(* The invariant holds of every execution.                                 *)
THEOREM Invariance == Spec => []IInv
<1>1. IInv /\ [Next]_vars => IInv'
  BY TypeStep, BuildStep, StackStep, CountStep, RunStep, BarrierStep DEF IInv
<1> QED BY InitInv, <1>1, PTL DEF Spec

(* Every field of every node keeps its type: no counter leaves its width.  *)
THEOREM TypeCorrect == Spec => []TypeOK
<1>1. IInv => TypeOK
  BY DEF IInv
<1> QED BY <1>1, Invariance, PTL

LEMMA InvStart == IInv => StartAfterPreds
<1> SUFFICES ASSUME IInv, NEW n \in Node, run[n]
             PROVE  Finalized(n) /\ \A e \in EdgesInto(n) : done[e[1]]
  BY DEF StartAfterPreds
<1> USE DEF IInv
<1>1. n_wake[n] = n_wait[n]
  BY DEF RunInv
<1>2. Fin(n) = 1 /\ Notified(n) = EdgesInto(n)
  BY <1>1, EdgeCount DEF Fin
<1>3. ASSUME NEW e \in EdgesInto(n) PROVE done[e[1]]
  <2>1. PICK q \in Node : \E i \in DOMAIN nexts[q] : e = <<q, i>>
    BY EdgeMember
  <2>2. PICK i \in DOMAIN nexts[q] : e = <<q, i>>
    BY <2>1
  <2>3. nexts[q] \in Seq(Node) /\ pos[q] \in Nat /\ (pos[q] > 1 => done[q])
    BY DEF TypeOK, StackInv
  <2>4. i \in Nat /\ i >= 1
    BY <2>3
  <2>5. i < pos[q]
    BY <1>2, <2>2 DEF Notified
  <2> QED BY <2>2, <2>3, <2>4, <2>5
<1> QED BY <1>2, <1>3 DEF Fin

(* No task runs, and no node completes, before its predecessors: whatever  *)
(* the threads, the edges and the order in which they are added.           *)
THEOREM StartOrder == Spec => []StartAfterPreds
BY InvStart, Invariance, PTL

(* event_barrier_impl::wait returns only after all that it waits for.      *)
THEOREM BarrierOrder == Spec => []BarrierWaits
<1>1. IInv => BarrierWaits
  <2> SUFFICES ASSUME IInv, NEW n \in Node, phase[n] = "over", NEW e \in EdgesInto(n)
               PROVE  done[e[1]]
    BY DEF BarrierWaits
  <2>1. ready[n]
    BY DEF IInv, BarrierInv
  <2>2. run[n]
    BY <2>1 DEF IInv, RunInv
  <2> QED BY <2>2, InvStart DEF StartAfterPreds
<1> QED BY <1>1, Invariance, PTL

(* A submitted node that has not started is owed a notification by a       *)
(* predecessor that is yet to complete or is notifying: none gets lost in  *)
(* the race of happens_before with complete_no_lock.                       *)
THEOREM NoneLost == Spec => []NoLostWakeup
<1>1. IInv => NoLostWakeup
  <2> SUFFICES ASSUME IInv, NEW n \in Node, Finalized(n), ~run[n]
               PROVE  \E e \in EdgesInto(n) \ Notified(n) :
                        ~done[e[1]] \/ \E t \in Thread : OnStack(t, e[1])
    BY DEF NoLostWakeup
  <2> USE DEF IInv
  <2>1. n_wake[n] # n_wait[n]
    BY DEF RunInv
  <2>2. Notified(n) # EdgesInto(n)
    BY <2>1, EdgeCount DEF Fin
  <2>3. PICK e \in EdgesInto(n) : ~(e[2] < pos[e[1]])
    BY <2>2 DEF Notified
  <2>4. PICK q \in Node : \E i \in DOMAIN nexts[q] : e = <<q, i>>
    BY EdgeMember
  <2>5. PICK i \in DOMAIN nexts[q] : e = <<q, i>>
    BY <2>4
  <2>6. nexts[q] \in Seq(Node) /\ pos[q] \in Nat
    BY DEF TypeOK
  <2>7. pos[q] <= Len(nexts[q])
    BY <2>3, <2>5, <2>6
  <2>8. e \notin Notified(n)
    BY <2>3 DEF Notified
  <2> QED BY <2>5, <2>7, <2>8 DEF StackInv
<1> QED BY <1>1, Invariance, PTL
=============================================================================
