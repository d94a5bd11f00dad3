-------------------------- MODULE EventGraphProofs --------------------------
(* EventNode implements TaskGraph: whatever the threads, mutexes and       *)
(* counters do is, for who looks at tasks and what they wait for, a step   *)
(* that TaskGraph allows.  (What TaskGraph promises under fairness is      *)
(* model-checked.)                                                         *)
EXTENDS EventNodeProofs

USE DEF Pending, CountEdge, Due, AllNotified, Awake, Signalled

(* Only a task that others can find is made somebody's predecessor, so no  *)
(* node comes before itself.                                               *)
CallInv ==
  /\ \A t \in User : call[t] # NONE => phase[call[t]] \in {"bound", "final"}
  /\ \A n \in Node : n \notin PredsOf(n)

LEMMA PredsAre ==
  ASSUME NEW n \in Node
  PROVE  \A p \in Node : p \in PredsOf(n) <=> \E i \in DOMAIN nexts[p] : nexts[p][i] = n
<1>1. ASSUME NEW p \in Node, NEW i \in DOMAIN nexts[p], nexts[p][i] = n PROVE p \in PredsOf(n)
  <2>1. <<p, i>> \in EdgesInto(n)
    BY <1>1, EdgeMember
  <2> QED BY <2>1 DEF PredsOf
<1>2. ASSUME NEW p \in Node, p \in PredsOf(n)
      PROVE  \E i \in DOMAIN nexts[p] : nexts[p][i] = n
  BY <1>2 DEF PredsOf, EdgesInto
<1> QED BY <1>1, <1>2

(* Where the edges come from.                                              *)
LEMMA LinkPreds ==
  ASSUME TypeOK, NEW t \in User, NEW p \in Node, NEW n \in Node,
         p = call[t], n = cur[t], Link(t)
  PROVE  /\ PredsOf(n)' = PredsOf(n) \union {p}
         /\ \A m \in Node \ {n} : PredsOf(m)' = PredsOf(m)
<1>1. /\ EdgesInto(n)' = EdgesInto(n) \union {<<p, Len(nexts[p]) + 1>>}
      /\ \A m \in Node \ {n} : EdgesInto(m)' = EdgesInto(m)
  BY LinkEdges
<1>2. \A x : x \in PredsOf(n)' <=> x \in PredsOf(n) \/ x = p
  <2> DEFINE new == <<p, Len(nexts[p]) + 1>>
  <2>1. new[1] = p
    OBVIOUS
  <2> HIDE DEF new
  <2>2. EdgesInto(n)' = EdgesInto(n) \union {new}
    BY <1>1 DEF new
  <2> QED BY <2>1, <2>2 DEF PredsOf
<1>3. \A m \in Node \ {n} : PredsOf(m)' = PredsOf(m)
  BY <1>1 DEF PredsOf
<1> QED BY <1>2, <1>3

LEMMA SamePreds ==
  ASSUME UNCHANGED nexts
  PROVE  \A m \in Node : PredsOf(m)' = PredsOf(m)
<1>1. \A m \in Node : EdgesInto(m)' = EdgesInto(m)
  BY SameEdges
<1> QED BY <1>1 DEF PredsOf
-----------------------------------------------------------------------------
(* The stages exclude each other, so that StageOf can be read in order.    *)
StageIf(n) ==
  IF done[n] THEN "done" ELSE IF run[n] THEN "started"
  ELSE IF Finalized(n) THEN "submitted" ELSE IF phase[n] = "bound" THEN "bound" ELSE "open"

LEMMA StageIs ==
  ASSUME NEW n \in Node
  PROVE  /\ RunInv /\ StartAfterPreds => StageOf(n) = StageIf(n)
         /\ RunInv' /\ StartAfterPreds' => StageOf(n)' = StageIf(n)'
<1>1. RunInv /\ StartAfterPreds => (done[n] => run[n]) /\ (run[n] => Finalized(n))
  BY DEF RunInv, StartAfterPreds
<1>2. RunInv' /\ StartAfterPreds' => (done'[n] => run'[n]) /\ (run'[n] => Finalized(n)')
  BY DEF RunInv, StartAfterPreds
<1>3. /\ Finalized(n) => phase[n] # "bound"
      /\ Finalized(n)' => phase'[n] # "bound"
  BY DEF Finalized
<1>4. (done[n] => run[n]) /\ (run[n] => Finalized(n)) => StageOf(n) = StageIf(n)
  BY <1>3 DEF StageOf, StageIf
<1>5. (done'[n] => run'[n]) /\ (run'[n] => Finalized(n)') => StageOf(n)' = StageIf(n)'
  BY <1>3 DEF StageOf, StageIf
<1> QED BY <1>1, <1>2, <1>4, <1>5

(* Steps of the graph that leave all nodes, or all but one, as they are.   *)
LEMMA GraphSame ==
  ASSUME \A m \in Node : StageOf(m)' = StageOf(m), \A m \in Node : PredsOf(m)' = PredsOf(m)
  PROVE  UNCHANGED Graph!tg_vars
BY DEF Graph!tg_vars

LEMMA GraphOne ==
  ASSUME NEW n \in Node, \A m \in Node \ {n} : StageOf(m)' = StageOf(m),
         \A m \in Node : PredsOf(m)' = PredsOf(m)
  PROVE  /\ [m \in Node |-> PredsOf(m)]' = [m \in Node |-> PredsOf(m)]
         /\ [m \in Node |-> StageOf(m)]' = [[m \in Node |-> StageOf(m)] EXCEPT ![n] = StageOf(n)']
  OBVIOUS

LEMMA CallInvStep == TypeOK /\ BuildInv /\ CallInv /\ [Next]_vars => CallInv'
<1> SUFFICES ASSUME TypeOK, BuildInv, CallInv, [Next]_vars PROVE CallInv'
  OBVIOUS
<1>1. CASE UNCHANGED nexts
  <2>1. \A n \in Node : n \notin PredsOf(n)'
    BY <1>1, SamePreds DEF CallInv
  <2>2. ASSUME UNCHANGED <<call, phase>> PROVE CallInv'
    BY <2>1, <2>2 DEF CallInv
  <2>3. ASSUME NEW t \in User, UserStep(t) PROVE CallInv'
    <3>1. ASSUME NEW p \in Node, HappensBefore(t, p) PROVE CallInv'
      BY <2>1, <3>1 DEF HappensBefore, CallInv, TypeOK
    <3>2. ASSUME NEW n \in Node, Create(t, n) PROVE CallInv'
      BY <2>1, <3>2 DEF Create, CallInv, TypeOK
    <3>3. ASSUME Link(t) PROVE CallInv'
      BY <2>1, <3>3 DEF Link, CallInv, TypeOK
    <3>4. ASSUME Bind(t) \/ Submit(t) \/ WaitNothing(t) \/ Wait(t) \/ WakeUp(t) PROVE CallInv'
      <4>1. call' = call /\ cur[t] \in Node
        BY <3>4 DEF Bind, Submit, WaitNothing, Wait, WakeUp, TypeOK
      <4>2. /\ \A m \in Node \ {cur[t]} : phase'[m] = phase[m]
            /\ phase[cur[t]] \in {"bound", "final"} => phase'[cur[t]] \in {"bound", "final"}
        BY <3>4, <4>1 DEF Bind, Submit, WaitNothing, Wait, WakeUp, TypeOK
      <4> QED BY <2>1, <4>1, <4>2 DEF CallInv, TypeOK
    <3> QED BY <2>3, <3>1, <3>2, <3>3, <3>4 DEF UserStep
  <2>4. ASSUME NEW t \in Thread, CallStep(t) PROVE CallInv'
    BY <2>2, <2>4 DEF CallStep, NotifyNext, Return
  <2>5. ASSUME NEW t \in Worker, WorkerStep(t) PROVE CallInv'
    BY <2>2, <2>5 DEF WorkerStep, TakeJob, Signal, Complete
  <2> QED BY <2>2, <2>3, <2>4, <2>5 DEF Next, Finished, vars
<1>2. CASE \E t \in User : Link(t)
  <2>1. PICK t \in User : Link(t)
    BY <1>2
  <2>2. PICK p \in Node, n \in Node : p = call[t] /\ n = cur[t]
    BY <2>1 DEF Link, BuildInv, TypeOK
  <2>3. p # n
    BY <2>1, <2>2 DEF Link, BuildInv, CallInv
  <2>4. \A m \in Node : m \notin PredsOf(m)'
    BY <2>1, <2>2, <2>3, LinkPreds DEF CallInv
  <2> QED BY <2>1, <2>4 DEF Link, CallInv, TypeOK
<1>3. UNCHANGED nexts \/ \E t \in User : Link(t)
  BY DEF Next, UserStep, WorkerStep, CallStep, Finished, vars, node_vars, Create, HappensBefore,
         Bind, Submit, WaitNothing, Wait, WakeUp, TakeJob, Signal, Complete, NotifyNext, Return
<1> QED BY <1>1, <1>2, <1>3
-----------------------------------------------------------------------------
(* A notification starts a node, or completes one without a function, only *)
(* when TaskGraph lets it run.                                             *)
LEMMA NotifyGraph ==
  ASSUME TypeOK, RunInv, RunInv', StartAfterPreds, StartAfterPreds', CallInv,
         NEW t \in Thread, NEW n \in Node, NEW f, Notify(t, n, f), UNCHANGED nexts,
         \A m \in Node \ {n} : phase'[m] = phase[m] /\ need_wait'[m] = need_wait[m],
         Finalized(n)'
  PROVE  /\ \A m \in Node \ {n} : StageOf(m)' = StageOf(m)
         /\ \/ Finalized(n) /\ StageOf(n)' = StageOf(n)
            \/ StageOf(n)' = "submitted" /\ ~run[n]
            \/ /\ StageOf(n)' \in {"started", "done"} /\ ~run[n]
               /\ \A p \in PredsOf(n) : p \in Node /\ StageOf(p) = "done"
<1>1. \A m \in Node \ {n} : StageOf(m)' = StageOf(m)
  <2> SUFFICES ASSUME NEW m \in Node \ {n} PROVE StageOf(m)' = StageOf(m)
    OBVIOUS
  <2>1. done'[m] = done[m] /\ run'[m] = run[m] /\ Finalized(m)' = Finalized(m)
    BY NotifyEffect DEF Finalized
  <2> QED BY <2>1, StageIs DEF StageIf
<1>2. CASE run'[n] = run[n]
  <2>1. done'[n] = done[n]
    BY <1>2 DEF Notify, TypeOK
  <2>2. CASE run[n]
    <3>1. Finalized(n)
      BY <2>2 DEF StartAfterPreds
    <3> QED BY <1>1, <1>2, <2>1, <2>2, <3>1, StageIs DEF StageIf
  <2>3. CASE ~run[n]
    BY <1>1, <1>2, <2>1, <2>3, StageIs DEF StageIf, RunInv
  <2> QED BY <2>2, <2>3
<1>3. CASE run'[n] # run[n]
  <2>1. run'[n] /\ ~run[n]
    BY <1>3 DEF Notify, TypeOK
  <2>2. StageOf(n)' \in {"started", "done"}
    BY <2>1, StageIs DEF StageIf
  <2>3. ASSUME NEW p \in PredsOf(n) PROVE p \in Node /\ StageOf(p) = "done"
    <3>1. PICK e \in EdgesInto(n) : p = e[1]
      BY DEF PredsOf
    <3>2. p \in Node
      BY <3>1 DEF EdgesInto
    <3>3. e \in EdgesInto(n)'
      BY SameEdges
    <3>4. done'[p]
      BY <2>1, <3>1, <3>3 DEF StartAfterPreds
    <3>5. p # n
      BY <2>3 DEF CallInv
    <3>6. done[p]
      BY <3>2, <3>4, <3>5, NotifyEffect
    <3> QED BY <3>2, <3>6, StageIs DEF StageIf
  <2> QED BY <1>1, <2>1, <2>2, <2>3
<1> QED BY <1>2, <1>3

LEMMA GraphInit == Init => Graph!TGInit
<1> SUFFICES ASSUME Init PROVE Graph!TGInit
  OBVIOUS
<1>1. \A n \in Node : PredsOf(n) = {}
  BY DEF Init, PredsOf, EdgesInto
<1>2. \A n \in Node : StageOf(n) = "open"
  BY DEF Init, StageOf, Finalized
<1> QED BY <1>1, <1>2 DEF Graph!TGInit

(* A user thread finalizes the node that it has built.                     *)
LEMMA SubmitGraph ==
  ASSUME TypeOK, RunInv, RunInv', StartAfterPreds, StartAfterPreds', CallInv,
         NEW t \in Thread, NEW n \in Node, NEW f, Notify(t, n, f), UNCHANGED <<nexts, need_wait>>,
         phase[n] \in {"open", "bound", "sync"},
         \E ph \in {"final", "waiting"} : phase' = [phase EXCEPT ![n] = ph]
  PROVE  Graph!SubmitTask(n)
<1>1. /\ \A m \in Node \ {n} : phase'[m] = phase[m] /\ need_wait'[m] = need_wait[m]
      /\ ~Finalized(n) /\ Finalized(n)'
  BY DEF TypeOK, Finalized
<1>2. StageOf(n) \in {"open", "bound"}
  <2>1. ~run[n] /\ ~done[n]
    BY <1>1 DEF StartAfterPreds, RunInv
  <2> QED BY <1>1, <2>1, StageIs DEF StageIf
<1>3. /\ \A m \in Node \ {n} : StageOf(m)' = StageOf(m)
      /\ StageOf(n)' \in {"submitted", "started", "done"}
      /\ StageOf(n)' # "submitted" => \A p \in PredsOf(n) : p \in Node /\ StageOf(p) = "done"
  BY <1>1, NotifyGraph
<1>4. \A m \in Node : PredsOf(m)' = PredsOf(m)
  BY SamePreds
<1>5. /\ [m \in Node |-> PredsOf(m)]' = [m \in Node |-> PredsOf(m)]
      /\ [m \in Node |-> StageOf(m)]' = [[m \in Node |-> StageOf(m)] EXCEPT ![n] = StageOf(n)']
  BY <1>3, <1>4, GraphOne
<1> QED BY <1>2, <1>3, <1>5 DEF Graph!SubmitTask, Graph!Ready

LEMMA GraphStep ==
  ASSUME TypeOK, BuildInv, RunInv, RunInv', BarrierInv, StartAfterPreds, StartAfterPreds', CallInv,
         [Next]_vars
  PROVE  [Graph!TGNext]_(Graph!tg_vars)
(* Most steps are not seen.                                                *)
<1>1. ASSUME UNCHANGED <<done, run, nexts>>,
             \A m \in Node : Finalized(m)' <=> Finalized(m),
             \A m \in Node : phase'[m] = "bound" <=> phase[m] = "bound"
      PROVE  UNCHANGED Graph!tg_vars
  <2>1. \A m \in Node : StageOf(m)' = StageOf(m)
    BY <1>1, StageIs DEF StageIf
  <2> QED BY <1>1, <2>1, SamePreds, GraphSame
<1>2. ASSUME UNCHANGED <<done, run, nexts, phase, need_wait>> PROVE UNCHANGED Graph!tg_vars
  BY <1>1, <1>2 DEF Finalized
<1>3. ASSUME NEW t \in User, NEW n \in Node, Create(t, n) PROVE UNCHANGED Graph!tg_vars
  BY <1>1, <1>3 DEF Create, Finalized, TypeOK, node_vars
<1>4. ASSUME NEW t \in User, NEW p \in Node, HappensBefore(t, p) PROVE UNCHANGED Graph!tg_vars
  BY <1>2, <1>4 DEF HappensBefore
<1>5. ASSUME NEW t \in User, Link(t) PROVE Graph!TGNext
  <2>1. PICK p \in Node, n \in Node : p = call[t] /\ n = cur[t]
    BY <1>5 DEF Link, BuildInv, TypeOK
  <2>2. /\ phase[n] \in {"open", "sync"} /\ phase[p] \in {"bound", "final"}
        /\ UNCHANGED <<done, run, phase>> /\ \A m \in Node \ {n} : need_wait'[m] = need_wait[m]
    BY <1>5, <2>1 DEF Link, BuildInv, CallInv, TypeOK
  <2>3. \A m \in Node : StageOf(m)' = StageOf(m)
    <3>1. \A m \in Node : Finalized(m)' = Finalized(m)
      BY <2>2 DEF Finalized
    <3> QED BY <2>2, <3>1, StageIs DEF StageIf
  <2>4. StageOf(n) = "open"
    BY <2>2, StageIs DEF StageIf, Finalized, StartAfterPreds, RunInv
  <2>5. StageOf(p) # "open"
    BY <2>2, StageIs DEF StageIf, Finalized
  <2>6. /\ PredsOf(n)' = PredsOf(n) \union {p}
        /\ \A m \in Node \ {n} : PredsOf(m)' = PredsOf(m)
    BY <1>5, <2>1, LinkPreds
  <2>7. Graph!DependsOn(n, {p})
    BY <2>3, <2>4, <2>5, <2>6 DEF Graph!DependsOn
  <2> QED BY <2>7 DEF Graph!TGNext
<1>6. ASSUME NEW t \in User, Bind(t) PROVE Graph!TGNext
  <2>1. PICK n \in Node : n = cur[t]
    BY <1>6 DEF Bind, TypeOK
  <2>2. /\ phase[n] = "open" /\ phase'[n] = "bound"
        /\ UNCHANGED <<done, run, nexts, need_wait>>
        /\ \A m \in Node \ {n} : phase'[m] = phase[m]
    BY <1>6, <2>1 DEF Bind, TypeOK, node_vars
  <2>3. \A m \in Node \ {n} : StageOf(m)' = StageOf(m)
    <3>1. \A m \in Node \ {n} : Finalized(m)' = Finalized(m)
      BY <2>2 DEF Finalized
    <3> QED BY <2>2, <3>1, StageIs DEF StageIf
  <2>4. StageOf(n) = "open" /\ StageOf(n)' = "bound"
    BY <2>2, StageIs DEF StageIf, Finalized, StartAfterPreds, RunInv
  <2>5. \A m \in Node : PredsOf(m)' = PredsOf(m)
    BY <2>2, SamePreds
  <2>6. Graph!Seal(n, {})
    BY <2>3, <2>4, <2>5, GraphOne DEF Graph!Seal
  <2> QED BY <2>6 DEF Graph!TGNext
<1>7. ASSUME NEW t \in User, Submit(t) PROVE Graph!TGNext
  <2>1. PICK n \in Node, f \in BOOLEAN : n = cur[t] /\ Notify(t, n, f)
    BY <1>7 DEF Submit, TypeOK
  <2>2. Graph!SubmitTask(n)
    <3>1. phase[n] \in {"open", "bound", "sync"} /\ phase' = [phase EXCEPT ![n] = "final"]
      BY <1>7, <2>1 DEF Submit
    <3>2. UNCHANGED <<nexts, need_wait>> /\ t \in Thread
      BY <1>7 DEF Submit, Thread
    <3> QED BY <2>1, <3>1, <3>2, SubmitGraph
  <2> QED BY <2>2 DEF Graph!TGNext
<1>8. ASSUME NEW t \in User, WaitNothing(t) PROVE UNCHANGED Graph!tg_vars
  BY <1>1, <1>8 DEF WaitNothing, Finalized, TypeOK, node_vars
<1>9. ASSUME NEW t \in User, Wait(t) PROVE Graph!TGNext
  <2>1. PICK n \in Node : n = cur[t] /\ Notify(t, n, TRUE)
    BY <1>9 DEF Wait, TypeOK
  <2>2. Graph!SubmitTask(n)
    <3>1. phase[n] \in {"open", "bound", "sync"} /\ phase' = [phase EXCEPT ![n] = "waiting"]
      BY <1>9, <2>1 DEF Wait
    <3>2. UNCHANGED <<nexts, need_wait>> /\ t \in Thread
      BY <1>9 DEF Wait, Thread
    <3> QED BY <2>1, <3>1, <3>2, SubmitGraph
  <2> QED BY <2>2 DEF Graph!TGNext
<1>10. ASSUME NEW t \in User, WakeUp(t) PROVE UNCHANGED Graph!tg_vars
  BY <1>1, <1>10 DEF WakeUp, Finalized, TypeOK, node_vars, BarrierInv
<1>11. ASSUME NEW t \in Worker, TakeJob(t) \/ Signal(t) PROVE UNCHANGED Graph!tg_vars
  BY <1>2, <1>11 DEF TakeJob, Signal, node_vars
<1>12. ASSUME NEW t \in Worker, Complete(t) PROVE [Graph!TGNext]_(Graph!tg_vars)
  <2>1. PICK n \in Node : n = job[t]
    BY <1>12 DEF Complete, TypeOK
  <2>2. /\ UNCHANGED <<run, nexts, phase, need_wait>> /\ run[n] /\ done'[n]
        /\ \A m \in Node \ {n} : done'[m] = done[m]
    BY <1>12, <2>1 DEF Complete, CompleteNoLock, TypeOK, RunInv
  <2>3. CASE done[n]
    <3>1. \A m \in Node : done'[m] = done[m]
      BY <2>2, <2>3 DEF TypeOK
    <3>2. done' = done
      BY <1>12, <2>1, <2>3, <3>1 DEF Complete, CompleteNoLock, TypeOK
    <3> QED BY <1>2, <2>2, <3>2
  <2>4. CASE ~done[n]
    <3>1. StageOf(n) = "started" /\ StageOf(n)' = "done"
      BY <2>2, <2>4, StageIs DEF StageIf
    <3>2. \A m \in Node \ {n} : StageOf(m)' = StageOf(m)
      <4>1. \A m \in Node : Finalized(m)' = Finalized(m)
        BY <2>2 DEF Finalized
      <4> QED BY <2>2, <4>1, StageIs DEF StageIf
    <3>3. \A m \in Node : PredsOf(m)' = PredsOf(m)
      BY <2>2, SamePreds
    <3>4. Graph!Finish(n)
      BY <3>1, <3>2, <3>3, GraphOne DEF Graph!Finish
    <3> QED BY <3>4 DEF Graph!TGNext
  <2> QED BY <2>3, <2>4
<1>13. ASSUME NEW t \in Thread, NotifyNext(t) PROVE [Graph!TGNext]_(Graph!tg_vars)
  <2>1. PICK p \in Node, n \in Node : NextEdge(t, p, n)
    BY <1>13, NotifyNextEdge
  <2>2. UNCHANGED <<nexts, phase, need_wait>> /\ Notify(t, n, fn[n])
    BY <2>1 DEF NextEdge
  <2>3. \A m \in Node : Finalized(m)' = Finalized(m) /\ PredsOf(m)' = PredsOf(m)
    BY <2>2, SamePreds DEF Finalized
  <2>4. CASE Finalized(n)
    <3>1. /\ \A m \in Node \ {n} : StageOf(m)' = StageOf(m)
          /\ \/ StageOf(n)' = StageOf(n)
             \/ StageOf(n)' = "submitted" /\ ~run[n]
             \/ /\ StageOf(n)' \in {"started", "done"} /\ ~run[n]
                /\ \A q \in PredsOf(n) : q \in Node /\ StageOf(q) = "done"
      BY <2>2, <2>3, <2>4, NotifyGraph
    <3>2. ~run[n] => StageOf(n) = "submitted"
      BY <2>4, StageIs DEF StageIf, RunInv
    <3>3. CASE StageOf(n)' = StageOf(n)
      BY <2>3, <3>1, <3>3, GraphSame
    <3>4. CASE /\ StageOf(n)' \in {"started", "done"} /\ ~run[n]
               /\ \A q \in PredsOf(n) : q \in Node /\ StageOf(q) = "done"
      <4>1. Graph!Start(n)
        BY <2>3, <3>1, <3>2, <3>4, GraphOne DEF Graph!Start, Graph!Ready
      <4> QED BY <4>1 DEF Graph!TGNext
    <3> QED BY <3>1, <3>2, <3>3, <3>4
  <2>5. CASE ~Finalized(n)
    <3>1. ~run[n] /\ ~run'[n]
      BY <2>3, <2>5 DEF StartAfterPreds
    <3>2. run' = run /\ done' = done
      BY <2>2, <3>1 DEF Notify, TypeOK
    <3> QED BY <1>2, <2>2, <3>2
  <2> QED BY <2>4, <2>5
<1>14. ASSUME NEW t \in Thread, Return(t) PROVE UNCHANGED Graph!tg_vars
  BY <1>2, <1>14 DEF Return
<1>15. CASE UNCHANGED vars
  BY <1>2, <1>15 DEF vars
<1> QED BY <1>3, <1>4, <1>5, <1>6, <1>7, <1>8, <1>9, <1>10, <1>11, <1>12, <1>13, <1>14, <1>15
     DEF Next, UserStep, WorkerStep, CallStep, Finished

(* The event graph implements the graph of tasks: what depends_on, submit  *)
(* and complete of dev_rts.hpp do, in any interleaving, a task that runs   *)
(* once and after all that it waits for would have done.                   *)
THEOREM Implements == Spec => ImplementsGraph
<1>1. Init => CallInv
  BY DEF Init, CallInv, PredsOf, EdgesInto
<1>2. IInv /\ CallInv /\ [Next]_vars => CallInv'
  BY CallInvStep DEF IInv
<1>3. IInv /\ IInv' /\ CallInv /\ [Next]_vars => [Graph!TGNext]_(Graph!tg_vars)
  <2>1. IInv => StartAfterPreds
    BY InvStart
  <2>2. IInv' => StartAfterPreds'
    BY InvStart, PTL
  <2> QED BY <2>1, <2>2, GraphStep DEF IInv
<1> QED BY <1>1, <1>2, <1>3, Invariance, GraphInit, PTL DEF Spec, ImplementsGraph, Graph!TGSpec
=============================================================================
