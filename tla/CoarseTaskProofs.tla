-------------------------- MODULE CoarseTaskProofs --------------------------
(* Proofs about CoarseTask, for every number of groups, buffers, threads   *)
(* and waits.  With one thread that submits, kernels come after what they  *)
(* depend on, and so do copies unless a group copies from a buffer to a    *)
(* buffer; waits return neither early nor never, with any number of        *)
(* threads.                                                                *)
EXTENDS CoarseTask, FiniteSetTheorems, TLAPS

OneBuilder == \A u, v \in Builder : u = v

(* A record of fine tasks, those in F of which are finalized: the counters *)
(* count edges, and a task is new until it and all before it are ready.    *)
In(f, n) == {m \in Node : n \in f.nexts[m]}
DoneOf(f) == {m \in Node : f.at[m] = "done"}
Ok(f, F) ==
  /\ f \in Fine
  /\ \A n \in Node :
       /\ f.n_wait[n] = Cardinality(In(f, n)) + 1
       /\ f.n_wake[n] = Cardinality(In(f, n) \intersect DoneOf(f)) + (IF n \in F THEN 1 ELSE 0)
       /\ f.at[n] # "new" <=> n \in F /\ In(f, n) \subseteq DoneOf(f)

Ready == {n \in Node : Finalized(n)}

FineInv == Ok(fine, Ready)

(* A group that is being built has one thread, which builds it.            *)
PcInv ==
  /\ \A u \in User : pc[u] \in Group => u \in Builder /\ phase[pc[u]] \in {"building", "bound"}
  /\ \A u, v \in User : pc[u] \in Group /\ pc[u] = pc[v] => u = v
  /\ \A g \in Group : phase[g] \in {"building", "bound"} => \E u \in User : pc[u] = g

(* What is known of a group at each stage.                                 *)
GroupInv ==
  \A g \in Group :
    /\ phase[g] = "open" => params[g] = 0 /\ needs[Kern(g)] = {}
    /\ phase[g] = "submitted" => kernel[g]
    /\ depends[g] # {} => phase[g] = "bound" /\ kernel[g]
    /\ \A p \in depends[g] : kernel[p]

(* A kernel task that is not there has no edges.                           *)
Unused == \A g \in Group : ~kernel[g] => In(fine, Kern(g)) = {} /\ fine.nexts[Kern(g)] = {}

(* A copy that has been made comes before the kernel of its group.         *)
CopyEdges ==
  \A g \in Group, i \in 1 .. MaxParams :
    IF fine.n_wake[Copy(g, i)] = 0 THEN In(fine, Copy(g, i)) = {}
                                   ELSE Kern(g) \in fine.nexts[Copy(g, i)]

CopyInv ==
  /\ CopyEdges
  /\ \A g \in Group, i \in 1 .. MaxParams : i > params[g] => fine.n_wake[Copy(g, i)] = 0

(* n is notified when p is done, or was.                                   *)
After(n, p) == Done(p) \/ n \in fine.nexts[Kern(p)]

SyncInv ==
  \A b \in Barrier :
    /\ b \in arrived => fine.at[Sync(b)] = "done"
    /\ \A p \in waited[b] : After(Sync(b), p)

KernelInv ==
  \A g \in Group : \A p \in needs[Kern(g)] :
    \/ After(Kern(g), p)
    \/ \E i \in 1 .. MaxParams : Kern(g) \in fine.nexts[Copy(g, i)] /\ After(Copy(g, i), p)
    \/ p \in depends[g]

CopyDeps ==
  \A g \in Group, i \in 1 .. MaxParams : \A p \in needs[Copy(g, i)] : After(Copy(g, i), p)

IInv == TypeOK /\ FineInv /\ PcInv /\ GroupInv /\ Unused /\ CopyInv /\ SyncInv
-----------------------------------------------------------------------------
LEMMA NodeFinite == IsFiniteSet(Node)
<1>1. IsFiniteSet(0 .. MaxParams) /\ IsFiniteSet({0})
  <2>1. 0 \in Int /\ MaxParams \in Int
    BY CoarseAssumption
  <2> QED BY <2>1, FS_Interval, FS_Singleton
<1>2. IsFiniteSet(Group \X (0 .. MaxParams)) /\ IsFiniteSet(Barrier \X {0})
  BY <1>1, FS_Product, CoarseAssumption
<1> QED BY <1>2, FS_Union DEF Node

(* Kernel tasks, copies and sync tasks are different nodes.                *)
LEMMA Nodes ==
  /\ \A g \in Group : Kern(g) \in Node
  /\ \A g \in Group, i \in 1 .. MaxParams : Copy(g, i) \in Node
  /\ \A b \in Barrier : Sync(b) \in Node
  /\ \A g, h \in Group : Kern(g) = Kern(h) => g = h
  /\ \A g, h \in Group, i, j \in 1 .. MaxParams : Copy(g, i) = Copy(h, j) => g = h /\ i = j
  /\ \A b, c \in Barrier : Sync(b) = Sync(c) => b = c
  /\ \A g, h \in Group, i \in 1 .. MaxParams : Kern(g) # Copy(h, i)
  /\ \A g \in Group, b \in Barrier : Kern(g) # Sync(b)
  /\ \A g \in Group, b \in Barrier, i \in 1 .. MaxParams : Copy(g, i) # Sync(b)
BY CoarseAssumption DEF Node, Kern, Copy, Sync

LEMMA NodeCases ==
  ASSUME NEW n \in Node
  PROVE  \/ \E g \in Group : n = Kern(g)
         \/ \E g \in Group, i \in 1 .. MaxParams : n = Copy(g, i)
         \/ \E b \in Barrier : n = Sync(b)
<1>1. CASE n \in Group \X (0 .. MaxParams)
  <2>1. PICK g \in Group, i \in 0 .. MaxParams : n = <<g, i>>
    BY <1>1
  <2>2. i = 0 \/ i \in 1 .. MaxParams
    BY <2>1, CoarseAssumption
  <2> QED BY <2>1, <2>2 DEF Kern, Copy
<1>2. CASE n \in Barrier \X {0}
  BY <1>2 DEF Sync
<1> QED BY <1>1, <1>2 DEF Node
-----------------------------------------------------------------------------
(* What the counters say.                                                  *)
LEMMA Meets ==
  ASSUME NEW S, IsFiniteSet(S), NEW T
  PROVE  /\ Cardinality(S) \in Nat /\ Cardinality(S \intersect T) \in Nat
         /\ Cardinality(S \intersect T) <= Cardinality(S)
         /\ Cardinality(S \intersect T) = Cardinality(S) <=> S \subseteq T
<1> DEFINE U == S \intersect T
<1>1. U \in SUBSET S
  OBVIOUS
<1>2. IsFiniteSet(U) /\ Cardinality(U) <= Cardinality(S) /\ (Cardinality(S) = Cardinality(U) => S = U)
  BY <1>1, FS_Subset
<1>3. Cardinality(S) \in Nat /\ Cardinality(U) \in Nat
  BY <1>2, FS_CardinalityType
<1>4. S \subseteq T <=> S = U
  OBVIOUS
<1> QED BY <1>2, <1>3, <1>4

LEMMA InFinite ==
  ASSUME NEW f, NEW n
  PROVE  IsFiniteSet(In(f, n)) /\ In(f, n) \subseteq Node
<1>1. In(f, n) \in SUBSET Node
  BY DEF In
<1> QED BY <1>1, NodeFinite, FS_Subset

(* Adding edges from m to n, for m in L.                                   *)
LEMMA AddEdges ==
  ASSUME NEW S, IsFiniteSet(S), NEW L, IsFiniteSet(L), S \intersect L = {}
  PROVE  Cardinality(S \union L) = Cardinality(S) + Cardinality(L)
<1>1. Cardinality(S \union L) = Cardinality(S) + Cardinality(L) - Cardinality(S \intersect L)
  BY FS_Union
<1>2. Cardinality(S \intersect L) = 0
  BY FS_EmptySet
<1>3. Cardinality(S) \in Nat /\ Cardinality(L) \in Nat
  BY FS_CardinalityType
<1> QED BY <1>1, <1>2, <1>3

(* runs_after: edges from those in D that are not done.                    *)
Linked(f, n, D) == {d \in D : f.at[d] # "done" /\ n \notin f.nexts[d]}

LEMMA LinkedFinite ==
  ASSUME NEW f, NEW n, NEW D \in SUBSET Node
  PROVE  /\ IsFiniteSet(Linked(f, n, D)) /\ Linked(f, n, D) \subseteq Node
         /\ Cardinality(Linked(f, n, D)) \in Nat
<1>1. Linked(f, n, D) \in SUBSET Node
  BY DEF Linked
<1>2. IsFiniteSet(Linked(f, n, D))
  BY <1>1, NodeFinite, FS_Subset
<1> QED BY <1>1, <1>2, FS_CardinalityType

LEMMA RunsAfterAt ==
  ASSUME NEW f \in Fine, NEW n \in Node, NEW D \in SUBSET Node
  PROVE  RunsAfter(f, n, D).at = f.at
  BY DEF RunsAfter, Fine

LEMMA RunsAfterIs ==
  ASSUME NEW f \in Fine, NEW n \in Node, NEW D \in SUBSET Node
  PROVE  /\ RunsAfter(f, n, D) \in Fine
         /\ RunsAfter(f, n, D).n_wake = f.n_wake
         /\ RunsAfter(f, n, D).n_wait = [f.n_wait EXCEPT ![n] = @ + Cardinality(Linked(f, n, D))]
         /\ RunsAfter(f, n, D).nexts =
              [m \in Node |-> IF m \in Linked(f, n, D) THEN f.nexts[m] \union {n} ELSE f.nexts[m]]
<1> DEFINE L == Linked(f, n, D)
           r == RunsAfter(f, n, D)
<1>1. r = [f EXCEPT !.nexts = [d \in Node |-> IF d \in L THEN @[d] \union {n} ELSE @[d]],
                    !.n_wait[n] = @ + Cardinality(L)]
  BY DEF RunsAfter, Linked
<1>2. /\ f.at \in [Node -> Place] /\ f.nexts \in [Node -> SUBSET Node]
      /\ f.n_wait \in [Node -> Nat] /\ f.n_wake \in [Node -> Nat]
      /\ Cardinality(L) \in Nat
  BY LinkedFinite DEF Fine
<1> HIDE DEF r, L
<1>3. /\ r.at = f.at /\ r.n_wake = f.n_wake
      /\ r.n_wait = [f.n_wait EXCEPT ![n] = @ + Cardinality(L)]
  BY <1>1 DEF Fine
<1>4. r.nexts = [m \in Node |-> IF m \in L THEN f.nexts[m] \union {n} ELSE f.nexts[m]]
  BY <1>1 DEF Fine
<1>5. r.nexts \in [Node -> SUBSET Node] /\ r.n_wait \in [Node -> Nat]
  BY <1>2, <1>3, <1>4
<1>6. r = [nexts |-> r.nexts, n_wait |-> r.n_wait, n_wake |-> r.n_wake, at |-> r.at]
  BY <1>1 DEF Fine
<1>7. r \in Fine
  BY <1>2, <1>3, <1>5, <1>6 DEF Fine
<1> QED BY <1>3, <1>4, <1>7 DEF r, L

LEMMA RunsAfterOk ==
  ASSUME NEW f, NEW F, Ok(f, F), NEW n \in Node, n \notin F, NEW D \in SUBSET Node
  PROVE  Ok(RunsAfter(f, n, D), F)
<1> DEFINE L == Linked(f, n, D)
           r == RunsAfter(f, n, D)
<1>1. f \in Fine
  BY DEF Ok
<1>2. /\ f.at \in [Node -> Place] /\ f.nexts \in [Node -> SUBSET Node]
      /\ f.n_wait \in [Node -> Nat] /\ f.n_wake \in [Node -> Nat]
  BY <1>1 DEF Fine
<1>3. IsFiniteSet(L) /\ L \subseteq Node /\ Cardinality(L) \in Nat
  BY LinkedFinite
<1>4. /\ r.at = f.at /\ r.n_wake = f.n_wake
      /\ r.nexts = [m \in Node |-> IF m \in L THEN f.nexts[m] \union {n} ELSE f.nexts[m]]
      /\ r.n_wait = [f.n_wait EXCEPT ![n] = @ + Cardinality(L)]
      /\ r \in Fine
  <2>1. r.at = f.at
    BY <1>1, RunsAfterAt
  <2>2. /\ r.n_wake = f.n_wake
        /\ r.nexts = [m \in Node |-> IF m \in L THEN f.nexts[m] \union {n} ELSE f.nexts[m]]
        /\ r.n_wait = [f.n_wait EXCEPT ![n] = @ + Cardinality(L)]
        /\ r \in Fine
    BY <1>1, RunsAfterIs
  <2> QED BY <2>1, <2>2
<1>6. DoneOf(r) = DoneOf(f)
  BY <1>4 DEF DoneOf
<1> HIDE DEF r, L
<1>7. ASSUME NEW k \in Node, k # n
      PROVE  /\ r.n_wait[k] = Cardinality(In(r, k)) + 1
             /\ r.n_wake[k] = Cardinality(In(r, k) \intersect DoneOf(r)) + (IF k \in F THEN 1 ELSE 0)
             /\ r.at[k] # "new" <=> k \in F /\ In(r, k) \subseteq DoneOf(r)
  <2>1. In(r, k) = In(f, k)
    BY <1>2, <1>4, <1>7 DEF In
  <2> QED BY <1>2, <1>4, <1>6, <1>7, <2>1 DEF Ok
<1>8. /\ r.n_wait[n] = Cardinality(In(r, n)) + 1
      /\ r.n_wake[n] = Cardinality(In(r, n) \intersect DoneOf(r)) + (IF n \in F THEN 1 ELSE 0)
      /\ r.at[n] # "new" <=> n \in F /\ In(r, n) \subseteq DoneOf(r)
  <2>1. In(r, n) = In(f, n) \union L
    BY <1>2, <1>3, <1>4 DEF In, L, Linked
  <2>2. In(f, n) \intersect L = {} /\ L \intersect DoneOf(f) = {}
    BY DEF In, L, Linked, DoneOf
  <2>3. Cardinality(In(r, n)) = Cardinality(In(f, n)) + Cardinality(L)
    BY <1>3, <2>1, <2>2, AddEdges, InFinite
  <2>4. In(r, n) \intersect DoneOf(r) = In(f, n) \intersect DoneOf(f)
    BY <1>6, <2>1, <2>2
  <2>5. r.n_wait[n] = Cardinality(In(f, n)) + 1 + Cardinality(L)
    BY <1>2, <1>4 DEF Ok
  <2>6. Cardinality(In(f, n)) \in Nat
    BY InFinite, FS_CardinalityType
  <2>7. r.n_wait[n] = Cardinality(In(r, n)) + 1
    BY <1>3, <2>3, <2>5, <2>6
  <2> QED BY <1>4, <2>4, <2>7 DEF Ok
<1>9. Ok(r, F)
  BY <1>4, <1>7, <1>8 DEF Ok
<1> QED BY <1>9 DEF r
-----------------------------------------------------------------------------
LEMMA NotifyIs ==
  ASSUME NEW f \in Fine, NEW N \in SUBSET Node
  PROVE  /\ Notify(f, N) \in Fine
         /\ Notify(f, N).nexts = f.nexts /\ Notify(f, N).n_wait = f.n_wait
         /\ \A n \in N : /\ Notify(f, N).n_wake[n] = f.n_wake[n] + 1
                         /\ Notify(f, N).at[n] = IF f.n_wake[n] + 1 = f.n_wait[n]
                                                   THEN "queued" ELSE f.at[n]
         /\ \A n \in Node \ N : /\ Notify(f, N).n_wake[n] = f.n_wake[n]
                                /\ Notify(f, N).at[n] = f.at[n]
<1> DEFINE wake == [n \in Node |-> IF n \in N THEN f.n_wake[n] + 1 ELSE f.n_wake[n]]
           place == [n \in Node |-> IF n \in N /\ wake[n] = f.n_wait[n] THEN "queued" ELSE f.at[n]]
           r == Notify(f, N)
<1>1. r = [f EXCEPT !.n_wake = wake, !.at = place]
  <2>1. f.at \in [Node -> Place]
    BY DEF Fine
  <2> QED BY <2>1 DEF Notify, Due
<1>2. wake \in [Node -> Nat] /\ place \in [Node -> Place]
  BY DEF Fine, Place
<1> HIDE DEF r
<1>3. /\ r.nexts = f.nexts /\ r.n_wait = f.n_wait /\ r.n_wake = wake /\ r.at = place
      /\ r \in Fine
  <2> HIDE DEF wake, place
  <2> QED BY <1>1, <1>2 DEF Fine
<1>4. /\ \A n \in N : r.n_wake[n] = f.n_wake[n] + 1
      /\ \A n \in Node \ N : r.n_wake[n] = f.n_wake[n]
  BY <1>3
<1>5. /\ \A n \in N : r.at[n] = IF f.n_wake[n] + 1 = f.n_wait[n] THEN "queued" ELSE f.at[n]
      /\ \A n \in Node \ N : r.at[n] = f.at[n]
  BY <1>3
<1> QED BY <1>3, <1>4, <1>5 DEF r

LEMMA FinalizeAt ==
  ASSUME NEW f \in Fine, NEW n \in Node
  PROVE  \A m \in Node \ {n} : Notify(f, {n}).at[m] = f.at[m]
  BY NotifyIs

LEMMA FinalizeNexts ==
  ASSUME NEW f \in Fine, NEW n \in Node
  PROVE  Notify(f, {n}).nexts = f.nexts
  BY NotifyIs

(* finalize: submit, wait, and commit(op) for a copy.                      *)
LEMMA FinalizeOk ==
  ASSUME NEW f, NEW F, Ok(f, F), NEW n \in Node, n \notin F
  PROVE  Ok(Notify(f, {n}), F \union {n})
<1> DEFINE r == Notify(f, {n})
<1>1. f \in Fine /\ f.at[n] = "new"
  BY DEF Ok
<1>2. /\ r \in Fine
      /\ r.nexts = f.nexts /\ r.n_wait = f.n_wait
      /\ r.n_wake[n] = f.n_wake[n] + 1
      /\ r.at[n] = IF f.n_wake[n] + 1 = f.n_wait[n] THEN "queued" ELSE f.at[n]
      /\ \A m \in Node \ {n} : r.n_wake[m] = f.n_wake[m] /\ r.at[m] = f.at[m]
  BY <1>1, NotifyIs
<1> HIDE DEF r
<1>3. \A m \in Node : In(r, m) = In(f, m)
  BY <1>2 DEF In
<1>4. DoneOf(r) = DoneOf(f)
  BY <1>1, <1>2 DEF DoneOf
<1>5. ASSUME NEW m \in Node, m # n
      PROVE  /\ r.n_wait[m] = Cardinality(In(r, m)) + 1
             /\ r.n_wake[m] = Cardinality(In(r, m) \intersect DoneOf(r))
                                + (IF m \in F \union {n} THEN 1 ELSE 0)
             /\ r.at[m] # "new" <=> m \in F \union {n} /\ In(r, m) \subseteq DoneOf(r)
  BY <1>2, <1>3, <1>4, <1>5 DEF Ok
<1>6. /\ r.n_wait[n] = Cardinality(In(r, n)) + 1
      /\ r.n_wake[n] = Cardinality(In(r, n) \intersect DoneOf(r)) + 1
      /\ r.at[n] # "new" <=> In(r, n) \subseteq DoneOf(r)
  <2> DEFINE a == Cardinality(In(f, n))
             b == Cardinality(In(f, n) \intersect DoneOf(f))
  <2>1. a \in Nat /\ b \in Nat /\ (b = a <=> In(f, n) \subseteq DoneOf(f))
    BY Meets, InFinite
  <2>2. f.n_wait[n] = a + 1 /\ f.n_wake[n] = b + 0
    BY DEF Ok
  <2> HIDE DEF a, b
  <2>3. r.at[n] # "new" <=> b = a
    BY <1>1, <1>2, <2>1, <2>2
  <2>4. r.n_wait[n] = a + 1 /\ r.n_wake[n] = b + 1
    BY <1>2, <2>1, <2>2
  <2> QED BY <1>3, <1>4, <2>1, <2>3, <2>4 DEF a, b
<1>7. Ok(r, F \union {n})
  BY <1>2, <1>5, <1>6 DEF Ok
<1> QED BY <1>7 DEF r

(* complete, for a task that was ready, and that nothing can come before.  *)
LEMMA CompleteOk ==
  ASSUME NEW f, NEW F, Ok(f, F), NEW n \in Node, f.at[n] \in {"queued", "running"}
  PROVE  /\ Ok(Complete(f, n), F)
         /\ Complete(f, n).nexts = f.nexts
         /\ Complete(f, n).at[n] = "done"
         /\ \A m \in Node \ {n} : \/ Complete(f, n).at[m] = f.at[m]
                                  \/ f.at[m] = "new" /\ Complete(f, n).at[m] = "queued"
<1> DEFINE d == [f EXCEPT !.at[n] = "done"]
           N == f.nexts[n]
           r == Complete(f, n)
<1>1. f \in Fine
  BY DEF Ok
<1>2. /\ d \in Fine /\ d.nexts = f.nexts /\ d.n_wait = f.n_wait /\ d.n_wake = f.n_wake
      /\ d.at = [f.at EXCEPT ![n] = "done"] /\ N \in SUBSET Node
  BY <1>1 DEF Fine, Place
<1> HIDE DEF d
<1>3. r = Notify(d, N)
  BY DEF Complete, d
<1> HIDE DEF N, r
<1>4. /\ r \in Fine /\ r.nexts = f.nexts /\ r.n_wait = f.n_wait
      /\ \A m \in N : /\ r.n_wake[m] = f.n_wake[m] + 1
                      /\ r.at[m] = IF f.n_wake[m] + 1 = f.n_wait[m] THEN "queued" ELSE d.at[m]
      /\ \A m \in Node \ N : r.n_wake[m] = f.n_wake[m] /\ r.at[m] = d.at[m]
  <2> DEFINE q == Notify(d, N)
  <2>1. /\ q \in Fine /\ q.nexts = d.nexts /\ q.n_wait = d.n_wait
        /\ \A m \in N : /\ q.n_wake[m] = d.n_wake[m] + 1
                        /\ q.at[m] = IF d.n_wake[m] + 1 = d.n_wait[m] THEN "queued" ELSE d.at[m]
        /\ \A m \in Node \ N : q.n_wake[m] = d.n_wake[m] /\ q.at[m] = d.at[m]
    BY <1>2, NotifyIs
  <2> QED BY <1>2, <1>3, <2>1
<1>5. f.at[n] # "done" /\ f.at[n] # "new" /\ f.at \in [Node -> Place]
  BY <1>1 DEF Fine
<1>6. \A m \in N : m \in Node /\ f.at[m] = "new" /\ m # n
  <2>1. \A m \in N : m \in Node /\ n \in In(f, m) /\ n \notin DoneOf(f)
    BY <1>2, <1>5 DEF N, In, DoneOf
  <2> QED BY <1>5, <2>1 DEF Ok
<1>7. \A m \in Node : In(r, m) = In(f, m) /\ (n \in In(f, m) <=> m \in N)
  BY <1>4 DEF In, N
<1>8. r.at[n] = "done" /\ \A m \in Node \ {n} : d.at[m] = f.at[m]
  BY <1>2, <1>4, <1>5, <1>6
<1>9. \A m \in Node \ {n} : r.at[m] = f.at[m] \/ (f.at[m] = "new" /\ r.at[m] = "queued")
  BY <1>4, <1>6, <1>8
<1>10. DoneOf(r) = DoneOf(f) \union {n} /\ n \notin DoneOf(f)
  BY <1>5, <1>8, <1>9 DEF DoneOf
<1>11. ASSUME NEW m \in Node \ N
       PROVE  /\ r.n_wait[m] = Cardinality(In(r, m)) + 1
              /\ r.n_wake[m] = Cardinality(In(r, m) \intersect DoneOf(r)) + (IF m \in F THEN 1 ELSE 0)
              /\ r.at[m] # "new" <=> m \in F /\ In(r, m) \subseteq DoneOf(r)
  <2>1. In(r, m) \intersect DoneOf(r) = In(f, m) \intersect DoneOf(f)
    BY <1>7, <1>10, <1>11
  <2>2. In(r, m) \subseteq DoneOf(r) <=> In(f, m) \subseteq DoneOf(f)
    BY <1>7, <1>10, <1>11
  <2>3. r.at[m] # "new" <=> f.at[m] # "new"
    BY <1>2, <1>4, <1>5, <1>8, <1>11
  <2> QED BY <1>4, <1>7, <1>11, <2>1, <2>2, <2>3 DEF Ok
<1>12. ASSUME NEW m \in N
       PROVE  /\ r.n_wait[m] = Cardinality(In(r, m)) + 1
              /\ r.n_wake[m] = Cardinality(In(r, m) \intersect DoneOf(r)) + (IF m \in F THEN 1 ELSE 0)
              /\ r.at[m] # "new" <=> m \in F /\ In(r, m) \subseteq DoneOf(r)
  <2> DEFINE S == In(f, m)
             B == S \intersect DoneOf(f)
  <2>1. IsFiniteSet(S) /\ m \in Node
    BY <1>6, InFinite
  <2>2. S \intersect DoneOf(r) = B \union {n} /\ n \notin B
    BY <1>7, <1>10, <2>1
  <2>3. IsFiniteSet(B)
    <3>1. B \in SUBSET S
      OBVIOUS
    <3> QED BY <2>1, <3>1, FS_Subset
  <2>4. Cardinality(S \intersect DoneOf(r)) = Cardinality(B) + 1
    BY <2>2, <2>3, FS_AddElement
  <2>5. Cardinality(S) \in Nat /\ Cardinality(B) \in Nat /\ Cardinality(B) + 1 <= Cardinality(S)
    BY <2>1, <2>3, <2>4, Meets, FS_CardinalityType
  <2>6. Cardinality(B) + 1 = Cardinality(S) <=> S \subseteq DoneOf(r)
    BY <2>1, <2>4, Meets
  <2>7. f.n_wait[m] = Cardinality(S) + 1 /\ f.n_wake[m] = Cardinality(B) + (IF m \in F THEN 1 ELSE 0)
    BY <2>1 DEF Ok
  <2> HIDE DEF S, B
  <2>8. r.n_wake[m] = Cardinality(S \intersect DoneOf(r)) + (IF m \in F THEN 1 ELSE 0)
    BY <1>4, <2>4, <2>5, <2>7
  <2>9. r.at[m] # "new" <=> f.n_wake[m] + 1 = f.n_wait[m]
    BY <1>4, <1>6, <1>8
  <2>10. f.n_wake[m] + 1 = f.n_wait[m] <=> m \in F /\ S \subseteq DoneOf(r)
    BY <2>5, <2>6, <2>7
  <2> QED BY <1>4, <1>7, <2>1, <2>7, <2>8, <2>9, <2>10 DEF S
<1>13. Ok(r, F)
  BY <1>2, <1>4, <1>11, <1>12 DEF Ok
<1> QED BY <1>4, <1>8, <1>9, <1>13 DEF r
-----------------------------------------------------------------------------
(* From f to r: nothing is undone, edges are added only from nodes in S    *)
(* and only into nodes in T.                                               *)
Extends(f, r, S, T) ==
  /\ \A m \in Node : /\ f.nexts[m] \subseteq r.nexts[m]
                     /\ f.at[m] = "done" => r.at[m] = "done"
                     /\ f.at[m] # "new" => r.at[m] # "new"
  /\ \A m \in Node \ S : r.nexts[m] = f.nexts[m]
  /\ \A n \in Node \ T : In(r, n) = In(f, n)

LEMMA ExtendsTwice ==
  ASSUME NEW f, NEW r, NEW q, NEW S1, NEW T1, NEW S2, NEW T2,
         Extends(f, r, S1, T1), Extends(r, q, S2, T2)
  PROVE  Extends(f, q, S1 \union S2, T1 \union T2)
<1>1. \A m \in Node : /\ f.nexts[m] \subseteq q.nexts[m]
                      /\ f.at[m] = "done" => q.at[m] = "done"
                      /\ f.at[m] # "new" => q.at[m] # "new"
  BY DEF Extends
<1>2. \A m \in Node \ (S1 \union S2) : q.nexts[m] = f.nexts[m]
  BY DEF Extends
<1>3. \A n \in Node \ (T1 \union T2) : In(q, n) = In(f, n)
  BY DEF Extends
<1> QED BY <1>1, <1>2, <1>3 DEF Extends

LEMMA RunsAfterExtends ==
  ASSUME NEW f, NEW F, Ok(f, F), NEW n \in Node, n \notin F, NEW D \in SUBSET Node
  PROVE  /\ Extends(f, RunsAfter(f, n, D), D, {n})
         /\ \A d \in D : f.at[d] = "done" \/ n \in RunsAfter(f, n, D).nexts[d]
<1> DEFINE r == RunsAfter(f, n, D)
           L == Linked(f, n, D)
<1>1. f \in Fine /\ L \subseteq D /\ \A d \in D : d \in L \/ f.at[d] = "done" \/ n \in f.nexts[d]
  BY DEF Ok, Linked
<1>2. r.at = f.at
  BY <1>1, RunsAfterAt
<1>3. r.nexts = [m \in Node |-> IF m \in L THEN f.nexts[m] \union {n} ELSE f.nexts[m]]
  <2>1. /\ r.n_wake = f.n_wake
        /\ r.nexts = [m \in Node |-> IF m \in L THEN f.nexts[m] \union {n} ELSE f.nexts[m]]
        /\ r.n_wait = [f.n_wait EXCEPT ![n] = @ + Cardinality(L)]
        /\ r \in Fine
    BY <1>1, RunsAfterIs
  <2> QED BY <2>1
<1> HIDE DEF r, L
<1>4. \A m \in Node : IF m \in L THEN r.nexts[m] = f.nexts[m] \union {n} ELSE r.nexts[m] = f.nexts[m]
  BY <1>3
<1>5. \A k \in Node \ {n} : In(r, k) = In(f, k)
  BY <1>4 DEF In
<1>6. \A d \in D : f.at[d] = "done" \/ n \in r.nexts[d]
  BY <1>1, <1>4
<1> QED BY <1>1, <1>2, <1>4, <1>5, <1>6 DEF Extends, r

LEMMA FinalizeExtends ==
  ASSUME NEW f, NEW F, Ok(f, F), NEW n \in Node, n \notin F
  PROVE  Extends(f, Notify(f, {n}), {}, {})
<1> DEFINE r == Notify(f, {n})
<1>1. f \in Fine /\ f.at[n] = "new"
  BY DEF Ok
<1>2. r.nexts = f.nexts
  BY <1>1, FinalizeNexts
<1>3. \A m \in Node \ {n} : r.at[m] = f.at[m]
  BY <1>1, FinalizeAt
<1> HIDE DEF r
<1> QED BY <1>1, <1>2, <1>3 DEF Extends, In, r

LEMMA CompleteExtends ==
  ASSUME NEW f, NEW F, Ok(f, F), NEW n \in Node, f.at[n] \in {"queued", "running"}
  PROVE  Extends(f, Complete(f, n), {}, {})
<1> DEFINE r == Complete(f, n)
<1>1. /\ r.nexts = f.nexts /\ r.at[n] = "done"
      /\ \A m \in Node \ {n} : r.at[m] = f.at[m] \/ (f.at[m] = "new" /\ r.at[m] = "queued")
  BY CompleteOk
<1> HIDE DEF r
<1> QED BY <1>1 DEF Extends, In, r

(* commit(op): the copy c is made and finalized, and the kernel k waits    *)
(* for it.                                                                 *)
LEMMA CommitCopyOk ==
  ASSUME NEW f, NEW F, Ok(f, F), NEW g \in Group, NEW i \in 1 .. MaxParams, NEW D \in SUBSET Group,
         Copy(g, i) \notin F, Kern(g) \notin F
  PROVE  LET r == CommitCopy(f, g, D, i)
             c == Copy(g, i)
         IN  /\ Ok(r, F \union {c})
             /\ Extends(f, r, Kerns(D) \union {c}, {c, Kern(g)})
             /\ Kern(g) \in r.nexts[c]
             /\ \A d \in D : f.at[Kern(d)] = "done" \/ c \in r.nexts[Kern(d)]
<1> DEFINE c == Copy(g, i)
           k == Kern(g)
           a == RunsAfter(f, c, Kerns(D))
           b == RunsAfter(a, k, {c})
           r == Notify(b, {c})
<1>1. c \in Node /\ k \in Node /\ c # k /\ Kerns(D) \in SUBSET Node /\ {c} \in SUBSET Node
  BY Nodes DEF Kerns
<1>2. f \in Fine /\ f.at[c] = "new"
  BY <1>1 DEF Ok
<1>3. /\ Ok(a, F) /\ a.at = f.at /\ Extends(f, a, Kerns(D), {c})
      /\ \A d \in Kerns(D) : f.at[d] = "done" \/ c \in a.nexts[d]
  <2>1. c \notin F
    OBVIOUS
  <2> HIDE DEF c
  <2>2. Ok(a, F)
    BY <1>1, <2>1, RunsAfterOk
  <2>4. a.at = f.at
    BY <1>1, <1>2, RunsAfterAt
  <2>3. Extends(f, a, Kerns(D), {c}) /\ \A d \in Kerns(D) : f.at[d] = "done" \/ c \in a.nexts[d]
    BY <1>1, <2>1, RunsAfterExtends
  <2> QED BY <2>2, <2>3, <2>4
<1> HIDE DEF c, k, a
<1>31. a \in Fine
  BY <1>3 DEF Ok
<1>4. /\ Ok(b, F) /\ b.at = a.at /\ Extends(a, b, {c}, {k})
      /\ \A d \in {c} : a.at[d] = "done" \/ k \in b.nexts[d]
  <2>1. k \notin F
    BY DEF k
  <2>2. Ok(b, F)
    BY <1>1, <1>3, <2>1, RunsAfterOk
  <2>4. b.at = a.at
    BY <1>1, <1>31, RunsAfterAt
  <2>3. Extends(a, b, {c}, {k}) /\ \A d \in {c} : a.at[d] = "done" \/ k \in b.nexts[d]
    BY <1>1, <1>3, <2>1, RunsAfterExtends
  <2> QED BY <2>2, <2>3, <2>4
<1> HIDE DEF b
<1>41. b \in Fine
  BY <1>4 DEF Ok
<1>5. Ok(r, F \union {c}) /\ Extends(b, r, {}, {}) /\ r.nexts = b.nexts
  <2>1. c \notin F
    BY DEF c
  <2>2. Ok(r, F \union {c}) /\ r.nexts = b.nexts
    <3>1. Ok(r, F \union {c})
      BY <1>1, <1>4, <2>1, FinalizeOk
    <3>2. r.nexts = b.nexts
      BY <1>1, <1>41, FinalizeNexts
    <3> QED BY <3>1, <3>2
  <2>3. Extends(b, r, {}, {})
    BY <1>1, <1>4, <2>1, FinalizeExtends
  <2> QED BY <2>2, <2>3
<1> HIDE DEF r
<1>6. Extends(f, r, (Kerns(D) \union {c}) \union {}, ({c} \union {k}) \union {})
  <2>1. Extends(f, b, Kerns(D) \union {c}, {c} \union {k})
    BY <1>3, <1>4, ExtendsTwice
  <2> QED BY <2>1, <1>5, ExtendsTwice
<1>7. Extends(f, r, Kerns(D) \union {c}, {c, k})
  <2>1. (Kerns(D) \union {c}) \union {} = Kerns(D) \union {c} /\ ({c} \union {k}) \union {} = {c, k}
    OBVIOUS
  <2> QED BY <1>6, <2>1
<1>8. k \in r.nexts[c]
  BY <1>2, <1>3, <1>4, <1>5
<1>9. ASSUME NEW d \in D PROVE f.at[Kern(d)] = "done" \/ c \in r.nexts[Kern(d)]
  <2>1. Kern(d) \in Kerns(D) /\ Kern(d) \in Node
    BY <1>1 DEF Kerns
  <2>2. a.nexts[Kern(d)] \subseteq b.nexts[Kern(d)]
    BY <1>4, <2>1 DEF Extends
  <2> QED BY <1>3, <1>5, <2>1, <2>2
<1>10. r = CommitCopy(f, g, D, i)
  BY DEF r, b, a, c, k, CommitCopy
<1> QED BY <1>5, <1>7, <1>8, <1>9, <1>10 DEF c, k

LEMMA CommitCopyAt ==
  ASSUME NEW f, NEW F, Ok(f, F), NEW g \in Group, NEW i \in 1 .. MaxParams, NEW D \in SUBSET Group,
         Copy(g, i) \notin F, Kern(g) \notin F
  PROVE  \A m \in Node \ {Copy(g, i)} : CommitCopy(f, g, D, i).at[m] = f.at[m]
<1> DEFINE c == Copy(g, i)
           a == RunsAfter(f, c, Kerns(D))
           b == RunsAfter(a, Kern(g), {c})
<1>1. c \in Node /\ Kern(g) \in Node /\ Kerns(D) \in SUBSET Node /\ {c} \in SUBSET Node
  BY Nodes DEF Kerns
<1>2. a.at = f.at /\ a \in Fine
  <2>1. f \in Fine
    BY DEF Ok
  <2>2. a.at = f.at
    BY <1>1, <2>1, RunsAfterAt
  <2>3. a \in Fine
    BY <1>1, <2>1, RunsAfterIs
  <2> QED BY <2>2, <2>3
<1> HIDE DEF a
<1>3. b.at = a.at /\ b \in Fine
  <2>2. b.at = a.at
    BY <1>1, <1>2, RunsAfterAt
  <2>3. b \in Fine
    BY <1>1, <1>2, RunsAfterIs
  <2> QED BY <2>2, <2>3
<1> HIDE DEF b
<1>4. \A m \in Node \ {c} : Notify(b, {c}).at[m] = b.at[m]
  BY <1>1, <1>3, FinalizeAt
<1>5. CommitCopy(f, g, D, i) = Notify(b, {c})
  BY DEF CommitCopy, a, b
<1> QED BY <1>2, <1>3, <1>4, <1>5

(* Neither run_op for an operation nor the end of an empty host accessor   *)
(* touches an edge.                                                        *)
LEMMA RunningOk ==
  ASSUME NEW f, NEW F, Ok(f, F), NEW n \in Node, f.at[n] = "queued"
  PROVE  LET r == [f EXCEPT !.at[n] = "running"]
         IN  /\ Ok(r, F) /\ Extends(f, r, {}, {}) /\ r.at[n] = "running"
             /\ \A m \in Node \ {n} : r.at[m] = f.at[m]
<1> DEFINE r == [f EXCEPT !.at[n] = "running"]
<1>1. f \in Fine
  BY DEF Ok
<1>2. /\ r \in Fine /\ r.nexts = f.nexts /\ r.n_wait = f.n_wait /\ r.n_wake = f.n_wake
      /\ r.at = [f.at EXCEPT ![n] = "running"] /\ f.at \in [Node -> Place]
  BY <1>1 DEF Fine, Place
<1> HIDE DEF r
<1>3. r.at[n] = "running" /\ \A m \in Node \ {n} : r.at[m] = f.at[m]
  BY <1>2
<1>4. DoneOf(r) = DoneOf(f) /\ \A m \in Node : In(r, m) = In(f, m)
  BY <1>2, <1>3 DEF DoneOf, In
<1>5. \A m \in Node : r.at[m] # "new" <=> f.at[m] # "new"
  BY <1>3
<1>6. Ok(r, F)
  BY <1>2, <1>4, <1>5 DEF Ok
<1>7. Extends(f, r, {}, {})
  BY <1>2, <1>3, <1>4 DEF Extends
<1> QED BY <1>3, <1>6, <1>7 DEF r

LEMMA EmptyOk ==
  ASSUME NEW f, NEW F, Ok(f, F), NEW n \in Node, n \notin F, In(f, n) = {}, f.nexts[n] = {}
  PROVE  LET r == Complete([f EXCEPT !.n_wake[n] = 1], n)
         IN  /\ Ok(r, F \union {n}) /\ Extends(f, r, {}, {}) /\ r.at[n] = "done"
             /\ \A m \in Node \ {n} : r.at[m] = f.at[m]
<1> DEFINE w == [f EXCEPT !.n_wake[n] = 1]
           d == [w EXCEPT !.at[n] = "done"]
           r == Complete(w, n)
<1>1. f \in Fine /\ f.at[n] = "new"
  BY DEF Ok
<1>2. /\ d \in Fine /\ d.nexts = f.nexts /\ d.n_wait = f.n_wait
      /\ d.n_wake = [f.n_wake EXCEPT ![n] = 1] /\ d.at = [f.at EXCEPT ![n] = "done"]
      /\ w.nexts = f.nexts
  BY <1>1 DEF Fine, Place
<1>3. r = Notify(d, {})
  BY <1>2 DEF Complete
<1> HIDE DEF r, d, w
<1>4. /\ r \in Fine /\ r.nexts = d.nexts /\ r.n_wait = d.n_wait
      /\ \A m \in Node : r.n_wake[m] = d.n_wake[m] /\ r.at[m] = d.at[m]
  <2>1. {} \in SUBSET Node /\ Node \ {} = Node
    OBVIOUS
  <2> DEFINE q == Notify(d, {})
  <2>2. /\ q \in Fine /\ q.nexts = d.nexts /\ q.n_wait = d.n_wait
        /\ \A m \in Node \ {} : q.n_wake[m] = d.n_wake[m] /\ q.at[m] = d.at[m]
    BY <1>2, <2>1, NotifyIs
  <2> QED BY <1>3, <2>1, <2>2
<1>5. f.at \in [Node -> Place] /\ f.n_wake \in [Node -> Nat]
  BY <1>1 DEF Fine
<1>6. /\ r.at[n] = "done" /\ r.n_wake[n] = 1
      /\ \A m \in Node \ {n} : r.at[m] = f.at[m] /\ r.n_wake[m] = f.n_wake[m]
  BY <1>2, <1>4, <1>5
<1>7. \A m \in Node : In(r, m) = In(f, m) /\ n \notin In(f, m)
  BY <1>2, <1>4 DEF In
<1>8. DoneOf(r) = DoneOf(f) \union {n}
  BY <1>6 DEF DoneOf
<1>9. \A m \in Node : /\ In(r, m) \intersect DoneOf(r) = In(f, m) \intersect DoneOf(f)
                      /\ In(r, m) \subseteq DoneOf(r) <=> In(f, m) \subseteq DoneOf(f)
  BY <1>7, <1>8
<1>10. ASSUME NEW m \in Node, m # n
       PROVE  /\ r.n_wait[m] = Cardinality(In(r, m)) + 1
              /\ r.n_wake[m] = Cardinality(In(r, m) \intersect DoneOf(r))
                                 + (IF m \in F \union {n} THEN 1 ELSE 0)
              /\ r.at[m] # "new" <=> m \in F \union {n} /\ In(r, m) \subseteq DoneOf(r)
  BY <1>2, <1>4, <1>6, <1>7, <1>9, <1>10 DEF Ok
<1>11. /\ r.n_wait[n] = Cardinality(In(r, n)) + 1
       /\ r.n_wake[n] = Cardinality(In(r, n) \intersect DoneOf(r)) + 1
       /\ r.at[n] # "new" <=> In(r, n) \subseteq DoneOf(r)
  <2>1. In(r, n) = {} /\ In(r, n) \intersect DoneOf(r) = {}
    BY <1>7
  <2>2. Cardinality({}) = 0
    BY FS_EmptySet
  <2>3. f.n_wait[n] = 0 + 1
    BY <2>2 DEF Ok
  <2> QED BY <1>2, <1>4, <1>6, <2>1, <2>2, <2>3
<1>12. Ok(r, F \union {n})
  BY <1>4, <1>10, <1>11 DEF Ok
<1>13. Extends(f, r, {}, {})
  BY <1>1, <1>2, <1>4, <1>6, <1>7 DEF Extends
<1> QED BY <1>6, <1>12, <1>13 DEF r, w
-----------------------------------------------------------------------------
LEMMA ExtendsMore ==
  ASSUME NEW f, NEW r, NEW S, NEW T, Extends(f, r, S, T), NEW S2, NEW T2,
         S \subseteq S2, T \subseteq T2
  PROVE  Extends(f, r, S2, T2)
  BY DEF Extends

(* What the parameter i of g that waits for others is made of.             *)
Made(g, i, copies) == IF copies THEN {Copy(g, i)} ELSE {}
Waiter(g, i, copies) == IF copies THEN Copy(g, i) ELSE Kern(g)

(* set_buffer_param: commit, with an operation or without.                 *)
LEMMA BindAt ==
  ASSUME NEW f, NEW F, Ok(f, F), NEW g \in Group, NEW i \in 1 .. MaxParams, NEW D \in SUBSET Group,
         Copy(g, i) \notin F, Kern(g) \notin F, NEW copies \in BOOLEAN,
         NEW r, r = IF copies THEN CommitCopy(f, g, D, i) ELSE Commit(f, g, D)
  PROVE  \A m \in Node \ Made(g, i, copies) : r.at[m] = f.at[m]
<1>1. CASE copies
  <2>1. r = CommitCopy(f, g, D, i) /\ Made(g, i, copies) = {Copy(g, i)}
    BY <1>1 DEF Made
  <2> QED BY <2>1, CommitCopyAt
<1>2. CASE ~copies
  <2>1. r = RunsAfter(f, Kern(g), Kerns(D)) /\ Kern(g) \in Node /\ Kerns(D) \in SUBSET Node
    BY <1>2, Nodes DEF Commit, Kerns
  <2>2. f \in Fine
    BY DEF Ok
  <2>3. r.at = f.at
    BY <2>1, <2>2, RunsAfterAt
  <2> QED BY <2>3
<1> QED BY <1>1, <1>2

LEMMA BindOk ==
  ASSUME NEW f, NEW F, Ok(f, F), NEW g \in Group, NEW i \in 1 .. MaxParams, NEW D \in SUBSET Group,
         Copy(g, i) \notin F, Kern(g) \notin F, NEW copies \in BOOLEAN,
         NEW r, r = IF copies THEN CommitCopy(f, g, D, i) ELSE Commit(f, g, D)
  PROVE  /\ Ok(r, F \union Made(g, i, copies))
         /\ Extends(f, r, Kerns(D) \union Made(g, i, copies), {Kern(g)} \union Made(g, i, copies))
         /\ copies => Kern(g) \in r.nexts[Copy(g, i)]
         /\ \A d \in D : f.at[Kern(d)] = "done" \/ Waiter(g, i, copies) \in r.nexts[Kern(d)]
<1> DEFINE c == Copy(g, i)
           k == Kern(g)
           x == CommitCopy(f, g, D, i)
           y == Commit(f, g, D)
<1>1. CASE copies
  <2>1. /\ Ok(x, F \union {c}) /\ Extends(f, x, Kerns(D) \union {c}, {c, k})
        /\ k \in x.nexts[c]
        /\ \A d \in D : f.at[Kern(d)] = "done" \/ c \in x.nexts[Kern(d)]
    <3>1. Ok(x, F \union {c})
      BY CommitCopyOk
    <3>2. Extends(f, x, Kerns(D) \union {c}, {c, k})
      BY CommitCopyOk
    <3>3. k \in x.nexts[c]
      BY CommitCopyOk
    <3>4. \A d \in D : f.at[Kern(d)] = "done" \/ c \in x.nexts[Kern(d)]
      BY CommitCopyOk
    <3> QED BY <3>1, <3>2, <3>3, <3>4
  <2>2. {c, k} = {k} \union {c}
    OBVIOUS
  <2>3. r = x /\ Made(g, i, copies) = {c} /\ Waiter(g, i, copies) = c
    BY <1>1 DEF Made, Waiter
  <2> HIDE DEF x, c, k
  <2> QED BY <1>1, <2>1, <2>2, <2>3 DEF c, k
<1>2. CASE ~copies
  <2>1. k \in Node /\ Kerns(D) \in SUBSET Node
    BY Nodes DEF Kerns
  <2>2. y = RunsAfter(f, k, Kerns(D))
    BY DEF Commit
  <2> HIDE DEF x, y
  <2>4. /\ Ok(y, F)
        /\ Extends(f, y, Kerns(D), {k})
        /\ \A d \in Kerns(D) : f.at[d] = "done" \/ k \in y.nexts[d]
    <3>1. Ok(y, F)
      BY <2>1, <2>2, RunsAfterOk
    <3>2. /\ Extends(f, y, Kerns(D), {k})
          /\ \A d \in Kerns(D) : f.at[d] = "done" \/ k \in y.nexts[d]
      BY <2>1, <2>2, RunsAfterExtends
    <3> QED BY <3>1, <3>2
  <2>5. \A d \in D : f.at[Kern(d)] = "done" \/ k \in y.nexts[Kern(d)]
    BY <2>4 DEF Kerns
  <2>6. F \union {} = F /\ Kerns(D) \union {} = Kerns(D) /\ {k} \union {} = {k}
    OBVIOUS
  <2>7. r = y /\ Made(g, i, copies) = {} /\ Waiter(g, i, copies) = k
    BY <1>2 DEF Made, Waiter, y
  <2> HIDE DEF k
  <2> QED BY <1>2, <2>4, <2>5, <2>6, <2>7 DEF k
<1> QED BY <1>1, <1>2

(* submit and wait: the last dependencies, then finalize.                  *)
LEMMA EndOk ==
  ASSUME NEW f, NEW F, Ok(f, F), NEW n \in Node, n \notin F, NEW D \in SUBSET Group
  PROVE  LET r == Notify(RunsAfter(f, n, Kerns(D)), {n})
         IN  /\ Ok(r, F \union {n})
             /\ Extends(f, r, Kerns(D), {n})
             /\ \A d \in D : f.at[Kern(d)] = "done" \/ n \in r.nexts[Kern(d)]
<1> DEFINE a == RunsAfter(f, n, Kerns(D))
           r == Notify(a, {n})
<1>1. Kerns(D) \in SUBSET Node
  BY Nodes DEF Kerns
<1>3. Ok(a, F)
  BY <1>1, RunsAfterOk
<1>31. a \in Fine
  BY <1>3 DEF Ok
<1>4. Extends(f, a, Kerns(D), {n}) /\ \A d \in Kerns(D) : f.at[d] = "done" \/ n \in a.nexts[d]
  BY <1>1, RunsAfterExtends
<1> HIDE DEF a
<1>5. Ok(r, F \union {n}) /\ r.nexts = a.nexts
  <2>1. Ok(r, F \union {n})
    BY <1>3, FinalizeOk
  <2>2. r.nexts = a.nexts
    BY <1>31, FinalizeNexts
  <2> QED BY <2>1, <2>2
<1>7. Extends(a, r, {}, {})
  BY <1>3, FinalizeExtends
<1> HIDE DEF r
<1>8. Extends(f, r, Kerns(D) \union {}, {n} \union {})
  BY <1>4, <1>7, ExtendsTwice
<1>9. Kerns(D) \union {} = Kerns(D) /\ {n} \union {} = {n}
  OBVIOUS
<1>10. Extends(f, r, Kerns(D), {n})
  BY <1>8, <1>9
<1>11. \A d \in D : f.at[Kern(d)] = "done" \/ n \in r.nexts[Kern(d)]
  BY <1>4, <1>5 DEF Kerns
<1> QED BY <1>5, <1>10, <1>11 DEF r, a

LEMMA EndAt ==
  ASSUME NEW f, NEW F, Ok(f, F), NEW n \in Node, n \notin F, NEW D \in SUBSET Group
  PROVE  \A m \in Node \ {n} : Notify(RunsAfter(f, n, Kerns(D)), {n}).at[m] = f.at[m]
<1> DEFINE a == RunsAfter(f, n, Kerns(D))
<1>1. Kerns(D) \in SUBSET Node
  BY Nodes DEF Kerns
<1>2. a.at = f.at /\ a \in Fine
  <2>1. f \in Fine
    BY DEF Ok
  <2>2. a.at = f.at
    BY <1>1, <2>1, RunsAfterAt
  <2>3. a \in Fine
    BY <1>1, <2>1, RunsAfterIs
  <2> QED BY <2>2, <2>3
<1> HIDE DEF a
<1>3. \A m \in Node \ {n} : Notify(a, {n}).at[m] = a.at[m]
  BY <1>2, FinalizeAt
<1> QED BY <1>2, <1>3 DEF a
-----------------------------------------------------------------------------
LEMMA ReadyIs ==
  /\ \A g \in Group : /\ Kern(g) \in Ready <=> phase[g] = "submitted"
                      /\ Kern(g) \in Ready' <=> phase'[g] = "submitted"
  /\ \A b \in Barrier : /\ Sync(b) \in Ready <=> waited[b] # {}
                        /\ Sync(b) \in Ready' <=> waited'[b] # {}
  /\ \A g \in Group, i \in 1 .. MaxParams :
       /\ Copy(g, i) \in Ready <=> fine.n_wake[Copy(g, i)] > 0
       /\ Copy(g, i) \in Ready' <=> fine'.n_wake[Copy(g, i)] > 0
<1>1. ASSUME NEW g \in Group PROVE /\ Kern(g) \in Ready <=> phase[g] = "submitted"
                                   /\ Kern(g) \in Ready' <=> phase'[g] = "submitted"
  BY <1>1, Nodes DEF Ready, Finalized
<1>2. ASSUME NEW b \in Barrier PROVE /\ Sync(b) \in Ready <=> waited[b] # {}
                                     /\ Sync(b) \in Ready' <=> waited'[b] # {}
  BY <1>2, Nodes DEF Ready, Finalized
<1>3. ASSUME NEW g \in Group, NEW i \in 1 .. MaxParams
      PROVE  /\ Copy(g, i) \in Ready <=> fine.n_wake[Copy(g, i)] > 0
             /\ Copy(g, i) \in Ready' <=> fine'.n_wake[Copy(g, i)] > 0
  BY <1>3, Nodes DEF Ready, Finalized
<1> QED BY <1>1, <1>2, <1>3

(* A step that finalizes N and adds edges from the groups in D to T.       *)
Makes(N, T, D) ==
  /\ N \subseteq Node /\ T \subseteq Node /\ D \subseteq Group
  /\ \A d \in D : kernel[d]
  /\ Ok(fine', Ready \union N)
  /\ Extends(fine, fine', Kerns(D) \union N, T \union N)
  /\ \A h \in Group : phase'[h] = "submitted" <=> phase[h] = "submitted" \/ Kern(h) \in N
  /\ \A b \in Barrier : waited'[b] # {} <=> waited[b] # {} \/ Sync(b) \in N
  /\ \A h \in Group, i \in 1 .. MaxParams :
       Copy(h, i) \in T \union N => Copy(h, i) \in N /\ Kern(h) \in fine'.nexts[Copy(h, i)]
  /\ \A h \in Group : ~kernel'[h] => /\ ~kernel[h] /\ Kern(h) \notin N
                                     /\ Kern(h) \in T => D = {} /\ N = {}

LEMMA Keeps ==
  ASSUME FineInv, CopyEdges, Unused, NEW N, NEW T, NEW D, Makes(N, T, D)
  PROVE  /\ FineInv' /\ CopyEdges' /\ Unused'
         /\ Ready' = Ready \union N
         /\ \A g \in Group, i \in 1 .. MaxParams :
              fine'.n_wake[Copy(g, i)] = 0 <=> fine.n_wake[Copy(g, i)] = 0 /\ Copy(g, i) \notin N
<1>1. /\ Ok(fine, Ready) /\ fine \in Fine
      /\ Ok(fine', Ready \union N) /\ fine' \in Fine
      /\ Extends(fine, fine', Kerns(D) \union N, T \union N)
  BY DEF FineInv, Makes, Ok
<1>2. \A n \in Node : fine.n_wake[n] \in Nat /\ fine'.n_wake[n] \in Nat
  BY <1>1 DEF Fine
<1>3. ASSUME NEW g \in Group, NEW i \in 1 .. MaxParams
      PROVE  /\ fine'.n_wake[Copy(g, i)] > 0 <=> Copy(g, i) \in Ready \union N
             /\ fine'.n_wake[Copy(g, i)] = 0 <=> fine.n_wake[Copy(g, i)] = 0 /\ Copy(g, i) \notin N
             /\ IF fine'.n_wake[Copy(g, i)] = 0
                  THEN In(fine', Copy(g, i)) = {}
                  ELSE Kern(g) \in fine'.nexts[Copy(g, i)]
  <2> DEFINE c == Copy(g, i)
  <2>1. c \in Node /\ (c \in Ready <=> fine.n_wake[c] > 0)
    BY Nodes, ReadyIs
  <2>2. c \in T \union N => c \in N /\ Kern(g) \in fine'.nexts[c]
    BY DEF Makes
  <2>3. fine'.n_wake[c] = Cardinality(In(fine', c) \intersect DoneOf(fine'))
                            + (IF c \in Ready \union N THEN 1 ELSE 0)
    BY <1>1, <2>1 DEF Ok
  <2>4. Cardinality(In(fine', c) \intersect DoneOf(fine')) \in Nat
    BY Meets, InFinite
  <2>5. IF fine.n_wake[c] = 0 THEN In(fine, c) = {} ELSE Kern(g) \in fine.nexts[c]
    BY DEF CopyEdges
  <2> HIDE DEF c
  <2>6. CASE c \in Ready \union N
    <3>1. fine'.n_wake[c] > 0
      BY <2>3, <2>4, <2>6
    <3>2. Kern(g) \in fine'.nexts[c]
      BY <1>1, <1>2, <2>1, <2>2, <2>5, <2>6 DEF Extends
    <3> QED BY <1>2, <2>1, <2>6, <3>1, <3>2 DEF c
  <2>7. CASE c \notin Ready \union N
    <3>1. fine.n_wake[c] = 0 /\ In(fine, c) = {}
      BY <1>2, <2>1, <2>5, <2>7
    <3>2. In(fine', c) = {}
      BY <1>1, <2>1, <2>2, <2>7, <3>1 DEF Extends
    <3>3. In(fine', c) \intersect DoneOf(fine') = {}
      BY <3>2
    <3>4. fine'.n_wake[c] = 0
      BY <2>3, <2>7, <3>3, FS_EmptySet
    <3> QED BY <2>7, <3>1, <3>2, <3>4 DEF c
  <2> QED BY <2>6, <2>7
<1>4. Ready' = Ready \union N
  <2>1. ASSUME NEW n \in Node PROVE n \in Ready' <=> n \in Ready \union N
    <3>1. CASE \E g \in Group : n = Kern(g)
      BY <3>1, ReadyIs DEF Makes
    <3>2. CASE \E g \in Group, i \in 1 .. MaxParams : n = Copy(g, i)
      BY <1>3, <3>2, ReadyIs
    <3>3. CASE \E b \in Barrier : n = Sync(b)
      BY <3>3, ReadyIs DEF Makes
    <3> QED BY <3>1, <3>2, <3>3, NodeCases
  <2>2. Ready \subseteq Node /\ Ready' \subseteq Node /\ N \subseteq Node
    BY DEF Ready, Makes
  <2> QED BY <2>1, <2>2
<1>5. FineInv'
  BY <1>1, <1>4 DEF FineInv
<1>6. CopyEdges'
  BY <1>3 DEF CopyEdges
<1>7. ASSUME NEW g \in Group, ~kernel'[g]
      PROVE  In(fine', Kern(g)) = {} /\ fine'.nexts[Kern(g)] = {}
  <2>1. /\ ~kernel[g] /\ Kern(g) \notin N /\ (Kern(g) \in T => D = {} /\ N = {})
        /\ Kern(g) \in Node
    BY <1>7, Nodes DEF Makes
  <2>2. In(fine, Kern(g)) = {} /\ fine.nexts[Kern(g)] = {}
    BY <2>1 DEF Unused
  <2>3. Kern(g) \notin Kerns(D)
    BY <2>1, Nodes DEF Kerns, Makes
  <2>4. fine'.nexts[Kern(g)] = {}
    BY <1>1, <2>1, <2>2, <2>3 DEF Extends
  <2>5. CASE Kern(g) \notin T
    BY <1>1, <2>1, <2>2, <2>4, <2>5 DEF Extends
  <2>6. CASE D = {} /\ N = {}
    <3>1. \A m \in Node : fine'.nexts[m] = fine.nexts[m]
      BY <1>1, <2>6 DEF Extends, Kerns
    <3> QED BY <2>2, <2>4, <3>1 DEF In
  <2> QED BY <2>1, <2>5, <2>6
<1> QED BY <1>3, <1>4, <1>5, <1>6, <1>7 DEF Unused

LEMMA AfterStays ==
  ASSUME NEW S, NEW T, Extends(fine, fine', S, T), NEW n, NEW p \in Group, After(n, p)
  PROVE  After(n, p)'
  BY Nodes DEF Extends, After, Done
-----------------------------------------------------------------------------
(* What the steps do to the fine tasks.                                    *)
LEMMA QuietMakes ==
  ASSUME FineInv, UNCHANGED <<fine, waited>>,
         \A h \in Group : (phase'[h] = "submitted" <=> phase[h] = "submitted") /\ (kernel[h] => kernel'[h])
  PROVE  Makes({}, {}, {})
<1>1. Ok(fine', Ready \union {})
  <2>1. Ready \union {} = Ready
    OBVIOUS
  <2> QED BY <2>1 DEF FineInv
<1>2. Extends(fine, fine', Kerns({}) \union {}, {} \union {})
  BY DEF Extends, In
<1> QED BY <1>1, <1>2 DEF Makes

Grows(g, D, N) == \A h \in Group : ~kernel'[h] => ~kernel[h] /\ (h = g => D = {} /\ N = {})

LEMMA BindMakes ==
  ASSUME NEW g \in Group, NEW N, NEW D, NEW I \in SUBSET (1 .. MaxParams),
         N = {Copy(g, i) : i \in I}, D \subseteq {d \in Group : kernel[d]},
         Ok(fine', Ready \union N),
         Extends(fine, fine', Kerns(D) \union N, {Kern(g)} \union N),
         \A i \in I : Kern(g) \in fine'.nexts[Copy(g, i)],
         UNCHANGED <<phase, waited>>, Grows(g, D, N)
  PROVE  Makes(N, {Kern(g)}, D)
<1>1. /\ N \subseteq Node /\ {Kern(g)} \subseteq Node
      /\ \A h \in Group : Kern(h) \notin N
      /\ \A b \in Barrier : Sync(b) \notin N
  BY Nodes
<1>2. \A h \in Group, i \in 1 .. MaxParams :
        Copy(h, i) \in {Kern(g)} \union N => Copy(h, i) \in N /\ Kern(h) \in fine'.nexts[Copy(h, i)]
  BY Nodes
<1>3. \A h \in Group : Kern(h) \in {Kern(g)} => h = g
  BY Nodes
<1> QED BY <1>1, <1>2, <1>3 DEF Makes, Grows

(* What set_buffer_param for buffer i, which must wait for P, does.        *)
BindsTo(g, P, copies, i) ==
  /\ i = params[g] + 1
  /\ Makes(Made(g, i, copies), {Kern(g)}, Locked(P))
  /\ \A p \in Locked(P) : After(Waiter(g, i, copies), p)'
  /\ \A m \in Node \ Made(g, i, copies) : fine'.at[m] = fine.at[m]
  /\ needs' = [needs EXCEPT ![Kern(g)] = @ \union P,
                            ![Copy(g, i)] = IF copies THEN P ELSE {}]
  /\ params' = [params EXCEPT ![g] = i]
  /\ \A h \in Group \ {g} : kernel'[h] = kernel[h]

LEMMA SetBufferParamMakes ==
  ASSUME TypeOK, FineInv, CopyInv, NEW u \in User, NEW g \in Group, SetBufferParam(u, g)
  PROVE  \E P \in SUBSET Pending, copies \in BOOLEAN, i \in 1 .. MaxParams : BindsTo(g, P, copies, i)
<1>1. /\ phase[g] = "building" /\ UNCHANGED <<phase, waited>>
      /\ params[g] < MaxParams /\ params[g] \in 0 .. MaxParams
  BY CoarseAssumption DEF SetBufferParam, Building, TypeOK
<1>2. PICK i \in 1 .. MaxParams : i = params[g] + 1 /\ i > params[g]
  BY <1>1, CoarseAssumption
<1>3. PICK P \in SUBSET Pending, copies \in MayCopy, leftover \in Leftover :
        /\ fine' = IF copies THEN CommitCopy(fine, g, Locked(P), i) ELSE Commit(fine, g, Locked(P))
        /\ kernel' = [kernel EXCEPT ![g] = @ \/ copies \/ Locked(P) # {} \/ leftover]
        /\ needs' = [needs EXCEPT ![Kern(g)] = @ \union P,
                                  ![Copy(g, i)] = IF copies THEN P ELSE {}]
        /\ params' = [params EXCEPT ![g] = i]
  BY <1>2 DEF SetBufferParam
<1>4. copies \in BOOLEAN /\ leftover \in BOOLEAN
  BY <1>3 DEF MayCopy, Leftover
<1>5. PICK D \in SUBSET Group : D = Locked(P) /\ D \subseteq {d \in Group : kernel[d]}
  BY <1>3 DEF Locked, Pending
<1>6. Copy(g, i) \notin Ready /\ Kern(g) \notin Ready /\ Ok(fine, Ready)
  BY <1>1, <1>2, ReadyIs DEF CopyInv, FineInv
<1>7. PICK N : N = Made(g, i, copies)
  OBVIOUS
<1>8. fine' = IF copies THEN CommitCopy(fine, g, D, i) ELSE Commit(fine, g, D)
  BY <1>3, <1>5
<1>9. /\ Ok(fine', Ready \union N)
      /\ Extends(fine, fine', Kerns(D) \union N, {Kern(g)} \union N)
      /\ copies => Kern(g) \in fine'.nexts[Copy(g, i)]
      /\ \A d \in D : fine.at[Kern(d)] = "done" \/ Waiter(g, i, copies) \in fine'.nexts[Kern(d)]
  BY <1>4, <1>6, <1>7, <1>8, BindOk
<1>10. \A m \in Node \ N : fine'.at[m] = fine.at[m]
  BY <1>4, <1>6, <1>7, <1>8, BindAt
<1>11. Grows(g, D, N)
  BY <1>3, <1>4, <1>5, <1>7 DEF Grows, Made, TypeOK
<1>12. Makes(N, {Kern(g)}, D)
  <2>1. PICK J \in SUBSET (1 .. MaxParams) : J = IF copies THEN {i} ELSE {}
    OBVIOUS
  <2>2. N = {Copy(g, j) : j \in J} /\ \A j \in J : Kern(g) \in fine'.nexts[Copy(g, j)]
    BY <1>4, <1>7, <1>9, <2>1 DEF Made
  <2> QED BY <1>1, <1>5, <1>9, <1>11, <2>2, BindMakes
<1>13. ASSUME NEW p \in D PROVE After(Waiter(g, i, copies), p)'
  <2>1. ~Done(p) /\ p \in Group
    BY <1>3, <1>5, <1>13 DEF Locked, Pending
  <2> QED BY <1>9, <2>1 DEF After, Done, Waiter, Copy, Kern
<1>14. \A h \in Group \ {g} : kernel'[h] = kernel[h]
  BY <1>3 DEF TypeOK
<1> QED BY <1>2, <1>3, <1>4, <1>5, <1>7, <1>10, <1>12, <1>13, <1>14 DEF BindsTo

(* What CopyBuffer does; N are the copies that it makes.                   *)
BindsBoth(g, P, Q, dst, src, N) ==
  /\ N = Made(g, 1, dst) \union Made(g, 2, src)
  /\ Makes(N, {Kern(g)}, Locked(P \union Q))
  /\ \A p \in Locked(P \union Q) : After(Waiter(g, 1, dst), p)'
  /\ \A m \in Node \ N : fine'.at[m] = fine.at[m]
  /\ needs' = [needs EXCEPT ![Kern(g)] = P \union Q,
                            ![Copy(g, 1)] = IF dst THEN P ELSE {},
                            ![Copy(g, 2)] = IF src THEN Q ELSE {}]
  /\ params' = [params EXCEPT ![g] = 2]

LEMMA CopyBufferMakes ==
  ASSUME TypeOK, FineInv, CopyInv, NEW u \in User, NEW g \in Group, CopyBuffer(u, g)
  PROVE  \E P, Q \in SUBSET Pending, dst, src \in BOOLEAN, N \in SUBSET Node :
           BindsBoth(g, P, Q, dst, src, N)
<1>1. /\ phase[g] = "building" /\ params[g] = 0 /\ UNCHANGED <<phase, waited>>
      /\ kernel' = [kernel EXCEPT ![g] = TRUE]
      /\ 1 \in 1 .. MaxParams /\ 2 \in 1 .. MaxParams
  BY CoarseAssumption DEF CopyBuffer, Building
<1>2. /\ params' = [params EXCEPT ![g] = 2]
      /\ \E P, Q \in SUBSET Pending, dst, src \in MayCopy :
           LET D == Locked(P \union Q)
               f == IF dst THEN CommitCopy(fine, g, D, 1) ELSE Commit(fine, g, D)
           IN  /\ fine' = IF src THEN CommitCopy(f, g, {}, 2) ELSE f
               /\ needs' = [needs EXCEPT ![Kern(g)] = P \union Q,
                                         ![Copy(g, 1)] = IF dst THEN P ELSE {},
                                         ![Copy(g, 2)] = IF src THEN Q ELSE {}]
  BY Zenon DEF CopyBuffer
<1>21. PICK P \in SUBSET Pending, Q \in SUBSET Pending, dst \in MayCopy, src \in MayCopy :
         /\ fine' = LET f == IF dst THEN CommitCopy(fine, g, Locked(P \union Q), 1)
                                    ELSE Commit(fine, g, Locked(P \union Q))
                    IN  IF src THEN CommitCopy(f, g, {}, 2) ELSE f
         /\ needs' = [needs EXCEPT ![Kern(g)] = P \union Q,
                                   ![Copy(g, 1)] = IF dst THEN P ELSE {},
                                   ![Copy(g, 2)] = IF src THEN Q ELSE {}]
  BY <1>2, Zenon
<1>3. dst \in BOOLEAN /\ src \in BOOLEAN
  BY <1>21 DEF MayCopy
<1>4. PICK D \in SUBSET Group : D = Locked(P \union Q) /\ D \subseteq {d \in Group : kernel[d]}
  BY <1>21 DEF Locked, Pending
<1>5. /\ Copy(g, 1) \notin Ready /\ Copy(g, 2) \notin Ready /\ Kern(g) \notin Ready
      /\ Ok(fine, Ready) /\ Copy(g, 1) # Copy(g, 2) /\ Kern(g) # Copy(g, 1)
  BY <1>1, ReadyIs, Nodes DEF CopyInv, FineInv
<1>6. PICK f : f = IF dst THEN CommitCopy(fine, g, D, 1) ELSE Commit(fine, g, D)
  OBVIOUS
<1>7. fine' = IF src THEN CommitCopy(f, g, {}, 2) ELSE f
  BY <1>21, <1>4, <1>6
<1>8. PICK N1, N2, N : N1 = Made(g, 1, dst) /\ N2 = Made(g, 2, src) /\ N = N1 \union N2
  OBVIOUS
<1>9. /\ Ok(f, Ready \union N1)
      /\ Extends(fine, f, Kerns(D) \union N1, {Kern(g)} \union N1)
      /\ dst => Kern(g) \in f.nexts[Copy(g, 1)]
      /\ \A d \in D : fine.at[Kern(d)] = "done" \/ Waiter(g, 1, dst) \in f.nexts[Kern(d)]
  BY <1>1, <1>3, <1>5, <1>6, <1>8, BindOk
<1>10. \A m \in Node \ N1 : f.at[m] = fine.at[m]
  BY <1>1, <1>3, <1>5, <1>6, <1>8, BindAt
<1>11. /\ Ok(fine', (Ready \union N1) \union N2)
       /\ Extends(f, fine', Kerns({}) \union N2, {Kern(g)} \union N2)
       /\ src => Kern(g) \in fine'.nexts[Copy(g, 2)]
       /\ \A m \in Node \ N2 : fine'.at[m] = f.at[m]
  <2>1. CASE src
    <3>1. fine' = (IF TRUE THEN CommitCopy(f, g, {}, 2) ELSE Commit(f, g, {})) /\ {} \in SUBSET Group
      BY <1>7, <2>1
    <3>2. Made(g, 2, TRUE) = N2 /\ TRUE \in BOOLEAN
      BY <1>3, <1>8, <2>1 DEF Made
    <3>3. Copy(g, 2) \notin Ready \union N1 /\ Kern(g) \notin Ready \union N1
      BY <1>5, <1>8 DEF Made
    <3>4. /\ Ok(fine', (Ready \union N1) \union Made(g, 2, TRUE))
          /\ Extends(f, fine', Kerns({}) \union Made(g, 2, TRUE), {Kern(g)} \union Made(g, 2, TRUE))
          /\ TRUE => Kern(g) \in fine'.nexts[Copy(g, 2)]
      BY <1>1, <1>9, <3>1, <3>2, <3>3, BindOk
    <3>5. \A m \in Node \ N2 : fine'.at[m] = f.at[m]
      <4>1. fine' = CommitCopy(f, g, {}, 2) /\ N2 = {Copy(g, 2)}
        BY <3>1, <3>2 DEF Made
      <4> QED BY <1>1, <1>9, <3>1, <3>3, <4>1, CommitCopyAt
    <3> QED BY <3>2, <3>4, <3>5
  <2>2. CASE ~src
    <3>1. fine' = f /\ N2 = {}
      BY <1>7, <1>8, <2>2 DEF Made
    <3>2. Extends(f, f, Kerns({}) \union {}, {Kern(g)} \union {})
      BY DEF Extends
    <3>3. (Ready \union N1) \union {} = Ready \union N1
      OBVIOUS
    <3> QED BY <1>9, <2>2, <3>1, <3>2, <3>3
  <2> QED BY <2>1, <2>2
<1>12. Ok(fine', Ready \union N)
  <2>1. (Ready \union N1) \union N2 = Ready \union N
    BY <1>8
  <2> QED BY <1>11, <2>1
<1>13. Extends(fine, fine', Kerns(D) \union N, {Kern(g)} \union N)
  <2>1. Extends(fine, fine', (Kerns(D) \union N1) \union (Kerns({}) \union N2),
                             ({Kern(g)} \union N1) \union ({Kern(g)} \union N2))
    BY <1>9, <1>11, ExtendsTwice
  <2>2. /\ (Kerns(D) \union N1) \union (Kerns({}) \union N2) = Kerns(D) \union N
        /\ ({Kern(g)} \union N1) \union ({Kern(g)} \union N2) = {Kern(g)} \union N
    BY <1>8 DEF Kerns
  <2> QED BY <2>1, <2>2
<1>14. \A m \in Node : f.nexts[m] \subseteq fine'.nexts[m]
  BY <1>11 DEF Extends
<1>15. \A d \in D : fine.at[Kern(d)] = "done" \/ Waiter(g, 1, dst) \in fine'.nexts[Kern(d)]
  BY <1>4, <1>9, <1>14, Nodes
<1>16. \A m \in Node \ N : fine'.at[m] = fine.at[m]
  <2>1. ASSUME NEW m \in Node \ N PROVE fine'.at[m] = fine.at[m]
    <3>1. fine'.at[m] = f.at[m]
      BY <1>8, <1>11
    <3>2. f.at[m] = fine.at[m]
      BY <1>8, <1>10
    <3> QED BY <3>1, <3>2
  <2> QED BY <2>1
<1>17. Grows(g, D, N)
  BY <1>1 DEF Grows, TypeOK
<1>18. Makes(N, {Kern(g)}, D)
  <2>1. PICK J \in SUBSET (1 .. MaxParams) :
          J = (IF dst THEN {1} ELSE {}) \union (IF src THEN {2} ELSE {})
    BY <1>1
  <2>2. N = {Copy(g, j) : j \in J}
    BY <1>3, <1>8, <2>1 DEF Made
  <2>3. \A j \in J : Kern(g) \in fine'.nexts[Copy(g, j)]
    BY <1>1, <1>9, <1>11, <1>14, <2>1, Nodes
  <2> QED BY <1>1, <1>4, <1>12, <1>13, <1>17, <2>2, <2>3, BindMakes
<1>19. ASSUME NEW p \in D PROVE After(Waiter(g, 1, dst), p)'
  <2>1. ~Done(p) /\ p \in Group
    BY <1>21, <1>4, <1>19 DEF Locked, Pending
  <2> QED BY <1>15, <2>1 DEF After, Done, Waiter, Copy, Kern
<1>20. N \in SUBSET Node
  BY <1>18 DEF Makes
<1> QED BY <1>2, <1>21, <1>3, <1>4, <1>8, <1>16, <1>18, <1>19, <1>20 DEF BindsBoth

LEMMA CopyBufferNeeds ==
  ASSUME TypeOK, FineInv, CopyInv, NEW u \in User, NEW g \in Group, CopyBuffer(u, g)
  PROVE  \E P, P1, P2 \in SUBSET Group :
           needs' = [needs EXCEPT ![Kern(g)] = P, ![Copy(g, 1)] = P1, ![Copy(g, 2)] = P2]
<1>1. PICK P \in SUBSET Pending, Q \in SUBSET Pending, dst \in BOOLEAN, src \in BOOLEAN,
           N \in SUBSET Node : BindsBoth(g, P, Q, dst, src, N)
  BY CopyBufferMakes
<1>2. PICK R, P1, P2 : /\ R = P \union Q
                       /\ P1 = IF dst THEN P ELSE {}
                       /\ P2 = IF src THEN Q ELSE {}
  OBVIOUS
<1>3. R \in SUBSET Group /\ P1 \in SUBSET Group /\ P2 \in SUBSET Group
  BY <1>2 DEF Pending
<1> QED BY <1>1, <1>2, <1>3 DEF BindsBoth

LEMMA SubmitMakes ==
  ASSUME TypeOK, FineInv, GroupInv, Unused, NEW u \in User, NEW g \in Group, Submit(u, g)
  PROVE  /\ Makes({Kern(g)}, {Kern(g)}, depends[g])
         /\ \A p \in depends[g] : After(Kern(g), p)'
         /\ \A m \in Node \ {Kern(g)} : fine'.at[m] = fine.at[m]
<1>1. /\ phase[g] = "bound" /\ phase' = [phase EXCEPT ![g] = "submitted"] /\ UNCHANGED waited
      /\ kernel' = [kernel EXCEPT ![g] = TRUE] /\ Kern(g) \in Node
  BY Nodes DEF Submit
<1>2. Kern(g) \notin Ready /\ Ok(fine, Ready)
  BY <1>1, ReadyIs DEF FineInv
<1>3. PICK D \in SUBSET Group : D = depends[g] /\ \A d \in D : kernel[d]
  BY DEF TypeOK, GroupInv
<1>4. /\ Ok(fine', Ready \union {Kern(g)})
      /\ Extends(fine, fine', Kerns(D) \union {Kern(g)}, {Kern(g)} \union {Kern(g)})
      /\ \A d \in D : fine.at[Kern(d)] = "done" \/ Kern(g) \in fine'.nexts[Kern(d)]
      /\ \A m \in Node \ {Kern(g)} : fine'.at[m] = fine.at[m]
  <2>1. CASE core[g] = "host" /\ ~kernel[g]
    <3>1. fine' = Complete([fine EXCEPT !.n_wake[Kern(g)] = 1], Kern(g))
      BY <2>1 DEF Submit
    <3>2. In(fine, Kern(g)) = {} /\ fine.nexts[Kern(g)] = {} /\ D = {}
      BY <1>3, <2>1 DEF Unused, GroupInv
    <3>3. /\ Ok(fine', Ready \union {Kern(g)}) /\ Extends(fine, fine', {}, {})
          /\ \A m \in Node \ {Kern(g)} : fine'.at[m] = fine.at[m]
      BY <1>1, <1>2, <3>1, <3>2, EmptyOk
    <3>4. Extends(fine, fine', Kerns(D) \union {Kern(g)}, {Kern(g)} \union {Kern(g)})
      BY <3>3, ExtendsMore
    <3> QED BY <3>2, <3>3, <3>4
  <2>2. CASE ~(core[g] = "host" /\ ~kernel[g])
    <3>1. fine' = Notify(RunsAfter(fine, Kern(g), Kerns(D)), {Kern(g)})
      BY <1>3, <2>2 DEF Submit, Commit
    <3>2. /\ Ok(fine', Ready \union {Kern(g)}) /\ Extends(fine, fine', Kerns(D), {Kern(g)})
          /\ \A d \in D : fine.at[Kern(d)] = "done" \/ Kern(g) \in fine'.nexts[Kern(d)]
      BY <1>1, <1>2, <3>1, EndOk
    <3>3. Extends(fine, fine', Kerns(D) \union {Kern(g)}, {Kern(g)} \union {Kern(g)})
      BY <3>2, ExtendsMore
    <3>4. \A m \in Node \ {Kern(g)} : fine'.at[m] = fine.at[m]
      BY <1>1, <1>2, <3>1, EndAt
    <3> QED BY <3>2, <3>3, <3>4
  <2> QED BY <2>1, <2>2
<1>5. Makes({Kern(g)}, {Kern(g)}, D)
  <2>1. \A h \in Group : phase'[h] = "submitted" <=> phase[h] = "submitted" \/ Kern(h) \in {Kern(g)}
    BY <1>1, Nodes DEF TypeOK
  <2>2. \A b \in Barrier : Sync(b) \notin {Kern(g)}
    BY Nodes
  <2>3. \A h \in Group, i \in 1 .. MaxParams : Copy(h, i) \notin {Kern(g)} \union {Kern(g)}
    BY Nodes
  <2>4. \A h \in Group : ~kernel'[h] => ~kernel[h] /\ Kern(h) \notin {Kern(g)}
    BY <1>1, Nodes DEF TypeOK
  <2> QED BY <1>1, <1>3, <1>4, <2>1, <2>2, <2>3, <2>4 DEF Makes
<1>6. ASSUME NEW p \in D PROVE After(Kern(g), p)'
  <2>1. fine.at[Kern(p)] = "done" => fine'.at[Kern(p)] = "done"
    BY <1>4, Nodes DEF Extends
  <2> QED BY <1>4, <2>1 DEF After, Done, Kern
<1> QED BY <1>3, <1>4, <1>5, <1>6

LEMMA WaitMakes ==
  ASSUME TypeOK, FineInv, GroupInv, NEW u \in User, NEW b \in Barrier, Wait(u, b)
  PROVE  \E P \in SUBSET Pending :
           /\ Makes({Sync(b)}, {Sync(b)}, P)
           /\ \A p \in P : After(Sync(b), p)'
           /\ \A m \in Node \ {Sync(b)} : fine'.at[m] = fine.at[m]
           /\ waited' = [waited EXCEPT ![b] = P]
<1>1. waited[b] = {} /\ UNCHANGED <<phase, kernel>> /\ Sync(b) \in Node
  BY Nodes DEF Wait
<1>2. PICK P \in SUBSET {p \in Pending : phase[p] = "submitted"} :
        /\ P # {} /\ waited' = [waited EXCEPT ![b] = P]
        /\ fine' = Notify(RunsAfter(fine, Sync(b), Kerns(Locked(P))), {Sync(b)})
  BY DEF Wait
<1>3. P \in SUBSET Group /\ Locked(P) = P /\ \A p \in P : kernel[p] /\ ~Done(p)
  BY <1>2 DEF Pending, Locked, GroupInv
<1>4. Sync(b) \notin Ready /\ Ok(fine, Ready)
  BY <1>1, ReadyIs DEF FineInv
<1>5. fine' = Notify(RunsAfter(fine, Sync(b), Kerns(P)), {Sync(b)})
  BY <1>2, <1>3
<1>6. /\ Ok(fine', Ready \union {Sync(b)}) /\ Extends(fine, fine', Kerns(P), {Sync(b)})
      /\ \A d \in P : fine.at[Kern(d)] = "done" \/ Sync(b) \in fine'.nexts[Kern(d)]
      /\ \A m \in Node \ {Sync(b)} : fine'.at[m] = fine.at[m]
  <2>1. Ok(fine', Ready \union {Sync(b)}) /\ Extends(fine, fine', Kerns(P), {Sync(b)})
    BY <1>1, <1>3, <1>4, <1>5, EndOk
  <2>2. \A d \in P : fine.at[Kern(d)] = "done" \/ Sync(b) \in fine'.nexts[Kern(d)]
    BY <1>1, <1>3, <1>4, <1>5, EndOk
  <2>3. \A m \in Node \ {Sync(b)} : fine'.at[m] = fine.at[m]
    BY <1>1, <1>3, <1>4, <1>5, EndAt
  <2> QED BY <2>1, <2>2, <2>3
<1>7. Extends(fine, fine', Kerns(P) \union {Sync(b)}, {Sync(b)} \union {Sync(b)})
  BY <1>6, ExtendsMore
<1>8. Makes({Sync(b)}, {Sync(b)}, P)
  <2>1. \A h \in Group : Kern(h) \notin {Sync(b)}
    BY Nodes
  <2>2. \A c \in Barrier : waited'[c] # {} <=> waited[c] # {} \/ Sync(c) \in {Sync(b)}
    BY <1>1, <1>2, Nodes DEF TypeOK
  <2>3. \A h \in Group, i \in 1 .. MaxParams : Copy(h, i) \notin {Sync(b)} \union {Sync(b)}
    BY Nodes
  <2> QED BY <1>1, <1>3, <1>6, <1>7, <2>1, <2>2, <2>3 DEF Makes
<1>9. ASSUME NEW p \in P PROVE After(Sync(b), p)'
  BY <1>3, <1>6 DEF After, Done, Sync, Kern
<1>10. P \in SUBSET Pending
  BY <1>2
<1> QED BY <1>2, <1>6, <1>8, <1>9, <1>10

(* What the threads of the back end do to a task that is ready.            *)
LEMMA RunMakes ==
  ASSUME TypeOK, FineInv, NEW n \in Node, RunOp(n) \/ StreamDone(n)
  PROVE  /\ Makes({}, {}, {})
         /\ fine.at[n] \in {"queued", "running"} /\ fine'.at[n] \in {"running", "done"}
         /\ fine.at[n] = "running" => fine'.at[n] = "done"
         /\ \A m \in Node \ {n} : \/ fine'.at[m] = fine.at[m]
                                  \/ fine.at[m] = "new" /\ fine'.at[m] = "queued"
<1>1. Ok(fine, Ready) /\ UNCHANGED <<phase, kernel, waited>>
  BY DEF FineInv, RunOp, StreamDone, program_vars
<1>2. CASE fine' = Complete(fine, n)
  <2>1. fine.at[n] \in {"queued", "running"}
    BY DEF RunOp, StreamDone
  <2>2. /\ Ok(fine', Ready)
        /\ fine'.at[n] = "done"
        /\ \A m \in Node \ {n} : \/ fine'.at[m] = fine.at[m]
                                 \/ fine.at[m] = "new" /\ fine'.at[m] = "queued"
    BY <1>1, <1>2, <2>1, CompleteOk
  <2>3. Extends(fine, fine', {}, {})
    BY <1>1, <1>2, <2>1, CompleteExtends
  <2>4. Makes({}, {}, {})
    <3>1. Ready \union {} = Ready /\ Kerns({}) \union {} = {} /\ {} \union {} = {}
      BY DEF Kerns
    <3> QED BY <1>1, <2>2, <2>3, <3>1 DEF Makes
  <2> QED BY <2>1, <2>2, <2>4
<1>3. CASE fine.at[n] = "queued" /\ fine' = [fine EXCEPT !.at[n] = "running"]
  <2>1. /\ Ok(fine', Ready) /\ Extends(fine, fine', {}, {})
        /\ fine'.at[n] = "running"
        /\ \A m \in Node \ {n} : fine'.at[m] = fine.at[m]
    BY <1>1, <1>3, RunningOk
  <2>2. Makes({}, {}, {})
    <3>1. Ready \union {} = Ready /\ Kerns({}) \union {} = {} /\ {} \union {} = {}
      BY DEF Kerns
    <3> QED BY <1>1, <2>1, <3>1 DEF Makes
  <2> QED BY <1>3, <2>1, <2>2
<1> QED BY <1>2, <1>3 DEF RunOp, StreamDone
-----------------------------------------------------------------------------
(* Steps that leave the fine tasks alone.                                  *)
LEMMA QuietSteps ==
  ASSUME TypeOK, FineInv, NEW u \in User, NEW g \in Group,
         (\E c \in Core : Begin(u, g, c)) \/ EndParams(u, g) \/ Fill(u, g) \/ Return(u)
  PROVE  Makes({}, {}, {})
<1>1. CASE \E c \in Core : Begin(u, g, c)
  BY <1>1, QuietMakes DEF Begin, TypeOK
<1>2. CASE EndParams(u, g)
  BY <1>2, QuietMakes DEF EndParams, Building, TypeOK
<1>3. CASE Fill(u, g)
  BY <1>3, QuietMakes DEF Fill, Building, TypeOK
<1>4. CASE Return(u)
  BY <1>4, QuietMakes DEF Return
<1> QED BY <1>1, <1>2, <1>3, <1>4

(* Each step is of this kind.                                              *)
LEMMA StepMakes ==
  ASSUME TypeOK, FineInv, GroupInv, Unused, CopyInv, [Next]_vars
  PROVE  \E N, T, D : Makes(N, T, D)
<1>1. ASSUME NEW u \in User, NEW g \in Group, Build(u, g) \/ \E c \in Core : Begin(u, g, c)
      PROVE  \E N, T, D : Makes(N, T, D)
  <2>1. CASE SetBufferParam(u, g)
    BY <2>1, SetBufferParamMakes DEF BindsTo
  <2>2. CASE CopyBuffer(u, g)
    BY <2>2, CopyBufferMakes DEF BindsBoth
  <2>3. CASE Submit(u, g)
    BY <2>3, SubmitMakes
  <2>4. CASE (\E c \in Core : Begin(u, g, c)) \/ EndParams(u, g) \/ Fill(u, g)
    BY <2>4, QuietSteps
  <2> QED BY <1>1, <2>1, <2>2, <2>3, <2>4 DEF Build
<1>2. ASSUME NEW u \in User, Return(u) PROVE \E N, T, D : Makes(N, T, D)
  BY <1>2, QuietMakes DEF Return
<1>3. ASSUME NEW u \in User, NEW b \in Barrier, Wait(u, b) PROVE \E N, T, D : Makes(N, T, D)
  BY <1>3, WaitMakes
<1>4. ASSUME NEW n \in Node, RunOp(n) \/ StreamDone(n) PROVE \E N, T, D : Makes(N, T, D)
  BY <1>4, RunMakes
<1>5. CASE UNCHANGED vars
  BY <1>5, QuietMakes DEF vars
<1>6. CASE Finished
  BY <1>5, <1>6 DEF Finished
<1> QED BY <1>1, <1>2, <1>3, <1>4, <1>5, <1>6 DEF Next

LEMMA StepKeeps ==
  ASSUME TypeOK, FineInv, GroupInv, Unused, CopyInv, [Next]_vars
  PROVE  /\ FineInv' /\ CopyEdges' /\ Unused' /\ fine' \in Fine
         /\ \E S, T : Extends(fine, fine', S, T)
<1>1. PICK N, T, D : Makes(N, T, D)
  BY StepMakes
<1>2. FineInv' /\ CopyEdges' /\ Unused'
  BY <1>1, Keeps DEF CopyInv
<1> QED BY <1>1, <1>2 DEF Makes, Ok

(* By type.                                                                *)
LEMMA TypeStep ==
  ASSUME TypeOK, FineInv, GroupInv, Unused, CopyInv, [Next]_vars
  PROVE  TypeOK'
<1>1. fine' \in Fine
  BY StepKeeps
<1>2. ASSUME NEW u \in User, NEW g \in Group, NEW c \in Core, Begin(u, g, c) PROVE TypeOK'
  BY <1>1, <1>2 DEF Begin, TypeOK, Phase
<1>3. ASSUME NEW u \in User, NEW g \in Group, SetBufferParam(u, g) PROVE TypeOK'
  <2>1. PICK P \in SUBSET Pending, copies \in BOOLEAN, i \in 1 .. MaxParams : BindsTo(g, P, copies, i)
    BY <1>3, SetBufferParamMakes
  <2>2. P \in SUBSET Group /\ i \in 0 .. MaxParams
    BY <2>1, CoarseAssumption DEF Pending
  <2>3. needs' \in [Node -> SUBSET Group] /\ params' \in [Group -> 0 .. MaxParams]
    BY <2>1, <2>2 DEF TypeOK, BindsTo
  <2>4. kernel' \in [Group -> BOOLEAN]
    BY <1>3 DEF SetBufferParam, TypeOK
  <2> QED BY <1>1, <1>3, <2>3, <2>4 DEF SetBufferParam, TypeOK
<1>4. ASSUME NEW u \in User, NEW g \in Group, CopyBuffer(u, g) PROVE TypeOK'
  <2>1. PICK P \in SUBSET Group, P1 \in SUBSET Group, P2 \in SUBSET Group :
           needs' = [needs EXCEPT ![Kern(g)] = P, ![Copy(g, 1)] = P1, ![Copy(g, 2)] = P2]
    BY <1>4, CopyBufferNeeds
  <2>3. needs' \in [Node -> SUBSET Group]
    BY <2>1 DEF TypeOK
  <2>4. params' \in [Group -> 0 .. MaxParams] /\ kernel' \in [Group -> BOOLEAN]
    BY <1>4, CoarseAssumption DEF CopyBuffer, TypeOK
  <2> QED BY <1>1, <1>4, <2>3, <2>4 DEF CopyBuffer, TypeOK
<1>5. ASSUME NEW u \in User, NEW g \in Group, EndParams(u, g) PROVE TypeOK'
  BY <1>1, <1>5 DEF EndParams, TypeOK, Phase
<1>6. ASSUME NEW u \in User, NEW g \in Group, Fill(u, g) PROVE TypeOK'
  <2>1. PICK P \in SUBSET Pending : /\ depends' = [depends EXCEPT ![g] = Locked(P)]
                                    /\ needs' = [needs EXCEPT ![Kern(g)] = P]
    BY <1>6 DEF Fill
  <2>2. P \in SUBSET Group /\ Locked(P) \in SUBSET Group
    BY DEF Pending, Locked
  <2>3. depends' \in [Group -> SUBSET Group] /\ needs' \in [Node -> SUBSET Group]
    BY <2>1, <2>2 DEF TypeOK
  <2> QED BY <1>1, <1>6, <2>3 DEF Fill, TypeOK, Phase
<1>7. ASSUME NEW u \in User, NEW g \in Group, Submit(u, g) PROVE TypeOK'
  BY <1>1, <1>7 DEF Submit, TypeOK, Phase
<1>8. ASSUME NEW u \in User, Return(u) PROVE TypeOK'
  BY <1>1, <1>8 DEF Return, TypeOK
<1>9. ASSUME NEW u \in User, NEW b \in Barrier, Wait(u, b) PROVE TypeOK'
  <2>1. PICK P \in SUBSET Pending : waited' = [waited EXCEPT ![b] = P]
    BY <1>9, WaitMakes
  <2>2. P \in SUBSET Group
    BY DEF Pending
  <2>3. waited' \in [Barrier -> SUBSET Group]
    BY <2>1, <2>2 DEF TypeOK
  <2> QED BY <1>1, <1>9, <2>3 DEF Wait, TypeOK
<1>10. ASSUME NEW n \in Node, RunOp(n) \/ StreamDone(n) PROVE TypeOK'
  <2>1. arrived' \in SUBSET Barrier
    BY <1>10 DEF RunOp, StreamDone, TypeOK
  <2> QED BY <1>1, <1>10, <2>1 DEF RunOp, StreamDone, TypeOK, program_vars
<1>11. CASE UNCHANGED vars
  BY <1>11 DEF vars, TypeOK
<1>12. CASE Finished
  BY <1>11, <1>12 DEF Finished
<1> QED BY <1>2, <1>3, <1>4, <1>5, <1>6, <1>7, <1>8, <1>9, <1>10, <1>11, <1>12 DEF Next, Build

(* One thread for each group that is being built.                          *)
LEMMA PcStep ==
  ASSUME TypeOK, PcInv, [Next]_vars
  PROVE  PcInv'
<1> USE DEF PcInv, TypeOK
<1>0. \A g \in Group : g # NONE /\ g \notin Barrier
  BY CoarseAssumption
<1>1. ASSUME NEW u \in User, NEW g \in Group, NEW c \in Core, Begin(u, g, c) PROVE PcInv'
  <2>1. /\ u \in Builder /\ phase[g] = "open" /\ pc' = [pc EXCEPT ![u] = g]
        /\ phase' = [phase EXCEPT ![g] = "building"]
    BY <1>1 DEF Begin
  <2>2. \A v \in User : pc[v] # g
    BY <2>1
  <2>3. \A v \in User \ {u} : pc'[v] = pc[v] /\ pc'[v] # g
    BY <2>1, <2>2
  <2>4. pc'[u] = g /\ phase'[g] = "building" /\ \A h \in Group \ {g} : phase'[h] = phase[h]
    BY <2>1
  <2>5. \A v \in User : pc'[v] \in Group => v \in Builder /\ phase'[pc'[v]] \in {"building", "bound"}
    BY <2>1, <2>3, <2>4
  <2>6. \A v, w \in User : pc'[v] \in Group /\ pc'[v] = pc'[w] => v = w
    BY <2>3, <2>4
  <2>7. \A h \in Group : phase'[h] \in {"building", "bound"} => \E v \in User : pc'[v] = h
    <3>1. pc[u] = NONE
      BY <1>1 DEF Begin
    <3> QED BY <1>0, <3>1, <2>3, <2>4
  <2> QED BY <2>5, <2>6, <2>7
<1>2. ASSUME NEW u \in User, NEW g \in Group,
             SetBufferParam(u, g) \/ CopyBuffer(u, g)
      PROVE  PcInv'
  BY <1>2 DEF SetBufferParam, CopyBuffer
<1>3. ASSUME NEW u \in User, NEW g \in Group, EndParams(u, g) \/ Fill(u, g) PROVE PcInv'
  <2>1. pc' = pc /\ pc[u] = g /\ phase' = [phase EXCEPT ![g] = "bound"]
    BY <1>3 DEF EndParams, Fill, Building
  <2> QED BY <2>1
<1>4. ASSUME NEW u \in User, NEW g \in Group, Submit(u, g) PROVE PcInv'
  <2>1. /\ pc' = [pc EXCEPT ![u] = NONE] /\ pc[u] = g
        /\ phase' = [phase EXCEPT ![g] = "submitted"]
    BY <1>4 DEF Submit
  <2>2. /\ \A v \in User \ {u} : pc'[v] = pc[v] /\ pc[v] # g
        /\ pc'[u] = NONE
        /\ phase'[g] = "submitted" /\ \A h \in Group \ {g} : phase'[h] = phase[h]
    BY <2>1
  <2>3. \A h \in Group : phase'[h] \in {"building", "bound"} => \E v \in User : pc'[v] = h
    BY <2>1, <2>2
  <2>4. \A v \in User : pc'[v] \in Group => v # u /\ pc[v] = pc'[v] /\ pc[v] # g
    BY <1>0, <2>2
  <2>5. \A v \in User : pc'[v] \in Group => v \in Builder /\ phase'[pc'[v]] \in {"building", "bound"}
    BY <2>2, <2>4
  <2>6. \A v, w \in User : pc'[v] \in Group /\ pc'[v] = pc'[w] => v = w
    BY <2>4
  <2> QED BY <2>3, <2>5, <2>6
<1>5. ASSUME NEW u \in User, Return(u) PROVE PcInv'
  <2>1. pc' = [pc EXCEPT ![u] = NONE] /\ pc[u] \in Barrier /\ phase' = phase
    BY <1>5 DEF Return
  <2> QED BY <1>0, <2>1
<1>6. ASSUME NEW u \in User, NEW b \in Barrier, Wait(u, b) PROVE PcInv'
  <2>1. pc' = [pc EXCEPT ![u] = b] /\ pc[u] = NONE /\ phase' = phase
    BY <1>6 DEF Wait
  <2> QED BY <1>0, <2>1
<1>7. ASSUME NEW n \in Node, RunOp(n) \/ StreamDone(n) PROVE PcInv'
  BY <1>7 DEF RunOp, StreamDone, program_vars
<1>8. CASE UNCHANGED vars
  BY <1>8 DEF vars
<1>9. CASE Finished
  BY <1>8, <1>9 DEF Finished
<1> QED BY <1>1, <1>2, <1>3, <1>4, <1>5, <1>6, <1>7, <1>8, <1>9 DEF Next, Build

LEMMA GroupStep ==
  ASSUME TypeOK, FineInv, GroupInv, CopyInv, [Next]_vars
  PROVE  GroupInv'
<1>0. /\ \A g, h \in Group : g # h => Kern(g) # Kern(h)
      /\ \A g, h \in Group, i \in 1 .. MaxParams : Kern(g) # Copy(h, i)
      /\ \A g \in Group : Kern(g) \in Node
  BY Nodes
<1>1. ASSUME NEW u \in User, NEW g \in Group, NEW c \in Core, Begin(u, g, c) PROVE GroupInv'
  BY <1>1 DEF Begin, TypeOK, GroupInv
<1>2. ASSUME NEW u \in User, NEW g \in Group, SetBufferParam(u, g) PROVE GroupInv'
  <2>1. PICK P \in SUBSET Pending, copies \in BOOLEAN, i \in 1 .. MaxParams : BindsTo(g, P, copies, i)
    BY <1>2, SetBufferParamMakes
  <2>2. /\ UNCHANGED <<phase, depends>> /\ phase[g] = "building"
        /\ \A h \in Group \ {g} : needs'[Kern(h)] = needs[Kern(h)] /\ params'[h] = params[h]
    BY <1>0, <1>2, <2>1 DEF SetBufferParam, Building, TypeOK, BindsTo
  <2>3. \A h \in Group : kernel[h] => kernel'[h]
    BY <1>2 DEF SetBufferParam, TypeOK
  <2> QED BY <2>2, <2>3 DEF GroupInv, TypeOK
<1>3. ASSUME NEW u \in User, NEW g \in Group, CopyBuffer(u, g) PROVE GroupInv'
  <2>1. PICK P \in SUBSET Group, P1 \in SUBSET Group, P2 \in SUBSET Group :
           needs' = [needs EXCEPT ![Kern(g)] = P, ![Copy(g, 1)] = P1, ![Copy(g, 2)] = P2]
    BY <1>3, CopyBufferNeeds
  <2>2. 1 \in 1 .. MaxParams /\ 2 \in 1 .. MaxParams
    BY CoarseAssumption
  <2>3. /\ UNCHANGED <<phase, depends>> /\ phase[g] = "building"
        /\ \A h \in Group \ {g} : needs'[Kern(h)] = needs[Kern(h)] /\ params'[h] = params[h]
    BY <1>0, <1>3, <2>1, <2>2 DEF CopyBuffer, Building, TypeOK
  <2>4. \A h \in Group : kernel[h] => kernel'[h]
    BY <1>3 DEF CopyBuffer, TypeOK
  <2> QED BY <2>3, <2>4 DEF GroupInv, TypeOK
<1>4. ASSUME NEW u \in User, NEW g \in Group, EndParams(u, g) PROVE GroupInv'
  <2>1. /\ UNCHANGED <<params, depends, needs>> /\ phase[g] = "building"
        /\ phase' = [phase EXCEPT ![g] = "bound"]
    BY <1>4 DEF EndParams, Building
  <2>2. \A h \in Group : kernel[h] => kernel'[h]
    BY <1>4 DEF EndParams, TypeOK
  <2> QED BY <2>1, <2>2 DEF GroupInv, TypeOK
<1>5. ASSUME NEW u \in User, NEW g \in Group, Fill(u, g) PROVE GroupInv'
  <2>1. PICK P \in SUBSET Pending : /\ depends' = [depends EXCEPT ![g] = Locked(P)]
                                    /\ needs' = [needs EXCEPT ![Kern(g)] = P]
    BY <1>5 DEF Fill
  <2>2. \A p \in Locked(P) : kernel[p]
    BY DEF Locked
  <2>3. /\ phase[g] = "building" /\ phase' = [phase EXCEPT ![g] = "bound"]
        /\ kernel' = [kernel EXCEPT ![g] = TRUE] /\ params' = params
        /\ \A h \in Group \ {g} : needs'[Kern(h)] = needs[Kern(h)] /\ depends'[h] = depends[h]
        /\ depends'[g] = Locked(P)
    BY <1>0, <1>5, <2>1 DEF Fill, Building, TypeOK
  <2>4. kernel'[g] /\ \A h \in Group : (kernel[h] => kernel'[h]) /\ (h # g => phase'[h] = phase[h])
    BY <2>3 DEF TypeOK
  <2>5. phase'[g] = "bound" /\ Locked(P) \in SUBSET Group
    BY <2>1, <2>3 DEF TypeOK, Locked, Pending
  <2> HIDE DEF Locked
  <2> QED BY <2>2, <2>3, <2>4, <2>5 DEF GroupInv, TypeOK
<1>6. ASSUME NEW u \in User, NEW g \in Group, Submit(u, g) PROVE GroupInv'
  BY <1>6 DEF Submit, GroupInv, TypeOK
<1>7. ASSUME NEW u \in User, NEW b \in Barrier, Return(u) \/ Wait(u, b) PROVE GroupInv'
  BY <1>7 DEF Return, Wait, GroupInv
<1>8. ASSUME NEW n \in Node, RunOp(n) \/ StreamDone(n) PROVE GroupInv'
  BY <1>8 DEF RunOp, StreamDone, program_vars, GroupInv
<1>9. CASE UNCHANGED vars
  BY <1>9 DEF vars, GroupInv
<1>10. CASE Finished
  BY <1>9, <1>10 DEF Finished
<1>11. ASSUME NEW u \in User, Return(u) PROVE GroupInv'
  BY <1>11 DEF Return, GroupInv
<1> QED BY <1>1, <1>2, <1>3, <1>4, <1>5, <1>6, <1>7, <1>8, <1>9, <1>10, <1>11 DEF Next, Build

(* Copies are made in the order of the buffers.                            *)
LEMMA CopyParams ==
  ASSUME FineInv, CopyInv, Unused, NEW N, NEW T, NEW D, Makes(N, T, D),
         \A h \in Group, j \in 1 .. MaxParams : j > params'[h] => j > params[h] /\ Copy(h, j) \notin N
  PROVE  CopyInv'
<1>1. /\ CopyEdges'
      /\ \A h \in Group, j \in 1 .. MaxParams :
           fine'.n_wake[Copy(h, j)] = 0 <=> fine.n_wake[Copy(h, j)] = 0 /\ Copy(h, j) \notin N
  BY Keeps DEF CopyInv
<1>2. ASSUME NEW h \in Group, NEW j \in 1 .. MaxParams, j > params'[h]
      PROVE  fine'.n_wake[Copy(h, j)] = 0
  BY <1>1, <1>2 DEF CopyInv
<1> QED BY <1>1, <1>2 DEF CopyInv, Copy

LEMMA CopyStep ==
  ASSUME TypeOK, FineInv, GroupInv, Unused, CopyInv, [Next]_vars
  PROVE  CopyInv'
<1>1. ASSUME NEW u \in User, NEW g \in Group, SetBufferParam(u, g) PROVE CopyInv'
  <2>1. PICK P \in SUBSET Pending, copies \in BOOLEAN, i \in 1 .. MaxParams : BindsTo(g, P, copies, i)
    BY <1>1, SetBufferParamMakes
  <2>2. ASSUME NEW h \in Group, NEW j \in 1 .. MaxParams, j > params'[h]
        PROVE  j > params[h] /\ Copy(h, j) \notin Made(g, i, copies)
    <3>1. CASE h = g
      <4>1. params'[h] = i /\ params[h] \in Nat /\ j > i /\ j # i
        BY <2>1, <2>2, <3>1, CoarseAssumption DEF TypeOK, BindsTo
      <4>2. Copy(h, j) # Copy(g, i)
        BY <4>1, Nodes
      <4> QED BY <2>1, <3>1, <4>1, <4>2 DEF Made, BindsTo
    <3>2. CASE h # g
      BY <2>1, <2>2, <3>2, Nodes DEF Made, TypeOK, BindsTo
    <3> QED BY <3>1, <3>2
  <2>3. \A h \in Group, j \in 1 .. MaxParams :
          j > params'[h] => j > params[h] /\ Copy(h, j) \notin Made(g, i, copies)
    BY <2>2
  <2> QED BY <2>1, <2>3, CopyParams DEF BindsTo
<1>2. ASSUME NEW u \in User, NEW g \in Group, CopyBuffer(u, g) PROVE CopyInv'
  <2>0. PICK P \in SUBSET Pending, Q \in SUBSET Pending, dst \in BOOLEAN, src \in BOOLEAN,
             N \in SUBSET Node : BindsBoth(g, P, Q, dst, src, N)
    BY <1>2, CopyBufferMakes
  <2>1. PICK D : Makes(N, {Kern(g)}, D) /\ N \subseteq {Copy(g, 1), Copy(g, 2)}
    BY <2>0 DEF Made, BindsBoth
  <2>2. /\ params' = [params EXCEPT ![g] = 2] /\ params[g] = 0
        /\ 1 \in 1 .. MaxParams /\ 2 \in 1 .. MaxParams
    BY <1>2, CoarseAssumption DEF CopyBuffer
  <2>3. ASSUME NEW h \in Group, NEW j \in 1 .. MaxParams, j > params'[h]
        PROVE  j > params[h] /\ Copy(h, j) \notin {Copy(g, 1), Copy(g, 2)}
    <3>1. CASE h = g
      <4>1. j > 2 /\ params[h] = 0
        BY <2>2, <2>3, <3>1 DEF TypeOK
      <4>2. j # 1 /\ j # 2 /\ j > 0
        BY <4>1
      <4> QED BY <2>2, <4>1, <4>2, Nodes
    <3>2. CASE h # g
      BY <2>2, <2>3, <3>2, Nodes DEF TypeOK
    <3> QED BY <3>1, <3>2
  <2>4. \A h \in Group, j \in 1 .. MaxParams : j > params'[h] => j > params[h] /\ Copy(h, j) \notin N
    BY <2>1, <2>3
  <2> QED BY <2>1, <2>4, CopyParams
<1>3. ASSUME NEW u \in User, NEW g \in Group, Submit(u, g) PROVE CopyInv'
  <2>1. Makes({Kern(g)}, {Kern(g)}, depends[g]) /\ params' = params
    BY <1>3, SubmitMakes DEF Submit
  <2>2. \A h \in Group, j \in 1 .. MaxParams : Copy(h, j) \notin {Kern(g)}
    BY Nodes
  <2> QED BY <2>1, <2>2, CopyParams
<1>4. ASSUME NEW u \in User, NEW b \in Barrier, Wait(u, b) PROVE CopyInv'
  <2>1. PICK D : Makes({Sync(b)}, {Sync(b)}, D)
    BY <1>4, WaitMakes
  <2>2. params' = params /\ \A h \in Group, j \in 1 .. MaxParams : Copy(h, j) \notin {Sync(b)}
    BY <1>4, Nodes DEF Wait
  <2> QED BY <2>1, <2>2, CopyParams
<1>5. ASSUME Makes({}, {}, {}), UNCHANGED params PROVE CopyInv'
  BY <1>5, CopyParams
<1>6. ASSUME NEW u \in User, NEW g \in Group,
             (\E c \in Core : Begin(u, g, c)) \/ EndParams(u, g) \/ Fill(u, g)
      PROVE  CopyInv'
  <2>1. UNCHANGED params
    BY <1>6 DEF Begin, EndParams, Fill
  <2> QED BY <1>5, <1>6, <2>1, QuietSteps
<1>7. ASSUME NEW u \in User, Return(u) PROVE CopyInv'
  <2>1. Makes({}, {}, {}) /\ UNCHANGED params
    BY <1>7, QuietMakes DEF Return
  <2> QED BY <1>5, <2>1
<1>8. ASSUME NEW n \in Node, RunOp(n) \/ StreamDone(n) PROVE CopyInv'
  <2>1. UNCHANGED params
    BY <1>8 DEF RunOp, StreamDone, program_vars
  <2> QED BY <1>5, <1>8, <2>1, RunMakes
<1>9. CASE UNCHANGED vars
  <2>1. Makes({}, {}, {}) /\ UNCHANGED params
    BY <1>9, QuietMakes DEF vars
  <2> QED BY <1>5, <2>1
<1>10. CASE Finished
  BY <1>9, <1>10 DEF Finished
<1> QED BY <1>1, <1>2, <1>3, <1>4, <1>6, <1>7, <1>8, <1>9, <1>10 DEF Next, Build

(* A barrier arrives when its sync task runs, which is linked to all that  *)
(* the wait is for.                                                        *)
LEMMA SyncStep ==
  ASSUME TypeOK, FineInv, GroupInv, Unused, CopyInv, SyncInv, [Next]_vars
  PROVE  SyncInv'
<1>1. PICK S, T : Extends(fine, fine', S, T)
  BY StepKeeps
<1>2. ASSUME NEW b \in Barrier, b \in arrived PROVE fine'.at[Sync(b)] = "done"
  BY <1>1, <1>2, Nodes DEF SyncInv, Extends
<1>3. ASSUME NEW b \in Barrier, NEW p \in waited[b] PROVE After(Sync(b), p)'
  <2>1. p \in Group /\ After(Sync(b), p)
    BY <1>3 DEF TypeOK, SyncInv
  <2>2. PICK n : n = Sync(b)
    OBVIOUS
  <2>3. After(n, p)'
    BY <1>1, <2>1, <2>2, AfterStays
  <2> QED BY <2>2, <2>3 DEF Sync
<1>4. CASE UNCHANGED <<arrived, waited>>
  BY <1>2, <1>3, <1>4 DEF SyncInv, Sync
<1>5. ASSUME NEW u \in User, NEW b \in Barrier, Wait(u, b) PROVE SyncInv'
  <2>1. PICK P \in SUBSET Pending : /\ waited' = [waited EXCEPT ![b] = P]
                                    /\ \A p \in P : After(Sync(b), p)'
    BY <1>5, WaitMakes
  <2>2. arrived' = arrived
    BY <1>5 DEF Wait
  <2>3. ASSUME NEW c \in Barrier, NEW p \in waited'[c] PROVE After(Sync(c), p)'
    <3>1. CASE c = b
      BY <2>1, <2>3, <3>1 DEF TypeOK, Sync
    <3>2. CASE c # b
      BY <1>3, <2>1, <2>3, <3>2 DEF TypeOK
    <3> QED BY <3>1, <3>2
  <2> QED BY <1>2, <2>2, <2>3 DEF SyncInv, Sync
<1>6. ASSUME NEW n \in Node, RunOp(n) PROVE SyncInv'
  <2>1. CASE n \in Barrier \X {0} /\ arrived' = arrived \union {n[1]} /\ fine' = Complete(fine, n)
    <3>1. PICK b \in Barrier : n = Sync(b) /\ n[1] = b
      BY <2>1 DEF Sync
    <3>2. fine'.at[n] = "done"
      <4>1. Ok(fine, Ready) /\ fine.at[n] \in {"queued", "running"}
        BY <1>6 DEF FineInv, RunOp
      <4> QED BY <2>1, <4>1, CompleteOk
    <3>3. \A c \in Barrier : c \in arrived' => fine'.at[Sync(c)] = "done"
      BY <1>2, <2>1, <3>1, <3>2
    <3>4. waited' = waited
      BY <1>6 DEF RunOp, program_vars
    <3> QED BY <1>3, <3>3, <3>4 DEF SyncInv, Sync
  <2>2. CASE UNCHANGED arrived
    BY <1>4, <1>6, <2>2 DEF RunOp, program_vars
  <2> QED BY <1>6, <2>1, <2>2 DEF RunOp
<1>7. ASSUME NEW u \in User, NEW g \in Group,
             Build(u, g) \/ (\E c \in Core : Begin(u, g, c)) \/ Return(u)
      PROVE  SyncInv'
  BY <1>4, <1>7 DEF Build, SetBufferParam, CopyBuffer, EndParams, Fill, Submit, Begin, Return
<1>8. ASSUME NEW n \in Node, StreamDone(n) PROVE SyncInv'
  BY <1>4, <1>8 DEF StreamDone, program_vars
<1>9. CASE UNCHANGED vars
  BY <1>4, <1>9 DEF vars
<1>10. CASE Finished
  BY <1>9, <1>10 DEF Finished
<1>11. ASSUME NEW u \in User, Return(u) PROVE SyncInv'
  BY <1>4, <1>11 DEF Return
<1> QED BY <1>5, <1>6, <1>7, <1>8, <1>9, <1>10, <1>11 DEF Next
-----------------------------------------------------------------------------
-----------------------------------------------------------------------------
LEMMA InitInv ==
  ASSUME Init
  PROVE  IInv
<1>1. TypeOK
  BY CoarseAssumption DEF Init, TypeOK, Fine, Phase, Core, Place
<1>2. \A n \in Node : /\ fine.nexts[n] = {} /\ fine.n_wait[n] = 1 /\ fine.n_wake[n] = 0
                      /\ fine.at[n] = "new"
  BY DEF Init
<1>3. \A n \in Node : In(fine, n) = {}
  BY <1>2 DEF In
<1>4. \A n \in Node : n \notin Ready
  BY <1>2, Nodes DEF Ready, Finalized, Init
<1>5. Cardinality({}) = 0
  BY FS_EmptySet
<1>6. FineInv
  <2>1. ASSUME NEW n \in Node
        PROVE  /\ fine.n_wait[n] = Cardinality(In(fine, n)) + 1
               /\ fine.n_wake[n] = Cardinality(In(fine, n) \intersect DoneOf(fine))
                                     + (IF n \in Ready THEN 1 ELSE 0)
               /\ fine.at[n] # "new" <=> n \in Ready /\ In(fine, n) \subseteq DoneOf(fine)
    <3>1. In(fine, n) = {} /\ In(fine, n) \intersect DoneOf(fine) = {}
      BY <1>3
    <3> QED BY <1>2, <1>4, <1>5, <3>1
  <2> QED BY <1>1, <2>1 DEF FineInv, Ok, TypeOK
<1>7. Unused /\ CopyInv
  BY <1>2, <1>3, Nodes DEF Unused, CopyInv, CopyEdges
<1>8. PcInv
  BY CoarseAssumption DEF Init, PcInv
<1>9. GroupInv /\ SyncInv
  BY Nodes DEF Init, GroupInv, SyncInv
<1> QED BY <1>1, <1>6, <1>7, <1>8, <1>9 DEF IInv

LEMMA Inductive ==
  ASSUME IInv, [Next]_vars
  PROVE  IInv'
<1>1. TypeOK' /\ FineInv' /\ Unused'
  BY TypeStep, StepKeeps DEF IInv
<1>2. PcInv'
  BY PcStep DEF IInv
<1>3. GroupInv'
  BY GroupStep DEF IInv
<1>4. CopyInv'
  BY CopyStep DEF IInv
<1>5. SyncInv'
  BY SyncStep DEF IInv
<1> QED BY <1>1, <1>2, <1>3, <1>4, <1>5 DEF IInv

LEMMA Invariant == Spec => []IInv
<1>1. Init => IInv
  BY InitInv
<1>2. IInv /\ [Next]_vars => IInv'
  BY Inductive
<1> QED BY <1>1, <1>2, PTL DEF Spec

(* A task that has started waited for all before it.                       *)
LEMMA StartedIsReady ==
  ASSUME FineInv, NEW n \in Node, fine.at[n] # "new"
  PROVE  /\ \A m \in Node : n \in fine.nexts[m] => fine.at[m] = "done"
         /\ \A p \in Group : After(n, p) => Done(p)
<1>1. In(fine, n) \subseteq DoneOf(fine)
  BY DEF FineInv, Ok
<1>2. \A m \in Node : n \in fine.nexts[m] => fine.at[m] = "done"
  BY <1>1 DEF In, DoneOf
<1> QED BY <1>2, Nodes DEF After, Done

LEMMA InTime ==
  ASSUME IInv
  PROVE  BarrierReturnsInTime
<1>1. BarrierWaits
  <2>1. ASSUME NEW b \in arrived, NEW p \in waited[b] PROVE Done(p)
    <3>1. b \in Barrier /\ p \in Group
      BY <2>1 DEF IInv, TypeOK
    <3>2. Sync(b) \in Node /\ fine.at[Sync(b)] # "new" /\ After(Sync(b), p)
      BY <2>1, <3>1, Nodes DEF IInv, SyncInv
    <3> QED BY <3>1, <3>2, StartedIsReady DEF IInv
  <2> QED BY <2>1 DEF BarrierWaits
<1>2. NoLostNotify
  <2>1. ASSUME NEW n \in Node, Finalized(n), fine.at[n] = "new"
        PROVE  \E m \in Node : n \in fine.nexts[m] /\ fine.at[m] # "done"
    <3>1. n \in Ready
      BY <2>1 DEF Ready
    <3>2. ~(In(fine, n) \subseteq DoneOf(fine))
      BY <2>1, <3>1 DEF IInv, FineInv, Ok
    <3> QED BY <3>2 DEF In, DoneOf
  <2> QED BY <2>1 DEF NoLostNotify
<1> QED BY <1>1, <1>2 DEF BarrierReturnsInTime

(* All the state stays of its type: a counter is a number of tasks, and    *)
(* what waits are groups.                                                  *)
THEOREM TypeCorrect == Spec => []TypeOK
<1>1. IInv => TypeOK
  BY DEF IInv
<1> QED BY <1>1, Invariant, PTL

(* event_barrier_impl over fine tasks: however many threads submit and     *)
(* wait, a wait returns only when all that it was for is done, and no      *)
(* finalized task is left that no other will notify (task::complete).      *)
THEOREM BarriersReturn == Spec => []BarrierReturnsInTime
<1>1. IInv => BarrierReturnsInTime
  BY InTime
<1> QED BY <1>1, Invariant, PTL
-----------------------------------------------------------------------------
(* With one thread that submits, a group that another is made to wait for  *)
(* has been submitted, so that its kernel task is there.                   *)
LEMMA AllLocked ==
  ASSUME OneBuilder, TypeOK, PcInv, GroupInv, NEW u \in User, NEW g \in Group, Building(u, g),
         NEW P \in SUBSET Pending
  PROVE  Locked(P) = P
<1>1. ASSUME NEW p \in P PROVE kernel[p]
  <2>1. p \in Group /\ phase[p] \in {"bound", "submitted"}
    BY DEF Pending
  <2>2. phase[p] # "bound"
    <3>1. SUFFICES ASSUME phase[p] = "bound" PROVE FALSE
      OBVIOUS
    <3>2. PICK v \in User : pc[v] = p
      BY <2>1, <3>1 DEF PcInv
    <3>3. pc[u] = g /\ phase[g] = "building" /\ u \in Builder /\ v \in Builder
      BY <2>1, <3>2 DEF Building, PcInv
    <3> QED BY <3>1, <3>2, <3>3 DEF OneBuilder
  <2> QED BY <2>1, <2>2 DEF GroupInv
<1> QED BY <1>1 DEF Locked

(* The kernel task of g comes after that of p.                             *)
Chained(g, p) ==
  \/ After(Kern(g), p)
  \/ \E i \in 1 .. MaxParams : Kern(g) \in fine.nexts[Copy(g, i)] /\ After(Copy(g, i), p)
  \/ p \in depends[g]

LEMMA ChainedStays ==
  ASSUME NEW S, NEW T, Extends(fine, fine', S, T), NEW g \in Group, NEW p \in Group, Chained(g, p),
         p \in depends[g] => p \in depends'[g] \/ After(Kern(g), p)'
  PROVE  Chained(g, p)'
<1>1. CASE After(Kern(g), p)
  <2>1. PICK n : n = Kern(g)
    OBVIOUS
  <2>2. After(n, p)'
    BY <1>1, <2>1, AfterStays
  <2> QED BY <2>1, <2>2 DEF Chained, Kern
<1>2. ASSUME NEW i \in 1 .. MaxParams, Kern(g) \in fine.nexts[Copy(g, i)], After(Copy(g, i), p)
      PROVE  Chained(g, p)'
  <2>1. PICK n : n = Copy(g, i)
    OBVIOUS
  <2>2. After(n, p)' /\ Kern(g) \in fine'.nexts[n]
    BY <1>2, <2>1, AfterStays, Nodes DEF Extends
  <2> QED BY <2>1, <2>2 DEF Chained, Kern, Copy
<1>3. CASE p \in depends[g]
  BY <1>3 DEF Chained, Kern
<1> QED BY <1>1, <1>2, <1>3 DEF Chained

LEMMA KernelStep ==
  ASSUME OneBuilder, IInv, KernelInv, [Next]_vars
  PROVE  KernelInv'
<1> USE DEF IInv
<1>1. PICK S, T : Extends(fine, fine', S, T)
  BY StepKeeps
<1>2. \A g \in Group : \A p \in needs[Kern(g)] : p \in Group /\ Chained(g, p)
  BY Nodes DEF KernelInv, Chained, TypeOK
<1>3. \A g, h \in Group : g # h => Kern(g) # Kern(h)
  BY Nodes
<1>4. \A g, h \in Group, i \in 1 .. MaxParams : Kern(g) # Copy(h, i)
  BY Nodes
(* Steps that make nobody wait, and keep what is left for submit.          *)
<1>5. ASSUME NEW g \in Group, NEW p \in needs[Kern(g)], depends[g] \subseteq depends'[g]
      PROVE  Chained(g, p)'
  BY <1>1, <1>2, <1>5, ChainedStays
<1>6. CASE UNCHANGED <<needs, depends>>
  <2>1. \A g \in Group : \A p \in needs'[Kern(g)] : Chained(g, p)'
    BY <1>5, <1>6
  <2> QED BY <2>1 DEF KernelInv, Chained, Kern
<1>7. ASSUME NEW u \in User, NEW g \in Group, SetBufferParam(u, g) PROVE KernelInv'
  <2>1. PICK P \in SUBSET Pending, copies \in BOOLEAN, i \in 1 .. MaxParams : BindsTo(g, P, copies, i)
    BY <1>7, SetBufferParamMakes
  <2>2. Locked(P) = P
    BY <1>7, AllLocked DEF SetBufferParam
  <2>3. depends' = depends
    BY <1>7 DEF SetBufferParam
  <2>4. ASSUME NEW p \in P PROVE Chained(g, p)'
    <3>1. CASE copies
      <4>1. Waiter(g, i, copies) = Copy(g, i) /\ Copy(g, i) \in Made(g, i, copies)
        BY <3>1 DEF Waiter, Made
      <4>2. Kern(g) \in fine'.nexts[Copy(g, i)]
        BY <2>1, <4>1 DEF Makes, BindsTo
      <4>3. PICK n : n = Copy(g, i)
        OBVIOUS
      <4>4. After(n, p)'
        BY <2>1, <2>2, <4>1, <4>3 DEF After, Waiter, Copy, Kern, BindsTo
      <4> QED BY <4>2, <4>3, <4>4 DEF Chained, Kern, Copy
    <3>2. CASE ~copies
      BY <2>1, <2>2, <3>2 DEF Chained, After, Waiter, Kern, Copy, BindsTo
    <3> QED BY <3>1, <3>2
  <2>5. ASSUME NEW h \in Group, NEW p \in needs'[Kern(h)] PROVE Chained(h, p)'
    <3>1. (h = g /\ p \in P) \/ p \in needs[Kern(h)]
      BY <1>3, <1>4, <2>1, <2>5, Nodes DEF TypeOK, BindsTo
    <3>2. CASE p \in needs[Kern(h)]
      BY <1>5, <2>3, <3>2
    <3> QED BY <2>4, <3>1, <3>2
  <2> QED BY <2>5 DEF KernelInv, Chained, Kern
<1>8. ASSUME NEW u \in User, NEW g \in Group, CopyBuffer(u, g) PROVE KernelInv'
  <2>1. PICK P \in SUBSET Pending, Q \in SUBSET Pending, dst \in BOOLEAN, src \in BOOLEAN,
             N \in SUBSET Node : BindsBoth(g, P, Q, dst, src, N)
    BY <1>8, CopyBufferMakes
  <2>2. PICK R \in SUBSET Pending : R = P \union Q
    OBVIOUS
  <2>3. Locked(R) = R
    BY <1>8, AllLocked DEF CopyBuffer
  <2>4. depends' = depends /\ 1 \in 1 .. MaxParams /\ 2 \in 1 .. MaxParams
    BY <1>8, CoarseAssumption DEF CopyBuffer
  <2>5. ASSUME NEW p \in R PROVE Chained(g, p)'
    <3>1. CASE dst
      <4>1. Waiter(g, 1, dst) = Copy(g, 1) /\ Copy(g, 1) \in N
        BY <2>1, <3>1 DEF Waiter, Made, BindsBoth
      <4>2. Kern(g) \in fine'.nexts[Copy(g, 1)]
        BY <2>1, <2>4, <4>1 DEF Makes, BindsBoth
      <4>3. PICK n : n = Copy(g, 1)
        OBVIOUS
      <4>4. After(n, p)'
        BY <2>1, <2>2, <2>3, <4>1, <4>3 DEF After, Waiter, Copy, Kern, BindsBoth
      <4> QED BY <2>4, <4>2, <4>3, <4>4 DEF Chained, Kern, Copy
    <3>2. CASE ~dst
      BY <2>1, <2>2, <2>3, <3>2 DEF Chained, After, Waiter, Kern, Copy, BindsBoth
    <3> QED BY <3>1, <3>2
  <2>6. ASSUME NEW h \in Group, NEW p \in needs'[Kern(h)] PROVE Chained(h, p)'
    <3>1. (h = g /\ p \in R) \/ p \in needs[Kern(h)]
      BY <1>3, <1>4, <2>1, <2>2, <2>4, <2>6, Nodes DEF TypeOK, BindsBoth
    <3>2. CASE p \in needs[Kern(h)]
      BY <1>5, <2>4, <3>2
    <3> QED BY <2>5, <3>1, <3>2
  <2> QED BY <2>6 DEF KernelInv, Chained, Kern
<1>9. ASSUME NEW u \in User, NEW g \in Group, Fill(u, g) PROVE KernelInv'
  <2>1. PICK P \in SUBSET Pending : /\ depends' = [depends EXCEPT ![g] = Locked(P)]
                                    /\ needs' = [needs EXCEPT ![Kern(g)] = P]
    BY <1>9 DEF Fill
  <2>2. Locked(P) = P
    BY <1>9, AllLocked DEF Fill
  <2>3. ASSUME NEW h \in Group, NEW p \in needs'[Kern(h)] PROVE Chained(h, p)'
    <3>1. CASE h = g
      <4>1. p \in depends'[h]
        BY <2>1, <2>2, <2>3, <3>1, Nodes DEF TypeOK
      <4> QED BY <4>1 DEF Chained
    <3>2. CASE h # g
      <4>1. needs'[Kern(h)] = needs[Kern(h)] /\ depends'[h] = depends[h]
        BY <1>3, <2>1, <3>2, Nodes DEF TypeOK
      <4> QED BY <1>5, <2>3, <4>1
    <3> QED BY <3>1, <3>2
  <2> QED BY <2>3 DEF KernelInv, Chained, Kern
<1>10. ASSUME NEW u \in User, NEW g \in Group, Submit(u, g) PROVE KernelInv'
  <2>1. needs' = needs /\ depends' = [depends EXCEPT ![g] = {}]
    BY <1>10 DEF Submit
  <2>2. \A p \in depends[g] : After(Kern(g), p)'
    BY <1>10, SubmitMakes
  <2>3. ASSUME NEW h \in Group, NEW p \in needs'[Kern(h)] PROVE Chained(h, p)'
    <3>1. p \in depends[h] => p \in depends'[h] \/ After(Kern(h), p)'
      BY <2>1, <2>2 DEF TypeOK
    <3>2. p \in needs[Kern(h)]
      BY <2>1, <2>3 DEF Kern
    <3> QED BY <1>1, <1>2, <3>1, <3>2, ChainedStays
  <2> QED BY <2>3 DEF KernelInv, Chained, Kern
<1>11. ASSUME NEW u \in User, NEW g \in Group, (\E c \in Core : Begin(u, g, c)) \/ EndParams(u, g)
       PROVE  KernelInv'
  BY <1>6, <1>11 DEF Begin, EndParams
<1>12. ASSUME NEW u \in User, Return(u) \/ (\E b \in Barrier : Wait(u, b)) PROVE KernelInv'
  BY <1>6, <1>12 DEF Return, Wait
<1>13. ASSUME NEW n \in Node, RunOp(n) \/ StreamDone(n) PROVE KernelInv'
  BY <1>6, <1>13 DEF RunOp, StreamDone, program_vars
<1>14. CASE UNCHANGED vars
  BY <1>6, <1>14 DEF vars
<1>15. CASE Finished
  BY <1>14, <1>15 DEF Finished
<1> QED BY <1>7, <1>8, <1>9, <1>10, <1>11, <1>12, <1>13, <1>14, <1>15 DEF Next, Build

(* Unless a group copies from a buffer to a buffer, its copies wait for    *)
(* the same groups as its kernel.                                          *)
LEMMA CopyDepsStep ==
  ASSUME OneBuilder, BufferCopies = FALSE, IInv, CopyDeps, [Next]_vars
  PROVE  CopyDeps'
<1> USE DEF IInv
<1>1. PICK S, T : Extends(fine, fine', S, T)
  BY StepKeeps
<1>2. ASSUME NEW g \in Group, NEW i \in 1 .. MaxParams, NEW p \in needs[Copy(g, i)]
      PROVE  After(Copy(g, i), p)'
  <2>1. p \in Group /\ After(Copy(g, i), p)
    BY <1>2, Nodes DEF CopyDeps, TypeOK
  <2>2. PICK n : n = Copy(g, i)
    OBVIOUS
  <2>3. After(n, p)'
    BY <1>1, <2>1, <2>2, AfterStays
  <2> QED BY <2>2, <2>3 DEF Copy
<1>3. ASSUME \A g \in Group, i \in 1 .. MaxParams : needs'[Copy(g, i)] = needs[Copy(g, i)]
      PROVE  CopyDeps'
  BY <1>2, <1>3 DEF CopyDeps, Copy
<1>4. CASE UNCHANGED needs
  BY <1>3, <1>4
<1>5. ASSUME NEW u \in User, NEW g \in Group, SetBufferParam(u, g) PROVE CopyDeps'
  <2>1. PICK P \in SUBSET Pending, copies \in BOOLEAN, i \in 1 .. MaxParams : BindsTo(g, P, copies, i)
    BY <1>5, SetBufferParamMakes
  <2>2. Locked(P) = P
    BY <1>5, AllLocked DEF SetBufferParam
  <2>3. ASSUME NEW h \in Group, NEW j \in 1 .. MaxParams, NEW p \in needs'[Copy(h, j)]
        PROVE  After(Copy(h, j), p)'
    <3>1. CASE h = g /\ j = i
      <4>1. copies /\ p \in P
        BY <2>1, <2>3, <3>1, Nodes DEF TypeOK, BindsTo
      <4>2. Waiter(g, i, copies) = Copy(h, j)
        BY <3>1, <4>1 DEF Waiter
      <4> QED BY <2>1, <2>2, <4>1, <4>2 DEF After, Waiter, Copy, Kern, BindsTo
    <3>2. CASE ~(h = g /\ j = i)
      <4>1. p \in needs[Copy(h, j)]
        BY <2>1, <2>3, <3>2, Nodes DEF TypeOK, BindsTo
      <4> QED BY <1>2, <4>1
    <3> QED BY <3>1, <3>2
  <2> QED BY <2>3 DEF CopyDeps, Copy
<1>6. ASSUME NEW u \in User, NEW g \in Group, CopyBuffer(u, g) PROVE CopyDeps'
  BY <1>6 DEF CopyBuffer
<1>7. ASSUME NEW u \in User, NEW g \in Group, Fill(u, g) PROVE CopyDeps'
  <2>1. PICK P : needs' = [needs EXCEPT ![Kern(g)] = P]
    BY <1>7 DEF Fill
  <2>2. \A h \in Group, i \in 1 .. MaxParams : needs'[Copy(h, i)] = needs[Copy(h, i)]
    BY <2>1, Nodes DEF TypeOK
  <2> QED BY <1>3, <2>2
<1>8. ASSUME NEW u \in User, NEW g \in Group,
             (\E c \in Core : Begin(u, g, c)) \/ EndParams(u, g) \/ Submit(u, g)
      PROVE  CopyDeps'
  BY <1>4, <1>8 DEF Begin, EndParams, Submit
<1>9. ASSUME NEW u \in User, Return(u) \/ (\E b \in Barrier : Wait(u, b)) PROVE CopyDeps'
  BY <1>4, <1>9 DEF Return, Wait
<1>10. ASSUME NEW n \in Node, RunOp(n) \/ StreamDone(n) PROVE CopyDeps'
  BY <1>4, <1>10 DEF RunOp, StreamDone, program_vars
<1>11. CASE UNCHANGED vars
  BY <1>4, <1>11 DEF vars
<1>12. CASE Finished
  BY <1>11, <1>12 DEF Finished
<1> QED BY <1>5, <1>6, <1>7, <1>8, <1>9, <1>10, <1>11, <1>12 DEF Next, Build

LEMMA KernelInOrder ==
  ASSUME IInv, KernelInv
  PROVE  KernelAfterPreds
<1> USE DEF IInv
<1>1. ASSUME NEW g \in Group, fine.at[Kern(g)] # "new"
      PROVE  /\ \A p \in needs[Kern(g)] : Done(p)
             /\ \A i \in 1 .. MaxParams : fine.at[Copy(g, i)] \in {"new", "done"}
  <2>1. /\ \A m \in Node : Kern(g) \in fine.nexts[m] => fine.at[m] = "done"
        /\ \A p \in Group : After(Kern(g), p) => Done(p)
    BY <1>1, Nodes, StartedIsReady
  <2>2. ASSUME NEW i \in 1 .. MaxParams, NEW p \in Group,
               Kern(g) \in fine.nexts[Copy(g, i)], After(Copy(g, i), p)
        PROVE  Done(p)
    <3>1. Copy(g, i) \in Node /\ fine.at[Copy(g, i)] = "done"
      BY <2>1, <2>2, Nodes
    <3> QED BY <2>2, <3>1, StartedIsReady
  <2>3. depends[g] = {}
    <3>1. Kern(g) \in Ready
      BY <1>1, Nodes DEF FineInv, Ok
    <3>2. phase[g] = "submitted"
      BY <3>1, ReadyIs
    <3> QED BY <3>2 DEF GroupInv
  <2>4. \A p \in needs[Kern(g)] : Done(p)
    BY <2>1, <2>2, <2>3, Nodes DEF KernelInv, TypeOK
  <2>5. ASSUME NEW i \in 1 .. MaxParams, fine.at[Copy(g, i)] # "new" PROVE fine.at[Copy(g, i)] = "done"
    <3>1. Copy(g, i) \in Ready /\ Copy(g, i) \in Node
      BY <2>5, Nodes DEF FineInv, Ok
    <3>2. fine.n_wake[Copy(g, i)] > 0
      BY <3>1, ReadyIs
    <3>3. Kern(g) \in fine.nexts[Copy(g, i)]
      BY <3>2 DEF CopyInv, CopyEdges
    <3> QED BY <2>1, <3>1, <3>3
  <2> QED BY <2>4, <2>5
<1> QED BY <1>1 DEF KernelAfterPreds

LEMMA CopyInOrder ==
  ASSUME IInv, CopyDeps
  PROVE  CopyAfterPreds
<1> USE DEF IInv
<1>1. ASSUME NEW g \in Group, NEW i \in 1 .. MaxParams, fine.at[Copy(g, i)] # "new",
             NEW p \in needs[Copy(g, i)]
      PROVE  Done(p)
  <2>1. Copy(g, i) \in Node /\ p \in Group /\ After(Copy(g, i), p)
    BY <1>1, Nodes DEF CopyDeps, TypeOK
  <2> QED BY <1>1, <2>1, StartedIsReady
<1> QED BY <1>1 DEF CopyAfterPreds

LEMMA KernelInvariant ==
  ASSUME OneBuilder
  PROVE  Spec => [](IInv /\ KernelInv)
<1>1. Init => IInv /\ KernelInv
  <2>1. Init => KernelInv
    BY Nodes DEF Init, KernelInv
  <2> QED BY <2>1, InitInv
<1>2. (IInv /\ KernelInv) /\ [Next]_vars => (IInv /\ KernelInv)'
  BY Inductive, KernelStep
<1> QED BY <1>1, <1>2, PTL DEF Spec

(* task::invoke: with one thread that submits, a kernel task runs when all *)
(* that depends_on named and all its copies are done.  Two submitting      *)
(* threads break it: the run coarse_task_race.                             *)
THEOREM KernelsInOrder ==
  ASSUME OneBuilder
  PROVE  Spec => []KernelAfterPreds
<1>1. IInv /\ KernelInv => KernelAfterPreds
  BY KernelInOrder
<1> QED BY <1>1, KernelInvariant, PTL

(* So does every copy, where no group copies from a buffer to a buffer;    *)
(* where one does, its second copy waits for nothing (coarse_task_copy).   *)
THEOREM TasksInOrder ==
  ASSUME OneBuilder, BufferCopies = FALSE
  PROVE  Spec => []RunsAfterPreds
<1>1. Init => CopyDeps
  BY Nodes DEF Init, CopyDeps
<1>2. IInv /\ CopyDeps /\ [Next]_vars => CopyDeps'
  BY CopyDepsStep
<1>3. IInv /\ CopyDeps => CopyAfterPreds
  BY CopyInOrder
<1>4. IInv /\ KernelAfterPreds /\ CopyAfterPreds => RunsAfterPreds
  BY DEF RunsAfterPreds, IInv
<1>5. Spec => []CopyDeps
  BY <1>1, <1>2, Invariant, PTL DEF Spec
<1> QED BY <1>3, <1>4, <1>5, Invariant, KernelsInOrder, PTL
-----------------------------------------------------------------------------
(* What a group waits for before it waits for anything, and never: itself. *)
NeedsInv ==
  \A g \in Group :
    /\ g \notin needs[Kern(g)]
    /\ phase[g] = "building" /\ (core[g] = "fill" \/ params[g] = 0) => needs[Kern(g)] = {}

LEMMA NeedsStep ==
  ASSUME IInv, NeedsInv, [Next]_vars
  PROVE  NeedsInv'
<1> USE DEF IInv
<1>0. /\ \A g, h \in Group : g # h => Kern(g) # Kern(h)
      /\ \A g, h \in Group, i \in 1 .. MaxParams : Kern(g) # Copy(h, i)
      /\ \A g \in Group : Kern(g) \in Node
  BY Nodes
<1>1. ASSUME NEW u \in User, NEW g \in Group, NEW c \in Core, Begin(u, g, c) PROVE NeedsInv'
  BY <1>1 DEF Begin, NeedsInv, TypeOK, GroupInv
<1>2. ASSUME NEW u \in User, NEW g \in Group, SetBufferParam(u, g) PROVE NeedsInv'
  <2>1. PICK P \in SUBSET Pending, copies \in BOOLEAN, i \in 1 .. MaxParams : BindsTo(g, P, copies, i)
    BY <1>2, SetBufferParamMakes
  <2>2. /\ UNCHANGED <<phase, core>> /\ phase[g] = "building" /\ core[g] # "fill" /\ i # 0
        /\ \A h \in Group \ {g} : needs'[Kern(h)] = needs[Kern(h)] /\ params'[h] = params[h]
        /\ needs'[Kern(g)] = needs[Kern(g)] \union P /\ params'[g] = i
    BY <1>0, <1>2, <2>1 DEF SetBufferParam, Building, TypeOK, BindsTo
  <2>3. g \notin P
    BY <2>2 DEF Pending
  <2> QED BY <2>2, <2>3 DEF NeedsInv
<1>3. ASSUME NEW u \in User, NEW g \in Group, CopyBuffer(u, g) PROVE NeedsInv'
  <2>1. PICK P \in SUBSET Pending, Q \in SUBSET Pending, dst \in BOOLEAN, src \in BOOLEAN,
             N \in SUBSET Node : BindsBoth(g, P, Q, dst, src, N)
    BY <1>3, CopyBufferMakes
  <2>2. 1 \in 1 .. MaxParams /\ 2 \in 1 .. MaxParams
    BY CoarseAssumption
  <2>3. /\ UNCHANGED <<phase, core>> /\ phase[g] = "building" /\ core[g] # "fill"
        /\ \A h \in Group \ {g} : needs'[Kern(h)] = needs[Kern(h)] /\ params'[h] = params[h]
        /\ needs'[Kern(g)] = P \union Q /\ params'[g] = 2
    BY <1>0, <1>3, <2>1, <2>2 DEF CopyBuffer, Building, TypeOK, BindsBoth
  <2>4. g \notin P \union Q
    BY <2>3 DEF Pending
  <2> QED BY <2>3, <2>4 DEF NeedsInv
<1>4. ASSUME NEW u \in User, NEW g \in Group, Fill(u, g) PROVE NeedsInv'
  <2>1. PICK P \in SUBSET Pending : needs' = [needs EXCEPT ![Kern(g)] = P]
    BY <1>4 DEF Fill
  <2>2. /\ phase[g] = "building" /\ phase' = [phase EXCEPT ![g] = "bound"]
        /\ UNCHANGED <<core, params>>
        /\ \A h \in Group \ {g} : needs'[Kern(h)] = needs[Kern(h)]
        /\ needs'[Kern(g)] = P
    BY <1>0, <1>4, <2>1 DEF Fill, Building, TypeOK
  <2>3. g \notin P
    BY <2>2 DEF Pending
  <2> QED BY <2>2, <2>3 DEF NeedsInv, TypeOK
<1>5. ASSUME NEW u \in User, NEW g \in Group, EndParams(u, g) \/ Submit(u, g) PROVE NeedsInv'
  BY <1>5 DEF EndParams, Submit, Building, NeedsInv, TypeOK
<1>6. ASSUME NEW u \in User, Return(u) \/ (\E b \in Barrier : Wait(u, b)) PROVE NeedsInv'
  BY <1>6 DEF Return, Wait, NeedsInv
<1>7. ASSUME NEW n \in Node, RunOp(n) \/ StreamDone(n) PROVE NeedsInv'
  BY <1>7 DEF RunOp, StreamDone, program_vars, NeedsInv
<1>8. CASE UNCHANGED vars
  BY <1>8 DEF vars, NeedsInv
<1>9. CASE Finished
  BY <1>8, <1>9 DEF Finished
<1> QED BY <1>1, <1>2, <1>3, <1>4, <1>5, <1>6, <1>7, <1>8, <1>9 DEF Next, Build

(* The stages, read in order.                                              *)
StageIf(g) ==
  IF phase[g] \in {"open", "building"} THEN "open" ELSE IF phase[g] = "bound" THEN "bound"
  ELSE IF fine.at[Kern(g)] \in {"new", "queued"} THEN "submitted"
  ELSE IF fine.at[Kern(g)] = "running" THEN "started" ELSE "done"

LEMMA StageIs ==
  /\ TypeOK => stage = [g \in Group |-> StageIf(g)]
  /\ TypeOK' => stage' = [g \in Group |-> StageIf(g)']
<1>1. TypeOK => \A g \in Group : phase[g] \in Phase
  BY DEF TypeOK
<1>2. TypeOK' => \A g \in Group : phase'[g] \in Phase
  BY DEF TypeOK
<1>3. TypeOK => stage = [g \in Group |-> StageIf(g)]
  BY <1>1 DEF stage, StageIf, Phase
<1>4. TypeOK' => stage' = [g \in Group |-> StageIf(g)']
  BY <1>2 DEF stage, StageIf, Phase
<1> QED BY <1>3, <1>4

LEMMA GraphSame ==
  ASSUME TypeOK, TypeOK', \A g \in Group : StageIf(g)' = StageIf(g), UNCHANGED needs
  PROVE  UNCHANGED graph!tg_vars
<1>1. stage' = stage
  BY StageIs
<1>2. before' = before
  BY DEF before, Kern
<1> QED BY <1>1, <1>2 DEF graph!tg_vars

LEMMA GraphOne ==
  ASSUME TypeOK, TypeOK', NEW g \in Group, \A h \in Group \ {g} : StageIf(h)' = StageIf(h)
  PROVE  /\ stage[g] = StageIf(g)
         /\ stage' = [stage EXCEPT ![g] = StageIf(g)']
  BY StageIs

LEMMA BeforeOne ==
  ASSUME TypeOK, NEW g \in Group, NEW P,
         \A h \in Group \ {g} : needs'[Kern(h)] = needs[Kern(h)],
         needs'[Kern(g)] = needs[Kern(g)] \union P
  PROVE  before' = [before EXCEPT ![g] = @ \union P]
  BY DEF before, Kern

(* What a group may be made to wait for is open no more.                   *)
LEMMA PendingStage ==
  ASSUME TypeOK, NEW P \in SUBSET Pending
  PROVE  P \in SUBSET Group /\ \A p \in P : stage[p] # "open"
  BY StageIs DEF Pending, StageIf

(* A task that has started could: all before it are done.                  *)
LEMMA GraphReady ==
  ASSUME IInv, KernelAfterPreds, NEW g \in Group, fine.at[Kern(g)] # "new"
  PROVE  graph!Ready(g)
<1> USE DEF IInv
<1>1. ASSUME NEW p \in needs[Kern(g)] PROVE stage[p] = "done"
  <2>1. p \in Group /\ Done(p)
    BY <1>1, Nodes DEF KernelAfterPreds, TypeOK
  <2>2. fine.at[Kern(p)] = "done"
    BY <2>1 DEF Done
  <2>3. Kern(p) \in Ready
    BY <2>1, <2>2, Nodes DEF FineInv, Ok
  <2>4. phase[p] = "submitted"
    BY <2>1, <2>3, ReadyIs
  <2> QED BY <2>1, <2>2, <2>4, StageIs DEF StageIf
<1> QED BY <1>1 DEF graph!Ready, before

(* A step that adds to what g waits for, or seals it, while g is open.     *)
LEMMA GraphBind ==
  ASSUME IInv, TypeOK', NEW g \in Group, phase[g] = "building", NEW P \in SUBSET Pending,
         \A h \in Group \ {g} : StageIf(h)' = StageIf(h) /\ needs'[Kern(h)] = needs[Kern(h)],
         needs'[Kern(g)] = needs[Kern(g)] \union P,
         StageIf(g)' \in {"open", "bound"}
  PROVE  graph!TGNext
<1> USE DEF IInv
<1>1. stage[g] = StageIf(g) /\ stage' = [stage EXCEPT ![g] = StageIf(g)']
  BY GraphOne
<1>2. before' = [before EXCEPT ![g] = @ \union P]
  BY BeforeOne
<1>3. P \in SUBSET Group /\ \A p \in P : stage[p] # "open"
  BY PendingStage
<1>4. StageIf(g) = "open"
  BY DEF StageIf
<1>5. CASE StageIf(g)' = "open"
  <2>1. stage' = stage
    BY <1>1, <1>4, <1>5 DEF stage
  <2> QED BY <1>1, <1>2, <1>3, <1>4, <2>1 DEF graph!TGNext, graph!DependsOn
<1>6. CASE StageIf(g)' = "bound"
  BY <1>1, <1>2, <1>3, <1>4, <1>6 DEF graph!TGNext, graph!Seal
<1> QED BY <1>5, <1>6

LEMMA GraphStep ==
  ASSUME OneBuilder, IInv, IInv', NeedsInv, KernelAfterPreds, KernelAfterPreds', [Next]_vars
  PROVE  [graph!TGNext]_(graph!tg_vars)
<1> USE DEF IInv
(* Most steps are not seen.                                                *)
<1>1. ASSUME UNCHANGED <<fine, needs>>,
             \A g \in Group : \/ phase'[g] = phase[g]
                              \/ phase[g] = "open" /\ phase'[g] = "building"
      PROVE  UNCHANGED graph!tg_vars
  <2>1. \A g \in Group : StageIf(g)' = StageIf(g)
    BY <1>1 DEF StageIf, Kern
  <2> QED BY <1>1, <2>1, GraphSame
<1>2. ASSUME NEW u \in User, NEW g \in Group, NEW c \in Core, Begin(u, g, c)
      PROVE  UNCHANGED graph!tg_vars
  BY <1>1, <1>2 DEF Begin, TypeOK
<1>3. ASSUME NEW u \in User, NEW g \in Group, SetBufferParam(u, g) PROVE graph!TGNext
  <2>1. PICK P \in SUBSET Pending, copies \in BOOLEAN, i \in 1 .. MaxParams : BindsTo(g, P, copies, i)
    BY <1>3, SetBufferParamMakes
  <2>2. /\ \A h \in Group \ {g} : needs'[Kern(h)] = needs[Kern(h)]
        /\ needs'[Kern(g)] = needs[Kern(g)] \union P
    BY <2>1, Nodes DEF TypeOK, BindsTo
  <2>3. \A h \in Group : fine'.at[Kern(h)] = fine.at[Kern(h)]
    BY <2>1, Nodes DEF Made, BindsTo
  <2>4. phase' = phase /\ phase[g] = "building"
    BY <1>3 DEF SetBufferParam, Building
  <2>5. \A h \in Group : StageIf(h)' = StageIf(h)
    BY <2>3, <2>4 DEF StageIf, Kern
  <2>6. StageIf(g) = "open"
    BY <2>4 DEF StageIf
  <2> QED BY <2>2, <2>4, <2>5, <2>6, GraphBind
<1>4. ASSUME NEW u \in User, NEW g \in Group, CopyBuffer(u, g) PROVE graph!TGNext
  <2>1. PICK P \in SUBSET Pending, Q \in SUBSET Pending, dst \in BOOLEAN, src \in BOOLEAN,
             N \in SUBSET Node : BindsBoth(g, P, Q, dst, src, N)
    BY <1>4, CopyBufferMakes
  <2>2. PICK R \in SUBSET Pending : R = P \union Q
    OBVIOUS
  <2>3. 1 \in 1 .. MaxParams /\ 2 \in 1 .. MaxParams
    BY CoarseAssumption
  <2>4. phase' = phase /\ phase[g] = "building" /\ needs[Kern(g)] = {}
    BY <1>4 DEF CopyBuffer, Building, NeedsInv
  <2>5. /\ \A h \in Group \ {g} : needs'[Kern(h)] = needs[Kern(h)]
        /\ needs'[Kern(g)] = needs[Kern(g)] \union R
    BY <2>1, <2>2, <2>3, <2>4, Nodes DEF TypeOK, BindsBoth
  <2>6. \A h \in Group : fine'.at[Kern(h)] = fine.at[Kern(h)]
    BY <2>1, <2>3, Nodes DEF Made, BindsBoth
  <2>7. \A h \in Group : StageIf(h)' = StageIf(h)
    BY <2>4, <2>6 DEF StageIf, Kern
  <2>8. StageIf(g) = "open"
    BY <2>4 DEF StageIf
  <2> QED BY <2>4, <2>5, <2>7, <2>8, GraphBind
<1>5. ASSUME NEW u \in User, NEW g \in Group, EndParams(u, g) PROVE graph!TGNext
  <2>1. /\ phase[g] = "building" /\ phase' = [phase EXCEPT ![g] = "bound"]
        /\ UNCHANGED <<fine, needs>>
    BY <1>5 DEF EndParams, Building
  <2>2. \A h \in Group \ {g} : StageIf(h)' = StageIf(h) /\ needs'[Kern(h)] = needs[Kern(h)]
    BY <2>1 DEF StageIf, Kern, TypeOK
  <2>3. StageIf(g)' = "bound" /\ needs'[Kern(g)] = needs[Kern(g)] \union {}
    BY <2>1 DEF StageIf, TypeOK, Kern
  <2>4. {} \in SUBSET Pending
    OBVIOUS
  <2> QED BY <2>1, <2>2, <2>3, <2>4, GraphBind
<1>6. ASSUME NEW u \in User, NEW g \in Group, Fill(u, g) PROVE graph!TGNext
  <2>1. PICK P \in SUBSET Pending : needs' = [needs EXCEPT ![Kern(g)] = P]
    BY <1>6 DEF Fill
  <2>2. /\ phase[g] = "building" /\ phase' = [phase EXCEPT ![g] = "bound"]
        /\ UNCHANGED fine /\ needs[Kern(g)] = {}
    BY <1>6 DEF Fill, Building, NeedsInv
  <2>3. /\ \A h \in Group \ {g} : needs'[Kern(h)] = needs[Kern(h)]
        /\ needs'[Kern(g)] = needs[Kern(g)] \union P
    BY <2>1, <2>2, Nodes DEF TypeOK
  <2>4. \A h \in Group \ {g} : StageIf(h)' = StageIf(h)
    BY <2>2 DEF StageIf, Kern, TypeOK
  <2>5. StageIf(g)' = "bound"
    BY <2>2 DEF StageIf, TypeOK
  <2> QED BY <2>2, <2>3, <2>4, <2>5, GraphBind
<1>7. ASSUME NEW u \in User, NEW g \in Group, Submit(u, g) PROVE graph!TGNext
  <2>1. /\ phase[g] = "bound" /\ phase' = [phase EXCEPT ![g] = "submitted"] /\ UNCHANGED needs
    BY <1>7 DEF Submit
  <2>2. \A h \in Group \ {g} : fine'.at[Kern(h)] = fine.at[Kern(h)]
    BY <1>7, SubmitMakes, Nodes
  <2>3. \A h \in Group \ {g} : StageIf(h)' = StageIf(h)
    BY <2>1, <2>2 DEF StageIf, Kern, TypeOK
  <2>4. StageIf(g) = "bound" /\ StageIf(g)' \in {"submitted", "started", "done"}
    BY <2>1 DEF StageIf, TypeOK
  <2>5. stage[g] = StageIf(g) /\ stage' = [stage EXCEPT ![g] = StageIf(g)']
    BY <2>3, GraphOne
  <2>6. before' = before
    BY <2>1 DEF before, Kern
  <2>7. ASSUME StageIf(g)' # "submitted" PROVE graph!Ready(g)
    <3>1. fine'.at[Kern(g)] # "new"
      BY <2>1, <2>7 DEF StageIf, TypeOK, Kern
    <3>2. ASSUME NEW p \in needs[Kern(g)] PROVE stage[p] = "done"
      <4>1. p \in Group \ {g}
        BY <3>2, Nodes DEF NeedsInv, TypeOK
      <4>2. fine'.at[Kern(p)] = "done"
        BY <2>1, <3>1, <3>2 DEF KernelAfterPreds, Done, Kern
      <4>3. fine.at[Kern(p)] = "done"
        BY <2>2, <4>1, <4>2
      <4>4. Kern(p) \in Ready
        BY <4>1, <4>3, Nodes DEF FineInv, Ok
      <4>5. phase[p] = "submitted"
        BY <4>1, <4>4, ReadyIs
      <4> QED BY <4>1, <4>3, <4>5, StageIs DEF StageIf
    <3> QED BY <3>2 DEF graph!Ready, before
  <2>8. graph!SubmitTask(g)
    BY <2>4, <2>5, <2>6, <2>7 DEF graph!SubmitTask
  <2> QED BY <2>8 DEF graph!TGNext
<1>8. ASSUME NEW u \in User, Return(u) PROVE UNCHANGED graph!tg_vars
  BY <1>1, <1>8 DEF Return
<1>9. ASSUME NEW u \in User, NEW b \in Barrier, Wait(u, b) PROVE UNCHANGED graph!tg_vars
  <2>1. \A h \in Group : fine'.at[Kern(h)] = fine.at[Kern(h)]
    <3>1. \A m \in Node \ {Sync(b)} : fine'.at[m] = fine.at[m]
      BY <1>9, WaitMakes
    <3> QED BY <3>1, Nodes
  <2>2. UNCHANGED <<phase, needs>>
    BY <1>9 DEF Wait
  <2>3. \A h \in Group : StageIf(h)' = StageIf(h)
    BY <2>1, <2>2 DEF StageIf, Kern
  <2> QED BY <2>2, <2>3, GraphSame
<1>10. ASSUME NEW n \in Node, RunOp(n) \/ StreamDone(n) PROVE [graph!TGNext]_(graph!tg_vars)
  <2>1. /\ fine.at[n] \in {"queued", "running"} /\ fine'.at[n] \in {"running", "done"}
        /\ fine.at[n] = "running" => fine'.at[n] = "done"
        /\ \A m \in Node \ {n} : \/ fine'.at[m] = fine.at[m]
                                 \/ fine.at[m] = "new" /\ fine'.at[m] = "queued"
    BY <1>10, RunMakes
  <2>2. UNCHANGED <<phase, needs>>
    BY <1>10 DEF RunOp, StreamDone, program_vars
  <2>3. ASSUME NEW h \in Group, Kern(h) # n PROVE StageIf(h)' = StageIf(h)
    <3>1. \/ fine'.at[Kern(h)] = fine.at[Kern(h)]
          \/ fine.at[Kern(h)] = "new" /\ fine'.at[Kern(h)] = "queued"
      BY <2>1, <2>3, Nodes
    <3> QED BY <2>2, <3>1 DEF StageIf, Kern
  <2>4. CASE \A g \in Group : n # Kern(g)
    <3>1. \A h \in Group : StageIf(h)' = StageIf(h)
      BY <2>3, <2>4
    <3> QED BY <2>2, <3>1, GraphSame
  <2>5. ASSUME NEW g \in Group, n = Kern(g) PROVE graph!TGNext
    <3>1. \A h \in Group \ {g} : StageIf(h)' = StageIf(h)
      BY <2>3, <2>5, Nodes
    <3>2. stage[g] = StageIf(g) /\ stage' = [stage EXCEPT ![g] = StageIf(g)']
      BY <3>1, GraphOne
    <3>3. before' = before
      BY <2>2 DEF before, Kern
    <3>4. phase[g] = "submitted"
      <4>1. Kern(g) \in Ready
        BY <2>1, <2>5, Nodes DEF FineInv, Ok
      <4> QED BY <4>1, ReadyIs
    <3>5. CASE fine.at[n] = "queued"
      <4>1. StageIf(g) = "submitted" /\ StageIf(g)' \in {"started", "done"}
        BY <2>1, <2>2, <2>5, <3>4, <3>5 DEF StageIf, Kern
      <4>2. graph!Ready(g)
        BY <2>5, <3>5, GraphReady
      <4> QED BY <3>2, <3>3, <4>1, <4>2 DEF graph!TGNext, graph!Start
    <3>6. CASE fine.at[n] = "running"
      <4>1. StageIf(g) = "started" /\ StageIf(g)' = "done"
        BY <2>1, <2>2, <2>5, <3>4, <3>6 DEF StageIf, Kern
      <4> QED BY <3>2, <3>3, <4>1 DEF graph!TGNext, graph!Finish
    <3> QED BY <2>1, <3>5, <3>6
  <2> QED BY <2>4, <2>5
<1>11. CASE UNCHANGED vars
  BY <1>1, <1>11 DEF vars
<1>12. CASE Finished
  BY <1>11, <1>12 DEF Finished
<1> QED BY <1>2, <1>3, <1>4, <1>5, <1>6, <1>7, <1>8, <1>9, <1>10, <1>11, <1>12 DEF Next, Build

LEMMA GraphInit ==
  ASSUME Init
  PROVE  graph!TGInit
<1>1. stage = [g \in Group |-> "open"]
  BY DEF Init, stage
<1>2. before = [g \in Group |-> {}]
  BY Nodes DEF Init, before
<1> QED BY <1>1, <1>2 DEF graph!TGInit

(* Coarse tasks keep the promise of TaskGraph, on which the proofs about   *)
(* the dependency manager rely: each step of the CUDA back end's tasks is, *)
(* seen as a step of the groups, one that TaskGraph allows, or none.       *)
THEOREM Implements ==
  ASSUME OneBuilder
  PROVE  Spec => ImplementsGraph
<1>1. Init => NeedsInv
  BY Nodes DEF Init, NeedsInv
<1>2. IInv /\ NeedsInv /\ [Next]_vars => NeedsInv'
  BY NeedsStep
<1>3. Spec => []NeedsInv
  BY <1>1, <1>2, Invariant, PTL DEF Spec
<1>4. IInv /\ IInv' /\ NeedsInv /\ KernelAfterPreds /\ KernelAfterPreds' /\ [Next]_vars
        => [graph!TGNext]_(graph!tg_vars)
  BY GraphStep
<1>5. Init => graph!TGInit
  BY GraphInit
<1> QED BY <1>3, <1>4, <1>5, Invariant, KernelsInOrder, PTL DEF Spec, ImplementsGraph, graph!TGSpec
=============================================================================
