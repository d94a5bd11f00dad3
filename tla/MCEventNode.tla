---------------------------- MODULE MCEventNode ----------------------------
(* Small instances of EventNode: the nodes are interchangeable, and so are *)
(* the user threads and the threads of the pool.                           *)
EXTENDS EventNode, TLC

Symmetry == Permutations(Node) \union Permutations(User) \union Permutations(Worker)
=============================================================================
