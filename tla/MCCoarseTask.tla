--------------------------- MODULE MCCoarseTask ---------------------------
(* Small instances of CoarseTask.                                          *)
EXTENDS CoarseTask, TLC

Symmetry == Permutations(Group) \union Permutations(User) \union Permutations(Barrier)
=============================================================================
