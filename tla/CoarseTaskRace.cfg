CONSTANTS
  Group = {g1, g2}
  User = {u, w}
  Builder = {u, w}
  Barrier = {b}
  Cores = {"kernel"}
  MaxParams = 2
  MaxCopies = 2
  NONE = none
  BufferCopies = FALSE
SPECIFICATION Spec
INVARIANTS
  KernelAfterPreds
