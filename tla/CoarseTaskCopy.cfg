CONSTANTS
  Group = {g1, g2}
  User = {u}
  Builder = {u}
  Barrier = {b}
  Cores = {"kernel", "copy"}
  MaxParams = 2
  MaxCopies = 2
  NONE = none
  BufferCopies = TRUE
SPECIFICATION Spec
INVARIANTS
  CopyAfterPreds
