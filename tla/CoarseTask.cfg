CONSTANTS
  Group = {g1, g2, g3}
  User = {u}
  Builder = {u}
  Barrier = {b}
  Cores = {"kernel"}
  MaxParams = 2
  MaxCopies = 2
  NONE = none
  BufferCopies = FALSE
SPECIFICATION Spec
SYMMETRY Symmetry
INVARIANTS
  RunsAfterPreds
  BarrierReturnsInTime
PROPERTIES
  ImplementsGraph
