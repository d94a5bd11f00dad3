CONSTANTS
  Node = {n1, n2, n3}
  User = {u1, u2}
  Worker = {w, x}
  NONE = none
  CounterMod = 65536
  MaxPreds = 2
SPECIFICATION Spec
SYMMETRY Symmetry
INVARIANTS
  TypeOK
  StartAfterPreds
  BarrierWaits
  NoLostWakeup
PROPERTIES
  ImplementsGraph
