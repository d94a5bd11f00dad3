CONSTANTS
  Node = {n1, n2, n3}
  User = {u1, u2}
  Worker = {w}
  NONE = none
  CounterMod = 65536
  MaxPreds = 2
SPECIFICATION FairSpec
PROPERTIES
  WaitsReturn
  ImplementsFairGraph
