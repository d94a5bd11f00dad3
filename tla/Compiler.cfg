CONSTANTS
  cpu = cpu
  gpu = gpu
SPECIFICATION Spec
INVARIANTS
  SameEffects
  ReadsBack
  UnitStands
  AllLinked
PROPERTIES
  KernelsEnd
CHECK_DEADLOCK FALSE
