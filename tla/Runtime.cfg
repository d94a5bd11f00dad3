CONSTANTS
  Actor = {a1, a2}
  ONE = a1
  MAIN = main
  EMPTY = empty
  TAIL = tail
  Items = 4
  Barriers = 2
  Launches = 3
  Command = {t1, t2, t3}
  Width = 3
  Object = {b1, b2, b3}
  FIRST = b1
  NONE = none
  Group = {g1, g2, g3}
  SharedGroup = {g1, g2}
  Reader = {g1}
  Managers = 3
  Buffers = {1, 2}
  Word = 2
  MaxAlign = 4
  ArrayAlign = 4
  Arguments <- SomeArguments
  MaxArgs = 3
  SharedArguments <- SomeAccessors
  MaxShared = 2
  Tasks = 3
  Kinds = {"h2d", "kernel", "none"}
  Kernel = {k1, k2}
  NoOne = nobody
  Jobs <- SomeJobs
  MAX_N_ARGS = 3
  ARG_BUF_SIZE = 8
SPECIFICATION Spec
INVARIANTS
  TypeOK
  WorkItemsMeet
  WaitIsEnough
  WrittenBack
  OneDependency
  SumIsRight
  BackendStands
  DataIsReady
  RunsOwn
PROPERTIES
  CallsReturn
