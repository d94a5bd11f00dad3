CONSTANTS
  Group = {g1, g2}
  User = {u, w}
  Builder = {u}
  Barrier = {b}
  Cores = {"kernel", "host", "copy", "fill"}
  MaxParams = 2
  MaxCopies = 2
  NONE = none
  BufferCopies = TRUE
SPECIFICATION FairSpec
PROPERTIES
  GroupsComplete
  WaitsReturn
