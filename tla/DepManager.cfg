CONSTANTS
  Task = {t1, t2, t3}
  Buffer = {a, b}
  Device = {dev, gpu}
  HOST = host
  NONE = none
  Concurrent = FALSE
SPECIFICATION MCSpec
SYMMETRY Symmetry
INVARIANTS
  TypeOK
  NoConflict
  OwnerHasLatest
  Coherent
  KernelsReadLatest
  HostReadsLatest
