CONSTANTS
  Task = {t1, t2, t3}
  Buffer = {a}
  Device = {dev}
  HOST = host
  NONE = none
  Concurrent = FALSE
SPECIFICATION MCFairSpec
PROPERTIES
  AllComplete
