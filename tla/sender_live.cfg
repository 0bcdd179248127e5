SPECIFICATION LiveSpec
CONSTANTS
  Threads = {t1, t2, t3}
  Jobs = {j1, j2, j3}
  NoJob = NoJob
  MaxNonce = 4
  MaxCrashes = 0
  Faults = {"send"}
INVARIANTS
  NonceFresh
  NoncesAccounted
PROPERTIES
  EveryJobMined
CHECK_DEADLOCK FALSE
