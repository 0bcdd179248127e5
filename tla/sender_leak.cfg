SPECIFICATION Spec
CONSTANTS
  Threads = {t1, t2}
  Jobs = {j1, j2}
  NoJob = NoJob
  MaxNonce = 4
  MaxCrashes = 0
  Faults = {"estimate"}
INVARIANTS
  NoncesAccounted
CHECK_DEADLOCK FALSE
