SPECIFICATION Spec
CONSTANTS
  Threads = {t1, t2}
  Jobs = {j1, j2, j3, j4}
  NoJob = NoJob
  MaxNonce = 4
  MaxCrashes = 1
  Faults = {}
INVARIANTS
  BackupIsAhead
CHECK_DEADLOCK FALSE
