SPECIFICATION Spec
CONSTANTS
  Threads = {t1, t2, t3}
  Jobs = {j1, j2, j3, j4}
  NoJob = NoJob
  MaxNonce = 4
  MaxCrashes = 1
  Faults = {"estimate", "send", "lostReply", "nonceAt"}
SYMMETRY Symmetry
INVARIANTS
  TypeOK
  OneOwner
CHECK_DEADLOCK FALSE
