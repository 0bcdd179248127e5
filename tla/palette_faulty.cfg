SPECIFICATION Spec
CONSTANTS
  MaxNum = 1
  Deposits = {1, 2}
  DepositHeight <- EarlyDeposits
  ValsetAt <- ThereAndBack
  MaxHeight = 5
  Genesis = 1
  TxIds = {1, 2, 3, 4}
  BlockConfig = 0
  DefaultDistance = 1
  Word = 64
  ForceHeights = {1}
  MaxCrashes = 1
  Faults = {"filter", "stall", "drop", "db"}
INVARIANTS
  TypeOK
  EpochsOnPoly
  
