SPECIFICATION Spec
CONSTANTS
  MaxNum = 2
  Deposits = {1}
  DepositHeight <- OneDeposit
  ValsetAt <- LateChange
  MaxHeight = 6
  Genesis = 1
  TxIds = {1, 2, 3, 4}
  BlockConfig = 0
  DefaultDistance = 1
  Word = 64
  ForceHeights = {}
  MaxCrashes = 0
  Faults = {"stall"}
INVARIANTS
  NoDepositLost
