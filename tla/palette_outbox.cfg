SPECIFICATION Spec
CONSTANTS
  MaxNum = 2
  Deposits = {1, 2}
  DepositHeight <- EarlyDeposits
  ValsetAt <- LateChange
  MaxHeight = 6
  Genesis = 1
  TxIds = {1, 2, 3, 4}
  BlockConfig = 0
  DefaultDistance = 1
  Word = 64
  ForceHeights = {1}
  MaxCrashes = 1
  Faults = {"drop"}
INVARIANTS
  NoDepositLost
PROPERTIES
  IsOutbox
