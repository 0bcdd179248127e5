SPECIFICATION Spec
CONSTANTS
  Deposits = {"d1", "d3"}
  DepositHeight <- AroundTheChange
  NewKeepers <- OneChange
  NoKeepers = NoKeepers
  MaxHeight = 6
  InitEpoch = 1
  Routes = {r1, r2}
  ChanLen = 1
  Word = 16
  StartHeights = {0, 1}
  MaxCrashes = 1
  NoDeposit = NoDeposit
  Monitor = Monitor
  TxIds = {x1, x2, x3}
  NoTxId = NoTxId
  NoTx = NoTx
  Faults = {"eccdRead", "merkle", "proof", "send", "lostReply", "db"}
SYMMETRY Symmetry
INVARIANTS
  TypeOK
  EpochsOnPalette
  OnlyEpochsLoseDeposits
CHECK_DEADLOCK FALSE
