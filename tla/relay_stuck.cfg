SPECIFICATION LiveSpec
CONSTANTS
  Deposits = {"d1", "d3"}
  DepositHeight <- AroundTheChange
  NewKeepers <- OneChange
  NoKeepers = NoKeepers
  MaxHeight = 5
  InitEpoch = 1
  Routes = {r1}
  Monitor = Monitor
  ChanLen = 1
  Word = 16
  StartHeights = {0}
  MaxCrashes = 0
  NoDeposit = NoDeposit
  NoJob = NoJob
  MaxNonce = 3
  Faults = {"send"}
PROPERTIES
  ReturnedNonceIsUsed
CHECK_DEADLOCK FALSE
