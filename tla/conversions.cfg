SPECIFICATION Spec
CONSTANTS
  Nibble = 2
  Uint32Len = 1
  Uint64Len = 2
  HashLen = 4
  Keys = {1, 2, 3}
  AddressOf <- Addresses
  SigLen = 2
  Events <- SomeEvents
  Heights <- SomeHeights
  Targets <- SomeTargets
  Contracts = {1, 2}
  Chains = {2, 3}
  MaxNodes = 9
  MaxSigs = 3
  Nothing = Nothing
INVARIANTS
  TypeOK
  RecordsComeBack
  KeyIsOfIndex
  RecordsAreInOrder
  DepositsAreHandedOn
  KeepersAreCompared
  
CHECK_DEADLOCK FALSE
