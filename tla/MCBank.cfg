SPECIFICATION Spec
CONSTANTS
  NumATM = 2
  AccountId = {1, 2}
  Command <- MCCommand
  MaxLines = 2
  Rates = {5}
INVARIANTS
  IInv
  NoBalanceRace
  NoDanglingIterator
  NonNegative
  LogTruth
  ScreenIsSnapshot
  InsideNeverWaits
PROPERTY
  HolderAdvances
CHECK_DEADLOCK FALSE
