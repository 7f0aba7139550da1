SPECIFICATION FairSpec
CONSTANTS
  Processes = 2
  MaxJobs = 2
  Argument <- MCArgument
  Typed <- MCTyped
  MaxSignals = 2
INVARIANTS
  IInv
  JobIdsIncrease
  NoSilentLoss
PROPERTIES
  OnlyFinishedRemoved
  OnlyHandlersDangle
  ImplementsJobTable
  WaitsForRunning
  QuitKillReturns
CHECK_DEADLOCK FALSE
