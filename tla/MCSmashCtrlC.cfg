SPECIFICATION Spec
CONSTANTS
  Processes = 2
  MaxJobs = 2
  Argument <- MCArgument
  Typed <- MCTyped
  MaxSignals = 2
PROPERTIES
  CtrlCKillsForeground
CHECK_DEADLOCK FALSE
