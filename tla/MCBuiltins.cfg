SPECIFICATION Spec
CONSTANTS
  p1 = p1
  d1 = d1
  d2 = d2
  d3 = d3
  Process = {p1}
  NoProcess = NoProcess
  Dir = {d1, d2, d3}
  LongPath = {d3}
  NoPath = NoPath
  MaxTime = 3
INVARIANTS
  IInv
  NoSecondTwice
  StoppedNotCounted
  DashLeadsBack
CHECK_DEADLOCK FALSE
