SPECIFICATION HistorySpec
CONSTANTS
  NumATM = 1
  AccountId = {1, 2}
  Command <- MCCommand
  MaxLines = 2
  Rates = {5}
INVARIANT ScreenAddsUp
CHECK_DEADLOCK FALSE
