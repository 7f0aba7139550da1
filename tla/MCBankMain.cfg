SPECIFICATION MainFairSpec
CONSTANTS
  NumATM = 2
  AccountId = {1}
  Command <- MCCommand
  MaxLines = 1
  Rates = {5}
INVARIANTS
  BankOutlivesThreads
  BooksClosed
  NobodyStuck
PROPERTIES
  ImplementsBank
  MainReturns
CHECK_DEADLOCK FALSE
