SPECIFICATION NoStatusSpec
CONSTANTS
  NumATM = 2
  AccountId = {1, 2}
  Command <- MCCommand
  MaxLines = 2
  Rates = {5}
INVARIANTS
  MoneyConserved
PROPERTIES
  ImplementsAtomicBank
CHECK_DEADLOCK FALSE
