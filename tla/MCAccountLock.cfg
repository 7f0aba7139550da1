SPECIFICATION FairSpec
CONSTANT
  Thread = {t1, t2, t3}
INVARIANTS
  IInv
  Exclusion
  NobodyStuck
PROPERTIES
  ImplementsReadersWriterLock
  ReaderGetsIn
  EveryoneGetsOut
CHECK_DEADLOCK TRUE
