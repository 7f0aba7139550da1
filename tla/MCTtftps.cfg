SPECIFICATION FairSpec
CONSTANTS
  a1 = a1
  a2 = a2
  a3 = a3
  a4 = a4
  f1 = f1
  f2 = f2
  k1 = k1
  k2 = k2
  Addr = {a1, a2, a3, a4}
  Key <- Keys
  NoKey = NoKey
  Name = {f1, f2}
  NoName = NoName
  Directory <- Nothing
  Upload <- Uploads
  CLIENTS = 3
  Failures = 2
  BlockRange = 3
  MaxWrites = 2
INVARIANTS
  IInv
  FileInOrder
  AckedIsWritten
  SessionPeer
PROPERTIES
  ImplementsFileStore
  SessionEnds
  SessionAdvances
CHECK_DEADLOCK FALSE
