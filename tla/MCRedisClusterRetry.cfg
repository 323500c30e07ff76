SPECIFICATION FairSpec
CONSTANTS
  m0 = m0
  m1 = m1
  s0 = s0
  s1 = s1
  NoServer = NoServer
  Server <- MCServer
  Map <- MCMap
  Command <- MCRetryCommand
  TypeOf <- MCRetryTypeOf
  SlotOf <- MCRetrySlotOf
  UseMaster = FALSE
  MaxBatch = 3
  MaxTries = 2
INVARIANTS
  LastWriteWins
PROPERTIES
  ExecuteReturns
