SPECIFICATION Spec
CONSTANTS
  m0 = m0
  m1 = m1
  s0 = s0
  s1 = s1
  NoServer = NoServer
  Server <- MCServer
  Map <- MCMap
  Command <- MCBeyondCommand
  TypeOf <- MCBeyondTypeOf
  SlotOf <- MCBeyondSlotOf
  UseMaster = FALSE
  MaxBatch = 2
  MaxTries = 1
INVARIANTS
  BeyondBatchThrowsInvalidArgument
