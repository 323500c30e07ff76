SPECIFICATION FairSpec
CONSTANTS
  Waiter = {w1, w2}
  Callbacks <- MCCallbacks
INVARIANTS
  EndsAsTheCallDid
  CallbackRunsOnce
  FreedInFlightIffDroppedEarly
  SelfJoinBlocksEveryWaiter
PROPERTIES
  WaitEnds
CHECK_DEADLOCK FALSE
