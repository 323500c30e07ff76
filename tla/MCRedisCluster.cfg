SPECIFICATION Spec
CONSTANTS
  m0 = m0
  m1 = m1
  s0 = s0
  s1 = s1
  NoServer = NoServer
  Server <- MCServer
  Map <- MCMap
  Command <- MCCommand
  TypeOf <- MCTypeOf
  SlotOf <- MCSlotOf
  UseMaster = FALSE
  MaxBatch = 3
  MaxTries = 1
PROPERTIES
  ImplementsBatchCall
INVARIANTS
  TypeOK
  ReplyMatchesCommand
  NoReplyBeyondBatch
  UncoveredSlotBlocksBatch
  OnlyReadsBehindSystemRedirected
  MapperDeletedTwiceOnlyOnPartialBuild
