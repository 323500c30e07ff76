SPECIFICATION FairSpec
CONSTANTS
  a = a
  b = b
  c = c
  NoServer = NoServer
  Server <- MCServer
  Slots <- MCSlots
  Views <- MCViews
  Configs <- MCConfigs
  MaxLoads = 2
INVARIANTS
  FreshLoadIsTheAnswer
  LookupsAreFromAnswers
PROPERTIES
  LoadedMeansConnected
  LoadReturns
