SPECIFICATION Spec
CONSTANTS
  a = a
  b = b
  c1 = c1
  c2 = c2
  READONLY = READONLY
  Client <- Clients
  Command <- MCCommand
  MaxVersion = 2
  ServerOf <- MCServerOf
  Reads <- MCReads
  Offsets <- MCOffsets
  Call <- MCCall
  MaxBatch = 2
CHECK_DEADLOCK FALSE
INVARIANTS
  RepliesAreOfTheIssuedBatch
  NegativeRefusedIffSeveralServers
  UndefinedIffCommandLost
