SPECIFICATION KeySpec
CONSTANTS
  Byte <- MCTagByte
  Open = 123
  Close = 125
  MaxLen = 6
  Others <- MCOthers
CHECK_DEADLOCK FALSE
INVARIANTS
  HashedByTag
  CrcIsXmodem
PROPERTIES
  TagSettles
