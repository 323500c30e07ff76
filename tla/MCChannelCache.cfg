SPECIFICATION FairSpec
CONSTANTS
  t1 = t1
  t2 = t2
  t3 = t3
  ch1 = ch1
  ch2 = ch2
  ch3 = ch3
  Thread <- MCThread
  Channel <- MCChannel
  Request <- MCRequest
  NoPasswd = ""
  FilePasswd <- MCFilePasswd
INVARIANTS
  TypeOK
  OneChannelPerServer
PROPERTIES
  ImplementsChannelTable
  GetChannelReturns
