SPECIFICATION ClusterSpec
CONSTANTS
  Waiter = {w1, w2}
  Groups <- MCGroups
  Callbacks <- MCCallbacks
CHECK_DEADLOCK FALSE
INVARIANTS
  ClusterTypeOK
  ReplyIsComplete
PROPERTIES
  ImplementsAsyncCall
