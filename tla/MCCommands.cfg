SPECIFICATION Spec
CONSTANTS
  Key <- MCKey
  SlotOf <- MCSlotOf
  KeyLists <- MCKeyLists
  Value <- MCValue
  Text <- MCText
  Seconds <- MCSeconds
  Fields <- MCFields
  Pairs <- MCPairs
  Values <- MCValues
  Args <- MCArgs
  MaxCalls = 3
CHECK_DEADLOCK FALSE
INVARIANTS
  KeysAreTheProgramsKeys
  RefusedForCause
