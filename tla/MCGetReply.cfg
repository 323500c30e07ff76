SPECIFICATION Spec
CONSTANTS
  Replies <- MCReplies
  Types <- MCTypes
  Parsed <- MCParsed
  Fits <- MCFits
  Code <- MCCode
  MaxSize = 4
CHECK_DEADLOCK FALSE
INVARIANTS
  ErrorNeverAValue
  NilNeverThrows
  LaterElementsChangeNothing
  ElementsKeepTheirPlaces
  NarrowReadsCharacters
