SPECIFICATION Spec
CONSTANTS
  Handles = {"h1", "h2"}
  First = "h1"
  Calls = {"info", "find_node", "get_mutable_detailed", "get_mutable_most_recent", "get_immutable", "put"}
  Kind <- MCKind
  Target <- MCTarget
  Items <- MCItems
  MaxCalls = 2
  MaxResponses = 2
INVARIANTS
  PanicsOnlyAfterLastDrop
  Delivered
PROPERTIES
  MostRecentWins
  Released
CHECK_DEADLOCK FALSE
