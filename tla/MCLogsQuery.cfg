SPECIFICATION Spec
CONSTANTS
  Logs <- MCLogs
  Time <- MCTime
  Filters <- MCFilters
  NoFilter = "all"
  NoneFilters = {"none"}
  Match <- MCMatch
  PageSize = 2
  Interactions = {i1, i2}
  NoMessage = NoMessage
INVARIANTS
  TypeOK
  PagesAreFilled
  SearchIsKept
  WalkMissesNothing
CHECK_DEADLOCK FALSE
SYMMETRY Symmetry
