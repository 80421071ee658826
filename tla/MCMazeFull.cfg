SPECIFICATION FairSpec
CONSTANTS
  Rows = 3
  Cols = 3
  VIEW_DEPTH = 1
  Avatar = {A, B}
  Solid = {wall}
  EMPTY = EMPTY
  Templates <- OneCell
CHECK_DEADLOCK FALSE
PROPERTIES
  PlacementReturns
