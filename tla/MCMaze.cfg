SPECIFICATION FairSpec
CONSTANTS
  Rows = 3
  Cols = 4
  VIEW_DEPTH = 1
  Avatar = {A, B}
  Solid = {wall}
  EMPTY = EMPTY
  Templates <- Mazes
CHECK_DEADLOCK FALSE
INVARIANTS
  TypeOK
  MazeMatchesPlayers
  TargetIsThere
  SolidStays
  NoGhost
  TargetNeverSolid
  InBounds
PROPERTIES
  MazeReleased
  PlacementFindsRoom
