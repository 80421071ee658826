SPECIFICATION Spec
CONSTANTS
  Rows = 5
  Cols = 5
  VIEW_DEPTH = 3
  Avatar = {A, B}
  Solid = {wall}
  EMPTY = EMPTY
SYMMETRY Sym
INVARIANTS
  FireIsSymmetric
  TargetIsInView
  ViewIsPatch
