CONSTANTS
  Cells = {c1, c2, c3, c4}
  Vars = {"x", "y"}
  InitialCapacity = 1
  MaxSize = 2
  Emptying = TRUE
  MaxStale = 0
SPECIFICATION Spec
INVARIANT VisitsValid
SYMMETRY CellSymmetry
CHECK_DEADLOCK FALSE
