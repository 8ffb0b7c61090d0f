CONSTANTS
  Cells = {c1, c2, c3, c4}
  Vars = {"x", "y"}
  InitialCapacity = 1
  MaxSize = 2
  Emptying = FALSE
  MaxStale = 1
SPECIFICATION Spec
INVARIANTS VisitsValid ReachableInUse
PROPERTY CollectsAllGarbage
SYMMETRY CellSymmetry
CHECK_DEADLOCK FALSE
