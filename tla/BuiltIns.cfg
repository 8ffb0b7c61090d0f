SPECIFICATION Spec
CONSTANTS
  None = None
  Junk = Junk
  CIntBits = 4
  IntBits = 4
  InitialCapacity = 1
  MaxLen = 3
  SelfAssign = FALSE
  Lists = {l1, l2}
  Values = {v1, v2}
  Indices <- MCIndices
  SliceArgs <- MCSliceArgs
  Boxes <- MCBoxes
  Operators <- MCOperators
  Strings <- MCStrings
  StringSlices <- MCStringSlices
  Tuples <- MCTuples
  RangeArgs <- MCRangeArgs
INVARIANT ElementsInArray
INVARIANT ArithmeticAsPython
INVARIANT SequencesAsPython
PROPERTY ListsAsPython
PROPERTY LoopsEnd
CHECK_DEADLOCK FALSE
