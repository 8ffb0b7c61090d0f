CONSTANTS
  Families <- AllFamilies
SPECIFICATION Spec
INVARIANTS AbortsOnlyAsMarked RunsAsWritten ReadsLastValue TypesSound
CHECK_DEADLOCK FALSE
