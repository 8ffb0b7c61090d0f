SPECIFICATION Spec
CONSTANTS
  Procs = {p1, p2}
  Programs <- AllPrograms
  Raced <- RacedPrograms
  MaxKills = 1
  MaxEdits = 1
  CHUNK = 8
  BLOCK = 16
  Bytes <- convert
  Read <- ReadTree
  IsModule <- TypeIsModule
  Meaning <- Meant
CHECK_DEADLOCK FALSE
INVARIANTS ReturnsSourceTree AloneSucceeds ReadsSourceOrHoles CacheSettles ScopesRight
PROPERTY RunsEnd
