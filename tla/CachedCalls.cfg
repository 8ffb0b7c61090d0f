CONSTANTS
  Programs <- AllPrograms
  MaxEffort = 2
  MaxRecompiled = 1
SPECIFICATION Spec
INVARIANTS CachedCallAgrees MissRestoresCall AbortsOnlyInConstructors 
CHECK_DEADLOCK FALSE
