CONSTANTS
  Programs <- Wide
  MaxEffort = 2
  MaxRecompiled = 1
SPECIFICATION Spec
INVARIANT MissRestoresCall
CHECK_DEADLOCK FALSE
