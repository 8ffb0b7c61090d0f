SPECIFICATION FairSpec
CONSTANTS
  CLFunctions = {fun}
  Classes = {A, B}
  Sites = {site}
  NumSlots = 1
  BoundCalls = {FALSE}
  EnableInterpreter = TRUE
  ForceOptimize = FALSE
  EnableReopt = TRUE
  EnableOSR = TRUE
  ReoptThresholds <- LowReoptThresholds
  OSRThresholds <- LowOSRThresholds
  MaxDepth = 2
  MaxOSR = 1
INVARIANTS EntersActiveVersion RunsFittingVersion
PROPERTIES TiersOnlyRise HotCallsReachTopTier
