SPECIFICATION Spec
CONSTANTS
  callsite = callsite
  attrsite = attrsite
  i1 = i1
  ICs = {callsite, attrsite}
  NumSlots <- MCNumSlots
  Rewriter2ICs = {attrsite}
  Invalidators = {i1}
  INT_MAX = 1
  MaxVersion = 2
  MaxDepth = 3
  MaxPath = 2
  l1 = l1
  Layouts = {l1}
  NoLayout = NoLayout
  MaxDependencies = 2
INVARIANTS NoStaleCode ReturnsToSameDecisions NoCodeSkipped
PROPERTY RefinesCodeCache
