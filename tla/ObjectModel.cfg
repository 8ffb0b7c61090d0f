CONSTANTS
  o1 = o1
  o2 = o2
  C = C
  D = D
  func = func
  plain = plain
  TypeCls = type
  Objs = {o1, o2}
  Classes = {C}
  InstanceOf <- AllC
  Programs <- GetterAndSetter
  Funcs = {func}
  MaxAttrs = 2
  ClassValue = str
  ClassNames <- CreateClassNames
SPECIFICATION Spec
INVARIANTS CachedGetAgrees CollectorSeesAllAttrs
PROPERTY RefinesPyAttributes
CHECK_DEADLOCK FALSE
SYMMETRY ObjSymmetry
