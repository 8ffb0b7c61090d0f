---------------------------- MODULE MCObjectModel ----------------------------
EXTENDS ObjectModel, TLC

CONSTANTS o1, o2, C, D, func, plain

AllC == [o \in Objs |-> C]
OneEach == [o \in Objs |-> IF o = o1 THEN C ELSE D]
ObjSymmetry == Permutations({o1, o2})
CreateClassNames == <<"__name__", "__module__">>

\* A compiled getattr, and interpreted code that sets x and both hooks.
Getter == LET names == {"x", "__getattribute__", "__getattr__"}
          IN  Program(names, names, {"x"}, {}, {func})

\* A compiled setattr of a name that is a hook when it is set on a class.
Setter == Program({}, {"x", "__getattribute__"}, {}, {"__getattribute__"}, {func, plain})

GetterAndSetter == {Getter, Setter}
GetterOfTwoClasses == {Program({}, {"x", "__getattribute__"}, {"x"}, {}, {func})}
==============================================================================
