------------------------------- MODULE PyCalls -------------------------------
(***************************************************************************)
(* What calls and operators mean in Python, without versions, registers or *)
(* caches: which functions run with which arguments, and the result.       *)
(* Special methods are looked up on the class; an attribute of a class     *)
(* that is a function becomes a method.                                    *)
(***************************************************************************)
EXTENDS Naturals, Sequences

CONSTANTS
  ClassOf(_),         \* class of a box
  Has(_, _),          \* does the box itself have the attribute?
  Get(_, _),          \* and its value
  Instantiated(_),    \* class -> a new instance, if instances can be made
  IsUserClass(_),
  Runs(_, _),         \* function, arguments -> result
  Method(_),          \* instancemethod -> <<function, receiver>>
  True, False, None, NotImplemented,
  Number(_),          \* integer or truth value of a number
  Default(_, _)       \* class, "str" or "int" -> default conversion

Meaning(called, result) == [called |-> called, raised |-> FALSE, result |-> result]
Error(called) == [called |-> called, raised |-> TRUE, result |-> None]

\* One thing after another; next takes the result of the first.
Then(first, next(_)) ==
  IF first.raised THEN first
  ELSE LET second == next(first.result)
       IN  [second EXCEPT !.called = first.called \o @]

RECURSIVE Call(_, _)

\* The call of a special method of b, or of what else the class has by that name.
Special(b, name, args) ==
  LET f == Get(ClassOf(b), name)
  IN  Call(f, IF ClassOf(f) = "function" THEN <<b>> \o args ELSE args)
HasSpecial(b, name) == Has(ClassOf(b), name)

Construct(c, args) ==
  LET made == IF Has(c, "__new__") THEN Call(Get(c, "__new__"), <<c>> \o args)
              ELSE IF ~ IsUserClass(c) THEN Error(<<>>)
              ELSE IF args # <<>> /\ ~ Has(c, "__init__") THEN Error(<<>>)
              ELSE Meaning(<<>>, Instantiated(c))
      init(b) == Then(Call(Get(c, "__init__"), <<b>> \o args),
                      LAMBDA r : IF r = None THEN Meaning(<<>>, b) ELSE Error(<<>>))
  IN  IF Has(c, "__init__") THEN Then(made, init) ELSE made

Call(f, args) ==
  CASE ClassOf(f) = "function" -> Meaning(<<<<f, args>>>>, Runs(f, args))
    [] ClassOf(f) = "instancemethod" -> Call(Method(f)[1], <<Method(f)[2]>> \o args)
    [] ClassOf(f) = "type" -> Construct(f, args)
    [] ClassOf(f) \notin {"function", "instancemethod", "type"} ->
         IF HasSpecial(f, "__call__") THEN Special(f, "__call__", args) ELSE Error(<<>>)

\* b.name(args): the hooks of the class, the instance, the class.
CallAttr(b, name, args, clsonly) ==
  LET hook(h) == Then(Special(b, h, <<"str">>), LAMBDA f : Call(f, args)) IN
  IF ~ clsonly /\ HasSpecial(b, "__getattribute__") THEN hook("__getattribute__")
  ELSE IF ~ clsonly /\ Has(b, name) THEN Call(Get(b, name), args)
  ELSE IF ~ clsonly /\ HasSpecial(b, "__getattr__") THEN hook("__getattr__")
  ELSE IF HasSpecial(b, name) THEN Special(b, name, args)
  ELSE Error(<<>>)

\* An operator asks the left operand, then the right one by the reflected name.
Ask(b, name, other) ==
  IF HasSpecial(b, name) THEN Special(b, name, <<other>>) ELSE Meaning(<<>>, NotImplemented)

Operator(lhs, name, rhs, reflected, otherwise) ==
  Then(Ask(lhs, name, rhs), LAMBDA l :
    IF l # NotImplemented THEN Meaning(<<>>, l)
    ELSE Then(Ask(rhs, reflected, lhs), LAMBDA r :
           IF r # NotImplemented THEN Meaning(<<>>, r) ELSE otherwise))

\* The first of the methods that b has, with a result of class c.
Conversion(b, methods, c, otherwise) ==
  LET has == SelectSeq(methods, LAMBDA m : HasSpecial(b, m)) IN
  IF has = <<>> THEN otherwise
  ELSE Then(Special(b, Head(has), <<>>),
            LAMBDA r : IF ClassOf(r) = c THEN Meaning(<<>>, r) ELSE Error(<<>>))

DefaultFor(b, c) == IF IsUserClass(ClassOf(b)) THEN Meaning(<<>>, Default(ClassOf(b), c)) ELSE Error(<<>>)

Truth(b) ==
  LET ofNumber(n) == IF ClassOf(n) \in {"int", "bool", "float"}
                       THEN Meaning(<<>>, IF Number(n) THEN True ELSE False) ELSE Error(<<>>)
  IN  IF ClassOf(b) \in {"int", "bool", "float"} THEN ofNumber(b)
      ELSE IF HasSpecial(b, "__nonzero__") THEN Then(Special(b, "__nonzero__", <<>>), ofNumber)
      ELSE IF HasSpecial(b, "__len__") THEN Then(Special(b, "__len__", <<>>), ofNumber)
      ELSE Meaning(<<>>, True)
==============================================================================
