---------------------------- MODULE MCCachedCalls ----------------------------
EXTENDS CachedCalls

\* Boxes.  Addresses matter only to comparisons.
Instance(cls) == [cls |-> cls, hcls |-> <<>>, attrs |-> <<>>, address |-> 1]
With(cls, names, values) == [Instance(cls) EXCEPT !.hcls = names, !.attrs = values]
Class(hasattrs, constant, names, values, fresh) ==
  With("type", names, values) @@
  [hasattrs |-> hasattrs, constant |-> constant, fresh |-> fresh,
   default |-> [str |-> "s1", int |-> "i1"]]
Python(returns, effort) ==
  Instance("function") @@ [returns |-> returns, initialEffort |-> effort, source |-> TRUE,
                           is_vararg |-> FALSE]
Native(returns) == [Python(returns, 1) EXCEPT !.source = FALSE]
IntBox(n) == Instance("int") @@ [n |-> n]
Bool(b) == Instance("bool") @@ [b |-> b]
Bound(func, obj) == Instance("instancemethod") @@ [func |-> func, obj |-> obj]

BuiltIns ==
  "type" :> Class(TRUE, FALSE, <<"__call__">>, <<"type.__call__">>, "junk")
  @@ "type.__call__" :> [Native("None") EXCEPT !.is_vararg = TRUE]
  @@ "function" :> Class(TRUE, TRUE, <<>>, <<>>, "junk")
  @@ "instancemethod" :> Class(FALSE, TRUE, <<>>, <<>>, "junk")
  @@ "none" :> Class(FALSE, TRUE, <<>>, <<>>, "junk")
  @@ "module" :> Class(TRUE, TRUE, <<>>, <<>>, "junk")
  @@ "builtins" :> Instance("module")
  @@ "int" :> [Class(FALSE, TRUE, <<"__add__", "__lt__", "__eq__", "__neg__", "__hash__">>,
                     <<"int.__add__", "int.__lt__", "NI", "int.__neg__", "int.__hash__">>, "junk")
                 EXCEPT !.address = 2]
  @@ "int.__add__" :> Native("i2") @@ "int.__lt__" :> Native("True")
  @@ "int.__neg__" :> Native("i2") @@ "int.__hash__" :> Native("its first argument")
  @@ "NI" :> Native("NotImplemented")
  @@ "float" :> [Class(FALSE, TRUE, <<"__add__", "__radd__">>, <<"NI", "float.__radd__">>, "junk")
                   EXCEPT !.address = 3]
  @@ "float.__radd__" :> Native("fl") @@ "fl" :> (Instance("float") @@ [n |-> 1])
  @@ "bool" :> Class(FALSE, TRUE, <<>>, <<>>, "junk")
  @@ "True" :> Bool(TRUE) @@ "False" :> Bool(FALSE)
  @@ "str" :> [Class(FALSE, TRUE, <<"__repr__">>, <<"str.__repr__">>, "junk") EXCEPT !.address = 4]
  @@ "str.__repr__" :> Native("s1")
  @@ "list" :> Class(FALSE, TRUE, <<"__getitem__", "__setitem__", "__len__">>,
                     <<"list.__getitem__", "list.__setitem__", "list.__len__">>, "junk")
  @@ "list.__getitem__" :> Native("i1") @@ "list.__setitem__" :> Native("None")
  @@ "list.__len__" :> Native("i2") @@ "li" :> Instance("list")
  @@ "None" :> Instance("none") @@ "NotImplemented" :> Instance("none")
  @@ "junk" :> Instance("none")
  @@ "i0" :> IntBox(0) @@ "i1" :> [IntBox(1) EXCEPT !.address = 5] @@ "i2" :> [IntBox(2) EXCEPT !.address = 6]
  @@ "s1" :> Instance("str")

UserClass(c, names, values, fresh) ==
  c :> Class(TRUE, FALSE, names, values, fresh) @@ fresh :> Instance(c)

\* o.m(): found on the class or on the instance, or answered by a hook.
Methods ==
  Program(BuiltIns @@ UserClass("C", <<"m">>, <<"C.m">>, "c") @@ "o" :> Instance("C")
          @@ "C.m" :> Python("its first argument", 1) @@ "C.m2" :> Python("i1", 0)
          @@ "o.m" :> Python("i2", 1) @@ "hook" :> Python("hooked", 1) @@ "hooked" :> Python("s1", 1),
          [kind |-> "callattr", name |-> "m", clsonly |-> FALSE], {<<"o">>, <<"c">>},
          {<<"o", "m", "o.m">>, <<"o", "x", "i1">>, <<"C", "m", "C.m2">>,
           <<"C", "__getattr__", "hook">>, <<"C", "__getattribute__", "hook">>})

\* o.m(...) with arguments on the stack and in an array.
ManyArguments ==
  LET boxes == BuiltIns @@ UserClass("C", <<"m", "n">>, <<"C.m", "li">>, "c") @@ "o" :> Instance("C")
               @@ UserClass("D", <<"m", "n">>, <<"D.m", "li">>, "d")
               @@ "C.m" :> Python("its first argument", 0) @@ "D.m" :> Python("i2", 1)
               @@ "o.m" :> Python("i1", 1)
      calls(rest) == {<<b>> \o r : b \in {"o", "d"}, r \in rest}
      writes == {<<"o", "m", "o.m">>, <<"o", "x", "i1">>}
      site == [kind |-> "callattr", name |-> "m", clsonly |-> FALSE]
  IN  {Program(boxes, site, calls(rest), writes) :
         rest \in {{<<"i1", "s1">>, <<"s1", "s1">>}, {<<"i1", "i2", "s1">>, <<"i1", "i2", "i1">>},
                   {<<"i1", "i2", "s1", "i0">>, <<"i1", "i2", "s1", "s1">>},
                   {<<"i1", "i2", "s1", "i0", "li">>, <<"i1", "i2", "s1", "i0", "s1">>}}}

\* f(...): functions, methods, classes and instances of callable classes.
Callables ==
  LET boxes == BuiltIns @@ "f" :> Python("i1", 0) @@ "bm" :> Bound("C.m", "o") @@ "o" :> Instance("C")
               @@ UserClass("C", <<"m", "__init__">>, <<"C.m", "C.init">>, "c")
               @@ UserClass("D", <<"m", "__new__", "__init__">>, <<"D.m", "D.new", "D.init">>, "d")
               @@ UserClass("K", <<"__call__">>, <<"K.call">>, "k")
               @@ "C.m" :> Python("i2", 1) @@ "D.m" :> Python("i2", 1)
               @@ "C.init" :> Python("None", 1) @@ "D.init" :> Python("None", 1)
               @@ "C.init2" :> Python("i1", 1) @@ "D.new" :> Python("an instance", 1)
               @@ "K.call" :> Python("its first argument", 1)
               @@ UserClass("I", <<"__init__">>, <<"j">>, "i") @@ UserClass("J", <<"__call__">>, <<"C.init">>, "j")
               @@ UserClass("N", <<"__new__">>, <<"m">>, "n") @@ UserClass("M", <<"__call__">>, <<"M.call">>, "m")
               @@ "M.call" :> Python("n", 1)
      callees == {"f", "bm", "C", "D", "k", "o", "i1", "I", "N"}
      writes == {<<"C", "__init__", "C.init2">>, <<"D", "__init__", "C.init">>, <<"k", "x", "i1">>,
                 <<"K", "__call__", "li">>}
  IN  {Program(boxes, [kind |-> "runtimeCall"], calls, {}) :
         calls \in {{<<b>> : b \in callees},
                    {<<b, "i1", "i2">> : b \in callees},
                    {<<b, "i1", "i2", "s1">> : b \in callees},
                    {<<b, "i1", "i2", "s1", x, "li">> : b \in callees, x \in {"i1", "s1"}}}}
      \cup {Program(boxes, [kind |-> "runtimeCall"], {<<b, "i1">> : b \in {"bm", "C", "D", "k", "o"}}, writes),
            Program(boxes, [kind |-> "runtimeCall"], {<<b, a>> : b \in callees, a \in {"i1", "s1"}}, {})}

\* A constructor with so many arguments that the array of them is longer than the
\* pops at the end of the slot.
WideConstructor ==
  Program(BuiltIns @@ UserClass("C", <<"__init__">>, <<"C.init">>, "c")
          @@ UserClass("D", <<"__init__">>, <<"D.init">>, "d")
          @@ "C.init" :> Python("None", 1) @@ "D.init" :> Python("None", 1),
          [kind |-> "runtimeCall"],
          {<<b, "i1", "i1", "i1", "i1", "i1", "i1", "i1", "i1">> : b \in {"C", "D"}}, {})

\* Operators on built-in objects and on instances.
Operators ==
  LET boxes == BuiltIns @@ UserClass("C", <<"__add__", "__eq__", "__getitem__", "__setitem__", "__len__",
                                            "__nonzero__", "__repr__", "__neg__">>,
                                     <<"C.add", "C.eq", "C.get", "C.set", "C.len", "C.len", "C.repr",
                                       "C.neg">>, "c")
               @@ UserClass("D", <<"__radd__">>, <<"D.radd">>, "d")
               @@ UserClass("G", <<"__gt__", "__ge__", "__len__">>, <<"G.gt", "G.ge", "C.len2">>, "g")
               @@ "G.gt" :> Python("True", 1) @@ "G.ge" :> Python("False", 1)
               @@ "C.add" :> Python("NotImplemented", 1) @@ "C.eq" :> Python("True", 1)
               @@ "C.get" :> Python("its first argument", 1) @@ "C.set" :> Python("None", 1)
               @@ "C.len" :> Python("i2", 0) @@ "C.len2" :> Python("i0", 1) @@ "C.repr" :> Python("s1", 1)
               @@ "C.neg" :> Python("i1", 1) @@ "D.radd" :> Python("its first argument", 1)
      pairs == {<<"i1", "i2">>, <<"i1", "s1">>, <<"i1", "fl">>, <<"c", "d">>, <<"c", "i1">>, <<"i1", "c">>,
                <<"fl", "i1">>, <<"i1", "i1">>, <<"s1", "s1">>, <<"d", "g">>, <<"g", "d">>, <<"g", "g">>}
      pairs_added == {<<"i1", "i2">>, <<"c", "d">>, <<"i1", "i1">>, <<"fl", "fl">>, <<"i1", "d">>}
      items == {<<"li", "i1">>, <<"c", "i1">>, <<"li", "s1">>, <<"i1", "i1">>}
      objects == {<<"i0">>, <<"i1">>, <<"True">>, <<"False">>, <<"c">>, <<"d">>, <<"fl">>, <<"li">>, <<"s1">>,
                  <<"g">>}
      writes == {<<"C", "__len__", "C.len2">>, <<"C", "__nonzero__", "C.len2">>, <<"c", "x", "i1">>}
  IN  {Program(boxes, [kind |-> "binop", op |-> "Add"], c, {}) : c \in {pairs_added, {<<"i1", "i2">>, <<"fl", "i1">>}}}
      \cup {Program(boxes, [kind |-> "compare", op |-> op], pairs, {}) :
              op \in {"Is", "IsNot", "Eq", "NotEq", "Lt", "LtE", "Gt", "GtE"}}
      \cup {Program(boxes, [kind |-> "getitem"], items, {}),
            Program(boxes, [kind |-> "setitem"], {it \o <<v>> : it \in items, v \in {"i1", "s1"}}, {})}
      \cup {Program(boxes, [kind |-> "unboxedLen"], objects, writes),
            Program(boxes, [kind |-> "nonzero"], objects, writes)}
      \cup {Program(boxes, [kind |-> k], objects, {}) : k \in {"str", "repr", "hash"}}
      \cup {Program(boxes, [kind |-> "unaryop", op |-> "USub"], objects, {})}

\* A name of the module, or of the builtins, which are a name themselves.
Globals ==
  {Program(BuiltIns @@ "mod" :> With("module", <<"y">>, <<"i0">>),
           [kind |-> "getGlobal", name |-> name], {<<"mod">>},
           {<<"mod", name, "i1">>, <<"mod", name, "i2">>, <<"builtins", name, "s1">>,
            <<"builtins", "w", "i1">>}) : name \in {"x", "__builtins__"}}

AllPrograms == {Methods} \cup Globals \cup ManyArguments \cup Callables \cup Operators
Wide == {WideConstructor}
==============================================================================
