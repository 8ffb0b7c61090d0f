---------------------------- MODULE PyAttributes ----------------------------
(***************************************************************************)
(* What attribute access promises, with no hidden classes and no caches:   *)
(* every object is a dictionary; reading an attribute consults the hooks   *)
(* of the class, the object and the class, in the order getattr_internal   *)
(* of src/runtime/objmodel.cpp gives them.                                 *)
(***************************************************************************)

CONSTANTS
  Boxes,      \* everything that has attributes: instances and classes
  ClassOf,    \* box -> its class, itself a box
  Settable,   \* boxes whose attributes the program may set
  Names,      \* attribute names that occur in the program
  Values,
  Funcs       \* the values that are functions, bound when found on a class

VARIABLES
  dict,       \* box -> name -> value
  answer      \* the last access and its result

vars == <<dict, answer>>

Has(b, a) == a \in DOMAIN dict[b]

Hook(b, hook, a) ==
  [kind |-> "hook", self |-> b, via |-> dict[ClassOf[b]][hook], of |-> a]

Lookup(b, a) ==
  LET cls == ClassOf[b] IN
  IF Has(cls, "__getattribute__") THEN Hook(b, "__getattribute__", a)
  ELSE IF Has(b, a) THEN [kind |-> "value", of |-> dict[b][a]]
  ELSE IF Has(cls, "__getattr__") THEN Hook(b, "__getattr__", a)
  ELSE IF ~ Has(cls, a) THEN [kind |-> "AttributeError"]
  ELSE IF dict[cls][a] \in Funcs THEN [kind |-> "method", self |-> b, of |-> dict[cls][a]]
  ELSE [kind |-> "value", of |-> dict[cls][a]]

Get(b, a) ==
  /\ answer' = [kind |-> "get", box |-> b, attr |-> a, got |-> Lookup(b, a)]
  /\ UNCHANGED dict

\* A value is bound to a name, in place of the earlier one if there is one.
Set(b, a, v) ==
  /\ dict' = [dict EXCEPT ![b] = [n \in DOMAIN @ \cup {a} |-> IF n = a THEN v ELSE @[n]]]
  /\ answer' = [kind |-> "done"]

\* Built-in classes are constant.
SetRefused ==
  /\ answer' = [kind |-> "TypeError"]
  /\ UNCHANGED dict

Next ==
  \/ \E b \in Boxes, a \in Names : Get(b, a)
  \/ \E b \in Settable, a \in Names, v \in Values : Set(b, a, v)
  \/ SetRefused

\* It may start from any attributes: those of the built-in classes and the names
\* createClass gives are not spelled out here.
Spec == [][Next]_vars
==============================================================================
