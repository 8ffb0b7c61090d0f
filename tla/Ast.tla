-------------------------------- MODULE Ast --------------------------------
(***************************************************************************)
(* The syntax tree of core/ast.h and ast.cpp.  A value of a field is one   *)
(* of the following; a tree is a value of the first kind.                  *)
(*   <<"node", type, fields>>   fields a record of values                  *)
(*   <<"list", values>>  <<"str", bytes>>  <<"bool", b>>                   *)
(*   <<"int", n>>  <<"float", eight bytes>>  NULL                          *)
(* Operators and contexts are numbers of AST_TYPE in the tree of Pyston    *)
(* and nodes without fields in the tree of CPython.                        *)
(***************************************************************************)
EXTENDS Integers, SequencesExt

NULL == <<"null">>
Node(type, fields) == <<"node", type, fields>>
TypeOf(v) == v[2]
Field(v, k) == v[3][k]

\* The enumeration, as the sequence of its names.
AST_TYPE == <<
  "alias", "arguments", "Assert", "Assign", "Attribute", "AugAssign", "BinOp", "BoolOp",
  "Call", "ClassDef", "Compare", "comprehension", "Delete", "Dict", "DictComp", "Exec",
  "ExceptHandler", "ExtSlice", "Expr", "For", "FunctionDef", "GeneratorExp", "Global", "If",
  "IfExp", "Import", "ImportFrom", "Index", "keyword", "Lambda", "List", "ListComp",
  "Module", "Num", "Name", "unused", "Pass", "Pow", "Print", "Raise", "Repr", "Return",
  "Set", "Slice", "Str", "Subscript", "TryExcept", "TryFinally", "Tuple", "UnaryOp",
  "With", "While", "Yield", "Store", "Load", "Param", "Not", "In", "Is", "IsNot", "Or",
  "And", "Eq", "NotEq", "NotIn", "GtE", "Gt", "Mod", "Add", "Continue", "Lt", "LtE",
  "Break", "Sub", "Del", "Mult", "Div", "USub", "BitAnd", "BitOr", "BitXor", "RShift",
  "LShift", "Invert", "UAdd", "FloorDiv">>

Enum(type) == CHOOSE i \in DOMAIN AST_TYPE : AST_TYPE[i] = type

-----------------------------------------------------------------------------
(***************************************************************************)
(* The members of the classes.  ctx, op and n stand for ctx_type, op_type  *)
(* and the union of n_int and n_float.                                     *)
(***************************************************************************)
MembersUpToClassDef ==
  [alias |-> {"name", "asname"}, arguments |-> {"args", "defaults", "kwarg", "vararg"},
   Assign |-> {"targets", "value"}, Attribute |-> {"value", "ctx", "attr"},
   BinOp |-> {"op", "left", "right"}, BoolOp |-> {"op", "values"}, Break |-> {},
   Call |-> {"starargs", "kwargs", "func", "args", "keywords"},
   Compare |-> {"ops", "comparators", "left"},
   ClassDef |-> {"bases", "decorator_list", "body", "name"}]

MembersUpToModule ==
  [Continue |-> {}, Dict |-> {"keys", "values"}, Expr |-> {"value"},
   For |-> {"body", "orelse", "target", "iter"},
   FunctionDef |-> {"body", "decorator_list", "name", "args"}, Global |-> {"names"},
   If |-> {"body", "orelse", "test"}, Import |-> {"names"}, Index |-> {"value"},
   keyword |-> {"value", "arg"}, List |-> {"elts", "ctx"}, Module |-> {"body"}]

MembersUpToWith ==
  [Name |-> {"ctx", "id"}, Num |-> {"num_type", "n"}, Pass |-> {},
   Return |-> {"value"},
   Slice |-> {"lower", "upper", "step"}, Str |-> {"s"},
   Subscript |-> {"value", "slice", "ctx"}, Tuple |-> {"elts", "ctx"},
   UnaryOp |-> {"operand", "op"}, While |-> {"test", "body", "orelse"},
   With |-> {"optional_vars", "context_expr", "body"}]
  @@ "Print" :> {"dest", "nl", "values"}

Members == MembersUpToClassDef @@ MembersUpToModule @@ MembersUpToWith

\* A new node: its members have no value yet.
Uninitialised == <<"uninitialised">>
Constructed(type) == [k \in Members[type] \cup {"lineno", "col_offset"} |-> Uninitialised]

-----------------------------------------------------------------------------
(***************************************************************************)
(* accept: the fields in which a visitor that does not skip a node finds   *)
(* its children, in the order it visits them.                              *)
(***************************************************************************)
AcceptUpToClassDef ==
  [alias |-> <<>>, arguments |-> <<"defaults", "args", "kwarg">>,
   Assign |-> <<"value", "targets">>, Attribute |-> <<"value">>,
   BinOp |-> <<"left", "right">>, BoolOp |-> <<"values">>, Break |-> <<>>,
   Call |-> <<"func", "args", "keywords", "starargs", "kwargs">>,
   Compare |-> <<"left", "comparators">>, ClassDef |-> <<"bases", "decorator_list", "body">>]

AcceptUpToModule ==
  [Continue |-> <<>>, Dict |-> <<"keys", "values">>, Expr |-> <<"value">>,
   For |-> <<"iter", "target", "body", "orelse">>,
   FunctionDef |-> <<"decorator_list", "args", "body">>, Global |-> <<>>,
   If |-> <<"test", "body", "orelse">>, Import |-> <<"names">>, Index |-> <<"value">>,
   keyword |-> <<"value">>, List |-> <<"elts">>, Module |-> <<"body">>]

AcceptUpToWith ==
  [Name |-> <<>>, Num |-> <<>>, Pass |-> <<>>,
   Return |-> <<"value">>, Slice |-> <<"lower", "upper", "step">>, Str |-> <<>>,
   Subscript |-> <<"value", "slice">>, Tuple |-> <<"elts">>, UnaryOp |-> <<"operand">>,
   While |-> <<"test", "body", "orelse">>,
   With |-> <<"context_expr", "optional_vars", "body">>]
  @@ "Print" :> <<"dest", "values">>

Accept == AcceptUpToClassDef @@ AcceptUpToModule @@ AcceptUpToWith

visitVector(v) ==
  CASE v[1] = "list" -> v[2]
    [] v[1] = "null" -> <<>>
    [] OTHER -> <<v>>

\* The keys and the values of a dict are visited in pairs.
Children(n) ==
  IF TypeOf(n) = "Dict"
  THEN FlattenSeq([i \in DOMAIN Field(n, "keys")[2] |->
         <<Field(n, "keys")[2][i], Field(n, "values")[2][i]>>])
  ELSE FlattenSeq([i \in DOMAIN Accept[TypeOf(n)] |->
         visitVector(Field(n, Accept[TypeOf(n)][i]))])

-----------------------------------------------------------------------------
(***************************************************************************)
(* flatten: the nodes a FlattenVisitor meets, as paths of child positions. *)
(* It has no visit_global, so that the one of ASTVisitor aborts.           *)
(***************************************************************************)
Skipped(expand_scopes) ==
  IF expand_scopes THEN {} ELSE {"ClassDef", "For", "FunctionDef", "Module"}

RECURSIVE FlattenFrom(_, _, _)
FlattenFrom(n, path, skipped) ==
  {path} \cup
  IF TypeOf(n) \in skipped THEN {}
  ELSE UNION {FlattenFrom(Children(n)[i], Append(path, i), skipped) : i \in DOMAIN Children(n)}

flatten(roots, expand_scopes) ==
  UNION {FlattenFrom(roots[i], <<i>>, Skipped(expand_scopes)) : i \in DOMAIN roots}

RECURSIVE AtPath(_, _)
AtPath(n, path) ==
  IF path = <<>> THEN n ELSE AtPath(Children(n)[Head(path)], Tail(path))

FlattenAborts(module) ==
  \E path \in flatten(Children(module), FALSE) : TypeOf(AtPath(module, path)) = "Global"
=============================================================================
