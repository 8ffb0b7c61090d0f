------------------------------- MODULE Parser -------------------------------
(***************************************************************************)
(* codegen/parse_ast.py and parser.cpp: the tree that CPython's parser     *)
(* makes is written as bytes and read back.                                *)
(***************************************************************************)
EXTENDS Ast

(***************************************************************************)
(* The trees of CPython's module _ast; their constructors, which are not   *)
(* part of the repository, give each node the fields it has there.         *)
(* Strings are sequences of bytes.                                         *)
(***************************************************************************)
None == NULL
S(s) == <<"str", s>>
L(vs) == <<"list", vs>>
I(n) == <<"int", n>>

\* Where a node is in the source.  Every node of a tree here has its own line.
At(line) == [lineno |-> I(line), col_offset |-> I(4 * line)]
Ctx(type) == Node(type, <<>>)

alias(name, asname) == Node("alias", [name |-> S(name), asname |-> asname])
arguments(args, defaults, vararg, kwarg) ==
  Node("arguments", [args |-> L(args), defaults |-> L(defaults), vararg |-> vararg,
                     kwarg |-> kwarg])
keyword(arg, value) == Node("keyword", [arg |-> S(arg), value |-> value])
Module(body) == Node("Module", [body |-> L(body)])
Name(line, id, ctx) == Node("Name", [id |-> S(id), ctx |-> Ctx(ctx)] @@ At(line))
Num(line, n) == Node("Num", [n |-> n] @@ At(line))
Def(line, name, args, body, decorators) ==
  Node("FunctionDef", [name |-> S(name), args |-> args, body |-> L(body),
                       decorator_list |-> L(decorators)] @@ At(line))
Class(line, name, bases, body) ==
  Node("ClassDef", [name |-> S(name), bases |-> L(bases), body |-> L(body),
                    decorator_list |-> L(<<>>)] @@ At(line))
Simple(type, line, fields) == Node(type, fields @@ At(line))

-----------------------------------------------------------------------------
(***************************************************************************)
(* codegen/parse_ast.py: the bytes of a tree.                              *)
(***************************************************************************)
Byte(n) == <<n>>
Short(n) == <<n \div 256, n % 256>>
\* struct.pack(">q", n): two's complement; the numbers here fit in 31 bits.
Pack(n) ==
  LET low(k) == <<0, 0, 0, 0, k \div 16777216, (k \div 65536) % 256, (k \div 256) % 256, k % 256>>
  IN IF n >= 0 THEN low(n) ELSE [i \in 1..8 |-> 255 - low(-1 - n)[i]]

_print_str(s) == Short(Len(s)) \o s

\* TYPE_MAP of parse_ast.py has the numbers of AST_TYPE.
TYPE_MAP(type) == Enum(type)

\* Subclasses of operator, expr_context, boolop, cmpop and unaryop.
Operators ==
  {"Load", "Store", "Del", "Param", "And", "Or", "Add", "Sub", "Mult", "Div", "Mod", "Pow",
   "LShift", "RShift", "BitOr", "BitXor", "BitAnd", "FloorDiv", "Invert", "Not", "UAdd",
   "USub", "Eq", "NotEq", "Lt", "LtE", "Gt", "GtE", "Is", "IsNot", "In", "NotIn"}

\* The order of sorted(n.__dict__.items()).
Alphabet ==
  <<"arg", "args", "asname", "attr", "bases", "body", "col_offset", "comparators",
    "context_expr", "ctx", "decorator_list", "defaults", "dest", "elts", "func", "id",
    "iter", "keys", "keywords", "kwarg", "kwargs", "left", "lineno", "lower", "n", "name",
    "names", "nl", "op", "operand", "ops", "optional_vars", "orelse", "right", "s", "slice",
    "starargs", "step", "target", "targets", "test", "upper", "value", "values", "vararg">>

NumType(n) ==
  IF TypeOf(n) # "Num" THEN <<>> ELSE IF Field(n, "n")[1] = "int" THEN <<16>> ELSE <<32>>

WrittenVararg(k, v) == IF k = "vararg" /\ v = None THEN S(<<>>) ELSE v

\* Only vararg and asname are written as strings when they are None.
Written(k, v) == IF k \in {"vararg", "asname"} /\ v = None THEN S(<<>>) ELSE v

RECURSIVE convert(_), ConvertFields(_, _), ConvertAll(_, _)
convert(n) ==
  IF n = None THEN Byte(0)
  ELSE IF TypeOf(n) \in Operators THEN Byte(TYPE_MAP(TypeOf(n)))
  ELSE <<TYPE_MAP(TypeOf(n)), 174>> \o NumType(n)
       \o ConvertFields(n, SelectSeq(Alphabet, LAMBDA k : k \in DOMAIN n[3]))

ConvertFields(n, fields) ==
  IF fields = <<>> THEN <<>>
  ELSE LET v == Written(Head(fields), Field(n, Head(fields)))
       IN (CASE v[1] = "list" -> Short(Len(v[2])) \o ConvertAll(TypeOf(n), v[2])
             [] v[1] = "str" -> _print_str(v[2])
             [] v[1] = "bool" -> Byte(IF v[2] THEN 1 ELSE 0)
             [] v[1] = "int" -> Pack(v[2])
             [] v[1] = "float" -> v[2]
             [] OTHER -> convert(v))
          \o ConvertFields(n, Tail(fields))

\* The elements of a list; the names of a global statement are strings.
ConvertAll(type, vs) ==
  IF vs = <<>> THEN <<>>
  ELSE (IF type = "Global" THEN _print_str(Head(vs)[2]) ELSE convert(Head(vs)))
       \o ConvertAll(type, Tail(vs))

-----------------------------------------------------------------------------
(***************************************************************************)
(* codegen/parser.cpp: how the bytes of parse_ast.py are read back.  Each  *)
(* read_* function is the sequence of its reads: the member it sets and    *)
(* the reader it calls.  A reader maps the bytes left to a result:         *)
(*   v    what was read                                                    *)
(*   in   the bytes that are left                                          *)
(*   st   "ok", "end" when there were too few bytes, "abort" when an       *)
(*        assertion failed or the type was unknown                         *)
(***************************************************************************)
Ok(v, in) == [v |-> v, in |-> in, st |-> "ok"]
Fail(st) == [v |-> NULL, in |-> <<>>, st |-> st]

readBytes(in, n) == IF Len(in) < n THEN Fail("end") ELSE Ok(SubSeq(in, 1, n), SubSeq(in, n + 1, Len(in)))

readByte(in) == LET r == readBytes(in, 1) IN IF r.st # "ok" THEN r ELSE Ok(<<"int", r.v[1]>>, r.in)
readShort(in) ==
  LET r == readBytes(in, 2) IN IF r.st # "ok" THEN r ELSE Ok(256 * r.v[1] + r.v[2], r.in)

\* Eight bytes as a signed number, of which the model's trees use 31 bits.
Value(b) == 16777216 * b[5] + 65536 * b[6] + 256 * b[7] + b[8]
Signed(b) == IF b[1] < 128 THEN Value(b) ELSE -1 - Value([i \in 1..8 |-> 255 - b[i]])
readULL(in) ==
  LET r == readBytes(in, 8) IN IF r.st # "ok" THEN r ELSE Ok(<<"int", Signed(r.v)>>, r.in)
readDouble(in) ==
  LET r == readBytes(in, 8) IN IF r.st # "ok" THEN r ELSE Ok(<<"float", r.v>>, r.in)

readColOffset(in) ==
  LET r == readULL(in)
  IN IF r.st = "ok" /\ r.v[2] \notin 0..99999 THEN Fail("abort") ELSE r

readString(in) ==
  LET n == readShort(in)
      r == readBytes(n.in, n.v)
  IN IF n.st # "ok" THEN n ELSE IF r.st # "ok" THEN r ELSE Ok(<<"str", r.v>>, r.in)

-----------------------------------------------------------------------------
Place == <<<<"col_offset", "ColOffset">>, <<"lineno", "ULL">>>>
NoPlace == <<<<"col_offset", "-1">>, <<"lineno", "-1">>>>

read_alias == <<<<"asname", "String">>, <<"col_offset", "-1">>, <<"lineno", "-1">>, <<"name", "String">>>>
read_arguments ==
  <<<<"args", "ExprVector">>, <<"col_offset", "-1">>, <<"defaults", "ExprVector">>,
    <<"kwarg", "Expr">>, <<"lineno", "-1">>, <<"vararg", "String">>>>
read_assign == Place \o <<<<"targets", "ExprVector">>, <<"value", "Expr">>>>
read_attribute ==
  <<<<"attr", "String">>, <<"col_offset", "ColOffset">>, <<"ctx", "Byte">>, <<"lineno", "ULL">>,
    <<"value", "Expr">>>>
read_binop ==
  <<<<"col_offset", "ColOffset">>, <<"left", "Expr">>, <<"lineno", "ULL">>, <<"op", "Byte">>,
    <<"right", "Expr">>>>
read_boolop == Place \o <<<<"op", "Byte">>, <<"values", "ExprVector">>>>
read_break == Place
read_call ==
  <<<<"args", "ExprVector">>, <<"col_offset", "ColOffset">>, <<"func", "Expr">>,
    <<"keywords", "KeywordVector">>, <<"kwargs", "Expr">>, <<"lineno", "ULL">>,
    <<"starargs", "Expr">>>>
read_compare ==
  <<<<"col_offset", "ColOffset">>, <<"comparators", "ExprVector">>, <<"left", "Expr">>,
    <<"lineno", "ULL">>, <<"ops", "ByteVector">>>>
read_classdef ==
  <<<<"bases", "ExprVector">>, <<"body", "StmtVector">>, <<"col_offset", "ColOffset">>,
    <<"decorator_list", "ExprVector">>, <<"lineno", "ULL">>, <<"name", "String">>>>
read_continue == Place
read_dict ==
  <<<<"col_offset", "ColOffset">>, <<"keys", "ExprVector">>, <<"lineno", "ULL">>,
    <<"values", "ExprVector">>>>
read_expr == Place \o <<<<"value", "Expr">>>>
read_for ==
  <<<<"body", "StmtVector">>, <<"col_offset", "ColOffset">>, <<"iter", "Expr">>,
    <<"lineno", "ULL">>, <<"orelse", "StmtVector">>, <<"target", "Expr">>>>
read_functiondef ==
  <<<<"args", "Misc">>, <<"body", "StmtVector">>, <<"col_offset", "ColOffset">>,
    <<"decorator_list", "ExprVector">>, <<"lineno", "ULL">>, <<"name", "String">>>>
read_global == Place \o <<<<"names", "StringVector">>>>
read_if ==
  <<<<"body", "StmtVector">>, <<"col_offset", "ColOffset">>, <<"lineno", "ULL">>,
    <<"orelse", "StmtVector">>, <<"test", "Expr">>>>
read_import == Place \o <<<<"names", "AliasVector">>>>
read_index == NoPlace \o <<<<"value", "Expr">>>>
read_keyword == <<<<"arg", "String">>>> \o NoPlace \o <<<<"value", "Expr">>>>
read_list ==
  <<<<"col_offset", "ColOffset">>, <<"ctx", "Byte">>, <<"elts", "ExprVector">>, <<"lineno", "ULL">>>>
read_module == <<<<"body", "StmtVector">>>> \o NoPlace
read_name ==
  <<<<"col_offset", "ColOffset">>, <<"ctx", "Byte">>, <<"id", "String">>, <<"lineno", "ULL">>>>
read_num == <<<<"num_type", "NumType">>>> \o Place \o <<<<"n", "Num">>>>
read_pass == Place
read_print ==
  <<<<"col_offset", "ColOffset">>, <<"dest", "Expr">>, <<"lineno", "ULL">>, <<"nl", "Bool">>,
    <<"values", "ExprVector">>>>
read_return == Place \o <<<<"value", "Expr">>>>
\* A plausible slip: the members of the class in the order they are declared.
read_sliceDeclared == NoPlace \o <<<<"lower", "Expr">>, <<"upper", "Expr">>, <<"step", "Expr">>>>
read_slice == NoPlace \o <<<<"lower", "Expr">>, <<"step", "Expr">>, <<"upper", "Expr">>>>
read_str == Place \o <<<<"s", "String">>>>
read_subscript ==
  <<<<"col_offset", "ColOffset">>, <<"ctx", "Byte">>, <<"lineno", "ULL">>, <<"slice", "Expr">>,
    <<"value", "Expr">>>>
read_tuple ==
  <<<<"col_offset", "ColOffset">>, <<"ctx", "Byte">>, <<"elts", "ExprVector">>, <<"lineno", "ULL">>>>
read_unaryop == Place \o <<<<"op", "Byte">>, <<"operand", "Expr">>>>
read_while ==
  <<<<"body", "StmtVector">>, <<"col_offset", "ColOffset">>, <<"lineno", "ULL">>,
    <<"orelse", "StmtVector">>, <<"test", "Expr">>>>
read_with ==
  <<<<"body", "StmtVector">>, <<"col_offset", "ColOffset">>, <<"context_expr", "Expr">>,
    <<"lineno", "ULL">>, <<"optional_vars", "Expr">>>>

readASTExpr ==
  [Attribute |-> read_attribute, BinOp |-> read_binop, BoolOp |-> read_boolop,
   Call |-> read_call, Compare |-> read_compare, Dict |-> read_dict, Index |-> read_index,
   List |-> read_list, Name |-> read_name, Num |-> read_num, Slice |-> read_slice,
   Str |-> read_str, Subscript |-> read_subscript, Tuple |-> read_tuple,
   UnaryOp |-> read_unaryop]
readASTStmt ==
  [Assign |-> read_assign, Break |-> read_break, ClassDef |-> read_classdef,
   Continue |-> read_continue, Expr |-> read_expr, For |-> read_for,
   FunctionDef |-> read_functiondef, Global |-> read_global, If |-> read_if,
   Import |-> read_import, Pass |-> read_pass,
   Return |-> read_return, While |-> read_while, With |-> read_with]
  @@ "Print" :> read_print
readASTMisc ==
  [alias |-> read_alias, arguments |-> read_arguments, keyword |-> read_keyword,
   Module |-> read_module]

-----------------------------------------------------------------------------
ElementsOf(kind) ==
  CASE kind = "ExprVector" -> "Expr"
    [] kind = "StmtVector" -> "Stmt"
    [] kind = "StringVector" -> "String"
    [] kind = "ByteVector" -> "Byte"
    [] OTHER -> "Misc"

\* Assertions of the functions that read whole nodes.
Agrees(type, f) ==
  CASE type = "Dict" -> Len(f.keys[2]) = Len(f.values[2])
    [] type = "Compare" -> Len(f.ops[2]) = Len(f.comparators[2])
    [] type = "Index" -> f.value # NULL
    [] type = "Call" -> \A i \in DOMAIN f.keywords[2] : TypeOf(f.keywords[2][i]) = "keyword"
    [] type = "Import" -> \A i \in DOMAIN f.names[2] : TypeOf(f.names[2][i]) = "alias"
    [] OTHER -> TRUE

RECURSIVE ReadNode(_, _), ReadFields(_, _, _), ReadElements(_, _, _, _), ReadField(_, _, _)
\* A type byte, the check byte, and the members of the node.
ReadNode(reads, in) ==
  LET type == readByte(in)
      check == readByte(type.in)
      name == IF type.v[2] \in DOMAIN AST_TYPE THEN AST_TYPE[type.v[2]] ELSE "unused"
      fields == ReadFields(reads[name], check.in, Constructed(name))
  IN CASE type.st # "ok" -> type
       [] type.v[2] = 0 -> Ok(NULL, type.in)
       [] check.st # "ok" -> check
       [] check.v[2] # 174 \/ name \notin DOMAIN reads -> Fail("abort")
       [] fields.st # "ok" -> fields
       [] ~Agrees(name, fields.v) -> Fail("abort")
       [] OTHER -> Ok(Node(name, fields.v), fields.in)

ReadFields(reads, in, f) ==
  IF reads = <<>> THEN Ok(f, in)
  ELSE LET r == ReadField(Head(reads)[2], in, f)
       IN IF r.st # "ok" THEN r ELSE ReadFields(Tail(reads), r.in, [f EXCEPT ![Head(reads)[1]] = r.v])

ReadElements(kind, n, in, vs) ==
  IF n = 0 THEN Ok(<<"list", vs>>, in)
  ELSE LET r == ReadField(kind, in, <<>>)
       IN IF r.st # "ok" THEN r ELSE ReadElements(kind, n - 1, r.in, Append(vs, r.v))

ReadField(kind, in, f) ==
  CASE kind = "-1" -> Ok(<<"int", -1>>, in)
    [] kind = "Byte" -> readByte(in)
    [] kind = "Bool" -> LET r == readByte(in) IN IF r.st # "ok" THEN r ELSE Ok(<<"bool", r.v[2] # 0>>, r.in)
    [] kind = "NumType" -> readByte(in)
    [] kind = "Num" ->
         CASE f.num_type = <<"int", 16>> -> readULL(in)
           [] f.num_type = <<"int", 32>> -> readDouble(in)
           [] OTHER -> Fail("abort")
    [] kind = "ULL" -> readULL(in)
    [] kind = "ColOffset" -> readColOffset(in)
    [] kind = "String" -> readString(in)
    [] kind = "Expr" -> ReadNode(readASTExpr, in)
    [] kind = "Stmt" -> ReadNode(readASTStmt, in)
    [] kind = "Misc" -> ReadNode(readASTMisc, in)
    [] OTHER -> LET n == readShort(in)
                IN IF n.st # "ok" THEN n ELSE ReadElements(ElementsOf(kind), n.v, n.in, <<>>)

\* The tree in the bytes read from the file, as far as they go.
ReadTree(in) == ReadNode(readASTMisc, in)
=============================================================================
