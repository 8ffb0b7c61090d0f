------------------------------ MODULE Scoping ------------------------------
(***************************************************************************)
(* analysis/scoping_analysis.cpp: which names of a function or class body  *)
(* are global.  A scope is a ScopeNameUsage: the path of its node in the   *)
(* module, the path of the scope around it (<<>> for NULL), its type, and  *)
(* the names it reads, writes and declares global.                         *)
(***************************************************************************)
EXTENDS Ast

NoNames == [read |-> {}, written |-> {}, forced_globals |-> {}, aborts |-> FALSE]
Join(all) ==
  [read |-> UNION {a.read : a \in all}, written |-> UNION {a.written : a \in all},
   forced_globals |-> UNION {a.forced_globals : a \in all}, aborts |-> \E a \in all : a.aborts]
doRead(name) == [NoNames EXCEPT !.read = {name}]
doWrite(name) == [NoNames EXCEPT !.read = {name}, !.written = {name}]
Aborting == [NoNames EXCEPT !.aborts = TRUE]

Imported(a) == IF Field(a, "asname")[2] # <<>> THEN Field(a, "asname")[2] ELSE Field(a, "name")[2]

IsScope(n) == TypeOf(n) \in {"ClassDef", "FunctionDef"}

(***************************************************************************)
(* NameCollectorVisitor: the names of the node at path, without those of   *)
(* the scopes nested in it.  There is no visit_keyword, so that a call     *)
(* with a keyword aborts.                                                  *)
(***************************************************************************)
visit_nameStore(n) ==
  CASE Field(n, "ctx")[2] \in {Enum("Load"), Enum("Param")} -> doRead(Field(n, "id")[2])
    [] Field(n, "ctx")[2] = Enum("Store") -> doWrite(Field(n, "id")[2])
    [] OTHER -> Aborting

visit_name(n) ==
  CASE Field(n, "ctx")[2] = Enum("Load") -> doRead(Field(n, "id")[2])
    [] Field(n, "ctx")[2] \in {Enum("Param"), Enum("Store")} -> doWrite(Field(n, "id")[2])
    [] OTHER -> Aborting

visit_global(n) ==
  [NoNames EXCEPT !.forced_globals = {Field(n, "names")[2][i][2] : i \in DOMAIN Field(n, "names")[2]}]
visit_import(n) ==
  Join({doWrite(Imported(Field(n, "names")[2][i])) : i \in DOMAIN Field(n, "names")[2]})

RECURSIVE NamesOf(_)
NamesOf(n) ==
  CASE TypeOf(n) = "Name" -> visit_name(n)
    [] TypeOf(n) = "Global" -> visit_global(n)
    [] TypeOf(n) = "Import" -> visit_import(n)
    [] IsScope(n) -> doWrite(Field(n, "name")[2])
    [] TypeOf(n) \in {"keyword", "alias", "Module"} -> Aborting
    [] OTHER -> Join({NamesOf(Children(n)[i]) : i \in DOMAIN Children(n)})

\* The scopes in the node n at path, which lies in the scope at parent.
RECURSIVE collect(_, _, _)
collect(n, path, parent) ==
  LET inner == IF IsScope(n) THEN path ELSE parent
      names == Join({NamesOf(Children(n)[i]) : i \in DOMAIN Children(n)})
      here == IF IsScope(n)
              THEN {[path |-> path, parent |-> parent, type |-> TypeOf(n)] @@ names}
              ELSE {}
  IN here \cup UNION {collect(Children(n)[i], Append(path, i), inner) : i \in DOMAIN Children(n)}

-----------------------------------------------------------------------------
\* processNameUsages: the scope a name that usage reads is taken from, or <<>>.
RECURSIVE Lookup(_, _, _)
Lookup(usages, path, name) ==
  IF path = <<>> THEN <<>>
  ELSE LET scope == CHOOSE u \in usages : u.path = path
       IN IF scope.type = "ClassDef" THEN Lookup(usages, scope.parent, name)
          ELSE IF name \in scope.forced_globals THEN <<>>
          ELSE IF name \in scope.written THEN path
          ELSE Lookup(usages, scope.parent, name)

Resolved(usage) == usage.read \ (usage.forced_globals \cup usage.written)
got_from_closure(usages, usage) ==
  {name \in Resolved(usage) : Lookup(usages, usage.parent, name) # <<>>}
referenced_from_nested(usages, usage) ==
  UNION {{name \in Resolved(u) : Lookup(usages, u.parent, name) = usage.path} : u \in usages}

refersToGlobal(usages, usage, name) ==
  \/ name \in usage.forced_globals
  \/ name \notin usage.written /\ name \notin got_from_closure(usages, usage)
refersToClosure(usages, usage, name) == name \in got_from_closure(usages, usage)
saveInClosure(usages, usage, name) == name \in referenced_from_nested(usages, usage)

\* The scopes that getScopeInfoForNode analyses together: a subtree of the module.
Subtrees(module) == {path \in flatten(Children(module), TRUE) :
                       /\ IsScope(AtPath(module, path))
                       /\ \A i \in 1..(Len(path) - 1) : ~IsScope(AtPath(module, SubSeq(path, 1, i)))}
analyzeSubtree(module, path) == collect(AtPath(module, path), path, <<>>)

\* The assertion of analyzeSubtree.
Found(module, path) == ~FlattenAborts(module) /\ path \in flatten(Children(module), FALSE)
=============================================================================
