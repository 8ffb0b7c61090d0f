-------------------------------- MODULE IRGen --------------------------------
(***************************************************************************)
(* IR generation (codegen/irgen.cpp) of a whole function from its graph g: *)
(* which local variables each block has a value for, under which type, and *)
(* which phis join them.  A symbol table is a function from names to       *)
(* types; next to it are the names with a flag !is_defined_<name>.  The    *)
(* instructions are not built: what they compute is in CompiledRun.        *)
(***************************************************************************)
EXTENDS Analyses

\* canConvertTo, for the types of this model.  Mutant: UNDEF accepts everything.
canConvertToUndef(t, other) == "UNDEF" \in {t, other} \/ t = other \/ other = "UNKNOWN"
canConvertTo(t, other) == t = "UNDEF" \/ t = other \/ other = "UNKNOWN"

\* computeBlockTraversalOrder, breadth first: each block after the one it was
\* found from, its pred.
RECURSIVE Traversal(_, _, _)
Traversal(g, order, i) ==
  IF i > Len(order) THEN order
  ELSE LET cur == order[i].block
           found(acc, c) == IF \E j \in DOMAIN acc : acc[j].block = c THEN acc
                            ELSE Append(acc, [block |-> c, pred |-> cur])
       IN  Traversal(g, FoldLeft(found, order, g.succs[cur]), i + 1)
TraversalOrder(g) == Traversal(g, <<[block |-> g.blocks[1], pred |-> NULL]>>, 1)

-----------------------------------------------------------------------------
(* One block: [table, flags, ok], ok being that no assertion failed.        *)

\* evalName and _doSet.  The flag of a name is used up by the first load.
DoStmt(st, s) ==
  LET value == IF s.op = "rtnval" THEN st.table[RTNVAL] ELSE s.type
  IN  [st EXCEPT !.table = [n \in s.stores |-> value] @@ @, !.flags = @ \ s.loads]

\* endBlock: names that are live afterwards, in the type the next block expects; then
\* the names that need a phi there, undefined if the block has none.  A flag is no
\* name of the program, so the liveness analysis finds it dead.
endBlock(g, a, b, st) ==
  LET live == {n \in DOMAIN st.table : isLiveAtEnd(g, n, b)}
      required == IF g.succs[b] = <<>> THEN {} ELSE a.phis[g.succs[b][1]]
      after(n) == getTypeAtBlockEnd(g, a.types, n, b)
      kept(n) == IF Len(g.succs[b]) = 1 /\ n \in required THEN after(n) ELSE st.table[n]
  IN  [table |-> [n \in live \cup required |-> IF n \in live THEN kept(n) ELSE after(n)],
       flags |-> {n \in required : n \in live => isPotentiallyUndefinedAfter(g, a.defined, n, b)},
       missing |-> required \ live,
       ok |-> /\ \A n \in live : canConvertTo(st.table[n], after(n))
              /\ \A n \in live \cup required : after(n) # "NULL"]

\* getEndingSymbolTable: what the next block gets through phis, and the rest.
Split(g, a, b, end) ==
  LET phis == IF Len(g.succs[b]) = 1 THEN a.phis[g.succs[b][1]] ELSE {}
  IN  [st |-> Restrict(end.table, DOMAIN end.table \ phis),
       phi_st |-> Restrict(end.table, DOMAIN end.table \cap phis),
       flags |-> end.flags, missing |-> end.missing,
       ok |-> /\ end.ok
              /\ g.succs[b] = <<>> => DOMAIN end.table = {}
              /\ Len(g.succs[b]) # 1 => end.flags = {}]

\* The initial symbol table of a block, found from pred, whose tables are t.
Start(g, b, t) ==
  IF Len(g.preds[b]) = 1
  THEN [table |-> t.st, flags |-> {}, phis |-> EmptyMap,
        ok |-> DOMAIN t.phi_st = {} /\ t.flags = {}]
  ELSE [table |-> t.phi_st @@ t.st, flags |-> t.flags, phis |-> t.phi_st,
        ok |-> DOMAIN t.phi_st \cap DOMAIN t.st = {}]
EntryStart == [table |-> EmptyMap, flags |-> {}, phis |-> EmptyMap, ok |-> TRUE]

\* emitBBs, block by block: starts and ends of the blocks done so far.
EmitBlock(g, a, done, next) ==
  LET b == next.block
      start == IF next.pred = NULL THEN EntryStart ELSE Start(g, b, done.ends[next.pred])
      st == FoldLeft(DoStmt, [table |-> start.table, flags |-> start.flags], g.body[b])
  IN  [starts |-> (b :> start) @@ done.starts,
       ends |-> (b :> Split(g, a, b, endBlock(g, a, b, st))) @@ done.ends]

emitBBs(g) ==
  LET defined == Definedness(g)
      a == [defined |-> defined, phis |-> RequiredPhis(g, defined), types |-> StartingTypes(g)]
      none == [starts |-> EmptyMap, ends |-> EmptyMap]
      emit(done, next) == EmitBlock(g, a, done, next)
  IN  FoldLeft(emit, none, TraversalOrder(g))

-----------------------------------------------------------------------------
\* Every predecessor provides exactly the phis of a block, under the same types:
\* compareKeyset and the assertions of the phi generation.
PhisAgree(g, code) ==
  \A b \in Range(g.blocks) : \A p \in Range(g.preds[b]) :
    /\ code.ends[p].phi_st = code.starts[b].phis
    /\ code.ends[p].flags = code.starts[b].flags

\* The other assertions of endBlock, getEndingSymbolTable and emitBBs.
TablesFit(g, code) ==
  \A b \in Range(g.blocks) : code.starts[b].ok /\ code.ends[b].ok

\* The assertions of IR generation hold for g.
Compiles(g, code) == PhisAgree(g, code) /\ TablesFit(g, code)

\* Two kinds of programs make them fail.  (1) A block reads a name that may be
\* undefined and stores it: isPotentiallyUndefinedAfter then sees the state at the end
\* of the block, and not all predecessors provide the flag.  (2) A name was read on a
\* path where it is surely undefined: the type UNDEF stays in the way of the type that
\* another path brings.
StoresAfterRead(g, defined) ==
  \E b \in Range(g.blocks) : \E n \in LoadsFirst(g, b) \cap Stored(g, b) :
    /\ Len(g.preds[b]) >= 2
    /\ \E p \in Range(g.preds[b]) : n \notin DOMAIN defined[p]
UndefInTheWay(g, types) ==
  \E b \in Range(g.blocks) : \E n \in DOMAIN types[b] :
    /\ types[b][n] = "UNDEF"
    /\ \E p \in Range(g.preds[b]) :
         LET ending == propagate(g, p, types[p])
         IN  n \in DOMAIN ending /\ ending[n] # "UNDEF" /\ isLiveAtEnd(g, n, p)
==============================================================================
