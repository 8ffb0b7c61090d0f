------------------------------ MODULE Analyses -------------------------------
(***************************************************************************)
(* The analyses of a control flow graph g (see Cfg) that IR generation     *)
(* relies on: liveness, definedness and required phis                      *)
(* (analysis/function_analysis.cpp, with computeFixedPoint of fpc.h) and   *)
(* types (analysis/type_analysis.cpp), for names that are local.           *)
(***************************************************************************)
EXTENDS Cfg

EmptyMap == [n \in {} |-> n]
Succs(g, b) == Range(g.succs[b])
Accesses(g, b) == DOMAIN g.body[b]

-----------------------------------------------------------------------------
(* LivenessAnalysis.  A statement's value is visited before its target.     *)

LoadsFirst(g, b) ==
  UNION {g.body[b][i].loads \ UNION {g.body[b][j].stores : j \in 1..(i - 1)} :
           i \in Accesses(g, b)}
StoresFirst(g, b) ==
  UNION {g.body[b][i].stores \ UNION {g.body[b][j].loads : j \in 1..i} : i \in Accesses(g, b)}

\* Blocks that isLiveAtEnd looks at, starting with the blocks of the queue.
RECURSIVE Traced(_, _, _, _)
Traced(g, n, queue, visited) ==
  LET new == queue \ visited
      through == {b \in new : n \notin LoadsFirst(g, b) \cup StoresFirst(g, b)}
  IN  IF new = {} THEN visited
      ELSE Traced(g, n, UNION {Succs(g, b) : b \in through}, visited \cup new)

\* Mutant: looks at the next blocks only.
isLiveNext(g, n, b) == \E c \in Succs(g, b) : n \in LoadsFirst(g, c)
isLiveAtEnd(g, n, b) == \E c \in Traced(g, n, Succs(g, b), {}) : n \in LoadsFirst(g, c)

-----------------------------------------------------------------------------
(* DefinednessAnalysis: levels by name, a name that is missing is Undefined. *)

Stored(g, b) == UNION {g.body[b][i].stores : i \in Accesses(g, b)}

\* DefinednessBBAnalyzer::processBB.
processBB(g, b, starting) ==
  [n \in DOMAIN starting \cup Stored(g, b) |->
     IF n \in Stored(g, b) THEN "Defined" ELSE starting[n]]

\* Mutant: a name that only one side knows keeps its level.
mergeIntoKeeps(ending, next, initial) == ending @@ next
\* What flows into a block: merge where both sides know the name, mergeBlank where
\* only one does, and a copy the first time.
mergeInto(ending, next, initial) ==
  [n \in DOMAIN ending \cup DOMAIN next |->
     IF initial THEN ending[n]
     ELSE IF n \in DOMAIN ending \cap DOMAIN next /\ ending[n] = "Defined" THEN next[n]
     ELSE "PotentiallyDefined"]

\* computeFixedPoint: q is a stack.  A block's entry in states is what flows into
\* it until the block is processed, and its state at the end afterwards.
RECURSIVE FixedPoint(_, _, _)
FixedPoint(g, states, q) ==
  IF q = <<>> THEN states
  ELSE LET block == Last(q)
           ending == processBB(g, block, states[block])
           flow(acc, c) ==
             LET initial == c \notin DOMAIN acc.states
                 next == IF initial THEN EmptyMap ELSE acc.states[c]
                 merged == mergeInto(ending, next, initial)
             IN  [states |-> (c :> merged) @@ acc.states,
                  q |-> IF initial \/ merged # next THEN Append(acc.q, c) ELSE acc.q]
           done == FoldLeft(flow, [states |-> states, q |-> Front(q)], g.succs[block])
       IN  FixedPoint(g, (block :> ending) @@ done.states, done.q)

Definedness(g) == FixedPoint(g, g.blocks[1] :> EmptyMap, <<g.blocks[1]>>)

\* PhiAnalysis: names that need a phi at the start of each block.
RequiredPhis(g, defined) ==
  [b \in Range(g.blocks) |->
     IF Len(g.preds[b]) < 2 THEN {}
     ELSE {n \in DOMAIN defined[b] : isLiveAtEnd(g, n, g.preds[b][1])}]

isPotentiallyUndefinedAfter(g, defined, n, b) == defined[g.succs[b][1]][n] = "PotentiallyDefined"

-----------------------------------------------------------------------------
(* PropagatingTypeAnalysis.  The type of a statement's value is a type of    *)
(* the compiler, or that of the name it copies.                             *)

\* BasicBlockTypePropagator.  Reading an unknown name makes it UNDEF.
propagate(g, b, starting) ==
  LET read(types, s) == [n \in s.loads \ DOMAIN types |-> "UNDEF"] @@ types
      value(types, s) == IF s.op = "rtnval" THEN types[RTNVAL] ELSE s.type
      step(types, s) == [n \in s.stores |-> value(read(types, s), s)] @@ read(types, s)
  IN  FoldLeft(step, starting, g.body[b])

mergeType(lhs, rhs) ==
  IF lhs = "UNDEF" \/ rhs = "UNDEF" \/ lhs = rhs THEN rhs ELSE "UNKNOWN"

mergeTypes(ending, next) ==
  [n \in DOMAIN ending \cup DOMAIN next |->
     IF n \notin DOMAIN next THEN ending[n]
     ELSE IF n \notin DOMAIN ending THEN next[n]
     ELSE mergeType(ending[n], next[n])]

\* doAnalysis: the types at the start of each block; queue is first in, first out.
RECURSIVE TypeFixedPoint(_, _, _)
TypeFixedPoint(g, starting, queue) ==
  IF queue = <<>> THEN starting
  ELSE LET block == Head(queue)
           ending == propagate(g, block, starting[block])
           flow(acc, c) ==
             LET first == c \notin DOMAIN acc.starting
                 merged == mergeTypes(ending, IF first THEN EmptyMap ELSE acc.starting[c])
                 changed == first \/ merged # acc.starting[c]
             IN  [starting |-> (c :> merged) @@ acc.starting,
                  queue |-> IF changed /\ ~Contains(acc.queue, c)
                            THEN Append(acc.queue, c) ELSE acc.queue]
           done == FoldLeft(flow, [starting |-> starting, queue |-> Tail(queue)], g.succs[block])
       IN  TypeFixedPoint(g, done.starting, done.queue)

StartingTypes(g) == TypeFixedPoint(g, g.blocks[1] :> EmptyMap, <<g.blocks[1]>>)

\* getTypeAtBlockStart asserts that the type it finds is not NULL.
getTypeAtBlockEnd(g, types, n, b) ==
  LET starting == types[g.succs[b][1]]
  IN  IF n \in DOMAIN starting THEN starting[n] ELSE "NULL"
==============================================================================
