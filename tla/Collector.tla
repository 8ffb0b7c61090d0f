------------------------------ MODULE Collector ------------------------------
(***************************************************************************)
(* Garbage collection: src/gc/collector.{h,cpp}, the GC handlers of        *)
(* src/runtime/types.cpp, and lists (src/runtime/list.cpp,                 *)
(* inline/list.cpp) as the program that allocates.                         *)
(*                                                                         *)
(* An allocation may run a collection before it returns.  Collections mark *)
(* from the static roots and from every word of the stack that could be a  *)
(* pointer, then free what is not marked.  A list is a box with an array   *)
(* of elements, which is an allocation of its own; the array is untracked, *)
(* so it is the list's handler that visits the elements.  Freed memory     *)
(* keeps its contents until it is handed out again.                        *)
(***************************************************************************)
EXTENDS Naturals, Sequences, Functions, FiniteSets, TLC

CONSTANTS
  Cells,            \* the objects of the heap, free or not
  Vars,             \* variables of the running program: words of its stack
  InitialCapacity,  \* INITIAL_CAPACITY of BoxedList::ensure
  MaxSize,          \* bound: elements of a list
  Emptying,         \* may the program pop the last element of a list?
  MaxStale          \* bound: stale words on the stack that a collection sees

None == "None"      \* a static root: never collected, so it has no cell

\* Cells differ in nothing but their contents.
CellSymmetry == Permutations(Cells)

ASSUME CollectorAssumption ==
  /\ InitialCapacity \in Nat \ {0} /\ MaxSize \in Nat /\ MaxStale \in Nat
  /\ Emptying \in BOOLEAN
  /\ None \notin Cells

VARIABLES
  isfree,     \* free cells
  mem,        \* the contents of cells
  mark,       \* the cells whose MARK_BIT is set
  var,        \* the program's variables
  request,    \* the allocation that is under way: at most one
  phase,      \* "run", or "mark" during a collection
  stack,      \* markPhase's TraceStack
  precise     \* history: has the collection under way met no stale word?

vars == <<isfree, mem, mark, var, request, phase, stack, precise>>

(***************************************************************************)
(* What a cell holds: a list or an array (an object without references is  *)
(* to the collector what a list without elements is).  The constructor of  *)
(* a list leaves elts uninitialised: nothing reads it while capacity is 0. *)
(***************************************************************************)
Contents(kind, size, capacity, elts, data) ==
  [kind |-> kind, size |-> size, capacity |-> capacity, elts |-> elts, data |-> data]
NewList == Contents("list", 0, 0, None, <<>>)
ElementArray(data) == Contents("untracked", 0, 0, None, data)

IsList(c) == c \in Cells /\ mem[c].kind = "list"

\* data with x stored at position i, which may be the first behind its end.
Put(data, i, x) == [k \in 1..(IF i > Len(data) THEN i ELSE Len(data)) |->
                      IF k = i THEN x ELSE data[k]]

\* The k-th element of list l.  Where its array was freed and its cell is a list
\* now, the word read is one of that list's fields: no reference to a cell.
Element(l, k) ==
  LET data == mem[mem[l].elts].data IN IF k \in DOMAIN data THEN data[k] ELSE None

Init ==
  /\ isfree = Cells
  /\ mem = [c \in Cells |-> NewList]
  /\ mark = {}
  /\ var = [v \in Vars |-> None]
  /\ request = {}
  /\ phase = "run"
  /\ stack = {}
  /\ precise = TRUE

Running == phase = "run" /\ request = {}
heapVars == <<isfree, mark, phase, stack, precise>>

------------------------------------------------------------------------------
(***************************************************************************)
(* The program.  An operation that allocates makes a request, and goes on  *)
(* when the heap has answered it.                                          *)
(***************************************************************************)
NewObject(v) ==
  /\ Running
  /\ request' = {[op |-> "new", var |-> v, val |-> None, mayCollect |-> TRUE]}
  /\ UNCHANGED <<heapVars, mem, var>>

\* ensure(1) has nothing to do.
HasRoom(l) == mem[l].size < mem[l].capacity

\* listAppend, in the array there is.
AppendInPlace(v, w) ==
  LET l == var[v] IN
  /\ Running
  /\ IsList(l)
  /\ HasRoom(l) /\ mem[l].size < MaxSize
  /\ mem' = [mem EXCEPT ![l].size = @ + 1,
                        ![mem[l].elts].data = Put(@, mem[l].size + 1, var[w])]
  /\ UNCHANGED <<heapVars, request, var>>

\* listAppend, when ensure(1) has to allocate.
AppendGrows(v, w) ==
  /\ Running
  /\ IsList(var[v])
  /\ ~ HasRoom(var[v]) /\ mem[var[v]].size < MaxSize
  /\ request' = {[op |-> "append", var |-> v, val |-> var[w], mayCollect |-> TRUE]}
  /\ UNCHANGED <<heapVars, mem, var>>

\* listPop1; the popped element stays behind in the array.
Pop(v, w) ==
  LET l == var[v] IN
  /\ Running
  /\ IsList(l)
  /\ mem[l].size > (IF Emptying THEN 0 ELSE 1)
  /\ mem' = [mem EXCEPT ![l].size = @ - 1]
  /\ var' = [var EXCEPT ![w] = Element(l, mem[l].size)]
  /\ UNCHANGED <<heapVars, request>>

\* A variable is assigned: another variable, an element, or None.
Assign(v, x) ==
  /\ Running
  /\ var' = [var EXCEPT ![v] = x]
  /\ UNCHANGED <<heapVars, mem, request>>

------------------------------------------------------------------------------
(***************************************************************************)
(* The heap answers a request: alloc hands out cell c, the constructor     *)
(* writes its header (with a clear mark), and the operation is finished.   *)
(* A growing list copies its old array, header included, and frees it.     *)
(***************************************************************************)
FinishNew(r, c) ==
  /\ r.op = "new"
  /\ mem' = [mem EXCEPT ![c] = NewList]
  /\ var' = [var EXCEPT ![r.var] = c]
  /\ isfree' = isfree \ {c}
  /\ mark' = mark \ {c}

FinishFirstAppend(r, c) ==
  LET l == var[r.var] IN
  /\ r.op = "append" /\ mem[l].capacity = 0
  /\ mem' = [mem EXCEPT ![c] = ElementArray(<<r.val>>),
                        ![l] = Contents("list", 1, InitialCapacity, c, <<>>)]
  /\ isfree' = isfree \ {c}
  /\ mark' = mark \ {c}
  /\ UNCHANGED var

FinishAppend(r, c) ==
  LET l == var[r.var]
      old == mem[l].elts IN
  /\ r.op = "append" /\ mem[l].capacity > 0
  /\ mem' = [mem EXCEPT ![c] = [mem[old] EXCEPT !.data = Put(@, mem[l].size + 1, r.val)],
                        ![l] = Contents("list", mem[l].size + 1, 2 * mem[l].capacity, c, <<>>)]
  /\ isfree' = (isfree \ {c}) \cup {old}
  /\ mark' = IF old \in mark THEN mark \cup {c} ELSE mark \ {c}
  /\ UNCHANGED var

Allocate(c) ==
  \E r \in request :
    /\ phase = "run"
    /\ c \in isfree
    /\ FinishNew(r, c) \/ FinishFirstAppend(r, c) \/ FinishAppend(r, c)
    /\ request' = {}
    /\ UNCHANGED <<phase, stack, precise>>

(***************************************************************************)
(* runCollection, from _collectIfNeeded: once per allocation at most.  The *)
(* byte counter that decides is left open.  The roots are the words on the *)
(* stack that getAllocationFromInteriorPointer accepts: the variables, the *)
(* operands of the operation under way, and words that are left from       *)
(* earlier calls.                                                          *)
(***************************************************************************)
\* Mutant: words are taken for pointers unseen.
AllocationsUnchecked(words) == words
Allocations(words) == words \ isfree
Roots == (Range(var) \cup {r.val : r \in request}) \ {None}

Collect(stale) ==
  /\ phase = "run"
  /\ \E r \in request : r.mayCollect /\ request' = {[r EXCEPT !.mayCollect = FALSE]}
  /\ phase' = "mark"
  /\ stack' = Allocations(Roots \cup stale)
  /\ precise' = (stale \subseteq isfree)
  /\ UNCHANGED <<isfree, mem, mark, var>>

\* What the handler of a cell's kind visits: a list without elements nothing.
\* Mutants: the array itself is forgotten; its unused entries are visited too.
VisitedArrayForgotten(c) ==
  IF mem[c].kind = "list" /\ mem[c].size > 0
    THEN {Element(c, k) : k \in 1..mem[c].size} \ {None}
    ELSE {}
VisitedCapacity(c) ==
  IF mem[c].kind = "list" /\ mem[c].size > 0
    THEN ({mem[c].elts} \cup Range(mem[mem[c].elts].data)) \ {None}
    ELSE {}
Visited(c) ==
  IF mem[c].kind = "list" /\ mem[c].size > 0
    THEN ({mem[c].elts} \cup {Element(c, k) : k \in 1..mem[c].size}) \ {None}
    ELSE {}

\* One turn of markPhase's loop.
Trace(c) == IF c \in mark THEN {} ELSE Visited(c)
MarkStep(c) ==
  /\ phase = "mark"
  /\ c \in stack
  /\ mark' = mark \cup {c}
  /\ stack' = (stack \ {c}) \cup Trace(c)
  /\ UNCHANGED <<isfree, mem, var, request, phase, precise>>

\* sweepPhase, once the trace stack is empty.
SweptMarks == mark \cap isfree
Sweep ==
  /\ phase = "mark" /\ stack = {}
  /\ isfree' = isfree \cup (Cells \ mark)
  /\ mark' = SweptMarks
  /\ phase' = "run"
  /\ precise' = TRUE
  /\ UNCHANGED <<mem, var, request, stack>>

Stale == {S \in SUBSET Cells : Cardinality(S) <= MaxStale}

Next ==
  \/ \E v \in Vars : NewObject(v)
  \/ \E v, w \in Vars : AppendInPlace(v, w) \/ AppendGrows(v, w) \/ Pop(v, w)
  \/ \E v \in Vars, x \in Range(var) \cup {None} : Assign(v, x)
  \/ \E c \in Cells : Allocate(c) \/ MarkStep(c)
  \/ \E stale \in Stale : Collect(stale)
  \/ Sweep

Spec == Init /\ [][Next]_vars

------------------------------------------------------------------------------
(***************************************************************************)
(* Properties.                                                             *)
(***************************************************************************)

\* TraceStackGCVisitor::_visit: assert(isValid(p)).  Everything the handlers visit is
\* an allocation that is in use.
VisitsValid == stack \cap isfree = {}

\* What the program can still get at: an array belongs to its list as long as the
\* list has capacity.
Uses(c) == IF mem[c].kind # "list" \/ mem[c].capacity = 0 THEN {}
           ELSE ({mem[c].elts} \cup {Element(c, k) : k \in 1..mem[c].size}) \ {None}
Reachable ==
  LET uses == [c \in Cells |-> Uses(c)]
      closed == {S \in SUBSET Cells : Roots \subseteq S /\ \A c \in S : uses[c] \subseteq S}
  IN  {c \in Cells : \A S \in closed : c \in S}

\* Nothing the program can get at is ever freed, by a collection in the middle of
\* any operation or by the growth of a list, nor handed out again: an array is used
\* by one list only, and as nothing else.
ArraysOwned(owners) ==
  /\ \A l \in owners : mem[mem[l].elts].kind = "untracked"
  /\ \A l, m \in owners : mem[l].elts = mem[m].elts => l = m
ReachableInUse ==
  LET reachable == Reachable
  IN  /\ reachable \cap isfree = {}
      /\ ArraysOwned({l \in reachable : IsList(l) /\ mem[l].capacity > 0})

\* A collection that meets no stale words frees all garbage, cycles included.
GarbageFreed ==
  [][(phase = "mark" /\ precise /\ phase' = "run") => Cells \ isfree' = Reachable]_vars

\* Every collection comes to an end, also when lists contain themselves: a turn of
\* the marking loop marks another object or leaves less to look at.
MarkingProgresses ==
  [][(phase = "mark" /\ phase' = "mark") =>
       \/ mark \subseteq mark' /\ mark # mark'
       \/ mark = mark' /\ stack' \subseteq stack /\ stack # stack']_vars

\* A collection ends, and when it meets no stale words it has freed all garbage.
CollectsAllGarbage == GarbageFreed /\ MarkingProgresses
==============================================================================
