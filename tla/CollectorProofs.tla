--------------------------- MODULE CollectorProofs ---------------------------
(***************************************************************************)
(* Collections are safe and complete, for any heap, any variables, any     *)
(* lists and any stale words on the stack, as long as no list is emptied   *)
(* by pop (NotEmptying: listGCHandler forgets the array of such a list, as *)
(* the run gc_emptied shows).                                              *)
(***************************************************************************)
EXTENDS Collector, TLAPS

NotEmptying == Emptying = FALSE

Value == Cells \cup {None}
ContentsType == [kind : {"list", "untracked"}, size : Nat, capacity : Nat, elts : Value, data : Seq(Value)]
RequestType == [op : {"new", "append"}, var : Vars, val : Value, mayCollect : BOOLEAN]

TypeOK ==
  /\ isfree \subseteq Cells
  /\ mem \in [Cells -> ContentsType]
  /\ mark \subseteq Cells
  /\ var \in [Vars -> Value]
  /\ request \subseteq RequestType
  /\ \A r, q \in request : r = q
  /\ phase \in {"run", "mark"}
  /\ stack \subseteq Cells
  /\ precise \in BOOLEAN

\* What a cell can be referred to as: a list in use, or None.
ListInUse(c) == c \in Cells /\ c \notin isfree /\ mem[c].kind = "list"
RefOK(x) == x = None \/ ListInUse(x)
HasArray(l) == ListInUse(l) /\ mem[l].capacity > 0

\* A list in use has an array exactly if it has elements; the array is in use, is an
\* array, and holds as many elements as the list has, all of them lists in use.
ArrayOK(l) ==
  LET e == mem[l].elts IN
  /\ mem[l].size > 0
  /\ e \in Cells /\ e \notin isfree
  /\ mem[e].kind = "untracked"
  /\ mem[l].size <= Len(mem[e].data)
  /\ \A k \in 1..mem[l].size : RefOK(mem[e].data[k])
ListsOK ==
  /\ \A l \in Cells : ListInUse(l) /\ mem[l].capacity = 0 => mem[l].size = 0
  /\ \A l \in Cells : HasArray(l) => ArrayOK(l)
  /\ \A l, m \in Cells : HasArray(l) /\ HasArray(m) /\ mem[l].elts = mem[m].elts => l = m

\* The program refers to lists in use only.
RootsOK ==
  /\ \A v \in Vars : RefOK(var[v])
  /\ \A r \in request : RefOK(r.val) /\ (r.op = "append" => ListInUse(var[r.var]))

\* No mark is left between collections.  During one, what is marked or to be looked
\* at is in use, and includes the roots and all that marked cells refer to.
MarksOK ==
  /\ phase = "run" => mark = {} /\ stack = {}
  /\ mark \cap isfree = {} /\ stack \cap isfree = {}
  /\ phase = "mark" => /\ Roots \subseteq mark \cup stack
                       /\ \A c \in mark : Uses(c) \subseteq mark \cup stack

\* A collection that has met no stale words has come only to what is reachable.
PreciseOK == phase = "mark" /\ precise => mark \cup stack \subseteq Reachable

CollectorInv == TypeOK /\ ListsOK /\ RootsOK /\ MarksOK

------------------------------------------------------------------------------
(***************************************************************************)
(* What a cell in use refers to.                                           *)
(***************************************************************************)
\* The handler of a list visits what the list uses, and all of that is in use.
LEMMA UsesInUse ==
  ASSUME TypeOK, ListsOK, NEW c \in Cells, c \notin isfree
  PROVE  /\ Uses(c) \subseteq Cells \ isfree
         /\ Visited(c) = Uses(c)
  <1>1. mem[c] \in ContentsType
    BY DEF TypeOK
  <1>2. CASE mem[c].kind # "list" \/ mem[c].capacity = 0
    <2>1. Uses(c) = {}
      BY <1>2 DEF Uses
    <2>2. ~(mem[c].kind = "list" /\ mem[c].size > 0)
      BY <1>2, <1>1 DEF ListsOK, ListInUse, ContentsType
    <2> QED BY <2>1, <2>2 DEF Visited
  <1>3. CASE mem[c].kind = "list" /\ mem[c].capacity # 0
    <2>1. ArrayOK(c)
      BY <1>1, <1>3 DEF ListsOK, HasArray, ListInUse, ContentsType
    <2> DEFINE data == mem[mem[c].elts].data
    <2>2. data \in Seq(Value)
      BY <2>1 DEF ArrayOK, TypeOK, ContentsType
    <2>3. \A k \in 1..mem[c].size : k \in DOMAIN data /\ RefOK(data[k])
      BY <1>1, <2>1, <2>2 DEF ArrayOK, ContentsType
    <2>4. \A k \in 1..mem[c].size : RefOK(Element(c, k))
      BY <2>3 DEF Element
    <2>5. \A x \in {mem[c].elts} \cup {Element(c, k) : k \in 1..mem[c].size} :
             x # None => x \in Cells \ isfree
      BY <2>1, <2>4 DEF ArrayOK, RefOK, ListInUse
    <2>6. mem[c].size > 0
      BY <2>1 DEF ArrayOK
    <2> QED BY <1>3, <2>5, <2>6 DEF Uses, Visited
  <1> QED BY <1>2, <1>3

\* What the stack refers to exists.
LEMMA RootsInUse ==
  ASSUME TypeOK, RootsOK
  PROVE  Roots \subseteq Cells \ isfree
  BY DEF Roots, RootsOK, RefOK, ListInUse, TypeOK, Range

\* Reachable is the least set that contains the roots and is closed under Uses.
LEMMA ReachableLeast ==
  ASSUME NEW S \in SUBSET Cells, Roots \subseteq S, \A c \in S : Uses(c) \subseteq S
  PROVE  Reachable \subseteq S
  BY DEF Reachable

\* The reachable cells are the least set that has the roots and is closed under Uses;
\* all of them are in use.
LEMMA ReachableClosed ==
  ASSUME TypeOK, ListsOK, RootsOK
  PROVE  /\ Roots \subseteq Reachable
         /\ \A c \in Reachable : Uses(c) \subseteq Reachable
         /\ Reachable \subseteq Cells \ isfree
  <1>1. Reachable \subseteq Cells \ isfree
    BY RootsInUse, UsesInUse, ReachableLeast
  <1>2. Roots \subseteq Reachable
    BY RootsInUse DEF Reachable
  <1>3. ASSUME NEW c \in Reachable PROVE Uses(c) \subseteq Reachable
    <2>1. c \in Cells /\ Uses(c) \subseteq Cells
      BY <1>1, UsesInUse
    <2> QED BY <2>1 DEF Reachable
  <1> QED BY <1>1, <1>2, <1>3

------------------------------------------------------------------------------
(***************************************************************************)
(* The actions that change variables, the request or marks only.           *)
(***************************************************************************)
LEMMA SameCells ==
  ASSUME UNCHANGED <<isfree, mem>>
  PROVE  /\ ListsOK => ListsOK'
         /\ \A x : RefOK(x)' <=> RefOK(x)
         /\ \A x : ListInUse(x)' <=> ListInUse(x)
         /\ \A c : Uses(c)' = Uses(c)
  BY DEF ListsOK, ArrayOK, HasArray, RefOK, ListInUse, Uses, Element

\* A constructor asks for a cell.
LEMMA NewObjectInv ==
  ASSUME CollectorInv, NEW v \in Vars, NewObject(v)
  PROVE  CollectorInv'
  <1> USE DEF CollectorInv, NewObject, Running, heapVars
  <1>1. TypeOK'
    BY DEF TypeOK, RequestType, Value
  <1>2. RootsOK'
    BY SameCells DEF RootsOK, RefOK
  <1>3. MarksOK'
    BY DEF MarksOK
  <1> QED BY <1>1, <1>2, <1>3, SameCells

\* An append to a full list asks for a larger array.
LEMMA AppendGrowsInv ==
  ASSUME CollectorInv, NEW v \in Vars, NEW w \in Vars, AppendGrows(v, w)
  PROVE  CollectorInv'
  <1> USE DEF CollectorInv, AppendGrows, Running, heapVars
  <1>1. TypeOK'
    BY DEF TypeOK, RequestType
  <1>2. ListInUse(var[v])
    BY CollectorAssumption DEF RootsOK, RefOK, IsList
  <1>3. RootsOK'
    BY <1>2, SameCells DEF RootsOK
  <1>4. MarksOK'
    BY DEF MarksOK
  <1> QED BY <1>1, <1>3, <1>4, SameCells

\* An assignment to a variable; the old value may have been its last reference.
LEMMA AssignInv ==
  ASSUME CollectorInv, NEW v \in Vars, NEW x \in Range(var) \cup {None}, Assign(v, x)
  PROVE  CollectorInv'
  <1> USE DEF CollectorInv, Assign, Running, heapVars
  <1>1. x \in Value /\ RefOK(x)
    BY DEF TypeOK, RootsOK, RefOK, Range, Value
  <1>2. TypeOK'
    BY <1>1 DEF TypeOK
  <1>3. RootsOK'
    BY <1>1, SameCells DEF RootsOK, TypeOK
  <1>4. MarksOK'
    BY DEF MarksOK
  <1> QED BY <1>2, <1>3, <1>4, SameCells

\* runCollection puts the roots, stale words among them, on the trace stack.
LEMMA CollectInv ==
  ASSUME CollectorInv, NEW stale \in SUBSET Cells, Collect(stale)
  PROVE  CollectorInv' /\ Roots' = Roots
  <1> USE DEF CollectorInv, Collect
  <1>1. PICK r \in request : request' = {[r EXCEPT !.mayCollect = FALSE]}
    OBVIOUS
  <1>2. request = {r} /\ r \in RequestType
    BY DEF TypeOK
  <1> DEFINE q == [r EXCEPT !.mayCollect = FALSE]
  <1>3. q \in RequestType /\ q.val = r.val /\ q.op = r.op /\ q.var = r.var
    BY <1>2 DEF RequestType
  <1> HIDE DEF q
  <1>4. request' = {q}
    BY <1>1 DEF q
  <1>5. Roots' = Roots
    BY <1>2, <1>3, <1>4 DEF Roots
  <1>6. Roots \subseteq Cells \ isfree
    BY RootsInUse
  <1>7. TypeOK'
    BY <1>3, <1>4, <1>6 DEF TypeOK, Allocations
  <1>8. RootsOK'
    BY <1>2, <1>3, <1>4, SameCells DEF RootsOK
  <1>9. MarksOK'
    BY <1>5, <1>6 DEF MarksOK, Allocations
  <1> QED BY <1>5, <1>7, <1>8, <1>9, SameCells

\* markPhase takes one cell from the stack, marks it and pushes what it uses.
LEMMA MarkStepInv ==
  ASSUME CollectorInv, NEW c \in Cells, MarkStep(c)
  PROVE  CollectorInv'
  <1> USE DEF CollectorInv, MarkStep
  <1>1. c \notin isfree /\ Uses(c) \subseteq Cells \ isfree /\ Visited(c) = Uses(c)
    BY UsesInUse DEF MarksOK
  <1>2. TypeOK'
    BY <1>1 DEF TypeOK, Trace
  <1>3. RootsOK' /\ Roots' = Roots
    BY SameCells DEF RootsOK, Roots
  <1>4. mark' \cup stack' = mark \cup stack \cup Trace(c)
    OBVIOUS
  <1>5. Uses(c) \subseteq mark' \cup stack'
    BY <1>1, <1>4 DEF Trace, MarksOK
  <1>6. MarksOK'
    BY <1>1, <1>3, <1>4, <1>5, SameCells DEF MarksOK, Trace
  <1> QED BY <1>2, <1>3, <1>6, SameCells

\* What is kept by a sweep is closed under Uses, so lists stay in order.
LEMMA SweepInv ==
  ASSUME CollectorInv, Sweep
  PROVE  CollectorInv'
  <1> USE DEF CollectorInv, Sweep
  <1>1. /\ Roots \subseteq mark
        /\ \A c \in mark : Uses(c) \subseteq mark
        /\ mark \subseteq Cells \ isfree
    BY DEF MarksOK, TypeOK
  <1>2. isfree' = Cells \ mark
    BY <1>1 DEF TypeOK
  <1>3. \A c : ListInUse(c)' <=> ListInUse(c) /\ c \in mark
    BY <1>1, <1>2 DEF ListInUse
  <1>4. \A c : HasArray(c)' <=> HasArray(c) /\ c \in mark
    BY <1>3 DEF HasArray
  <1>5. ASSUME NEW l \in mark, HasArray(l) PROVE ArrayOK(l)'
    <2> DEFINE data == mem[mem[l].elts].data
    <2>1. ArrayOK(l) /\ l \in Cells /\ mem[l] \in ContentsType
      BY <1>1, <1>5 DEF ListsOK, TypeOK
    <2>2. data \in Seq(Value)
      BY <2>1 DEF ArrayOK, TypeOK, ContentsType
    <2>3. mem[l].kind = "list" /\ mem[l].capacity # 0
      BY <1>5, <2>1 DEF HasArray, ListInUse, ContentsType
    <2>4. Uses(l) = ({mem[l].elts} \cup {Element(l, k) : k \in 1..mem[l].size}) \ {None}
      BY <2>3 DEF Uses
    <2>5. mem[l].elts \in mark
      BY <1>1, <2>1, <2>4, CollectorAssumption DEF ArrayOK
    <2>6. ASSUME NEW k \in 1..mem[l].size PROVE RefOK(data[k])'
      <3>1. RefOK(data[k]) /\ Element(l, k) = data[k]
        BY <2>1, <2>2 DEF ArrayOK, Element, ContentsType
      <3>2. data[k] # None => data[k] \in mark
        BY <1>1, <2>4, <3>1
      <3> QED BY <1>3, <3>1, <3>2 DEF RefOK
    <2> QED BY <1>2, <2>1, <2>5, <2>6 DEF ArrayOK
  <1>6. ListsOK'
    BY <1>3, <1>4, <1>5 DEF ListsOK
  <1>7. TypeOK'
    BY DEF TypeOK, SweptMarks
  <1>8. \A x \in Roots : RefOK(x) => RefOK(x)'
    BY <1>1, <1>3 DEF RefOK
  <1>9. RootsOK'
    <2>1. \A v \in Vars : var[v] = None \/ var[v] \in Roots
      BY DEF Roots, Range, TypeOK
    <2>2. \A r \in request : r.val = None \/ r.val \in Roots
      BY DEF Roots
    <2>3. \A r \in request : r.op = "append" => ListInUse(var[r.var])'
      BY <1>1, <1>3, <2>1, CollectorAssumption DEF RootsOK, ListInUse, TypeOK, RequestType
    <2> QED BY <1>8, <2>1, <2>2, <2>3 DEF RootsOK, RefOK
  <1>10. MarksOK'
    BY <1>1 DEF MarksOK, SweptMarks
  <1> QED BY <1>6, <1>7, <1>9, <1>10

------------------------------------------------------------------------------
(***************************************************************************)
(* The actions that write cells.  All of them happen between collections.  *)
(***************************************************************************)
LEMMA PutType ==
  ASSUME NEW data \in Seq(Value), NEW i \in Nat, i <= Len(data) + 1, i > 0, NEW x \in Value
  PROVE  /\ Put(data, i, x) \in Seq(Value)
         /\ Len(Put(data, i, x)) >= i
         /\ Len(Put(data, i, x)) >= Len(data)
         /\ Put(data, i, x)[i] = x
         /\ \A k \in 1..Len(data) : k # i => Put(data, i, x)[k] = data[k]
  <1> DEFINE n == IF i > Len(data) THEN i ELSE Len(data)
  <1>1. n \in Nat /\ \A k \in 1..n : k = i \/ k \in 1..Len(data)
    OBVIOUS
  <1>2. Put(data, i, x) = [k \in 1..n |-> IF k = i THEN x ELSE data[k]]
    BY DEF Put
  <1> HIDE DEF n
  <1>3. \A k \in 1..n : (IF k = i THEN x ELSE data[k]) \in Value
    BY <1>1
  <1>4. Put(data, i, x) \in Seq(Value) /\ Len(Put(data, i, x)) = n
    BY <1>1, <1>2, <1>3
  <1>5. n >= i /\ n >= Len(data)
    BY DEF n
  <1> QED BY <1>1, <1>2, <1>4, <1>5

\* list.pop shortens the list; the array keeps the element.
LEMMA PopInv ==
  ASSUME CollectorInv, NotEmptying, NEW v \in Vars, NEW w \in Vars, Pop(v, w)
  PROVE  CollectorInv'
  <1> USE DEF CollectorInv, Pop, Running, heapVars
  <1> DEFINE l == var[v]
             e == mem[l].elts
  <1>1. ListInUse(l) /\ mem[l] \in ContentsType
    BY CollectorAssumption DEF RootsOK, RefOK, IsList, TypeOK
  <1>2. mem[l].size > 1 /\ mem[l].size \in Nat /\ mem[l].capacity \in Nat
    BY <1>1 DEF NotEmptying, ContentsType
  <1>3. HasArray(l) /\ ArrayOK(l)
    BY <1>1, <1>2 DEF ListsOK, HasArray, ListInUse
  <1>4. mem[e].data \in Seq(Value)
    BY <1>3 DEF ArrayOK, TypeOK, ContentsType
  <1>5. /\ Element(l, mem[l].size) = mem[e].data[mem[l].size]
        /\ RefOK(Element(l, mem[l].size))
    BY <1>2, <1>3, <1>4 DEF ArrayOK, Element
  <1>6. /\ mem'[l] = [mem[l] EXCEPT !.size = @ - 1]
        /\ \A c \in Cells : c # l => mem'[c] = mem[c]
    BY <1>1 DEF TypeOK, ListInUse
  <1>7. /\ mem'[l] \in ContentsType
        /\ mem'[l].size = mem[l].size - 1 /\ mem'[l].capacity = mem[l].capacity
        /\ mem'[l].elts = e /\ mem'[l].kind = "list" /\ l # e
    BY <1>1, <1>2, <1>3, <1>6 DEF ContentsType, ListInUse, ArrayOK
  <1>8. TypeOK'
    <2>1. Element(l, mem[l].size) \in Value
      BY <1>5 DEF RefOK, ListInUse, Value
    <2>2. mem' \in [Cells -> ContentsType]
      BY <1>6, <1>7 DEF TypeOK
    <2> QED BY <2>1, <2>2 DEF TypeOK
  <1>9. \A c \in Cells : mem'[c].kind = mem[c].kind /\ mem'[c].elts = mem[c].elts
                         /\ mem'[c].capacity = mem[c].capacity
    BY <1>1, <1>6, <1>7 DEF ListInUse
  <1>10. /\ \A c : ListInUse(c)' <=> ListInUse(c)
         /\ \A c : HasArray(c)' <=> HasArray(c)
         /\ \A c : RefOK(c)' <=> RefOK(c)
    BY <1>9 DEF ListInUse, HasArray, RefOK
  <1>11. ListsOK'
    <2>1. \A c \in Cells : mem[c].kind = "untracked" => mem'[c] = mem[c]
      BY <1>6, <1>1 DEF ListInUse
    <2>2. ASSUME NEW m \in Cells, HasArray(m) PROVE ArrayOK(m)'
      <3>1. ArrayOK(m) /\ mem[m] \in ContentsType
        BY <2>2 DEF ListsOK, TypeOK
      <3>2. mem'[m].size \in Nat /\ mem'[m].size > 0 /\ mem'[m].size <= mem[m].size
        BY <1>2, <1>6, <1>7, <3>1 DEF ArrayOK, ContentsType
      <3>3. mem'[m].elts = mem[m].elts /\ mem'[mem[m].elts] = mem[mem[m].elts]
        BY <1>9, <2>1, <3>1 DEF ArrayOK
      <3> HIDE DEF Pop
      <3>4. \A k \in 1..mem'[m].size : k \in 1..mem[m].size
        BY <3>1, <3>2 DEF ContentsType
      <3>5. isfree' = isfree
        BY DEF Pop
      <3>6. mem[mem[m].elts].data \in Seq(Value)
        BY <3>1 DEF ArrayOK, TypeOK, ContentsType
      <3> QED BY <1>10, <3>1, <3>2, <3>3, <3>4, <3>5, <3>6 DEF ArrayOK, ContentsType
    <2>3. \A m \in Cells : ListInUse(m) /\ mem'[m].capacity = 0 => mem'[m].size = 0
      BY <1>3, <1>6, <1>9 DEF ListsOK, HasArray
    <2>4. \A m, k \in Cells : HasArray(m) /\ HasArray(k) /\ mem'[m].elts = mem'[k].elts => m = k
      BY <1>9 DEF ListsOK
    <2> QED BY <1>10, <2>2, <2>3, <2>4 DEF ListsOK
  <1>12. RootsOK'
    BY <1>5, <1>10 DEF RootsOK, TypeOK
  <1>13. MarksOK'
    BY DEF MarksOK
  <1> QED BY <1>8, <1>11, <1>12, <1>13

\* An append to a list with room writes behind the last element.
LEMMA AppendInPlaceInv ==
  ASSUME CollectorInv, NEW v \in Vars, NEW w \in Vars, AppendInPlace(v, w)
  PROVE  CollectorInv'
  <1> USE DEF CollectorInv, AppendInPlace, Running, heapVars
  <1>0. PICK l, e, n, data : /\ l = var[v]
                              /\ e = mem[l].elts
                              /\ n = mem[l].size + 1
                              /\ data = Put(mem[e].data, n, var[w])
    OBVIOUS
  <1>1. ListInUse(l) /\ mem[l] \in ContentsType
    BY <1>0, CollectorAssumption DEF RootsOK, RefOK, IsList, TypeOK
  <1>2. HasArray(l) /\ ArrayOK(l) /\ n \in Nat
    BY <1>0, <1>1 DEF ListsOK, HasArray, ListInUse, HasRoom, ContentsType
  <1>3. e \in Cells /\ e # l /\ mem[e] \in ContentsType
    BY <1>0, <1>1, <1>2 DEF ArrayOK, TypeOK, ListInUse
  <1>4. /\ data \in Seq(Value)
        /\ Len(data) >= n
        /\ data[n] = var[w]
        /\ \A k \in 1..mem[l].size : data[k] = mem[e].data[k]
    <2>1. mem[e].data \in Seq(Value) /\ var[w] \in Value /\ n > 0 /\ n <= Len(mem[e].data) + 1
      BY <1>0, <1>1, <1>2, <1>3 DEF ArrayOK, TypeOK, ContentsType
    <2>2. \A k \in 1..mem[l].size : k # n /\ k \in 1..Len(mem[e].data)
      <3>1. PICK s, len : s = mem[l].size /\ len = Len(mem[e].data)
        OBVIOUS
      <3>2. s \in Nat /\ len \in Nat /\ s <= len /\ n = s + 1
        <4>1. s \in Nat /\ n = s + 1
          BY <1>0, <1>1, <3>1 DEF ContentsType
        <4>2. len \in Nat
          BY <2>1, <3>1
        <4>3. n <= len + 1
          BY <2>1, <3>1
        <4> QED BY <4>1, <4>2, <4>3
      <3>3. \A k \in 1..s : k # n /\ k \in 1..len
        BY <3>2
      <3> QED BY <3>1, <3>3
    <2>3. /\ Put(mem[e].data, n, var[w]) \in Seq(Value)
          /\ Len(Put(mem[e].data, n, var[w])) >= n
          /\ Put(mem[e].data, n, var[w])[n] = var[w]
          /\ \A k \in 1..Len(mem[e].data) : k # n => Put(mem[e].data, n, var[w])[k] = mem[e].data[k]
      BY <1>2, <2>1, PutType, Zenon
    <2> QED BY <1>0, <2>2, <2>3, Zenon
  <1>5. /\ mem'[l] = [mem[l] EXCEPT !.size = n]
        /\ mem'[e] = [mem[e] EXCEPT !.data = data]
        /\ \A c \in Cells : c # l /\ c # e => mem'[c] = mem[c]
        /\ mem' = [c \in Cells |-> mem'[c]]
    BY <1>0, <1>1, <1>3 DEF TypeOK, ListInUse
  <1>u. UNCHANGED <<isfree, mark, phase, stack, precise, request, var>> /\ phase = "run"
    OBVIOUS
  <1>e. mem[l].elts = e /\ n = mem[l].size + 1 /\ l \in Cells
    BY <1>0, <1>1 DEF ListInUse
  <1> HIDE DEF AppendInPlace
  <1>6. /\ mem'[l] \in ContentsType /\ mem'[e] \in ContentsType
        /\ mem'[l].size = n /\ mem'[l].capacity = mem[l].capacity
        /\ mem'[l].elts = e /\ mem'[l].kind = mem[l].kind
        /\ mem'[e].data = data /\ mem'[e].kind = mem[e].kind
        /\ mem'[e].elts = mem[e].elts /\ mem'[e].capacity = mem[e].capacity
    BY <1>1, <1>2, <1>3, <1>4, <1>5, <1>e DEF ContentsType
  <1>7. TypeOK'
    <2>1. mem' \in [Cells -> ContentsType]
      BY <1>e, <1>3, <1>5, <1>6 DEF TypeOK
    <2> QED BY <2>1, <1>u DEF TypeOK
  <1>8. \A c \in Cells : mem'[c].kind = mem[c].kind /\ mem'[c].elts = mem[c].elts
                         /\ mem'[c].capacity = mem[c].capacity
    BY <1>e, <1>5, <1>6
  <1>9. /\ \A c : ListInUse(c)' <=> ListInUse(c)
        /\ \A c : HasArray(c)' <=> HasArray(c)
        /\ \A c : RefOK(c)' <=> RefOK(c)
    BY <1>u, <1>8 DEF ListInUse, HasArray, RefOK
  <1>10. RootsOK'
    BY <1>u, <1>9 DEF RootsOK
  <1>11. MarksOK'
    BY <1>u DEF MarksOK
  <1>12. ListsOK'
    <2>1. ArrayOK(l)'
      <3>1. \A k \in 1..n : k = n \/ k \in 1..mem[l].size
        BY <1>1, <1>e DEF ContentsType
      <3>2. RefOK(var[w])
        BY DEF RootsOK
      <3>3. \A k \in 1..n : RefOK(data[k])'
        BY <1>2, <1>4, <1>9, <1>e, <3>1, <3>2 DEF ArrayOK
      <3>4. n > 0
        BY <1>1, <1>e DEF ContentsType
      <3> QED BY <1>u, <1>2, <1>e, <1>3, <1>4, <1>6, <3>3, <3>4 DEF ArrayOK
    <2>2. ASSUME NEW m \in Cells, HasArray(m), m # l PROVE ArrayOK(m)'
      <3>1. ArrayOK(m) /\ mem[m].elts # e
        BY <2>2, <1>e, <1>2 DEF ListsOK
      <3>2. m # e /\ mem[m].elts # l
        BY <1>1, <1>2, <1>e, <2>2, <3>1 DEF ArrayOK, HasArray, ListInUse
      <3>3. mem'[m] = mem[m] /\ mem'[mem[m].elts] = mem[mem[m].elts]
        BY <1>5, <2>2, <3>1, <3>2 DEF ArrayOK
      <3> QED BY <1>u, <1>9, <3>1, <3>3 DEF ArrayOK
    <2>3. \A m \in Cells : ListInUse(m) /\ mem'[m].capacity = 0 => mem'[m].size = 0
      <3>1. ASSUME NEW m \in Cells, ListInUse(m), mem'[m].capacity = 0 PROVE mem'[m].size = 0
        <4>1. m # l
          BY <1>2, <1>6, <3>1 DEF HasArray
        <4>2. m # e
          BY <1>2, <1>e, <3>1 DEF ArrayOK, ListInUse
        <4> QED BY <1>5, <3>1, <4>1, <4>2 DEF ListsOK
      <3> QED BY <3>1
    <2>4. \A m, k \in Cells : HasArray(m) /\ HasArray(k) /\ mem'[m].elts = mem'[k].elts => m = k
      BY <1>8 DEF ListsOK
    <2> QED BY <1>9, <2>1, <2>2, <2>3, <2>4 DEF ListsOK
  <1> QED BY <1>7, <1>10, <1>11, <1>12

\* The allocator hands out the cell of a new object.
LEMMA FinishNewInv ==
  ASSUME CollectorInv, NEW r \in request, NEW c \in isfree, phase = "run",
         FinishNew(r, c), request' = {}, UNCHANGED <<phase, stack, precise>>
  PROVE  CollectorInv'
  <1> USE DEF CollectorInv, FinishNew
  <1>1. c \in Cells /\ r.var \in Vars
    BY DEF TypeOK, RequestType
  <1>2. NewList \in ContentsType /\ NewList.kind = "list" /\ NewList.capacity = 0 /\ NewList.size = 0
    BY DEF NewList, Contents, ContentsType, Value
  <1>3. TypeOK'
    BY <1>1, <1>2 DEF TypeOK, Value
  <1>4. mem'[c] = NewList /\ \A x \in Cells : x # c => mem'[x] = mem[x]
    BY <1>1 DEF TypeOK
  <1>5. /\ \A x : ListInUse(x)' <=> ListInUse(x) \/ x = c
        /\ \A x : HasArray(x)' <=> HasArray(x)
        /\ \A x : RefOK(x) => RefOK(x)'
    BY <1>1, <1>2, <1>4 DEF ListInUse, HasArray, RefOK
  <1>6. \A l : HasArray(l) => l \in Cells /\ l # c
    BY DEF HasArray, ListInUse
  <1>7. ListsOK'
    <2>1. ASSUME NEW l \in Cells, HasArray(l) PROVE ArrayOK(l)'
      <3>1. ArrayOK(l) /\ mem'[l] = mem[l]
        BY <1>4, <1>6, <2>1 DEF ListsOK
      <3>2. mem'[mem[l].elts] = mem[mem[l].elts]
        BY <1>4, <3>1 DEF ArrayOK
      <3> QED BY <1>5, <3>1, <3>2 DEF ArrayOK
    <2>2. \A l \in Cells : ListInUse(l)' /\ mem'[l].capacity = 0 => mem'[l].size = 0
      BY <1>2, <1>4, <1>5 DEF ListsOK
    <2>3. \A l, m \in Cells : HasArray(l) /\ HasArray(m) /\ mem'[l].elts = mem'[m].elts => l = m
      BY <1>4, <1>6 DEF ListsOK
    <2> QED BY <1>5, <2>1, <2>2, <2>3 DEF ListsOK
  <1>8. RootsOK'
    BY <1>1, <1>5 DEF RootsOK, RefOK, TypeOK
  <1>9. MarksOK'
    BY DEF MarksOK
  <1> QED BY <1>3, <1>7, <1>8, <1>9

\* A list moves to a new array, and the old one, if there is one, is freed.
LEMMA NewArray ==
  ASSUME TypeOK, ListsOK, NEW l, ListInUse(l), NEW c \in isfree,
         NEW arr \in ContentsType, arr.kind = "untracked",
         NEW new \in ContentsType, new.kind = "list", new.size > 0, new.capacity > 0, new.elts = c,
         new.size <= Len(arr.data), \A k \in 1..new.size : RefOK(arr.data[k]),
         mem' = [mem EXCEPT ![c] = arr, ![l] = new],
         isfree' = (isfree \ {c}) \cup (IF mem[l].capacity > 0 THEN {mem[l].elts} ELSE {})
  PROVE  /\ mem' \in [Cells -> ContentsType]
         /\ isfree' \subseteq Cells
         /\ ListsOK'
         /\ \A x : ListInUse(x)' <=> ListInUse(x)
         /\ \A x : RefOK(x)' <=> RefOK(x)
  <1>1. l \in Cells /\ c \in Cells /\ l # c /\ mem[l] \in ContentsType
    BY DEF ListInUse, TypeOK
  <1>2. /\ mem'[l] = new /\ mem'[c] = arr
        /\ \A x \in Cells : x # l /\ x # c => mem'[x] = mem[x]
        /\ mem' \in [Cells -> ContentsType]
    BY <1>1 DEF TypeOK
  <1>3. mem[l].capacity > 0 => ArrayOK(l)
    BY <1>1 DEF ListsOK, HasArray
  <1>4. isfree' \subseteq Cells /\ l \notin isfree' /\ c \notin isfree'
    BY <1>1, <1>3 DEF TypeOK, ArrayOK, ListInUse
  <1>5. \A x : ListInUse(x)' <=> ListInUse(x)
    BY <1>1, <1>2, <1>3, <1>4 DEF ListInUse, ArrayOK
  <1>6. \A x : RefOK(x)' <=> RefOK(x)
    BY <1>5 DEF RefOK
  <1>7. \A x : x # l => (HasArray(x)' <=> HasArray(x))
    BY <1>2, <1>5 DEF HasArray, ListInUse
  <1>8. ASSUME NEW m \in Cells, HasArray(m), m # l
        PROVE  ArrayOK(m)' /\ mem'[m].elts # c /\ mem'[m].elts = mem[m].elts
    <2>1. ArrayOK(m) /\ m # c
      BY <1>8 DEF ListsOK, HasArray, ListInUse
    <2>2. mem[m].elts # c /\ mem[m].elts # l
      BY <2>1 DEF ArrayOK, ListInUse
    <2>3. mem'[m] = mem[m] /\ mem'[mem[m].elts] = mem[mem[m].elts]
      BY <1>2, <1>8, <2>1, <2>2 DEF ArrayOK
    <2>4. mem[l].capacity > 0 => mem[m].elts # mem[l].elts
      BY <1>1, <1>8 DEF ListsOK, HasArray
    <2>5. mem[m].elts \notin isfree'
      BY <2>1, <2>4 DEF ArrayOK
    <2>6. ArrayOK(m)'
      BY <1>6, <2>1, <2>3, <2>5 DEF ArrayOK
    <2> QED BY <2>2, <2>3, <2>6
  <1>9. ArrayOK(l)'
    BY <1>1, <1>2, <1>4, <1>6 DEF ArrayOK
  <1>10. ListsOK'
    <2>1. \A x \in Cells : HasArray(x)' => ArrayOK(x)'
      BY <1>7, <1>8, <1>9
    <2>2. ASSUME NEW x \in Cells, ListInUse(x)', mem'[x].capacity = 0 PROVE mem'[x].size = 0
      <3>1. x # l /\ x # c
        BY <1>1, <1>2, <1>5, <2>2 DEF ListInUse
      <3> QED BY <1>2, <1>5, <2>2, <3>1 DEF ListsOK
    <2>3. ASSUME NEW x \in Cells, NEW y \in Cells, HasArray(x)', HasArray(y)', mem'[x].elts = mem'[y].elts
          PROVE  x = y
      BY <1>2, <1>7, <1>8, <2>3 DEF ListsOK
    <2> QED BY <2>1, <2>2, <2>3 DEF ListsOK
  <1> QED BY <1>2, <1>4, <1>5, <1>6, <1>10

\* The allocator hands out the first array of a list.
LEMMA FinishFirstAppendInv ==
  ASSUME CollectorInv, NEW r \in request, NEW c \in isfree, phase = "run",
         FinishFirstAppend(r, c), request' = {}, UNCHANGED <<phase, stack, precise>>
  PROVE  CollectorInv'
  <1> USE DEF CollectorInv
  <1>0. PICK l, arr, new : /\ l = var[r.var]
                           /\ arr = ElementArray(<<r.val>>)
                           /\ new = Contents("list", 1, InitialCapacity, c, <<>>)
    OBVIOUS
  <1>1. ListInUse(l) /\ RefOK(r.val) /\ c \in Cells /\ r.val \in Value
    BY <1>0 DEF FinishFirstAppend, RootsOK, TypeOK, RequestType
  <1>2. /\ mem' = [mem EXCEPT ![c] = arr, ![l] = new]
        /\ isfree' = (isfree \ {c}) \cup (IF mem[l].capacity > 0 THEN {mem[l].elts} ELSE {})
        /\ mark' = mark \ {c} /\ UNCHANGED var
    BY <1>0 DEF FinishFirstAppend
  <1>3. arr \in ContentsType /\ arr.kind = "untracked" /\ arr.data = <<r.val>>
    BY <1>0, <1>1 DEF ElementArray, Contents, ContentsType, Value
  <1>4. /\ new \in ContentsType /\ new.kind = "list" /\ new.size = 1 /\ new.elts = c
        /\ new.capacity = InitialCapacity
    BY <1>0, <1>1, CollectorAssumption DEF Contents, ContentsType, Value
  <1>5. /\ new.size <= Len(arr.data)
        /\ \A k \in 1..new.size : RefOK(arr.data[k])
        /\ new.size > 0 /\ new.capacity > 0
    BY <1>1, <1>3, <1>4, CollectorAssumption
  <1>6. /\ mem' \in [Cells -> ContentsType] /\ isfree' \subseteq Cells
        /\ ListsOK' /\ \A x : RefOK(x)' <=> RefOK(x)
    BY <1>1, <1>2, <1>3, <1>4, <1>5, NewArray
  <1>7. TypeOK' /\ RootsOK'
    BY <1>2, <1>6 DEF TypeOK, RootsOK
  <1>8. MarksOK'
    BY <1>2 DEF MarksOK
  <1> QED BY <1>6, <1>7, <1>8

\* The places of an array that gets one element more.
LEMMA OneLonger ==
  \A s, len \in Nat : s <= len =>
    \A k \in 1..(s + 1) : k = s + 1 \/ (k \in 1..s /\ k \in 1..len)
  OBVIOUS

\* The allocator hands out a larger array; the old one is freed.
LEMMA FinishAppendInv ==
  ASSUME CollectorInv, NEW r \in request, NEW c \in isfree, phase = "run",
         FinishAppend(r, c), request' = {}, UNCHANGED <<phase, stack, precise>>
  PROVE  CollectorInv'
  <1> USE DEF CollectorInv
  <1>0. PICK l, old, n, data : /\ l = var[r.var]
                               /\ old = mem[l].elts
                               /\ n = mem[l].size + 1
                               /\ data = Put(mem[old].data, n, r.val)
    OBVIOUS
  <1>1. PICK arr, new : /\ arr = [mem[old] EXCEPT !.data = data]
                        /\ new = Contents("list", n, 2 * mem[l].capacity, c, <<>>)
    OBVIOUS
  <1>2. ListInUse(l) /\ RefOK(r.val) /\ c \in Cells /\ r.val \in Value /\ mem[l].capacity > 0
    BY <1>0 DEF FinishAppend, RootsOK, TypeOK, RequestType
  <1>3. /\ mem' = [mem EXCEPT ![c] = arr, ![l] = new]
        /\ isfree' = (isfree \ {c}) \cup (IF mem[l].capacity > 0 THEN {mem[l].elts} ELSE {})
        /\ mark' = (IF old \in mark THEN mark \cup {c} ELSE mark \ {c}) /\ UNCHANGED var
    BY <1>0, <1>1, <1>2 DEF FinishAppend
  <1>4. ArrayOK(l) /\ old \in Cells /\ mem[l] \in ContentsType /\ mem[old] \in ContentsType /\ n \in Nat
    <2>1. HasArray(l) /\ l \in Cells
      BY <1>2 DEF HasArray, ListInUse
    <2>2. ArrayOK(l)
      BY <2>1 DEF ListsOK
    <2>3. mem[l] \in ContentsType /\ old \in Cells
      BY <1>0, <2>1, <2>2 DEF ArrayOK, TypeOK
    <2>4. mem[old] \in ContentsType
      BY <2>3 DEF TypeOK
    <2>5. n \in Nat
      BY <1>0, <2>3 DEF ContentsType
    <2> QED BY <2>2, <2>3, <2>4, <2>5
  <1>5. /\ mem[old].data \in Seq(Value) /\ n > 0 /\ n <= Len(mem[old].data) + 1
        /\ \A k \in 1..n : k = n \/ (k \in 1..mem[l].size /\ k \in 1..Len(mem[old].data))
    <2>1. mem[l].size \in Nat /\ mem[old].data \in Seq(Value) /\ mem[l].size <= Len(mem[old].data)
      BY <1>0, <1>4 DEF ArrayOK, ContentsType
    <2>2. Len(mem[old].data) \in Nat
      BY <2>1
    <2>4. \A k \in 1..n : k = n \/ (k \in 1..mem[l].size /\ k \in 1..Len(mem[old].data))
      BY <1>0, <2>1, <2>2, OneLonger, Zenon
    <2>5. n > 0 /\ n <= Len(mem[old].data) + 1
      <3>1. PICK s, len : s = mem[l].size /\ len = Len(mem[old].data)
        OBVIOUS
      <3>2. s \in Nat /\ len \in Nat /\ s <= len
        BY <2>1, <2>2, <3>1
      <3>3. n = s + 1
        BY <1>0, <3>1
      <3>4. n > 0 /\ n <= len + 1
        BY <3>2, <3>3
      <3> QED BY <3>1, <3>4, Zenon
    <2> QED BY <2>1, <2>4, <2>5, Zenon
  <1>6. /\ Put(mem[old].data, n, r.val) \in Seq(Value)
        /\ Len(Put(mem[old].data, n, r.val)) >= n
        /\ Put(mem[old].data, n, r.val)[n] = r.val
        /\ \A k \in 1..Len(mem[old].data) : k # n => Put(mem[old].data, n, r.val)[k] = mem[old].data[k]
    BY <1>2, <1>4, <1>5, PutType, Zenon
  <1>7. data \in Seq(Value) /\ Len(data) >= n /\ \A k \in 1..n : RefOK(data[k])
    <2>1. \A k \in 1..mem[l].size : RefOK(mem[old].data[k])
      BY <1>0, <1>4 DEF ArrayOK
    <2> QED BY <1>0, <1>2, <1>5, <1>6, <2>1, Zenon
  <1>8. arr \in ContentsType /\ arr.kind = "untracked" /\ arr.data = data
    BY <1>0, <1>1, <1>4, <1>7 DEF ContentsType, ArrayOK
  <1>9. /\ new \in ContentsType /\ new.kind = "list" /\ new.size = n /\ new.elts = c
        /\ new.capacity > 0
    BY <1>1, <1>2, <1>4 DEF Contents, ContentsType, Value
  <1>10. /\ mem' \in [Cells -> ContentsType] /\ isfree' \subseteq Cells
         /\ ListsOK' /\ \A x : RefOK(x)' <=> RefOK(x)
    BY <1>2, <1>3, <1>5, <1>7, <1>8, <1>9, NewArray
  <1>11. mark' = {}
    BY <1>3 DEF MarksOK
  <1>12. TypeOK' /\ RootsOK'
    BY <1>3, <1>10, <1>11 DEF TypeOK, RootsOK
  <1>13. MarksOK'
    BY <1>11 DEF MarksOK
  <1> QED BY <1>10, <1>12, <1>13

------------------------------------------------------------------------------
\* At the start no list exists.
LEMMA CollectorInit == Init => CollectorInv
  <1> SUFFICES ASSUME Init PROVE CollectorInv
    OBVIOUS
  <1>1. NewList \in ContentsType
    BY DEF NewList, Contents, ContentsType, Value
  <1>2. TypeOK
    BY <1>1 DEF Init, TypeOK, Value
  <1> QED BY <1>2 DEF Init, CollectorInv, ListsOK, HasArray, ListInUse, RootsOK, RefOK, MarksOK

\* Every step keeps the invariant, unless a list is emptied and filled again.
LEMMA CollectorNext ==
  ASSUME NotEmptying, CollectorInv, [Next]_vars
  PROVE  CollectorInv'
  <1>1. CASE UNCHANGED vars
    <2>1. UNCHANGED <<isfree, mem>> /\ Roots' = Roots
      BY <1>1 DEF vars, Roots
    <2> QED BY <1>1, <2>1, SameCells DEF vars, CollectorInv, TypeOK, RootsOK, MarksOK
  <1>2. ASSUME NEW c \in Cells, Allocate(c) PROVE CollectorInv'
    BY <1>2, FinishNewInv, FinishFirstAppendInv, FinishAppendInv DEF Allocate
  <1>3. CASE Next
    BY <1>2, <1>3, NewObjectInv, AppendInPlaceInv, AppendGrowsInv, PopInv, AssignInv,
       MarkStepInv, CollectInv, SweepInv DEF Next, Stale
  <1> QED BY <1>1, <1>3

\* As long as no list is emptied by pop, everything that the handlers visit in a
\* collection is an allocation in use (the assertion of TraceStackGCVisitor::_visit),
\* whatever the program does and whatever stale words are on the stack.
THEOREM VisitsAreValid == ASSUME NotEmptying PROVE Spec => []VisitsValid
  <1>1. CollectorInv => VisitsValid
    BY DEF CollectorInv, MarksOK, VisitsValid
  <1> QED BY <1>1, CollectorInit, CollectorNext, PTL DEF Spec

\* Under the same condition nothing that the program can get at is freed or handed
\* out again, and every array belongs to one list: sweepPhase and the growth of a
\* list free only what nobody can reach.
THEOREM ReachableStaysInUse == ASSUME NotEmptying PROVE Spec => []ReachableInUse
  <1>1. ASSUME CollectorInv PROVE ReachableInUse
    <2>1. Reachable \subseteq Cells \ isfree
      BY <1>1, ReachableClosed DEF CollectorInv
    <2>2. ASSUME NEW l \in Reachable, IsList(l), mem[l].capacity > 0
          PROVE  HasArray(l) /\ ArrayOK(l)
      BY <1>1, <2>1, <2>2 DEF IsList, HasArray, ListInUse, CollectorInv, ListsOK
    <2>3. ASSUME NEW l \in Reachable, IsList(l), mem[l].capacity > 0
          PROVE  mem[mem[l].elts].kind = "untracked"
      BY <2>2, <2>3 DEF ArrayOK
    <2>4. ASSUME NEW l \in Reachable, IsList(l), mem[l].capacity > 0,
                 NEW m \in Reachable, IsList(m), mem[m].capacity > 0,
                 mem[l].elts = mem[m].elts
          PROVE  l = m
      BY <1>1, <2>1, <2>2, <2>4 DEF CollectorInv, ListsOK
    <2> QED BY <2>1, <2>3, <2>4 DEF ReachableInUse, ArraysOwned
  <1> QED BY <1>1, CollectorInit, CollectorNext, PTL DEF Spec

------------------------------------------------------------------------------
(***************************************************************************)
(* Completeness.                                                           *)
(***************************************************************************)
\* What is reachable depends on the roots and the contents of cells only.
LEMMA SameReachable ==
  ASSUME Roots' = Roots, UNCHANGED <<isfree, mem>>
  PROVE  Reachable' = Reachable
  <1>1. \A c : Uses(c)' = Uses(c)
    BY SameCells
  <1> QED BY <1>1 DEF Reachable

\* Every step keeps a precise collection precise: it marks only what is reachable.
LEMMA PreciseNext ==
  ASSUME NotEmptying, CollectorInv, PreciseOK, [Next]_vars
  PROVE  PreciseOK'
  <1>1. CASE UNCHANGED vars
    <2>1. UNCHANGED <<isfree, mem>> /\ Roots' = Roots
      BY <1>1 DEF vars, Roots
    <2>2. Reachable' = Reachable
      BY <2>1, SameReachable
    <2> QED BY <1>1, <2>2 DEF vars, PreciseOK
  <1>2. ASSUME NEW stale \in SUBSET Cells, Collect(stale) PROVE PreciseOK'
    <2>1. Reachable' = Reachable
      BY <1>2, CollectInv, SameReachable DEF Collect
    <2>2. Roots \subseteq Reachable
      BY ReachableClosed DEF CollectorInv
    <2>3. mark' = {} /\ (precise' => stack' \subseteq Roots)
      BY <1>2 DEF Collect, CollectorInv, MarksOK, Allocations
    <2> QED BY <2>1, <2>2, <2>3 DEF PreciseOK
  <1>3. ASSUME NEW c \in Cells, MarkStep(c) PROVE PreciseOK'
    <2>1. UNCHANGED <<isfree, mem>> /\ Roots' = Roots
      BY <1>3 DEF MarkStep, Roots
    <2>2. Reachable' = Reachable
      BY <2>1, SameReachable
    <2>3. Visited(c) = Uses(c)
      BY <1>3, UsesInUse DEF MarkStep, CollectorInv, MarksOK
    <2>4. \A x \in Reachable : Uses(x) \subseteq Reachable
      BY ReachableClosed DEF CollectorInv
    <2> QED BY <1>3, <2>2, <2>3, <2>4 DEF MarkStep, Trace, PreciseOK
  <1>4. CASE Next
    <2>1. ASSUME phase' = "mark"
          PROVE  (\E c \in Cells : MarkStep(c)) \/ (\E stale \in SUBSET Cells : Collect(stale))
      BY <1>4, <2>1 DEF Next, Stale, NewObject, AppendInPlace, AppendGrows, Pop, Assign,
         Allocate, Sweep, Running, heapVars
    <2> QED BY <1>2, <1>3, <2>1 DEF PreciseOK
  <1> QED BY <1>1, <1>4

\* A collection that meets no stale words frees everything that cannot be reached,
\* cycles included; and each turn of the marking loop marks another object or leaves
\* less to look at, so that the loop of markPhase ends.
THEOREM AllGarbageCollected == ASSUME NotEmptying PROVE Spec => CollectsAllGarbage
  <1> DEFINE Inv == CollectorInv /\ PreciseOK
  <1>1. Init => Inv
    BY CollectorInit DEF Init, PreciseOK
  <1>2. Inv /\ [Next]_vars => Inv'
    BY CollectorNext, PreciseNext
  <1>3. Inv /\ [Next]_vars =>
          [(phase = "mark" /\ precise /\ phase' = "run") => Cells \ isfree' = Reachable]_vars
    <2> SUFFICES ASSUME Inv, Next, phase = "mark", precise, phase' = "run"
                 PROVE  Cells \ isfree' = Reachable
      OBVIOUS
    <2>1. Sweep
      BY DEF Next, Collect, NewObject, AppendInPlace, AppendGrows, Pop, Assign, Allocate,
         MarkStep, Running
    <2>2. mark \subseteq Cells \ isfree /\ Roots \subseteq mark /\ \A c \in mark : Uses(c) \subseteq mark
      BY <2>1 DEF Sweep, CollectorInv, MarksOK, TypeOK
    <2>3. Reachable \subseteq mark
      BY <2>2, ReachableLeast
    <2>4. mark \subseteq Reachable
      BY DEF PreciseOK
    <2> QED BY <2>1, <2>2, <2>3, <2>4 DEF Sweep
  <1>4. Inv /\ [Next]_vars =>
          [(phase = "mark" /\ phase' = "mark") =>
             \/ mark \subseteq mark' /\ mark # mark'
             \/ mark = mark' /\ stack' \subseteq stack /\ stack # stack']_vars
    <2> SUFFICES ASSUME Inv, Next, phase = "mark", phase' = "mark"
                 PROVE  \/ mark \subseteq mark' /\ mark # mark'
                        \/ mark = mark' /\ stack' \subseteq stack /\ stack # stack'
      OBVIOUS
    <2>1. PICK c \in Cells : MarkStep(c)
      BY DEF Next, Collect, NewObject, AppendInPlace, AppendGrows, Pop, Assign, Allocate,
         Sweep, Running
    <2> QED BY <2>1 DEF MarkStep, Trace
  <1> QED BY <1>1, <1>2, <1>3, <1>4, PTL DEF Spec, CollectsAllGarbage, GarbageFreed, MarkingProgresses

=============================================================================
