-------------------------------- MODULE Lists --------------------------------
(* Lists: runtime/list.cpp and runtime/inline/list.cpp.  A list is an array   *)
(* of capacity elements, of which the first size are in use; what lies beyond *)
(* is whatever was there, and Junk where nothing was written.  The loops that *)
(* build a new list (slices, repetition) take one step per element, in work.  *)
(* raiseExc() and a failed assertion end the program.                         *)
EXTENDS Slices, FiniteSets

CONSTANTS
  Lists,           \* the list objects a program can have at a time
  Values,          \* what a list holds
  Junk,            \* what uninitialised memory holds
  InitialCapacity, \* INITIAL_CAPACITY of BoxedList::ensure
  Indices,         \* the integers a program uses
  SliceArgs,       \* the slice objects it uses
  MaxLen,          \* bound: the elements of all lists, slices not counted
  SelfAssign       \* whether programs assign a list to a slice of itself

Optional == {None} \cup {"int"} \X Int

ASSUME ListsAssumption ==
  /\ Junk \notin Values
  /\ InitialCapacity \in Nat \ {0}
  /\ Indices \subseteq Int
  /\ SliceArgs \subseteq [start : Optional, stop : Optional, step : Optional]
  /\ MaxLen \in Nat

VARIABLES
  lists,   \* the live lists
  iter,    \* the list iterator of a for loop
  work,    \* the loop inside the call that is running, with the argument it was given
  result   \* what the last call returned, raised, or that it aborted; an
           \* answer is there until the program has taken it
listVars == <<lists, iter, work, result>>

Nothing == <<"none", "none">>
Running == result = Nothing /\ work = None
Live == DOMAIN lists

Elem(v) == <<"elem", v>>
ListOf(l) == <<"list", l>>
Number(n) == <<"int", n>>
Truth(b) == <<"bool", b>>

\* Bound: n more elements in all.
Room(n) == Cardinality(UNION {{l} \X (0..lists[l].size - 1) : l \in Live}) + n <= MaxLen

Max2(m, n) == IF m >= n THEN m ELSE n

Empty == [elts |-> [i \in {} |-> Junk], size |-> 0, capacity |-> 0]

ListInit ==
  /\ lists = [l \in {} |-> Empty]
  /\ iter = None
  /\ work = None
  /\ result = Nothing

-----------------------------------------------------------------------------
(* The array. *)

\* A size of exactly the capacity is taken to leave room.
ensureOffByOne(self, space) ==
  IF self.size + space <= self.capacity + 1 THEN self
  ELSE LET new_capacity == IF self.capacity = 0 THEN Max2(InitialCapacity, space)
                           ELSE Max2(self.capacity * 2, self.size + space)
       IN [self EXCEPT !.elts = [i \in 0..new_capacity - 1 |->
                                  IF i < self.capacity THEN self.elts[i] ELSE Junk],
                       !.capacity = new_capacity]
ensure(self, space) ==
  IF self.size + space <= self.capacity THEN self
  ELSE LET new_capacity == IF self.capacity = 0 THEN Max2(InitialCapacity, space)
                           ELSE Max2(self.capacity * 2, self.size + space)
       IN [self EXCEPT !.elts = [i \in 0..new_capacity - 1 |->
                                  IF i < self.capacity THEN self.elts[i] ELSE Junk],
                       !.capacity = new_capacity]

listAppendInternal(self, v) ==
  LET grown == ensure(self, 1)
  IN [grown EXCEPT !.elts = [@ EXCEPT ![self.size] = v], !.size = self.size + 1]

\* memmove of the elements from n on, up by one, and v in the gap.
Inserted(self, n, v) ==
  LET grown == ensure(self, 1)
  IN [grown EXCEPT !.elts = [i \in 0..grown.capacity - 1 |->
                              IF i = n THEN v
                              ELSE IF i > n /\ i <= self.size THEN grown.elts[i - 1]
                              ELSE grown.elts[i]],
                   !.size = self.size + 1]
\* memmove of the elements after n, down by one.
Removed(self, n) ==
  [self EXCEPT !.elts = [i \in 0..self.capacity - 1 |->
                          IF i >= n /\ i < self.size - 1 THEN self.elts[i + 1] ELSE self.elts[i]],
               !.size = self.size - 1]

\* listSetitem of the slice p: the tail moves, then the elements of lv are
\* copied one by one, which when lv is self are being overwritten as they are read.
Replaced(self, p, lv, same) ==
  LET delts == lv.size - (p.stop - p.start)
      grown == ensure(self, delts)
      moved == [i \in 0..grown.capacity - 1 |->
                 IF i >= p.start + lv.size /\ i < self.size + delts THEN grown.elts[i - delts]
                 ELSE grown.elts[i]]
      source(i) == IF ~ same THEN lv.elts[i]
                   ELSE IF p.start = 0 THEN moved[i] ELSE moved[i % p.start]
  IN [grown EXCEPT !.elts = [i \in 0..grown.capacity - 1 |->
                              IF i >= p.start /\ i < p.start + lv.size THEN source(i - p.start)
                              ELSE moved[i]],
                   !.size = self.size + delts]

-----------------------------------------------------------------------------
(* Calls. *)

Return(r) == result' = r /\ UNCHANGED <<iter, work>>
Update(l, self) == lists' = [lists EXCEPT ![l] = self]
\* A new list takes an object that is not live.  Bound: none is made in a for loop.
Bind(new, self) == new \notin Live /\ iter = None /\ lists' = [l \in Live \cup {new} |-> IF l = new THEN self ELSE lists[l]]
Fail(r) == result' = r /\ UNCHANGED <<lists, iter, work>>

InRange(n, self) == 0 <= n /\ n < self.size

listNew1(new) == Running /\ Bind(new, Empty) /\ Return(ListOf(new))

listNew2(new, l) ==
  LET lrhs == lists[l]
  IN /\ Running /\ Room(lrhs.size)
     /\ Bind(new, [elts |-> [i \in 0..lrhs.size - 1 |-> lrhs.elts[i]],
                   size |-> lrhs.size, capacity |-> lrhs.size])
     /\ Return(ListOf(new))

listAppend(l, v) ==
  /\ Running /\ Room(1)
  /\ Update(l, listAppendInternal(lists[l], v))
  /\ Return(Nothing)

\* Without the clamping of an index that is too far to the left.
InsertUnclamped(l, idx, v) ==
  LET self == lists[l] n == Bound(idx, self.size)
  IN /\ Running /\ Room(1)
     /\ Update(l, IF n >= self.size \/ n < 0 THEN listAppendInternal(self, v) ELSE Inserted(self, n, v))
     /\ Return(Nothing)
\* It asserts that there is an element at the index, and an empty list has none.
listInsert(l, idx, v) ==
  LET self == lists[l] n == Bound(idx, self.size)
  IN /\ Running /\ Room(1)
     /\ IF n < 0 /\ self.size = 0 THEN Fail(Aborts)
        ELSE /\ Update(l, IF n >= self.size THEN listAppendInternal(self, v) ELSE Inserted(self, Max2(n, 0), v))
             /\ Return(Nothing)

listPop1(l) ==
  LET self == lists[l]
  IN /\ Running
     /\ IF self.size = 0 THEN Fail(Raises("IndexError"))
        ELSE /\ Update(l, [self EXCEPT !.size = @ - 1])
             /\ Return(Elem(self.elts[self.size - 1]))

listPop2(l, idx) ==
  LET self == lists[l] n == Bound(idx, self.size)
  IN /\ Running
     /\ IF ~ InRange(n, self) THEN Fail(Raises("IndexError"))
        ELSE Update(l, Removed(self, n)) /\ Return(Elem(self.elts[n]))

listLen(l) == Running /\ Return(Number(lists[l].size)) /\ UNCHANGED lists
listNonzero(l) == Running /\ Return(Truth(lists[l].size # 0)) /\ UNCHANGED lists

listGetitem(l, idx) ==
  LET self == lists[l] n == Bound(idx, self.size)
  IN /\ Running /\ UNCHANGED lists
     /\ Return(IF InRange(n, self) THEN Elem(self.elts[n]) ELSE Raises("IndexError"))

listSetitem(l, idx, v) ==
  LET self == lists[l] n == Bound(idx, self.size)
  IN /\ Running
     /\ IF ~ InRange(n, self) THEN Fail(Raises("IndexError"))
        ELSE Update(l, [self EXCEPT !.elts = [@ EXCEPT ![n] = v]]) /\ Return(Nothing)

SetSliceAsserts(p, self) ==
  /\ p.step = 1
  /\ InRange(p.start, self)
  /\ 0 <= p.stop /\ p.stop <= self.size /\ p.start <= p.stop
listSetslice(l, slice, v) ==
  LET self == lists[l] p == parseSlice(slice, self.size)
  IN /\ Running
     /\ SelfAssign \/ v # l
     /\ Room(lists[v].size - (p.stop - p.start))
     /\ IF StepOf(slice) = 0 THEN Fail(Raises("ValueError"))
        ELSE IF ~ SetSliceAsserts(p, self) THEN Fail(Aborts)
        ELSE Update(l, Replaced(self, p, lists[v], v = l)) /\ Return(Nothing)

-----------------------------------------------------------------------------
(* Loops: _listSlice, and listMul, whose list is visible when they are done.  *)

listGetslice(new, l, slice) ==
  LET p == parseSlice(slice, lists[l].size)
  IN /\ Running /\ NoWrap(p, lists[l].size)
     /\ IF StepOf(slice) = 0 THEN new = l /\ Fail(Raises("ValueError"))
        ELSE IF ~ SliceAsserts(p, lists[l].size) THEN new = l /\ Fail(Aborts)
        ELSE /\ Bind(new, Empty)
             /\ work' = [op |-> "slice", from |-> l, rtn |-> new, cur |-> Trunc(p.start), p |-> p, arg |-> slice]
             /\ UNCHANGED <<iter, result>>

listMul(new, l, n) ==
  /\ Running
  /\ Room(lists[l].size * Trunc(n))
  /\ Bind(new, Empty)
  /\ work' = [op |-> "mul", from |-> l, rtn |-> new, cur |-> 0, i |-> 0, n |-> Trunc(n), arg |-> n]
  /\ UNCHANGED <<iter, result>>

AppendFrom(n) == Update(work.rtn, listAppendInternal(lists[work.rtn], lists[work.from].elts[n]))
Finish ==
  /\ work' = None
  /\ result' = ListOf(work.rtn)
  /\ UNCHANGED <<lists, iter>>

\* cur is a C int that the step is added to.
SliceTurn ==
  /\ work # None /\ work.op = "slice"
  /\ IF \/ work.p.step > 0 /\ work.cur < work.p.stop
        \/ work.p.step < 0 /\ work.cur > work.p.stop
     THEN /\ AppendFrom(work.cur)
          /\ work' = [work EXCEPT !.cur = Trunc(@ + work.p.step)]
          /\ UNCHANGED <<iter, result>>
     ELSE Finish

\* cur is j: it runs over self, n times.
MulTurn ==
  LET last == work.cur + 1 >= lists[work.from].size
  IN /\ work # None /\ work.op = "mul"
     /\ IF work.i < work.n /\ work.cur < lists[work.from].size
        THEN /\ AppendFrom(work.cur)
             /\ work' = [work EXCEPT !.cur = IF last THEN 0 ELSE @ + 1, !.i = IF last THEN @ + 1 ELSE @]
             /\ UNCHANGED <<iter, result>>
        ELSE Finish

-----------------------------------------------------------------------------
(* for x in l: __hasnext__ and next are called one after the other.           *)

listIter(l) ==
  /\ Running
  /\ Live = {l}
  /\ iter = None
  /\ iter' = [l |-> l, pos |-> 0]
  /\ UNCHANGED <<lists, work, result>>

\* The size is read each time: the body of the loop can change it.
listiterHasnext(it) == it.pos < lists[it.l].size
listiterNext ==
  /\ Running
  /\ iter # None
  /\ UNCHANGED <<lists, work>>
  /\ IF listiterHasnext(iter)
     THEN /\ result' = Elem(lists[iter.l].elts[iter.pos])
          /\ iter' = [iter EXCEPT !.pos = @ + 1]
     ELSE iter' = None /\ result' = Nothing

TakeResult ==
  /\ result[1] \notin {"none", "raised", "aborted"}
  /\ work = None
  /\ result' = Nothing
  /\ UNCHANGED <<lists, iter, work>>

\* The last reference to a list goes away, and the collector frees it.
Drop(l) ==
  /\ Running
  /\ iter # None => iter.l # l
  /\ lists' = [k \in Live \ {l} |-> lists[k]]
  /\ Return(Nothing)

ListNext ==
  \/ \E new \in Lists : listNew1(new)
  \/ \E new \in Lists, l \in Live : listNew2(new, l)
  \/ \E l \in Live, v \in Values : listAppend(l, v)
  \/ \E l \in Live, n \in Indices, v \in Values : listInsert(l, n, v)
  \/ \E l \in Live : listPop1(l)
  \/ \E l \in Live, n \in Indices : listPop2(l, n)
  \/ \E l \in Live : listLen(l)
  \/ \E l \in Live : listNonzero(l)
  \/ \E l \in Live, n \in Indices : listGetitem(l, n)
  \/ \E l \in Live, n \in Indices, v \in Values : listSetitem(l, n, v)
  \/ \E l \in Live, s \in SliceArgs, v \in Live : listSetslice(l, s, v)
  \/ \E new \in Lists, l \in Live, s \in SliceArgs : listGetslice(new, l, s)
  \/ \E new \in Lists, l \in Live, n \in Indices : listMul(new, l, n)
  \/ SliceTurn
  \/ MulTurn
  \/ \E l \in Live : listIter(l)
  \/ listiterNext
  \/ TakeResult
  \/ \E l \in Live : Drop(l)
-----------------------------------------------------------------------------
ListSpec == ListInit /\ [][ListNext]_listVars

\* The array of a list has room for its capacity, the size is within it, and
\* every element in use was written by the program: what lies beyond the size
\* is never read, by an index, a slice, a repetition or an iterator whose list
\* shrinks under it, and no memmove reaches past the array.
ElementsInArray ==
  /\ \A l \in Live :
       /\ lists[l].size \in 0..lists[l].capacity
       /\ DOMAIN lists[l].elts = 0..lists[l].capacity - 1
       /\ \A i \in 0..lists[l].size - 1 : lists[l].elts[i] \in Values
  /\ result[1] = "elem" => result[2] \in Values
=============================================================================
