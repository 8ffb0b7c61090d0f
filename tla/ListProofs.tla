----------------------------- MODULE ListProofs -----------------------------
(* The memory of lists is safe for any number of lists of any length, any     *)
(* initial capacity and any arguments that stay within a C int: ListSpec       *)
(* implies that ElementsInArray always holds.                                 *)
EXTENDS Lists, TLAPS

ListType == [elts : UNION {[0..n - 1 -> Values \cup {Junk}] : n \in Nat}, size : Nat, capacity : Nat]
ListOK(self) ==
  /\ self \in ListType
  /\ self.size <= self.capacity
  /\ self.elts \in [0..self.capacity - 1 -> Values \cup {Junk}]
  /\ \A i \in 0..self.size - 1 : self.elts[i] \in Values

\* Where a loop is: what a slice reads next is within its list.
WorkOK(w) ==
  /\ w.from \in Live /\ w.rtn \in Live /\ w.from # w.rtn
  /\ w.cur \in Int
SliceOK(w) ==
  /\ w = [op |-> "slice", from |-> w.from, rtn |-> w.rtn, cur |-> w.cur, p |-> w.p, arg |-> w.arg]
  /\ WorkOK(w)
  /\ w.p.step \in Int /\ w.p.stop \in Int
  /\ w.p.step > 0 => 0 <= w.cur /\ w.p.stop <= lists[w.from].size
  /\ w.p.step < 0 => w.cur < lists[w.from].size /\ -1 <= w.p.stop
  /\ \A n \in 0..lists[w.from].size - 1 : Trunc(n + w.p.step) = n + w.p.step
MulOK(w) ==
  /\ w = [op |-> "mul", from |-> w.from, rtn |-> w.rtn, cur |-> w.cur, i |-> w.i, n |-> w.n, arg |-> w.arg]
  /\ WorkOK(w)
  /\ 0 <= w.cur

\* The inductive invariant.
ListsOK == lists = [l \in Live |-> lists[l]] /\ \A l \in Live : ListOK(lists[l])
IterOK == iter # None => iter = [l |-> iter.l, pos |-> iter.pos] /\ iter.l \in Live /\ iter.pos \in Nat
ResultOK == result[1] = "elem" => result[2] \in Values
ListInv == ListsOK /\ IterOK /\ ResultOK /\ (work # None => SliceOK(work) \/ MulOK(work))

-----------------------------------------------------------------------------
\* A new list is in order.
LEMMA EmptyOK == ListOK(Empty)
  <1>1. [i \in {} |-> Junk] \in [0..0 - 1 -> Values \cup {Junk}]
    OBVIOUS
  <1> QED BY <1>1 DEF ListOK, ListType, Empty

\* A list with another array and another size that fit.
LEMMA ChangedOK ==
  ASSUME NEW self, self \in ListType, NEW size \in Nat, size <= self.capacity,
         NEW arr, arr \in [0..self.capacity - 1 -> Values \cup {Junk}],
         \A i \in 0..size - 1 : arr[i] \in Values
  PROVE  ListOK([self EXCEPT !.elts = arr, !.size = size])
  <1> DEFINE new == [self EXCEPT !.elts = arr, !.size = size]
  <1>1. self.capacity \in Nat
    BY DEF ListType
  <1>2. arr \in UNION {[0..n - 1 -> Values \cup {Junk}] : n \in Nat}
    BY <1>1
  <1>3. new \in ListType /\ new.size = size /\ new.capacity = self.capacity /\ new.elts = arr
    BY <1>2 DEF ListType
  <1> HIDE DEF new
  <1>4. ListOK(new)
    BY <1>3 DEF ListOK
  <1> QED BY <1>4 DEF new

\* ensure makes room, and keeps what the array holds.
LEMMA EnsureOK ==
  ASSUME NEW self, ListOK(self), NEW space \in Int
  PROVE  /\ ListOK(ensure(self, space))
         /\ ensure(self, space).size = self.size
         /\ self.size + space <= ensure(self, space).capacity
         /\ self.capacity <= ensure(self, space).capacity
         /\ \A i \in 0..self.capacity - 1 : ensure(self, space).elts[i] = self.elts[i]
  <1> DEFINE cap == IF self.capacity = 0 THEN Max2(InitialCapacity, space)
                    ELSE Max2(self.capacity * 2, self.size + space)
             arr == [i \in 0..cap - 1 |-> IF i < self.capacity THEN self.elts[i] ELSE Junk]
             g == [self EXCEPT !.elts = arr, !.capacity = cap]
  <1>1. CASE self.size + space <= self.capacity
    BY <1>1 DEF ensure, ListOK, ListType
  <1>2. CASE ~ (self.size + space <= self.capacity)
    <2>1. /\ self \in ListType /\ self.size \in Nat /\ self.capacity \in Nat
          /\ self.size <= self.capacity
          /\ self.elts \in [0..self.capacity - 1 -> Values \cup {Junk}]
          /\ \A i \in 0..self.size - 1 : self.elts[i] \in Values
      BY DEF ListOK, ListType
    <2>2. InitialCapacity \in Nat
      BY ListsAssumption
    <2>3. /\ cap \in Nat /\ self.size + space <= cap /\ self.capacity <= cap
      <3>1. ASSUME NEW s \in Nat, NEW c \in Nat, s <= c, ~ (s + space <= c)
            PROVE  LET k == IF c = 0 THEN Max2(InitialCapacity, space) ELSE Max2(c * 2, s + space)
                   IN  k \in Nat /\ s + space <= k /\ c <= k
        BY <3>1, <2>2 DEF Max2
      <3> QED BY <1>2, <2>1, <3>1
    <2>4. ensure(self, space) = g
      BY <1>2 DEF ensure
    <2> HIDE DEF cap
    <2>5. arr \in [0..cap - 1 -> Values \cup {Junk}]
      BY <2>1, <2>3
    <2>6. \A i \in 0..self.capacity - 1 : arr[i] = self.elts[i]
      BY <2>1, <2>3
    <2>7. g \in ListType /\ g.size = self.size /\ g.capacity = cap /\ g.elts = arr
      BY <2>1, <2>3, <2>5 DEF ListType
    <2> HIDE DEF g, arr
    <2>8. \A i \in 0..self.size - 1 : arr[i] \in Values
      <3>1. \A i \in 0..self.size - 1 : i \in 0..self.capacity - 1
        BY <2>1
      <3> QED BY <2>1, <2>6, <3>1
    <2> QED BY <2>1, <2>3, <2>4, <2>5, <2>6, <2>7, <2>8 DEF ListOK
  <1> QED BY <1>1, <1>2

\* Appending a value to a list in order leaves it in order.
LEMMA AppendOK ==
  ASSUME NEW self, ListOK(self), NEW v \in Values
  PROVE  ListOK(listAppendInternal(self, v))
  <1> DEFINE grown == ensure(self, 1)
             arr == [grown.elts EXCEPT ![self.size] = v]
  <1>1. /\ ListOK(grown) /\ grown.size = self.size /\ self.size + 1 <= grown.capacity
        /\ self.size \in Nat /\ self.size + 1 \in Nat
    <2>1. self.size \in Nat /\ self.size + 1 \in Nat /\ 1 \in Int
      BY DEF ListOK, ListType
    <2>2. ListOK(grown) /\ grown.size = self.size /\ self.size + 1 <= grown.capacity
      BY <2>1, EnsureOK
    <2> QED BY <2>1, <2>2
  <1>2. listAppendInternal(self, v) = [grown EXCEPT !.elts = arr, !.size = self.size + 1]
    BY DEF listAppendInternal
  <1> HIDE DEF grown
  <1>3. /\ grown \in ListType /\ grown.capacity \in Nat
        /\ grown.elts \in [0..grown.capacity - 1 -> Values \cup {Junk}]
        /\ \A i \in 0..grown.size - 1 : grown.elts[i] \in Values
    BY <1>1 DEF ListOK, ListType
  <1>4. arr \in [0..grown.capacity - 1 -> Values \cup {Junk}]
    BY <1>3
  <1>5. \A i \in 0..(self.size + 1) - 1 : arr[i] \in Values
    BY <1>1, <1>3
  <1> HIDE DEF arr
  <1>6. ListOK([grown EXCEPT !.elts = arr, !.size = self.size + 1])
    BY <1>1, <1>3, <1>4, <1>5, ChangedOK
  <1> QED BY <1>2, <1>6

\* memmove up from n, and v at n.
LEMMA InsertedOK ==
  ASSUME NEW self, ListOK(self), NEW v \in Values, NEW n \in 0..self.size - 1
  PROVE  ListOK(Inserted(self, n, v))
  <1> DEFINE grown == ensure(self, 1)
             arr == [i \in 0..grown.capacity - 1 |->
                      IF i = n THEN v
                      ELSE IF i > n /\ i <= self.size THEN grown.elts[i - 1] ELSE grown.elts[i]]
  <1>1. /\ ListOK(grown) /\ grown.size = self.size /\ self.size + 1 <= grown.capacity
        /\ self.size \in Nat /\ self.size + 1 \in Nat
    <2>1. self.size \in Nat /\ self.size + 1 \in Nat /\ 1 \in Int
      BY DEF ListOK, ListType
    <2>2. ListOK(grown) /\ grown.size = self.size /\ self.size + 1 <= grown.capacity
      BY <2>1, EnsureOK
    <2> QED BY <2>1, <2>2
  <1>2. Inserted(self, n, v) = [grown EXCEPT !.elts = arr, !.size = self.size + 1]
    BY DEF Inserted
  <1> HIDE DEF grown
  <1>3. /\ grown \in ListType /\ grown.capacity \in Nat
        /\ grown.elts \in [0..grown.capacity - 1 -> Values \cup {Junk}]
        /\ \A i \in 0..grown.size - 1 : grown.elts[i] \in Values
    BY <1>1 DEF ListOK, ListType
  <1>4. arr \in [0..grown.capacity - 1 -> Values \cup {Junk}]
    BY <1>1, <1>3, SMTT(30)
  <1>5. \A i \in 0..(self.size + 1) - 1 : arr[i] \in Values
    BY <1>1, <1>3
  <1> HIDE DEF arr
  <1>6. ListOK([grown EXCEPT !.elts = arr, !.size = self.size + 1])
    BY <1>1, <1>3, <1>4, <1>5, ChangedOK
  <1> QED BY <1>2, <1>6

\* memmove down onto n.
LEMMA RemovedOK ==
  ASSUME NEW self, ListOK(self), NEW n \in 0..self.size - 1
  PROVE  ListOK(Removed(self, n))
  <1> DEFINE arr == [i \in 0..self.capacity - 1 |->
                      IF i >= n /\ i < self.size - 1 THEN self.elts[i + 1] ELSE self.elts[i]]
  <1>1. /\ self \in ListType /\ self.capacity \in Nat /\ self.size \in Nat /\ self.size <= self.capacity
        /\ self.elts \in [0..self.capacity - 1 -> Values \cup {Junk}]
        /\ \A i \in 0..self.size - 1 : self.elts[i] \in Values
    BY DEF ListOK, ListType
  <1>2. Removed(self, n) = [self EXCEPT !.elts = arr, !.size = self.size - 1]
    BY DEF Removed
  <1>3. self.size - 1 \in Nat /\ self.size - 1 <= self.capacity
    BY <1>1
  <1>4. arr \in [0..self.capacity - 1 -> Values \cup {Junk}]
    BY <1>1
  <1>5. \A i \in 0..(self.size - 1) - 1 : arr[i] \in Values
    BY <1>1
  <1> HIDE DEF arr
  <1>6. ListOK([self EXCEPT !.elts = arr, !.size = self.size - 1])
    BY <1>1, <1>3, <1>4, <1>5, ChangedOK
  <1> QED BY <1>2, <1>6

\* A slice replaced by the elements of another list, or of the list itself.
LEMMA ReplacedOK ==
  ASSUME NEW self, ListOK(self), NEW lv, ListOK(lv), NEW same \in BOOLEAN, same => lv = self,
         NEW p, p.start \in 0..self.size - 1, p.stop \in p.start..self.size
  PROVE  ListOK(Replaced(self, p, lv, same))
  <1> DEFINE delts == lv.size - (p.stop - p.start)
             grown == ensure(self, delts)
             moved == [i \in 0..grown.capacity - 1 |->
                        IF i >= p.start + lv.size /\ i < self.size + delts THEN grown.elts[i - delts]
                        ELSE grown.elts[i]]
             source(i) == IF ~ same THEN lv.elts[i]
                          ELSE IF p.start = 0 THEN moved[i] ELSE moved[i % p.start]
             arr == [i \in 0..grown.capacity - 1 |->
                      IF i >= p.start /\ i < p.start + lv.size THEN source(i - p.start) ELSE moved[i]]
             size == self.size + delts
  <1>1. /\ self.size \in Nat /\ self.capacity \in Nat /\ self.size <= self.capacity
        /\ lv.size \in Nat /\ p.start \in Nat /\ p.stop \in Nat
        /\ p.start < self.size /\ p.start <= p.stop /\ p.stop <= self.size
        /\ \A i \in 0..lv.size - 1 : lv.elts[i] \in Values
    BY DEF ListOK, ListType
  <1>2. delts \in Int /\ size \in Nat
    BY <1>1
  <1>3. /\ ListOK(grown) /\ grown.size = self.size /\ size <= grown.capacity
        /\ self.capacity <= grown.capacity
    BY <1>2, EnsureOK
  <1>4. Replaced(self, p, lv, same) = [grown EXCEPT !.elts = arr, !.size = size]
    BY DEF Replaced
  <1> HIDE DEF grown
  <1>5. /\ grown \in ListType /\ grown.capacity \in Nat
        /\ grown.elts \in [0..grown.capacity - 1 -> Values \cup {Junk}]
        /\ \A i \in 0..self.size - 1 : grown.elts[i] \in Values
    BY <1>3 DEF ListOK, ListType
  <1>a. \A i \in 0..grown.capacity - 1 :
          i >= p.start + lv.size /\ i < self.size + delts => i - delts \in 0..self.size - 1
    BY <1>1, <1>5, SMTT(30)
  <1>b. \A i \in 0..self.size - 1 : i \in 0..grown.capacity - 1 /\ grown.elts[i] \in Values
    BY <1>1, <1>3, <1>5
  <1>6. moved \in [0..grown.capacity - 1 -> Values \cup {Junk}]
    <2> HIDE DEF delts
    <2> QED BY <1>5, <1>a, <1>b
  <1>7. \A i \in 0..grown.capacity - 1 :
          i < p.start \/ (p.start + lv.size <= i /\ i < size) => moved[i] \in Values
    <2> SUFFICES ASSUME NEW i \in 0..grown.capacity - 1,
                        i < p.start \/ (p.start + lv.size <= i /\ i < size)
                 PROVE  moved[i] \in Values
      OBVIOUS
    <2>1. CASE i < p.start
      <3>1. ~ (i >= p.start + lv.size) /\ i \in 0..self.size - 1
        BY <1>1, <2>1
      <3> QED BY <1>b, <3>1
    <2>2. CASE p.start + lv.size <= i /\ i < size
      <3>1. i >= p.start + lv.size /\ i < self.size + delts
        BY <1>1, <2>2
      <3> HIDE DEF delts
      <3> QED BY <1>a, <1>b, <3>1
    <2> QED BY <2>1, <2>2
  <1>8. \A i \in 0..lv.size - 1 : source(i) \in Values
    <2>1. CASE ~ same
      BY <1>1, <2>1
    <2>2. CASE same /\ p.start = 0
      <3>1. lv.size = self.size
        BY <2>2
      <3>2. \A i \in 0..self.size - 1 : i \in 0..grown.capacity - 1 /\ moved[i] = grown.elts[i]
        BY <1>1, <1>3, <1>5, <2>2, <3>1
      <3> HIDE DEF moved
      <3>3. \A i \in 0..lv.size - 1 : moved[i] \in Values
        BY <1>5, <3>1, <3>2
      <3> QED BY <2>2, <3>3
    <2>3. CASE same /\ p.start # 0
      <3>1. \A i \in Nat : i % p.start \in 0..p.start - 1
        BY <1>1, <2>3
      <3>2. \A i \in 0..p.start - 1 : i \in 0..grown.capacity - 1 /\ i < p.start
        BY <1>1, <1>3, <1>5, SMTT(30)
      <3> HIDE DEF moved
      <3>3. \A i \in 0..p.start - 1 : moved[i] \in Values
        BY <1>7, <3>2
      <3>4. \A i \in 0..lv.size - 1 : i \in Nat
        BY <1>1
      <3>5. \A i \in 0..lv.size - 1 : moved[i % p.start] \in Values
        BY <3>1, <3>3, <3>4
      <3> QED BY <2>3, <3>5
    <2> QED BY <2>1, <2>2, <2>3
  <1> HIDE DEF moved, source
  <1>9. \A i \in 0..grown.capacity - 1 :
          i >= p.start /\ i < p.start + lv.size => source(i - p.start) \in Values
    <2>1. \A i \in 0..grown.capacity - 1 :
            i >= p.start /\ i < p.start + lv.size => i - p.start \in 0..lv.size - 1
      BY <1>1, <1>5
    <2> QED BY <1>8, <2>1
  <1>10. arr \in [0..grown.capacity - 1 -> Values \cup {Junk}]
    BY <1>6, <1>9
  <1>11. \A i \in 0..size - 1 : arr[i] \in Values
    <2> SUFFICES ASSUME NEW i \in 0..size - 1
                 PROVE  arr[i] \in Values
      OBVIOUS
    <2>1. i \in 0..grown.capacity - 1 /\ i < size
      BY <1>2, <1>3, <1>5
    <2>2. CASE i >= p.start /\ i < p.start + lv.size
      BY <1>9, <2>1, <2>2
    <2>3. CASE ~ (i >= p.start /\ i < p.start + lv.size)
      <3>1. i < p.start \/ (p.start + lv.size <= i /\ i < size)
        BY <1>1, <2>1, <2>3
      <3> QED BY <1>7, <2>1, <2>3, <3>1
    <2> QED BY <2>2, <2>3
  <1> HIDE DEF arr, size
  <1>12. ListOK([grown EXCEPT !.elts = arr, !.size = size])
    BY <1>2, <1>3, <1>5, <1>10, <1>11, ChangedOK
  <1> QED BY <1>4, <1>12

-----------------------------------------------------------------------------
\* The ends of a slice are integers.
LEMMA SliceType ==
  ASSUME NEW slice \in SliceArgs, NEW size \in Nat
  PROVE  /\ parseSlice(slice, size).start \in Int
         /\ parseSlice(slice, size).stop \in Int
         /\ parseSlice(slice, size).step \in Int
         /\ StepOf(slice) = parseSlice(slice, size).step
  <1>1. slice \in [start : Optional, stop : Optional, step : Optional]
    BY ListsAssumption
  <1>2. \A n \in Optional : n # None => n[2] \in Int
    BY DEF Optional
  <1>3. /\ slice.start # None => slice.start[2] \in Int
        /\ slice.stop # None => slice.stop[2] \in Int
        /\ slice.step # None => slice.step[2] \in Int
    BY <1>1, <1>2
  <1>4. StepOf(slice) \in Int
    BY <1>3 DEF StepOf, IsInt
  <1> QED BY <1>3, <1>4 DEF parseSlice, IsInt, Bound

\* One list changes.
LEMMA UpdateKeeps ==
  ASSUME ListInv, NEW l \in Live, NEW self, ListOK(self), Update(l, self)
  PROVE  Live' = Live /\ ListsOK'
  <1>1. Live' = Live /\ lists' = [k \in Live' |-> lists'[k]]
    BY DEF Update, ListInv, ListsOK, Live
  <1>2. \A k \in Live : ListOK(lists'[k])
    BY DEF Update, ListInv, ListsOK, Live
  <1> QED BY <1>1, <1>2 DEF ListsOK, Live

\* One list is made.
LEMMA BindKeeps ==
  ASSUME ListInv, NEW new, NEW self, ListOK(self), Bind(new, self)
  PROVE  Live' = Live \cup {new} /\ ListsOK' /\ iter = None /\ new \notin Live
         /\ \A l \in Live : lists'[l] = lists[l]
  <1>1. /\ Live' = Live \cup {new} /\ lists' = [k \in Live' |-> lists'[k]]
        /\ iter = None /\ new \notin Live
    BY DEF Bind, Live
  <1>2. \A k \in Live : lists'[k] = lists[k]
    BY DEF Bind, Live
  <1>3. lists'[new] = self
    BY DEF Bind, Live
  <1>4. \A k \in Live' : ListOK(lists'[k])
    BY <1>1, <1>2, <1>3 DEF ListInv, ListsOK
  <1> QED BY <1>1, <1>2, <1>4 DEF ListsOK, Live

\* What is in use may be read.
LEMMA ElementOK ==
  ASSUME ListInv, NEW l \in Live
  PROVE  /\ ListOK(lists[l]) /\ lists[l].size \in Nat
         /\ \A n \in 0..lists[l].size - 1 : lists[l].elts[n] \in Values
  BY DEF ListInv, ListsOK, ListOK, ListType

\* Outside loops, the invariant is about lists, iterator and result.
LEMMA QuietOK ==
  ASSUME ListInv, Running, UNCHANGED work, ListsOK', IterOK', ResultOK'
  PROVE  ListInv'
  BY DEF ListInv, Running

\* A call that changes one list, or none, and returns r.
LEMMA ReturnOK ==
  ASSUME ListInv, Running, NEW r, Return(r), r[1] = "elem" => r[2] \in Values,
         ListsOK', Live' = Live \/ iter = None
  PROVE  ListInv'
  <1>1. IterOK'
    BY DEF ListInv, IterOK, Return
  <1>2. ResultOK'
    BY DEF ResultOK, Return
  <1> QED BY <1>1, <1>2, QuietOK DEF Return

\* A call that raises or aborts.
LEMMA FailOK ==
  ASSUME ListInv, NEW r, Fail(r), r[1] # "elem"
  PROVE  ListInv'
  <1>1. ListsOK' /\ IterOK' /\ ResultOK' /\ UNCHANGED <<work, lists>>
    BY DEF ListInv, ListsOK, IterOK, ResultOK, Fail, Live
  <1>2. work # None => SliceOK(work)' \/ MulOK(work)'
    BY DEF ListInv, Fail, SliceOK, MulOK, WorkOK, Live
  <1> QED BY <1>1, <1>2 DEF ListInv

\* list() makes an empty list.
LEMMA New1OK ==
  ASSUME ListInv, NEW new, listNew1(new)
  PROVE  ListInv'
  BY EmptyOK, BindKeeps, ReturnOK DEF listNew1, ListOf

\* list(l) makes a copy that has no spare capacity.
LEMMA New2OK ==
  ASSUME ListInv, NEW new, NEW l \in Live, listNew2(new, l)
  PROVE  ListInv'
  <1> DEFINE copy == [elts |-> [i \in 0..lists[l].size - 1 |-> lists[l].elts[i]],
                      size |-> lists[l].size, capacity |-> lists[l].size]
  <1>1. ListOK(copy)
    <2> DEFINE arr == [i \in 0..lists[l].size - 1 |-> lists[l].elts[i]]
    <2>1. lists[l].size \in Nat /\ \A i \in 0..lists[l].size - 1 : lists[l].elts[i] \in Values
      BY ElementOK
    <2>2. arr \in [0..lists[l].size - 1 -> Values \cup {Junk}] /\ \A i \in 0..lists[l].size - 1 : arr[i] \in Values
      BY <2>1
    <2> HIDE DEF arr
    <2>3. [elts |-> arr, size |-> lists[l].size, capacity |-> lists[l].size] \in ListType
      BY <2>1, <2>2 DEF ListType
    <2>4. ListOK([elts |-> arr, size |-> lists[l].size, capacity |-> lists[l].size])
      BY <2>1, <2>2, <2>3 DEF ListOK
    <2> QED BY <2>4 DEF arr
  <1>2. Running /\ Bind(new, copy) /\ Return(ListOf(new))
    BY DEF listNew2
  <1> HIDE DEF copy
  <1> QED BY <1>1, <1>2, BindKeeps, ReturnOK DEF ListOf

\* append.
LEMMA AppendStepOK ==
  ASSUME ListInv, NEW l \in Live, NEW v \in Values, listAppend(l, v)
  PROVE  ListInv'
  <1>1. ListOK(listAppendInternal(lists[l], v))
    BY ElementOK, AppendOK
  <1> QED BY <1>1, UpdateKeeps, ReturnOK DEF listAppend, Nothing

\* insert, at an index that is clamped to the list.
LEMMA InsertOK ==
  ASSUME ListInv, NEW l \in Live, NEW v \in Values, NEW idx \in Indices, listInsert(l, idx, v)
  PROVE  ListInv'
  <1> DEFINE self == lists[l]
             n == Bound(idx, self.size)
  <1>1. ListOK(self) /\ self.size \in Nat /\ n \in Int
    BY ElementOK, ListsAssumption DEF Bound
  <1>2. ListOK(listAppendInternal(self, v))
    BY <1>1, AppendOK
  <1>3. CASE n < 0 /\ self.size = 0
    BY <1>3, FailOK DEF listInsert, Aborts
  <1>4. CASE ~ (n < 0 /\ self.size = 0) /\ n >= self.size
    BY <1>2, <1>4, UpdateKeeps, ReturnOK DEF listInsert, Nothing
  <1>5. CASE ~ (n < 0 /\ self.size = 0) /\ ~ (n >= self.size)
    <2>1. Max2(n, 0) \in 0..self.size - 1
      BY <1>1, <1>5 DEF Max2
    <2>2. ListOK(Inserted(self, Max2(n, 0), v))
      BY <1>1, <2>1, InsertedOK
    <2>3. Running /\ Update(l, Inserted(self, Max2(n, 0), v)) /\ Return(Nothing)
      BY <1>5 DEF listInsert
    <2> QED BY <2>2, <2>3, UpdateKeeps, ReturnOK DEF Nothing
  <1> QED BY <1>3, <1>4, <1>5

\* pop of the last element.
LEMMA Pop1OK ==
  ASSUME ListInv, NEW l \in Live, listPop1(l)
  PROVE  ListInv'
  <1> DEFINE self == lists[l]
  <1>1. /\ ListOK(self) /\ self.size \in Nat
        /\ \A i \in 0..self.size - 1 : self.elts[i] \in Values
    BY ElementOK
  <1>2. CASE self.size = 0
    BY <1>2, FailOK DEF listPop1, Raises
  <1>3. CASE self.size # 0
    <2>1. ListOK([self EXCEPT !.size = self.size - 1])
      BY <1>1, <1>3 DEF ListOK, ListType
    <2>2. Running /\ Update(l, [self EXCEPT !.size = self.size - 1]) /\ Return(Elem(self.elts[self.size - 1]))
      BY <1>3 DEF listPop1
    <2>3. self.elts[self.size - 1] \in Values
      BY <1>1, <1>3
    <2> QED BY <2>1, <2>2, <2>3, UpdateKeeps, ReturnOK DEF Elem
  <1> QED BY <1>2, <1>3

\* pop of any element.
LEMMA Pop2OK ==
  ASSUME ListInv, NEW l \in Live, NEW idx \in Indices, listPop2(l, idx)
  PROVE  ListInv'
  <1> DEFINE self == lists[l]
             n == Bound(idx, self.size)
  <1>1. /\ ListOK(self) /\ self.size \in Nat /\ n \in Int
        /\ \A i \in 0..self.size - 1 : self.elts[i] \in Values
    BY ElementOK, ListsAssumption DEF Bound
  <1>2. CASE ~ InRange(n, self)
    BY <1>2, FailOK DEF listPop2, Raises
  <1>3. CASE InRange(n, self)
    <2>1. n \in 0..self.size - 1
      BY <1>1, <1>3 DEF InRange
    <2>2. ListOK(Removed(self, n)) /\ self.elts[n] \in Values
      BY <1>1, <2>1, RemovedOK
    <2>3. Running /\ Update(l, Removed(self, n)) /\ Return(Elem(self.elts[n]))
      BY <1>3 DEF listPop2
    <2> QED BY <2>2, <2>3, UpdateKeeps, ReturnOK DEF Elem
  <1> QED BY <1>2, <1>3

\* len and nonzero only read the size.
LEMMA SizeOK ==
  ASSUME ListInv, NEW l \in Live, listLen(l) \/ listNonzero(l)
  PROVE  ListInv'
  <1>1. ListsOK' /\ Live' = Live /\ Running
    BY DEF ListInv, ListsOK, Live, listLen, listNonzero
  <1> QED BY <1>1, ReturnOK DEF listLen, listNonzero, Number, Truth

\* l[n] reads within the size.
LEMMA ReadOK ==
  ASSUME ListInv, NEW l \in Live, NEW idx \in Indices, listGetitem(l, idx)
  PROVE  ListInv'
  <1> DEFINE self == lists[l]
             n == Bound(idx, self.size)
  <1>1. ListsOK' /\ Live' = Live /\ Running
    BY DEF ListInv, ListsOK, Live, listGetitem
  <1>2. /\ self.size \in Nat /\ n \in Int
        /\ \A i \in 0..self.size - 1 : self.elts[i] \in Values
    BY ElementOK, ListsAssumption DEF Bound
  <1>3. CASE InRange(n, self)
    <2>1. self.elts[n] \in Values
      BY <1>2, <1>3 DEF InRange
    <2>2. Return(Elem(self.elts[n]))
      BY <1>3 DEF listGetitem
    <2> QED BY <1>1, <2>1, <2>2, ReturnOK DEF Elem
  <1>4. CASE ~ InRange(n, self)
    BY <1>1, <1>4, ReturnOK DEF listGetitem, Raises
  <1> QED BY <1>3, <1>4

\* l[n] = v writes within the size.
LEMMA SetOK ==
  ASSUME ListInv, NEW l \in Live, NEW idx \in Indices, NEW v \in Values, listSetitem(l, idx, v)
  PROVE  ListInv'
  <1> DEFINE self == lists[l]
             n == Bound(idx, self.size)
             arr == [self.elts EXCEPT ![n] = v]
  <1>1. /\ self \in ListType /\ self.size \in Nat /\ n \in Int /\ self.capacity \in Nat
        /\ self.size <= self.capacity
        /\ self.elts \in [0..self.capacity - 1 -> Values \cup {Junk}]
        /\ \A i \in 0..self.size - 1 : self.elts[i] \in Values
    BY ElementOK, ListsAssumption DEF Bound, ListOK, ListType
  <1>2. CASE ~ InRange(n, self)
    BY <1>2, FailOK DEF listSetitem, Raises
  <1>3. CASE InRange(n, self)
    <2>1. arr \in [0..self.capacity - 1 -> Values \cup {Junk}] /\ \A i \in 0..self.size - 1 : arr[i] \in Values
      BY <1>1, <1>3 DEF InRange
    <2>2. Running /\ Update(l, [self EXCEPT !.elts = arr]) /\ Return(Nothing)
      BY <1>3 DEF listSetitem
    <2> HIDE DEF arr
    <2>3. [self EXCEPT !.elts = arr] = [self EXCEPT !.elts = arr, !.size = self.size]
      BY <1>1 DEF ListType
    <2>4. ListOK([self EXCEPT !.elts = arr, !.size = self.size])
      BY <1>1, <2>1, ChangedOK
    <2> QED BY <2>2, <2>3, <2>4, UpdateKeeps, ReturnOK DEF Nothing
  <1> QED BY <1>2, <1>3

\* l[i:j] = v, where the assertions of listSetitem hold.
LEMMA SetSliceOK ==
  ASSUME ListInv, NEW l \in Live, NEW v \in Live, NEW slice \in SliceArgs, listSetslice(l, slice, v)
  PROVE  ListInv'
  <1> DEFINE self == lists[l]
             p == parseSlice(slice, self.size)
  <1>1. ListOK(self) /\ ListOK(lists[v]) /\ self.size \in Nat
    BY ElementOK
  <1>2. p.start \in Int /\ p.stop \in Int
    BY <1>1, SliceType
  <1>3. CASE StepOf(slice) = 0
    BY <1>3, FailOK DEF listSetslice, Raises
  <1>4. CASE StepOf(slice) # 0 /\ ~ SetSliceAsserts(p, self)
    BY <1>4, FailOK DEF listSetslice, Aborts
  <1>5. CASE StepOf(slice) # 0 /\ SetSliceAsserts(p, self)
    <2>1. Running /\ Update(l, Replaced(self, p, lists[v], v = l)) /\ Return(Nothing)
      BY <1>5 DEF listSetslice
    <2>2. p.start \in 0..self.size - 1 /\ p.stop \in p.start..self.size
      BY <1>1, <1>2, <1>5 DEF SetSliceAsserts, InRange
    <2> HIDE DEF p
    <2>3. ListOK(Replaced(self, p, lists[v], v = l))
      BY <1>1, <2>2, ReplacedOK
    <2> QED BY <2>1, <2>3, UpdateKeeps, ReturnOK DEF Nothing
  <1> QED BY <1>3, <1>4, <1>5

-----------------------------------------------------------------------------
\* A slice starts its loop within the list: the assertions of _listSlice bound
\* the index it starts from and the one it stops at.
LEMMA GetSliceOK ==
  ASSUME ListInv, NEW new, NEW l \in Live, NEW slice \in SliceArgs, listGetslice(new, l, slice)
  PROVE  ListInv'
  <1> DEFINE size == lists[l].size
             p == parseSlice(slice, size)
             w == [op |-> "slice", from |-> l, rtn |-> new, cur |-> Trunc(p.start), p |-> p, arg |-> slice]
  <1>1. size \in Nat
    BY ElementOK
  <1>2. p.start \in Int /\ p.stop \in Int /\ p.step \in Int
    BY <1>1, SliceType
  <1>3. CASE StepOf(slice) = 0
    BY <1>3, FailOK DEF listGetslice, Raises
  <1>4. CASE StepOf(slice) # 0 /\ ~ SliceAsserts(p, size)
    BY <1>4, FailOK DEF listGetslice, Aborts
  <1>5. CASE StepOf(slice) # 0 /\ SliceAsserts(p, size)
    <2>1. /\ NoWrap(p, size) /\ Bind(new, Empty) /\ work' = w /\ UNCHANGED <<iter, result>>
      BY <1>5 DEF listGetslice
    <2>2. /\ ListsOK' /\ iter = None /\ Live' = Live \cup {new} /\ new \notin Live
          /\ lists'[l] = lists[l]
      BY <2>1, EmptyOK, BindKeeps
    <2>3. Trunc(p.start) = p.start /\ \A n \in 0..size - 1 : Trunc(n + p.step) = n + p.step
      BY <2>1 DEF NoWrap
    <2>4. /\ p.step > 0 => 0 <= p.start /\ p.stop <= size
          /\ p.step < 0 => p.start < size /\ -1 <= p.stop
      BY <1>2, <1>5 DEF SliceAsserts
    <2> HIDE DEF p, size
    <2>5. SliceOK(work)'
      BY <1>2, <2>1, <2>2, <2>3, <2>4 DEF SliceOK, WorkOK, size
    <2>6. IterOK' /\ ResultOK'
      BY <2>1, <2>2 DEF ListInv, IterOK, ResultOK
    <2> QED BY <2>2, <2>5, <2>6 DEF ListInv
  <1> QED BY <1>3, <1>4, <1>5

\* A repetition starts at the first element.
LEMMA MulOKStart ==
  ASSUME ListInv, NEW new, NEW l \in Live, NEW n \in Indices, listMul(new, l, n)
  PROVE  ListInv'
  <1>1. /\ Bind(new, Empty) /\ UNCHANGED <<iter, result>>
        /\ work' = [op |-> "mul", from |-> l, rtn |-> new, cur |-> 0, i |-> 0, n |-> Trunc(n), arg |-> n]
    BY DEF listMul
  <1>2. ListsOK' /\ iter = None /\ Live' = Live \cup {new} /\ new \notin Live
    BY <1>1, EmptyOK, BindKeeps
  <1>3. MulOK(work)'
    BY <1>1, <1>2 DEF MulOK, WorkOK
  <1>4. IterOK' /\ ResultOK'
    BY <1>1, <1>2 DEF ListInv, IterOK, ResultOK
  <1> QED BY <1>2, <1>3, <1>4 DEF ListInv

\* A turn of a loop appends an element in use to the list it makes.
LEMMA AppendFromOK ==
  ASSUME ListInv, work # None, WorkOK(work), NEW n \in 0..lists[work.from].size - 1, AppendFrom(n),
         UNCHANGED <<iter, result>>
  PROVE  /\ Live' = Live /\ lists'[work.from] = lists[work.from]
         /\ ListsOK' /\ IterOK' /\ ResultOK'
  <1>1. work.from \in Live /\ work.rtn \in Live /\ work.from # work.rtn
    BY DEF WorkOK
  <1>2. lists[work.from].elts[n] \in Values /\ ListOK(lists[work.rtn])
    BY <1>1, ElementOK
  <1>3. ListOK(listAppendInternal(lists[work.rtn], lists[work.from].elts[n]))
    BY <1>2, AppendOK
  <1>4. Live' = Live /\ ListsOK'
    BY <1>1, <1>3, UpdateKeeps DEF AppendFrom
  <1>5. lists'[work.from] = lists[work.from]
    BY <1>1 DEF AppendFrom, Update, Live
  <1>6. IterOK' /\ ResultOK'
    BY <1>4 DEF ListInv, IterOK, ResultOK
  <1> QED BY <1>4, <1>5, <1>6

\* A loop that is done returns its list.
LEMMA FinishOK ==
  ASSUME ListInv, Finish
  PROVE  ListInv'
  <1>1. ListsOK' /\ IterOK' /\ ResultOK' /\ work' = None
    BY DEF Finish, ListInv, ListsOK, IterOK, ResultOK, ListOf, Live
  <1> QED BY <1>1 DEF ListInv

\* The loop of a slice stays within the list, upwards and downwards.
LEMMA SliceTurnOK ==
  ASSUME ListInv, SliceTurn
  PROVE  ListInv'
  <1> DEFINE size == lists[work.from].size
             goes == \/ work.p.step > 0 /\ work.cur < work.p.stop
                     \/ work.p.step < 0 /\ work.cur > work.p.stop
  <1>1. SliceOK(work)
    BY DEF SliceTurn, ListInv, MulOK
  <1>2. CASE ~ goes
    BY <1>2, FinishOK DEF SliceTurn
  <1>3. CASE goes
    <2>1. /\ work # None /\ AppendFrom(work.cur) /\ UNCHANGED <<iter, result>>
          /\ work' = [work EXCEPT !.cur = Trunc(work.cur + work.p.step)]
      BY <1>3 DEF SliceTurn
    <2>2. /\ WorkOK(work) /\ size \in Nat /\ work.cur \in Int
          /\ work.p.step \in Int /\ work.p.stop \in Int
      BY <1>1, ElementOK DEF SliceOK, WorkOK
    <2>3. work.cur \in 0..size - 1
      BY <1>1, <1>3, <2>2 DEF SliceOK
    <2>4. Trunc(work.cur + work.p.step) = work.cur + work.p.step
      BY <1>1, <2>3 DEF SliceOK
    <2>5. /\ Live' = Live /\ lists'[work.from] = lists[work.from]
          /\ ListsOK' /\ IterOK' /\ ResultOK'
      BY <2>1, <2>2, <2>3, AppendFromOK
    <2>6. /\ work' = [op |-> "slice", from |-> work.from, rtn |-> work.rtn,
                      cur |-> work.cur + work.p.step, p |-> work.p, arg |-> work.arg]
      BY <1>1, <2>1, <2>4 DEF SliceOK
    <2>7. SliceOK(work)'
      BY <1>1, <2>2, <2>3, <2>5, <2>6 DEF SliceOK, WorkOK
    <2> QED BY <2>5, <2>7 DEF ListInv
  <1> QED BY <1>2, <1>3

\* So does the loop of a repetition.
LEMMA MulTurnOK ==
  ASSUME ListInv, MulTurn
  PROVE  ListInv'
  <1> DEFINE size == lists[work.from].size
             goes == work.i < work.n /\ work.cur < size
             cur == IF work.cur + 1 >= size THEN 0 ELSE work.cur + 1
             i == IF work.cur + 1 >= size THEN work.i + 1 ELSE work.i
  <1>1. MulOK(work)
    BY DEF MulTurn, ListInv, SliceOK
  <1>2. CASE ~ goes
    BY <1>2, FinishOK DEF MulTurn
  <1>3. CASE goes
    <2>1. /\ work # None /\ AppendFrom(work.cur) /\ UNCHANGED <<iter, result>>
          /\ work' = [work EXCEPT !.cur = cur, !.i = i]
      BY <1>3 DEF MulTurn
    <2>2. WorkOK(work) /\ size \in Nat /\ work.cur \in Int /\ 0 <= work.cur
      BY <1>1, ElementOK DEF MulOK, WorkOK
    <2>3. work.cur \in 0..size - 1
      BY <1>3, <2>2
    <2>4. /\ Live' = Live /\ ListsOK' /\ IterOK' /\ ResultOK'
      BY <2>1, <2>2, <2>3, AppendFromOK
    <2>5. cur \in Nat
      BY <2>2
    <2> HIDE DEF cur, i
    <2>6. work' = [op |-> "mul", from |-> work.from, rtn |-> work.rtn, cur |-> cur,
                   i |-> i, n |-> work.n, arg |-> work.arg]
      <3> DEFINE w == [op |-> "mul", from |-> work.from, rtn |-> work.rtn, cur |-> work.cur,
                       i |-> work.i, n |-> work.n, arg |-> work.arg]
      <3>1. work' = [w EXCEPT !.cur = cur, !.i = i]
        BY <1>1, <2>1 DEF MulOK
      <3> QED BY <3>1
    <2>7. MulOK(work)'
      BY <2>2, <2>4, <2>5, <2>6 DEF MulOK, WorkOK
    <2> QED BY <2>4, <2>7 DEF ListInv
  <1> QED BY <1>2, <1>3

\* A for loop reads below the size its list has at that moment.
LEMMA IterStepOK ==
  ASSUME ListInv, listiterNext \/ TakeResult \/ \E l \in Live : listIter(l)
  PROVE  ListInv'
  <1>1. ListsOK' /\ Live' = Live /\ UNCHANGED <<lists, work>>
    BY DEF ListInv, ListsOK, Live, listiterNext, TakeResult, listIter
  <1>2. CASE TakeResult
    <2>1. IterOK' /\ ResultOK'
      BY <1>1, <1>2 DEF TakeResult, ListInv, IterOK, ResultOK, Nothing
    <2> QED BY <1>1, <1>2, <2>1 DEF TakeResult, ListInv
  <1>3. CASE \E l \in Live : listIter(l)
    <2>1. IterOK' /\ ResultOK'
      BY <1>1, <1>3 DEF listIter, ListInv, IterOK, ResultOK
    <2> QED BY <1>1, <1>3, <2>1, QuietOK DEF listIter
  <1>4. CASE listiterNext
    <2>1. iter = [l |-> iter.l, pos |-> iter.pos] /\ iter.l \in Live /\ iter.pos \in Nat
      BY <1>4 DEF listiterNext, ListInv, IterOK
    <2>2. CASE listiterHasnext(iter)
      <3>1. lists[iter.l].elts[iter.pos] \in Values
        BY <2>1, <2>2, ElementOK DEF listiterHasnext
      <3>2. /\ result' = Elem(lists[iter.l].elts[iter.pos])
            /\ iter' = [iter EXCEPT !.pos = iter.pos + 1]
        BY <1>4, <2>2 DEF listiterNext
      <3>3. iter' = [l |-> iter.l, pos |-> iter.pos + 1]
        BY <2>1, <3>2
      <3>4. IterOK'
        BY <1>1, <2>1, <3>3 DEF IterOK
      <3>5. ResultOK'
        BY <3>1, <3>2 DEF ResultOK, Elem
      <3> QED BY <1>1, <1>4, <3>4, <3>5, QuietOK DEF listiterNext
    <2>3. CASE ~ listiterHasnext(iter)
      <3>1. IterOK' /\ ResultOK'
        BY <1>4, <2>3 DEF listiterNext, IterOK, ResultOK, Nothing
      <3> QED BY <1>1, <1>4, <3>1, QuietOK DEF listiterNext
    <2> QED BY <2>2, <2>3
  <1> QED BY <1>2, <1>3, <1>4

\* A list that goes away is not the one a for loop runs over.
LEMMA DropOK ==
  ASSUME ListInv, NEW l \in Live, Drop(l)
  PROVE  ListInv'
  <1>1. Live' = Live \ {l} /\ lists' = [k \in Live' |-> lists'[k]] /\ \A k \in Live' : lists'[k] = lists[k]
    BY DEF Drop, Live
  <1>2. ListsOK'
    BY <1>1 DEF ListInv, ListsOK
  <1>3. IterOK' /\ ResultOK'
    BY <1>1 DEF Drop, Return, ListInv, IterOK, ResultOK, Nothing
  <1> QED BY <1>2, <1>3, QuietOK DEF Drop, Return

\* Every step of a program over lists keeps them in order.
LEMMA StepOK ==
  ASSUME ListInv, [ListNext]_listVars
  PROVE  ListInv'
  <1>1. CASE UNCHANGED listVars
    BY <1>1 DEF listVars, ListInv, ListsOK, IterOK, ResultOK, SliceOK, MulOK, WorkOK, Live
  <1>2. ASSUME NEW new \in Lists, listNew1(new) PROVE ListInv'
    BY <1>2, New1OK
  <1>3. ASSUME NEW new \in Lists, NEW l \in Live, listNew2(new, l) PROVE ListInv'
    BY <1>3, New2OK
  <1>4. ASSUME NEW l \in Live, NEW v \in Values, listAppend(l, v) PROVE ListInv'
    BY <1>4, AppendStepOK
  <1>5. ASSUME NEW l \in Live, NEW n \in Indices, NEW v \in Values, listInsert(l, n, v) PROVE ListInv'
    BY <1>5, InsertOK
  <1>6. ASSUME NEW l \in Live, listPop1(l) PROVE ListInv'
    BY <1>6, Pop1OK
  <1>7. ASSUME NEW l \in Live, NEW n \in Indices, listPop2(l, n) PROVE ListInv'
    BY <1>7, Pop2OK
  <1>8. ASSUME NEW l \in Live, listLen(l) \/ listNonzero(l) PROVE ListInv'
    BY <1>8, SizeOK
  <1>9. ASSUME NEW l \in Live, NEW n \in Indices, listGetitem(l, n) PROVE ListInv'
    BY <1>9, ReadOK
  <1>10. ASSUME NEW l \in Live, NEW n \in Indices, NEW v \in Values, listSetitem(l, n, v) PROVE ListInv'
    BY <1>10, SetOK
  <1>11. ASSUME NEW l \in Live, NEW s \in SliceArgs, NEW v \in Live, listSetslice(l, s, v) PROVE ListInv'
    BY <1>11, SetSliceOK
  <1>12. ASSUME NEW new \in Lists, NEW l \in Live, NEW s \in SliceArgs, listGetslice(new, l, s) PROVE ListInv'
    BY <1>12, GetSliceOK
  <1>13. ASSUME NEW new \in Lists, NEW l \in Live, NEW n \in Indices, listMul(new, l, n) PROVE ListInv'
    BY <1>13, MulOKStart
  <1>14. CASE SliceTurn
    BY <1>14, SliceTurnOK
  <1>15. CASE MulTurn
    BY <1>15, MulTurnOK
  <1>16. CASE listiterNext \/ TakeResult \/ \E l \in Live : listIter(l)
    BY <1>16, IterStepOK
  <1>17. ASSUME NEW l \in Live, Drop(l) PROVE ListInv'
    BY <1>17, DropOK
  <1> QED BY <1>1, <1>2, <1>3, <1>4, <1>5, <1>6, <1>7, <1>8, <1>9, <1>10, <1>11, <1>12, <1>13,
             <1>14, <1>15, <1>16, <1>17 DEF ListNext

\* ElementsInArray holds in every state of every program over lists: an array
\* has the length its capacity says, holds every element the size counts, and
\* what was never written is never returned, whatever the for loop's body does.
THEOREM ListsSafe == ListSpec => []ElementsInArray
  <1>1. ListInit => ListInv
    BY DEF ListInit, ListInv, ListsOK, IterOK, ResultOK, Nothing, Live
  <1>2. ListInv /\ [ListNext]_listVars => ListInv'
    BY StepOK
  <1>3. ListInv => ElementsInArray
    <2> SUFFICES ASSUME ListInv, NEW l \in Live
                 PROVE  /\ lists[l].size \in 0..lists[l].capacity
                        /\ DOMAIN lists[l].elts = 0..lists[l].capacity - 1
                        /\ \A i \in 0..lists[l].size - 1 : lists[l].elts[i] \in Values
      BY DEF ElementsInArray, ListInv, ResultOK
    <2> QED BY ElementOK DEF ListOK, ListType
  <1> QED BY <1>1, <1>2, <1>3, PTL DEF ListSpec
=============================================================================
