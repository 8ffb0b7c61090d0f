------------------------------ MODULE BuiltIns ------------------------------
(* The built-in types: programs that make and change lists, and, while they   *)
(* have none, call the methods of numbers, strings and tuples and loop over   *)
(* an xrange.  A call on immutable objects has no effect but its answer,      *)
(* which call holds until the program goes on.                                *)
EXTENDS Lists, Numbers

CONSTANTS
  Boxes,         \* the numbers a program computes with
  Operators,     \* the binary operators it uses on them
  Strings,
  StringSlices,  \* the slices it takes of them
  Tuples,
  RangeArgs      \* start, stop and step of an xrange

VARIABLES
  call,   \* the last call on immutable objects: <<function, arguments, answer>>
  range   \* the xrange a for loop is in
vars == <<lists, iter, work, result, call, range>>

Init == ListInit /\ call = None /\ range = None

-----------------------------------------------------------------------------
(* Calls on immutable objects. *)

Fn == call[1]
Args == call[2]
Completed(r) == r[1] \notin {"raised", "aborted"}
\* Bound: such a call is made while no list is live.
Idle == Live = {} /\ Running /\ iter = None /\ call = None /\ range = None
Calls(fn, args, r) == call' = <<fn, args, r>> /\ UNCHANGED <<listVars, range>>

\* An answer that is an error ends the program.
Answer(b) == IF IsError(b) THEN Raises(b.cls) ELSE Value(b)

\* Bound: a float is raised to whole powers only, and zero to no negative one.
HasPower(b, c) == b.cls = "float" => c.v[2] = 1 /\ (b.v[1] = 0 => c.v[1] >= 0)
Arithmetic(name, b, c) ==
  /\ name = "__pow__" => HasPower(b, c)
  /\ name \in Comparisons => "bool" \notin {b.cls, c.cls}
  /\ Calls(name, <<b, c>>, Answer(binop(name, b, c)))
UnaryNames == {"__neg__", "__pos__", "__invert__", "__nonzero__"}
UnaryCall(name, b) == Unary(name, b) # NoMethod /\ Calls(name, <<b>>, Answer(Unary(name, b)))
Conversion(b) ==
  \/ Calls("int", <<b>>, Answer(intNew(b)))
  \/ Calls("bool", <<b>>, Answer(boolNew(b)))

StringCall(s) ==
  \/ \E n \in Indices : Calls("strGetitem", <<s, n>>, strGetitem(s, n))
  \/ \E slice \in StringSlices : Calls("strSlice", <<s, slice>>, strSlice(s, slice))
  \/ \E t \in Strings : Calls("strAdd", <<s, t>>, strAdd(s, t)) \/ Calls("strEq", <<s, t>>, strEq(s, t))
  \/ \E n \in Indices : Calls("strMul", <<s, n>>, strMul(s, n))
  \/ \E t, u \in Strings : Calls("strJoin", <<s, <<t, u>>>>, strJoin(s, <<t, u>>))

ElementsEqual(b, c) == boolNew(binop("__eq__", b, c)) = boxBool(TRUE)
CompareElements(name, b, c) == binop(name, b, c) = boxBool(TRUE)
CompareSizes(name, m, n) == Compared(name, <<m, 1>>, <<n, 1>>) = boxBool(TRUE)
\* How many leading elements are equal.
Leading(t, u) ==
  CHOOSE n \in 0..Min2(Len(t), Len(u)) :
    /\ \A i \in 1..n : ElementsEqual(t[i], u[i])
    /\ n < Min2(Len(t), Len(u)) => ~ ElementsEqual(t[n + 1], u[n + 1])
tupleCmp(name, t, u) ==
  LET n == Leading(t, u)
  IN IF n = Min2(Len(t), Len(u)) THEN CompareSizes(name, Len(t), Len(u))
     ELSE IF name = "__eq__" THEN FALSE
     ELSE IF name = "__ne__" THEN TRUE
     ELSE CompareElements(name, t[n + 1], u[n + 1])
TupleCall(t) ==
  \/ \E n \in Indices : Calls("tupleGetitem", <<t, n>>, tupleGetitem(t, n))
  \/ \E name \in Comparisons, u \in Tuples :
       Calls("tupleCmp", <<t, u, name>>, Value(tupleCmp(name, t, u)))

GoOn ==
  /\ call # None /\ Completed(call[3])
  /\ call' = None
  /\ UNCHANGED <<listVars, range>>

-----------------------------------------------------------------------------
(* for i in xrange(start, stop, step): last is the i of this turn.            *)

xrange(a) ==
  /\ IF a.step = 0
     THEN call' = <<"xrange", <<a>>, Aborts>> /\ UNCHANGED range
     ELSE range' = [args |-> a, cur |-> a.start, last |-> None, done |-> FALSE] /\ UNCHANGED call
  /\ UNCHANGED listVars

\* The iterator does not move on.
XrangeStays(self) == [self EXCEPT !.last = <<"int", self.cur>>]
xrangeIteratorNext(self) ==
  [self EXCEPT !.last = <<"int", self.cur>>, !.cur = Wrap(self.cur + self.args.step)]

\* __hasnext__ asserts that the step is positive.
XrangeTurn ==
  /\ range # None /\ ~ range.done
  /\ UNCHANGED listVars
  /\ IF range.args.step < 0
     THEN call' = <<"xrange", <<range.args>>, Aborts>> /\ range' = None
     ELSE /\ UNCHANGED call
          /\ range' = IF range.cur < range.args.stop THEN xrangeIteratorNext(range)
                      ELSE [range EXCEPT !.done = TRUE]
XrangeEnd == range # None /\ range.done /\ range' = None /\ UNCHANGED <<listVars, call>>

-----------------------------------------------------------------------------
ListCall == call = None /\ range = None /\ ListNext /\ UNCHANGED <<call, range>>
Next ==
  \/ ListCall
  \/ Idle /\ \E name \in Operators, b, c \in Boxes : Arithmetic(name, b, c)
  \/ Idle /\ \E name \in UnaryNames, b \in Boxes : UnaryCall(name, b)
  \/ Idle /\ \E b \in Boxes : Conversion(b)
  \/ Idle /\ \E s \in Strings : StringCall(s)
  \/ Idle /\ \E t \in Tuples : TupleCall(t)
  \/ Idle /\ \E a \in RangeArgs : xrange(a)
  \/ GoOn
  \/ XrangeTurn
  \/ XrangeEnd

\* One thread runs the interpreter's C++ code: a loop inside a call, and a for
\* loop over an xrange, take their next turn.
Fairness ==
  /\ WF_vars(SliceTurn /\ UNCHANGED <<call, range>>)
  /\ WF_vars(MulTurn /\ UNCHANGED <<call, range>>)
  /\ WF_vars(XrangeTurn)
  /\ WF_vars(XrangeEnd)
Spec == Init /\ [][Next]_vars /\ Fairness

-----------------------------------------------------------------------------
(* What Python says.                                                          *)

Elements(self) == [i \in 1..self.size |-> self.elts[i - 1]]
\* The list that a loop is building is not visible yet.
Visible == IF work = None THEN Live ELSE Live \ {work.rtn}
Py == INSTANCE PyLists WITH vals <- [l \in Visible |-> Elements(lists[l])]

\* A call and what Python says of the same call; a loop is done in its last step.
SameCall ==
  /\ \A new \in Lists : listNew1(new) => Py!New(new, <<>>)
  /\ \A new \in Lists, l \in Live : listNew2(new, l) => Py!New(new, Elements(lists[l]))
  /\ \A l \in Live, n \in Indices :
       /\ listGetitem(l, n) => Py!Item(l, n, TRUE)
       /\ listPop2(l, n) => Py!Item(l, n, FALSE)
       /\ \A v \in Values : listInsert(l, n, v) => Py!Insert(l, n, v)
       /\ \A v \in Values : listSetitem(l, n, v) => Py!SetItem(l, n, v)
  /\ \A l \in Live, v \in Live, slice \in SliceArgs : listSetslice(l, slice, v) => Py!SetSlice(l, slice, v)
  /\ \A l \in Live : listPop1(l) => Py!Item(l, -1, FALSE)
  /\ SliceTurn => IF work' = None THEN Py!Slice(work.rtn, work.from, work.arg) ELSE UNCHANGED Py!vars
  /\ MulTurn => IF work' = None THEN Py!Repeat(work.rtn, work.from, work.arg) ELSE UNCHANGED Py!vars

\* Every call on a list does in one step what Python says of that call,
\* whatever the capacities, the moves of memory and the loops of list.cpp do.
ListsAsPython == Py!Spec /\ [][SameCall]_listVars

Whole(x) == <<Floor(x), 1>>
PyDiv(x, y, isInt) == IF isInt THEN Whole(FDiv(x, y)) ELSE FDiv(x, y)
PyMod(x, y) == FSub(x, FMul(y, Whole(FDiv(x, y))))
\* Bit i of a number, in two's complement of any length.
PyBit(n, i) == (n \div 2^i) % 2
PyAnd(m, n) == CHOOSE k \in MinInt..MaxInt : \A i \in 0..IntBits : PyBit(k, i) = PyBit(m, i) * PyBit(n, i)

PyValue(name, x, y, isInt) ==
  CASE name = "__add__" -> FAdd(x, y)
    [] name = "__sub__" -> FSub(x, y)
    [] name = "__mul__" -> FMul(x, y)
    [] name = "__div__" -> PyDiv(x, y, isInt)
    [] name = "__floordiv__" -> Whole(FDiv(x, y))
    [] name = "__mod__" -> PyMod(x, y)
    [] name = "__pow__" -> FPow(x, y[1])
    [] name = "__and__" -> <<PyAnd(x[1], y[1]), 1>>
    [] name = "__lshift__" -> <<x[1] * 2^y[1], 1>>
    [] name = "__rshift__" -> <<x[1] \div 2^y[1], 1>>
Divides(name) == name \in {"__div__", "__floordiv__", "__mod__"}
PyBinop(name, b, c) ==
  LET isInt == b.cls = "int" /\ c.cls = "int"
  IN CASE name \in Comparisons -> Compared(name, b.v, c.v)
       [] Divides(name) /\ c.v[1] = 0 -> Error("ZeroDivisionError")
       [] OTHER -> Boxed(IF isInt THEN "int" ELSE "float", PyValue(name, b.v, c.v, isInt))

Fits(x) == x[1] \in MinInt..MaxInt
\* The exact result, or the dividend that div_i64_i64 adjusts, needs more bits.
Overflows(name, m, n) ==
  CASE name = "__div__" -> n # 0 /\ (m - n + 1 < MinInt \/ m - n - 1 > MaxInt \/ (m = MinInt /\ n = -1))
    [] name = "__mod__" -> m = MinInt /\ n = -1
    [] name \in {"__lshift__", "__rshift__"} ->
         n \notin 0..IntBits - 1 \/ ~ Fits(PyValue(name, <<m, 1>>, <<n, 1>>, TRUE))
    [] name = "__pow__" -> n < 0 \/ ~ Fits(PyValue(name, <<m, 1>>, <<n, 1>>, TRUE))
    [] name \in Comparisons -> FALSE
    [] OTHER -> ~ Fits(PyValue(name, <<m, 1>>, <<n, 1>>, TRUE))

\* What the types lack: a bool is not a number, an int has no //, and only
\* the four mixed methods and the comparisons take an int and a float.
Lacks(name, b, c) ==
  \/ "bool" \in {b.cls, c.cls}
  \/ name = "__floordiv__" /\ "int" \in {b.cls, c.cls}
  \/ name \in {"__and__", "__lshift__", "__rshift__"} /\ "float" \in {b.cls, c.cls}
  \/ name = "__pow__" /\ b.cls = "int" /\ c.cls = "float"

\* An int compared with a float of the same value: the float's negated method
\* is called with the operands exchanged, and is wrong where they are equal.
NegationDiffers(name, b, c) == name \in Comparisons \ {"__eq__", "__ne__"} /\ b.cls = "int" /\ c.cls = "float" /\ b.v = c.v

\* int() of a number is the nearest whole number on the side of zero.
TowardsZero(x, n) == IF x[1] >= 0 THEN n = Floor(x) ELSE n = -Floor(<<-x[1], x[2]>>)
UnaryRight(name, b) ==
  LET r == call[3][2]
  IN CASE name = "__neg__" -> r.v = <<-b.v[1], b.v[2]>> \/ (b.cls = "int" /\ b.v[1] = MinInt)
       [] name = "__invert__" -> \A i \in 0..IntBits : PyBit(r.v[1], i) # PyBit(b.v[1], i)
       [] name = "__pos__" -> r.v = b.v
       [] name \in {"__nonzero__", "bool"} -> r = boxBool(b.v # <<0, 1>>)
       [] name = "int" -> IF b.cls = "bool" THEN call[3] = Raises("TypeError") ELSE TowardsZero(b.v, r.v[1])

\* An operator on numbers gives Python's answer, the error for a zero divisor
\* included, unless the answer does not fit in an i64; what is not supported
\* raises a TypeError and never computes something else (int.cpp, float.cpp).
ArithmeticAsPython ==
  /\ call # None /\ Fn \in UnaryNames \cup {"int", "bool"} => UnaryRight(Fn, Args[1])
  /\ call # None /\ Fn \in Operators =>
       LET b == Args[1] c == Args[2]
       IN CASE Lacks(Fn, b, c) ->
                 \/ call[3] = Raises("TypeError")
                 \/ Fn = "__div__" /\ c.v[1] = 0 /\ call[3] = Raises("ZeroDivisionError")
            [] b.cls = "int" /\ c.cls = "int" ->
                 Overflows(Fn, b.v[1], c.v[1]) \/ call[3] = Answer(PyBinop(Fn, b, c))
            [] OTHER -> NegationDiffers(Fn, b, c) \/ call[3] = Answer(PyBinop(Fn, b, c))

\* t < u, element by element, the shorter one first if it is a prefix.
LexLess(t, u) ==
  \E n \in 0..Min2(Len(t), Len(u)) :
    /\ \A i \in 1..n : t[i].v = u[i].v
    /\ \/ n = Len(t) /\ n < Len(u)
       \/ n < Min2(Len(t), Len(u)) /\ FLess(t[n + 1].v, u[n + 1].v)
PyCompare(name, t, u) ==
  CASE name = "__lt__" -> LexLess(t, u)
    [] name = "__le__" -> ~ LexLess(u, t)
    [] name = "__gt__" -> LexLess(u, t)
    [] name = "__ge__" -> ~ LexLess(t, u)
    [] name = "__eq__" -> ~ LexLess(t, u) /\ ~ LexLess(u, t)
    [] name = "__ne__" -> LexLess(t, u) \/ LexLess(u, t)
PyItem(s, n) == IF Py!InRange(n, Len(s)) THEN Value(<<s[Py!Index(n, Len(s))]>>) ELSE Raises("IndexError")

\* A loop over an xrange takes every value from start on that is below stop.
RangeRight ==
  range # None =>
    /\ range.last # None =>
         /\ range.last[2] \in range.args.start..range.args.stop - 1
         /\ range.cur = range.last[2] + range.args.step
    /\ range.done => range.cur >= range.args.stop

\* Slices of strings, whose characters _strSlice collects in a loop, are
\* Python's, where its assertions allow the slice; tuples are ordered as
\* Python orders them, with elements of different numeric types among them;
\* an xrange gives its values in order.
SequencesAsPython ==
  /\ RangeRight
  /\ call # None =>
       LET s == Args[1] t == Args[2]
       IN /\ Fn = "strGetitem" => call[3] = PyItem(s, t)
          /\ Fn = "strSlice" =>
               CASE Py!Step(t) = 0 -> call[3] = Raises("ValueError")
                 [] OTHER -> call[3] = Value(Py!Sliced(s, t)) \/ (call[3] = Aborts /\ Py!Sliced(s, t) = <<>>)
          /\ Fn = "strMul" => call[3] = IF t < 0 THEN Aborts ELSE Value(Py!Repeated(s, t))
          /\ Fn = "strJoin" => call[3] = Value(t[1] \o s \o t[2])
          /\ Fn = "tupleCmp" => call[3] = Value(PyCompare(Args[3], s, t))

\* A call that loops over its list returns, and a loop over an xrange ends.
LoopsEnd == /\ work # None ~> work = None
            /\ range # None ~> range = None

-----------------------------------------------------------------------------
\* Arguments for model checking.
MCIndices == {-4, -1, 0, 1, 2, 3}

Option(S) == {None} \cup {<<"int", n>> : n \in S}
MCSliceArgs == [start : Option({-1, 1, 3}), stop : Option({-4, 2}), step : Option({-1, 0, 2})]
MCStringSlices == [start : Option({-4, -1, 0, 1, 3}), stop : Option({-4, -1, 0, 2, 4}), step : Option({-2, -1, 0, 1, 2})]

\* Every int, halves and whole floats, and the bools.
MCBoxes ==
  {boxInt(n) : n \in MinInt..MaxInt} \cup {boxFloat(Fraction(n, 2)) : n \in {-5, -4, -1, 0, 1, 2, 3}}
  \cup {boxBool(TRUE), boxBool(FALSE)}
MCOperators == Comparisons \cup
  {"__add__", "__sub__", "__mul__", "__div__", "__floordiv__", "__mod__", "__pow__", "__and__", "__lshift__", "__rshift__"}
MCStrings == {<<>>, <<"x">>, <<"x", "y">>, <<"x", "y", "z">>}
Numbers2 == {boxInt(1), boxInt(2), boxFloat(<<1, 1>>), boxFloat(<<3, 2>>)}
MCTuples == {<<>>} \cup {<<x>> : x \in Numbers2} \cup {<<x, y>> : x, y \in Numbers2}
\* Bound: the last value plus the step is an i64.
MCRangeArgs == {r \in [start : -3..3, stop : -3..3, step : {-1, 0, 1, 2, 3}] : r.stop + r.step <= MaxInt}
=============================================================================
