------------------------------- MODULE Numbers -------------------------------
(* The numeric types: int.cpp, float.cpp and bool.cpp.  A box is its class    *)
(* and its value, a fraction <<p, q>> in lowest terms; an i64 has IntBits     *)
(* bits, and wraps.  A double is exact here: rounding, signed zeros, infinity *)
(* and NaN are left out.  What a call returns is a box too, NotImplemented    *)
(* and the errors it raises included.                                         *)
EXTENDS Integers, FiniteSetsExt

CONSTANT IntBits  \* of an i64

ASSUME IntBitsAssumption == IntBits \in Nat \ {0}

MinInt == -(2^(IntBits - 1))
MaxInt == 2^(IntBits - 1) - 1
Wrap(n) == ((n - MinInt) % 2^IntBits) + MinInt

Abs(n) == IF n < 0 THEN -n ELSE n
Divisors(n) == {d \in 1..n : n % d = 0}
Gcd(m, n) == IF m = 0 THEN n ELSE Max(Divisors(m) \cap Divisors(n))

\* p / q, for q # 0.
Fraction(p, q) ==
  LET g == Gcd(Abs(p), Abs(q)) IN IF q < 0 THEN <<(-p) \div g, (-q) \div g>> ELSE <<p \div g, q \div g>>

Boxed(cls, n) == [cls |-> cls, v |-> n]
boxInt(n) == Boxed("int", <<n, 1>>)
boxFloat(x) == Boxed("float", x)
boxBool(b) == Boxed("bool", <<IF b THEN 1 ELSE 0, 1>>)
NotImplemented == Boxed("NotImplemented", <<0, 1>>)
Error(e) == Boxed(e, <<0, 1>>)
IsError(b) == b.cls \in {"TypeError", "ZeroDivisionError", "trap", "abort"}

-----------------------------------------------------------------------------
(* Machine arithmetic.  Division by zero raises before the instruction; the   *)
(* one quotient that does not fit traps.                                      *)

CDiv(m, n) == IF (m < 0) = (n < 0) THEN Abs(m) \div Abs(n) ELSE -(Abs(m) \div Abs(n))
CMod(m, n) == m - n * CDiv(m, n)
Quotient(m, n) == IF CDiv(m, n) > MaxInt THEN Error("trap") ELSE boxInt(CDiv(m, n))

add_i64_i64(lhs, rhs) == Wrap(lhs + rhs)
sub_i64_i64(lhs, rhs) == Wrap(lhs - rhs)
mul_i64_i64(lhs, rhs) == Wrap(lhs * rhs)

\* Without the adjustments for operands of different signs.
DivTruncates(lhs, rhs) == IF rhs = 0 THEN Error("ZeroDivisionError") ELSE Quotient(lhs, rhs)
div_i64_i64(lhs, rhs) ==
  IF rhs = 0 THEN Error("ZeroDivisionError")
  ELSE IF lhs < 0 /\ rhs > 0 THEN Quotient(Wrap(lhs - rhs + 1), rhs)
  ELSE IF lhs > 0 /\ rhs < 0 THEN Quotient(Wrap(lhs - rhs - 1), rhs)
  ELSE Quotient(lhs, rhs)

mod_i64_i64(lhs, rhs) ==
  IF rhs = 0 THEN Error("ZeroDivisionError")
  ELSE IF lhs < 0 /\ rhs > 0 THEN boxInt(Wrap(CMod(lhs + 1, rhs) + (rhs - 1)))
  ELSE IF lhs > 0 /\ rhs < 0 THEN boxInt(Wrap(CMod(lhs - 1, rhs) + (rhs + 1)))
  ELSE IF lhs = MinInt /\ rhs = -1 THEN Error("trap")
  ELSE boxInt(CMod(lhs, rhs))

\* The loop of pow_i64_i64, which squares and halves.
pow_i64_i64(lhs, rhs) ==
  LET turn[r \in 0..MaxInt] ==  \* what the bits of r contribute, for each power of lhs
        [curpow \in MinInt..MaxInt |->
          IF r = 0 THEN 1
          ELSE Wrap((IF r % 2 = 1 THEN curpow ELSE 1) * turn[r \div 2][Wrap(curpow * curpow)])]
  IN IF rhs < 0 THEN Error("abort") ELSE boxInt(turn[rhs][lhs])

\* n << k and n >> k as the processor shifts: it looks at the low bits of k only.
ShiftBy(k) == k % IntBits
LShift(n, k) == Wrap(n * 2^ShiftBy(k))
RShift(n, k) == n \div 2^ShiftBy(k)

Bit(n, i) == ((n - MinInt * 2) \div 2^i) % 2
And(m, n) == Wrap(SumSet({IF Bit(m, i) = 1 /\ Bit(n, i) = 1 THEN 2^i ELSE 0 : i \in 0..IntBits - 1}))

-----------------------------------------------------------------------------
(* Fractions. *)

FAdd(x, y) == Fraction(x[1] * y[2] + y[1] * x[2], x[2] * y[2])
FSub(x, y) == FAdd(x, <<-y[1], y[2]>>)
FMul(x, y) == Fraction(x[1] * y[1], x[2] * y[2])
FDiv(x, y) == Fraction(x[1] * y[2], x[2] * y[1])
FLess(x, y) == x[1] * y[2] < y[1] * x[2]
Truncated(x) == IF x[1] < 0 THEN -((-x[1]) \div x[2]) ELSE x[1] \div x[2]
Floor(x) == x[1] \div x[2]
FMod(x, y) == FSub(x, FMul(y, <<Truncated(FDiv(x, y)), 1>>))  \* fmod

mod_float_float(lhs, rhs) ==
  LET r == FMod(lhs, rhs) IN IF r[1] # 0 /\ (r[1] < 0) # (rhs[1] < 0) THEN FAdd(r, rhs) ELSE r

div_float_float(lhs, rhs) == IF rhs[1] = 0 THEN Error("ZeroDivisionError") ELSE boxFloat(FDiv(lhs, rhs))

\* pow of libm, for a whole exponent.
FPow(x, n) ==
  LET power == IF n = 0 THEN <<1, 1>> ELSE <<x[1]^Abs(n), x[2]^Abs(n)>>
  IN IF n < 0 THEN Fraction(power[2], power[1]) ELSE power

-----------------------------------------------------------------------------
(* The methods.  The versions that _addFunc registers for known classes       *)
(* (intAddInt, intAddFloat, floatAddFloat ...) do what the general one does.  *)

Comparisons == {"__eq__", "__ne__", "__lt__", "__le__", "__gt__", "__ge__"}
Compared(name, x, y) ==
  boxBool(CASE name = "__eq__" -> x = y
            [] name = "__ne__" -> x # y
            [] name = "__lt__" -> FLess(x, y)
            [] name = "__le__" -> ~ FLess(y, x)
            [] name = "__gt__" -> FLess(y, x)
            [] name = "__ge__" -> ~ FLess(x, y))

\* An int method that knows ints and floats, and one that knows ints only.
IntOrFloat(lhs, rhs, withInt(_, _), withFloat(_, _)) ==
  CASE rhs.cls = "int" -> withInt(lhs.v[1], rhs.v[1])
    [] rhs.cls = "float" -> withFloat(lhs.v, rhs.v)
    [] OTHER -> NotImplemented
IntOnly(lhs, rhs, withInt(_, _)) == IF rhs.cls = "int" THEN withInt(lhs.v[1], rhs.v[1]) ELSE NotImplemented

intAdd(lhs, rhs) == IntOrFloat(lhs, rhs, LAMBDA m, n : boxInt(add_i64_i64(m, n)), LAMBDA x, y : boxFloat(FAdd(x, y)))
intSub(lhs, rhs) == IntOrFloat(lhs, rhs, LAMBDA m, n : boxInt(sub_i64_i64(m, n)), LAMBDA x, y : boxFloat(FSub(x, y)))
intMul(lhs, rhs) == IntOrFloat(lhs, rhs, LAMBDA m, n : boxInt(mul_i64_i64(m, n)), LAMBDA x, y : boxFloat(FMul(x, y)))
intDiv(lhs, rhs) == IntOrFloat(lhs, rhs, div_i64_i64, div_float_float)
intAnd(lhs, rhs) == IntOnly(lhs, rhs, LAMBDA m, n : boxInt(And(m, n)))
intLShift(lhs, rhs) == IntOnly(lhs, rhs, LAMBDA m, n : boxInt(LShift(m, n)))
intRShift(lhs, rhs) == IntOnly(lhs, rhs, LAMBDA m, n : boxInt(RShift(m, n)))
intMod(lhs, rhs) == IntOnly(lhs, rhs, mod_i64_i64)
intPow(lhs, rhs) == IntOnly(lhs, rhs, pow_i64_i64)
intCompare(name, lhs, rhs) == IF rhs.cls = "int" THEN Compared(name, lhs.v, rhs.v) ELSE NotImplemented

\* A float method takes an int for the float it converts to.
FloatOf(rhs, with(_)) == IF rhs.cls \in {"int", "float"} THEN with(rhs.v) ELSE NotImplemented
floatAdd(lhs, rhs) == FloatOf(rhs, LAMBDA y : boxFloat(FAdd(lhs.v, y)))
floatSub(lhs, rhs) == FloatOf(rhs, LAMBDA y : boxFloat(FSub(lhs.v, y)))
floatRSub(lhs, rhs) == FloatOf(rhs, LAMBDA y : boxFloat(FSub(y, lhs.v)))
floatMul(lhs, rhs) == FloatOf(rhs, LAMBDA y : boxFloat(FMul(lhs.v, y)))
floatDiv(lhs, rhs) == FloatOf(rhs, LAMBDA y : div_float_float(lhs.v, y))
\* It looks at the divisor first, whatever the dividend is.
floatRDiv(lhs, rhs) ==
  IF lhs.v[1] = 0 THEN Error("ZeroDivisionError") ELSE FloatOf(rhs, LAMBDA y : div_float_float(y, lhs.v))
Modulo(x, y) == IF y[1] = 0 THEN Error("ZeroDivisionError") ELSE boxFloat(mod_float_float(x, y))
floatMod(lhs, rhs) == FloatOf(rhs, LAMBDA y : Modulo(lhs.v, y))
floatRMod(lhs, rhs) == FloatOf(rhs, LAMBDA y : Modulo(y, lhs.v))
floatPow(lhs, rhs) == FloatOf(rhs, LAMBDA y : boxFloat(FPow(lhs.v, y[1])))
floatFloorDiv(lhs, rhs) ==
  CASE rhs.cls # "float" -> NotImplemented
    [] rhs.v[1] = 0 -> Error("ZeroDivisionError")
    [] OTHER -> boxFloat(<<Floor(FDiv(lhs.v, rhs.v)), 1>>)
floatEq(lhs, rhs) == FloatOf(rhs, LAMBDA y : Compared("__eq__", lhs.v, y))
floatCompare(name, lhs, rhs) == FloatOf(rhs, LAMBDA y : Compared(name, lhs.v, y))

NoMethod == Error("no method")
CallInt(name, lhs, rhs) ==
  CASE name = "__add__" -> intAdd(lhs, rhs)
    [] name = "__sub__" -> intSub(lhs, rhs)
    [] name = "__mul__" -> intMul(lhs, rhs)
    [] name = "__div__" -> intDiv(lhs, rhs)
    [] name = "__and__" -> intAnd(lhs, rhs)
    [] name = "__lshift__" -> intLShift(lhs, rhs)
    [] name = "__rshift__" -> intRShift(lhs, rhs)
    [] name = "__mod__" -> intMod(lhs, rhs)
    [] name = "__pow__" -> intPow(lhs, rhs)
    [] name \in Comparisons -> intCompare(name, lhs, rhs)
    [] OTHER -> NoMethod
CallFloat(name, lhs, rhs) ==
  CASE name \in {"__add__", "__radd__"} -> floatAdd(lhs, rhs)
    [] name \in {"__mul__", "__rmul__"} -> floatMul(lhs, rhs)
    [] name = "__sub__" -> floatSub(lhs, rhs)
    [] name = "__rsub__" -> floatRSub(lhs, rhs)
    [] name = "__div__" -> floatDiv(lhs, rhs)
    [] name = "__rdiv__" -> floatRDiv(lhs, rhs)
    [] name = "__floordiv__" -> floatFloorDiv(lhs, rhs)
    [] name = "__mod__" -> floatMod(lhs, rhs)
    [] name = "__rmod__" -> floatRMod(lhs, rhs)
    [] name = "__pow__" -> floatPow(lhs, rhs)
    [] name = "__eq__" -> floatEq(lhs, rhs)
    [] name \in Comparisons \ {"__eq__"} -> floatCompare(name, lhs, rhs)
    [] OTHER -> NoMethod
\* A bool has none of these methods, and is not an int.
CallMethod(name, lhs, rhs) ==
  CASE lhs.cls = "int" -> CallInt(name, lhs, rhs)
    [] lhs.cls = "float" -> CallFloat(name, lhs, rhs)
    [] OTHER -> NoMethod

\* The methods of one operand.
intUnary(name, n) ==
  CASE name = "__neg__" -> boxInt(Wrap(-n))
    [] name = "__pos__" -> boxInt(n)
    [] name = "__invert__" -> boxInt(-n - 1)
    [] name = "__nonzero__" -> boxBool(n # 0)
floatUnary(name, x) ==
  CASE name = "__neg__" -> boxFloat(<<-x[1], x[2]>>)
    [] name = "__nonzero__" -> boxBool(x[1] # 0)
    [] OTHER -> NoMethod
boolUnary(name, isTrue) ==
  CASE name = "__neg__" -> boxInt(IF isTrue THEN -1 ELSE 0)
    [] name = "__pos__" -> boxInt(IF isTrue THEN 1 ELSE 0)
    [] name = "__invert__" -> boxInt(IF isTrue THEN -2 ELSE -1)
    [] name = "__nonzero__" -> boxBool(isTrue)
Unary(name, b) ==
  CASE b.cls = "int" -> intUnary(name, b.v[1])
    [] b.cls = "float" -> floatUnary(name, b.v)
    [] b.cls = "bool" -> boolUnary(name, b.v[1] = 1)

\* intNew2, boolNew2; an i64 cannot hold every double.
\* int() of a number; that of a string is not modelled.
intNewOther(b) == IF b.cls = "float" THEN boxInt(Truncated(b.v)) ELSE Error("TypeError")
intNew(b) == IF b.cls = "int" THEN b ELSE intNewOther(b)
boolNew(b) == Unary("__nonzero__", b)

-----------------------------------------------------------------------------
(* binop and compareInternal over these methods: the method of lhs, then the  *)
(* reflected one of rhs.                                                      *)

ReverseNames ==
  [name \in {"__add__", "__sub__", "__mul__", "__div__", "__mod__", "__pow__", "__floordiv__",
             "__and__", "__lshift__", "__rshift__"} |->
    CASE name = "__add__" -> "__radd__" [] name = "__sub__" -> "__rsub__"
      [] name = "__mul__" -> "__rmul__" [] name = "__div__" -> "__rdiv__"
      [] name = "__mod__" -> "__rmod__" [] OTHER -> "none"]
NegatedNames ==
  [name \in Comparisons |->
    CASE name = "__lt__" -> "__ge__" [] name = "__le__" -> "__gt__" [] name = "__gt__" -> "__le__"
      [] name = "__ge__" -> "__lt__" [] OTHER -> name]
getReverseOpName(name) == IF name \in Comparisons THEN NegatedNames[name] ELSE ReverseNames[name]

Answered(b) == b \notin {NotImplemented, NoMethod}
binop(name, lhs, rhs) ==
  LET l == CallMethod(name, lhs, rhs)
      r == CallMethod(getReverseOpName(name), rhs, lhs)
  IN CASE Answered(l) -> l
       [] Answered(r) -> r
       [] OTHER -> Error("TypeError")
=============================================================================
