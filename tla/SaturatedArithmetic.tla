------------------------- MODULE SaturatedArithmetic -------------------------
(***************************************************************************)
(* The saturated operations of common/util/util.hpp, on integers of any    *)
(* width.  A type is the record of its least and its greatest value; the   *)
(* branches for a compiler that has std::add_sat and the like are not      *)
(* modelled.  An operation gives a record [ok, value], and ok is FALSE     *)
(* where the code throws an InternalException.                             *)
(***************************************************************************)
EXTENDS Integers

CONSTANT IntTypes      \* the types of integers

Values(T) == T.lowest .. T.max
Signed(T) == T.lowest < 0

\* The integers of C++: from 0, or in two's complement.
IntType(T) ==
  /\ T = [lowest |-> T.lowest, max |-> T.max]
  /\ T.max \in Nat /\ T.lowest \in {0, -T.max - 1}

Result(x) == [ok |-> TRUE, value |-> x]
OutOfRange == [ok |-> FALSE, value |-> 0]

\* ckd_add, ckd_sub, ckd_mul: is the exact result outside the type?
Overflows(T, exact) == exact \notin Values(T)

\* What a sum or a difference of two values leaves in an unsigned type.
Wrapped(T, exact) ==
  IF exact > T.max THEN exact - T.max - 1 ELSE IF exact < 0 THEN exact + T.max + 1 ELSE exact

\* The division of C++ truncates.
Quotient(a, b) ==
  LET magnitude(x) == IF x < 0 THEN -x ELSE x
      q == magnitude(a) \div magnitude(b)
  IN  IF (a < 0) = (b < 0) THEN q ELSE -q

\* A faulty variant: the sign of the first factor decides.
MulFirstSign(T, a, b) ==
  IF Overflows(T, a * b) THEN (IF a < 0 THEN T.lowest ELSE T.max) ELSE a * b

----------------------------------------------------------------------------
\* With the bounds of the type: addition and subtraction, and the overloads
\* for unsigned integers; multiplication; division.
Add(T, a, b) ==
  IF Overflows(T, a + b) THEN (IF a < 0 THEN T.lowest ELSE T.max) ELSE a + b
AddUnsigned(T, a, b) ==
  LET res == Wrapped(T, a + b) IN IF res < a THEN T.max ELSE res
Sub(T, a, b) ==
  IF Overflows(T, a - b) THEN (IF a < 0 THEN T.lowest ELSE T.max) ELSE a - b
SubUnsigned(T, a, b) ==
  LET res == Wrapped(T, a - b) IN IF res > a THEN T.lowest ELSE res
Mul(T, a, b) ==
  IF Overflows(T, a * b)
  THEN IF ~Signed(T) THEN T.max ELSE IF (a < 0) # (b < 0) THEN T.lowest ELSE T.max
  ELSE a * b
Div(T, a, b) ==
  IF Signed(T) /\ a = T.lowest /\ b = -1 THEN T.max ELSE Quotient(a, b)

\* With bounds of the caller's: both operands have to be within them.
DefaultBounds(T, min, max) == min = T.lowest /\ max = T.max
Refused(a, b, min, max) == a < min \/ b < min \/ a > max \/ b > max
Bounded(T, a, b, min, max, res) ==
  CASE DefaultBounds(T, min, max) -> Result(res)
    [] ~DefaultBounds(T, min, max) /\ Refused(a, b, min, max) -> OutOfRange
    [] OTHER -> Result(IF res > max THEN max ELSE IF res < min THEN min ELSE res)

\* The overloads for unsigned integers look at one bound only.
BoundedAbove(T, a, b, min, max, res) ==
  CASE DefaultBounds(T, min, max) -> Result(res)
    [] ~DefaultBounds(T, min, max) /\ Refused(a, b, min, max) -> OutOfRange
    [] OTHER -> Result(IF res > max THEN max ELSE res)
BoundedBelow(T, a, b, min, max, res) ==
  CASE DefaultBounds(T, min, max) -> Result(res)
    [] ~DefaultBounds(T, min, max) /\ Refused(a, b, min, max) -> OutOfRange
    [] OTHER -> Result(IF res < min THEN min ELSE res)

SaturatedAddSigned(T, a, b, min, max) == Bounded(T, a, b, min, max, Add(T, a, b))
SaturatedAddUnsigned(T, a, b, min, max) == BoundedAbove(T, a, b, min, max, AddUnsigned(T, a, b))
SaturatedSubSigned(T, a, b, min, max) == Bounded(T, a, b, min, max, Sub(T, a, b))
SaturatedSubUnsigned(T, a, b, min, max) == BoundedBelow(T, a, b, min, max, SubUnsigned(T, a, b))
SaturatedMul(T, a, b, min, max) == Bounded(T, a, b, min, max, Mul(T, a, b))
SaturatedDiv(T, a, b, min, max) ==
  IF b = 0 THEN OutOfRange ELSE Bounded(T, a, b, min, max, Div(T, a, b))

\* The overload the compiler picks.
SaturatedAdd(T, a, b, min, max) ==
  IF Signed(T) THEN SaturatedAddSigned(T, a, b, min, max)
               ELSE SaturatedAddUnsigned(T, a, b, min, max)
SaturatedSub(T, a, b, min, max) ==
  IF Signed(T) THEN SaturatedSubSigned(T, a, b, min, max)
               ELSE SaturatedSubUnsigned(T, a, b, min, max)

\* From one type into another: digits_res < digits_from is the comparison of
\* the greatest values.  The last line converts a value that is kept, if it is
\* one of the type.
SaturatedCast(Res, From, val) ==
  LET narrows == Signed(Res) = Signed(From) /\ Res.max < From.max
      drops_sign == ~Signed(Res) /\ Signed(From)
      takes_sign == Signed(Res) /\ ~Signed(From)
  IN  IF narrows /\ val < Res.lowest THEN Res.lowest
      ELSE IF drops_sign /\ val < 0 THEN 0
      ELSE IF (narrows \/ drops_sign \/ takes_sign) /\ val > Res.max THEN Res.max
      ELSE val

----------------------------------------------------------------------------
(* What they should compute.                                               *)

\* The value between two bounds that is nearest to an exact result.
Nearest(min, max, exact) == IF exact < min THEN min ELSE IF exact > max THEN max ELSE exact

\* With bounds in which the operands lie, an operation gives the value between
\* them nearest to the exact result; with operands outside it throws.
Saturated(exact, a, b, min, max) ==
  IF a \in min .. max /\ b \in min .. max THEN Result(Nearest(min, max, exact)) ELSE OutOfRange

SaturatesAt(T, a, b, min, max) ==
  /\ SaturatedAdd(T, a, b, min, max) = Saturated(a + b, a, b, min, max)
  /\ SaturatedSub(T, a, b, min, max) = Saturated(a - b, a, b, min, max)
  /\ SaturatedMul(T, a, b, min, max) = Saturated(a * b, a, b, min, max)
  /\ SaturatedDiv(T, a, b, min, max) =
       IF b = 0 THEN OutOfRange ELSE Saturated(Quotient(a, b), a, b, min, max)

\* A type in which every operation saturates.
OperationsSaturate(T) ==
  \A a, b, min, max \in Values(T) : SaturatesAt(T, a, b, min, max)

\* Two types between which the cast gives the nearest value of the result's.
CastsSaturate(Res, From) ==
  \A val \in Values(From) : SaturatedCast(Res, From, val) = Nearest(Res.lowest, Res.max, val)

\* A type whose operations saturate, and the casts to it as well.
TypeSaturates(T) ==
  OperationsSaturate(T) /\ \A From \in IntTypes : CastsSaturate(T, From)
==============================================================================
