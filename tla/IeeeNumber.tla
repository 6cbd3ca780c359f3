------------------------------ MODULE IeeeNumber ------------------------------
(***************************************************************************)
(* The patterns of one binary format as exact numbers [s, m, q], their     *)
(* sums, products and quotients, and what IEEE 754 makes of a sum and a    *)
(* fused multiply-add once the exact sum is known, of a product, of a      *)
(* quotient and of an integer.  Nothing here is translated from the code.  *)
(***************************************************************************)
EXTENDS IeeeRound

Num(ui) ==
  LET e == Mag(ui) \div 2^F
  IN [s |-> IF Neg(ui) THEN 1 ELSE 0,
      m |-> IF e = 0 THEN Mag(ui) ELSE 2^F + (ui % 2^F),
      q |-> MinExp + (IF e = 0 THEN 0 ELSE e - 1)]

NaN == 2 * Sign - 1
InvalidOp == Result(NaN, {"invalid"})
QuietNaN(operands) ==
  Result(NaN, IF \E ui \in operands : IsSignaling(ui) THEN {"invalid"} ELSE {})

Inf(s) == Result(Signed(s, Infinity), {})
Zero(s) == Result(Signed(s, 0), {})

ExactProduct(x, y) == [s |-> (x.s + y.s) % 2, m |-> x.m * y.m, q |-> x.q + y.q]

\* x.m / y.m to 2F + 4 places after the point, and a last bit that remembers
\* the rest.
ExactQuotient(x, y) ==
  LET n == x.m * 2^(2 * F + 4)
  IN [s |-> (x.s + y.s) % 2, m |-> 2 * (n \div y.m) + (IF n % y.m = 0 THEN 0 ELSE 1),
      q |-> x.q - y.q - (2 * F + 5)]

SignedNumber(s, m) == IF s = 1 THEN -m ELSE m

ExactSum(x, y) ==
  LET q == IF x.q < y.q THEN x.q ELSE y.q
      z == SignedNumber(x.s, x.m * 2^(x.q - q)) + SignedNumber(y.s, y.m * 2^(y.q - q))
  IN [s |-> IF z < 0 THEN 1 ELSE 0, m |-> IF z < 0 THEN -z ELSE z, q |-> q]

\* z, the sum of x and y, rounded.  The sign of a zero sum is that of its
\* terms or, when they differ, plus except when rounding down.
SumRounded(mode, x, y, z) ==
  IF z.m # 0 THEN Round(mode, z)
  ELSE Zero(IF x.s = y.s THEN x.s ELSE IF mode = "min" THEN 1 ELSE 0)

\* a + b; z is the sum when the two are finite.
Added(mode, a, b, z) ==
  LET x == Num(a)
      y == Num(b)
  IN CASE IsNaN(a) \/ IsNaN(b) -> QuietNaN({a, b})
       [] IsInf(a) /\ ~IsNaN(b) ->
            IF IsInf(b) /\ x.s # y.s THEN InvalidOp ELSE Inf(x.s)
       [] IsInf(b) /\ ~IsInf(a) /\ ~IsNaN(a) -> Inf(y.s)
       [] OTHER -> SumRounded(mode, x, y, z)

Mul(mode, a, b) ==
  LET p == ExactProduct(Num(a), Num(b))
  IN IF IsNaN(a) \/ IsNaN(b) THEN QuietNaN({a, b})
     ELSE IF IsInf(a) \/ IsInf(b)
     THEN IF IsZero(a) \/ IsZero(b) THEN InvalidOp ELSE Inf(p.s)
     ELSE IF p.m = 0 THEN Zero(p.s) ELSE Round(mode, p)

Div(mode, a, b) ==
  LET s == (Num(a).s + Num(b).s) % 2
  IN CASE IsNaN(a) \/ IsNaN(b) -> QuietNaN({a, b})
       [] (IsInf(a) /\ IsInf(b)) \/ (IsZero(a) /\ IsZero(b)) -> InvalidOp
       [] IsInf(a) /\ ~IsInf(b) /\ ~IsNaN(b) -> Inf(s)
       [] (IsInf(b) /\ ~IsInf(a) /\ ~IsNaN(a))
            \/ (IsZero(a) /\ ~IsZero(b) /\ ~IsNaN(b)) -> Zero(s)
       [] OTHER -> IF IsZero(b) THEN Result(Inf(s).z, {"infinity"})
                   ELSE Round(mode, ExactQuotient(Num(a), Num(b)))

\* a * b + c, rounded once; z is the sum when the three are finite.  An
\* infinity times a zero is invalid even when c is a quiet NaN.
Fused(mode, a, b, c, z) ==
  LET p == ExactProduct(Num(a), Num(b))
      infP == IsInf(a) \/ IsInf(b)
  IN CASE IsNaN(a) \/ IsNaN(b) -> QuietNaN({a, b, c})
       [] (IsInf(a) /\ IsZero(b)) \/ (IsZero(a) /\ IsInf(b)) -> InvalidOp
       [] OTHER ->
            IF IsNaN(c) THEN QuietNaN({c})
            ELSE IF infP THEN IF IsInf(c) /\ Num(c).s # p.s THEN InvalidOp
                              ELSE Inf(p.s)
            ELSE IF IsInf(c) THEN Inf(Num(c).s)
            ELSE SumRounded(mode, p, Num(c), z)

FromNumber(mode, x) == IF x.m = 0 THEN Zero(x.s) ELSE Round(mode, x)
FromInt(mode, z) ==
  FromNumber(mode, [s |-> IF z < 0 THEN 1 ELSE 0, m |-> IF z < 0 THEN -z ELSE z,
                    q |-> 0])

\* The same value, whatever the sign and the payload of a quiet NaN.
SameValue(x, y) == x = y \/ (IsNaN(x) /\ IsNaN(y) /\ ~IsSignaling(x))
===============================================================================
