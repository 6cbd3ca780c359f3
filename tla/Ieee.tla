--------------------------------- MODULE Ieee ---------------------------------
(***************************************************************************)
(* The reference for the arithmetic of one binary format: IEEE 754 read as *)
(* arithmetic on exact numbers [s, m, q], rounded once at the end.         *)
(* Nothing here is translated from the code.  Numbers with more bits than  *)
(* a TLC integer has are cut off well below the last place any rounding    *)
(* looks at, their last bit set when something was lost.                   *)
(***************************************************************************)
EXTENDS SequencesExt, IeeeNumber

-------------------------------------------------------------------------------
(* Exact operations, to 24 bits and a last bit that remembers the rest.    *)

Sticky(m, lost) == IF lost /\ m % 2 = 0 THEN m + 1 ELSE m

\* x + y, m = 0 when they cancel.
StickySum(x, y) ==
  LET swap == x.m = 0 \/ (y.m # 0 /\ BitLength(y.m) + y.q > BitLength(x.m) + x.q)
      hi == IF swap THEN y ELSE x
      lo == IF swap THEN x ELSE y
      q == hi.q - (24 - BitLength(hi.m))
      h == hi.m * 2^(24 - BitLength(hi.m))
      d == q - lo.q
      l == IF d <= 0 THEN lo.m * 2^(-d)
           ELSE IF d > 24 THEN 1
           ELSE Sticky(lo.m \div 2^d, lo.m % 2^d # 0)
  IN IF lo.m = 0 THEN hi
     ELSE IF x.s = y.s THEN [s |-> x.s, m |-> h + l, q |-> q]
     ELSE [s |-> IF h >= l THEN hi.s ELSE lo.s,
           m |-> IF h >= l THEN h - l ELSE l - h, q |-> q]

IntegerRoot(n) ==
  FoldLeft(LAMBDA r, b : IF (r + 2^b) * (r + 2^b) <= n THEN r + 2^b ELSE r,
           0, [i \in 1..15 |-> 15 - i])

ExactRoot(x) ==
  LET n == x.m * 2^(20 + (x.q % 2))
      r == IntegerRoot(n)
  IN [s |-> 0, m |-> 2 * r + (IF r * r = n THEN 0 ELSE 1),
      q |-> ((x.q - (x.q % 2)) \div 2) - 11]

-------------------------------------------------------------------------------
(* The operations of the standard.                                         *)

Add(mode, a, b) == Added(mode, a, b, StickySum(Num(a), Num(b)))

Negated(ui) == IF Neg(ui) THEN ui - Sign ELSE ui + Sign

Fma(mode, a, b, c) ==
  Fused(mode, a, b, c, StickySum(ExactProduct(Num(a), Num(b)), Num(c)))

Sqrt(mode, a) ==
  IF IsNaN(a) THEN QuietNaN({a})
  ELSE IF IsZero(a) THEN Result(a, {})
  ELSE IF Neg(a) THEN InvalidOp
  ELSE IF IsInf(a) THEN Result(a, {})
  ELSE Round(mode, ExactRoot(Num(a)))

\* The remainder: a - b * n for the integer n nearest to a / b, an even one
\* at a tie.  Doubling modulo 2y keeps the parity of the quotient.
Rem(a, b) ==
  LET x == Num(a)
      y == Num(b)
      d == x.q - y.q
      far == d < 0 /\ -d > 16
      ym == IF d < 0 THEN y.m * 2^(-d) ELSE y.m
      low == FoldLeft(LAMBDA r, i : (2 * r) % (2 * ym), x.m % (2 * ym),
                      [i \in 1..(IF d < 0 THEN 0 ELSE d) |-> i])
      r == low % ym
      up == 2 * r > ym \/ (2 * r = ym /\ low >= ym)
      z == [s |-> IF up THEN 1 - x.s ELSE x.s, m |-> IF up THEN ym - r ELSE r,
            q |-> IF d < 0 THEN x.q ELSE y.q]
  IN IF IsNaN(a) \/ IsNaN(b) THEN QuietNaN({a, b})
     ELSE IF IsInf(a) \/ IsZero(b) THEN InvalidOp
     ELSE IF IsInf(b) \/ IsZero(a) \/ far THEN Result(a, {})
     ELSE IF z.m = 0 THEN Zero(x.s) ELSE Round("near_even", z)

\* The nearest integral value, as a float; a zero keeps the sign.
RoundToInt(mode, a) ==
  LET x == Num(a)
      r == RoundShift(mode, x.s, x.m, -x.q)
  IN IF IsNaN(a) THEN QuietNaN({a})
     ELSE IF IsInf(a) \/ IsZero(a) \/ x.q >= 0 THEN Result(a, {})
     ELSE Result(IF r.k = 0 THEN Zero(x.s).z
                 ELSE Round(mode, [s |-> x.s, m |-> r.k, q |-> 0]).z,
                 IF r.exact THEN {} ELSE {"inexact"})

\* A number rounded to an integer, if there is one in lo..hi: [z, flags].
\* Without one the result is lo or hi, as the sign says, and hi when the
\* range is unsigned.
ToInt(mode, lo, hi, ui) ==
  LET x == Num(ui)
      r == RoundShift(mode, x.s, x.m, -x.q)
      z == IF x.s = 1 THEN -r.k ELSE r.k
      none == [z |-> IF x.s = 1 /\ lo < 0 THEN lo ELSE hi, flags |-> {"invalid"}]
  IN IF IsNaN(ui) \/ IsInf(ui) \/ BitLength(x.m) + x.q > 30 THEN none
     ELSE IF z < lo \/ z > hi THEN none
     ELSE [z |-> z, flags |-> IF r.exact THEN {} ELSE {"inexact"}]
===============================================================================
