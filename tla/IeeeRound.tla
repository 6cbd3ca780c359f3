------------------------------ MODULE IeeeRound ------------------------------
(***************************************************************************)
(* IEEE 754's rounding of an exact number [s, m, q], that is               *)
(* (-1)^s * m * 2^q, to one binary format.  Nothing here is translated     *)
(* from the code.                                                          *)
(***************************************************************************)
EXTENDS IeeeOrder

CONSTANT Places          \* bits a number may have, at most

Bias == 2^(E - 1) - 1
MinExp == 1 - Bias - F   \* the exponent of the last place of a subnormal

\* The number of bits of m < 2^Places.
BitLength(m) ==
  IF m = 0 THEN 0 ELSE CHOOSE n \in 1..Places : 2^(n - 1) <= m /\ m \div 2 < 2^(n - 1)

\* m / 2^d as an integer by one of the five roundings: [k, exact].  Two
\* places above the leading one of m, the quotient is less than a quarter.
RoundShift(mode, s, m, d) ==
  LET c == IF d > BitLength(m) + 2 THEN BitLength(m) + 2 ELSE d
      k == m \div 2^c
      r == m % 2^c
      up == CASE mode = "near_even" -> 2 * r > 2^c \/ (2 * r = 2^c /\ k % 2 = 1)
              [] mode = "near_maxMag" -> 2 * r >= 2^c
              [] mode = "minMag" -> FALSE
              [] mode = "min" -> s = 1 /\ r > 0
              [] mode = "max" -> s = 0 /\ r > 0
  IN IF d <= 0 THEN [k |-> m * 2^(-d), exact |-> TRUE]
     ELSE [k |-> IF up THEN k + 1 ELSE k, exact |-> r = 0]

\* The nonzero number rounded to the format, as if its exponents had no upper
\* end, and to the largest finite number or infinity when that is beyond
\* (2^(F+1) - 1) * 2^(Bias-F); tiny is decided before rounding.
Round(mode, x) ==
  LET n == BitLength(x.m) + x.q
      u == IF n - (F + 1) > MinExp THEN n - (F + 1) ELSE MinExp
      z == RoundShift(mode, x.s, x.m, u - x.q)
      overflow == u > Bias - F \/ (u = Bias - F /\ z.k > 2^(F + 1) - 1)
      toInfinity == mode \in {"near_even", "near_maxMag",
                              IF x.s = 1 THEN "min" ELSE "max"}
  IN IF overflow
     THEN Result(Signed(x.s, IF toInfinity THEN Infinity ELSE Infinity - 1),
                 {"overflow", "inexact"})
     ELSE Result(Signed(x.s, (u - MinExp) * 2^F + z.k),
                 IF z.exact THEN {}
                 ELSE {"inexact"} \cup (IF n - 1 < 1 - Bias THEN {"underflow"} ELSE {}))
==============================================================================
