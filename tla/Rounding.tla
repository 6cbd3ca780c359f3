------------------------------ MODULE Rounding ------------------------------
(***************************************************************************)
(* How src/softfloat_dpi rounds and packs every result, in a format of E   *)
(* exponent bits, F fraction bits and G guard bits under the fraction in   *)
(* the working word of W bits: (8, 23, 7, 32) for f32, (11, 52, 10, 64)    *)
(* for f64.  A value is its bit pattern ui; a routine returns [z, flags],  *)
(* the flags it adds to softfloat_exceptionFlags.  softfloat_roundingMode  *)
(* is passed as mode.                                                      *)
(***************************************************************************)
EXTENDS Words, Pattern

CONSTANT G

W       == F + G + 2
Bias    == 2^(E - 1) - 1      \* 0x7F
Hidden  == 2^(W - 2)          \* 0x40000000: the leading one of a working word
Top     == 2^(W - 1)          \* 0x80000000 of a working word

Modes == {"near_even", "minMag", "min", "max", "near_maxMag"}

\* The fields are added, so a significand with an integer part carries into
\* the exponent.
pack(s, e, sig) == s * SignBit + e * 2^F + sig

defaultNaN == 2 * SignBit - 1

Exact(ui) == [z |-> ui, flags |-> {}]
Invalid   == [z |-> defaultNaN, flags |-> {"invalid"}]

\* Every NaN result is the default NaN; the operands decide the flag.
propagateNaN(a, b) ==
  [z |-> defaultNaN,
   flags |-> IF isSigNaN(a) \/ isSigNaN(b) THEN {"invalid"} ELSE {}]

shiftRightJam(a, c) ==
  IF W = H THEN shift32RightJam(a, c) ELSE shift64RightJam(a, c)
countLeadingZeros(a) ==
  IF W = H THEN countLeadingZeros32(a) ELSE countLeadingZeros64(a)

normSubnormalSig(sig) ==
  LET shiftCount == countLeadingZeros(sig) - (G + 1)
  IN [exp |-> 1 - shiftCount, sig |-> sig * 2^shiftCount]

\* Exponent and significand of a finite nonzero operand, the hidden bit set.
unpacked(ui) ==
  IF exp(ui) = 0 THEN normSubnormalSig(frac(ui))
  ELSE [exp |-> exp(ui), sig |-> 2^F + frac(ui)]

-----------------------------------------------------------------------------
(* Rounding *)

\* What is added under the fraction before it is cut off at n guard bits.
roundIncrement(mode, s, n) ==
  CASE mode \in {"near_even", "near_maxMag"} -> 2^(n - 1)
    [] mode = "minMag" \/ mode = (IF s = 1 THEN "max" ELSE "min") -> 0
    [] OTHER -> 2^n - 1

\* The cut; a tie under near_even also clears the last bit kept.
cut(mode, s, sig, n) ==
  LET z == (sig + roundIncrement(mode, s, n)) \div 2^n
  IN IF mode = "near_even" /\ sig % 2^n = 2^(n - 1) THEN z - (z % 2) ELSE z

\* The value s, sig * 2^e with sig's leading one at Hidden and e one less
\* than the exponent of the result.  Tininess is detected before rounding.
roundPack(mode, s, e, sig) ==
  LET increment == roundIncrement(mode, s, G)
      tiny == e < 0
      sigZ == IF tiny THEN shiftRightJam(sig, -e) ELSE sig
      expZ == IF tiny THEN 0 ELSE e
      roundBits == sigZ % 2^G
      z == cut(mode, s, sigZ, G)
  IN IF e > MaxExp - 2 \/ (e = MaxExp - 2 /\ sig + increment >= Top)
     THEN [z |-> pack(s, MaxExp, 0) - Bit(increment = 0),
           flags |-> {"overflow", "inexact"}]
     ELSE [z |-> pack(s, IF z = 0 THEN 0 ELSE expZ, z),
           flags |-> IF roundBits = 0 THEN {}
                     ELSE {"inexact"} \cup (IF tiny THEN {"underflow"} ELSE {})]

normRoundPack(mode, s, e, sig) ==
  LET shiftCount == countLeadingZeros(sig) - 1
      expZ == e - shiftCount
  IN IF G <= shiftCount /\ expZ \in 0..(MaxExp - 3)
     THEN Exact(pack(s, IF sig = 0 THEN 0 ELSE expZ, sig * 2^(shiftCount - G)))
     ELSE roundPack(mode, s, expZ, sig * 2^shiftCount)
===============================================================================
