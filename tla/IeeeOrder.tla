------------------------------ MODULE IeeeOrder ------------------------------
(***************************************************************************)
(* What IEEE 754 and the instruction set say of the bit patterns of one    *)
(* binary format: which are infinities and NaNs, the order of the rest,    *)
(* and what comparisons, minimum, maximum, sign injection and              *)
(* classification return, as [z, flags].  Nothing here is translated from  *)
(* the code.                                                               *)
(***************************************************************************)
EXTENDS Integers

CONSTANTS E, F   \* exponent and fraction bits of the format

Sign == 2^(E + F)
Infinity == (2^E - 1) * 2^F

Mag(ui) == ui % Sign
Neg(ui) == ui >= Sign
IsNaN(ui) == Mag(ui) > Infinity
IsInf(ui) == Mag(ui) = Infinity
IsZero(ui) == Mag(ui) = 0
IsSignaling(ui) == IsNaN(ui) /\ Mag(ui) - Infinity < 2^(F - 1)

Signed(s, mag) == IF s = 1 THEN mag + Sign ELSE mag
Result(ui, flags) == [z |-> ui, flags |-> flags]

\* Patterns of one sign are ordered as their values.
Ord(ui) == IF Neg(ui) THEN -Mag(ui) ELSE Mag(ui)

\* The class of a value, numbered from minus infinity.
Class(ui) ==
  LET k == IF IsInf(ui) THEN 0 ELSE IF Mag(ui) >= 2^F THEN 1
           ELSE IF Mag(ui) > 0 THEN 2 ELSE 3
  IN IF IsNaN(ui) THEN IF IsSignaling(ui) THEN 8 ELSE 9
     ELSE IF Neg(ui) THEN k ELSE 7 - k

Unordered(a, b) == IsNaN(a) \/ IsNaN(b)

\* A relation, false of a NaN; invalid for any NaN or for a signaling one.
Relation(a, b, holds, signaling) ==
  Result(~Unordered(a, b) /\ holds,
         IF (signaling /\ Unordered(a, b)) \/ IsSignaling(a) \/ IsSignaling(b)
         THEN {"invalid"} ELSE {})

\* Of two numbers the smaller, or the larger; of a number and a NaN the
\* number.  The flag is the code's: a signaling NaN is noticed in rs1, when
\* rs2 is a number.
Extreme(a, b, takeA) ==
  Result(IF IsNaN(b) \/ (~IsNaN(a) /\ takeA) THEN a ELSE b,
         IF IsSignaling(a) /\ ~IsNaN(b) THEN {"invalid"} ELSE {})

\* The magnitude of a with a sign of its own.
Injected(s, a) == Result(Signed(s, Mag(a)), {})
SignOf(ui) == IF Neg(ui) THEN 1 ELSE 0

\* What the instruction op, with the operands x, returns.
Ordered(op, x) ==
  CASE op = "feq" -> Relation(x[1], x[2], Ord(x[1]) = Ord(x[2]), FALSE)
    [] op = "flt" -> Relation(x[1], x[2], Ord(x[1]) < Ord(x[2]), TRUE)
    [] op = "fle" -> Relation(x[1], x[2], Ord(x[1]) <= Ord(x[2]), TRUE)
    [] op = "fmin" -> Extreme(x[1], x[2], Ord(x[1]) < Ord(x[2]))
    [] op = "fmax" -> Extreme(x[1], x[2], Ord(x[1]) >= Ord(x[2]))
    [] op = "fsgnj" -> Injected(SignOf(x[2]), x[1])
    [] op = "fsgnjn" -> Injected(1 - SignOf(x[2]), x[1])
    [] op = "fsgnjx" -> Injected((SignOf(x[1]) + SignOf(x[2])) % 2, x[1])
    [] op = "fclass" -> Result({Class(x[1])}, {})
==============================================================================
