------------------------------- MODULE Pattern -------------------------------
(***************************************************************************)
(* A floating-point number as src/softfloat_dpi sees it: a bit pattern ui  *)
(* of a format of E exponent bits and F fraction bits, its fields, and the *)
(* comparisons and the classification of patterns.  "map" names the f32    *)
(* file of each definition.                                                *)
(***************************************************************************)
EXTENDS Integers

CONSTANTS E, F

MaxExp == 2^E - 1            \* 0xFF: infinities and NaNs
SignBit == 2^(E + F)          \* 0x80000000 of a pattern

sign(ui) == ui \div SignBit
exp(ui)  == (ui \div 2^F) % 2^E
frac(ui) == ui % 2^F

isNaN(ui) == exp(ui) = MaxExp /\ frac(ui) # 0
isInf(ui) == exp(ui) = MaxExp /\ frac(ui) = 0
isZero(ui) == ui % SignBit = 0
isSigNaN(ui) == isNaN(ui) /\ frac(ui) < 2^(F - 1)

-----------------------------------------------------------------------------
(* Comparisons: [z, flags] *)

eitherNaN(a, b) == isNaN(a) \/ isNaN(b)
quietFlags(a, b) == IF isSigNaN(a) \/ isSigNaN(b) THEN {"invalid"} ELSE {}
signalingFlags(a, b) == IF eitherNaN(a, b) THEN {"invalid"} ELSE {}

\* ! ( ( uiA | uiB ) << 1 ): both are zeros, of any sign.
bothZero(a, b) == isZero(a) /\ isZero(b)

(* Fault: minus zero is less than plus zero. *)
orderedLtBySign(a, b) ==
  IF sign(a) # sign(b) THEN sign(a) = 1 ELSE a # b /\ ((sign(a) = 1) # (a < b))

orderedLe(a, b) ==
  IF sign(a) # sign(b) THEN sign(a) = 1 \/ bothZero(a, b)
  ELSE a = b \/ ((sign(a) = 1) # (a < b))
orderedLt(a, b) ==
  IF sign(a) # sign(b) THEN sign(a) = 1 /\ ~bothZero(a, b)
  ELSE a # b /\ ((sign(a) = 1) # (a < b))

eq(a, b) == [z |-> ~eitherNaN(a, b) /\ (a = b \/ bothZero(a, b)),
             flags |-> quietFlags(a, b)]
eq_signaling(a, b) == [z |-> ~eitherNaN(a, b) /\ (a = b \/ bothZero(a, b)),
                       flags |-> signalingFlags(a, b)]
le(a, b) == [z |-> ~eitherNaN(a, b) /\ orderedLe(a, b),
             flags |-> signalingFlags(a, b)]
le_quiet(a, b) == [z |-> ~eitherNaN(a, b) /\ orderedLe(a, b),
                   flags |-> quietFlags(a, b)]
lt(a, b) == [z |-> ~eitherNaN(a, b) /\ orderedLt(a, b),
             flags |-> signalingFlags(a, b)]
lt_quiet(a, b) == [z |-> ~eitherNaN(a, b) /\ orderedLt(a, b),
                   flags |-> quietFlags(a, b)]

\* The positions of the bits set in the class mask.
classify(ui) ==
  LET subnormalOrZero == exp(ui) = 0
      infOrNaN == exp(ui) = MaxExp
      s == sign(ui) = 1
  IN {n \in 0..9 :
        CASE n = 0 -> s /\ isInf(ui)
          [] n = 1 -> s /\ ~infOrNaN /\ ~subnormalOrZero
          [] n = 2 -> s /\ subnormalOrZero /\ frac(ui) # 0
          [] n = 3 -> s /\ subnormalOrZero /\ frac(ui) = 0
          [] n = 4 -> ~s /\ subnormalOrZero /\ frac(ui) = 0
          [] n = 5 -> ~s /\ subnormalOrZero /\ frac(ui) # 0
          [] n = 6 -> ~s /\ ~infOrNaN /\ ~subnormalOrZero
          [] n = 7 -> ~s /\ isInf(ui)
          [] n = 8 -> isNaN(ui) /\ isSigNaN(ui)
          [] n = 9 -> isNaN(ui) /\ ~isSigNaN(ui)}
=============================================================================
