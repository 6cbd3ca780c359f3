------------------------------ MODULE SoftFloat ------------------------------
(***************************************************************************)
(* The routines of src/softfloat_dpi that the single- and double-precision *)
(* files share but for their constants.  "map" names the f32 file of each  *)
(* definition; module Float64 names the f64 files.                         *)
(***************************************************************************)
EXTENDS MulAdd

CONSTANT P    \* fraction bits of what is rounded to a 32-bit integer (7)

-----------------------------------------------------------------------------
(* Addition and subtraction of magnitudes *)

(* Fault: what the shift loses is forgotten. *)
alignedLossy(ui, g, distance) ==
  (IF exp(ui) = 0 THEN 2 * frac(ui) * 2^g ELSE 2^(F + g) + frac(ui) * 2^g)
    \div 2^(IF distance < 24 THEN distance ELSE 24)

\* The smaller operand's significand at g guard bits, its hidden bit at
\* 2^(F + g), moved down to the larger one's exponent.
aligned(ui, g, distance) ==
  shiftRightJam(IF exp(ui) = 0 THEN 2 * frac(ui) * 2^g
                ELSE 2^(F + g) + frac(ui) * 2^g, distance)

addMags(mode, a, b, signZ) ==
  LET expDiff == exp(a) - exp(b)
      big == IF expDiff < 0 THEN b ELSE a
      small == IF expDiff < 0 THEN a ELSE b
      distance == exp(big) - exp(small)
      sigZ == 2^(F + G - 1) + frac(big) * 2^(G - 1)
                + aligned(small, G - 1, distance)
  IN CASE isNaN(big) \/ isNaN(small) -> propagateNaN(a, b)
       [] exp(big) = MaxExp /\ ~isNaN(big) /\ ~isNaN(small) ->
            Exact(IF expDiff < 0 THEN pack(signZ, MaxExp, 0) ELSE a)
       [] expDiff = 0 /\ exp(a) = 0 -> Exact(pack(signZ, 0, (a + b) % SignBit))
       [] expDiff = 0 /\ exp(a) \notin {0, MaxExp} ->
            roundPack(mode, signZ, exp(a),
                      Hidden + (frac(a) + frac(b)) * 2^(G - 1))
       [] OTHER ->
            IF sigZ < Hidden THEN roundPack(mode, signZ, exp(big) - 1, 2 * sigZ)
            ELSE roundPack(mode, signZ, exp(big), sigZ)

subMags(mode, a, b, signZ) ==
  LET expDiff == exp(a) - exp(b)
      bBigger == expDiff < 0 \/ (expDiff = 0 /\ frac(a) < frac(b))
      big == IF bBigger THEN b ELSE a
      small == IF bBigger THEN a ELSE b
      s == IF bBigger THEN 1 - signZ ELSE signZ
      sigZ == IF expDiff = 0 THEN (frac(big) - frac(small)) * 2^G
              ELSE 2^(F + G) + frac(big) * 2^G
                     - aligned(small, G, exp(big) - exp(small))
      expZ == IF exp(big) = 0 THEN 1 ELSE exp(big)
  IN CASE isNaN(a) \/ isNaN(b) -> propagateNaN(a, b)
       [] isInf(a) /\ isInf(b) -> Invalid
       [] isInf(b) /\ exp(a) # MaxExp -> Exact(pack(s, MaxExp, 0))
       [] isInf(a) /\ exp(b) # MaxExp -> Exact(a)
       [] expDiff = 0 /\ frac(a) = frac(b) /\ exp(a) # MaxExp ->
            Exact(pack(Bit(mode = "min"), 0, 0))
       [] OTHER -> normRoundPack(mode, s, expZ - 1, sigZ)

add(mode, a, b) ==
  IF sign(a) = sign(b) THEN addMags(mode, a, b, sign(a))
  ELSE subMags(mode, a, b, sign(a))

sub(mode, a, b) ==
  LET minusB == IF b >= SignBit THEN b - SignBit ELSE b + SignBit
  IN IF sign(a) = sign(b) THEN subMags(mode, a, minusB, sign(a))
     ELSE addMags(mode, a, minusB, sign(a))

-----------------------------------------------------------------------------
(* Multiplication, division and square root.  The special operands are     *)
(* handled here; what the two formats compute differently is the operator  *)
(* each passes.                                                            *)

\* Product(x, y) is the upper word of the product, the rest jammed into it.
mulWith(mode, a, b, Product(_, _)) ==
  LET signZ == (sign(a) + sign(b)) % 2
      A == unpacked(a)
      B == unpacked(b)
      expZ == A.exp + B.exp - Bias
      sigZ == Product(A.sig * 2^G, B.sig * 2^(G + 1))
  IN CASE isNaN(a) \/ isNaN(b) -> propagateNaN(a, b)
       [] (isInf(a) /\ isZero(b)) \/ (isZero(a) /\ isInf(b)) -> Invalid
       [] (isInf(a) /\ ~isNaN(b) /\ ~isZero(b))
            \/ (isInf(b) /\ ~isNaN(a) /\ ~isZero(a)) ->
            Exact(pack(signZ, MaxExp, 0))
       [] (isZero(a) /\ exp(b) # MaxExp) \/ (isZero(b) /\ exp(a) # MaxExp) ->
            Exact(pack(signZ, 0, 0))
       [] OTHER -> IF sigZ < Hidden THEN roundPack(mode, signZ, expZ - 1, 2 * sigZ)
                   ELSE roundPack(mode, signZ, expZ, sigZ)

\* Quotient(x, y) is the word of x * 2^W / y with its remainder jammed.
divWith(mode, a, b, Quotient(_, _)) ==
  LET signZ == (sign(a) + sign(b)) % 2
      A == unpacked(a)
      B == unpacked(b)
      expZ == A.exp - B.exp + Bias - 2
      sigA == A.sig * 2^G
      sigB == B.sig * 2^(G + 1)
  IN CASE isNaN(a) \/ isNaN(b) -> propagateNaN(a, b)
       [] (isInf(a) /\ isInf(b)) \/ (isZero(a) /\ isZero(b)) -> Invalid
       [] isInf(a) /\ exp(b) # MaxExp -> Exact(pack(signZ, MaxExp, 0))
       [] isZero(b) /\ exp(a) # MaxExp /\ ~isZero(a) ->
            [z |-> pack(signZ, MaxExp, 0), flags |-> {"infinity"}]
       [] (isInf(b) /\ exp(a) # MaxExp)
            \/ (isZero(a) /\ exp(b) # MaxExp /\ ~isZero(b)) ->
            Exact(pack(signZ, 0, 0))
       [] OTHER ->
            IF sigB <= 2 * sigA
            THEN roundPack(mode, signZ, expZ + 1, Quotient(sigA \div 2, sigB))
            ELSE roundPack(mode, signZ, expZ, Quotient(sigA, sigB))

\* Roots(e, sig) are the words the root of a significand may come out as,
\* its remainder jammed: one for each estimate estimateSqrt32 may return.
sqrtWith(mode, a, Roots(_, _)) ==
  LET A == unpacked(a)
  IN CASE isNaN(a) -> {propagateNaN(a, 0)}
       [] isZero(a) \/ a = pack(0, MaxExp, 0) -> {Exact(a)}
       [] sign(a) = 1 /\ ~isNaN(a) /\ ~isZero(a) -> {Invalid}
       [] OTHER -> {roundPack(mode, 0, ((A.exp - Bias) \div 2) + Bias - 1, z) :
                      z \in Roots(A.exp, A.sig)}

-----------------------------------------------------------------------------
(* Rounding to integers: [z, flags].  A result of the wrong sign after the *)
(* conversion to a signed word is out of range.                            *)

signed(w, ui) == IF ui >= 2^(w - 1) THEN ui - 2^w ELSE ui
wrongSign(z, s) == z # 0 /\ ((z < 0) # (s = 1))
inexactIf(lost) == IF lost THEN {"inexact"} ELSE {}

saturated(w, s) ==
  [z |-> IF s = 1 THEN -(2^(w - 1)) ELSE 2^(w - 1) - 1, flags |-> {"invalid"}]
saturatedU(w) == [z |-> 2^w - 1, flags |-> {"invalid"}]

(* Fault: a result that wraps to the other sign is taken for a number. *)
roundPackToI32Wraps(mode, s, sig) ==
  LET sig32 == cut(mode, s, sig, P)
  IN IF sig + roundIncrement(mode, s, P) >= 2^(H + P) THEN saturated(H, s)
     ELSE [z |-> signed(H, IF s = 1 THEN (-sig32) % M32 ELSE sig32 % M32),
           flags |-> inexactIf(sig % 2^P # 0)]

\* sig has P fraction bits.
roundPackToI32(mode, s, sig) ==
  LET sig32 == cut(mode, s, sig, P)
      z == signed(H, IF s = 1 THEN (-sig32) % M32 ELSE sig32)
  IN IF sig + roundIncrement(mode, s, P) >= 2^(H + P) \/ wrongSign(z, s)
     THEN saturated(H, s)
     ELSE [z |-> z, flags |-> inexactIf(sig % 2^P # 0)]

roundPackToUI32(mode, s, sig) ==
  LET z == cut(mode, s, sig, P)
  IN IF sig + roundIncrement(mode, s, P) >= 2^(H + P) \/ (s = 1 /\ z # 0)
     THEN saturatedU(H)
     ELSE [z |-> z, flags |-> inexactIf(sig % 2^P # 0)]

\* sig64 and the word sig0 below its binary point, rounded to an integer; 0
\* when the increment overflows.
rounded64(mode, s, sig64, sig0) ==
  LET up == IF mode \in {"near_even", "near_maxMag"} THEN sig0 >= M64 \div 2
            ELSE sig0 # 0 /\ mode = (IF s = 1 THEN "min" ELSE "max")
      z == (sig64 + 1) % M64
  IN IF ~up THEN sig64
     ELSE IF mode = "near_even" /\ sig0 = M64 \div 2 THEN z - (z % 2)
     ELSE z

roundPackToI64(mode, s, sig64, sig0) ==
  LET sigZ == rounded64(mode, s, sig64, sig0)
      z == signed(2 * H, IF s = 1 THEN (-sigZ) % M64 ELSE sigZ)
  IN IF (sigZ < sig64 /\ sig64 = M64 - 1) \/ wrongSign(z, s)
     THEN saturated(2 * H, s)
     ELSE [z |-> z, flags |-> inexactIf(sig0 # 0)]

roundPackToUI64(mode, s, sig64, sig0) ==
  LET sigZ == rounded64(mode, s, sig64, sig0)
  IN IF (sigZ < sig64 /\ sig64 = M64 - 1) \/ (s = 1 /\ sigZ # 0)
     THEN saturatedU(2 * H)
     ELSE [z |-> sigZ, flags |-> inexactIf(sig0 # 0)]

-----------------------------------------------------------------------------
(* Library routines that no instruction calls.                             *)

\* A float rounded to an integral float: below one by cases, above in place,
\* on the pattern; a carry out of the fraction moves the exponent.
roundToInt(mode, ui) ==
  LET s == sign(ui)
      e == exp(ui)
      one == pack(s, Bias, 0)
      small == CASE mode = "near_even" /\ e = Bias - 1 /\ frac(ui) # 0 -> one
                 [] mode = "near_maxMag" /\ e = Bias - 1 -> one
                 [] mode = "min" -> IF s = 1 THEN one ELSE 0
                 [] mode = "max" -> IF s = 1 THEN SignBit ELSE one
                 [] OTHER -> pack(s, 0, 0)
      last == 2^(Bias + F - e)
      up == ui + roundIncrement(mode, s, Bias + F - e)
      even == IF mode = "near_even" /\ up % last = 0 /\ (up \div last) % 2 = 1
              THEN up - last ELSE up
      z == even - (even % last)
  IN IF e >= Bias + F
     THEN IF isNaN(ui) THEN propagateNaN(ui, 0) ELSE Exact(ui)
     ELSE IF isZero(ui) THEN Exact(ui)
     ELSE IF e < Bias THEN [z |-> small, flags |-> {"inexact"}]
     ELSE [z |-> z, flags |-> inexactIf(z # ui)]

\* The _r_minMag conversions of values below one.
truncatedSmall(ui) == [z |-> 0, flags |-> inexactIf(~isZero(ui))]

\* They saturate a NaN to the largest integer whatever its sign.
truncatedTooLarge(w, ui) ==
  IF ui = pack(1, Bias + w - 1, 0) THEN [z |-> -(2^(w - 1)), flags |-> {}]
  ELSE saturated(w, IF isNaN(ui) THEN 0 ELSE sign(ui))

withSign(s, absZ) == IF s = 1 THEN -absZ ELSE absZ
=============================================================================
