----------------------------- MODULE Float64Plain -----------------------------
(***************************************************************************)
(* The double-precision files of src/softfloat_dpi without a loop.  Most   *)
(* are the text of the single-precision file with other constants: those   *)
(* are SoftFloat's definitions at this module's E, F, G, under the name of *)
(* the f64 file.  Product and conversions are different algorithms.  The   *)
(* constants ending in 1 are the single format of f32_to_f64, f64_to_f32.  *)
(***************************************************************************)
EXTENDS SoftFloat

CONSTANTS E1, F1, G1

S == INSTANCE SoftFloat WITH E <- E1, F <- F1, G <- G1

softfloat_roundPackToF64(mode, s, e, sig) == roundPack(mode, s, e, sig)
softfloat_normRoundPackToF64(mode, s, e, sig) == normRoundPack(mode, s, e, sig)
softfloat_normSubnormalF64Sig(sig) == normSubnormalSig(sig)
softfloat_isSigNaNF64UI(ui) == isSigNaN(ui)
softfloat_propagateNaNF64UI(a, b) == propagateNaN(a, b)
softfloat_addMagsF64(mode, a, b, s) == addMags(mode, a, b, s)
softfloat_subMagsF64(mode, a, b, s) == subMags(mode, a, b, s)
f64_add(mode, a, b) == add(mode, a, b)

\* Unlike f32_sub, f64_sub hands b on with its own sign.
f64_sub(mode, a, b) ==
  IF sign(a) = sign(b) THEN softfloat_subMagsF64(mode, a, b, sign(a))
  ELSE softfloat_addMagsF64(mode, a, b, sign(a))

f64_mul(mode, a, b) ==
  mulWith(mode, a, b,
    LAMBDA x, y : LET p == mul64To128(x, y) IN Jam(p.v64, p.v0 # 0))

-----------------------------------------------------------------------------
(* Conversions *)

significand(ui) == IF exp(ui) # 0 THEN 2^F + frac(ui) ELSE frac(ui)

fixedPoint32(a) ==
  LET shiftCount == Bias + F - P - exp(a)
  IN IF 0 < shiftCount THEN shift64RightJam(significand(a), shiftCount)
     ELSE significand(a)

f64_to_i32(mode, a) == roundPackToI32(mode, sign(a), fixedPoint32(a))
f64_to_ui32(mode, a) == roundPackToUI32(mode, sign(a), fixedPoint32(a))

fixedPoint64(a) ==
  LET shiftCount == Bias + F - exp(a)
  IN IF shiftCount <= 0
     THEN [v |-> significand(a) * 2^(-shiftCount), extra |-> 0]
     ELSE shift64ExtraRightJam(significand(a), 0, shiftCount)

tooLarge64(a) == exp(a) > Bias + 2 * H - 1

f64_to_i64(mode, a) ==
  IF tooLarge64(a) THEN saturated(2 * H, sign(a))
  ELSE roundPackToI64(mode, sign(a), fixedPoint64(a).v, fixedPoint64(a).extra)
f64_to_ui64(mode, a) ==
  IF tooLarge64(a) THEN saturatedU(2 * H)
  ELSE roundPackToUI64(mode, sign(a), fixedPoint64(a).v, fixedPoint64(a).extra)

\* A 32-bit integer always fits: no rounding, no flags.
fromWord32(s, absA) ==
  LET shiftCount == countLeadingZeros32(absA) + F - H + 1
  IN Exact(IF absA = 0 THEN 0
           ELSE pack(s, Bias + F - 1 - shiftCount, absA * 2^shiftCount))

i32_to_f64(a) == fromWord32(Bit(a < 0), IF a < 0 THEN -a ELSE a)
ui32_to_f64(a) == fromWord32(0, a)

i64_to_f64(mode, a) ==
  IF a \in {0, -(M64 \div 2)}
  THEN Exact(IF a < 0 THEN pack(1, Bias + 2 * H - 1, 0) ELSE 0)
  ELSE normRoundPack(mode, Bit(a < 0), Bias + 2 * H - 3, IF a < 0 THEN -a ELSE a)
ui64_to_f64(mode, a) ==
  IF a = 0 THEN Exact(0)
  ELSE IF a >= M64 \div 2
  THEN roundPack(mode, 0, Bias + 2 * H - 2, shortShift64RightJam(a, 1))
  ELSE normRoundPack(mode, 0, Bias + 2 * H - 3, a)

\* The intermediate commonNaN: the sign is kept, the payload is not.
f32UIToCommonNaN(ui) ==
  [sign |-> S!sign(ui), flags |-> IF S!isSigNaN(ui) THEN {"invalid"} ELSE {}]
f64UIToCommonNaN(ui) ==
  [sign |-> sign(ui), flags |-> IF isSigNaN(ui) THEN {"invalid"} ELSE {}]
commonNaNToF32UI(n) ==
  [z |-> (n.sign + 1) * S!SignBit - 1, flags |-> n.flags]
commonNaNToF64UI(n) ==
  [z |-> (n.sign + 1) * SignBit - 1, flags |-> n.flags]

f32_to_f64(a) ==
  LET A == S!normSubnormalSig(S!frac(a))
      rebias == Bias - S!Bias
  IN IF S!isNaN(a) THEN commonNaNToF64UI(f32UIToCommonNaN(a))
     ELSE Exact(
       IF S!isInf(a) THEN pack(S!sign(a), MaxExp, 0)
       ELSE IF S!isZero(a) THEN pack(S!sign(a), 0, 0)
       ELSE IF S!exp(a) = 0
       THEN pack(S!sign(a), A.exp - 1 + rebias, A.sig * 2^(F - F1))
       ELSE pack(S!sign(a), S!exp(a) + rebias, S!frac(a) * 2^(F - F1)))

f64_to_f32(mode, a) ==
  LET sig32 == shortShift64RightJam(frac(a), F - H + 2)
  IN IF isNaN(a) THEN commonNaNToF32UI(f64UIToCommonNaN(a))
     ELSE IF isInf(a) THEN Exact(S!pack(sign(a), S!MaxExp, 0))
     ELSE IF exp(a) = 0 /\ sig32 = 0 THEN Exact(S!pack(sign(a), 0, 0))
     ELSE S!roundPack(mode, sign(a), exp(a) - (Bias - S!Bias + 1),
                      sig32 + S!Hidden)

-----------------------------------------------------------------------------
(* Routines that no instruction calls.                                     *)

f64_roundToInt(mode, ui) == roundToInt(mode, ui)

\* sig >> ( 0x433 - exp ), and << when that is negative; exact, unless bits
\* are shifted out.
truncated(a) ==
  LET shiftCount == Bias + F - exp(a)
      sig == 2^F + frac(a)
  IN IF shiftCount <= 0 THEN [z |-> sig * 2^(-shiftCount), flags |-> {}]
     ELSE [z |-> sig \div 2^shiftCount, flags |-> inexactIf(sig % 2^shiftCount # 0)]

f64_to_i32_r_minMag(a) ==
  LET t == truncated(a)
      z == signed(H, IF sign(a) = 1 THEN (-t.z) % M32 ELSE t.z)
  IN IF exp(a) < Bias THEN truncatedSmall(a)
     ELSE IF exp(a) > Bias + H - 1 THEN saturated(H, IF isNaN(a) THEN 0 ELSE sign(a))
     ELSE IF (z < 0) # (sign(a) = 1) THEN saturated(H, sign(a))
     ELSE [t EXCEPT !.z = z]
f64_to_i64_r_minMag(a) ==
  IF exp(a) < Bias THEN truncatedSmall(a)
  ELSE IF exp(a) >= Bias + 2 * H - 1 THEN truncatedTooLarge(2 * H, a)
  ELSE [truncated(a) EXCEPT !.z = withSign(sign(a), @)]
f64_to_ui32_r_minMag(a) ==
  IF exp(a) < Bias THEN truncatedSmall(a)
  ELSE IF sign(a) = 1 \/ exp(a) > Bias + H - 1 THEN saturatedU(H)
  ELSE truncated(a)
f64_to_ui64_r_minMag(a) ==
  IF exp(a) < Bias THEN truncatedSmall(a)
  ELSE IF sign(a) = 1 \/ exp(a) > Bias + 2 * H - 1 THEN saturatedU(2 * H)
  ELSE truncated(a)
===============================================================================
