----------------------------- MODULE Float32Plain -----------------------------
(***************************************************************************)
(* What the single-precision files of src/softfloat_dpi compute in their   *)
(* own way without a loop: the cores of multiplication and division, with  *)
(* 64-bit intermediates, and the conversions between integers and singles. *)
(* uint_fast32_t is 64 bits wide on the targets of the build, so a         *)
(* "32-bit" significand does not wrap at 2^32.                             *)
(***************************************************************************)
EXTENDS SoftFloat

f32_mul(mode, a, b) ==
  mulWith(mode, a, b, LAMBDA x, y : shortShift64RightJam(x * y, H))

f32_div(mode, a, b) ==
  divWith(mode, a, b,
    LAMBDA x, y : LET z == (x * M32) \div y
                  IN IF z % 2^(G - 1) = 0 THEN Jam(z, y * z # x * M32) ELSE z)

-----------------------------------------------------------------------------
(* Conversions to and from integers *)

significand(ui) == IF exp(ui) # 0 THEN 2^F + frac(ui) ELSE frac(ui)

fixedPoint32(a) ==
  LET shiftCount == Bias + F - P + H - exp(a)
      sig64 == significand(a) * M32
  IN IF 0 < shiftCount THEN shift64RightJam(sig64, shiftCount) ELSE sig64

f32_to_i32(mode, a) == roundPackToI32(mode, sign(a), fixedPoint32(a))
f32_to_ui32(mode, a) == roundPackToUI32(mode, sign(a), fixedPoint32(a))

fixedPoint64(a) ==
  LET shiftCount == Bias + 2 * H - 1 - exp(a)
      sig64 == significand(a) * 2^(2 * H - F - 1)
  IN IF shiftCount = 0 THEN [v |-> sig64, extra |-> 0]
     ELSE shift64ExtraRightJam(sig64, 0, shiftCount)

tooLarge64(a) == exp(a) > Bias + 2 * H - 1

f32_to_i64(mode, a) ==
  IF tooLarge64(a) THEN saturated(2 * H, sign(a))
  ELSE roundPackToI64(mode, sign(a), fixedPoint64(a).v, fixedPoint64(a).extra)
f32_to_ui64(mode, a) ==
  IF tooLarge64(a) THEN saturatedU(2 * H)
  ELSE roundPackToUI64(mode, sign(a), fixedPoint64(a).v, fixedPoint64(a).extra)

ui32_to_f32(mode, a) ==
  IF a = 0 THEN Exact(0)
  ELSE IF a >= Top
  THEN roundPack(mode, 0, Bias + H - 2, shortShift32Right1Jam(a))
  ELSE normRoundPack(mode, 0, Bias + H - 3, a)

i32_to_f32(mode, a) ==
  IF a \in {0, -Top} THEN Exact(IF a < 0 THEN pack(1, Bias + H - 1, 0) ELSE 0)
  ELSE normRoundPack(mode, Bit(a < 0), Bias + H - 3, IF a < 0 THEN -a ELSE a)

fromWord64(mode, s, absA) ==
  LET fits == countLeadingZeros64(absA) - (2 * H - F - 1)
      shiftCount == fits + G
  IN IF absA = 0 THEN Exact(0)
     ELSE IF 0 <= fits THEN Exact(pack(s, Bias + F - 1 - fits, absA * 2^fits))
     ELSE roundPack(mode, s, Bias + H - 3 - shiftCount,
                    IF shiftCount < 0
                    THEN shortShift64RightJam(absA, -shiftCount)
                    ELSE absA * 2^shiftCount)

i64_to_f32(mode, a) == fromWord64(mode, Bit(a < 0), IF a < 0 THEN -a ELSE a)
ui64_to_f32(mode, a) == fromWord64(mode, 0, a)

-----------------------------------------------------------------------------
(* Routines that no instruction calls.                                     *)

\* sig << 8 or << 40: the leading one at the top of a word of w bits.
topped(w, a) == (2^F + frac(a)) * 2^(w - 1 - F)

truncated(w, a) ==
  LET shiftCount == Bias + w - 1 - exp(a)
  IN [z |-> withSign(sign(a), topped(w, a) \div 2^shiftCount),
      flags |-> inexactIf(topped(w, a) % 2^shiftCount # 0)]

f32_to_i32_r_minMag(a) ==
  IF exp(a) < Bias THEN truncatedSmall(a)
  ELSE IF exp(a) >= Bias + H - 1 THEN truncatedTooLarge(H, a) ELSE truncated(H, a)
f32_to_i64_r_minMag(a) ==
  IF exp(a) < Bias THEN truncatedSmall(a)
  ELSE IF exp(a) >= Bias + 2 * H - 1 THEN truncatedTooLarge(2 * H, a)
  ELSE truncated(2 * H, a)
f32_to_ui32_r_minMag(a) ==
  IF exp(a) < Bias THEN truncatedSmall(a)
  ELSE IF sign(a) = 1 \/ exp(a) > Bias + H - 1 THEN saturatedU(H)
  ELSE truncated(H, a)
f32_to_ui64_r_minMag(a) ==
  IF exp(a) < Bias THEN truncatedSmall(a)
  ELSE IF sign(a) = 1 \/ exp(a) > Bias + 2 * H - 1 THEN saturatedU(2 * H)
  ELSE truncated(2 * H, a)
===============================================================================
