-------------------------------- MODULE MulAdd --------------------------------
(***************************************************************************)
(* The fused multiply-add of src/softfloat_dpi, a * b + c: what the single *)
(* and the double-precision file share, and the sum of the finite operands *)
(* as the single-precision one computes it (s_mulAddF32.c), which every    *)
(* fadd.s, fsub.s, fmul.s and fused instruction calls.                     *)
(***************************************************************************)
EXTENDS Rounding

\* A zero addend is told by its significand.
addend(c) == IF isZero(c) THEN [exp |-> 0, sig |-> 0] ELSE unpacked(c)

\* The factors, each with its leading one at Hidden, and the exponent of
\* their product.
factors(a, b) ==
  LET A == unpacked(a)
      B == unpacked(b)
  IN [exp |-> A.exp + B.exp - (Bias - 1), sigA |-> A.sig * 2^G, sigB |-> B.sig * 2^G]

signProd(a, b) == (sign(a) + sign(b)) % 2

\* z is what the finite operands sum to: [sign, exp, sig] for roundPack, or
\* sig = 0 when product and addend cancel completely.
mulAdd(mode, a, b, c, z) ==
  LET zero == Exact(pack(Bit(mode = "min"), 0, 0))
      infProd == isInf(a) \/ isInf(b)
      andNaN(z1) == [propagateNaN(z1.z, c) EXCEPT !.flags = @ \cup z1.flags]
  IN CASE isNaN(a) \/ isNaN(b) -> andNaN(propagateNaN(a, b))
       [] infProd /\ (isZero(a) \/ isZero(b)) -> andNaN(Invalid)
       [] infProd /\ ~isZero(a) /\ ~isZero(b) /\ ~isNaN(a) /\ ~isNaN(b) ->
            IF isNaN(c) THEN propagateNaN(0, c)
            ELSE IF isInf(c) /\ sign(c) # signProd(a, b) THEN Invalid
            ELSE Exact(pack(signProd(a, b), MaxExp, 0))
       [] exp(a) # MaxExp /\ exp(b) # MaxExp /\ exp(c) = MaxExp ->
            IF isNaN(c) THEN propagateNaN(0, c) ELSE Exact(c)
       [] exp(a) # MaxExp /\ exp(b) # MaxExp /\ exp(c) # MaxExp
            /\ (isZero(a) \/ isZero(b)) ->
            IF isZero(c) /\ sign(c) # signProd(a, b) THEN zero ELSE Exact(c)
       [] OTHER -> IF z.sig = 0 THEN zero
                   ELSE roundPack(mode, z.sign, z.exp, z.sig)

-----------------------------------------------------------------------------
(* Single precision.  The product's leading one is brought to bit 2H-3 of  *)
(* a 64-bit word, the addend's is there; the smaller of the two is jammed  *)
(* into the larger one's position.                                         *)

product(x) ==
  LET raw == x.sigA * x.sigB
      low == raw < 2^(2 * H - 3)
  IN [exp |-> IF low THEN x.exp - 1 ELSE x.exp, sig |-> IF low THEN 2 * raw ELSE raw]

sumMags(X, expC, sigC) ==
  LET expDiff == X.exp - expC
      sum == IF expDiff <= 0 THEN sigC + shift64RightJam(X.sig, H - expDiff)
             ELSE shortShift64RightJam(X.sig + shift64RightJam(sigC * M32, expDiff), H)
      e == IF expDiff <= 0 THEN expC ELSE X.exp
  IN IF sum < Hidden THEN [exp |-> e - 1, sig |-> 2 * sum] ELSE [exp |-> e, sig |-> sum]

\* The difference, exact or jammed; flip when the addend was the larger.
diffMags(X, expC, sigC) ==
  LET expDiff == X.exp - expC
      sigC64 == sigC * M32
      diff == IF expDiff < 0 THEN sigC64 - shift64RightJam(X.sig, -expDiff)
              ELSE IF expDiff = 0 THEN (X.sig - sigC64) % M64
              ELSE X.sig - shift64RightJam(sigC64, expDiff)
      wraps == expDiff = 0 /\ diff >= M64 \div 2
  IN [flip |-> expDiff < 0 \/ wraps, exp |-> IF expDiff < 0 THEN expC ELSE X.exp,
      sig |-> IF wraps THEN M64 - diff ELSE diff]

\* Its leading one brought to Hidden.
normalized(z) ==
  LET shift == countLeadingZeros64(z.sig) - 1
  IN [exp |-> z.exp - shift,
      sig |-> IF shift < H THEN shortShift64RightJam(z.sig, H - shift)
              ELSE z.sig * 2^(shift - H)]

sumF32(s, X, signC, C) ==
  LET sigC == C.sig * 2^(G - 1)
      same == sumMags(X, C.exp, sigC)
      diff == diffMags(X, C.exp, sigC)
      other == normalized(diff)
  IN IF C.sig = 0
     THEN [sign |-> s, exp |-> X.exp - 1, sig |-> shortShift64RightJam(X.sig, H - 1)]
     ELSE IF s = signC THEN [sign |-> s, exp |-> same.exp, sig |-> same.sig]
     ELSE IF diff.sig = 0 THEN [sign |-> 0, exp |-> 0, sig |-> 0]
     ELSE [sign |-> IF diff.flip THEN 1 - s ELSE s, exp |-> other.exp, sig |-> other.sig]

softfloat_mulAddF32(mode, a, b, c) ==
  mulAdd(mode, a, b, c,
         sumF32(signProd(a, b), product(factors(a, b)), sign(c), addend(c)))

-----------------------------------------------------------------------------
(* Operands with which it adds, and with which it multiplies.              *)

One == pack(0, Bias, 0)

\* A zero of the product's sign, so that a zero product keeps it.
zeroOf(a, b) == IF sign(a) # sign(b) THEN SignBit ELSE 0
===============================================================================
