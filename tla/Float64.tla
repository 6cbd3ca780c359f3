------------------------------- MODULE Float64 --------------------------------
(***************************************************************************)
(* Division, square root, the fused multiply-add and the remainder of the  *)
(* double-precision files of src/softfloat_dpi, on pairs of 64-bit words.  *)
(***************************************************************************)
EXTENDS Remainder, Float64Plain

pair(a64, a0) == [v64 |-> a64, v0 |-> a0]
negative(p) == p.v64 >= M64 \div 2

\* The while loop of f64_div: the quotient comes down by one, the remainder
\* up by the divisor, until it is not negative.
RECURSIVE lowerQuotient(_, _, _)
lowerQuotient(z, rem, b) ==
  IF negative(rem) THEN lowerQuotient(z - 1, add128(rem, pair(0, b)), b)
  ELSE Jam(z, rem.v0 # 0)

\* The estimate is at most 2 too large: unless its low bits are 0, 1 or 2 the
\* bits the rounding looks at are right.
f64_div(mode, a, b) ==
  divWith(mode, a, b,
    LAMBDA x, y : LET z == estimateDiv128To64(x, 0, y)
                  IN IF z % 2^(G - 1) <= 2
                     THEN lowerQuotient(z, sub128(pair(x, 0), mul64To128(y, z)), y)
                     ELSE z)

\* The while loop of f64_sqrt.  Unlike f32_sqrt's it adds 2z, not 2z + 1, to
\* the remainder.
RECURSIVE lowerRoot64(_, _)
lowerRoot64(z, rem) ==
  IF negative(rem)
  THEN LET y == z - 1
       IN lowerRoot64(y, add128(rem, pair(y \div (M64 \div 2), (2 * y) % M64)))
  ELSE Jam(z, rem.v64 # 0 \/ rem.v0 # 0)

\* One step of Newton from the 32-bit estimate.
f64_sqrt(mode, a) ==
  sqrtWith(mode, a,
    LAMBDA e, sig :
      LET sigA == sig * 2^(IF e % 2 = 1 THEN G - 2 ELSE G - 1)
          newton(z32) == (estimateDiv128To64(sigA, 0, z32 * M32)
                            + z32 * 2^(H - 2)) % M64
          corrected(z) == IF z % 2^(G - 1) <= 5
                          THEN lowerRoot64(z, sub128(pair(sigA, 0),
                                                     mul64To128(z, z)))
                          ELSE z
      IN {corrected(newton(z32)) :
            z32 \in estimateSqrt32(e, sig \div 2^(F - H + 1))})

\* The sum where product and addend have the same sign: [exp, sig].
sameSign(expProd, sigProd, C, sigC) ==
  LET expDiff == expProd - C.exp
      high == IF expDiff = 0 THEN sigProd.v64
              ELSE shift64RightJam(sigProd.v64, -expDiff)
      z == add128(sigProd, shift128RightJam(pair(sigC, 0), expDiff))
      expZ == IF expDiff <= 0 THEN C.exp ELSE expProd
      sigZ == IF expDiff <= 0 THEN Jam(sigC + high, sigProd.v0 # 0)
              ELSE Jam(z.v64, z.v0 # 0)
  IN IF sigZ < Hidden THEN [exp |-> expZ - 1, sig |-> 2 * sigZ]
     ELSE [exp |-> expZ, sig |-> sigZ]

(* Fault: the lower word is dropped without a trace. *)
normalized128Lossy(expZ, p) ==
  LET up == p.v64 = 0
      q == IF up THEN pair(p.v0, 0) ELSE p
      shift == countLeadingZeros64(q.v64) - 1
  IN [exp |-> expZ - shift - (IF up THEN 2 * H ELSE 0),
      sig |-> IF shift < 0 THEN shortShift64RightJam(q.v64, -shift)
              ELSE shortShift128Left(q, shift).v64]

\* A difference normalised to Hidden: [exp, sig].  Its upper word may be
\* zero after a cancellation; only then can the count be 0 or -1.
normalized128(expZ, p) ==
  LET up == p.v64 = 0
      q == IF up THEN pair(p.v0, 0) ELSE p
      shift == countLeadingZeros64(q.v64) - 1
      r == IF shift < 0 THEN q ELSE shortShift128Left(q, shift)
      sig == IF shift < 0 THEN shortShift64RightJam(q.v64, -shift) ELSE r.v64
  IN [exp |-> expZ - shift - (IF up THEN 2 * H ELSE 0),
      sig |-> Jam(sig, r.v0 # 0)]

sumF64(s, x, signC, C) ==
  LET raw == mul64To128(x.sigA, x.sigB)
      low == raw.v64 < 2^(2 * H - 3)
      expProd == IF low THEN x.exp - 1 ELSE x.exp
      sigProd == IF low THEN shortShift128Left(raw, 1) ELSE raw
      sigC == C.sig * 2^(G - 1)
      expDiff == expProd - C.exp
      diff == IF expDiff < 0
              THEN sub128(pair(sigC, 0), shift128RightJam(sigProd, -expDiff))
              ELSE IF expDiff = 0 THEN sub128(sigProd, pair(sigC, 0))
              ELSE sub128(sigProd, shift128RightJam(pair(sigC, 0), expDiff))
      flip == expDiff = 0 /\ negative(diff)
      mag == IF flip THEN sub128(pair(0, 0), diff) ELSE diff
      same == sameSign(expProd, sigProd, C, sigC)
      other == normalized128(IF expDiff < 0 THEN C.exp ELSE expProd, mag)
  IN IF C.sig = 0
     THEN [sign |-> s, exp |-> expProd - 1, sig |-> Jam(2 * sigProd.v64, sigProd.v0 # 0)]
     ELSE IF s = signC THEN [sign |-> s, exp |-> same.exp, sig |-> same.sig]
     ELSE IF mag = pair(0, 0) THEN [sign |-> 0, exp |-> 0, sig |-> 0]
     ELSE [sign |-> IF expDiff < 0 THEN signC ELSE IF flip THEN 1 - s ELSE s,
           exp |-> other.exp, sig |-> other.sig]

softfloat_mulAddF64(mode, a, b, c) ==
  mulAdd(mode, a, b, c, sumF64(signProd(a, b), factors(a, b), sign(c), addend(c)))

-----------------------------------------------------------------------------
\* The while loop of f64_rem.
RECURSIVE reduced(_, _, _)
reduced(expDiff, sigA, sigB) ==
  IF expDiff <= 0 THEN [expDiff |-> expDiff, sigA |-> sigA]
  ELSE reduced(expDiff - (2 * H - 2),
               (-((sigB \div 4) * estimateBelow(sigA, sigB))) % M64, sigB)

\* After the loop: the last n bits of the quotient, or the first one.
lastBits(long, sigB, q0) ==
  LET n == long.expDiff + 2 * H
      q == estimateBelow(long.sigA, sigB) \div 2^(2 * H - n)
  IN IF n > 0
     THEN [q |-> q, sigB |-> sigB \div 4,
           sigA |-> ((long.sigA \div 2) * 2^(n - 1) - (sigB \div 4) * q) % M64]
     ELSE [q |-> q0, sigB |-> sigB \div 4, sigA |-> long.sigA \div 4]

f64_rem(mode, a, b) ==
  remWith(mode, a, b,
    LAMBDA expDiff, sA, sB :
      LET sigA == (sA * 2^(G + 1)) \div (IF expDiff < 0 THEN 2 ELSE 1)
          sigB == sB * 2^(G + 1)
          q0 == Bit(sigB <= sigA)
      IN lastBits(reduced(expDiff - 2 * H, sigA - q0 * sigB, sigB), sigB, q0))
=============================================================================
