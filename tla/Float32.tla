------------------------------- MODULE Float32 --------------------------------
(***************************************************************************)
(* The single-precision square root and remainder of src/softfloat_dpi,    *)
(* which start from an estimate and correct it in a loop.                  *)
(***************************************************************************)
EXTENDS Remainder, Float32Plain

\* The while loop of f32_sqrt: a root that was estimated too large comes down
\* by one, its remainder up by 2z + 1.
RECURSIVE lowerRoot(_, _)
lowerRoot(z, rem) ==
  IF rem < M64 \div 2 THEN Jam(z, rem # 0)
  ELSE lowerRoot(z - 1, (rem + 2 * (z - 1) + 1) % M64)

\* Only when the low bits leave the rounding in doubt is the estimate, made
\* too large on purpose, corrected.
f32_sqrt(mode, a) ==
  sqrtWith(mode, a,
    LAMBDA e, sig :
      LET sigA == sig * 2^(G + 1)
          halved == IF e % 2 = 1 THEN sigA \div 2 ELSE sigA
          corrected(z) == IF z % 2^G <= 5
                          THEN lowerRoot(z, (halved * M32 - z * z) % M64) ELSE z
      IN {shortShift32Right1Jam(corrected(z + 2) % M32) :
            z \in estimateSqrt32(e, sigA)})

-----------------------------------------------------------------------------
\* The while loop of f32_rem: 2H - 2 bits of quotient at a time.
RECURSIVE reduced(_, _, _)
reduced(expDiff, sigA64, sigB) ==
  IF expDiff <= 0 THEN [expDiff |-> expDiff, sigA64 |-> sigA64]
  ELSE reduced(expDiff - (2 * H - 2),
               (-((sigB * estimateBelow(sigA64, sigB * 2^(2 * H - F - 1)))
                    * 2^(2 * H - F - 3))) % M64, sigB)

\* After the loop: the last n bits of the quotient.
lastBits(long, sB) ==
  LET n == long.expDiff + 2 * H
      q == estimateBelow(long.sigA64, sB * 2^(2 * H - F - 1)) \div 2^(2 * H - n)
  IN [q |-> q, sigB |-> sB * 2^(G - 1),
      sigA |-> ((long.sigA64 \div 2^(H + 1)) * 2^(n - 1) - sB * 2^(G - 1) * q) % M64]

\* Exponents less than H apart: one division is enough.
oneDivision(expDiff, sigA, sigB) ==
  LET q0 == Bit(sigB <= sigA)
      rest == sigA - q0 * sigB
      q == ((rest * M32) \div sigB) \div 2^(H - expDiff)
  IN IF expDiff > 0
     THEN [q |-> q, sigB |-> sigB \div 4,
           sigA |-> (rest \div 2) * 2^(expDiff - 1) - (sigB \div 4) * q]
     ELSE [q |-> q0, sigB |-> sigB \div 4, sigA |-> rest \div 4]

f32_rem(mode, a, b) ==
  remWith(mode, a, b,
    LAMBDA expDiff, sA, sB :
      IF expDiff < H
      THEN oneDivision(expDiff, (sA * 2^(G + 1)) \div (IF expDiff < 0 THEN 2 ELSE 1),
                       sB * 2^(G + 1))
      ELSE lastBits(reduced(expDiff - 2 * H,
                      (IF sB <= sA THEN sA - sB ELSE sA) * 2^(2 * H - F - 1), sB), sB))
=============================================================================
