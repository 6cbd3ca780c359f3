----------------------------- MODULE Primitives -----------------------------
(***************************************************************************)
(* The other primitives under SoftFloat: shifts of 128-bit words, which or *)
(* words together when a count is zero, and the estimates of quotients and *)
(* roots.                                                                  *)
(***************************************************************************)
EXTENDS Words, Bitwise

shift128RightJam(a, c) ==
  IF c = 0 THEN [v64 |-> a.v64, v0 |-> Jam(a.v64 | a.v0, a.v0 # 0)]
  ELSE IF c < 2 * H THEN
    [v64 |-> a.v64 \div 2^c,
     v0  |-> Jam(Lost(a.v64, c) * 2^(2 * H - c) + a.v0 \div 2^c,
                 Lost(a.v0, c) # 0)]
  ELSE
    [v64 |-> 0,
     v0  |-> IF c < 4 * H
             THEN Jam(a.v64 \div 2^(c % (2 * H)),
                      a.v64 % 2^(c % (2 * H)) # 0 \/ a.v0 # 0)
             ELSE Bit(a.v64 # 0 \/ a.v0 # 0)]

\* A count of zero is out of the primitive's range (primitives.h says so):
\* a0 >> (-0 & 63) is then the whole low word.
shortShift128Left(a, c) ==
  IF c = 0 THEN [v64 |-> a.v64 | a.v0, v0 |-> a.v0]
  ELSE [v64 |-> ((a.v64 * 2^c) % M64) + (a.v0 \div 2^(2 * H - c)),
        v0  |-> (a.v0 * 2^c) % M64]

\* The while loop of estimateDiv128To64: the estimate's upper digit is
\* lowered until the remainder is no longer negative.
RECURSIVE lowerDigit(_, _, _)
lowerDigit(z, rem, b) ==
  IF rem.v64 < M64 \div 2 THEN [z |-> z, rem |-> rem]
  ELSE lowerDigit((z - M32) % M64,
                  add128(rem, [v64 |-> b \div M32, v0 |-> (b * M32) % M64]), b)

\* a64:a0 divided by b >= 2^63, one digit of 32 bits at a time, each
\* estimated from the upper half of b; the first is corrected, the second
\* is not.
estimateDiv128To64(a64, a0, b) ==
  LET b32 == b \div M32
      digit(r) == IF b32 * M32 <= r THEN M32 - 1 ELSE r \div b32
      z1 == digit(a64) * M32
      high == lowerDigit(z1, sub128([v64 |-> a64, v0 |-> a0],
                                    mul64To128(b, z1)), b)
      rem32 == ((high.rem.v64 * M32) % M64) + (high.rem.v0 \div M32)
  IN IF b <= a64 THEN M64 - 1 ELSE high.z + digit(rem32)

\* estimateSqrt32 looks the root up in two tables of 16 entries and refines
\* it once.  Its contract (primitives.h) is all its callers use: any word
\* strictly within 2 of the root of a * 2^31 (odd exponent) or a * 2^32,
\* and never below 2^31, the least root there is.
estimateSqrt32(expA, a) ==
  LET n == a * 2^(IF expA % 2 = 1 THEN H - 1 ELSE H)
  IN {z \in 2^(H - 1)..(M32 - 1) :
        /\ (z - 2 < 0 \/ (z - 2) * (z - 2) < n)
        /\ n < (z + 2) * (z + 2)}

=============================================================================
