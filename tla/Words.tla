-------------------------------- MODULE Words --------------------------------
(***************************************************************************)
(* The integer primitives under SoftFloat (src/softfloat_dpi/s_*.c) that   *)
(* take no root and no quotient.  A C "32-bit" word has H bits here and a  *)
(* "64-bit" word 2H bits; a struct uint128 is the record [v64, v0] of two  *)
(* 64-bit words.  Shifts and masks are written arithmetically, and         *)
(* everything wraps where the C wraps.                                     *)
(***************************************************************************)
EXTENDS Integers

CONSTANT H   \* bits of a "32-bit" word: a multiple of 4

M32 == 2^H
M64 == 2^(2 * H)

\* C's truth value of a comparison used as a number.
Bit(b) == IF b THEN 1 ELSE 0

\* a | (lost != 0): the sticky bit kept in the least significant position.
Jam(a, lost) == IF lost /\ a % 2 = 0 THEN a + 1 ELSE a

\* The bits of a that a right shift by c loses.  As in the C, where they are
\* a << (-c & 31), a count of zero "loses" the whole word.
Lost(a, c) == IF c = 0 THEN a ELSE a % 2^c

shift32RightJam(a, c) ==
  IF c < H THEN Jam(a \div 2^c, Lost(a, c) # 0) ELSE Bit(a # 0)

shift64RightJam(a, c) ==
  IF c < 2 * H THEN Jam(a \div 2^c, Lost(a, c) # 0) ELSE Bit(a # 0)

shortShift64RightJam(a, c) == Jam(a \div 2^c, a % 2^c # 0)

shortShift32Right1Jam(a) == Jam(a \div 2, a % 2 = 1)

\* The shifted word and, in extra, what was shifted out, left-justified.
shift64ExtraRightJam(a, extra, c) ==
  LET out == IF c = 0 THEN a
             ELSE IF c < 2 * H THEN Lost(a, c) * 2^(2 * H - c)
             ELSE IF c = 2 * H THEN a ELSE Bit(a # 0)
  IN [v |-> IF c < 2 * H THEN a \div 2^c ELSE 0, extra |-> Jam(out, extra # 0)]

\* Leading zeros of a quarter word: the 256-entry table of the C.
countLeadingZeros8(a) ==
  LET Q == H \div 4
  IN CHOOSE n \in 0..Q : a < 2^(Q - n) /\ (n = Q \/ a >= 2^(Q - n - 1))

countLeadingZeros32(a) ==
  LET n2 == IF a < 2^(H \div 2) THEN H \div 2 ELSE 0
      a2 == a * 2^n2
      n4 == IF a2 < 2^(H - H \div 4) THEN H \div 4 ELSE 0
  IN n2 + n4 + countLeadingZeros8((a2 * 2^n4) \div 2^(H - H \div 4))

countLeadingZeros64(a) ==
  IF a >= M32 THEN countLeadingZeros32(a \div M32)
  ELSE H + countLeadingZeros32(a)

-----------------------------------------------------------------------------
(* 128-bit words *)

add128(a, b) ==
  LET v0 == (a.v0 + b.v0) % M64
  IN [v64 |-> (a.v64 + b.v64 + Bit(v0 < a.v0)) % M64, v0 |-> v0]

sub128(a, b) ==
  [v64 |-> (a.v64 - b.v64 - Bit(a.v0 < b.v0)) % M64,
   v0  |-> (a.v0 - b.v0) % M64]

\* The product by halves: two carries, one out of mid1 + mid2 and one out of
\* the low word.
mul64To128(a, b) ==
  LET a32  == a \div M32
      a0   == a % M32
      b32  == b \div M32
      b0   == b % M32
      mid1 == a32 * b0
      mid  == (mid1 + a0 * b32) % M64
      low  == (mid % M32) * M32
      v0   == (a0 * b0 + low) % M64
  IN [v64 |-> (a32 * b32 + Bit(mid < mid1) * M32 + (mid \div M32)
                 + Bit(v0 < low)) % M64,
      v0  |-> v0]
===============================================================================
