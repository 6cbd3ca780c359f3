------------------------------- MODULE Formats --------------------------------
(***************************************************************************)
(* What FcsrProofs says of formats, of the words of src/softfloat_dpi and  *)
(* of the exact numbers they stand for.  A format f is a record of the     *)
(* widths E, F and G of its exponent, fraction and guard bits and of the   *)
(* fraction P of what is rounded to an integer word, whose bits are h.     *)
(* Rnd is the code at that format, Ref the reference, whose exact          *)
(* significands have w bits.                                               *)
(***************************************************************************)
EXTENDS Integers

Rnd(f, h) == INSTANCE Float32Plain WITH E <- f.E, F <- f.F, G <- f.G, P <- f.P, H <- h

Ref(f, w) == INSTANCE IeeeNumber WITH E <- f.E, F <- f.F, Places <- w

(* Formats whose working word is one of the two words there are.           *)
IsFormat(f, h) ==
  /\ f.E \in Nat /\ f.E >= 2 /\ f.F \in Nat \ {0} /\ f.G \in Nat /\ f.G >= 2
  /\ h \in Nat \ {0} /\ Rnd(f, h)!W \in {h, 2 * h}

RoundingModes == {"near_even", "minMag", "min", "max", "near_maxMag"}

Directed(mode, s) == mode \in RoundingModes /\ s \in {0, 1}

(* n is the number of bits of m.                                           *)
HasBits(m, n, w) == w \in Nat /\ n \in 1 .. w /\ m \in Nat /\ 2^(n - 1) <= m /\ m < 2^n

(* The quotient and the remainder of n by p.                               *)
Splits(n, p, k, r) ==
  p \in Nat \ {0} /\ k \in Nat /\ r \in 0 .. (p - 1) /\ n \in Nat /\ n = k * p + r

(* The same by 2^d, a shift by d.                                          *)
Shifts(n, d, k, r) == d \in Nat \ {0} /\ Splits(n, 2^d, k, r)

(* What decides of a rounding is the last bit kept and how the bits cut    *)
(* off compare with half.                                                  *)
RoundsUp(mode, s, k, r, p) ==
  CASE mode = "near_even" -> 2 * r > p \/ (2 * r = p /\ k % 2 = 1)
    [] mode = "near_maxMag" -> 2 * r >= p
    [] mode = "minMag" -> FALSE
    [] mode = "min" -> s = 1 /\ r > 0
    [] mode = "max" -> s = 0 /\ r > 0

(* The quotient k, or the next, when r of p is cut off.                    *)
Rounded(mode, s, k, r, p) == IF RoundsUp(mode, s, k, r, p) THEN k + 1 ELSE k

(* r of e and m of p compare alike with nothing and with half.             *)
Alike(r, e, m, p) ==
  /\ r = 0 <=> m = 0
  /\ 2 * r > e <=> 2 * m > p
  /\ 2 * r = e <=> 2 * m = p

(* z, and i added to it for the carry, gives c when p is cut off.          *)
Carries(z, p, k, i, c) ==
  /\ c \in k .. (k + 1) /\ i \in 0 .. (p - 1)
  /\ \A b \in Nat : c >= 2 * b <=> z + i >= 2 * b * p

(* (-1)^s * m * 2^q rounds to r.                                           *)
RoundsTo(f, mode, s, m, q, r) ==
  \A w \in Nat : m < 2^w => Ref(f, w)!Round(mode, [s |-> s, m |-> m, q |-> q]) = r

(* What Round makes of its rounded significand z at the last place u.      *)
Outcome(f, w, mode, s, n, u, z) ==
  LET overflow == u > Ref(f, w)!Bias - f.F
                    \/ (u = Ref(f, w)!Bias - f.F /\ z.k > 2^(f.F + 1) - 1)
      toInfinity == mode \in {"near_even", "near_maxMag", IF s = 1 THEN "min" ELSE "max"}
  IN IF overflow
     THEN Ref(f, w)!Result(Ref(f, w)!Signed(s, IF toInfinity THEN Ref(f, w)!Infinity
                                               ELSE Ref(f, w)!Infinity - 1),
                           {"overflow", "inexact"})
     ELSE Ref(f, w)!Result(Ref(f, w)!Signed(s, (u - Ref(f, w)!MinExp) * 2^f.F + z.k),
                           IF z.exact THEN {}
                           ELSE {"inexact"} \cup (IF n - 1 < 1 - Ref(f, w)!Bias
                                                  THEN {"underflow"} ELSE {}))

(* m * 2^q and k * 2^t are of one binade, below 2^N.                       *)
OneBinade(N, m, n, w, q, k, l, v, t) ==
  HasBits(m, n, w) /\ HasBits(k, l, v) /\ q \in Int /\ t \in Int /\ N = n + q /\ N = l + t

(* They are cut alike at any last place d below N by no more than the      *)
(* places of the format.                                                   *)
CutAlike(f, mode, s, N, m, w, q, k, v, t) ==
  \A d \in Int : d >= N - (f.F + 1) =>
    Ref(f, w)!RoundShift(mode, s, m, d - q) = Ref(f, v)!RoundShift(mode, s, k, d - t)

(* M is m shifted left by k, and fits in v bits.                            *)
Moved(d, e, k) == d \in Int /\ e = d + k

Scales(m, n, k, M, v) == k \in Nat /\ M = m * 2^k /\ v \in Nat /\ n + k <= v

(* k is v / d with a sticky last bit: exact when even, strictly between    *)
(* its even neighbours when odd.                                           *)
Sticks(k, v, d) ==
  /\ k \in Nat /\ v \in Nat /\ d \in Nat \ {0}
  /\ IF k % 2 = 0 THEN v = k * d ELSE (k - 1) * d < v /\ v < (k + 1) * d

(* n is the number of bits of m, whatever the bound on it.                 *)
Bitlen(m, n) == n \in Nat \ {0} /\ HasBits(m, n, n)

(* The words of the integer primitives.                                    *)
IsWord(h) == h \in Nat \ {0} /\ h % 4 = 0

(* Formats like the single precision, whose working word is the shorter of *)
(* the two and whose guard bits are three or more.                         *)
IsSingle(f, h) == IsFormat(f, h) /\ Rnd(f, h)!W = h /\ f.G >= 3 /\ h % 4 = 0

(* The operand y, with its leading one at bit n, has the value of the      *)
(* number x: y is x.m moved left by i, and its last place, at exponent q,  *)
(* by as much.                                                             *)
Moves(x, y, q, i) ==
  i \in Nat /\ x.m \in Nat \ {0} /\ x.q \in Int /\ y = x.m * 2^i /\ q \in Int /\ x.q = q + i

(* The exponent of the last place of a doubleword of exponent 0.           *)
Unit(f, h, w) == Ref(f, w)!MinExp - f.G - h

(* A term of the sum, brought to the top of a doubleword.                  *)
Term(f, h, w, x, sig, e) ==
  /\ e \in Int /\ Bitlen(sig, 2 * h - 2) /\ sig % 2 = 0
  /\ \E i : Moves(x, sig, e + Unit(f, h, w), i)

(* z, for roundPack, is the number v * 2^q.                                *)
Delivers(f, h, mode, s, v, q, z) ==
  /\ z.sig \in Rnd(f, h)!Hidden .. (Rnd(f, h)!Top - 1)
  /\ RoundsTo(f, mode, s, v, q, Rnd(f, h)!roundPack(mode, s, z.exp, z.sig))

(* Shifting x left by a and y by b, one of them not at all, brings x at    *)
(* exponent d and y at exponent e to one place.                            *)
Aligns(d, e, a, b) == d \in Int /\ e \in Int /\ a \in Nat /\ b \in Nat /\ (a = 0 \/ b = 0) /\ d - a = e - b

(* z is the sum of x and y, which are m and n at exponent q.               *)
AddsUp(z, x, y, m, n, q) ==
  \E g \in Nat :
    /\ z.m \in Nat /\ z.q = q + g
    /\ x.s = y.s => z.m * 2^g = m + n /\ (z.m # 0 => z.s = x.s)
    /\ x.s # y.s => /\ m >= n => z.m * 2^g = m - n /\ (m > n => z.s = x.s)
                    /\ m < n => z.m * 2^g = n - m /\ z.s = y.s
    /\ z.m = 0 <=> (m = 0 /\ n = 0) \/ (x.s # y.s /\ m = n)

(* The exact sum z of the terms, and what the code hands to roundPack.     *)
SumsTo(f, h, mode, z, S) ==
  /\ z.m \in Nat
  /\ S.sig = 0 <=> z.m = 0
  /\ S.sig # 0 => RoundsTo(f, mode, z.s, z.m, z.q, Rnd(f, h)!roundPack(mode, S.sign, S.exp, S.sig))

(* diffMags turns out v at exponent q, or tells that it was negative.      *)
Differs(f, h, mode, s, v, q, D) ==
  /\ v \in Int /\ (v = 0 <=> D.sig = 0)
  /\ v > 0 => ~ D.flip /\ Delivers(f, h, mode, s, v, q, Rnd(f, h)!normalized(D))
  /\ v < 0 => D.flip /\ Delivers(f, h, mode, s, - v, q, Rnd(f, h)!normalized(D))

(* m * 2^p and n * 2^k are one number.                                     *)
SameNumber(m, p, n, k) ==
  \E q \in Int, i \in Nat, g \in Nat : p = q + i /\ k = q + g /\ n * 2^g = m * 2^i

(* The result z of the factors joined with that of the addend.             *)
Joined(f, h, c, z) == [Rnd(f, h)!propagateNaN(z.z, c) EXCEPT !.flags = @ \cup z.flags]

(* The place that a working word of exponent e is in.                      *)
Place(f, w, e) == Ref(f, w)!MinExp + e - f.G

(* A format whose largest numbers exceed the word's.                       *)
Reaches(f, h) == Rnd(f, h)!W <= Rnd(f, h)!Bias + 1

(* A signed word converted to a format of that word, as i32_to_f32 and     *)
(* i64_to_f64 do.                                                          *)
FromSigned(f, h, mode, z) ==
  IF z \in {0, -Rnd(f, h)!Top}
  THEN Rnd(f, h)!Exact(IF z < 0 THEN Rnd(f, h)!pack(1, Rnd(f, h)!Bias + Rnd(f, h)!W - 1, 0) ELSE 0)
  ELSE Rnd(f, h)!normRoundPack(mode, Rnd(f, h)!Bit(z < 0), Rnd(f, h)!Bias + Rnd(f, h)!W - 3,
                               IF z < 0 THEN -z ELSE z)

(* An unsigned word.                                                       *)
FromUnsigned(f, h, mode, z) ==
  IF z = 0 THEN Rnd(f, h)!Exact(0)
  ELSE IF z >= Rnd(f, h)!Top
  THEN Rnd(f, h)!roundPack(mode, 0, Rnd(f, h)!Bias + Rnd(f, h)!W - 2, Rnd(f, h)!shortShift64RightJam(z, 1))
  ELSE Rnd(f, h)!normRoundPack(mode, 0, Rnd(f, h)!Bias + Rnd(f, h)!W - 3, z)

(* Integers of either word, and where they are.                            *)
SignedRange(n) == (-(2^(n - 1))) .. (2^(n - 1) - 1)

UnsignedRange(n) == 0 .. (2^n - 1)

(* The word of a quotient, its remainder jammed when the round bits are 0. *)
QuotientWord(f, h, x, y) ==
  LET z == (x * 2^h) \div y
  IN IF z % 2^(f.G - 1) = 0 THEN Rnd(f, h)!Jam(z, y * z # x * 2^h) ELSE z

(* f32_div of two nonzero numbers.                                         *)
Divided(f, h, mode, s, A, B) ==
  LET e == A.exp - B.exp + Rnd(f, h)!Bias - 2
      x == A.sig * 2^f.G
      y == B.sig * 2^(f.G + 1)
  IN IF y <= 2 * x THEN Rnd(f, h)!roundPack(mode, s, e + 1, QuotientWord(f, h, x \div 2, y))
     ELSE Rnd(f, h)!roundPack(mode, s, e, QuotientWord(f, h, x, y))

(* The code's quotient word z of n / y, its remainder jammed in when its   *)
(* last bits are 0, and a word cut by d with what is lost jammed in.       *)
Jammed(f, h, n, y, d, z) == IF z % (2 * d) = 0 THEN Rnd(f, h)!Jam(z, y * z # n) ELSE z

Cut(f, h, c, d) == Rnd(f, h)!Jam(c \div d, c % d # 0)

(* n / y is a / b times a power of two, and z, c are the quotient and what *)
(* the code makes of it.                                                   *)
Fraction(n, y, a, b, x, l) == n = a * 2^x /\ y = b * 2^l

Quotient(f, h, n, y, z, c) ==
  /\ z = n \div y /\ Bitlen(z, f.F + f.G + 1)
  /\ c = (IF z % 2^(f.G - 1) = 0 THEN Rnd(f, h)!Jam(z, y * z # n) ELSE z)

(* The operand A, unpacked, stands for the number x, i places lower.       *)
StandsFor(f, h, w, x, A, i) ==
  A.exp \in Int /\ Bitlen(A.sig, f.F + 1) /\ Moves(x, A.sig, Ref(f, w)!MinExp + A.exp - 1, i)

(* What is known of an operand, as plain numbers.                          *)
Places(F, M, x, A, i) ==
  /\ A.exp \in Int /\ A.sig \in Nat \ {0} /\ 2^F <= A.sig /\ A.sig < 2 * 2^F
  /\ x.m \in Nat \ {0} /\ x.q \in Int /\ x.m <= A.sig /\ A.sig = x.m * 2^i
  /\ i \in Nat /\ i <= F
  /\ x.q = M + A.exp - 1 + i

(* Double: a format of two words, its fraction as long as an integer word. *)
IsDouble(f, h) == IsFormat(f, h) /\ Rnd(f, h)!W = 2 * h /\ f.F + 1 >= h /\ h % 4 = 0

(* The exponents of f reach below those of g: a number of g is normal in f *)
(* and one subnormal in f is less than half the least of g.                *)
Widens(f, g, h) ==
  IsDouble(f, h) /\ IsSingle(g, h) /\ Rnd(f, h)!Bias >= Rnd(g, h)!Bias + g.F + 1

(* The pattern u of format f in format g, and the result x of a conversion  *)
(* that is it but for the sign of a NaN, which the code keeps.             *)
Converted(f, g, w, mode, u) ==
  IF Ref(f, w)!IsNaN(u) THEN [Ref(f, w)!QuietNaN({u}) EXCEPT !.z = Ref(g, w)!NaN]
  ELSE IF Ref(f, w)!IsInf(u) THEN Ref(g, w)!Inf(Ref(f, w)!Num(u).s)
  ELSE Ref(g, w)!FromNumber(mode, Ref(f, w)!Num(u))

Converts(f, g, w, mode, u, x) ==
  /\ x.flags = Converted(f, g, w, mode, u).flags
  /\ Ref(g, w)!SameValue(x.z, Converted(f, g, w, mode, u).z)

(* What f64_to_f32 makes of a pattern that is not a NaN, by its fields.    *)
Narrowed(f, g, h, mode, s, e, m) ==
  LET sig32 == Rnd(g, h)!shortShift64RightJam(m, f.F - h + 2)
  IN IF e = 0 /\ sig32 = 0 THEN Rnd(g, h)!Exact(Rnd(g, h)!pack(s, 0, 0))
     ELSE Rnd(g, h)!roundPack(mode, s, e - (Rnd(f, h)!Bias - Rnd(g, h)!Bias + 1),
                              sig32 + Rnd(g, h)!Hidden)

(* What f32_to_f64 packs for a nonzero number, by the exponent and the     *)
(* significand it unpacks.                                                 *)
Widened(f, g, h, s, U) ==
  Rnd(f, h)!Exact(Rnd(f, h)!pack(s, U.exp - 1 + (Rnd(f, h)!Bias - Rnd(g, h)!Bias), U.sig * 2^(f.F - g.F)))

(* What roundPack makes of its parts.                                      *)
PackedAs(maxExp, top, increment, e, sig, roundBits, infinity, bit, number) ==
  IF e > maxExp - 2 \/ (e = maxExp - 2 /\ sig + increment >= top)
  THEN [z |-> infinity - bit, flags |-> {"overflow", "inexact"}]
  ELSE [z |-> number,
        flags |-> IF roundBits = 0 THEN {}
                  ELSE {"inexact"} \cup (IF e < 0 THEN {"underflow"} ELSE {})]
===============================================================================
