----------------------------- MODULE FcsrProofs -----------------------------
(***************************************************************************)
(* If every operation that rounds, on its own, raises the flags it should, *)
(* then so do programs: whatever the sequence of instructions, traps,      *)
(* library calls and writes to fcsr, whatever the formats and the          *)
(* operands.  Nothing is supposed of the other instructions: the           *)
(* comparisons, written out in Pattern and Comparisons, and the integer    *)
(* instructions, written out in MulDiv, are proved to be exact.  Of the    *)
(* operations that round, roundPack, the conversions of integers, those    *)
(* between two formats and, of one word, addition, multiplication,         *)
(* division and the fused multiply-add, are proved to be what IEEE 754     *)
(* makes of the exact result.                                              *)
(***************************************************************************)
EXTENDS Fcsr, Formats, FiniteSetTheorems, WellFoundedInduction, TLAPS

\* Quotients, remainders and powers of two

\* A quotient and a remainder are the only ones.
LEMMA DivisionIs ==
  ASSUME NEW n \in Int, NEW d \in Nat \ {0}, NEW k \in Int, NEW r \in 0 .. (d - 1),
         n = k * d + r
  PROVE  n \div d = k /\ n % d = r
<1> DEFINE p == n \div d
           s == n % d
<1>1. n = d * p + s /\ s \in 0 .. (d - 1) /\ p \in Int OBVIOUS
<1> HIDE DEF p, s
<1>2. ~ (p < k)
  <2> SUFFICES ASSUME p < k PROVE FALSE
    OBVIOUS
  <2>1. (p + 1) * d <= k * d BY <1>1
  <2> QED BY <2>1, <1>1
<1>3. ~ (k < p)
  <2> SUFFICES ASSUME k < p PROVE FALSE
    OBVIOUS
  <2>1. (k + 1) * d <= p * d BY <1>1
  <2> QED BY <2>1, <1>1
<1>4. p = k BY <1>1, <1>2, <1>3
<1>5. s = r BY <1>1, <1>4
<1> QED BY <1>4, <1>5 DEF p, s

\* An integer is its quotient and its remainder put together.
LEMMA Division ==
  ASSUME NEW n \in Int, NEW d \in Nat \ {0}
  PROVE  n = (n \div d) * d + (n % d) /\ n \div d \in Int /\ n % d \in 0 .. (d - 1)
<1>1. n = d * (n \div d) + (n % d) OBVIOUS
<1>2. n \div d \in Int /\ n % d \in 0 .. (d - 1) OBVIOUS
<1>3. PICK p \in Int : p = n \div d
  BY <1>2
<1>4. d * p = p * d BY <1>3
<1>5. n = (n \div d) * d + (n % d) BY <1>1, <1>3, <1>4
<1> QED BY <1>2, <1>5

\* Of natural numbers both are natural.
LEMMA NaturalDivision ==
  ASSUME NEW n \in Nat, NEW d \in Nat \ {0}
  PROVE  /\ n = (n \div d) * d + (n % d) /\ n \div d \in Nat /\ n % d \in 0 .. (d - 1)
         /\ \E k \in Nat, r \in 0 .. (d - 1) : n = k * d + r
<1> DEFINE k == n \div d
           r == n % d
<1>1. n = k * d + r /\ k \in Int /\ r \in 0 .. (d - 1)
  <2>1. n \in Int OBVIOUS
  <2> QED BY <2>1, Division
<1> HIDE DEF k, r
<1>2. k \in Nat
  <2> SUFFICES ASSUME k < 0 PROVE FALSE
    BY <1>1
  <2>1. (k + 1) * d <= 0 * d BY <1>1
  <2> QED BY <1>1, <2>1
<1> QED BY <1>1, <1>2 DEF k, r

\* There are 2^n subsets of 1 .. n.
LEMMA PowerOfTwo ==
  ASSUME NEW n \in Nat
  PROVE  /\ IsFiniteSet(SUBSET (1 .. n))
         /\ Cardinality(SUBSET (1 .. n)) = 2^n
         /\ 2^n \in Nat \ {0}
<1>1. IsFiniteSet(1 .. n) /\ Cardinality(1 .. n) = n BY FS_Interval
<1>2. IsFiniteSet(SUBSET (1 .. n)) /\ Cardinality(SUBSET (1 .. n)) = 2^n
  BY <1>1, FS_SUBSET
<1>3. SUBSET (1 .. n) # {} OBVIOUS
<1>4. Cardinality(SUBSET (1 .. n)) \in Nat \ {0}
  BY <1>2, <1>3, FS_CardinalityType, FS_EmptySet
<1> QED BY <1>2, <1>4

\* A subset of 1 .. m + n is a subset of 1 .. m and one of the rest.
LEMMA PowersAdd ==
  ASSUME NEW m \in Nat, NEW n \in Nat
  PROVE  2^(m + n) = 2^m * 2^n
<1> DEFINE Low == 1 .. m
           High == (m + 1) .. (m + n)
           Pairs == (SUBSET Low) \X (SUBSET High)
           f == [p \in Pairs |-> p[1] \union p[2]]
<1>1. IsFiniteSet(Low) /\ Cardinality(Low) = m /\ IsFiniteSet(High) /\ Cardinality(High) = n
  BY FS_Interval
<1>2. /\ IsFiniteSet(SUBSET Low) /\ Cardinality(SUBSET Low) = 2^m
      /\ IsFiniteSet(SUBSET High) /\ Cardinality(SUBSET High) = 2^n
  BY <1>1, FS_SUBSET
<1>3. IsFiniteSet(Pairs) /\ Cardinality(Pairs) = 2^m * 2^n
  <2>1. /\ IsFiniteSet((SUBSET Low) \X (SUBSET High))
        /\ Cardinality((SUBSET Low) \X (SUBSET High)) = Cardinality(SUBSET Low) * Cardinality(SUBSET High)
    <3> HIDE DEF Low, High
    <3> QED BY <1>2, FS_Product, Zenon
  <2> QED BY <1>2, <2>1, Zenon
<1>4. Low \union High = 1 .. (m + n) /\ Low \intersect High = {} OBVIOUS
<1>5. f \in [Pairs -> SUBSET (1 .. (m + n))]
  <2>1. \A p \in Pairs : p[1] \union p[2] \in SUBSET (1 .. (m + n))
    BY <1>4, Zenon
  <2> QED BY <2>1
<1>6. \A p, q \in Pairs : f[p] = f[q] => p = q
  <2> SUFFICES ASSUME NEW p \in Pairs, NEW q \in Pairs, f[p] = f[q] PROVE p = q
    OBVIOUS
  <2>1. p[1] \union p[2] = q[1] \union q[2] OBVIOUS
  <2>2. p[1] = q[1] /\ p[2] = q[2] BY <2>1, <1>4
  <2> QED BY <2>2
<1>7. \A s \in SUBSET (1 .. (m + n)) : \E p \in Pairs : f[p] = s
  <2> SUFFICES ASSUME NEW s \in SUBSET (1 .. (m + n)) PROVE \E p \in Pairs : f[p] = s
    OBVIOUS
  <2>1. <<s \intersect Low, s \intersect High>> \in Pairs OBVIOUS
  <2>2. f[<<s \intersect Low, s \intersect High>>] = s BY <2>1, <1>4
  <2> QED BY <2>1, <2>2
<1>8. f \in Bijection(Pairs, SUBSET (1 .. (m + n)))
  <2> HIDE DEF f, Pairs
  <2> QED BY <1>5, <1>6, <1>7 DEF Bijection, Injection, Surjection, IsInjective
<1>9. Cardinality(SUBSET (1 .. (m + n))) = Cardinality(Pairs)
  BY <1>3, <1>8, FS_Bijection DEF ExistsBijection
<1>10. PICK k \in Nat : k = m + n OBVIOUS
<1>11. Cardinality(SUBSET (1 .. k)) = 2^k BY PowerOfTwo
<1> QED BY <1>3, <1>9, <1>10, <1>11

\* A number below the modulus is its own remainder.
LEMMA Small ==
  ASSUME NEW m \in Nat \ {0}, NEW n \in 0 .. (m - 1)
  PROVE  n % m = n
<1>1. n = 0 * m + n OBVIOUS
<1> QED BY <1>1, DivisionIs

\* Powers of two grow, and double.
LEMMA PowersGrow ==
  ASSUME NEW m \in Nat, NEW n \in Nat, m <= n
  PROVE  2^m <= 2^n
<1>1. PICK k \in Nat : n = m + k
  <2>1. n - m \in Nat /\ n = m + (n - m) OBVIOUS
  <2> QED BY <2>1
<1>2. 2^n = 2^m * 2^k BY <1>1, PowersAdd
<1>3. 2^m \in Nat /\ 2^k \in Nat \ {0} BY PowerOfTwo
<1> QED BY <1>2, <1>3

\* A power of two is twice the one before it.
LEMMA Doubled ==
  ASSUME NEW n \in Nat \ {0}
  PROVE  2^n = 2 * 2^(n - 1) /\ 2^(n - 1) \in Nat \ {0}
<1>1. PICK k \in Nat : k = n - 1 OBVIOUS
<1>2. 2^(k + 1) = 2^k * 2^1 /\ 2^k \in Nat \ {0} BY PowersAdd, PowerOfTwo
<1>3. k + 1 = n /\ 2^1 = 2 BY <1>1
<1> QED BY <1>1, <1>2, <1>3

----
\* Comparisons

\* A pattern is made of its three fields.
LEMMA Fields ==
  ASSUME NEW f, f.E \in Nat \ {0}, f.F \in Nat \ {0},
         NEW u \in 0 .. (2 * Bits(f)!SignBit - 1)
  PROVE  LET S == Bits(f)!SignBit
             B == 2^f.F
             mag == Std(f)!Mag(u)
             e == Bits(f)!exp(u)
             m == Bits(f)!frac(u)
         IN /\ S \in Nat \ {0} /\ B \in Nat \ {0} /\ Std(f)!Sign = S
            /\ Bits(f)!MaxExp \in Nat \ {0} /\ Std(f)!Infinity = Bits(f)!MaxExp * B
            /\ mag \in 0 .. (S - 1) /\ Bits(f)!sign(u) \in {0, 1}
            /\ u = Bits(f)!sign(u) * S + mag
            /\ e \in 0 .. Bits(f)!MaxExp /\ m \in 0 .. (B - 1) /\ mag = e * B + m
<1> DEFINE S == Bits(f)!SignBit
           B == 2^f.F
           D == 2^f.E
           M == Bits(f)!MaxExp
           mag == Std(f)!Mag(u)
<1>1. B \in Nat \ {0} /\ D \in Nat \ {0} BY PowerOfTwo
<1>2. S = D * B BY PowersAdd DEF Bits!SignBit
<1>3. S \in Nat \ {0} BY <1>1, <1>2
<1>4. D = 2 * 2^(f.E - 1) /\ 2^(f.E - 1) \in Nat \ {0}
  <2>1. PICK k \in Nat : k = f.E - 1 OBVIOUS
  <2>2. 2^(k + 1) = 2^k * 2^1 /\ 2^k \in Nat \ {0} BY PowersAdd, PowerOfTwo
  <2>3. k + 1 = f.E /\ 2^1 = 2 BY <2>1
  <2> QED BY <2>1, <2>2, <2>3
<1>5. M = D - 1 /\ M \in Nat \ {0} BY <1>4 DEF Bits!MaxExp
<1>6. Std(f)!Sign = S /\ Std(f)!Infinity = M * B
  BY DEF Std!Sign, Std!Infinity, Bits!SignBit, Bits!MaxExp
<1> HIDE DEF S, B, D, M
<1>7. u \in 0 .. (2 * S - 1) BY DEF S
<1>8. u = (u \div S) * S + (u % S) /\ u \div S \in Int /\ u % S \in 0 .. (S - 1)
  BY <1>3, <1>7, Division
<1>9. Bits(f)!sign(u) = u \div S /\ mag = u % S
  BY <1>6 DEF Bits!sign, Std!Mag, S
<1>10. PICK s \in Int, g \in 0 .. (S - 1) : s = Bits(f)!sign(u) /\ g = mag /\ u = s * S + g
  BY <1>8, <1>9
<1>11. s \in {0, 1}
  <2>1. ~ (s < 0)
    <3> SUFFICES ASSUME s < 0 PROVE FALSE
      OBVIOUS
    <3>1. (s + 1) * S <= 0 * S BY <1>3
    <3> QED BY <3>1, <1>3, <1>7, <1>10
  <2>2. ~ (s > 1)
    <3> SUFFICES ASSUME s > 1 PROVE FALSE
      OBVIOUS
    <3>1. s * S >= 2 * S BY <1>3
    <3> QED BY <3>1, <1>3, <1>7, <1>10
  <2> QED BY <2>1, <2>2
<1>12. g = (g \div B) * B + (g % B) /\ g \div B \in Int /\ g % B \in 0 .. (B - 1)
  BY <1>1, <1>3, Division
<1>13. PICK e \in Int, m \in 0 .. (B - 1) : e = g \div B /\ m = g % B /\ g = e * B + m
  BY <1>12
<1>14. e \in 0 .. (D - 1)
  <2>1. ~ (e < 0)
    <3> SUFFICES ASSUME e < 0 PROVE FALSE
      OBVIOUS
    <3>1. (e + 1) * B <= 0 * B BY <1>1
    <3> QED BY <3>1, <1>1, <1>13, <1>3
  <2>2. ~ (e >= D)
    <3> SUFFICES ASSUME e >= D PROVE FALSE
      OBVIOUS
    <3>1. e * B >= D * B BY <1>1
    <3> QED BY <3>1, <1>1, <1>2, <1>3, <1>13
  <2> QED BY <1>1, <2>1, <2>2
<1>15. u \div B = s * D + e /\ u % B = m
  <2>1. PICK k \in Int : k = s * D + e
    BY <1>1, <1>11
  <2>2. (s * D) * B = s * S BY <1>1, <1>2, <1>11
  <2>3. PICK q \in Int : q = s * D
    BY <1>1, <1>11
  <2>4. (q + e) * B = q * B + e * B BY <1>1, <1>14, <2>3
  <2>5. u = k * B + m
    <3>1. k * B = s * S + e * B BY <2>1, <2>2, <2>3, <2>4
    <3> QED BY <1>1, <1>3, <1>10, <1>13, <3>1
  <2>6. u \in Int BY <1>3, <1>7
  <2> QED BY <1>1, <2>1, <2>5, <2>6, DivisionIs
<1>16. (s * D + e) % D = e
  <2>1. PICK k \in Int : k = s * D + e
    BY <1>1, <1>11
  <2> QED BY <1>1, <1>11, <1>14, <2>1, DivisionIs
<1>17. Bits(f)!exp(u) = e /\ Bits(f)!frac(u) = m
  BY <1>15, <1>16 DEF Bits!exp, Bits!frac, B, D
<1>18. /\ S \in Nat \ {0} /\ B \in Nat \ {0} /\ Std(f)!Sign = S
       /\ M \in Nat \ {0} /\ Std(f)!Infinity = M * B
       /\ mag \in 0 .. (S - 1) /\ Bits(f)!sign(u) \in {0, 1}
       /\ u = Bits(f)!sign(u) * S + mag
       /\ Bits(f)!exp(u) \in 0 .. M /\ Bits(f)!frac(u) \in 0 .. (B - 1)
       /\ mag = Bits(f)!exp(u) * B + Bits(f)!frac(u)
  BY <1>1, <1>3, <1>5, <1>6, <1>10, <1>11, <1>13, <1>14, <1>17
<1> QED BY <1>18 DEF S, B, M

\* Field by field or by magnitude, a pattern is of the same kind.
LEMMA KindsAgree ==
  ASSUME NEW f, f.E \in Nat \ {0}, f.F \in Nat \ {0},
         NEW u \in 0 .. (2 * Bits(f)!SignBit - 1)
  PROVE  /\ Bits(f)!isNaN(u) <=> Std(f)!IsNaN(u)
         /\ Bits(f)!isInf(u) <=> Std(f)!IsInf(u)
         /\ Bits(f)!isZero(u) <=> Std(f)!IsZero(u)
         /\ Bits(f)!isSigNaN(u) <=> Std(f)!IsSignaling(u)
         /\ (Bits(f)!sign(u) = 1) <=> Std(f)!Neg(u)
         /\ Bits(f)!exp(u) = 0 <=> Std(f)!Mag(u) < 2^f.F
         /\ Bits(f)!exp(u) = 0 => Bits(f)!frac(u) = Std(f)!Mag(u)
         /\ Bits(f)!exp(u) = Bits(f)!MaxExp <=> Std(f)!Mag(u) >= Std(f)!Infinity
         /\ Std(f)!Infinity >= 2^f.F
<1> DEFINE S == Bits(f)!SignBit
           B == 2^f.F
           M == Bits(f)!MaxExp
           I == Std(f)!Infinity
           mag == Std(f)!Mag(u)
           s == Bits(f)!sign(u)
           e == Bits(f)!exp(u)
           m == Bits(f)!frac(u)
<1>1. /\ S \in Nat \ {0} /\ B \in Nat \ {0} /\ Std(f)!Sign = S /\ M \in Nat \ {0} /\ I = M * B
      /\ mag \in 0 .. (S - 1) /\ s \in {0, 1} /\ u = s * S + mag
      /\ e \in 0 .. M /\ m \in 0 .. (B - 1) /\ mag = e * B + m
  BY Fields
<1>2. /\ Bits(f)!isNaN(u) <=> e = M /\ m # 0
      /\ Bits(f)!isInf(u) <=> e = M /\ m = 0
      /\ Bits(f)!isSigNaN(u) <=> e = M /\ m # 0 /\ m < 2^(f.F - 1)
  BY DEF Bits!isNaN, Bits!isInf, Bits!isSigNaN
<1>3. /\ Std(f)!IsNaN(u) <=> mag > I
      /\ Std(f)!IsInf(u) <=> mag = I
      /\ Std(f)!IsSignaling(u) <=> mag > I /\ mag - I < 2^(f.F - 1)
      /\ Std(f)!IsZero(u) <=> mag = 0
      /\ Bits(f)!isZero(u) <=> mag = 0
      /\ Std(f)!Neg(u) <=> u >= S
  BY <1>1 DEF Std!IsNaN, Std!IsInf, Std!IsSignaling, Std!IsZero, Bits!isZero, Std!Mag, Std!Neg
<1> HIDE DEF S, B, M, I, mag, s, e, m
<1>4. CASE e = M
  <2>1. mag = I + m BY <1>1, <1>4
  <2>2. I >= B BY <1>1
  <2> QED BY <1>1, <1>2, <1>3, <1>4, <2>1, <2>2 DEF S, B, M, I, mag, s, e, m
<1>5. CASE e # M
  <2>1. (e + 1) * B <= M * B BY <1>1, <1>5
  <2>2. mag < I BY <1>1, <2>1
  <2>3. I >= B BY <1>1
  <2>4. e = 0 <=> mag < B
    <3>1. CASE e = 0 BY <1>1, <3>1
    <3>2. CASE e # 0
      <4>1. e * B >= 1 * B BY <1>1, <3>2
      <4> QED BY <1>1, <3>2, <4>1
    <3> QED BY <3>1, <3>2
  <2>5. e = 0 => m = mag BY <1>1
  <2>6. s = 1 <=> u >= S BY <1>1
  <2> QED BY <1>1, <1>2, <1>3, <1>5, <2>2, <2>3, <2>4, <2>5, <2>6 DEF S, B, M, I, mag, s, e, m
<1> QED BY <1>4, <1>5

\* Patterns of unlike signs are ordered by sign but for the zeros,
\* patterns of one sign as integers, backwards below zero.
LEMMA OrderAgrees ==
  ASSUME NEW f, f.E \in Nat \ {0}, f.F \in Nat \ {0},
         NEW a \in 0 .. (2 * Bits(f)!SignBit - 1), NEW b \in 0 .. (2 * Bits(f)!SignBit - 1)
  PROVE  /\ Bits(f)!orderedLt(a, b) <=> Std(f)!Ord(a) < Std(f)!Ord(b)
         /\ Bits(f)!orderedLe(a, b) <=> Std(f)!Ord(a) <= Std(f)!Ord(b)
         /\ (a = b \/ Bits(f)!bothZero(a, b)) <=> Std(f)!Ord(a) = Std(f)!Ord(b)
<1> DEFINE S == Bits(f)!SignBit
           s(u) == Bits(f)!sign(u)
           mag(u) == Std(f)!Mag(u)
           ord(u) == Std(f)!Ord(u)
           less == (s(a) = 1) # (a < b)
<1>1. S \in Nat \ {0} BY Fields
<1>2. /\ mag(a) \in 0 .. (S - 1) /\ s(a) \in {0, 1} /\ a = s(a) * S + mag(a)
      /\ mag(b) \in 0 .. (S - 1) /\ s(b) \in {0, 1} /\ b = s(b) * S + mag(b)
  BY Fields
<1>3. /\ ord(a) = IF s(a) = 1 THEN - mag(a) ELSE mag(a)
      /\ ord(b) = IF s(b) = 1 THEN - mag(b) ELSE mag(b)
  BY KindsAgree DEF Std!Ord
<1>4. Bits(f)!bothZero(a, b) <=> mag(a) = 0 /\ mag(b) = 0
  BY KindsAgree DEF Bits!bothZero, Std!IsZero
<1>5. /\ Bits(f)!orderedLt(a, b) <=> IF s(a) # s(b) THEN s(a) = 1 /\ ~ Bits(f)!bothZero(a, b)
                                     ELSE a # b /\ less
      /\ Bits(f)!orderedLe(a, b) <=> IF s(a) # s(b) THEN s(a) = 1 \/ Bits(f)!bothZero(a, b)
                                     ELSE a = b \/ less
  BY DEF Bits!orderedLt, Bits!orderedLe
<1>6. less <=> (IF s(a) = 1 THEN ~ (a < b) ELSE a < b)
  <2>1. (s(a) = 1) \in BOOLEAN /\ (a < b) \in BOOLEAN OBVIOUS
  <2>2. \A p, q \in BOOLEAN : (p # q) <=> (IF p THEN ~ q ELSE q) OBVIOUS
  <2> HIDE DEF s
  <2> QED BY <2>1, <2>2, Zenon
<1> HIDE DEF S, s, mag, ord, less
<1>7. CASE s(a) = 0 /\ s(b) = 0
  BY <1>1, <1>2, <1>3, <1>4, <1>5, <1>6, <1>7 DEF ord
<1>8. CASE s(a) = 0 /\ s(b) = 1
  BY <1>1, <1>2, <1>3, <1>4, <1>5, <1>6, <1>8 DEF ord
<1>9. CASE s(a) = 1 /\ s(b) = 0
  BY <1>1, <1>2, <1>3, <1>4, <1>5, <1>6, <1>9 DEF ord
<1>10. CASE s(a) = 1 /\ s(b) = 1
  BY <1>1, <1>2, <1>3, <1>4, <1>5, <1>6, <1>10 DEF ord
<1> QED BY <1>2, <1>7, <1>8, <1>9, <1>10

\* The comparisons are the relations of that order, false of NaNs, with
\* the flags of their kind.
LEMMA ComparisonsAgree ==
  ASSUME NEW f, f.E \in Nat \ {0}, f.F \in Nat \ {0},
         NEW a \in 0 .. (2 * Bits(f)!SignBit - 1), NEW b \in 0 .. (2 * Bits(f)!SignBit - 1)
  PROVE  /\ Bits(f)!eq(a, b) =
              Std(f)!Relation(a, b, Std(f)!Ord(a) = Std(f)!Ord(b), FALSE)
         /\ Bits(f)!lt(a, b) =
              Std(f)!Relation(a, b, Std(f)!Ord(a) < Std(f)!Ord(b), TRUE)
         /\ Bits(f)!le(a, b) =
              Std(f)!Relation(a, b, Std(f)!Ord(a) <= Std(f)!Ord(b), TRUE)
         /\ Bits(f)!lt_quiet(a, b) =
              Std(f)!Relation(a, b, Std(f)!Ord(a) < Std(f)!Ord(b), FALSE)
         /\ Bits(f)!le_quiet(a, b) =
              Std(f)!Relation(a, b, Std(f)!Ord(a) <= Std(f)!Ord(b), FALSE)
<1> DEFINE nan == Bits(f)!eitherNaN(a, b)
           sig == Bits(f)!isSigNaN(a) \/ Bits(f)!isSigNaN(b)
<1>1. nan <=> Std(f)!Unordered(a, b)
  BY KindsAgree DEF Bits!eitherNaN, Std!Unordered
<1>2. sig <=> Std(f)!IsSignaling(a) \/ Std(f)!IsSignaling(b) BY KindsAgree
<1>3. sig => nan BY DEF Bits!eitherNaN, Bits!isSigNaN
<1>4. \A p \in BOOLEAN :
        /\ [z |-> ~ nan /\ p, flags |-> Bits(f)!quietFlags(a, b)] =
             Std(f)!Relation(a, b, p, FALSE)
        /\ [z |-> ~ nan /\ p, flags |-> Bits(f)!signalingFlags(a, b)] =
             Std(f)!Relation(a, b, p, TRUE)
  <2> SUFFICES ASSUME NEW p \in BOOLEAN
               PROVE  /\ [z |-> ~ nan /\ p, flags |-> Bits(f)!quietFlags(a, b)] =
                           Std(f)!Relation(a, b, p, FALSE)
                      /\ [z |-> ~ nan /\ p, flags |-> Bits(f)!signalingFlags(a, b)] =
                           Std(f)!Relation(a, b, p, TRUE)
    OBVIOUS
  <2>1. Bits(f)!quietFlags(a, b) =
          (IF (FALSE /\ Std(f)!Unordered(a, b)) \/ Std(f)!IsSignaling(a) \/ Std(f)!IsSignaling(b)
           THEN {"invalid"} ELSE {})
    BY <1>2 DEF Bits!quietFlags
  <2>2. Bits(f)!signalingFlags(a, b) =
          (IF (TRUE /\ Std(f)!Unordered(a, b)) \/ Std(f)!IsSignaling(a) \/ Std(f)!IsSignaling(b)
           THEN {"invalid"} ELSE {})
    BY <1>1, <1>2, <1>3 DEF Bits!signalingFlags
  <2>3. (~ nan /\ p) = (~ Std(f)!Unordered(a, b) /\ p) BY <1>1, Zenon
  <2> QED BY <2>1, <2>2, <2>3, Zenon DEF Std!Relation, Std!Result
<1> HIDE DEF nan
<1>5. /\ (~ nan /\ (a = b \/ Bits(f)!bothZero(a, b))) = (~ nan /\ Std(f)!Ord(a) = Std(f)!Ord(b))
      /\ (~ nan /\ Bits(f)!orderedLt(a, b)) = (~ nan /\ Std(f)!Ord(a) < Std(f)!Ord(b))
      /\ (~ nan /\ Bits(f)!orderedLe(a, b)) = (~ nan /\ Std(f)!Ord(a) <= Std(f)!Ord(b))
  <2>1. /\ Bits(f)!orderedLt(a, b) <=> Std(f)!Ord(a) < Std(f)!Ord(b)
        /\ Bits(f)!orderedLe(a, b) <=> Std(f)!Ord(a) <= Std(f)!Ord(b)
        /\ (a = b \/ Bits(f)!bothZero(a, b)) <=> Std(f)!Ord(a) = Std(f)!Ord(b)
    BY OrderAgrees
  <2> QED BY <2>1, Zenon
<1>6. /\ (Std(f)!Ord(a) = Std(f)!Ord(b)) \in BOOLEAN
      /\ (Std(f)!Ord(a) < Std(f)!Ord(b)) \in BOOLEAN
      /\ (Std(f)!Ord(a) <= Std(f)!Ord(b)) \in BOOLEAN
  OBVIOUS
<1>7. /\ Bits(f)!eq(a, b) = [z |-> ~ nan /\ Std(f)!Ord(a) = Std(f)!Ord(b),
                             flags |-> Bits(f)!quietFlags(a, b)]
      /\ Bits(f)!lt(a, b) = [z |-> ~ nan /\ Std(f)!Ord(a) < Std(f)!Ord(b),
                             flags |-> Bits(f)!signalingFlags(a, b)]
      /\ Bits(f)!le(a, b) = [z |-> ~ nan /\ Std(f)!Ord(a) <= Std(f)!Ord(b),
                             flags |-> Bits(f)!signalingFlags(a, b)]
      /\ Bits(f)!lt_quiet(a, b) = [z |-> ~ nan /\ Std(f)!Ord(a) < Std(f)!Ord(b),
                                   flags |-> Bits(f)!quietFlags(a, b)]
      /\ Bits(f)!le_quiet(a, b) = [z |-> ~ nan /\ Std(f)!Ord(a) <= Std(f)!Ord(b),
                                   flags |-> Bits(f)!quietFlags(a, b)]
  BY <1>5, Zenon DEF nan, Bits!eq, Bits!lt, Bits!le, Bits!lt_quiet, Bits!le_quiet
<1> QED BY <1>4, <1>6, <1>7, Zenon

\* Exactly one bit of the class mask is set, that of the class.
LEMMA ClassAgrees ==
  ASSUME NEW f, f.E \in Nat \ {0}, f.F \in Nat \ {0},
         NEW u \in 0 .. (2 * Bits(f)!SignBit - 1)
  PROVE  Bits(f)!classify(u) = {Std(f)!Class(u)}
<1> DEFINE e0 == Bits(f)!exp(u) = 0
           eM == Bits(f)!exp(u) = Bits(f)!MaxExp
           m0 == Bits(f)!frac(u) = 0
           nan == Bits(f)!isNaN(u)
           inf == Bits(f)!isInf(u)
           sig == Bits(f)!isSigNaN(u)
           s == Bits(f)!sign(u) = 1
           mag == Std(f)!Mag(u)
           I == Std(f)!Infinity
           B == 2^f.F
           c == Std(f)!Class(u)
<1>1. mag \in Nat /\ I \in Nat /\ B \in Nat \ {0}
  <2>1. /\ mag \in 0 .. (Bits(f)!SignBit - 1) /\ Bits(f)!SignBit \in Nat \ {0}
        /\ Bits(f)!MaxExp \in Nat \ {0} /\ B \in Nat \ {0} /\ I = Bits(f)!MaxExp * B
    BY Fields
  <2> QED BY <2>1
<1>2. /\ nan <=> mag > I
      /\ inf <=> mag = I
      /\ sig <=> Std(f)!IsSignaling(u)
      /\ s <=> Std(f)!Neg(u)
      /\ e0 <=> mag < B
      /\ e0 => (m0 <=> mag = 0)
      /\ eM <=> mag >= I
      /\ I >= B
  BY KindsAgree DEF Std!IsNaN, Std!IsInf
<1>3. c = (IF mag > I THEN IF sig THEN 8 ELSE 9
           ELSE LET k == IF mag = I THEN 0 ELSE IF mag >= B THEN 1
                         ELSE IF mag > 0 THEN 2 ELSE 3
                IN IF s THEN k ELSE 7 - k)
  BY <1>2 DEF Std!Class, Std!IsNaN, Std!IsInf
<1>4. \A n \in 0 .. 9 :
        n \in Bits(f)!classify(u) <=>
          \/ n = 0 /\ s /\ inf
          \/ n = 1 /\ s /\ ~ eM /\ ~ e0
          \/ n = 2 /\ s /\ e0 /\ ~ m0
          \/ n = 3 /\ s /\ e0 /\ m0
          \/ n = 4 /\ ~ s /\ e0 /\ m0
          \/ n = 5 /\ ~ s /\ e0 /\ ~ m0
          \/ n = 6 /\ ~ s /\ ~ eM /\ ~ e0
          \/ n = 7 /\ ~ s /\ inf
          \/ n = 8 /\ nan /\ sig
          \/ n = 9 /\ nan /\ ~ sig
  <2> SUFFICES ASSUME NEW n \in 0 .. 9
               PROVE  n \in Bits(f)!classify(u) <=>
          \/ n = 0 /\ s /\ inf
          \/ n = 1 /\ s /\ ~ eM /\ ~ e0
          \/ n = 2 /\ s /\ e0 /\ ~ m0
          \/ n = 3 /\ s /\ e0 /\ m0
          \/ n = 4 /\ ~ s /\ e0 /\ m0
          \/ n = 5 /\ ~ s /\ e0 /\ ~ m0
          \/ n = 6 /\ ~ s /\ ~ eM /\ ~ e0
          \/ n = 7 /\ ~ s /\ inf
          \/ n = 8 /\ nan /\ sig
          \/ n = 9 /\ nan /\ ~ sig
    OBVIOUS
  <2> HIDE DEF nan, inf, sig
  <2>1. CASE n = 0 BY <2>1 DEF Bits!classify, nan, inf, sig
  <2>2. CASE n = 1 BY <2>2 DEF Bits!classify, nan, inf, sig
  <2>3. CASE n = 2 BY <2>3 DEF Bits!classify, nan, inf, sig
  <2>4. CASE n = 3 BY <2>4 DEF Bits!classify, nan, inf, sig
  <2>5. CASE n = 4 BY <2>5 DEF Bits!classify, nan, inf, sig
  <2>6. CASE n = 5 BY <2>6 DEF Bits!classify, nan, inf, sig
  <2>7. CASE n = 6 BY <2>7 DEF Bits!classify, nan, inf, sig
  <2>8. CASE n = 7 BY <2>8 DEF Bits!classify, nan, inf, sig
  <2>9. CASE n = 8 BY <2>9 DEF Bits!classify, nan, inf, sig
  <2>10. CASE n = 9 BY <2>10 DEF Bits!classify, nan, inf, sig
  <2> QED BY <2>1, <2>2, <2>3, <2>4, <2>5, <2>6, <2>7, <2>8, <2>9, <2>10
<1>5. Bits(f)!classify(u) \subseteq 0 .. 9 BY DEF Bits!classify
<1> HIDE DEF e0, eM, m0, nan, inf, sig, s, mag, I, B, c
<1>6. c \in 0 .. 9 BY <1>1, <1>3
<1>7. \A n \in 0 .. 9 : n \in Bits(f)!classify(u) <=> n = c
  BY <1>1, <1>2, <1>3, <1>4
<1> QED BY <1>5, <1>6, <1>7 DEF c

\* fmin and fmax go by the quiet comparison, which is not asked when rs2
\* is a NaN.
LEMMA ExtremesAgree ==
  ASSUME NEW fmt \in {"S", "D"}, NEW a \in Encodings(fmt), NEW b \in Encodings(fmt)
  PROVE  LET f == FormatOf(fmt)
         IN /\ fmin(fmt, a, b) = Std(f)!Extreme(a, b, Std(f)!Ord(a) < Std(f)!Ord(b))
            /\ fmax(fmt, a, b) = Std(f)!Extreme(a, b, Std(f)!Ord(a) >= Std(f)!Ord(b))
<1> DEFINE f == FormatOf(fmt)
           oa == Std(f)!Ord(a)
           ob == Std(f)!Ord(b)
           nanA == Std(f)!IsNaN(a)
           nanB == Std(f)!IsNaN(b)
           sigA == Std(f)!IsSignaling(a)
           min == Bits(f)!lt_quiet(a, b)
           max == Bits(f)!le_quiet(b, a)
<1>1. f.E \in Nat \ {0} /\ f.F \in Nat \ {0}
  BY ComparedAssumption DEF FormatOf
<1>2. a \in 0 .. (2 * Bits(f)!SignBit - 1) /\ b \in 0 .. (2 * Bits(f)!SignBit - 1)
  BY DEF Encodings
<1> HIDE DEF f
<1>3. isNaN(fmt, b) <=> nanB BY <1>1, <1>2, KindsAgree DEF isNaN, f
<1>4. min = Std(f)!Relation(a, b, oa < ob, FALSE) /\ max = Std(f)!Relation(b, a, ob <= oa, FALSE)
  BY <1>1, <1>2, ComparisonsAgree
<1>5. (sigA => nanA) /\ (Std(f)!IsSignaling(b) => nanB)
  BY DEF Std!IsSignaling
<1>6. /\ nanB => /\ fmin(fmt, a, b) = quiet(a)
                 /\ fmax(fmt, a, b) = quiet(a)
      /\ ~ nanB => /\ fmin(fmt, a, b) = [z |-> IF min.z THEN a ELSE b, flags |-> min.flags]
                   /\ fmax(fmt, a, b) = [z |-> IF max.z THEN a ELSE b, flags |-> max.flags]
  BY <1>3, Zenon DEF fmin, fmax, f64_lt_quiet, f64_le_quiet, f, FormatOf
<1>7. oa \in Int /\ ob \in Int
  <2>1. \A u \in {a, b} : Std(f)!Mag(u) \in Int
    <3> SUFFICES ASSUME NEW u \in {a, b} PROVE Std(f)!Mag(u) \in Int
      OBVIOUS
    <3>1. Std(f)!Mag(u) \in 0 .. (Bits(f)!SignBit - 1) /\ Bits(f)!SignBit \in Nat \ {0}
      BY <1>1, <1>2, Fields
    <3> QED BY <3>1
  <2> QED BY <2>1 DEF Std!Ord
<1>8. (ob <= oa) = (oa >= ob) BY <1>7
<1> HIDE DEF oa, ob
<1>9. CASE nanB BY <1>6, <1>9 DEF Std!Extreme, Std!Result, quiet, f, oa, ob
<1>10. CASE ~ nanB
  <2> HIDE DEF min, max
  <2>0. /\ min.z = (~ Std(f)!Unordered(a, b) /\ oa < ob)
        /\ max.z = (~ Std(f)!Unordered(b, a) /\ ob <= oa)
    BY <1>4 DEF Std!Relation, Std!Result
  <2>1. min.z <=> ~ nanA /\ oa < ob BY <1>10, <2>0, Zenon DEF Std!Unordered
  <2>2. max.z <=> ~ nanA /\ oa >= ob
    BY <1>8, <1>10, <2>0, Zenon DEF Std!Unordered
  <2>3. min.flags = IF sigA THEN {"invalid"} ELSE {}
    BY <1>4, <1>5, <1>10 DEF Std!Relation, Std!Result
  <2>4. max.flags = IF sigA THEN {"invalid"} ELSE {}
    BY <1>4, <1>5, <1>10 DEF Std!Relation, Std!Result
  <2>5. Std(f)!Extreme(a, b, oa < ob) =
          [z |-> IF min.z THEN a ELSE b, flags |-> min.flags]
    BY <1>10, <2>1, <2>3 DEF Std!Extreme, Std!Result
  <2>6. Std(f)!Extreme(a, b, oa >= ob) =
          [z |-> IF max.z THEN a ELSE b, flags |-> max.flags]
    BY <1>10, <2>2, <2>4 DEF Std!Extreme, Std!Result
  <2> QED BY <1>6, <1>10, <2>5, <2>6 DEF f, oa, ob
<1> QED BY <1>9, <1>10

\* fsgnj, fsgnjn and fsgnjx keep the magnitude and set one sign.
LEMMA SignsAgree ==
  ASSUME NEW fmt \in {"S", "D"}, NEW a \in Encodings(fmt), NEW b \in Encodings(fmt)
  PROVE  LET f == FormatOf(fmt)
             sa == Std(f)!SignOf(a)
             sb == Std(f)!SignOf(b)
         IN /\ quiet(fsgnj(fmt, a, b)) = Std(f)!Injected(sb, a)
            /\ quiet(fsgnjn(fmt, a, b)) = Std(f)!Injected(1 - sb, a)
            /\ quiet(fsgnjx(fmt, a, b)) = Std(f)!Injected((sa + sb) % 2, a)
<1> DEFINE f == FormatOf(fmt)
           S == SignBit(fmt)
           sa == Std(f)!SignOf(a)
           sb == Std(f)!SignOf(b)
           mag == Std(f)!Mag(a)
<1>1. f.E \in Nat \ {0} /\ f.F \in Nat \ {0}
  BY ComparedAssumption DEF FormatOf
<1>2. a \in 0 .. (2 * S - 1) /\ b \in 0 .. (2 * S - 1)
  BY DEF Encodings, SignBit
<1> HIDE DEF f
<1>3. S = Bits(f)!SignBit BY DEF SignBit, f
<1>4. /\ S \in Nat \ {0} /\ Std(f)!Sign = S /\ mag \in 0 .. (S - 1)
      /\ Bits(f)!sign(a) \in {0, 1} /\ a = Bits(f)!sign(a) * S + mag
  BY <1>1, <1>2, <1>3, Fields
<1>5. mag = a % S BY <1>4 DEF Std!Mag
<1>6. sa = (IF a >= S THEN 1 ELSE 0) /\ sb = (IF b >= S THEN 1 ELSE 0)
  BY <1>4 DEF Std!SignOf, Std!Neg
<1>7. \A s : Std(f)!Injected(s, a) = quiet(IF s = 1 THEN mag + S ELSE mag)
  BY <1>4 DEF Std!Injected, Std!Signed, Std!Result, quiet
<1> HIDE DEF S, mag, sa, sb
<1>8. (a >= S => a = mag + S) /\ (~ (a >= S) => a = mag) BY <1>2, <1>4
<1>9. fsgnj(fmt, a, b) = IF sb = 1 THEN mag + S ELSE mag
  BY <1>4, <1>5, <1>6 DEF fsgnj, neg, S
<1>10. fsgnjn(fmt, a, b) = IF 1 - sb = 1 THEN mag + S ELSE mag
  <2>1. (flip(fmt, b) >= S) <=> ~ (b >= S) BY <1>2, <1>4 DEF flip, neg, S
  <2> QED BY <1>4, <1>5, <1>6, <2>1 DEF fsgnjn, fsgnj, neg, S
<1>11. fsgnjx(fmt, a, b) = IF (sa + sb) % 2 = 1 THEN mag + S ELSE mag
  <2>1. fsgnjx(fmt, a, b) = IF b >= S THEN IF a >= S THEN a - S ELSE a + S ELSE a
    BY DEF fsgnjx, flip, neg, S
  <2> QED BY <1>2, <1>4, <1>6, <1>8, <2>1
<1> QED BY <1>7, <1>9, <1>10, <1>11 DEF f, sa, sb

\* The operands of a comparison, a move or a classification.
LEMMA ComparisonIsOrdered ==
  ASSUME NEW op \in OrderedOps, NEW fmt \in {"S", "D"}, NEW x,
         x[1] \in Encodings(fmt), op # "fclass" => x[2] \in Encodings(fmt)
  PROVE  Comparison(op, fmt, x) = Ordered(op, fmt, x)
<1> DEFINE f == FormatOf(fmt)
           a == x[1]
           b == x[2]
<1>1. f.E \in Nat \ {0} /\ f.F \in Nat \ {0}
  BY ComparedAssumption DEF FormatOf
<1> HIDE DEF f
<1>2. a \in 0 .. (2 * Bits(f)!SignBit - 1) BY DEF Encodings, f
<1>3. CASE op = "fclass"
  <2>1. Bits(f)!classify(a) = {Std(f)!Class(a)} BY <1>1, <1>2, ClassAgrees
  <2>2. fclass(fmt, a) = quiet({Std(f)!Class(a)})
    BY <2>1, Zenon DEF fclass, f64_classify, f, FormatOf
  <2>3. Comparison(op, fmt, x) = fclass(fmt, a) BY <1>3 DEF Comparison
  <2>4. Ordered(op, fmt, x) = Std(f)!Result({Std(f)!Class(a)}, {})
    BY <1>3 DEF Ordered, Std!Ordered, f
  <2> QED BY <2>2, <2>3, <2>4 DEF quiet, Std!Result
<1>4. CASE op # "fclass"
  <2>1. b \in Encodings(fmt) /\ b \in 0 .. (2 * Bits(f)!SignBit - 1)
    BY <1>4 DEF Encodings, f
  <2>2. /\ feq(fmt, a, b) = Std(f)!Relation(a, b, Std(f)!Ord(a) = Std(f)!Ord(b), FALSE)
        /\ flt(fmt, a, b) = Std(f)!Relation(a, b, Std(f)!Ord(a) < Std(f)!Ord(b), TRUE)
        /\ fle(fmt, a, b) = Std(f)!Relation(a, b, Std(f)!Ord(a) <= Std(f)!Ord(b), TRUE)
    <3>1. /\ Bits(f)!eq(a, b) = Std(f)!Relation(a, b, Std(f)!Ord(a) = Std(f)!Ord(b), FALSE)
          /\ Bits(f)!lt(a, b) = Std(f)!Relation(a, b, Std(f)!Ord(a) < Std(f)!Ord(b), TRUE)
          /\ Bits(f)!le(a, b) = Std(f)!Relation(a, b, Std(f)!Ord(a) <= Std(f)!Ord(b), TRUE)
      BY <1>1, <1>2, <2>1, ComparisonsAgree
    <3>2. /\ feq(fmt, a, b) = Bits(f)!eq(a, b)
          /\ flt(fmt, a, b) = Bits(f)!lt(a, b)
          /\ fle(fmt, a, b) = Bits(f)!le(a, b)
      BY Zenon DEF feq, flt, fle, f64_eq, f64_lt, f64_le, f, FormatOf
    <3> QED BY <3>1, <3>2
  <2>3. /\ fmin(fmt, a, b) = Std(f)!Extreme(a, b, Std(f)!Ord(a) < Std(f)!Ord(b))
        /\ fmax(fmt, a, b) = Std(f)!Extreme(a, b, Std(f)!Ord(a) >= Std(f)!Ord(b))
    BY <2>1, ExtremesAgree DEF f
  <2>4. /\ quiet(fsgnj(fmt, a, b)) = Std(f)!Injected(Std(f)!SignOf(b), a)
        /\ quiet(fsgnjn(fmt, a, b)) = Std(f)!Injected(1 - Std(f)!SignOf(b), a)
        /\ quiet(fsgnjx(fmt, a, b)) =
             Std(f)!Injected((Std(f)!SignOf(a) + Std(f)!SignOf(b)) % 2, a)
    BY <2>1, SignsAgree DEF f
  <2>5. CASE op = "feq"
    BY <2>2, <2>5 DEF Comparison, Ordered, Std!Ordered, f
  <2>6. CASE op = "flt"
    BY <2>2, <2>6 DEF Comparison, Ordered, Std!Ordered, f
  <2>7. CASE op = "fle"
    BY <2>2, <2>7 DEF Comparison, Ordered, Std!Ordered, f
  <2>8. CASE op = "fmin"
    BY <2>3, <2>8 DEF Comparison, Ordered, Std!Ordered, f
  <2>9. CASE op = "fmax"
    BY <2>3, <2>9 DEF Comparison, Ordered, Std!Ordered, f
  <2>10. CASE op = "fsgnj"
    BY <2>4, <2>10 DEF Comparison, Ordered, Std!Ordered, f
  <2>11. CASE op = "fsgnjn"
    BY <2>4, <2>11 DEF Comparison, Ordered, Std!Ordered, f
  <2>12. CASE op = "fsgnjx"
    BY <2>4, <2>12 DEF Comparison, Ordered, Std!Ordered, f
  <2> QED BY <1>4, <2>5, <2>6, <2>7, <2>8, <2>9, <2>10, <2>11, <2>12
       DEF OrderedOps, Compare2, Move2
<1> QED BY <1>3, <1>4

\* What the standard promises of them raises no flag but invalid.
LEMMA OrderedFlags ==
  ASSUME NEW op \in OrderedOps, NEW fmt, NEW x
  PROVE  /\ DOMAIN Ordered(op, fmt, x) = {"z", "flags"}
         /\ Ordered(op, fmt, x) = [z |-> Ordered(op, fmt, x).z,
                                   flags |-> Ordered(op, fmt, x).flags]
         /\ Ordered(op, fmt, x).flags \subseteq {"invalid"}
         /\ op \notin Compare2 => Ordered(op, fmt, x).flags = {}
<1> USE DEF Ordered, Std!Ordered, Std!Relation, Std!Extreme, Std!Injected, Std!Result,
            OrderedOps, Compare2, Move2
<1>1. CASE op \in {"feq", "flt", "fle"} BY <1>1
<1>2. CASE op \in {"fmin", "fmax"} BY <1>2
<1>3. CASE op \in {"fsgnj", "fsgnjn", "fsgnjx", "fclass"} BY <1>3
<1> QED BY <1>1, <1>2, <1>3

----
\* The integer instructions

\* The signed integer of a word, without a case.
LEMMA SignedIs ==
  ASSUME NEW v \in Int, NEW h \in Nat \ {0}, NEW m \in Nat, m = 2 * h
  PROVE  ((v + h) % m) - h = IF v % m >= h THEN (v % m) - m ELSE v % m
<1> DEFINE k == v \div m
           r == v % m
<1>0. m \in Nat \ {0} OBVIOUS
<1>1. v = k * m + r /\ k \in Int /\ r \in 0 .. (m - 1) BY <1>0, Division
<1> HIDE DEF k, r
<1>2. CASE r >= h
  <2>1. v + h = (k + 1) * m + (r - h) /\ r - h \in 0 .. (m - 1)
    BY <1>1, <1>2
  <2>2. v + h \in Int /\ k + 1 \in Int /\ m \in Nat \ {0} BY <1>1
  <2>3. (v + h) % m = r - h BY <2>1, <2>2, DivisionIs
  <2> QED BY <2>3, <1>1, <1>2 DEF r
<1>3. CASE r < h
  <2>1. v + h = k * m + (r + h) /\ r + h \in 0 .. (m - 1) BY <1>1, <1>3
  <2>2. (v + h) % m = r + h BY <1>1, <2>1, DivisionIs
  <2> QED BY <2>2, <1>1, <1>3 DEF r
<1> QED BY <1>1, <1>2, <1>3

\* The high word of a negated product.
LEMMA NegatedProduct ==
  ASSUME NEW p \in Nat, NEW m \in Nat \ {0}
  PROVE  ((-p) \div m) = IF p % m = 0 THEN -(p \div m) ELSE -(p \div m) - 1
<1> DEFINE k == p \div m
           r == p % m
<1>1. p = k * m + r /\ k \in Int /\ r \in 0 .. (m - 1) BY Division
<1> HIDE DEF k, r
<1>2. CASE r = 0
  <2>1. -p = (-k) * m + 0 BY <1>1, <1>2
  <2>2. (-p) \div m = -k BY <1>1, <2>1, DivisionIs
  <2> QED BY <2>2, <1>2 DEF k, r
<1>3. CASE r # 0
  <2>1. -p = (-k - 1) * m + (m - r) /\ m - r \in 0 .. (m - 1) BY <1>1, <1>3
  <2>2. (-p) \div m = -k - 1 BY <1>1, <2>1, DivisionIs
  <2> QED BY <2>2, <1>3 DEF k, r
<1> QED BY <1>2, <1>3

\* The product by halves: none of the three sums reaches h * h.
LEMMA ProductByHalves ==
  ASSUME NEW h \in Nat \ {0}, NEW a \in 0 .. (h * h - 1), NEW b \in 0 .. (h * h - 1)
  PROVE  LET a0 == a % h
             a1 == a \div h
             b0 == b % h
             b1 == b \div h
             t1 == a1 * b0 + ((a0 * b0) \div h)
             t2 == a0 * b1 + (t1 % h)
             t3 == a1 * b1 + (t1 \div h) + (t2 \div h)
         IN /\ t1 \in 0 .. (h * h - 1) /\ t2 \in 0 .. (h * h - 1)
            /\ t3 \in 0 .. (h * h - 1) /\ t3 = (a * b) \div (h * h)
<1> DEFINE a0 == a % h
           a1 == a \div h
           b0 == b % h
           b1 == b \div h
           c == (a0 * b0) \div h
           y0 == (a0 * b0) % h
           t1 == a1 * b0 + c
           t2 == a0 * b1 + (t1 % h)
           u1 == t1 \div h
           u2 == t2 \div h
           y1 == t1 % h
           y2 == t2 % h
           t3 == a1 * b1 + u1 + u2
           top == h - 1
<1> HIDE DEF a0, a1, b0, b1, c, y0, t1, t2, u1, u2, y1, y2, t3, top
<1>0. h * h \in Nat \ {0} /\ top \in Nat /\ h = top + 1  BY DEF top
<1>h. /\ a \in Nat /\ b \in Nat /\ a < h * h /\ b < h * h
  OBVIOUS
<1>1. /\ a = a1 * h + a0 /\ a0 \in 0 .. top /\ a1 \in Int
      /\ b = b1 * h + b0 /\ b0 \in 0 .. top /\ b1 \in Int
  BY <1>h, Division DEF a0, a1, b0, b1, top
<1>2. ASSUME NEW x \in Nat, NEW x0 \in 0 .. top, NEW x1 \in Int, x = x1 * h + x0, x < h * h
      PROVE  x1 \in 0 .. top
  <2>1. ~ (x1 < 0)
    <3> SUFFICES ASSUME x1 < 0 PROVE FALSE
      OBVIOUS
    <3>1. (x1 + 1) * h <= 0 * h BY <1>0
    <3> QED BY <3>1, <1>2, <1>0
  <2>2. ~ (x1 >= h)
    <3> SUFFICES ASSUME x1 >= h PROVE FALSE
      OBVIOUS
    <3>1. x1 * h >= h * h BY <1>0
    <3> QED BY <3>1, <1>2, <1>0
  <2> QED BY <2>1, <2>2, <1>0
<1>3. a1 \in 0 .. top /\ b1 \in 0 .. top BY <1>h, <1>1, <1>2
<1>4. ASSUME NEW x \in 0 .. top, NEW y \in 0 .. top, NEW z \in 0 .. top
      PROVE  x * y + z \in 0 .. (h * h - 1) /\ x * y \in Nat
  <2>1. 0 <= x * y /\ x * y <= top * top BY <1>0
  <2>2. h * h = top * top + 2 * top + 1 BY <1>0
  <2> QED BY <2>1, <2>2, <1>0
<1>5. ASSUME NEW x \in 0 .. (h * h - 1)
      PROVE  /\ x = (x \div h) * h + (x % h)
             /\ x % h \in 0 .. top /\ x \div h \in 0 .. top
  <2>1. x = (x \div h) * h + (x % h) /\ x % h \in 0 .. top /\ x \div h \in Int
    BY <1>0, Division DEF top
  <2> QED BY <2>1, <1>0, <1>2
<1>6. a0 * b0 \in 0 .. (h * h - 1)
  <2>1. a0 * b0 + 0 \in 0 .. (h * h - 1) /\ 0 \in 0 .. top /\ a0 * b0 \in Nat
    BY <1>4, <1>1, <1>0
  <2> QED BY <2>1
<1>7. a0 * b0 = c * h + y0 /\ c \in 0 .. top /\ y0 \in 0 .. top
  <2>1. PICK x \in 0 .. (h * h - 1) : x = a0 * b0
    BY <1>6
  <2>2. x = (x \div h) * h + (x % h) /\ x % h \in 0 .. top /\ x \div h \in 0 .. top
    BY <1>5
  <2>3. c = x \div h /\ y0 = x % h BY <2>1 DEF c, y0
  <2> QED BY <2>1, <2>2, <2>3
<1>8. t1 \in 0 .. (h * h - 1) BY <1>1, <1>3, <1>4, <1>7 DEF t1
<1>9. t1 = u1 * h + y1 /\ u1 \in 0 .. top /\ y1 \in 0 .. top
  BY <1>5, <1>8 DEF u1, y1
<1>10. t2 = a0 * b1 + y1 BY DEF t2, y1
<1>11. t2 \in 0 .. (h * h - 1) BY <1>1, <1>3, <1>4, <1>9, <1>10
<1>12. t2 = u2 * h + y2 /\ u2 \in 0 .. top /\ y2 \in 0 .. top
  BY <1>5, <1>11 DEF u2, y2
<1>13. a * b = t3 * (h * h) + (y2 * h + y0)
  <2>1. a * b = a1 * b1 * (h * h) + (a1 * b0) * h + (a0 * b1) * h + a0 * b0
    BY <1>1
  <2>2. a1 * b0 = u1 * h + y1 - c BY <1>9, <1>1, <1>3, <1>7 DEF t1
  <2>3. a0 * b1 = u2 * h + y2 - y1 BY <1>10, <1>12, <1>1, <1>3, <1>9
  <2>4. a * b = a1 * b1 * (h * h) + (u1 * h + y1 - c) * h + (u2 * h + y2 - y1) * h + (c * h + y0)
    BY <2>1, <2>2, <2>3, <1>7
  <2> QED BY <2>4, <1>1, <1>3, <1>7, <1>9, <1>12 DEF t3
<1>14. y2 * h + y0 \in 0 .. (h * h - 1)
  <2>1. y2 * top + y2 \in Nat /\ y2 * h = y2 * top + y2 BY <1>12, <1>0
  <2>2. y2 * h <= top * h BY <1>12, <1>0
  <2> QED BY <2>1, <2>2, <1>7, <1>12, <1>0
<1>15. t3 \in Int /\ a * b \in Nat BY <1>1, <1>3, <1>9, <1>12, <1>h DEF t3
<1>16. t3 = (a * b) \div (h * h)
  <2>1. PICK n \in Int : n = a * b
    BY <1>15
  <2>2. PICK d \in Nat \ {0} : d = h * h
    BY <1>0
  <2>3. PICK r \in 0 .. (d - 1) : r = y2 * h + y0
    BY <1>14, <2>2
  <2>4. n = t3 * d + r BY <1>13, <2>1, <2>2, <2>3
  <2> QED BY <1>15, <2>1, <2>2, <2>4, DivisionIs
<1>17. t3 \in 0 .. (h * h - 1)
  <2>1. a1 * b1 \in Nat /\ a1 * b1 + u1 \in 0 .. (h * h - 1)
    BY <1>3, <1>4, <1>9
  <2>2. a1 * b1 <= top * top BY <1>3, <1>0
  <2>3. t3 <= top * top + top + top
    BY <2>1, <2>2, <1>3, <1>9, <1>12, <1>0 DEF t3
  <2>4. h * h = top * top + 2 * top + 1 BY <1>0
  <2> QED BY <2>1, <2>3, <2>4, <1>0, <1>12, <1>15 DEF t3
<1> QED BY <1>8, <1>11, <1>16, <1>17 DEF t3, u1, u2, t2, t1, c, a0, a1, b0, b1

\* The powers of two the integer instructions are about.
LEMMA Sizes ==
  /\ 2^HI \in Nat \ {0} /\ 2^(HI - 1) \in Nat \ {0}
  /\ 2^XLEN \in Nat \ {0} /\ 2^(XLEN - 1) \in Nat \ {0}
  /\ 2^HI = 2 * 2^(HI - 1)
  /\ 2^XLEN = 2 * 2^(XLEN - 1)
  /\ 2^XLEN = 2^HI * 2^HI
<1>1. HI \in Nat /\ HI - 1 \in Nat /\ XLEN \in Nat /\ XLEN - 1 \in Nat
  BY HIAssumption DEF XLEN
<1>2. 2^1 = 2 OBVIOUS
<1>3. ASSUME NEW n \in Nat, n - 1 \in Nat PROVE 2^n = 2 * 2^(n - 1)
  <2>1. PICK k \in Nat : k = n - 1
    BY <1>3
  <2>2. 2^(k + 1) = 2^k * 2^1 BY PowersAdd
  <2>3. k + 1 = n BY <2>1
  <2>4. 2^k \in Nat BY PowerOfTwo
  <2> QED BY <2>1, <2>2, <2>3, <2>4, <1>2
<1>4. 2^(HI + HI) = 2^HI * 2^HI /\ HI + HI = XLEN
  BY <1>1, PowersAdd DEF XLEN
<1> QED BY <1>1, <1>3, <1>4, PowerOfTwo

\* mulhu, on half words, is the upper half of the product.
LEMMA MulhuIsExact ==
  ASSUME NEW a \in Registers, NEW b \in Registers
  PROVE  mulhu(a, b) = (a * b) \div 2^XLEN /\ mulhu(a, b) \in Registers
<1> DEFINE h == 2^HI
           m == 2^XLEN
<1>1. h \in Nat \ {0} /\ m = h * h /\ m \in Nat \ {0} BY Sizes
<1>2. a \in 0 .. (h * h - 1) /\ b \in 0 .. (h * h - 1) BY <1>1 DEF Registers
<1>3. \A z \in 0 .. (m - 1) : word(z) = z BY <1>1 DEF word
<1> DEFINE c == ((a % h) * (b % h)) \div h
           t1 == (a \div h) * (b % h) + c
           t2 == (a % h) * (b \div h) + (t1 % h)
           t3 == (a \div h) * (b \div h) + (t1 \div h) + (t2 \div h)
<1>4. /\ t1 \in 0 .. (m - 1) /\ t2 \in 0 .. (m - 1)
      /\ t3 \in 0 .. (m - 1) /\ t3 = (a * b) \div m
  <2> HIDE DEF h, m
  <2> QED BY <1>1, <1>2, ProductByHalves
<1> HIDE DEF m
<1>5. mulhu(a, b) = t3
  <2>1. word(t1) = t1 /\ word(t2) = t2 /\ word(t3) = t3 BY <1>3, <1>4
  <2>2. mulhu(a, b) = word((a \div h) * (b \div h) + (word(t1) \div h)
                         + (word((a % h) * (b \div h) + (word(t1) % h)) \div h))
    BY DEF mulhu
  <2>3. t2 = (a % h) * (b \div h) + (t1 % h)
        /\ t3 = (a \div h) * (b \div h) + (t1 \div h) + (t2 \div h)
    OBVIOUS
  <2> HIDE DEF t1, t2, t3
  <2>4. (a % h) * (b \div h) + (word(t1) % h) = t2 BY <2>1, <2>3, Zenon
  <2>5. mulhu(a, b) = word((a \div h) * (b \div h) + (word(t1) \div h) + (word(t2) \div h))
    BY <2>2, <2>4, Zenon
  <2>6. (a \div h) * (b \div h) + (word(t1) \div h) + (word(t2) \div h) = t3
    BY <2>1, <2>3, Zenon
  <2> QED BY <2>1, <2>5, <2>6, Zenon
<1> QED BY <1>4, <1>5 DEF m, Registers

\* A multiple of m added leaves the remainder by m as it is.
LEMMA Shifted ==
  ASSUME NEW m \in Nat \ {0}, NEW n \in Int, NEW k \in Int, NEW s \in Int, s = n + k * m
  PROVE  s % m = n % m
<1>1. n = (n \div m) * m + (n % m) /\ n \div m \in Int /\ n % m \in 0 .. (m - 1)
  BY Division
<1>2. PICK q \in Int, x \in 0 .. (m - 1) : n = q * m + x /\ x = n % m
  BY <1>1
<1>3. s = (q + k) * m + x /\ q + k \in Int BY <1>2
<1>4. PICK p \in Int : s = p * m + x
  BY <1>3, Zenon
<1>5. s % m = x BY <1>4, DivisionIs, Zenon
<1> QED BY <1>2, <1>5

\* So does m itself.
LEMMA Wraps ==
  ASSUME NEW m \in Nat \ {0}, NEW n \in Int, NEW s \in Int, s = n + m
  PROVE  s % m = n % m
<1>1. PICK k \in Int : k = 1 OBVIOUS
<1>2. s = n + k * m BY <1>1
<1> QED BY <1>2, Shifted

\* A word and the integer it stands for differ by a multiple of 2^XLEN.
LEMMA OperandIs ==
  ASSUME NEW a \in Registers
  PROVE  LET l == SignedOf(XLEN, a)
         IN /\ l \in Int
            /\ \E k \in Int : a = l + k * 2^XLEN
            /\ Negative(a) <=> l < 0
            /\ Abs64(a) = abs(l) /\ abs(l) \in Registers
            /\ -(2^(XLEN - 1)) <= l /\ l < 2^(XLEN - 1)
<1> DEFINE m == 2^XLEN
           h == 2^(XLEN - 1)
           l == SignedOf(XLEN, a)
<1>1. m \in Nat \ {0} /\ h \in Nat \ {0} /\ m = 2 * h /\ a \in 0 .. (m - 1)
  BY Sizes DEF Registers
<1>2. a % m = a BY <1>1, Small
<1>3. l = IF a >= h THEN a - m ELSE a BY <1>2 DEF SignedOf
<1>4. CASE a >= h
  <2>1. a = l + 1 * m /\ l < 0 /\ l \in Int /\ -h <= l BY <1>1, <1>3, <1>4
  <2>2. Abs64(a) = (m - a) % m /\ m - a \in 0 .. (m - 1)
    BY <1>1, <1>4 DEF Abs64, Negative, word
  <2>3. Abs64(a) = m - a BY <1>1, <2>2, Small
  <2> QED BY <1>1, <1>3, <1>4, <2>1, <2>2, <2>3 DEF abs, Negative, Registers
<1>5. CASE a < h
  <2>1. a = l + 0 * m /\ l >= 0 /\ l \in Int BY <1>1, <1>3, <1>5
  <2> QED BY <1>1, <1>3, <1>5, <2>1 DEF abs, Negative, Abs64, Registers
<1> QED BY <1>1, <1>4, <1>5

\* What m divides, it divides negated.
LEMMA ZeroNegated ==
  ASSUME NEW m \in Nat \ {0}, NEW n \in Int, NEW s \in Int, s = -n
  PROVE  s % m = 0 <=> n % m = 0
<1>1. ASSUME NEW x \in Int, NEW y \in Int, y = -x, x % m = 0 PROVE y % m = 0
  <2>1. x = (x \div m) * m + (x % m) /\ x \div m \in Int BY Division
  <2>2. PICK q \in Int : q = x \div m
    BY <2>1
  <2>3. y = (-q) * m + 0 /\ -q \in Int BY <1>1, <2>1, <2>2
  <2> QED BY <2>3, DivisionIs
<1>2. n = -s OBVIOUS
<1>4. ASSUME n % m = 0 PROVE s % m = 0 BY <1>1, <1>4
<1>5. ASSUME s % m = 0 PROVE n % m = 0 BY <1>1, <1>2, <1>5
<1> QED BY <1>4, <1>5

\* NegatedHigh makes of the high word of p that of -p, if it is told
\* whether the low word of p is zero.
LEMMA NegationBorrows ==
  ASSUME NEW p \in Nat, NEW low \in Int, low = 0 <=> p % 2^XLEN = 0
  PROVE  IsHighHalf(NegatedHigh(p \div 2^XLEN, low), -p)
<1> DEFINE m == 2^XLEN
           n == p \div m
<1>1. m \in Nat \ {0} /\ n \in Int BY Sizes, Division
<1>2. CASE low = 0
  <2>1. NegatedHigh(n, low) = (m - 1 - n + 1) % m
    BY <1>2 DEF NegatedHigh, word
  <2>2. PICK i \in Int, j \in Int : i = -n /\ j = m - 1 - n + 1
    BY <1>1
  <2>3. j = i + m BY <1>1, <2>2
  <2>4. (-p) \div m = -n BY <1>1, <1>2, NegatedProduct
  <2> QED
    <3>1. j % m = i % m BY <1>1, <2>3, Wraps
    <3> QED BY <2>1, <2>2, <2>4, <3>1 DEF IsHighHalf
<1>3. CASE low # 0
  <2>1. NegatedHigh(n, low) = (m - 1 - n + 0) % m
    BY <1>3 DEF NegatedHigh, word
  <2>2. PICK i \in Int, j \in Int : i = -n - 1 /\ j = m - 1 - n + 0
    BY <1>1
  <2>3. j = i + m BY <1>1, <2>2
  <2>4. (-p) \div m = -n - 1 BY <1>1, <1>3, NegatedProduct
  <2> QED
    <3>1. j % m = i % m BY <1>1, <2>3, Wraps
    <3> QED BY <2>1, <2>2, <2>4, <3>1 DEF IsHighHalf
<1> QED BY <1>2, <1>3

\* The low word of a * b is zero exactly if that of l * r is.
LEMMA HighHalfIsExact ==
  ASSUME NEW a \in Registers, NEW b \in Registers,
         NEW l \in Int, NEW r \in Int, NEW j \in Int, NEW k \in Int,
         a = l + j * 2^XLEN, b = r + k * 2^XLEN,
         abs(l) \in Registers, abs(r) \in Registers,
         NEW negate \in BOOLEAN, negate <=> ((l < 0) # (r < 0))
  PROVE  LET res == mulhu(abs(l), abs(r))
         IN IsHighHalf(IF negate THEN NegatedHigh(res, word(a * b)) ELSE res, l * r)
<1> DEFINE m == 2^XLEN
           p == abs(l) * abs(r)
           res == mulhu(abs(l), abs(r))
<1>1. m \in Nat \ {0} /\ a \in Int /\ b \in Int /\ p \in Nat
  BY Sizes DEF Registers
<1>2. res = p \div m /\ res \in 0 .. (m - 1) BY MulhuIsExact DEF Registers
<1>3. l * r = IF negate THEN -p ELSE p BY DEF abs
<1>4. CASE ~negate
  <2>1. res % m = res BY <1>1, <1>2, Small
  <2> QED BY <1>2, <1>3, <1>4, <2>1 DEF IsHighHalf
<1>5. CASE negate
  <2> DEFINE i == l * k + j * r + j * k * m
  <2>1. a * b = l * r + i * m /\ i \in Int /\ l * r \in Int BY <1>1
  <2>2. (a * b) % m = (l * r) % m
    <3>1. PICK n \in Int : n = l * r
      BY <2>1
    <3>2. PICK q \in Int : q = i
      BY <2>1
    <3>3. PICK x \in Int : x = a * b
      BY <1>1
    <3>4. x = n + q * m BY <2>1, <3>1, <3>2, <3>3
    <3> QED BY <1>1, <3>1, <3>3, <3>4, Shifted
  <2>3. word(a * b) = 0 <=> p % m = 0
    <3>1. PICK q \in Nat : q = p
      BY <1>1
    <3>2. PICK x \in Int : x = l * r
      BY <2>1
    <3>3. x = -q BY <1>3, <1>5, <3>1, <3>2
    <3>4. x % m = 0 <=> q % m = 0 BY <1>1, <3>3, ZeroNegated
    <3> QED BY <2>2, <3>1, <3>2, <3>4 DEF word
  <2>4. word(a * b) \in Int
    <3>1. PICK n \in Int : n = a * b
      BY <1>1
    <3>2. n % m \in Int BY <1>1
    <3> QED BY <3>1, <3>2 DEF word
  <2>5. IsHighHalf(NegatedHigh(p \div m, word(a * b)), -p)
    BY <1>1, <2>3, <2>4, NegationBorrows
  <2> QED BY <1>2, <1>3, <1>5, <2>5
<1> QED BY <1>4, <1>5

\* The three upper halves are those of the exact products.
LEMMA MultiplicationsAreExact ==
  ASSUME NEW a \in Registers, NEW b \in Registers
  PROVE  /\ IsHighHalf(mulhu(a, b), a * b)
         /\ IsHighHalf(mulh(a, b), SignedOf(XLEN, a) * SignedOf(XLEN, b))
         /\ IsHighHalf(mulhsu(a, b), SignedOf(XLEN, a) * b)
<1> DEFINE m == 2^XLEN
           l == SignedOf(XLEN, a)
           r == SignedOf(XLEN, b)
<1>1. m \in Nat \ {0} /\ a \in Nat /\ b \in Nat BY Sizes DEF Registers
<1>2. PICK j \in Int : a = l + j * m
  BY OperandIs
<1>3. PICK k \in Int : b = r + k * m
  BY OperandIs
<1>4. /\ l \in Int /\ abs(l) \in Registers /\ Abs64(a) = abs(l) /\ (Negative(a) <=> l < 0)
      /\ r \in Int /\ abs(r) \in Registers /\ Abs64(b) = abs(r) /\ (Negative(b) <=> r < 0)
  BY OperandIs
<1> HIDE DEF l, r
<1>5. IsHighHalf(mulhu(a, b), a * b)
  <2>1. mulhu(a, b) = (a * b) \div m /\ mulhu(a, b) \in 0 .. (m - 1)
    BY MulhuIsExact DEF Registers
  <2>2. mulhu(a, b) % m = mulhu(a, b) BY <1>1, <2>1, Small
  <2> QED BY <2>1, <2>2 DEF IsHighHalf
<1>6. IsHighHalf(mulh(a, b), l * r)
  <2> DEFINE negate == Negative(a) # Negative(b)
  <2>1. negate \in BOOLEAN /\ (negate <=> ((l < 0) # (r < 0)))
    <3>1. Negative(a) \in BOOLEAN /\ Negative(b) \in BOOLEAN BY DEF Negative
    <3> QED BY <1>4, <3>1
  <2>2. mulh(a, b) = IF negate THEN NegatedHigh(mulhu(abs(l), abs(r)), word(a * b))
                     ELSE mulhu(abs(l), abs(r))
    BY <1>4 DEF mulh
  <2> HIDE DEF negate, m
  <2> QED BY <1>2, <1>3, <1>4, <2>1, <2>2, HighHalfIsExact DEF m
<1>7. IsHighHalf(mulhsu(a, b), l * b)
  <2>1. b = b + 0 * m /\ abs(b) = b /\ ~ (b < 0) BY <1>1 DEF abs
  <2> DEFINE negate == Negative(a)
  <2>2. negate \in BOOLEAN /\ (negate <=> ((l < 0) # (b < 0)))
    BY <1>4, <2>1 DEF Negative
  <2>3. mulhsu(a, b) = IF negate THEN NegatedHigh(mulhu(abs(l), abs(b)), word(a * b))
                       ELSE mulhu(abs(l), abs(b))
    BY <1>4, <2>1 DEF mulhsu
  <2> HIDE DEF negate, m
  <2> QED BY <1>1, <1>2, <1>4, <2>1, <2>2, <2>3, HighHalfIsExact DEF m
<1> QED BY <1>5, <1>6, <1>7 DEF l, r

\* sreg reads a register as a signed number of its width.
LEMMA SregIsSigned ==
  ASSUME NEW w \in {HI, XLEN}, NEW a \in Int
  PROVE  sreg(w, a) = SignedOf(w, a) /\ SignedOf(w, a) \in Int /\ a % 2^w \in Nat
<1>1. 2^w \in Nat \ {0} /\ 2^(w - 1) \in Nat \ {0} /\ 2^w = 2 * 2^(w - 1)
  BY Sizes
<1>2. PICK m \in Nat \ {0} : m = 2^w
  BY <1>1
<1>3. PICK h \in Nat \ {0} : h = 2^(w - 1)
  BY <1>1
<1>4. ((a + h) % m) - h = IF a % m >= h THEN (a % m) - m ELSE a % m
  BY <1>1, <1>2, <1>3, SignedIs
<1>5. a % m \in Nat OBVIOUS
<1> QED BY <1>2, <1>3, <1>4, <1>5 DEF sreg, SignedOf

\* C's quotient is the one that leaves a rest of the sign of the dividend.
LEMMA QuotientDivides ==
  ASSUME NEW l \in Int, NEW r \in Int, r # 0
  PROVE  /\ quotient(l, r) \in Candidates(l, r)
         /\ Divides(l, r, quotient(l, r))
         /\ quotient(l, r) \in Int
<1>1. PICK a \in Nat : a = abs(l)
  BY DEF abs
<1>2. PICK d \in Nat \ {0} : d = abs(r)
  BY DEF abs
<1>3. a = (a \div d) * d + (a % d) /\ a \div d \in Int /\ a % d \in 0 .. (d - 1)
  BY Division
<1>4. PICK n \in Int, s \in 0 .. (d - 1) : n = a \div d /\ a = n * d + s
  BY <1>3
<1> DEFINE q == IF (l < 0) # (r < 0) THEN -n ELSE n
<1>5. quotient(l, r) = q /\ q \in Int /\ q \in Candidates(l, r)
  BY <1>1, <1>2, <1>4 DEF quotient, Candidates
<1>6. n * d = IF l < 0 THEN -(q * r) ELSE q * r
  <2>1. CASE r < 0
    <3>1. d = -r BY <1>2, <2>1 DEF abs
    <3>2. n * d = -(n * r) /\ (-n) * r = -(n * r) BY <1>4, <3>1
    <3>3. q = IF l < 0 THEN n ELSE -n BY <2>1
    <3> QED BY <1>4, <3>2, <3>3
  <2>2. CASE r >= 0 BY <1>2, <1>4, <2>2 DEF abs
  <2> QED BY <2>1, <2>2
<1>7. l - q * r = IF l < 0 THEN -s ELSE s BY <1>1, <1>4, <1>5, <1>6 DEF abs
<1>8. Divides(l, r, q)
  <2> HIDE DEF q
  <2> QED BY <1>2, <1>4, <1>5, <1>7 DEF Divides, abs
<1> QED BY <1>5, <1>8

\* A truncating quotient is the one the manual asks of its instruction.
LEMMA QuotientIsExact ==
  ASSUME NEW op \in {"div", "divu", "divw", "divuw"}, NEW a, NEW b, NEW z,
         Operand(op, a) \in Int, Operand(op, b) \in Int,
         IF Operand(op, b) = 0 THEN z = AllOnes
         ELSE Represents(op, z, quotient(Operand(op, a), Operand(op, b)))
  PROVE  IsExact(op, a, b, z)
<1> DEFINE l == Operand(op, a)
           r == Operand(op, b)
<1>1. /\ op \in {"div", "divu", "divw", "divuw"}
      /\ op # "mulh" /\ op # "mulhu" /\ op # "mulhsu"
  OBVIOUS
<1>2. IsExact(op, a, b, z) = IF r = 0 THEN z = AllOnes
                             ELSE \E q \in Candidates(l, r) :
                                    Divides(l, r, q) /\ Represents(op, z, q)
  BY <1>1 DEF IsExact
<1> QED BY <1>2, QuotientDivides

\* So is a truncating remainder.
LEMMA RemainderIsExact ==
  ASSUME NEW op \in {"rem", "remu", "remw", "remuw"}, NEW a, NEW b, NEW z,
         Operand(op, a) \in Int, Operand(op, b) \in Int,
         IF Operand(op, b) = 0 THEN Represents(op, z, Operand(op, a))
         ELSE Represents(op, z, remainder(Operand(op, a), Operand(op, b)))
  PROVE  IsExact(op, a, b, z)
<1> DEFINE l == Operand(op, a)
           r == Operand(op, b)
<1>1. /\ op \notin {"div", "divu", "divw", "divuw"}
      /\ op # "mulh" /\ op # "mulhu" /\ op # "mulhsu"
  OBVIOUS
<1>2. IsExact(op, a, b, z) = IF r = 0 THEN Represents(op, z, l)
                             ELSE \E q \in Candidates(l, r) :
                                    Divides(l, r, q) /\ Represents(op, z, l - q * r)
  BY <1>1 DEF IsExact
<1>3. ASSUME r # 0 PROVE remainder(l, r) = l - quotient(l, r) * r
  BY <1>3, QuotientDivides DEF remainder
<1> QED BY <1>2, <1>3, QuotientDivides

\* On numbers that are not negative C's quotients are the floors.
LEMMA Unsigneds ==
  ASSUME NEW l \in Nat, NEW r \in Nat \ {0}
  PROVE  /\ quotient(l, r) = l \div r /\ l \div r \in 0 .. l
         /\ remainder(l, r) = l % r /\ l % r \in 0 .. (r - 1)
<1>1. abs(l) = l /\ abs(r) = r /\ ~ (l < 0) /\ ~ (r < 0) BY DEF abs
<1>2. quotient(l, r) = l \div r BY <1>1 DEF quotient
<1>3. l = (l \div r) * r + (l % r) /\ l \div r \in Int /\ l % r \in 0 .. (r - 1)
  BY Division
<1>4. PICK n \in Int, s \in 0 .. (r - 1) : n = l \div r /\ s = l % r /\ l = n * r + s
  BY <1>3
<1>5. n >= 0
  <2> SUFFICES ASSUME n < 0 PROVE FALSE
    OBVIOUS
  <2>1. (n + 1) * r <= 0 * r BY <1>4
  <2> QED BY <2>1, <1>4
<1>6. n <= n * r BY <1>5
<1>7. l - r * n = s BY <1>4
<1> QED BY <1>2, <1>4, <1>5, <1>6, <1>7 DEF remainder

\* The eight divisions are exact, by zero and on overflow too.
LEMMA DivisionsAreExact ==
  ASSUME NEW a \in Registers, NEW b \in Registers
  PROVE  /\ IsExact("div", a, b, div(a, b))
         /\ IsExact("divu", a, b, divu(a, b))
         /\ IsExact("divw", a, b, divw(a, b))
         /\ IsExact("divuw", a, b, divuw(a, b))
         /\ IsExact("rem", a, b, rem(a, b))
         /\ IsExact("remu", a, b, remu(a, b))
         /\ IsExact("remw", a, b, remw(a, b))
         /\ IsExact("remuw", a, b, remuw(a, b))
<1> DEFINE m == 2^XLEN
           h == 2^(XLEN - 1)
<1>1. m \in Nat \ {0} /\ h \in Nat \ {0} /\ m = 2 * h /\ a \in 0 .. (m - 1) /\ b \in 0 .. (m - 1)
  BY Sizes DEF Registers
<1>2. ASSUME NEW w \in {HI, XLEN}, NEW v \in Int
      PROVE  sreg(w, v) = SignedOf(w, v) /\ SignedOf(w, v) \in Int
  BY <1>2, SregIsSigned
<1>3. /\ a % m = a /\ b % m = b
      /\ a % 2^HI \in Nat /\ b % 2^HI \in Nat
  <2>1. a % m = a /\ b % m = b BY <1>1, Small
  <2>2. HI \in {HI, XLEN} /\ a \in Int /\ b \in Int BY <1>1
  <2> QED BY <2>1, <2>2, SregIsSigned
<1>4. /\ \A op \in {"div", "rem"}, v \in {a, b} :
            Operand(op, v) = sreg(XLEN, v) /\ Operand(op, v) \in Int
      /\ \A op \in {"divw", "remw"}, v \in {a, b} :
            Operand(op, v) = sreg(HI, v) /\ Operand(op, v) \in Int
      /\ \A op \in {"divu", "remu"}, v \in {a, b} : Operand(op, v) = v /\ Operand(op, v) \in Nat
      /\ \A op \in {"divuw", "remuw"}, v \in {a, b} :
            Operand(op, v) = v % 2^HI /\ Operand(op, v) \in Nat
  BY <1>1, <1>2, <1>3 DEF Operand, Width, Narrow, Unsigned
<1>5. /\ \A op \in {"div", "rem", "divu", "remu"} : \A z, v : Represents(op, z, v) <=> z = word(v)
      /\ \A op \in {"divw", "remw", "divuw", "remuw"} : \A z : \A v \in Int :
            Represents(op, z, v) <=> z = word(sreg(HI, v))
  BY <1>2 DEF Represents, Narrow, word
<1>6. \A l, r \in Int : r # 0 => quotient(l, r) \in Int /\ remainder(l, r) \in Int
  BY QuotientDivides DEF remainder
\* The least integer by -1.
<1>7. /\ word(Least) = word(quotient(Least, -1))
      /\ 0 = word(remainder(Least, -1))
  <2>1. h \div 1 = h BY <1>1
  <2>2. quotient(Least, -1) = h BY <1>1, <2>1 DEF quotient, abs, Least
  <2>3. remainder(Least, -1) = 0 BY <1>1, <2>2 DEF remainder, Least
  <2>4. PICK n \in Int : n = Least /\ h = n + m
    BY <1>1 DEF Least
  <2>5. h % m = n % m BY <1>1, <2>4, Wraps
  <2>6. 0 % m = 0 BY <1>1, Small
  <2> QED BY <2>2, <2>3, <2>4, <2>5, <2>6 DEF word
<1>8. IsExact("div", a, b, div(a, b))
  <2> DEFINE l == Operand("div", a)
             r == Operand("div", b)
  <2>1. div(a, b) = IF r = 0 THEN AllOnes
                    ELSE IF l = Least /\ r = -1 THEN word(l) ELSE word(quotient(l, r))
    BY <1>4 DEF div
  <2>2. IF r = 0 THEN div(a, b) = AllOnes ELSE Represents("div", div(a, b), quotient(l, r))
    BY <1>5, <1>7, <2>1
  <2> QED BY <1>4, <2>2, QuotientIsExact
<1>9. IsExact("rem", a, b, rem(a, b))
  <2> DEFINE l == Operand("rem", a)
             r == Operand("rem", b)
  <2>1. rem(a, b) = IF r = 0 THEN word(l)
                    ELSE IF l = Least /\ r = -1 THEN 0 ELSE word(remainder(l, r))
    BY <1>4 DEF rem
  <2>2. IF r = 0 THEN Represents("rem", rem(a, b), l)
        ELSE Represents("rem", rem(a, b), remainder(l, r))
    BY <1>5, <1>7, <2>1
  <2> QED BY <1>4, <2>2, RemainderIsExact
<1>10. IsExact("divu", a, b, divu(a, b)) /\ IsExact("remu", a, b, remu(a, b))
  <2>1. ASSUME b # 0
        PROVE  /\ divu(a, b) = word(quotient(a, b))
               /\ remu(a, b) = word(remainder(a, b))
    <3>1. a \in Nat /\ b \in Nat \ {0} BY <1>1, <2>1
    <3>2. /\ quotient(a, b) = a \div b /\ a \div b \in 0 .. (m - 1)
          /\ remainder(a, b) = a % b /\ a % b \in 0 .. (m - 1)
      <4>1. /\ quotient(a, b) = a \div b /\ a \div b \in 0 .. a
            /\ remainder(a, b) = a % b /\ a % b \in 0 .. (b - 1)
        BY <3>1, Unsigneds
      <4> QED BY <1>1, <4>1
    <3>3. (a \div b) % m = a \div b /\ (a % b) % m = a % b
      BY <1>1, <3>2, Small
    <3> QED BY <2>1, <3>2, <3>3 DEF divu, remu, word
  <2>2. ASSUME b = 0 PROVE divu(a, b) = AllOnes /\ remu(a, b) = word(a)
    BY <1>3, <2>2 DEF divu, remu, word
  <2>3. IF b = 0 THEN divu(a, b) = AllOnes ELSE Represents("divu", divu(a, b), quotient(a, b))
    BY <1>5, <2>1, <2>2
  <2>4. IF b = 0 THEN Represents("remu", remu(a, b), a)
        ELSE Represents("remu", remu(a, b), remainder(a, b))
    BY <1>5, <2>1, <2>2
  <2> QED BY <1>4, <2>3, <2>4, QuotientIsExact, RemainderIsExact
<1>11. IsExact("divw", a, b, divw(a, b)) /\ IsExact("remw", a, b, remw(a, b))
  <2> DEFINE l == sreg(HI, a)
             r == sreg(HI, b)
  <2>1. l \in Int /\ r \in Int BY <1>4
  <2>2. divw(a, b) = IF r = 0 THEN AllOnes ELSE word(sreg(HI, quotient(l, r)))
    BY DEF divw
  <2>3. remw(a, b) = IF r = 0 THEN word(sreg(HI, l)) ELSE word(sreg(HI, remainder(l, r)))
    <3>1. sreg(HI, l) = l
      <4>1. PICK n \in Nat \ {0}, k \in Nat \ {0} : n = 2^HI /\ k = 2^(HI - 1) /\ n = 2 * k
        BY Sizes
      <4>2. PICK x \in Int : x = a + k
        BY <1>1
      <4>3. l = (x % n) - k /\ x % n \in 0 .. (n - 1) BY <4>1, <4>2 DEF sreg
      <4>4. (l + k) % n = x % n
        <5>1. l + k = x % n BY <4>1, <4>3
        <5> QED BY <4>3, <5>1, Small
      <4> QED BY <4>1, <4>3, <4>4 DEF sreg
    <3> QED BY <3>1 DEF remw
  <2> HIDE DEF l, r
  <2>4. IF r = 0 THEN divw(a, b) = AllOnes ELSE Represents("divw", divw(a, b), quotient(l, r))
    BY <1>5, <1>6, <2>1, <2>2
  <2>5. IF r = 0 THEN Represents("remw", remw(a, b), l)
        ELSE Represents("remw", remw(a, b), remainder(l, r))
    BY <1>5, <1>6, <2>1, <2>3
  <2> QED BY <1>4, <2>4, <2>5, QuotientIsExact, RemainderIsExact DEF l, r
<1>12. IsExact("divuw", a, b, divuw(a, b)) /\ IsExact("remuw", a, b, remuw(a, b))
  <2>1. PICK l \in Nat : l = a % 2^HI
    BY <1>3
  <2>2. PICK r \in Nat : r = b % 2^HI
    BY <1>3
  <2>3. ASSUME r # 0 PROVE l \div r = quotient(l, r) /\ l % r = remainder(l, r)
    BY <2>3, Unsigneds
  <2>4. divuw(a, b) = IF r = 0 THEN AllOnes ELSE word(sreg(HI, l \div r))
    BY <2>1, <2>2 DEF divuw
  <2>5. remuw(a, b) = IF r = 0 THEN word(sreg(HI, l)) ELSE word(sreg(HI, l % r))
    BY <2>1, <2>2 DEF remuw
  <2>6. IF r = 0 THEN divuw(a, b) = AllOnes ELSE Represents("divuw", divuw(a, b), quotient(l, r))
    BY <1>5, <1>6, <2>3, <2>4
  <2>7. IF r = 0 THEN Represents("remuw", remuw(a, b), l)
        ELSE Represents("remuw", remuw(a, b), remainder(l, r))
    BY <1>5, <1>6, <2>3, <2>5
  <2> QED BY <1>4, <2>1, <2>2, <2>6, <2>7, QuotientIsExact, RemainderIsExact
<1> QED BY <1>8, <1>9, <1>10, <1>11, <1>12

\* Every integer instruction is exact.
LEMMA IntegerResultIsExact ==
  ASSUME NEW op \in IntegerUnit, NEW a \in Registers, NEW b \in Registers
  PROVE  IsExact(op, a, b, IntegerResult(op, a, b))
<1>1. CASE op \in {"mulh", "mulhu", "mulhsu"}
  <2>1. /\ Operand("mulh", a) = SignedOf(XLEN, a) /\ Operand("mulh", b) = SignedOf(XLEN, b)
        /\ Operand("mulhsu", a) = SignedOf(XLEN, a)
    BY DEF Operand, Width, Narrow, Unsigned
  <2>2. /\ \A z : IsExact("mulh", a, b, z) <=> IsHighHalf(z, SignedOf(XLEN, a) * SignedOf(XLEN, b))
        /\ \A z : IsExact("mulhu", a, b, z) <=> IsHighHalf(z, a * b)
        /\ \A z : IsExact("mulhsu", a, b, z) <=> IsHighHalf(z, SignedOf(XLEN, a) * b)
    BY <2>1 DEF IsExact
  <2>3. /\ IntegerResult("mulh", a, b) = mulh(a, b)
        /\ IntegerResult("mulhu", a, b) = mulhu(a, b)
        /\ IntegerResult("mulhsu", a, b) = mulhsu(a, b)
    BY DEF IntegerResult
  <2> QED BY <1>1, <2>2, <2>3, MultiplicationsAreExact
<1>2. CASE op \notin {"mulh", "mulhu", "mulhsu"}
  <2>1. /\ IntegerResult("div", a, b) = div(a, b)
        /\ IntegerResult("divu", a, b) = divu(a, b)
        /\ IntegerResult("divw", a, b) = divw(a, b)
        /\ IntegerResult("divuw", a, b) = divuw(a, b)
        /\ IntegerResult("rem", a, b) = rem(a, b)
        /\ IntegerResult("remu", a, b) = remu(a, b)
        /\ IntegerResult("remw", a, b) = remw(a, b)
        /\ IntegerResult("remuw", a, b) = remuw(a, b)
    BY DEF IntegerResult
  <2> QED BY <1>2, <2>1, DivisionsAreExact DEF IntegerUnit
<1> QED BY <1>1, <1>2

----
\* Rounding

\* There is one number of bits.
LEMMA BitLengthIs ==
  ASSUME NEW f, NEW w \in Nat, NEW n \in 1 .. w, NEW m \in Nat, 2^(n - 1) <= m, m < 2^n
  PROVE  Ref(f, w)!BitLength(m) = n
<1> DEFINE P(k) == 2^(k - 1) <= m /\ m \div 2 < 2^(k - 1)
<1>1. \A k \in 1 .. w : 2^k = 2 * 2^(k - 1) /\ 2^(k - 1) \in Nat \ {0}
  BY Doubled
<1>2. m # 0 /\ P(n) BY <1>1
<1>3. ASSUME NEW k \in 1 .. w, P(k) PROVE k = n
  <2>1. m < 2^k BY <1>1, <1>3
  <2>2. ~ (k < n)
    <3> SUFFICES ASSUME k < n PROVE FALSE
      OBVIOUS
    <3>1. 2^k <= 2^(n - 1) BY PowersGrow
    <3> QED BY <3>1, <2>1, <1>1
  <2>3. ~ (n < k)
    <3> SUFFICES ASSUME n < k PROVE FALSE
      OBVIOUS
    <3>1. 2^n <= 2^(k - 1) BY PowersGrow
    <3> QED BY <3>1, <1>1, <1>3
  <2> QED BY <2>2, <2>3
<1> HIDE DEF P
<1>4. (CHOOSE k \in 1 .. w : P(k)) = n BY <1>2, <1>3
<1> QED BY <1>2, <1>4 DEF Ref!BitLength, P

\* Rounding looks only at how what is cut off compares.
LEMMA UpCompares ==
  ASSUME NEW mode, NEW s, Directed(mode, s), NEW k \in Nat, NEW r \in Nat, NEW p \in Nat,
         NEW t \in Nat, NEW q \in Nat, Alike(r, p, t, q)
  PROVE  Rounded(mode, s, k, r, p) = Rounded(mode, s, k, t, q)
<1> USE DEF Alike, Directed
<1> SUFFICES RoundsUp(mode, s, k, r, p) <=> RoundsUp(mode, s, k, t, q)
  BY DEF Rounded
<1>1. CASE mode = "near_even" BY <1>1 DEF RoundsUp
<1>2. CASE mode = "near_maxMag" BY <1>2 DEF RoundsUp
<1>3. CASE mode = "minMag" BY <1>3 DEF RoundsUp
<1>4. CASE mode = "min" BY <1>4 DEF RoundsUp
<1>5. CASE mode = "max" BY <1>5 DEF RoundsUp
<1> QED BY <1>1, <1>2, <1>3, <1>4, <1>5 DEF RoundingModes

\* The reference, without its bound on the shift.
LEMMA RoundShiftIs ==
  ASSUME NEW f, NEW w, NEW n, NEW m, HasBits(m, n, w), NEW mode, NEW s, Directed(mode, s),
         NEW d, NEW k, NEW r, Shifts(m, d, k, r)
  PROVE  Ref(f, w)!RoundShift(mode, s, m, d) =
           [k |-> Rounded(mode, s, k, r, 2^d), exact |-> r = 0]
<1> USE DEF Splits, Shifts, HasBits, Directed
<1> DEFINE p == 2^d
           c == IF d > n + 2 THEN n + 2 ELSE d
           C == 2^c
           D == 2^d
<1>1. Ref(f, w)!BitLength(m) = n BY BitLengthIs
<1>2. c \in Nat \ {0} OBVIOUS
<1>3. C \in Nat \ {0} /\ D \in Nat \ {0} BY <1>2, PowerOfTwo
<1>4. Ref(f, w)!RoundShift(mode, s, m, d) =
        [k |-> Rounded(mode, s, m \div C, m % C, C),
         exact |-> m % C = 0]
  <2>1. ~ (d <= 0) OBVIOUS
  <2>2. c = IF d > Ref(f, w)!BitLength(m) + 2 THEN Ref(f, w)!BitLength(m) + 2 ELSE d
    BY <1>1
  <2> HIDE DEF c
  <2> QED BY <2>1, <2>2, Zenon DEF Ref!RoundShift, Rounded, RoundsUp
<1>0. m \div D = k /\ m % D = r
  <2> HIDE DEF D
  <2> QED BY <1>3, DivisionIs DEF D
<1>5. CASE d <= n + 2 BY <1>0, <1>4, <1>5
<1>6. CASE d > n + 2
  <2>1. 4 * m < C
    <3>1. 2^(n + 2) = 4 * 2^n
      <4>1. PICK a, b \in Nat \ {0} : a = n + 1 /\ b = n + 2 OBVIOUS
      <4>2. 2^b = 2 * 2^(b - 1) /\ 2^a = 2 * 2^(a - 1) BY Doubled
      <4>3. b - 1 = a /\ a - 1 = n BY <4>1
      <4>4. 2^b = 2 * (2 * 2^n) /\ 2^n \in Nat BY <4>2, <4>3, PowerOfTwo
      <4> QED BY <4>1, <4>4
    <3>2. 2^n \in Nat BY PowerOfTwo
    <3> QED BY <1>6, <3>1, <3>2
  <2>2. C <= D BY <1>6, PowersGrow
  <2> HIDE DEF C, D
  <2>3. m = 0 * C + m /\ m = 0 * D + m /\ m \in 0 .. (C - 1) /\ m \in 0 .. (D - 1)
    BY <1>3, <2>1, <2>2
  <2>4. m \div C = 0 /\ m % C = m /\ m \div D = 0 /\ m % D = m
    BY <1>3, <2>3, DivisionIs
  <2>5. Rounded(mode, s, 0, m, C) = Rounded(mode, s, 0, m, D)
    BY <1>3, <2>1, <2>2, UpCompares DEF Alike
  <2>6. k = 0 /\ r = m /\ D = p BY <1>0, <2>4 DEF D
  <2> QED BY <1>4, <2>4, <2>5, <2>6
<1> QED BY <1>5, <1>6

\* The increment carries into what is kept exactly when the rounding goes
\* up.
LEMMA CutRounds ==
  ASSUME NEW f, NEW h, NEW mode, NEW s, Directed(mode, s),
         NEW z, NEW n, NEW k, NEW r, Shifts(z, n, k, r)
  PROVE  LET p == 2^n
             i == Rnd(f, h)!roundIncrement(mode, s, n)
             c == Rnd(f, h)!cut(mode, s, z, n)
         IN c = Rounded(mode, s, k, r, p) /\ Carries(z, p, k, i, c)
<1> USE DEF Splits, Shifts, Directed, Carries
<1> DEFINE p == 2^n
           g == 2^(n - 1)
           i == Rnd(f, h)!roundIncrement(mode, s, n)
           c == Rnd(f, h)!cut(mode, s, z, n)
           y == (z + i) \div p
<1>1. p = 2 * g /\ g \in Nat \ {0} /\ p \in Nat \ {0} BY Doubled, PowerOfTwo
<1>2. i = IF mode \in {"near_even", "near_maxMag"} THEN g
          ELSE IF mode = "minMag" \/ mode = (IF s = 1 THEN "max" ELSE "min") THEN 0
          ELSE p - 1
  BY DEF Rnd!roundIncrement
<1>4. z = k * p + r /\ k \in Int /\ r \in 0 .. (p - 1) OBVIOUS
<1>0. z % p = r BY <1>1, <1>4, DivisionIs
<1>3. c = IF mode = "near_even" /\ r = g THEN y - (y % 2) ELSE y
  BY <1>0 DEF Rnd!cut
<1> HIDE DEF g, i, c, y
<1>5. i \in 0 .. (p - 1) BY <1>1, <1>2
<1>6. k \in Nat OBVIOUS
<1>7. y = IF r + i >= p THEN k + 1 ELSE k
  <2>1. CASE r + i >= p
    <3>1. z + i = (k + 1) * p + (r + i - p) /\ r + i - p \in 0 .. (p - 1)
      BY <1>1, <1>4, <1>5, <2>1
    <3> QED BY <1>1, <1>5, <1>6, <2>1, <3>1, DivisionIs DEF y
  <2>2. CASE r + i < p
    <3>1. z + i = k * p + (r + i) /\ r + i \in 0 .. (p - 1)
      BY <1>1, <1>4, <1>5, <2>2
    <3> QED BY <1>1, <1>5, <1>6, <2>2, <3>1, DivisionIs DEF y
  <2> QED BY <1>1, <1>4, <1>5, <2>1, <2>2
<1>8. c = IF RoundsUp(mode, s, k, r, p) THEN k + 1 ELSE k
  <2>1. CASE mode = "near_even"
    <3>1. RoundsUp(mode, s, k, r, p) <=> r > g \/ (r = g /\ k % 2 = 1)
      BY <1>1, <1>4, <2>1 DEF RoundsUp
    <3>2. y = IF r >= g THEN k + 1 ELSE k BY <1>1, <1>2, <1>4, <1>7, <2>1
    <3>3. k % 2 \in {0, 1} /\ (k + 1) - ((k + 1) % 2) = IF k % 2 = 1 THEN k + 1 ELSE k
      BY <1>6
    <3> QED BY <1>1, <1>3, <1>4, <1>6, <2>1, <3>1, <3>2, <3>3
  <2>2. CASE mode = "near_maxMag"
    BY <1>1, <1>2, <1>3, <1>4, <1>6, <1>7, <2>2 DEF RoundsUp
  <2>3. CASE mode = "minMag"
    BY <1>1, <1>2, <1>3, <1>4, <1>6, <1>7, <2>3 DEF RoundsUp
  <2>4. CASE mode = "min"
    BY <1>1, <1>2, <1>3, <1>4, <1>6, <1>7, <2>4 DEF RoundsUp
  <2>5. CASE mode = "max"
    BY <1>1, <1>2, <1>3, <1>4, <1>6, <1>7, <2>5 DEF RoundsUp
  <2> QED BY <2>1, <2>2, <2>3, <2>4, <2>5 DEF RoundingModes
<1>9. ASSUME NEW b \in Nat PROVE c >= 2 * b <=> z + i >= 2 * b * p
  <2>1. c >= 2 * b <=> y >= 2 * b BY <1>3, <1>6, <1>7
  <2>2. z + i = y * p + ((z + i) % p) /\ y \in Int /\ (z + i) % p \in 0 .. (p - 1)
    <3>1. z + i \in Int BY <1>1, <1>5
    <3> QED BY <1>1, <3>1, Division DEF y
  <2>3. PICK v \in 0 .. (p - 1) : z + i = y * p + v
    BY <2>2
  <2>4. CASE y >= 2 * b
    <3>1. y * p >= 2 * b * p BY <1>1, <2>2, <2>4
    <3> QED BY <1>1, <2>1, <2>2, <2>3, <2>4, <3>1
  <2>5. CASE ~ (y >= 2 * b)
    <3>1. (y + 1) * p <= 2 * b * p BY <1>1, <2>2, <2>5
    <3>2. (y + 1) * p = y * p + p BY <1>1, <2>2
    <3> QED BY <1>1, <2>1, <2>2, <2>3, <2>5, <3>1, <3>2
  <2> QED BY <2>4, <2>5
<1>10. c \in k .. (k + 1) BY <1>6, <1>8
<1>11. c = Rounded(mode, s, k, r, p) BY <1>8, Zenon DEF Rounded
<1> QED BY <1>5, <1>9, <1>10, <1>11 DEF i, c

\* Jamming what is shifted out into the last bit loses nothing that
\* rounding looks at, if two bits or more are still to be cut off.
LEMMA JamRounds ==
  ASSUME NEW f, NEW h, NEW c, NEW p, NEW g \in Nat, p = 4 * g,
         NEW n, NEW q, NEW l, Splits(n, c, q, l), NEW k, NEW a, Splits(q, p, k, a)
  PROVE  LET r == a * c + l
         IN /\ Splits(n, c * p, k, r)
            /\ \E m \in Nat : Splits(Rnd(f, h)!Jam(q, l # 0), p, k, m) /\ Alike(r, c * p, m, p)
<1> USE DEF Splits, Alike
<1> DEFINE z == Rnd(f, h)!Jam(q, l # 0)
           m == IF l # 0 /\ a % 2 = 0 THEN a + 1 ELSE a
           r == a * c + l
<1>0. p \in Nat \ {0} OBVIOUS
<1>1. q = k * p + a /\ k \in Int /\ a \in 0 .. (p - 1) OBVIOUS
<1>2. q % 2 = a % 2
  <2>1. PICK j \in Int : j = k * (2 * g)
    BY <1>1
  <2>2. k * p = 2 * j BY <1>1, <2>1
  <2>3. q = 2 * j + a BY <1>1, <2>2
  <2> QED BY <1>1, <2>3
<1>3. m \in 0 .. (p - 1) BY <1>0, <1>1
<1>4. z = k * p + m /\ z \in Nat BY <1>1, <1>2 DEF Rnd!Jam
<1>6. r \in 0 .. (c * p - 1) /\ c * p \in Nat \ {0}
  <2>1. (a + 1) * c <= p * c /\ a * c >= 0 /\ c * p \in Nat /\ c * p >= 1 * 1
    BY <1>0, <1>1
  <2>2. a * c \in Int /\ (a + 1) * c = a * c + c /\ p * c = c * p BY <1>1
  <2> QED BY <2>1, <2>2
<1>7. n = k * (c * p) + r
  <2>1. (k * p + a) * c = (k * p) * c + a * c /\ (k * p) * c = k * (c * p)
    BY <1>1
  <2> QED BY <1>1, <2>1
<1> HIDE DEF z
<1>9. r = 0 <=> m = 0
  <2>1. a = 0 => a * c = 0 OBVIOUS
  <2>2. a > 0 => a * c >= 1 * c BY <1>1
  <2> QED BY <1>1, <2>1, <2>2
<1>10. 2 * r > c * p <=> 2 * m > p
  <2>1. c * p = 2 * ((2 * g) * c) /\ (2 * g) * c \in Nat OBVIOUS
  <2>2. CASE a = 2 * g BY <1>1, <2>1, <2>2
  <2>3. CASE a > 2 * g
    <3>1. a * c >= (2 * g + 1) * c /\ (2 * g + 1) * c = (2 * g) * c + c /\ a * c \in Int
      BY <1>1, <2>3
    <3> QED BY <1>1, <2>1, <2>3, <3>1
  <2>4. CASE a < 2 * g
    <3>1. (a + 1) * c <= (2 * g) * c /\ (a + 1) * c = a * c + c /\ a * c \in Int
      BY <1>1, <2>4
    <3>2. m <= 2 * g BY <1>1, <2>4
    <3> QED BY <1>1, <2>1, <2>4, <3>1, <3>2
  <2> QED BY <1>1, <2>2, <2>3, <2>4
<1>11. 2 * r = c * p <=> 2 * m = p
  <2>1. c * p = 2 * ((2 * g) * c) /\ (2 * g) * c \in Nat OBVIOUS
  <2>2. CASE a = 2 * g BY <1>1, <2>1, <2>2
  <2>3. CASE a > 2 * g
    <3>1. a * c >= (2 * g + 1) * c /\ (2 * g + 1) * c = (2 * g) * c + c /\ a * c \in Int
      BY <1>1, <2>3
    <3> QED BY <1>1, <2>1, <2>3, <3>1
  <2>4. CASE a < 2 * g
    <3>1. (a + 1) * c <= (2 * g) * c /\ (a + 1) * c = a * c + c /\ a * c \in Int
      BY <1>1, <2>4
    <3>2. m < 2 * g BY <1>1, <2>4
    <3> QED BY <1>1, <2>1, <2>4, <3>1, <3>2
  <2> QED BY <1>1, <2>2, <2>3, <2>4
<1> QED BY <1>3, <1>4, <1>6, <1>7, <1>9, <1>10, <1>11 DEF z

\* A shift past the end of the word leaves the sticky bit.
LEMMA ShiftJams ==
  ASSUME NEW f, NEW h, IsFormat(f, h), NEW c \in Nat \ {0},
         NEW sig \in 1 .. (Rnd(f, h)!Top - 1)
  PROVE  Rnd(f, h)!shiftRightJam(sig, c) = Rnd(f, h)!Jam(sig \div 2^c, sig % 2^c # 0)
<1> DEFINE W == Rnd(f, h)!W
<1>1. W \in Nat \ {0} /\ h \in Nat \ {0} /\ W \in {h, 2 * h} /\ W - 1 \in Nat
  BY DEF IsFormat
<1>2. Rnd(f, h)!Top = 2^(W - 1) BY DEF Rnd!Top
<1>3. Rnd(f, h)!shiftRightJam(sig, c) =
        IF c < W THEN Rnd(f, h)!Jam(sig \div 2^c, sig % 2^c # 0)
        ELSE Rnd(f, h)!Bit(sig # 0)
  BY <1>1 DEF Rnd!shiftRightJam, Rnd!shift32RightJam, Rnd!shift64RightJam, Rnd!Lost
<1> HIDE DEF W
<1>4. CASE c < W BY <1>3, <1>4
<1>5. CASE ~ (c < W)
  <2>1. 2^(W - 1) <= 2^c /\ 2^c \in Nat \ {0} /\ 2^(W - 1) \in Nat
    <3>1. PICK v \in Nat : v = W - 1
      BY <1>1
    <3>2. v <= c BY <1>1, <1>5, <3>1
    <3>3. 2^v <= 2^c /\ 2^c \in Nat \ {0} /\ 2^v \in Nat
      BY <3>2, PowersGrow, PowerOfTwo
    <3> QED BY <3>1, <3>3
  <2>2. sig = 0 * 2^c + sig /\ sig \in 0 .. (2^c - 1) /\ sig \in Int
    BY <1>2, <2>1
  <2>3. sig \div 2^c = 0 /\ sig % 2^c = sig BY <2>1, <2>2, DivisionIs
  <2>4. sig # 0 /\ 0 % 2 = 0 OBVIOUS
  <2>5. Rnd(f, h)!Bit(sig # 0) = 1 /\ Rnd(f, h)!Jam(0, sig # 0) = 1
    BY <2>4 DEF Rnd!Jam, Rnd!Bit
  <2>6. Rnd(f, h)!shiftRightJam(sig, c) = 1 BY <1>3, <1>5, <2>5
  <2>7. (sig % 2^c # 0) = (sig # 0) BY <2>3
  <2> QED BY <2>3, <2>5, <2>6, <2>7
<1> QED BY <1>4, <1>5

\* The leading one of a working word.
LEMMA WorkingWord ==
  ASSUME NEW f, NEW h, IsFormat(f, h)
  PROVE  LET n == f.F + f.G + 1
         IN /\ n \in Nat \ {0}
            /\ Rnd(f, h)!Hidden = 2^(n - 1) /\ Rnd(f, h)!Top = 2^n
            /\ 2^(n - 1) \in Nat \ {0}
            /\ 2^n = 2 * 2^f.F * 2^f.G
            /\ 2^f.F \in Nat \ {0} /\ 2^f.G \in Nat \ {0}
            /\ 2^n = 2 * 2^(n - 1)
<1> DEFINE n == f.F + f.G + 1
           W == Rnd(f, h)!W
<1>1. f.F \in Nat /\ f.G \in Nat /\ W = f.F + f.G + 2 BY DEF IsFormat, Rnd!W
<1>2. n \in Nat \ {0} /\ W - 2 = n - 1 /\ W - 1 = n /\ n - 1 = f.F + f.G /\ n - 1 \in Nat
  BY <1>1
<1>3. Rnd(f, h)!Hidden = 2^(W - 2) /\ Rnd(f, h)!Top = 2^(W - 1)
  BY DEF Rnd!Hidden, Rnd!Top
<1> HIDE DEF n, W
<1>4. 2^n = 2 * 2^(n - 1) /\ 2^(n - 1) \in Nat \ {0} BY <1>2, Doubled
<1>5. 2^(f.F + f.G) = 2^f.F * 2^f.G /\ 2^f.F \in Nat \ {0} /\ 2^f.G \in Nat \ {0}
  BY <1>1, PowersAdd, PowerOfTwo
<1>6. 2^n = 2 * (2^f.F * 2^f.G) BY <1>2, <1>4, <1>5
<1>7. 2 * (2^f.F * 2^f.G) = 2 * 2^f.F * 2^f.G BY <1>5
<1> QED BY <1>2, <1>3, <1>4, <1>5, <1>6, <1>7 DEF n

\* Cutting a working word after a jamming shift is one exact rounding of
\* the word.
LEMMA ShiftedRounds ==
  ASSUME NEW f, NEW h, IsFormat(f, h), NEW w \in Nat, w >= f.F + f.G + 1,
         NEW mode \in RoundingModes, NEW s \in {0, 1}, NEW c \in Nat,
         NEW sig \in Rnd(f, h)!Hidden .. (Rnd(f, h)!Top - 1)
  PROVE  LET z == IF c = 0 THEN sig ELSE Rnd(f, h)!shiftRightJam(sig, c)
         IN /\ z \in Nat
            /\ Ref(f, w)!RoundShift(mode, s, sig, f.G + c) =
                 [k |-> Rnd(f, h)!cut(mode, s, z, f.G), exact |-> z % 2^f.G = 0]
<1> DEFINE n == f.F + f.G + 1
           p == 2^f.G
           d == f.G + c
           z == IF c = 0 THEN sig ELSE Rnd(f, h)!shiftRightJam(sig, c)
           Top == Rnd(f, h)!Top
<1>1. /\ n \in 1 .. w /\ sig \in Nat /\ sig \in 1 .. (Top - 1)
      /\ 2^(n - 1) <= sig /\ sig < 2^n
  <2>1. f.F \in Nat /\ f.G \in Nat BY DEF IsFormat
  <2>2. n \in 1 .. w BY <2>1
  <2>3. /\ Rnd(f, h)!Hidden = 2^(n - 1) /\ Top = 2^n
        /\ 2^(n - 1) \in Nat \ {0} /\ 2^n = 2 * 2^(n - 1)
    BY WorkingWord
  <2> HIDE DEF n, Top
  <2> QED BY <2>2, <2>3 DEF Top
<1>2. f.G \in Nat \ {0} /\ f.G - 2 \in Nat /\ f.F \in Nat /\ d \in Nat \ {0}
  BY DEF IsFormat
<1>5. p = 4 * 2^(f.G - 2) /\ 2^(f.G - 2) \in Nat \ {0} /\ p \in Nat
  <2>1. PICK a \in Nat : a = f.G - 2
    BY <1>2
  <2>2. 2^(a + 2) = 2^a * 2^2 /\ 2^a \in Nat \ {0} /\ 2^2 = 4
    <3>1. 2^(a + 2) = 2^a * 2^2 /\ 2^a \in Nat \ {0}
      BY PowersAdd, PowerOfTwo
    <3>2. 2^2 = 2 * 2^(2 - 1) BY Doubled
    <3> QED BY <3>1, <3>2
  <2>3. a + 2 = f.G BY <1>2, <2>1
  <2> QED BY <2>1, <2>2, <2>3
<1>8. p \in Nat \ {0} /\ p \in Nat BY <1>5
<1>9. sig \in Nat BY <1>1
<1> HIDE DEF n, d, p, z
<1>10. d \in Nat \ {0} /\ f.G \in Nat \ {0} /\ n \in 1 .. w BY <1>1, <1>2
<1>11. ASSUME NEW y \in Nat, NEW b \in Nat \ {0}
       PROVE  Splits(y, b, y \div b, y % b)
  BY NaturalDivision DEF Splits
<1>12. HasBits(sig, n, w) /\ Directed(mode, s)
  BY <1>1 DEF HasBits, Directed, n
<1>13. ASSUME NEW y, NEW k, NEW r, Shifts(y, f.G, k, r)
       PROVE  Rnd(f, h)!cut(mode, s, y, f.G) = Rounded(mode, s, k, r, 2^f.G)
  BY <1>12, <1>13, CutRounds
<1>6. CASE c = 0
  <2> DEFINE k == sig \div p
             r == sig % p
  <2>1. z = sig /\ d = f.G BY <1>2, <1>6 DEF z, d
  <2>2. Splits(sig, p, k, r) BY <1>8, <1>9, <1>11
  <2>3. Shifts(sig, f.G, k, r) BY <1>10, <2>2 DEF Shifts, p
  <2> HIDE DEF k, r
  <2>4. Ref(f, w)!RoundShift(mode, s, sig, f.G) =
          [k |-> Rounded(mode, s, k, r, 2^f.G), exact |-> r = 0]
    BY <1>12, <2>3, RoundShiftIs
  <2>5. Rnd(f, h)!cut(mode, s, sig, f.G) = Rounded(mode, s, k, r, 2^f.G)
    BY <1>13, <2>3
  <2> QED BY <1>9, <2>1, <2>4, <2>5 DEF z, d, r, p
<1>7. CASE c # 0
  <2> DEFINE b == 2^c
             e == b * p
             x == sig \div b
             l == sig % b
             k == x \div p
             a == x % p
             r == a * b + l
  <2>1. b \in Nat \ {0} /\ e = 2^d /\ e \in Nat
    <3>1. 2^(c + f.G) = 2^c * 2^f.G /\ 2^c \in Nat \ {0}
      BY <1>2, PowersAdd, PowerOfTwo
    <3>2. d = c + f.G BY <1>2 DEF d
    <3> QED BY <1>5, <3>1, <3>2 DEF p
  <2>2. z = Rnd(f, h)!Jam(x, l # 0) BY <1>1, <1>7, ShiftJams DEF z
  <2> HIDE DEF b, x, l
  <2>3. Splits(sig, b, x, l) BY <1>9, <1>11, <2>1 DEF x, l
  <2>4. Splits(x, p, k, a) BY <1>8, <1>11, <2>3 DEF Splits
  <2>5. PICK g \in Nat : p = 4 * g
    BY <1>5
  <2> HIDE DEF k, a
  <2>6. /\ Splits(sig, e, k, r)
        /\ \E m \in Nat : Splits(z, p, k, m) /\ Alike(r, e, m, p)
    BY <2>2, <2>3, <2>4, <2>5, JamRounds
  <2> HIDE DEF e, r
  <2>7. PICK m \in Nat : Splits(z, p, k, m) /\ Alike(r, e, m, p)
    BY <2>6
  <2>8. z \in Nat /\ z % p = m
    <3>1. z = k * p + m /\ k \in Nat /\ m \in 0 .. (p - 1) /\ z \in Nat
      BY <2>7 DEF Splits
    <3> QED BY <1>8, <3>1, DivisionIs
  <2>9. Shifts(sig, d, k, r) /\ Shifts(z, f.G, k, m)
    BY <1>10, <2>1, <2>6, <2>7 DEF Shifts, p
  <2>10. Ref(f, w)!RoundShift(mode, s, sig, d) =
           [k |-> Rounded(mode, s, k, r, 2^d), exact |-> r = 0]
    BY <1>12, <2>9, RoundShiftIs
  <2>11. Rnd(f, h)!cut(mode, s, z, f.G) = Rounded(mode, s, k, m, 2^f.G)
    BY <1>13, <2>9
  <2>12. Rounded(mode, s, k, r, e) = Rounded(mode, s, k, m, p)
    <3>1. k \in Nat /\ p \in Nat /\ e \in Nat /\ r \in Nat /\ m \in Nat
      BY <1>8, <2>1, <2>6 DEF Splits
    <3> QED BY <1>12, <2>7, <3>1, UpCompares
  <2>13. (r = 0) = (z % p = 0) BY <2>7, <2>8 DEF Alike
  <2>14. [k |-> Rounded(mode, s, k, r, 2^d), exact |-> r = 0] =
           [k |-> Rnd(f, h)!cut(mode, s, z, f.G), exact |-> z % p = 0]
    BY <2>1, <2>11, <2>12, <2>13, Zenon DEF p
  <2> QED BY <2>8, <2>10, <2>14, Zenon DEF z, d, p
<1> QED BY <1>6, <1>7

\* What is kept by a cut is a number.
LEMMA CutType ==
  ASSUME NEW f, NEW h, IsFormat(f, h), NEW mode \in RoundingModes, NEW s \in {0, 1},
         NEW z \in Nat
  PROVE  Rnd(f, h)!cut(mode, s, z, f.G) \in Nat
<1> DEFINE p == 2^f.G
           k == z \div p
           c == Rnd(f, h)!cut(mode, s, z, f.G)
           i == Rnd(f, h)!roundIncrement(mode, s, f.G)
<1>1. f.G \in Nat \ {0} BY DEF IsFormat
<1>2. p \in Nat \ {0} BY <1>1, PowerOfTwo
<1>3. Splits(z, p, k, z % p) BY <1>2, NaturalDivision DEF Splits
<1>4. Shifts(z, f.G, k, z % p) /\ Directed(mode, s)
  BY <1>1, <1>3 DEF Shifts, Directed
<1> HIDE DEF k, c, i
<1>5. Carries(z, p, k, i, c) BY <1>4, CutRounds DEF c, i
<1> HIDE DEF p
<1> QED BY <1>3, <1>5 DEF Carries, Splits, c

\* An unshifted working word carries into the next exponent when the cut
\* fills the fraction up.
LEMMA WordCarries ==
  ASSUME NEW f, NEW h, IsFormat(f, h), NEW mode \in RoundingModes, NEW s \in {0, 1},
         NEW sig \in Rnd(f, h)!Hidden .. (Rnd(f, h)!Top - 1)
  PROVE  LET c == Rnd(f, h)!cut(mode, s, sig, f.G)
         IN /\ c > 0
            /\ c > 2^(f.F + 1) - 1 <=>
                 sig + Rnd(f, h)!roundIncrement(mode, s, f.G) >= Rnd(f, h)!Top
<1> DEFINE c == Rnd(f, h)!cut(mode, s, sig, f.G)
           i == Rnd(f, h)!roundIncrement(mode, s, f.G)
           p == 2^f.G
           b == 2^f.F
           Top == Rnd(f, h)!Top
           Hidden == Rnd(f, h)!Hidden
           k == sig \div p
           r == sig % p
<1>1. Top = 2 * b * p /\ b \in Nat \ {0} /\ p \in Nat \ {0} /\ Hidden = b * p
  <2> DEFINE n == f.F + f.G + 1
  <2>1. /\ Hidden = 2^(n - 1) /\ Top = 2^n /\ 2^(n - 1) \in Nat \ {0}
        /\ 2^n = 2 * b * p /\ b \in Nat \ {0} /\ p \in Nat \ {0} /\ 2^n = 2 * 2^(n - 1)
    BY WorkingWord
  <2> HIDE DEF n, Hidden, Top, b, p
  <2> QED BY <2>1
<1>2. 2^(f.F + 1) = 2 * b
  <2>1. PICK a \in Nat \ {0} : a = f.F + 1 /\ a - 1 = f.F
    BY DEF IsFormat
  <2> QED BY <2>1, Doubled
<1>3. f.G \in Nat \ {0} BY DEF IsFormat
<1> HIDE DEF b, Top, Hidden
<1>4. sig \in Nat /\ sig >= b * p
  <2>1. b * p \in Nat /\ Top \in Int BY <1>1
  <2> QED BY <1>1, <2>1 DEF Top, Hidden
<1>5. Shifts(sig, f.G, k, r)
  BY <1>1, <1>3, <1>4, NaturalDivision DEF Shifts, Splits
<1>6. Directed(mode, s) BY DEF Directed
<1>7. k \in Nat BY <1>5 DEF Shifts, Splits
<1> HIDE DEF c, i, k, r
<1>8. Carries(sig, p, k, i, c) BY <1>5, <1>6, CutRounds DEF c, i
<1> HIDE DEF p
<1>10. k >= b
  <2> SUFFICES ASSUME k < b PROVE FALSE
    BY <1>1, <1>7
  <2>1. (k + 1) * p <= b * p BY <1>1, <1>7
  <2>2. sig = k * p + r /\ r \in 0 .. (p - 1) BY <1>5 DEF Shifts, Splits, p
  <2> QED BY <1>1, <1>4, <1>7, <2>1, <2>2
<1>9. c \in Nat /\ i \in Int /\ (c >= 2 * b <=> sig + i >= 2 * b * p)
  BY <1>1, <1>7, <1>8 DEF Carries
<1>11. c > 0 BY <1>1, <1>7, <1>8, <1>10 DEF Carries
<1> QED BY <1>1, <1>2, <1>4, <1>9, <1>11 DEF c, i, Top

\* Nothing is added exactly when an overflow goes to the largest finite
\* number.
LEMMA TowardsZero ==
  ASSUME NEW f, NEW h, IsFormat(f, h), NEW mode \in RoundingModes, NEW s \in {0, 1}
  PROVE  Rnd(f, h)!roundIncrement(mode, s, f.G) = 0 <=>
           mode \notin {"near_even", "near_maxMag", IF s = 1 THEN "min" ELSE "max"}
<1> DEFINE i == Rnd(f, h)!roundIncrement(mode, s, f.G)
           p == 2^f.G
           g == 2^(f.G - 1)
<1>1. p = 2 * g /\ g \in Nat \ {0} /\ p \in Nat
  <2>1. f.G \in Nat \ {0} BY DEF IsFormat
  <2> QED BY <2>1, Doubled, PowerOfTwo
<1>2. i = IF mode \in {"near_even", "near_maxMag"} THEN g
          ELSE IF mode = "minMag" \/ mode = (IF s = 1 THEN "max" ELSE "min") THEN 0
          ELSE p - 1
  BY DEF Rnd!roundIncrement
<1> HIDE DEF p, g, i
<1>3. CASE mode \in {"near_even", "near_maxMag"} BY <1>1, <1>2, <1>3 DEF i
<1>4. CASE mode = "minMag" BY <1>1, <1>2, <1>4 DEF i
<1>5. CASE mode = "min" BY <1>1, <1>2, <1>5 DEF i
<1>6. CASE mode = "max" BY <1>1, <1>2, <1>6 DEF i
<1> QED BY <1>3, <1>4, <1>5, <1>6 DEF RoundingModes

\* The exponents of a format.
LEMMA Exponents ==
  ASSUME NEW f, NEW h, IsFormat(f, h), NEW w
  PROVE  LET B == Ref(f, w)!Bias
         IN /\ B \in Nat \ {0}
            /\ Rnd(f, h)!MaxExp = 2 * B + 1
            /\ Ref(f, w)!MinExp = 1 - B - f.F
            /\ Ref(f, w)!Sign = Rnd(f, h)!SignBit /\ Ref(f, w)!Sign \in Nat
            /\ Ref(f, w)!Infinity = Rnd(f, h)!MaxExp * 2^f.F
<1> DEFINE a == 2^(f.E - 1)
<1>1. f.E \in Nat \ {0} /\ f.E - 2 \in Nat /\ f.F \in Nat /\ f.E + f.F \in Nat
  BY DEF IsFormat
<1>2. 2^f.E = 2 * a /\ a \in Nat BY <1>1, Doubled
<1>3. a >= 2
  <2>1. PICK d \in Nat \ {0} : d = f.E - 1
    BY <1>1
  <2>2. 2^d = 2 * 2^(d - 1) /\ 2^(d - 1) \in Nat \ {0} BY Doubled
  <2> QED BY <2>1, <2>2
<1>4. PICK d \in Nat : d = f.E + f.F
  BY <1>1
<1>5. 2^d \in Nat BY PowerOfTwo
<1>6. Ref(f, w)!Bias = a - 1 /\ Rnd(f, h)!MaxExp = 2^f.E - 1
  BY DEF Ref!Bias, Rnd!MaxExp
<1>7. Ref(f, w)!MinExp = 1 - Ref(f, w)!Bias - f.F BY DEF Ref!MinExp
<1>8. Ref(f, w)!Sign = 2^d /\ Rnd(f, h)!SignBit = 2^d
  BY <1>4 DEF Ref!Sign, Rnd!SignBit
<1>9. Ref(f, w)!Infinity = Rnd(f, h)!MaxExp * 2^f.F
  BY DEF Ref!Infinity, Rnd!MaxExp
<1> HIDE DEF a
<1> QED BY <1>2, <1>3, <1>5, <1>6, <1>7, <1>8, <1>9

\* Of a value whose leading one is at the top of the working word,
\* roundPack makes the pattern and raises the flags that IEEE 754 asks
\* for, in every format, mode and exponent: when the value is tiny the
\* sticky bit loses nothing that the rounding looks at, the carry into the
\* exponent field is the next binade, the test on sig + increment is the
\* overflow of the rounded value, and taking one off infinity gives the
\* largest finite number in just the modes that go there.
THEOREM RoundPackIsIeee ==
  ASSUME NEW f, NEW h, IsFormat(f, h), NEW w \in Nat, w >= f.F + f.G + 1,
         NEW mode \in RoundingModes, NEW s \in {0, 1}, NEW e \in Int,
         NEW sig \in Rnd(f, h)!Hidden .. (Rnd(f, h)!Top - 1)
  PROVE  Rnd(f, h)!roundPack(mode, s, e, sig) =
           Ref(f, w)!Round(mode, [s |-> s, m |-> sig, q |-> Ref(f, w)!MinExp + e - f.G])
<1> DEFINE MaxExp == Rnd(f, h)!MaxExp
           MinExp == Ref(f, w)!MinExp
           B == Ref(f, w)!Bias
           Infinity == Ref(f, w)!Infinity
           Sign == Ref(f, w)!Sign
           Top == Rnd(f, h)!Top
           q == MinExp + e - f.G
           x == [s |-> s, m |-> sig, q |-> q]
           n == f.F + f.G + 1
           u == IF e > 0 THEN MinExp + e ELSE MinExp
           c == IF e < 0 THEN -e ELSE 0
           i == Rnd(f, h)!roundIncrement(mode, s, f.G)
           z == IF e < 0 THEN Rnd(f, h)!shiftRightJam(sig, -e) ELSE sig
           k == Rnd(f, h)!cut(mode, s, z, f.G)
           p == 2^f.F
           toInfinity == mode \in {"near_even", "near_maxMag", IF s = 1 THEN "min" ELSE "max"}
           overflow == u > B - f.F \/ (u = B - f.F /\ k > 2^(f.F + 1) - 1)
           exact == z % 2^f.G = 0
<1>1. f.F \in Nat /\ f.G \in Nat BY DEF IsFormat
<1>2. /\ B \in Nat \ {0} /\ MaxExp = 2 * B + 1 /\ MinExp = 1 - B - f.F
      /\ Sign = Rnd(f, h)!SignBit /\ Sign \in Nat /\ Infinity = MaxExp * p
  BY Exponents
<1>3. p \in Nat BY <1>1, PowerOfTwo
<1>4. Ref(f, w)!BitLength(sig) = n
  <2>1. /\ Rnd(f, h)!Hidden = 2^(n - 1) /\ Top = 2^n
        /\ 2^(n - 1) \in Nat \ {0} /\ 2^n = 2 * 2^(n - 1)
    BY WorkingWord
  <2>2. n \in 1 .. w BY <1>1
  <2> HIDE DEF n, Top
  <2>3. sig \in Nat /\ 2^(n - 1) <= sig /\ sig < 2^n BY <2>1 DEF Top
  <2> QED BY <2>2, <2>3, BitLengthIs
<1>5. /\ (IF e < 0 THEN Rnd(f, h)!shiftRightJam(sig, -e) ELSE sig) =
           IF c = 0 THEN sig ELSE Rnd(f, h)!shiftRightJam(sig, c)
      /\ c \in Nat
  OBVIOUS
<1>6. z \in Nat /\ Ref(f, w)!RoundShift(mode, s, sig, f.G + c) = [k |-> k, exact |-> exact]
  <2> HIDE DEF c
  <2> QED BY <1>5, ShiftedRounds
<1> HIDE DEF MaxExp, MinExp, B, Infinity, Sign, Top, i, k, p, exact
<1>7. /\ n + q - (f.F + 1) = MinExp + e
      /\ u = IF n + q - (f.F + 1) > MinExp THEN n + q - (f.F + 1) ELSE MinExp
      /\ u - q = f.G + c
  BY <1>1, <1>2
<1>8. n + q - 1 < 1 - B <=> e < 0 BY <1>1, <1>2
<1>9. Ref(f, w)!Round(mode, x) =
        IF overflow
        THEN Ref(f, w)!Result(Ref(f, w)!Signed(s, IF toInfinity THEN Infinity ELSE Infinity - 1),
                              {"overflow", "inexact"})
        ELSE Ref(f, w)!Result(Ref(f, w)!Signed(s, (u - MinExp) * p + k),
                              IF exact THEN {}
                              ELSE {"inexact"} \cup (IF e < 0 THEN {"underflow"} ELSE {}))
  <2> DEFINE N == Ref(f, w)!BitLength(x.m) + x.q
             U == IF N - (f.F + 1) > Ref(f, w)!MinExp THEN N - (f.F + 1) ELSE Ref(f, w)!MinExp
             R == Ref(f, w)!RoundShift(mode, x.s, x.m, U - x.q)
             over == U > Ref(f, w)!Bias - f.F
                       \/ (U = Ref(f, w)!Bias - f.F /\ R.k > 2^(f.F + 1) - 1)
             toInf == mode \in {"near_even", "near_maxMag", IF x.s = 1 THEN "min" ELSE "max"}
  <2>1. Ref(f, w)!Round(mode, x) =
          IF over
          THEN Ref(f, w)!Result(Ref(f, w)!Signed(x.s, IF toInf THEN Ref(f, w)!Infinity
                                                      ELSE Ref(f, w)!Infinity - 1),
                                {"overflow", "inexact"})
          ELSE Ref(f, w)!Result(Ref(f, w)!Signed(x.s, (U - Ref(f, w)!MinExp) * 2^f.F + R.k),
                                IF R.exact THEN {}
                                ELSE {"inexact"} \cup (IF N - 1 < 1 - Ref(f, w)!Bias
                                                       THEN {"underflow"} ELSE {}))
    <3> HIDE DEF x
    <3> QED BY Zenon DEF Ref!Round
  <2>2. x.s = s /\ x.m = sig /\ x.q = q OBVIOUS
  <2> HIDE DEF x
  <2>3. N = n + q BY <1>4, <2>2, Zenon
  <2>4. n \in Int /\ q \in Int /\ f.F \in Int /\ MinExp \in Int /\ B \in Int
    BY <1>1, <1>2
  <2> HIDE DEF N, n, q, u, z
  <2>5. U = u BY <1>7, <2>3, <2>4 DEF MinExp
  <2> HIDE DEF U
  <2>6. R = [k |-> k, exact |-> exact]
    <3>1. U - x.q = f.G + c BY <1>7, <2>2, <2>5
    <3> QED BY <1>6, <2>2, <3>1, Zenon
  <2>7. R.k = k /\ R.exact = exact BY <2>6
  <2> HIDE DEF R
  <2>8. (over <=> overflow) /\ (toInf <=> toInfinity)
    BY <2>2, <2>5, <2>7, Zenon DEF B
  <2>9. N - 1 < 1 - B <=> e < 0 BY <1>8, <2>3, <2>4
  <2> HIDE DEF over, overflow, toInf, toInfinity
  <2>10. (U - Ref(f, w)!MinExp) * 2^f.F + R.k = (u - MinExp) * p + k
    BY <2>5, <2>7, Zenon DEF MinExp, p
  <2> QED BY <2>1, <2>2, <2>7, <2>8, <2>9, <2>10, Zenon DEF B, Infinity
<1>10. Rnd(f, h)!roundPack(mode, s, e, sig) =
         IF e > MaxExp - 2 \/ (e = MaxExp - 2 /\ sig + i >= Top)
         THEN [z |-> Rnd(f, h)!pack(s, MaxExp, 0) - Rnd(f, h)!Bit(i = 0),
               flags |-> {"overflow", "inexact"}]
         ELSE [z |-> Rnd(f, h)!pack(s, IF k = 0 THEN 0 ELSE IF e < 0 THEN 0 ELSE e, k),
               flags |-> IF exact THEN {}
                         ELSE {"inexact"} \cup (IF e < 0 THEN {"underflow"} ELSE {})]
  BY Zenon DEF Rnd!roundPack, MaxExp, Top, i, k, exact
<1>11. overflow <=> e > MaxExp - 2 \/ (e = MaxExp - 2 /\ sig + i >= Top)
  <2>1. e >= 0 => (k > 2^(f.F + 1) - 1 <=> sig + i >= Top)
    <3>1. CASE e >= 0
      <4>1. z = sig BY <3>1
      <4> QED BY <4>1, WordCarries DEF k, i, Top
    <3> QED BY <3>1
  <2> QED BY <1>1, <1>2, <2>1
<1>12. toInfinity <=> i # 0 BY TowardsZero DEF i
<1>13. k \in Nat /\ (e >= 0 => k # 0)
  <2>1. k \in Nat BY <1>6, CutType DEF k
  <2>2. CASE e >= 0
    <3>1. z = sig BY <2>2
    <3> QED BY <2>1, <3>1, WordCarries DEF k
  <2> QED BY <2>1, <2>2
<1>14. ASSUME NEW t PROVE Ref(f, w)!Signed(s, t) = IF s = 1 THEN t + Sign ELSE t
  BY DEF Ref!Signed, Sign
<1>15. ASSUME NEW a, NEW t PROVE Rnd(f, h)!pack(s, a, t) = s * Sign + a * p + t
  BY <1>2 DEF Rnd!pack, p
<1>16. Rnd(f, h)!Bit(i = 0) = IF toInfinity THEN 0 ELSE 1
  BY <1>12 DEF Rnd!Bit
<1>17. u - MinExp = IF e < 0 THEN 0 ELSE e BY <1>1, <1>2
<1> HIDE DEF x, q, n, u, z, toInfinity, overflow
<1>18. Rnd(f, h)!pack(s, MaxExp, 0) - Rnd(f, h)!Bit(i = 0) =
         Ref(f, w)!Signed(s, IF toInfinity THEN Infinity ELSE Infinity - 1)
  <2> DEFINE m == IF toInfinity THEN Infinity ELSE Infinity - 1
  <2>1. PICK v \in Int : v = Infinity /\ v = MaxExp * p
    BY <1>2, <1>3
  <2>2. Ref(f, w)!Signed(s, m) = IF s = 1 THEN m + Sign ELSE m BY <1>14
  <2>3. Rnd(f, h)!pack(s, MaxExp, 0) = s * Sign + v + 0 BY <1>15, <2>1
  <2> QED BY <1>2, <1>16, <2>1, <2>2, <2>3
<1>19. Rnd(f, h)!pack(s, IF k = 0 THEN 0 ELSE IF e < 0 THEN 0 ELSE e, k) =
         Ref(f, w)!Signed(s, (u - MinExp) * p + k)
  <2>1. (IF k = 0 THEN 0 ELSE IF e < 0 THEN 0 ELSE e) = u - MinExp
    BY <1>13, <1>17
  <2>2. PICK a \in Int : a = u - MinExp
    BY <1>17
  <2>3. PICK b \in Int : b = a * p
    BY <1>3
  <2> QED BY <1>2, <1>13, <1>14, <1>15, <2>1, <2>2, <2>3
<1>20. Rnd(f, h)!roundPack(mode, s, e, sig) = Ref(f, w)!Round(mode, x)
  <2>1. CASE overflow
    <3>1. Ref(f, w)!Round(mode, x) =
            Ref(f, w)!Result(Ref(f, w)!Signed(s, IF toInfinity THEN Infinity ELSE Infinity - 1),
                             {"overflow", "inexact"})
      BY <1>9, <2>1, Zenon
    <3>2. Rnd(f, h)!roundPack(mode, s, e, sig) =
            [z |-> Rnd(f, h)!pack(s, MaxExp, 0) - Rnd(f, h)!Bit(i = 0),
             flags |-> {"overflow", "inexact"}]
      BY <1>10, <1>11, <2>1, Zenon
    <3> QED BY <1>18, <3>1, <3>2, Zenon DEF Ref!Result
  <2>2. CASE ~overflow
    <3> DEFINE flags == IF exact THEN {}
                        ELSE {"inexact"} \cup (IF e < 0 THEN {"underflow"} ELSE {})
    <3>1. Ref(f, w)!Round(mode, x) =
            Ref(f, w)!Result(Ref(f, w)!Signed(s, (u - MinExp) * p + k), flags)
      BY <1>9, <2>2, Zenon
    <3>2. Rnd(f, h)!roundPack(mode, s, e, sig) =
            [z |-> Rnd(f, h)!pack(s, IF k = 0 THEN 0 ELSE IF e < 0 THEN 0 ELSE e, k),
             flags |-> flags]
      BY <1>10, <1>11, <2>2, Zenon
    <3> HIDE DEF flags
    <3> QED BY <1>19, <3>1, <3>2, Zenon DEF Ref!Result
  <2> QED BY <2>1, <2>2
<1> QED BY <1>20 DEF x, q, MinExp

----
\* Numbers that round alike

\* The power the prover does not evaluate.
LEMMA PowerZero == 2^0 = 1
<1>1. 2^(0 + 0) = 2^0 * 2^0 /\ 2^0 \in Nat \ {0} BY PowersAdd, PowerOfTwo
<1>2. PICK p \in Nat \ {0} : p = 2^0 /\ p = p * p
  BY <1>1
<1>3. p > 1 => p * p > p * 1 OBVIOUS
<1> QED BY <1>2, <1>3

\* Every number has a number of bits.
LEMMA BitsExist ==
  ASSUME NEW m \in Nat \ {0}, NEW w \in Nat, m < 2^w
  PROVE  \E n \in 1 .. w : HasBits(m, n, w)
<1> DEFINE S == {n \in Nat : m < 2^n}
<1>1. w \in S /\ S \subseteq Nat OBVIOUS
<1>2. PICK n \in S : \A k \in S : ~ (<<k, n>> \in OpToRel(<, Nat))
  BY <1>1, NatLessThanWellFounded, WFMin
<1>3. n \in Nat /\ m < 2^n /\ \A k \in S : k >= n
  <2>1. \A k \in Nat : k < n => <<k, n>> \in OpToRel(<, Nat) BY DEF OpToRel
  <2>2. \A k \in S : ~ (k < n) BY <1>1, <1>2, <2>1, Zenon
  <2> QED BY <2>2
<1>4. n # 0
  <2> SUFFICES ASSUME n = 0 PROVE FALSE
    OBVIOUS
  <2>1. m < 2^0 BY <1>3, Zenon
  <2> QED BY <2>1, PowerZero
<1>5. n \in 1 .. w BY <1>1, <1>3, <1>4
<1>6. ~ (m < 2^(n - 1))
  <2>1. n - 1 \in Nat /\ ~ (n - 1 >= n) BY <1>3, <1>4
  <2> QED BY <1>3, <2>1
<1>7. 2^(n - 1) \in Nat
  <2>1. n - 1 \in Nat BY <1>3, <1>4
  <2> QED BY <2>1, PowerOfTwo
<1> QED BY <1>3, <1>5, <1>6, <1>7 DEF HasBits

\* Two numbers of one binade round alike if they are cut alike.
LEMMA RoundDepends ==
  ASSUME NEW f, NEW h, IsFormat(f, h), NEW mode, NEW s,
         NEW w, NEW m, NEW n, NEW q, NEW v, NEW k, NEW l, NEW t,
         NEW N, OneBinade(N, m, n, w, q, k, l, v, t), CutAlike(f, mode, s, N, m, w, q, k, v, t)
  PROVE  Ref(f, w)!Round(mode, [s |-> s, m |-> m, q |-> q]) =
           Ref(f, v)!Round(mode, [s |-> s, m |-> k, q |-> t])
<1>0. HasBits(m, n, w) /\ HasBits(k, l, v) /\ q \in Int /\ t \in Int /\ N = n + q /\ N = l + t
  BY DEF OneBinade
<1>13. \A d \in Int : d >= N - (f.F + 1) =>
           Ref(f, w)!RoundShift(mode, s, m, d - q) = Ref(f, v)!RoundShift(mode, s, k, d - t)
  BY Zenon DEF CutAlike
<1> DEFINE x == [s |-> s, m |-> m, q |-> q]
           y == [s |-> s, m |-> k, q |-> t]
           U == IF N - (f.F + 1) > Ref(f, w)!MinExp THEN N - (f.F + 1) ELSE Ref(f, w)!MinExp
<1>1. Ref(f, w)!BitLength(m) = n /\ Ref(f, v)!BitLength(k) = l
  BY <1>0, BitLengthIs DEF HasBits
<1>2. /\ Ref(f, w)!MinExp = Ref(f, v)!MinExp /\ Ref(f, w)!Bias = Ref(f, v)!Bias
      /\ Ref(f, w)!Infinity = Ref(f, v)!Infinity
      /\ \A z : Ref(f, w)!Signed(s, z) = Ref(f, v)!Signed(s, z)
      /\ \A z, a : Ref(f, w)!Result(z, a) = Ref(f, v)!Result(z, a)
  BY DEF Ref!MinExp, Ref!Bias, Ref!Infinity, Ref!Signed, Ref!Sign, Ref!Result
<1>3. U \in Int /\ U >= N - (f.F + 1)
  <2>1. Ref(f, w)!MinExp \in Int /\ f.F \in Nat BY Exponents DEF IsFormat
  <2>2. n \in Nat BY <1>0 DEF HasBits
  <2> QED BY <1>0, <2>1, <2>2
<1>4. Ref(f, w)!RoundShift(mode, s, m, U - q) = Ref(f, v)!RoundShift(mode, s, k, U - t)
  <2> HIDE DEF U
  <2> QED BY <1>13, <1>3, Zenon
<1>5. x.s = s /\ x.m = m /\ x.q = q /\ y.s = s /\ y.m = k /\ y.q = t OBVIOUS
<1>6. Ref(f, w)!BitLength(x.m) + x.q = N /\ Ref(f, v)!BitLength(y.m) + y.q = N
  BY <1>0, <1>1
<1> HIDE DEF x, y, U
<1> DEFINE Z == Ref(f, w)!RoundShift(mode, s, m, U - q)
<1>7. /\ Ref(f, w)!Round(mode, x) = Outcome(f, w, mode, s, N, U, Z)
      /\ Ref(f, v)!Round(mode, y) = Outcome(f, v, mode, s, N, U, Z)
  <2>1. ASSUME NEW W, NEW X
        PROVE  LET n_1 == Ref(f, W)!BitLength(X.m) + X.q
                   u_1 == IF n_1 - (f.F + 1) > Ref(f, W)!MinExp THEN n_1 - (f.F + 1)
                          ELSE Ref(f, W)!MinExp
               IN Ref(f, W)!Round(mode, X) =
                    Outcome(f, W, mode, X.s, n_1, u_1,
                            Ref(f, W)!RoundShift(mode, X.s, X.m, u_1 - X.q))
    BY Zenon DEF Ref!Round, Outcome
  <2> HIDE DEF Z
  <2> QED BY <1>2, <1>4, <1>5, <1>6, <2>1, Zenon DEF U, Z
<1>8. Outcome(f, w, mode, s, N, U, Z) = Outcome(f, v, mode, s, N, U, Z)
  <2> HIDE DEF Z
  <2> QED BY <1>2, Zenon DEF Outcome
<1> QED BY <1>7, <1>8 DEF x, y

\* They are as many as fit.
LEMMA BitsFit ==
  ASSUME NEW m, NEW n, NEW w, HasBits(m, n, w), NEW v \in Nat, m < 2^v
  PROVE  HasBits(m, n, v) /\ n <= v
<1>1. n \in Nat \ {0} /\ m \in Nat /\ 2^(n - 1) <= m /\ m < 2^n
  BY DEF HasBits
<1>2. n <= v
  <2> SUFFICES ASSUME v <= n - 1 PROVE FALSE
    BY <1>1
  <2>1. 2^v <= 2^(n - 1) /\ 2^v \in Nat
    <3>1. PICK i \in Nat : i = n - 1 /\ v <= i
      BY <1>1
    <3>2. 2^v <= 2^i BY <3>1, PowersGrow
    <3> QED BY <3>1, <3>2, PowerOfTwo
  <2>2. 2^(n - 1) \in Nat BY <1>1, Doubled
  <2> QED BY <1>1, <2>1, <2>2
<1> QED BY <1>1, <1>2 DEF HasBits

\* Scaling by 2^k adds k bits.
LEMMA ScaledBits ==
  ASSUME NEW m, NEW n, NEW w, HasBits(m, n, w), NEW k \in Nat, NEW v \in Nat, n + k <= v
  PROVE  HasBits(m * 2^k, n + k, v)
<1> USE DEF HasBits
<1>1. /\ 2^(n + k) = 2^n * 2^k /\ 2^n \in Nat \ {0} /\ 2^k \in Nat \ {0}
  <2>1. n \in Nat OBVIOUS
  <2> QED BY <2>1, PowersAdd, PowerOfTwo
<1>2. 2^(n + k - 1) = 2^(n - 1) * 2^k /\ 2^(n - 1) \in Nat \ {0}
  <2>1. PICK i \in Nat : i = n - 1 OBVIOUS
  <2>2. n + k - 1 = i + k BY <2>1
  <2>3. 2^(i + k) = 2^i * 2^k /\ 2^i \in Nat \ {0} BY PowersAdd, PowerOfTwo
  <2> QED BY <2>1, <2>2, <2>3
<1>3. PICK a, b, c \in Nat : a = 2^(n - 1) /\ b = 2^n /\ c = 2^k /\ c > 0
  BY <1>1, <1>2
<1>4. a * c <= m * c /\ m * c < b * c /\ m * c \in Nat BY <1>3
<1>5. n + k \in 1 .. v OBVIOUS
<1> QED BY <1>1, <1>2, <1>3, <1>4, <1>5

\* A number is not rounded up when nothing is cut off.
LEMMA NothingLost ==
  ASSUME NEW mode, NEW s, Directed(mode, s), NEW k, NEW p \in Nat \ {0}
  PROVE  ~ RoundsUp(mode, s, k, 0, p)
<1>1. 2 * 0 = 0 /\ ~ (0 > p) /\ p # 0 /\ ~ (0 >= p) /\ ~ (0 > 0) OBVIOUS
<1>2. CASE mode = "near_even" BY <1>1, <1>2 DEF RoundsUp
<1>3. CASE mode = "near_maxMag" BY <1>1, <1>3 DEF RoundsUp
<1>4. CASE mode = "minMag" BY <1>1, <1>4 DEF RoundsUp
<1>5. CASE mode = "min" BY <1>1, <1>5 DEF RoundsUp
<1>6. CASE mode = "max" BY <1>1, <1>6 DEF RoundsUp
<1> QED BY <1>2, <1>3, <1>4, <1>5, <1>6 DEF Directed, RoundingModes

\* A number and its shift left round alike.
LEMMA ShiftScales ==
  ASSUME NEW f, NEW mode, NEW s, Directed(mode, s), NEW w, NEW m, NEW n, HasBits(m, n, w),
         NEW k, NEW M, NEW v, Scales(m, n, k, M, v), NEW d, NEW e, Moved(d, e, k)
  PROVE  Ref(f, w)!RoundShift(mode, s, m, d) = Ref(f, v)!RoundShift(mode, s, M, e)
<1>0. k \in Nat /\ M = m * 2^k /\ v \in Nat /\ n + k <= v /\ e = d + k /\ d \in Int
  BY DEF Scales, Moved
<1>1. HasBits(M, n + k, v) BY <1>0, ScaledBits
<1>2. m \in Nat /\ 2^k \in Nat \ {0} /\ M \in Nat
  <2>1. m \in Nat /\ 2^k \in Nat \ {0} BY <1>0, PowerOfTwo DEF HasBits
  <2> QED BY <1>0, <2>1
<1>3. CASE d >= 1
  <2> DEFINE p == 2^d
             c == 2^k
             i == m \div p
             r == m % p
  <2>1. p \in Nat \ {0} /\ c \in Nat \ {0} /\ 2^(e) = p * c /\ d \in Nat /\ e \in Nat \ {0}
    <3>1. d \in Nat /\ e \in Nat \ {0} BY <1>0, <1>3
    <3>2. 2^(d + k) = p * c /\ 2^d \in Nat \ {0} /\ 2^k \in Nat \ {0}
      BY <1>0, <3>1, PowersAdd, PowerOfTwo
    <3> QED BY <1>0, <3>1, <3>2
  <2>2. Splits(m, p, i, r) BY <1>2, <2>1, NaturalDivision DEF Splits
  <2>3. Shifts(m, d, i, r) BY <1>0, <1>3, <2>2 DEF Shifts
  <2> HIDE DEF i, r
  <2>4. Ref(f, w)!RoundShift(mode, s, m, d) = [k |-> Rounded(mode, s, i, r, 2^d), exact |-> r = 0]
    BY <2>3, RoundShiftIs
  <2>5. Splits(M, p * c, i, r * c)
    <3> HIDE DEF p, c
    <3>1. i \in Nat /\ r \in 0 .. (p - 1) /\ m = i * p + r
      BY <2>2 DEF Splits
    <3>2. m * c = i * (p * c) + r * c
      <4>1. PICK z \in Int : z = i * p
        BY <2>1, <3>1
      <4>2. (z + r) * c = z * c + r * c BY <2>1, <3>1
      <4>3. (i * p) * c = i * (p * c) BY <2>1, <3>1
      <4> QED BY <3>1, <4>1, <4>2, <4>3
    <3>3. r * c \in 0 .. (p * c - 1)
      <4>1. (r + 1) * c <= p * c BY <2>1, <3>1
      <4>2. (r + 1) * c = r * c + c /\ r * c \in Nat /\ p * c \in Nat
        BY <2>1, <3>1
      <4> QED BY <2>1, <4>1, <4>2
    <3>4. p * c \in Nat \ {0} BY <2>1
    <3>5. M = m * c BY <1>0 DEF c
    <3> QED BY <1>2, <3>1, <3>2, <3>3, <3>4, <3>5 DEF Splits
  <2>6. Shifts(M, e, i, r * c) BY <2>1, <2>5, Zenon DEF Shifts
  <2>7. Ref(f, v)!RoundShift(mode, s, M, e) =
          [k |-> Rounded(mode, s, i, r * c, 2^(e)), exact |-> r * c = 0]
    BY <1>1, <2>6, RoundShiftIs
  <2> HIDE DEF p, c
  <2>8. i \in Nat /\ r \in Nat /\ p \in Nat /\ r * c \in Nat /\ p * c \in Nat
    BY <2>1, <2>2 DEF Splits
  <2>9. Alike(r, p, r * c, p * c)
    <3>1. /\ 2 * r > p => (2 * r) * c > p * c
          /\ 2 * r < p => (2 * r) * c < p * c
          /\ r > 0 => r * c > 0
      BY <2>1, <2>8
    <3>2. (2 * r) * c = 2 * (r * c) /\ 0 * c = 0 BY <2>1, <2>8
    <3>3. 2 * r = p => (2 * r) * c = p * c OBVIOUS
    <3> QED BY <2>1, <2>8, <3>1, <3>2, <3>3 DEF Alike
  <2>10. Rounded(mode, s, i, r, p) = Rounded(mode, s, i, r * c, p * c)
    BY <2>8, <2>9, UpCompares
  <2>11. (r = 0) = (r * c = 0) BY <2>9 DEF Alike
  <2> QED BY <2>1, <2>4, <2>7, <2>10, <2>11, Zenon DEF p
<1>4. CASE d <= 0 /\ e <= 0
  <2>1. PICK a, b \in Nat : a = - d /\ b = - (e)
    BY <1>0, <1>4
  <2>2. 2^a = 2^k * 2^b /\ 2^b \in Nat
    <3>1. a = k + b BY <1>0, <2>1
    <3> QED BY <1>0, <3>1, PowersAdd, PowerOfTwo
  <2>3. m * 2^a = M * 2^b BY <1>0, <1>2, <2>2
  <2>4. Ref(f, w)!RoundShift(mode, s, m, d) = [k |-> m * 2^(- d), exact |-> TRUE]
    BY <1>4, Zenon DEF Ref!RoundShift
  <2>5. Ref(f, v)!RoundShift(mode, s, M, e) = [k |-> M * 2^(- e), exact |-> TRUE]
    BY <1>4, Zenon DEF Ref!RoundShift
  <2> QED BY <2>1, <2>3, <2>4, <2>5, Zenon
<1>5. CASE d <= 0 /\ e >= 1
  <2>1. PICK a \in Nat : a = - d
    BY <1>0, <1>5
  <2>2. PICK b \in Nat \ {0} : b = e
    BY <1>0, <1>5
  <2>3. 2^k = 2^a * 2^b /\ 2^a \in Nat /\ 2^b \in Nat \ {0}
    <3>1. k = a + b BY <1>0, <2>1, <2>2
    <3> QED BY <3>1, PowersAdd, PowerOfTwo
  <2> DEFINE i == m * 2^a
  <2>4. i \in Nat /\ M = i * 2^b + 0 BY <1>0, <1>2, <2>3
  <2> HIDE DEF i
  <2>5. Shifts(M, b, i, 0) BY <1>2, <2>2, <2>3, <2>4 DEF Shifts, Splits
  <2>6. Ref(f, v)!RoundShift(mode, s, M, b) = [k |-> Rounded(mode, s, i, 0, 2^b), exact |-> 0 = 0]
    BY <1>1, <2>5, RoundShiftIs
  <2>7. ~ RoundsUp(mode, s, i, 0, 2^b) BY <2>3, NothingLost
  <2>8. Ref(f, w)!RoundShift(mode, s, m, d) = [k |-> m * 2^(- d), exact |-> TRUE]
    BY <1>5, Zenon DEF Ref!RoundShift
  <2> QED BY <2>1, <2>2, <2>6, <2>7, <2>8, Zenon DEF Rounded, i
<1> QED BY <1>0, <1>3, <1>4, <1>5

\* A number rounds alike however far down its last place is written.
LEMMA Rescaled ==
  ASSUME NEW f, NEW h, IsFormat(f, h), NEW mode, NEW s, Directed(mode, s),
         NEW m \in Nat \ {0}, NEW k \in Nat, NEW q \in Int, NEW r
  PROVE  RoundsTo(f, mode, s, m, q, r) <=> RoundsTo(f, mode, s, m * 2^k, q - k, r)
<1> DEFINE M == m * 2^k
<1>1. 2^k \in Nat \ {0} BY PowerOfTwo
<1>2. M \in Nat /\ m <= M
  <2>1. m * 1 <= m * 2^k BY <1>1
  <2> QED BY <1>1, <2>1
<1>3. ASSUME NEW w \in Nat, m < 2^w, NEW v \in Nat, M < 2^v
      PROVE  Ref(f, w)!Round(mode, [s |-> s, m |-> m, q |-> q]) =
               Ref(f, v)!Round(mode, [s |-> s, m |-> M, q |-> q - k])
  <2>1. PICK n \in 1 .. w : HasBits(m, n, w)
    BY <1>3, BitsExist
  <2>2. HasBits(M, n + k, v) /\ n + k <= v
    <3>1. PICK x \in Nat : x = w + k /\ n + k <= x OBVIOUS
    <3>2. HasBits(M, n + k, x) BY <2>1, <3>1, ScaledBits
    <3> HIDE DEF M
    <3> QED BY <1>3, <3>2, BitsFit
  <2>3. Scales(m, n, k, M, v) BY <2>2 DEF Scales
  <2>4. PICK l \in Int, t \in Int, N \in Int : l = n + k /\ t = q - k /\ N = n + q /\ N = l + t
    OBVIOUS
  <2> HIDE DEF M
  <2>5. ASSUME NEW d \in Int
        PROVE  Ref(f, w)!RoundShift(mode, s, m, d - q) =
                 Ref(f, v)!RoundShift(mode, s, M, d - t)
    <3>1. PICK a \in Int, e \in Int : a = d - q /\ e = d - t /\ e = a + k
      BY <2>4
    <3>2. Ref(f, w)!RoundShift(mode, s, m, a) = Ref(f, v)!RoundShift(mode, s, M, e)
      <4>1. Moved(a, e, k) BY <3>1 DEF Moved
      <4> QED BY <2>1, <2>3, <4>1, ShiftScales
    <3> QED BY <3>1, <3>2
  <2>6. CutAlike(f, mode, s, N, m, w, q, M, v, t)
    BY <2>5, Zenon DEF CutAlike
  <2>7. OneBinade(N, m, n, w, q, M, l, v, t)
    BY <2>1, <2>2, <2>4 DEF OneBinade
  <2>8. Ref(f, w)!Round(mode, [s |-> s, m |-> m, q |-> q]) =
          Ref(f, v)!Round(mode, [s |-> s, m |-> M, q |-> t])
    BY <2>6, <2>7, RoundDepends
  <2> QED BY <2>4, <2>8
<1>4. ASSUME NEW v \in Nat, M < 2^v PROVE m < 2^v
  <2>1. 2^v \in Nat BY PowerOfTwo
  <2> QED BY <1>2, <1>4, <2>1
<1>5. ASSUME NEW w \in Nat, m < 2^w PROVE \E v \in Nat : M < 2^v
  <2>1. 2^(w + k) = 2^w * 2^k /\ 2^w \in Nat BY PowersAdd, PowerOfTwo
  <2>2. m * 2^k < 2^w * 2^k BY <1>1, <1>5, <2>1
  <2> QED BY <2>1, <2>2
<1> HIDE DEF M
<1>6. ASSUME RoundsTo(f, mode, s, m, q, r) PROVE RoundsTo(f, mode, s, M, q - k, r)
  BY <1>3, <1>4, <1>6, Zenon DEF RoundsTo
<1>7. ASSUME RoundsTo(f, mode, s, M, q - k, r) PROVE RoundsTo(f, mode, s, m, q, r)
  BY <1>3, <1>5, <1>7, Zenon DEF RoundsTo
<1> QED BY <1>6, <1>7, Zenon DEF M

----
\* Numbers with a sticky last bit

\* Even numbers compare with k as they do with v / d.
LEMMA StickyOrder ==
  ASSUME NEW k, NEW v, NEW d, Sticks(k, v, d), NEW b \in Nat
  PROVE  /\ k >= 2 * b <=> v >= (2 * b) * d
         /\ k > 2 * b <=> v > (2 * b) * d
<1> DEFINE e == 2 * b
<1>1. e \in Nat /\ e % 2 = 0 /\ k \in Nat /\ v \in Nat /\ d \in Nat \ {0} /\ k * d \in Nat /\ e * d \in Nat
  BY DEF Sticks
<1>2. (k - 1) * d = k * d - d /\ (k + 1) * d = k * d + d BY <1>1
<1> HIDE DEF e
<1>3. CASE k = e BY <1>1, <1>3 DEF Sticks, e
<1>4. CASE k > e
  <2>1. (e + 1) * d <= k * d /\ (e + 1) * d = e * d + d BY <1>1, <1>4
  <2>2. CASE k % 2 = 0 BY <1>1, <1>4, <2>1, <2>2 DEF Sticks, e
  <2>3. CASE k % 2 # 0 BY <1>1, <1>2, <1>4, <2>1, <2>3 DEF Sticks, e
  <2> QED BY <2>2, <2>3
<1>5. CASE k < e
  <2>1. (k + 1) * d <= e * d /\ k * d + d <= e * d BY <1>1, <1>2, <1>5
  <2>2. v < e * d
    <3>1. CASE k % 2 = 0 BY <1>1, <2>1, <3>1 DEF Sticks
    <3>2. CASE k % 2 # 0 BY <1>1, <1>2, <2>1, <3>2 DEF Sticks
    <3> QED BY <3>1, <3>2
  <2> QED BY <1>1, <1>5, <2>2 DEF e
<1> QED BY <1>1, <1>3, <1>4, <1>5

\* What a jamming shift leaves.
LEMMA JamSticks ==
  ASSUME NEW f, NEW h, NEW a \in Nat, NEW d \in Nat \ {0}
  PROVE  Sticks(Rnd(f, h)!Jam(a \div d, a % d # 0), a, d)
<1> DEFINE k == a \div d
           r == a % d
           z == Rnd(f, h)!Jam(k, r # 0)
<1>1. a = k * d + r /\ k \in Nat /\ r \in 0 .. (d - 1) BY NaturalDivision
<1>2. z = IF r # 0 /\ k % 2 = 0 THEN k + 1 ELSE k BY DEF Rnd!Jam
<1> HIDE DEF k, r, z
<1>3. k * d \in Nat /\ (k - 1) * d = k * d - d /\ (k + 1) * d = k * d + d /\ (k + 2) * d = k * d + 2 * d
  BY <1>1
<1>4. CASE r # 0 /\ k % 2 = 0
  <2>1. z = k + 1 /\ (k + 1) % 2 # 0 /\ z - 1 = k /\ z + 1 = k + 2
    BY <1>1, <1>2, <1>4
  <2>2. (z - 1) * d < a /\ a < (z + 1) * d BY <1>1, <1>3, <1>4, <2>1
  <2> QED BY <1>1, <2>1, <2>2 DEF Sticks, z, k, r
<1>5. CASE ~(r # 0 /\ k % 2 = 0)
  <2>1. z = k BY <1>2, <1>5
  <2>2. CASE k % 2 = 0
    <3>1. a = k * d BY <1>1, <1>3, <1>5, <2>2
    <3> QED BY <1>1, <2>1, <2>2, <3>1 DEF Sticks, z, k, r
  <2>3. CASE k % 2 # 0
    <3>1. (k - 1) * d < a /\ a < (k + 1) * d BY <1>1, <1>3
    <3> QED BY <1>1, <2>1, <2>3, <3>1 DEF Sticks, z, k, r
  <2> QED BY <2>2, <2>3
<1> QED BY <1>4, <1>5

\* Jamming again loses nothing more.
LEMMA StickyComposes ==
  ASSUME NEW k, NEW v, NEW d, Sticks(k, v, d), NEW l, NEW e, Sticks(l, k, e), e % 2 = 0
  PROVE  Sticks(l, v, d * e)
<1>1. /\ l \in Nat /\ k \in Nat /\ v \in Nat /\ d \in Nat \ {0} /\ e \in Nat \ {0}
      /\ d * e \in Nat \ {0}
  <2>1. l \in Nat /\ k \in Nat /\ v \in Nat /\ d \in Nat \ {0} /\ e \in Nat \ {0}
    BY DEF Sticks
  <2>2. d * e \in Nat /\ d * e >= d * 1 BY <2>1
  <2> QED BY <2>1, <2>2
<1>2. PICK g \in Nat : e = 2 * g
  <2>1. e = 2 * (e \div 2) /\ e \div 2 \in Nat BY <1>1
  <2> QED BY <2>1
<1>3. ASSUME NEW x \in Nat
      PROVE  (k >= x * e <=> v >= x * (d * e)) /\ (k > x * e <=> v > x * (d * e))
  <2>1. PICK b \in Nat : b = x * g
    BY <1>2
  <2>2. 2 * b = x * e BY <1>2, <2>1
  <2>3. (2 * b) * d = x * (d * e)
    <3>1. (x * e) * d = x * (d * e) BY <1>1
    <3> QED BY <2>2, <3>1
  <2> QED BY <2>2, <2>3, StickyOrder
<1>4. CASE l % 2 = 0
  <2>1. k = l * e BY <1>4 DEF Sticks
  <2>2. v = l * (d * e)
    <3>1. v >= l * (d * e) /\ ~ (v > l * (d * e)) BY <1>1, <1>3, <2>1
    <3> QED BY <1>1, <3>1
  <2> QED BY <1>1, <1>4, <2>2 DEF Sticks
<1>5. CASE l % 2 # 0
  <2>1. (l - 1) * e < k /\ k < (l + 1) * e BY <1>5 DEF Sticks
  <2>2. PICK x \in Nat, y \in Nat : x = l - 1 /\ y = l + 1
    BY <1>1, <1>5
  <2>3. k > x * e /\ ~ (k >= y * e) BY <1>1, <2>1, <2>2
  <2>4. v > x * (d * e) /\ ~ (v >= y * (d * e)) BY <1>3, <2>2, <2>3
  <2>5. (l - 1) * (d * e) < v /\ v < (l + 1) * (d * e) BY <1>1, <2>2, <2>4
  <2> QED BY <1>1, <1>5, <2>5 DEF Sticks
<1> QED BY <1>4, <1>5

\* A sum and a difference with an even number.
LEMMA StickyAdds ==
  ASSUME NEW k, NEW v, NEW d, Sticks(k, v, d), NEW x \in Nat, x % 2 = 0
  PROVE  /\ Sticks(x + k, x * d + v, d)
         /\ k <= x => Sticks(x - k, x * d - v, d)
<1>1. /\ k \in Nat /\ v \in Nat /\ d \in Nat \ {0} /\ x * d \in Nat /\ k * d \in Nat
      /\ (k - 1) * d = k * d - d /\ (k + 1) * d = k * d + d
  BY DEF Sticks
<1>2. /\ (x + k) * d = x * d + k * d /\ (x + k - 1) * d = x * d + k * d - d
      /\ (x + k + 1) * d = x * d + k * d + d
  BY <1>1
<1>3. /\ (x - k) * d = x * d - k * d /\ (x - k - 1) * d = x * d - k * d - d
      /\ (x - k + 1) * d = x * d - k * d + d
  BY <1>1
<1>4. CASE k % 2 = 0
  <2>1. v = k * d BY <1>4 DEF Sticks
  <2>2. (x + k) % 2 = 0 /\ (k <= x => (x - k) % 2 = 0) BY <1>1, <1>4
  <2>3. k <= x => x * d - v \in Nat
    <3>1. k <= x => k * d <= x * d BY <1>1
    <3> QED BY <1>1, <2>1, <3>1
  <2> QED BY <1>1, <1>2, <1>3, <2>1, <2>2, <2>3 DEF Sticks
<1>5. CASE k % 2 # 0
  <2>1. k * d - d < v /\ v < k * d + d BY <1>1, <1>5 DEF Sticks
  <2>2. (x + k) % 2 # 0 /\ (k <= x => (x - k) % 2 # 0) BY <1>1, <1>5
  <2>3. k <= x => x * d - v \in Nat
    <3>1. k <= x => (k + 1) * d <= x * d
      <4>1. k # x BY <1>5
      <4>2. k <= x => k + 1 <= x BY <1>1, <4>1
      <4> QED BY <1>1, <4>2
    <3> QED BY <1>1, <2>1, <3>1
  <2> QED BY <1>1, <1>2, <1>3, <2>1, <2>2, <2>3 DEF Sticks
<1> QED BY <1>4, <1>5

\* Two bits further up nothing is lost.
LEMMA StickySplits ==
  ASSUME NEW k, NEW v, NEW e, Sticks(k, v, e), NEW p, NEW g \in Nat \ {0}, p = 4 * g,
         NEW i, NEW a, Splits(k, p, i, a)
  PROVE  \E b : Splits(v, p * e, i, b) /\ Alike(a, p, b, p * e)
<1> DEFINE P == p * e
           b == v - i * P
<1>1. /\ k \in Nat /\ v \in Nat /\ e \in Nat \ {0} /\ p \in Nat \ {0} /\ i \in Nat
      /\ a \in 0 .. (p - 1) /\ k = i * p + a
  BY DEF Sticks, Splits
<1>2. P \in Nat \ {0}
  <2>1. P \in Nat /\ P >= 1 * e BY <1>1
  <2> QED BY <1>1, <2>1
<1>3. ASSUME NEW x \in Nat
      PROVE  /\ a >= 2 * x <=> b >= (2 * x) * e
             /\ a > 2 * x <=> b > (2 * x) * e
  <2>1. PICK c \in Nat : c = i * (2 * g)
    BY <1>1
  <2>2. 2 * c = i * p BY <1>1, <2>1
  <2>3. PICK y \in Nat : y = c + x OBVIOUS
  <2>4. /\ k >= 2 * y <=> v >= (2 * y) * e
        /\ k > 2 * y <=> v > (2 * y) * e
    BY <2>3, StickyOrder
  <2>5. (2 * y) * e = i * P + (2 * x) * e /\ i * P \in Nat /\ (2 * x) * e \in Nat
    <3>1. (2 * y) * e = (2 * c) * e + (2 * x) * e BY <1>1, <2>3
    <3>2. (i * p) * e = i * P /\ i * P \in Nat /\ (2 * x) * e \in Nat
      BY <1>1
    <3> QED BY <2>2, <3>1, <3>2
  <2>6. 2 * y = i * p + 2 * x /\ i * p \in Nat BY <1>1, <2>2, <2>3
  <2> QED BY <1>1, <2>4, <2>5, <2>6
<1>4. i * P \in Nat BY <1>1, <1>2
<1>5. b >= 0 /\ (a > 0 <=> b > 0)
  <2>1. (2 * 0) * e = 0 /\ 2 * 0 = 0 BY <1>1
  <2>2. /\ a >= 2 * 0 <=> b >= (2 * 0) * e
        /\ a > 2 * 0 <=> b > (2 * 0) * e
    BY <1>3
  <2> QED BY <1>1, <2>1, <2>2
<1>6. b < P
  <2>1. PICK x \in Nat : x = 2 * g OBVIOUS
  <2>2. a >= 2 * x <=> b >= (2 * x) * e BY <1>3
  <2>3. 2 * x = p BY <2>1
  <2> QED BY <1>1, <1>2, <1>4, <2>2, <2>3
<1>7. (a >= 2 * g <=> 2 * b >= P) /\ (a > 2 * g <=> 2 * b > P)
  <2>1. P = 2 * ((2 * g) * e) /\ (2 * g) * e \in Nat BY <1>1
  <2> QED BY <1>1, <1>3, <1>4, <2>1
<1> HIDE DEF P
<1>8. Splits(v, P, i, b) BY <1>1, <1>2, <1>4, <1>5, <1>6 DEF Splits
<1>9. Alike(a, p, b, P)
  <2>1. PICK B \in Int : B = b
    BY <1>1, <1>4
  <2>2. /\ 2 * a > p <=> a > 2 * g
        /\ 2 * a >= p <=> a >= 2 * g
        /\ a = 0 <=> B = 0
    BY <1>1, <1>5, <2>1
  <2>3. (2 * a > p <=> 2 * B > P) /\ (2 * a >= p <=> 2 * B >= P)
    BY <1>7, <2>1, <2>2
  <2>4. 2 * a = p <=> 2 * B = P BY <1>1, <1>2, <2>3
  <2> QED BY <2>1, <2>2, <2>3, <2>4 DEF Alike
<1> QED BY <1>8, <1>9 DEF P

\* A number of enough bits with a sticky last bit rounds as the number it
\* stands for.
LEMMA StickyRounds ==
  ASSUME NEW f, NEW h, IsFormat(f, h), NEW mode, NEW s, Directed(mode, s),
         NEW k, NEW v, NEW j \in Nat, Sticks(k, v, 2^j), k >= 2^(f.F + 2),
         NEW p \in Int, NEW r, RoundsTo(f, mode, s, k, p, r)
  PROVE  RoundsTo(f, mode, s, v, p - j, r)
<1>1. k \in Nat /\ v \in Nat /\ 2^j \in Nat \ {0} /\ f.F \in Nat /\ f.F + 2 \in Nat
  BY DEF Sticks, IsFormat
<1> SUFFICES ASSUME NEW w \in Nat, v < 2^w
             PROVE  Ref(f, w)!Round(mode, [s |-> s, m |-> v, q |-> p - j]) = r
  BY DEF RoundsTo
<1>2. 2^w \in Nat /\ 2^(f.F + 2) \in Nat \ {0} BY <1>1, PowerOfTwo
<1>3. k <= v
  <2>1. k * 2^j >= k * 1 /\ ((k - 1) * 2^j >= (k - 1) * 1 \/ k = 0) BY <1>1
  <2>2. k # 0 BY <1>2
  <2> QED BY <1>1, <2>1, <2>2 DEF Sticks
<1>4. PICK n \in 1 .. w : HasBits(k, n, w)
  <2>1. k \in Nat \ {0} /\ k < 2^w BY <1>1, <1>2, <1>3
  <2> QED BY <2>1, BitsExist
<1>5. n >= f.F + 3
  <2> SUFFICES ASSUME n <= f.F + 2 PROVE FALSE
    BY <1>1
  <2>1. 2^n <= 2^(f.F + 2) /\ 2^n \in Nat
    <3>1. PICK x \in Nat, y \in Nat : x = f.F + 2 /\ y = n /\ y <= x
      BY <1>1
    <3>2. 2^y <= 2^x /\ 2^y \in Nat BY <3>1, PowersGrow, PowerOfTwo
    <3> QED BY <3>1, <3>2
  <2> QED BY <1>1, <1>2, <1>4, <2>1 DEF HasBits
<1>6. PICK c \in Nat : c = n - 2 /\ c >= f.F + 1
  BY <1>1, <1>5
<1>7. 2^(n - 1) = 2 * 2^c /\ 2^n = 2 * 2^(n - 1) /\ 2^c \in Nat \ {0}
  <2>1. PICK b \in Nat \ {0} : b = n - 1 /\ b - 1 = c
    BY <1>6
  <2>2. 2^b = 2 * 2^(b - 1) /\ 2^n = 2 * 2^(n - 1) BY Doubled
  <2> QED BY <1>6, <2>1, <2>2, PowerOfTwo
<1>8. PICK l \in Nat, t \in Int, N \in Int :
        l = n + j /\ t = p - j /\ N = n + p /\ N = l + t
  OBVIOUS
<1>9. HasBits(v, l, w)
  <2>1. v >= 2^(n - 1) * 2^j
    <3>1. k >= 2 * 2^c BY <1>4, <1>7 DEF HasBits
    <3> QED BY <1>7, <3>1, StickyOrder
  <2>2. v < 2^n * 2^j
    <3>1. ~ (k >= 2 * 2^(n - 1)) /\ 2^(n - 1) \in Nat
      BY <1>1, <1>4, <1>7 DEF HasBits
    <3>2. ~ (v >= (2 * 2^(n - 1)) * 2^j) BY <3>1, StickyOrder
    <3>3. 2^n * 2^j \in Nat BY <1>1, <1>7, <3>1
    <3> QED BY <1>1, <1>7, <3>2, <3>3
  <2>3. 2^n * 2^j = 2^l /\ 2^(n - 1) * 2^j = 2^(l - 1)
    <3>1. PICK b \in Nat : b = n - 1 OBVIOUS
    <3>2. 2^(n + j) = 2^n * 2^j BY PowersAdd
    <3>3. 2^(b + j) = 2^b * 2^j BY PowersAdd
    <3>4. b + j = l - 1 BY <1>8, <3>1
    <3> QED BY <1>8, <3>1, <3>2, <3>3, <3>4
  <2>4. PICK x \in Nat : x = l + w OBVIOUS
  <2>5. HasBits(v, l, x)
    <3>1. l \in 1 .. x BY <1>8, <2>4
    <3> QED BY <1>1, <2>1, <2>2, <2>3, <2>4, <3>1 DEF HasBits
  <2> QED BY <2>5, BitsFit
<1>10. ASSUME NEW d \in Int, d >= N - (f.F + 1)
       PROVE  Ref(f, w)!RoundShift(mode, s, k, d - p) = Ref(f, w)!RoundShift(mode, s, v, d - t)
  <2>1. PICK x \in Nat \ {0}, y \in Nat \ {0} : x = d - p /\ y = d - t /\ y = x + j /\ x >= 2
    <3>1. d - p >= 2 /\ d - t = d - p + j BY <1>1, <1>5, <1>8, <1>10
    <3> QED BY <3>1
  <2>2. PICK g \in Nat \ {0} : 2^x = 4 * g
    <3>1. PICK b \in Nat \ {0} : b = x - 1 /\ b - 1 \in Nat
      BY <2>1
    <3>2. 2^x = 2 * 2^(x - 1) /\ 2^b = 2 * 2^(b - 1) /\ 2^(b - 1) \in Nat \ {0}
      BY Doubled
    <3>3. 2^x = 4 * 2^(b - 1) BY <3>1, <3>2
    <3> QED BY <3>2, <3>3
  <2>3. 2^y = 2^x * 2^j /\ 2^x \in Nat \ {0} BY <2>1, PowersAdd, PowerOfTwo
  <2> DEFINE P == 2^x
             i == k \div P
             a == k % P
  <2>4. Splits(k, P, i, a) BY <1>1, <2>3, NaturalDivision DEF Splits
  <2> HIDE DEF P, i, a
  <2>5. P = 4 * g BY <2>2 DEF P
  <2>6. PICK b : Splits(v, P * 2^j, i, b) /\ Alike(a, P, b, P * 2^j)
    BY <2>4, <2>5, StickySplits
  <2>7. Shifts(k, x, i, a) /\ Shifts(v, y, i, b) /\ P * 2^j = 2^y
    BY <2>3, <2>4, <2>6 DEF Shifts, P
  <2>8. /\ Ref(f, w)!RoundShift(mode, s, k, x) = [k |-> Rounded(mode, s, i, a, 2^x), exact |-> a = 0]
        /\ Ref(f, w)!RoundShift(mode, s, v, y) = [k |-> Rounded(mode, s, i, b, 2^y), exact |-> b = 0]
    BY <1>4, <1>9, <2>7, RoundShiftIs
  <2>9. Rounded(mode, s, i, a, P) = Rounded(mode, s, i, b, P * 2^j)
    <3>1. i \in Nat /\ a \in Nat /\ P \in Nat /\ b \in Nat /\ P * 2^j \in Nat
      BY <2>4, <2>6 DEF Splits
    <3> QED BY <2>6, <3>1, UpCompares
  <2>10. (a = 0) = (b = 0) BY <2>6 DEF Alike
  <2> QED BY <2>1, <2>7, <2>8, <2>9, <2>10, Zenon DEF P
<1>11. CutAlike(f, mode, s, N, k, w, p, v, w, t)
  BY <1>10, Zenon DEF CutAlike
<1>12. OneBinade(N, k, n, w, p, v, l, w, t)
  BY <1>4, <1>8, <1>9 DEF OneBinade
<1>13. Ref(f, w)!Round(mode, [s |-> s, m |-> k, q |-> p]) =
         Ref(f, w)!Round(mode, [s |-> s, m |-> v, q |-> t])
  BY <1>11, <1>12, RoundDepends
<1>14. k < 2^w BY <1>1, <1>2, <1>3
<1>15. Ref(f, w)!Round(mode, [s |-> s, m |-> k, q |-> p]) = r
  BY <1>14, Zenon DEF RoundsTo
<1> QED BY <1>8, <1>13, <1>15

----
\* The bits of a number, and counting leading zeros

\* A number between two powers of two has the bits of the larger one.
LEMMA BitlenIs ==
  ASSUME NEW m, NEW n, n \in Nat \ {0}, m \in Nat, 2^(n - 1) <= m, m < 2^n
  PROVE  Bitlen(m, n)
BY DEF Bitlen, HasBits

\* The number of bits and powers of two.
LEMMA BitlenBelow ==
  ASSUME NEW m, NEW n, Bitlen(m, n), NEW c \in Nat
  PROVE  m < 2^c <=> n <= c
<1>1. n \in Nat \ {0} /\ m \in Nat /\ 2^(n - 1) <= m /\ m < 2^n /\ HasBits(m, n, n)
  BY DEF Bitlen, HasBits
<1>2. ASSUME m < 2^c PROVE n <= c BY <1>1, <1>2, BitsFit
<1>3. ASSUME n <= c PROVE m < 2^c
  <2>1. PICK x \in Nat : x = n /\ x <= c
    BY <1>1, <1>3
  <2>2. 2^x <= 2^c /\ 2^x \in Nat /\ 2^c \in Nat
    BY <2>1, PowersGrow, PowerOfTwo
  <2> QED BY <1>1, <2>1, <2>2
<1> QED BY <1>2, <1>3

\* A shift left adds bits.
LEMMA BitlenScaled ==
  ASSUME NEW m, NEW n, Bitlen(m, n), NEW c \in Nat
  PROVE  Bitlen(m * 2^c, n + c)
<1>1. n \in Nat \ {0} /\ HasBits(m, n, n) BY DEF Bitlen
<1>2. PICK v \in Nat : v = n + c /\ n + c <= v
  BY <1>1
<1>3. HasBits(m * 2^c, n + c, v) BY <1>1, <1>2, ScaledBits
<1>4. n + c \in Nat \ {0} BY <1>1
<1> QED BY <1>2, <1>3, <1>4 DEF Bitlen

\* A shift right drops bits.
LEMMA BitlenCut ==
  ASSUME NEW m, NEW n, Bitlen(m, n), NEW c \in Nat, c < n
  PROVE  Bitlen(m \div 2^c, n - c)
<1>1. n \in Nat \ {0} /\ m \in Nat /\ 2^(n - 1) <= m /\ m < 2^n
  BY DEF Bitlen, HasBits
<1>2. PICK a, b \in Nat : a = n - c /\ b = n - c - 1 /\ a # 0 /\ n = a + c /\ n - 1 = b + c /\ b = a - 1
  BY <1>1
<1>3. 2^n = 2^a * 2^c BY <1>2, PowersAdd
<1>4. 2^(n - 1) = 2^b * 2^c BY <1>2, PowersAdd
<1> DEFINE d == 2^c
           k == m \div d
           r == m % d
<1>5. d \in Nat \ {0} /\ 2^a \in Nat /\ 2^b \in Nat BY PowerOfTwo
<1>6. m = k * d + r /\ k \in Nat /\ r \in 0 .. (d - 1)
  BY <1>1, <1>5, NaturalDivision
<1> HIDE DEF k, r, d
<1>7. k < 2^a
  <2> SUFFICES ASSUME k >= 2^a PROVE FALSE
    BY <1>5, <1>6
  <2>1. k * d >= 2^a * d /\ k * d \in Nat /\ 2^a * d \in Nat BY <1>5, <1>6
  <2> QED BY <1>1, <1>3, <1>6, <2>1 DEF d
<1>8. 2^b <= k
  <2> SUFFICES ASSUME k + 1 <= 2^b PROVE FALSE
    BY <1>5, <1>6
  <2>1. (k + 1) * d <= 2^b * d /\ (k + 1) * d = k * d + d /\ k * d \in Nat /\ 2^b * d \in Nat
    BY <1>5, <1>6
  <2> QED BY <1>1, <1>4, <1>5, <1>6, <2>1 DEF d
<1>9. Bitlen(k, a)
  <2>1. 2^(a - 1) <= k BY <1>2, <1>8
  <2> QED BY <1>2, <1>6, <1>7, <2>1, BitlenIs
<1> QED BY <1>2, <1>9 DEF k, d

\* The words halve and halve again.
LEMMA Quarters ==
  ASSUME NEW h, IsWord(h)
  PROVE  h \div 4 \in Nat \ {0} /\ h = 4 * (h \div 4) /\ h \div 2 = 2 * (h \div 4)
BY DEF IsWord

\* The table's entry for a quarter of a word.
LEMMA QuarterZeros ==
  ASSUME NEW f, NEW h, IsWord(h), NEW a, NEW n, Bitlen(a, n), n <= h \div 4
  PROVE  Rnd(f, h)!countLeadingZeros8(a) = h \div 4 - n
<1> DEFINE Q == h \div 4
           P(i) == a < 2^(Q - i) /\ (i = Q \/ a >= 2^(Q - i - 1))
<1>1. Q \in Nat \ {0} /\ n \in Nat \ {0} /\ a \in Nat /\ 2^(n - 1) <= a /\ a < 2^n
  BY Quarters DEF Bitlen, HasBits
<1> HIDE DEF Q
<1>2. Q - n \in 0 .. Q /\ P(Q - n)
  <2>1. Q - (Q - n) = n /\ Q - (Q - n) - 1 = n - 1 /\ Q - n \in 0 .. Q
    BY <1>1 DEF Q
  <2> QED BY <1>1, <2>1
<1>3. ASSUME NEW i \in 0 .. Q, P(i) PROVE i = Q - n
  <2>1. PICK x \in Nat : x = Q - i
    BY <1>1
  <2>2. n <= x
    <3>1. a < 2^x BY <1>3, <2>1
    <3> QED BY <3>1, BitlenBelow
  <2>3. i # Q => ~ (n < x)
    <3> SUFFICES ASSUME i # Q PROVE ~ (n < x)
      OBVIOUS
    <3>1. PICK y \in Nat : y = Q - i - 1 /\ y = x - 1
      BY <1>1, <2>1
    <3>2. ~ (a < 2^y)
      <4>1. a >= 2^y /\ 2^y \in Nat BY <1>3, <3>1, PowerOfTwo
      <4> QED BY <1>1, <4>1
    <3>3. ~ (n <= y) BY <3>2, BitlenBelow
    <3> QED BY <1>1, <3>1, <3>3
  <2> QED BY <1>1, <2>1, <2>2, <2>3
<1> HIDE DEF P
<1>4. (CHOOSE i \in 0 .. Q : P(i)) = Q - n BY <1>2, <1>3
<1> QED BY <1>4 DEF Rnd!countLeadingZeros8, P, Q

\* countLeadingZeros32 counts the zeros above the leading one.
LEMMA WordZeros ==
  ASSUME NEW f, NEW h, IsWord(h), NEW a, NEW n, Bitlen(a, n), n <= h
  PROVE  Rnd(f, h)!countLeadingZeros32(a) = h - n
<1> DEFINE Q == h \div 4
           n2 == IF a < 2^(h \div 2) THEN h \div 2 ELSE 0
           a2 == a * 2^n2
           n4 == IF a2 < 2^(h - h \div 4) THEN h \div 4 ELSE 0
           a4 == a2 * 2^n4
           t == a4 \div 2^(h - h \div 4)
<1>1. Q \in Nat \ {0} /\ h = 4 * Q /\ h \div 2 = 2 * Q /\ h - h \div 4 = 3 * Q
  BY Quarters
<1>2. Rnd(f, h)!countLeadingZeros32(a) = n2 + n4 + Rnd(f, h)!countLeadingZeros8(t)
  BY Zenon DEF Rnd!countLeadingZeros32
<1> HIDE DEF Q, n2, a2, n4, a4, t
<1>3. PICK x, y \in Nat : x = 2 * Q /\ y = 3 * Q
  BY <1>1
<1>4. n \in Nat \ {0} BY DEF Bitlen
<1>5. n2 = IF n <= x THEN x ELSE 0
  <2>1. a < 2^x <=> n <= x BY BitlenBelow
  <2> QED BY <1>1, <1>3, <2>1 DEF n2
<1>6. PICK m2 \in Nat : m2 = n2
  BY <1>5
<1>7. Bitlen(a2, n + m2) BY <1>6, BitlenScaled DEF a2
<1>8. n4 = IF n + m2 <= y THEN Q ELSE 0
  <2>1. a2 < 2^y <=> n + m2 <= y BY <1>7, BitlenBelow
  <2> QED BY <1>1, <1>3, <2>1 DEF n4, Q
<1>9. PICK m4 \in Nat : m4 = n4
  BY <1>1, <1>8
<1>10. Bitlen(a4, n + m2 + m4) BY <1>7, <1>9, BitlenScaled DEF a4
<1>11. y < n + m2 + m4 /\ n + m2 + m4 <= 4 * Q
  BY <1>1, <1>3, <1>4, <1>5, <1>6, <1>8, <1>9
<1>12. Bitlen(t, n + m2 + m4 - y)
  <2>1. t = a4 \div 2^y BY <1>1, <1>3 DEF t
  <2>2. PICK l \in Nat : l = n + m2 + m4
    BY <1>4
  <2>3. Bitlen(a4, l) /\ y < l BY <1>10, <1>11, <2>2
  <2>4. Bitlen(a4 \div 2^y, l - y) BY <2>3, BitlenCut
  <2>5. Bitlen(t, l - y) BY <2>1, <2>4, Zenon
  <2>6. l - y = n + m2 + m4 - y BY <1>4, <2>2
  <2> QED BY <2>5, <2>6, Zenon
<1>13. n + m2 + m4 - y <= h \div 4 BY <1>1, <1>3, <1>4, <1>11 DEF Q
<1>14. Rnd(f, h)!countLeadingZeros8(t) = h \div 4 - (n + m2 + m4 - y)
  BY <1>12, <1>13, QuarterZeros
<1> QED BY <1>1, <1>2, <1>3, <1>4, <1>6, <1>9, <1>14

\* countLeadingZeros64 counts the zeros above the leading one.
LEMMA DoublewordZeros ==
  ASSUME NEW f, NEW h, IsWord(h), NEW a, NEW n, Bitlen(a, n), n <= 2 * h
  PROVE  Rnd(f, h)!countLeadingZeros64(a) = 2 * h - n
<1>1. n \in Nat \ {0} /\ h \in Nat \ {0} /\ a \in Nat /\ 2^h \in Nat
  BY PowerOfTwo DEF Bitlen, HasBits, IsWord
<1>2. a < 2^h <=> n <= h BY <1>1, BitlenBelow
<1>3. Rnd(f, h)!countLeadingZeros64(a) =
        IF a >= 2^h THEN Rnd(f, h)!countLeadingZeros32(a \div 2^h)
        ELSE h + Rnd(f, h)!countLeadingZeros32(a)
  BY Zenon DEF Rnd!countLeadingZeros64, Rnd!M32
<1>4. CASE n <= h
  <2>1. Rnd(f, h)!countLeadingZeros32(a) = h - n BY <1>4, WordZeros
  <2> QED BY <1>1, <1>2, <1>3, <1>4, <2>1
<1>5. CASE n > h
  <2>1. Bitlen(a \div 2^h, n - h) /\ n - h <= h BY <1>1, <1>5, BitlenCut
  <2>2. Rnd(f, h)!countLeadingZeros32(a \div 2^h) = h - (n - h)
    BY <2>1, WordZeros
  <2> QED BY <1>1, <1>2, <1>3, <1>5, <2>2
<1> QED BY <1>1, <1>4, <1>5

----
\* The operands of a fused multiply-add

IsPattern(f, u) == u \in 0 .. (2 * Bits(f)!SignBit - 1)

\* A pattern as the code and as IEEE 754 read it.
LEMMA Reads ==
  ASSUME NEW f, NEW h, IsFormat(f, h), NEW u, IsPattern(f, u), NEW w
  PROVE  LET s == Rnd(f, h)!sign(u)
             e == Rnd(f, h)!exp(u)
             m == Rnd(f, h)!frac(u)
         IN /\ s \in {0, 1} /\ e \in 0 .. Rnd(f, h)!MaxExp /\ m \in 0 .. (2^f.F - 1)
            /\ u = s * Rnd(f, h)!SignBit + (e * 2^f.F + m)
            /\ Ref(f, w)!Num(u) = [s |-> s, m |-> IF e = 0 THEN m ELSE 2^f.F + m,
                                   q |-> Ref(f, w)!MinExp + (IF e = 0 THEN 0 ELSE e - 1)]
            /\ Rnd(f, h)!isNaN(u) <=> Ref(f, w)!IsNaN(u)
            /\ Rnd(f, h)!isInf(u) <=> Ref(f, w)!IsInf(u)
            /\ Rnd(f, h)!isZero(u) <=> Ref(f, w)!IsZero(u)
            /\ Rnd(f, h)!isSigNaN(u) <=> Ref(f, w)!IsSignaling(u)
            /\ Ref(f, w)!IsZero(u) <=> e = 0 /\ m = 0
<1> DEFINE s == Rnd(f, h)!sign(u)
           e == Rnd(f, h)!exp(u)
           m == Rnd(f, h)!frac(u)
           B == 2^f.F
           S == Bits(f)!SignBit
           M == Bits(f)!MaxExp
           mag == Std(f)!Mag(u)
<1>0. f.E \in Nat \ {0} /\ f.F \in Nat \ {0} /\ u \in 0 .. (2 * S - 1)
  BY DEF IsFormat, IsPattern
<1>1. s = Bits(f)!sign(u) /\ e = Bits(f)!exp(u) /\ m = Bits(f)!frac(u)
  BY DEF Rnd!sign, Bits!sign, Rnd!SignBit, Bits!SignBit, Rnd!exp, Bits!exp, Rnd!frac, Bits!frac
<1>2. Rnd(f, h)!SignBit = S /\ Rnd(f, h)!MaxExp = M
  BY DEF Rnd!SignBit, Bits!SignBit, Rnd!MaxExp, Bits!MaxExp
<1>3. /\ S \in Nat \ {0} /\ B \in Nat \ {0} /\ Std(f)!Sign = S
      /\ M \in Nat \ {0} /\ Std(f)!Infinity = M * B
      /\ mag \in 0 .. (S - 1) /\ s \in {0, 1}
      /\ u = s * S + mag
      /\ e \in 0 .. M /\ m \in 0 .. (B - 1) /\ mag = e * B + m
  BY <1>0, <1>1, Fields
<1>4. /\ Bits(f)!isNaN(u) <=> Std(f)!IsNaN(u)
      /\ Bits(f)!isInf(u) <=> Std(f)!IsInf(u)
      /\ Bits(f)!isZero(u) <=> Std(f)!IsZero(u)
      /\ Bits(f)!isSigNaN(u) <=> Std(f)!IsSignaling(u)
      /\ (Bits(f)!sign(u) = 1) <=> Std(f)!Neg(u)
  BY <1>0, KindsAgree
<1>5. Rnd(f, h)!isNaN(u) = Bits(f)!isNaN(u) /\ Rnd(f, h)!isInf(u) = Bits(f)!isInf(u)
  BY <1>1, <1>2, Zenon DEF Rnd!isNaN, Bits!isNaN, Rnd!isInf, Bits!isInf
<1>6. Rnd(f, h)!isZero(u) = Bits(f)!isZero(u)
  BY <1>2, Zenon DEF Rnd!isZero, Bits!isZero
<1>7. Rnd(f, h)!isSigNaN(u) = Bits(f)!isSigNaN(u)
  BY <1>1, <1>5, Zenon DEF Rnd!isSigNaN, Bits!isSigNaN
<1>8. Ref(f, w)!Mag(u) = mag /\ Ref(f, w)!Neg(u) = Std(f)!Neg(u)
  BY Zenon DEF Ref!Mag, Std!Mag, Ref!Neg, Std!Neg, Ref!Sign, Std!Sign
<1>9. Ref(f, w)!Infinity = Std(f)!Infinity
  BY Zenon DEF Ref!Infinity, Std!Infinity
<1>10. /\ Ref(f, w)!IsNaN(u) = Std(f)!IsNaN(u) /\ Ref(f, w)!IsInf(u) = Std(f)!IsInf(u)
       /\ Ref(f, w)!IsZero(u) = Std(f)!IsZero(u)
  BY <1>8, <1>9, Zenon DEF Ref!IsNaN, Std!IsNaN, Ref!IsInf, Std!IsInf, Ref!IsZero, Std!IsZero
<1>11. Ref(f, w)!IsSignaling(u) = Std(f)!IsSignaling(u)
  BY <1>8, <1>9, <1>10, Zenon DEF Ref!IsSignaling, Std!IsSignaling
<1>12. Ref(f, w)!IsZero(u) = (mag = 0) BY <1>8, Zenon DEF Ref!IsZero
<1>13. u % B = m BY Zenon DEF Rnd!frac
<1> HIDE DEF S, M, B, mag, s, e, m
<1>14. mag \div B = e BY <1>3, DivisionIs
<1>15. mag = 0 <=> e = 0 /\ m = 0
  <2>1. e > 0 => e * B >= 1 * B BY <1>3
  <2>2. e = 0 => e * B = 0 BY <1>3
  <2> QED BY <1>3, <2>1, <2>2
<1>16. Ref(f, w)!Num(u) = [s |-> s, m |-> IF e = 0 THEN m ELSE B + m,
                           q |-> Ref(f, w)!MinExp + (IF e = 0 THEN 0 ELSE e - 1)]
  <2>1. (IF Ref(f, w)!Neg(u) THEN 1 ELSE 0) = s BY <1>1, <1>3, <1>4, <1>8
  <2>2. Ref(f, w)!Num(u) =
          [s |-> IF Ref(f, w)!Neg(u) THEN 1 ELSE 0,
           m |-> IF mag \div B = 0 THEN mag ELSE B + (u % B),
           q |-> Ref(f, w)!MinExp + (IF mag \div B = 0 THEN 0 ELSE (mag \div B) - 1)]
    BY <1>8, Zenon DEF Ref!Num, B
  <2>3. e = 0 => mag = m BY <1>3
  <2> QED BY <1>13, <1>14, <2>1, <2>2, <2>3
<1>17. /\ s \in {0, 1} /\ e \in 0 .. M /\ m \in 0 .. (B - 1) /\ u = s * S + (e * B + m)
  BY <1>3
<1> QED BY <1>2, <1>4, <1>5, <1>6, <1>7, <1>10, <1>11, <1>12, <1>15, <1>16, <1>17 DEF s, e, m, B

\* What there is to a format of one word.
LEMMA SingleIs ==
  ASSUME NEW f, NEW h, IsSingle(f, h)
  PROVE  /\ IsFormat(f, h) /\ IsWord(h) /\ f.F \in Nat \ {0} /\ f.G \in Nat /\ f.G >= 3
         /\ h = f.F + f.G + 2 /\ Rnd(f, h)!W = h
BY DEF IsSingle, IsFormat, IsWord, Rnd!W

\* The significand and the exponent the code unpacks, subnormals
\* normalized, stand for the number of the pattern.
LEMMA Unpacks ==
  ASSUME NEW f, NEW h, IsSingle(f, h), NEW u, IsPattern(f, u), NEW w,
         Rnd(f, h)!exp(u) # Rnd(f, h)!MaxExp, ~ Rnd(f, h)!isZero(u)
  PROVE  LET U == Rnd(f, h)!unpacked(u)
         IN /\ U.exp \in Int /\ Bitlen(U.sig, f.F + 1)
            /\ \E i : Moves(Ref(f, w)!Num(u), U.sig, Ref(f, w)!MinExp + U.exp - 1, i)
<1> DEFINE s == Rnd(f, h)!sign(u)
           e == Rnd(f, h)!exp(u)
           m == Rnd(f, h)!frac(u)
           B == 2^f.F
           U == Rnd(f, h)!unpacked(u)
           X == Ref(f, w)!Num(u)
           MinExp == Ref(f, w)!MinExp
<1>1. /\ IsFormat(f, h) /\ IsWord(h) /\ f.F \in Nat \ {0} /\ f.G \in Nat
      /\ h = f.F + f.G + 2 /\ Rnd(f, h)!W = h
  BY SingleIs
<1>2. /\ e \in 0 .. Rnd(f, h)!MaxExp /\ m \in 0 .. (B - 1)
      /\ X = [s |-> s, m |-> IF e = 0 THEN m ELSE B + m,
              q |-> MinExp + (IF e = 0 THEN 0 ELSE e - 1)]
      /\ ~ (e = 0 /\ m = 0)
  BY <1>1, Reads
<1>3. MinExp \in Int /\ Rnd(f, h)!MaxExp \in Nat
  <2>1. LET b == Ref(f, w)!Bias IN b \in Nat \ {0} /\ Rnd(f, h)!MaxExp = 2 * b + 1 /\ MinExp = 1 - b - f.F
    BY <1>1, Exponents
  <2> QED BY <1>1, <2>1
<1>4. U = IF e = 0 THEN Rnd(f, h)!normSubnormalSig(m) ELSE [exp |-> e, sig |-> B + m]
  BY Zenon DEF Rnd!unpacked
<1>5. Rnd(f, h)!normSubnormalSig(m) =
        [exp |-> 1 - (Rnd(f, h)!countLeadingZeros(m) - (f.G + 1)),
         sig |-> m * 2^(Rnd(f, h)!countLeadingZeros(m) - (f.G + 1))]
  BY Zenon DEF Rnd!normSubnormalSig
<1>6. Rnd(f, h)!countLeadingZeros(m) = Rnd(f, h)!countLeadingZeros32(m)
  BY <1>1, Zenon DEF Rnd!countLeadingZeros
<1>7. B \in Nat \ {0} BY <1>1, PowerOfTwo
<1> HIDE DEF s, e, m, U, X, MinExp
<1>8. CASE e = 0
  <2>0. m \in Nat \ {0} /\ m < B BY <1>2, <1>7, <1>8
  <2>1. PICK n \in 1 .. f.F : HasBits(m, n, f.F)
    BY <1>1, <2>0, BitsExist
  <2>2. Bitlen(m, n) BY <2>1 DEF Bitlen, HasBits
  <2>3. n <= h BY <1>1
  <2>4. Rnd(f, h)!countLeadingZeros32(m) = h - n
    BY <1>1, <2>2, <2>3, WordZeros
  <2>5. PICK i \in Nat : i = f.F + 1 - n /\ Rnd(f, h)!countLeadingZeros(m) - (f.G + 1) = i
    <3>1. h - n - (f.G + 1) = f.F + 1 - n /\ f.F + 1 - n \in Nat BY <1>1
    <3> QED BY <1>6, <2>4, <3>1
  <2>6. U = [exp |-> 1 - i, sig |-> m * 2^i] BY <1>4, <1>5, <1>8, <2>5
  <2>7. Bitlen(m * 2^i, n + i) /\ n + i = f.F + 1
    BY <1>1, <2>2, <2>5, BitlenScaled
  <2>8. Moves(X, U.sig, MinExp + U.exp - 1, i)
    BY <1>2, <1>3, <1>8, <2>0, <2>6 DEF Moves
  <2>9. U.exp \in Int /\ Bitlen(U.sig, f.F + 1) BY <2>6, <2>7
  <2> QED BY <2>8, <2>9 DEF U, X, MinExp
<1>9. CASE e # 0
  <2>1. U = [exp |-> e, sig |-> B + m] BY <1>4, <1>9
  <2>2. Bitlen(B + m, f.F + 1)
    <3>1. PICK n \in Nat \ {0} : n = f.F + 1 /\ n - 1 = f.F
      BY <1>1
    <3>2. 2^n = 2 * 2^(n - 1) BY Doubled
    <3>3. 2^(n - 1) = B BY <3>1
    <3>4. B + m \in Nat /\ 2^(n - 1) <= B + m /\ B + m < 2^n
      <4> HIDE DEF B
      <4> QED BY <1>2, <1>7, <3>2, <3>3
    <3> QED BY <3>1, <3>4, BitlenIs
  <2>3. Moves(X, U.sig, MinExp + U.exp - 1, 0)
    <3> HIDE DEF B
    <3>1. (B + m) * 2^0 = B + m /\ B + m \in Nat \ {0}
      BY <1>2, <1>7, PowerZero
    <3> QED BY <1>2, <1>3, <1>9, <2>1, <3>1 DEF Moves
  <2>4. U.exp \in Int /\ Bitlen(U.sig, f.F + 1) BY <1>2, <2>1, <2>2
  <2> QED BY <2>3, <2>4 DEF U, X, MinExp
<1> QED BY <1>8, <1>9

\* A shift left moves the last place down.
LEMMA MovesOn ==
  ASSUME NEW x, NEW y, NEW q, NEW i, Moves(x, y, q, i), NEW k \in Nat
  PROVE  Moves(x, y * 2^k, q - k, i + k)
<1>1. i \in Nat /\ x.m \in Nat \ {0} /\ x.q \in Int /\ y = x.m * 2^i /\ q \in Int /\ x.q = q + i
  BY DEF Moves
<1>2. 2^(i + k) = 2^i * 2^k /\ 2^i \in Nat /\ 2^k \in Nat
  BY <1>1, PowersAdd, PowerOfTwo
<1>3. PICK a, b, m \in Nat : a = 2^i /\ b = 2^k /\ m = x.m
  BY <1>1, <1>2
<1>4. (m * a) * b = m * (a * b) OBVIOUS
<1>5. y * 2^k = x.m * 2^(i + k) BY <1>1, <1>2, <1>3, <1>4
<1>6. i + k \in Nat /\ q - k \in Int /\ x.q = (q - k) + (i + k) BY <1>1
<1> QED BY <1>1, <1>5, <1>6 DEF Moves

\* Operands that have the values of two numbers multiply to the value of
\* their product.
LEMMA MovesTimes ==
  ASSUME NEW x, NEW y, NEW q, NEW i, Moves(x, y, q, i),
         NEW u, NEW v, NEW p, NEW l, Moves(u, v, p, l),
         NEW z, z.m = x.m * u.m, z.q = x.q + u.q
  PROVE  Moves(z, y * v, q + p, i + l)
<1>1. i \in Nat /\ x.m \in Nat \ {0} /\ x.q \in Int /\ y = x.m * 2^i /\ q \in Int /\ x.q = q + i
  BY DEF Moves
<1>2. l \in Nat /\ u.m \in Nat \ {0} /\ u.q \in Int /\ v = u.m * 2^l /\ p \in Int /\ u.q = p + l
  BY DEF Moves
<1>3. 2^(i + l) = 2^i * 2^l /\ 2^i \in Nat /\ 2^l \in Nat
  BY <1>1, <1>2, PowersAdd, PowerOfTwo
<1>4. PICK a, b \in Nat, m, n \in Nat \ {0} : a = 2^i /\ b = 2^l /\ m = x.m /\ n = u.m
  BY <1>1, <1>2, <1>3
<1>5. (m * a) * (n * b) = (m * n) * (a * b)
  <2>1. (m * a) * (n * b) = m * (a * (n * b)) /\ a * (n * b) = n * (a * b) OBVIOUS
  <2>2. m * (n * (a * b)) = (m * n) * (a * b) OBVIOUS
  <2> QED BY <2>1, <2>2
<1>6. m * n \in Nat \ {0}
  <2>1. m * n >= 1 * 1 /\ m * n \in Nat OBVIOUS
  <2> QED BY <2>1
<1>7. y * v = z.m * 2^(i + l) BY <1>1, <1>2, <1>3, <1>4, <1>5
<1>8. z.m \in Nat \ {0} BY <1>4, <1>6
<1>9. i + l \in Nat /\ q + p \in Int /\ z.q \in Int /\ z.q = (q + p) + (i + l)
  BY <1>1, <1>2
<1> QED BY <1>7, <1>8, <1>9 DEF Moves

\* The product of n bits and k bits has n + k - 1 bits or n + k.
LEMMA BitlenTimes ==
  ASSUME NEW x, NEW n \in Nat \ {0}, Bitlen(x, n), NEW y, NEW k \in Nat \ {0}, Bitlen(y, k)
  PROVE  LET c == n + k - 1
         IN /\ x * y \in Nat
            /\ x * y < 2^c => Bitlen(x * y, c)
            /\ ~ (x * y < 2^c) => Bitlen(x * y, n + k)
<1>1. x \in Nat /\ 2^(n - 1) <= x /\ x < 2^n /\ y \in Nat /\ 2^(k - 1) <= y /\ y < 2^k
  BY DEF Bitlen, HasBits
<1>2. PICK a, b, c, d, e \in Nat :
        a = n - 1 /\ b = k - 1 /\ c = n + k - 1 /\ d = n + k /\ e = n + k - 2
        /\ c = d - 1 /\ e = c - 1 /\ c # 0 /\ d # 0 /\ e = a + b
  OBVIOUS
<1>3. 2^d = 2^n * 2^k BY <1>2, PowersAdd
<1>4. 2^e = 2^a * 2^b BY <1>2, PowersAdd
<1>5. 2^a \in Nat /\ 2^b \in Nat /\ 2^n \in Nat /\ 2^k \in Nat /\ 2^c \in Nat
  BY <1>2, PowerOfTwo
<1>6. PICK A, B, N, K \in Nat : A = 2^a /\ B = 2^b /\ N = 2^n /\ K = 2^k
  BY <1>5
<1>7. A <= x /\ B <= y /\ x < N /\ y < K BY <1>1, <1>2, <1>6
<1>8. A * B <= x * y /\ x * y < N * K /\ x * y \in Nat
  <2>1. A * B <= x * B /\ x * B <= x * y BY <1>1, <1>7
  <2>2. x * y <= x * K /\ x * K < N * K BY <1>1, <1>7
  <2>3. A * B \in Nat /\ x * B \in Nat /\ x * y \in Nat /\ x * K \in Nat /\ N * K \in Nat
    BY <1>1
  <2> QED BY <2>1, <2>2, <2>3
<1>9. 2^e <= x * y /\ x * y < 2^d BY <1>3, <1>4, <1>6, <1>8
<1>10. ASSUME x * y < 2^c PROVE Bitlen(x * y, c)
  <2>1. 2^(c - 1) <= x * y BY <1>2, <1>9
  <2> QED BY <1>2, <1>8, <1>10, <2>1, BitlenIs
<1>11. ASSUME ~ (x * y < 2^c) PROVE Bitlen(x * y, d)
  <2>1. 2^(d - 1) <= x * y BY <1>2, <1>5, <1>8, <1>11
  <2> QED BY <1>2, <1>8, <1>9, <2>1, BitlenIs
<1> QED BY <1>2, <1>8, <1>10, <1>11

\* A shift left by one or more makes a number even.
LEMMA ShiftedIsEven ==
  ASSUME NEW m \in Nat, NEW k \in Nat \ {0}
  PROVE  (m * 2^k) % 2 = 0
<1>1. 2^k = 2 * 2^(k - 1) /\ 2^(k - 1) \in Nat BY Doubled
<1>2. PICK a \in Nat : a = m * 2^(k - 1)
  BY <1>1
<1>3. m * 2^k = 2 * a BY <1>1, <1>2
<1> QED BY <1>3

Finite(f, h, u) == IsPattern(f, u) /\ Rnd(f, h)!exp(u) # Rnd(f, h)!MaxExp
Nonzero(f, h, u) == Finite(f, h, u) /\ ~ Rnd(f, h)!isZero(u)

\* The unit of the sums, from the bias.
LEMMA UnitIs ==
  ASSUME NEW f, NEW h, IsSingle(f, h), NEW w
  PROVE  LET B == Rnd(f, h)!Bias
         IN /\ B \in Int /\ Ref(f, w)!MinExp = 1 - B - f.F /\ Unit(f, h, w) \in Int
            /\ Unit(f, h, w) + (1 - B) = 2 * Ref(f, w)!MinExp - 2 - 2 * f.G
<1>1. IsFormat(f, h) /\ f.F \in Nat /\ f.G \in Nat /\ h = f.F + f.G + 2
  BY SingleIs
<1>2. Ref(f, w)!Bias \in Nat \ {0} /\ Ref(f, w)!MinExp = 1 - Ref(f, w)!Bias - f.F
  BY <1>1, Exponents
<1>3. Rnd(f, h)!Bias = Ref(f, w)!Bias BY DEF Rnd!Bias, Ref!Bias
<1> QED BY <1>1, <1>2, <1>3 DEF Unit

\* The product as the code forms it is a term with the value of the exact
\* product.
LEMMA ProductTerm ==
  ASSUME NEW f, NEW h, IsSingle(f, h), NEW a, Nonzero(f, h, a), NEW b, Nonzero(f, h, b), NEW w
  PROVE  LET X == Rnd(f, h)!product(Rnd(f, h)!factors(a, b))
         IN Term(f, h, w, Ref(f, w)!ExactProduct(Ref(f, w)!Num(a), Ref(f, w)!Num(b)), X.sig, X.exp)
<1> DEFINE A == Rnd(f, h)!unpacked(a)
           B == Rnd(f, h)!unpacked(b)
           x == Ref(f, w)!Num(a)
           y == Ref(f, w)!Num(b)
           z == Ref(f, w)!ExactProduct(x, y)
           M == Ref(f, w)!MinExp
           U == Unit(f, h, w)
           bias == Rnd(f, h)!Bias
           sigA == A.sig * 2^f.G
           sigB == B.sig * 2^f.G
           raw == sigA * sigB
           e == A.exp + B.exp - (bias - 1)
           X == Rnd(f, h)!product(Rnd(f, h)!factors(a, b))
<1>1. /\ IsFormat(f, h) /\ f.F \in Nat \ {0} /\ f.G \in Nat /\ f.G \in Nat \ {0}
      /\ h = f.F + f.G + 2
  BY SingleIs
<1>2. bias \in Int /\ M \in Int /\ U \in Int /\ U + (1 - bias) = 2 * M - 2 - 2 * f.G
  BY <1>1, UnitIs
<1>3. A.exp \in Int /\ Bitlen(A.sig, f.F + 1) /\ \E i : Moves(x, A.sig, M + A.exp - 1, i)
  BY Unpacks DEF Nonzero, Finite
<1>4. B.exp \in Int /\ Bitlen(B.sig, f.F + 1) /\ \E i : Moves(y, B.sig, M + B.exp - 1, i)
  BY Unpacks DEF Nonzero, Finite
<1>5. z.m = x.m * y.m /\ z.q = x.q + y.q BY DEF Ref!ExactProduct
<1>6. Rnd(f, h)!factors(a, b) = [exp |-> e, sigA |-> sigA, sigB |-> sigB]
  BY Zenon DEF Rnd!factors
<1>7. X = [exp |-> IF raw < 2^(2 * h - 3) THEN e - 1 ELSE e,
           sig |-> IF raw < 2^(2 * h - 3) THEN 2 * raw ELSE raw]
  BY <1>6 DEF Rnd!product
<1> HIDE DEF A, B, x, y, z, M, U, bias, X
<1>23. PICK qa \in Int, qb \in Int : qa = M + A.exp - 1 /\ qb = M + B.exp - 1
  BY <1>2, <1>3, <1>4
<1>8. PICK i : Moves(x, A.sig, qa, i)
  BY <1>3, <1>23
<1>9. PICK l : Moves(y, B.sig, qb, l)
  BY <1>4, <1>23
<1>10. PICK n \in Nat \ {0} : n = f.F + 1 + f.G /\ n = h - 1
  BY <1>1
<1>11. Bitlen(sigA, n) /\ Bitlen(sigB, n)
  <2>1. Bitlen(sigA, f.F + 1 + f.G) /\ Bitlen(sigB, f.F + 1 + f.G)
    BY <1>1, <1>3, <1>4, BitlenScaled
  <2> QED BY <1>10, <2>1
<1>12. Moves(x, sigA, qa - f.G, i + f.G) BY <1>1, <1>8, MovesOn
<1>13. Moves(y, sigB, qb - f.G, l + f.G) BY <1>1, <1>9, MovesOn
<1>14. Moves(z, raw, (qa - f.G) + (qb - f.G), (i + f.G) + (l + f.G))
  BY <1>5, <1>12, <1>13, MovesTimes
<1>15. (qa - f.G) + (qb - f.G) = e + U /\ e \in Int
  BY <1>1, <1>2, <1>3, <1>4, <1>23
<1>16. PICK k : Moves(z, raw, e + U, k)
  BY <1>14, <1>15
<1>17. raw % 2 = 0 /\ raw \in Nat
  <2>1. PICK s \in Nat : s = A.sig * sigB
    BY <1>3, <1>11 DEF Bitlen, HasBits
  <2>2. raw = s * 2^f.G
    <3>1. PICK c, d, g \in Nat : c = A.sig /\ d = sigB /\ g = 2^f.G
      BY <1>1, <1>3, <1>11, PowerOfTwo DEF Bitlen, HasBits
    <3>2. (c * g) * d = (c * d) * g OBVIOUS
    <3> QED BY <2>1, <3>1, <3>2
  <2>3. raw \in Nat BY <1>11, BitlenTimes
  <2> QED BY <1>1, <2>1, <2>2, <2>3, ShiftedIsEven
<1> HIDE DEF raw, e
<1>18. PICK c \in Nat \ {0} : c = 2 * h - 3 /\ c = n + n - 1 /\ n + n = 2 * h - 2
  BY <1>1, <1>10
<1>19. raw < 2^c => Bitlen(raw, c) BY <1>11, <1>18, BitlenTimes DEF raw
<1>20. ~ (raw < 2^c) => Bitlen(raw, 2 * h - 2)
  BY <1>11, <1>18, BitlenTimes DEF raw
<1>21. CASE raw < 2^c
  <2>1. X.exp = e - 1 /\ X.sig = 2 * raw BY <1>7, <1>18, <1>21
  <2>2. raw * 2^1 = 2 * raw /\ c + 1 = 2 * h - 2
    <3>1. 2^1 = 2 * 2^(1 - 1) /\ 2^0 = 1 BY Doubled, PowerZero
    <3> QED BY <1>17, <1>18, <3>1
  <2>3. Bitlen(raw * 2^1, c + 1) BY <1>19, <1>21, BitlenScaled
  <2>4. Moves(z, raw * 2^1, (e + U) - 1, k + 1) BY <1>16, MovesOn
  <2>5. (e + U) - 1 = (e - 1) + U BY <1>2, <1>15
  <2>6. (2 * raw) % 2 = 0 BY <1>17
  <2> QED BY <1>15, <2>1, <2>2, <2>3, <2>4, <2>5, <2>6 DEF Term, X, z, x, y, U
<1>22. CASE ~ (raw < 2^c)
  <2>1. X.exp = e /\ X.sig = raw BY <1>7, <1>18, <1>22
  <2> QED BY <1>15, <1>16, <1>17, <1>20, <1>22, <2>1 DEF Term, X, z, x, y, U
<1> QED BY <1>21, <1>22

\* The addend as the code unpacks it is a term with the value of the
\* number added.
LEMMA AddendTerm ==
  ASSUME NEW f, NEW h, IsSingle(f, h), NEW c, Nonzero(f, h, c), NEW w
  PROVE  LET C == Rnd(f, h)!addend(c)
             y == C.sig * 2^(f.G - 1)
         IN /\ C.sig # 0 /\ Bitlen(y, h - 2) /\ y % 2 = 0
            /\ Term(f, h, w, Ref(f, w)!Num(c), y * 2^h, C.exp)
<1> DEFINE C == Rnd(f, h)!addend(c)
           x == Ref(f, w)!Num(c)
           M == Ref(f, w)!MinExp
           U == Unit(f, h, w)
<1>1. f.F \in Nat \ {0} /\ f.G \in Nat /\ f.G >= 3 /\ h = f.F + f.G + 2 /\ h \in Nat
  BY SingleIs
<1>2. M \in Int /\ U \in Int /\ U = M - f.G - h BY <1>1, UnitIs DEF Unit
<1>3. C = Rnd(f, h)!unpacked(c) BY DEF Rnd!addend, Nonzero
<1>4. C.exp \in Int /\ Bitlen(C.sig, f.F + 1) /\ \E i : Moves(x, C.sig, M + C.exp - 1, i)
  BY <1>3, Unpacks DEF Nonzero, Finite
<1> HIDE DEF C, x, M, U
<1>5. PICK g \in Nat \ {0}, q \in Int, n \in Nat \ {0} :
        g = f.G - 1 /\ q = M + C.exp - 1 /\ n = f.F + 1 /\ n + g = h - 2
  <2>1. f.G - 1 \in Nat \ {0} /\ M + C.exp - 1 \in Int /\ f.F + 1 \in Nat \ {0}
    BY <1>1, <1>2, <1>4
  <2>2. f.F + 1 + (f.G - 1) = h - 2 BY <1>1
  <2> QED BY <2>1, <2>2
<1>6. PICK i : Moves(x, C.sig, q, i)
  BY <1>4, <1>5
<1> DEFINE y == C.sig * 2^g
<1>7. C.sig \in Nat /\ C.sig # 0
  <2>1. C.sig \in Nat /\ 2^(n - 1) <= C.sig /\ 2^(n - 1) \in Nat \ {0}
    BY <1>4, <1>5, Doubled DEF Bitlen, HasBits
  <2> QED BY <2>1
<1>8. Bitlen(y, n + g) /\ y % 2 = 0
  BY <1>4, <1>5, <1>7, BitlenScaled, ShiftedIsEven
<1>9. PICK p \in Int : p = q - g
  BY <1>5
<1>10. Moves(x, y, p, i + g) BY <1>6, <1>9, MovesOn
<1>11. y \in Nat BY <1>8 DEF Bitlen, HasBits
<1> HIDE DEF y
<1>12. Moves(x, y * 2^h, p - h, (i + g) + h) BY <1>1, <1>10, MovesOn
<1>13. p - h = C.exp + U BY <1>1, <1>2, <1>4, <1>5, <1>9
<1>14. PICK v \in Nat \ {0} : v = n + g
  BY <1>5
<1>15. Bitlen(y * 2^h, v + h) /\ v + h = 2 * h - 2
  BY <1>1, <1>5, <1>8, <1>14, BitlenScaled
<1>16. (y * 2^h) % 2 = 0
  <2>1. h \in Nat \ {0} BY <1>1
  <2> QED BY <1>11, <2>1, ShiftedIsEven
<1>17. Term(f, h, w, x, y * 2^h, C.exp)
  BY <1>4, <1>12, <1>13, <1>15, <1>16 DEF Term, U
<1>18. 2^(f.G - 1) = 2^g BY <1>5
<1> QED BY <1>5, <1>7, <1>8, <1>17, <1>18 DEF C, x, y

\* The jamming shifts of doublewords.
LEMMA ShortJams ==
  ASSUME NEW f, NEW h, NEW a \in Nat, NEW c \in Nat
  PROVE  Sticks(Rnd(f, h)!shortShift64RightJam(a, c), a, 2^c)
<1>1. 2^c \in Nat \ {0} BY PowerOfTwo
<1>2. Sticks(Rnd(f, h)!Jam(a \div 2^c, a % 2^c # 0), a, 2^c)
  BY <1>1, JamSticks
<1> QED BY <1>2, Zenon DEF Rnd!shortShift64RightJam

\* shift64RightJam keeps what it shifts out in a sticky last bit.
LEMMA LongJams ==
  ASSUME NEW f, NEW h, h \in Nat, NEW a, NEW n, Bitlen(a, n), n <= 2 * h, NEW c \in Nat \ {0}
  PROVE  Sticks(Rnd(f, h)!shift64RightJam(a, c), a, 2^c)
<1>1. 2^c \in Nat \ {0} /\ a \in Nat /\ c \in Nat
  BY PowerOfTwo DEF Bitlen, HasBits
<1>2. Sticks(Rnd(f, h)!Jam(a \div 2^c, a % 2^c # 0), a, 2^c)
  BY <1>1, JamSticks
<1>3. Rnd(f, h)!shift64RightJam(a, c) =
        IF c < 2 * h THEN Rnd(f, h)!Jam(a \div 2^c, a % 2^c # 0) ELSE Rnd(f, h)!Bit(a # 0)
  BY DEF Rnd!shift64RightJam, Rnd!Lost
<1>4. CASE c < 2 * h BY <1>2, <1>3, <1>4
<1>5. CASE ~ (c < 2 * h)
  <2>1. a < 2^c
    <3>1. n <= c BY <1>1, <1>5 DEF Bitlen
    <3> QED BY <1>1, <3>1, BitlenBelow
  <2>2. a = 0 * 2^c + a /\ a \in 0 .. (2^c - 1) /\ a \in Int BY <1>1, <2>1
  <2>3. a \div 2^c = 0 /\ a % 2^c = a BY <1>1, <2>2, DivisionIs
  <2>4. Rnd(f, h)!Jam(0, a # 0) = Rnd(f, h)!Bit(a # 0)
    BY DEF Rnd!Jam, Rnd!Bit
  <2> QED BY <1>2, <1>3, <1>5, <2>3, <2>4
<1> QED BY <1>4, <1>5

\* What is in the working word.
LEMMA PackRounds ==
  ASSUME NEW f, NEW h, IsSingle(f, h), NEW w, NEW mode, NEW s, Directed(mode, s),
         NEW e, e \in Int, NEW sig, Bitlen(sig, h - 1)
  PROVE  /\ sig \in Rnd(f, h)!Hidden .. (Rnd(f, h)!Top - 1)
         /\ RoundsTo(f, mode, s, sig, e + Unit(f, h, w) + h,
                     Rnd(f, h)!roundPack(mode, s, e, sig))
<1> DEFINE n == f.F + f.G + 1
           r == Rnd(f, h)!roundPack(mode, s, e, sig)
           q == e + Unit(f, h, w) + h
<1>1. /\ IsFormat(f, h) /\ f.F \in Nat \ {0} /\ f.G \in Nat
      /\ h = f.F + f.G + 2 /\ mode \in RoundingModes /\ s \in {0, 1}
  BY SingleIs DEF Directed
<1>2. n = h - 1 /\ n \in Nat \ {0} BY <1>1
<1>3. Rnd(f, h)!Hidden = 2^(n - 1) /\ Rnd(f, h)!Top = 2^n /\ 2^n \in Nat /\ 2^(n - 1) \in Nat
  BY <1>1, WorkingWord
<1> HIDE DEF n
<1>4. sig \in Nat /\ 2^(n - 1) <= sig /\ sig < 2^n
  BY <1>2 DEF Bitlen, HasBits
<1>5. sig \in Rnd(f, h)!Hidden .. (Rnd(f, h)!Top - 1) BY <1>3, <1>4
<1>6. ASSUME NEW v \in Nat, sig < 2^v
      PROVE  Ref(f, v)!Round(mode, [s |-> s, m |-> sig, q |-> q]) = r
  <2>1. v >= f.F + f.G + 1
    <3>1. n <= v BY <1>2, <1>6, BitlenBelow
    <3> QED BY <3>1 DEF n
  <2>2. r = Ref(f, v)!Round(mode, [s |-> s, m |-> sig, q |-> Ref(f, v)!MinExp + e - f.G])
    BY <1>1, <1>5, <2>1, RoundPackIsIeee
  <2>3. Ref(f, v)!MinExp + e - f.G = q
    <3>1. Ref(f, v)!MinExp = Ref(f, w)!MinExp BY DEF Ref!MinExp, Ref!Bias
    <3>2. Ref(f, w)!MinExp \in Int BY <1>1, UnitIs
    <3> QED BY <1>1, <3>1, <3>2 DEF Unit
  <2> QED BY <2>2, <2>3
<1> HIDE DEF r, q
<1>7. RoundsTo(f, mode, s, sig, q, r) BY <1>6 DEF RoundsTo
<1> QED BY <1>5, <1>7 DEF r, q

----
\* The sum and the difference of magnitudes

\* Powers of two around the leading one of a working word.
LEMMA WordPowers ==
  ASSUME NEW f, NEW h, IsSingle(f, h)
  PROVE  LET P == 2^(h - 3)
             b == 2^(h - 4)
         IN /\ b \in Nat \ {0} /\ P = 2 * b /\ P \in Nat /\ 2^(h - 2) = 2 * P /\ 2^(h - 1) = 4 * P
            /\ Rnd(f, h)!Hidden = 2 * P /\ Rnd(f, h)!Top = 4 * P
            /\ P >= 2^(f.F + 2) /\ 2^h \in Nat \ {0} /\ 2^h = 8 * P
<1>1. f.F \in Nat \ {0} /\ f.G \in Nat /\ f.G >= 3 /\ h = f.F + f.G + 2 /\ Rnd(f, h)!W = h
  BY SingleIs
<1>2. PICK d, c, b, a, g \in Nat \ {0} :
        d = h /\ c = h - 1 /\ b = h - 2 /\ a = h - 3 /\ d - 1 = c /\ c - 1 = b /\ b - 1 = a
        /\ a - 1 \in Nat /\ a - 1 = h - 4
  <2>1. /\ h \in Nat \ {0} /\ h - 1 \in Nat \ {0} /\ h - 2 \in Nat \ {0} /\ h - 3 \in Nat \ {0}
        /\ (h - 1) - 1 = h - 2 /\ (h - 2) - 1 = h - 3 /\ (h - 3) - 1 = h - 4 /\ h - 4 \in Nat
    BY <1>1
  <2> QED BY <2>1
<1>3. 2^d = 2 * 2^(d - 1) /\ 2^c = 2 * 2^(c - 1) /\ 2^b = 2 * 2^(b - 1)
      /\ 2^a = 2 * 2^(a - 1) /\ 2^(a - 1) \in Nat \ {0}
  BY Doubled
<1>4. Rnd(f, h)!Hidden = 2^b /\ Rnd(f, h)!Top = 2^c
  BY <1>1, <1>2 DEF Rnd!Hidden, Rnd!Top
<1>5. 2^(f.F + 2) <= 2^a
  <2>1. PICK x \in Nat, y \in Nat : x = f.F + 2 /\ y = a /\ x <= y
    BY <1>1, <1>2
  <2>2. 2^x <= 2^y BY <2>1, PowersGrow
  <2> QED BY <2>1, <2>2
<1>6. PICK P \in Nat, B \in Nat \ {0} : P = 2^a /\ B = 2^(a - 1) /\ P = 2 * B
  BY <1>3
<1>7. 2^b = 2 * P /\ 2^c = 2 * 2^b /\ 2^d = 2 * 2^c BY <1>2, <1>3, <1>6
<1>8. 2^b = 2 * P /\ 2^c = 4 * P /\ 2^d = 8 * P BY <1>7
<1>9. 2^(f.F + 2) \in Nat
  <2>1. f.F + 2 \in Nat BY <1>1
  <2> QED BY <2>1, PowerOfTwo
<1>10. /\ 2^(h - 3) = P /\ 2^(h - 4) = B /\ 2^(h - 2) = 2 * P /\ 2^(h - 1) = 4 * P
       /\ 2^h = 8 * P
  BY <1>2, <1>6, <1>8
<1>11. P >= 2^(f.F + 2) BY <1>5, <1>6, <1>9
<1> QED BY <1>4, <1>6, <1>8, <1>10, <1>11

\* A number of two or three bits more than the fraction has, its last bit
\* sticky, with its leading one moved to the top.
LEMMA StickyDelivers ==
  ASSUME NEW f, NEW h, IsSingle(f, h), NEW w, NEW mode, NEW s, Directed(mode, s),
         NEW k, NEW v, NEW j \in Nat, Sticks(k, v, 2^j), k >= 2^(f.F + 2),
         NEW i \in Nat, NEW z, z.sig = k * 2^i, Bitlen(z.sig, h - 1), z.exp \in Int
  PROVE  Delivers(f, h, mode, s, v, z.exp + Unit(f, h, w) + h + i - j, z)
<1> DEFINE r == Rnd(f, h)!roundPack(mode, s, z.exp, z.sig)
           U == Unit(f, h, w)
<1>1. IsFormat(f, h) /\ h \in Nat /\ f.F + 2 \in Nat /\ U \in Int
  <2>1. IsFormat(f, h) /\ f.F \in Nat \ {0} /\ f.G \in Nat /\ h = f.F + f.G + 2 /\ U \in Int
    BY SingleIs, UnitIs
  <2> QED BY <2>1
<1>2. /\ z.sig \in Rnd(f, h)!Hidden .. (Rnd(f, h)!Top - 1)
      /\ RoundsTo(f, mode, s, z.sig, z.exp + U + h, r)
  BY PackRounds
<1>3. k \in Nat \ {0}
  <2>1. k \in Nat /\ 2^(f.F + 2) \in Nat \ {0}
    BY <1>1, PowerOfTwo DEF Sticks
  <2> QED BY <2>1
<1> HIDE DEF r, U
<1>4. PICK p \in Int : p = z.exp + U + h + i /\ p - i = z.exp + U + h
      /\ p - j = z.exp + U + h + i - j
  BY <1>1
<1>5. RoundsTo(f, mode, s, k * 2^i, p - i, r) BY <1>2, <1>4
<1>6. RoundsTo(f, mode, s, k, p, r) BY <1>1, <1>3, <1>5, Rescaled
<1>7. RoundsTo(f, mode, s, v, p - j, r) BY <1>1, <1>6, StickyRounds
<1> QED BY <1>2, <1>4, <1>7 DEF Delivers, r, U

\* A sum whose leading one is at the top or just below it.
LEMMA SumDelivers ==
  ASSUME NEW f, NEW h, IsSingle(f, h), NEW w, NEW mode, NEW s, Directed(mode, s),
         NEW k, NEW v, NEW j \in Nat, Sticks(k, v, 2^j),
         2^(h - 3) * 2^j <= v, v < (4 * 2^(h - 3)) * 2^j, NEW e \in Int
  PROVE  Delivers(f, h, mode, s, v, e + Unit(f, h, w) + h - j,
                  IF k < Rnd(f, h)!Hidden THEN [exp |-> e - 1, sig |-> 2 * k]
                  ELSE [exp |-> e, sig |-> k])
<1> DEFINE P == 2^(h - 3)
           U == Unit(f, h, w)
<1>1. PICK b \in Nat \ {0} :
        /\ P = 2 * b /\ P \in Nat /\ 2^(h - 2) = 2 * P /\ 2^(h - 1) = 4 * P
        /\ Rnd(f, h)!Hidden = 2 * P /\ P >= 2^(f.F + 2)
  BY WordPowers
<1>2. k \in Nat /\ v \in Nat /\ 2^j \in Nat BY DEF Sticks
<1>3. h \in Nat /\ h - 1 \in Nat \ {0} /\ U \in Int /\ f.F + 2 \in Nat
  <2>1. f.F \in Nat \ {0} /\ f.G \in Nat /\ h = f.F + f.G + 2 /\ U \in Int
    BY SingleIs, UnitIs
  <2> QED BY <2>1
<1> HIDE DEF P, U
<1>4. P <= k
  <2>1. v >= (2 * b) * 2^j BY <1>1, <1>2 DEF P
  <2> QED BY <1>1, <2>1, StickyOrder
<1>5. k < 4 * P
  <2>1. PICK c \in Nat : c = 2 * P /\ 2 * c = 4 * P
    BY <1>1
  <2>2. ~ (v >= (2 * c) * 2^j)
    <3>1. (4 * P) * 2^j \in Nat BY <1>1, <1>2
    <3> QED BY <1>2, <2>1, <3>1 DEF P
  <2>3. ~ (k >= 2 * c) BY <2>2, StickyOrder
  <2> QED BY <1>1, <1>2, <2>1, <2>3
<1>6. k >= 2^(f.F + 2)
  <2>1. 2^(f.F + 2) \in Nat BY <1>3, PowerOfTwo
  <2> QED BY <1>1, <1>2, <1>4, <2>1
<1>7. PICK n \in Nat \ {0} : n = h - 1 /\ n - 1 = h - 2
  BY <1>3
<1>8. 2^n = 4 * P /\ 2^(n - 1) = 2 * P BY <1>1, <1>7
<1>9. CASE k < 2 * P
  <2> DEFINE z == [exp |-> e - 1, sig |-> 2 * k]
  <2>1. k * 2^1 = 2 * k
    <3>1. 2^1 = 2 * 2^(1 - 1) /\ 2^0 = 1 BY Doubled, PowerZero
    <3> QED BY <1>2, <3>1
  <2>2. Bitlen(2 * k, n)
    <3>1. 2 * k \in Nat /\ 2^(n - 1) <= 2 * k /\ 2 * k < 2^n
      BY <1>1, <1>2, <1>4, <1>8, <1>9
    <3> QED BY <3>1, BitlenIs
  <2>3. z.exp = e - 1 /\ z.sig = 2 * k /\ z.exp \in Int OBVIOUS
  <2> HIDE DEF z
  <2>4. Bitlen(z.sig, h - 1) /\ z.sig = k * 2^1 BY <1>7, <2>1, <2>2, <2>3
  <2>5. Delivers(f, h, mode, s, v, z.exp + U + h + 1 - j, z)
    BY <1>6, <2>3, <2>4, StickyDelivers DEF U
  <2>6. z.exp + U + h + 1 - j = e + U + h - j BY <1>3, <2>3
  <2> QED BY <1>1, <1>9, <2>5, <2>6 DEF z, U
<1>10. CASE ~ (k < 2 * P)
  <2> DEFINE z == [exp |-> e, sig |-> k]
  <2>1. k * 2^0 = k BY <1>2, PowerZero
  <2>2. Bitlen(k, n)
    <3>1. 2^(n - 1) <= k /\ k < 2^n BY <1>1, <1>2, <1>5, <1>8, <1>10
    <3> QED BY <1>2, <3>1, BitlenIs
  <2>3. z.exp = e /\ z.sig = k OBVIOUS
  <2> HIDE DEF z
  <2>4. Bitlen(z.sig, h - 1) /\ z.sig = k * 2^0 BY <1>7, <2>1, <2>2, <2>3
  <2>5. Delivers(f, h, mode, s, v, z.exp + U + h + 0 - j, z)
    BY <1>6, <2>3, <2>4, StickyDelivers DEF U
  <2>6. z.exp + U + h + 0 - j = e + U + h - j BY <1>3, <2>3
  <2> QED BY <1>1, <1>10, <2>5, <2>6 DEF z, U
<1> QED BY <1>9, <1>10

\* A jamming shift keeps the number of bits of the shift without the jam.
LEMMA JamKeepsLength ==
  ASSUME NEW f, NEW h, NEW a, NEW n, Bitlen(a, n), NEW c \in Nat, c < n
  PROVE  Bitlen(Rnd(f, h)!shortShift64RightJam(a, c), n - c)
<1> DEFINE y == a \div 2^c
           x == Rnd(f, h)!shortShift64RightJam(a, c)
<1>1. n \in Nat \ {0} BY DEF Bitlen
<1>2. Bitlen(y, n - c) BY BitlenCut
<1>3. PICK l \in Nat \ {0} : l = n - c
  BY <1>1
<1>4. x = Rnd(f, h)!Jam(y, a % 2^c # 0)
  BY Zenon DEF Rnd!shortShift64RightJam
<1>5. x = y \/ (x = y + 1 /\ y % 2 = 0) BY <1>4 DEF Rnd!Jam
<1> HIDE DEF y, x
<1>6. y \in Nat /\ 2^(l - 1) <= y /\ y < 2^l
  BY <1>2, <1>3 DEF Bitlen, HasBits
<1>7. 2^l = 2 * 2^(l - 1) /\ 2^(l - 1) \in Nat BY Doubled
<1>8. x \in Nat /\ 2^(l - 1) <= x /\ x < 2^l BY <1>5, <1>6, <1>7
<1> QED BY <1>3, <1>8, BitlenIs DEF x

\* A difference: exact when it may have lost its leading bits, with a
\* sticky last bit when it has kept all but one of them.
LEMMA DifferenceDelivers ==
  ASSUME NEW f, NEW h, IsSingle(f, h), NEW w, NEW mode, NEW s, Directed(mode, s),
         NEW k, NEW n, Bitlen(k, n), n <= 2 * h - 2, NEW e \in Int,
         NEW v, NEW j \in Nat, Sticks(k, v, 2^j), (j = 0 /\ v = k) \/ n >= 2 * h - 3
  PROVE  Delivers(f, h, mode, s, v, e + Unit(f, h, w) - j,
                  Rnd(f, h)!normalized([exp |-> e, sig |-> k]))
<1> DEFINE U == Unit(f, h, w)
           z == Rnd(f, h)!normalized([exp |-> e, sig |-> k])
           t == Rnd(f, h)!countLeadingZeros64(k) - 1
<1>1. /\ IsFormat(f, h) /\ IsWord(h) /\ f.F \in Nat \ {0} /\ f.G \in Nat /\ f.G >= 3
      /\ h = f.F + f.G + 2 /\ h \in Nat /\ U \in Int /\ h >= 6
  <2>1. /\ IsFormat(f, h) /\ IsWord(h) /\ f.F \in Nat \ {0} /\ f.G \in Nat /\ f.G >= 3
        /\ h = f.F + f.G + 2 /\ U \in Int
    BY SingleIs, UnitIs
  <2> QED BY <2>1
<1>2. n \in Nat \ {0} /\ k \in Nat /\ k # 0
  <2>1. n \in Nat \ {0} /\ k \in Nat /\ 2^(n - 1) <= k
    BY DEF Bitlen, HasBits
  <2>2. 2^(n - 1) \in Nat \ {0} BY <2>1, Doubled
  <2> QED BY <2>1, <2>2
<1>3. t = 2 * h - n - 1
  <2>1. n <= 2 * h BY <1>1, <1>2
  <2>2. Rnd(f, h)!countLeadingZeros64(k) = 2 * h - n
    BY <1>1, <2>1, DoublewordZeros
  <2> QED BY <2>2
<1>4. z = [exp |-> e - t,
           sig |-> IF t < h THEN Rnd(f, h)!shortShift64RightJam(k, h - t)
                   ELSE k * 2^(t - h)]
  BY Zenon DEF Rnd!normalized
<1>5. z.exp = e - t /\ z.exp \in Int BY <1>1, <1>2, <1>3, <1>4
<1> HIDE DEF U, z, t
<1>6. CASE t < h
  <2>1. PICK c \in Nat \ {0} : c = h - t /\ n - c = h - 1 /\ c < n
    <3>1. h - t \in Nat \ {0} /\ n - (h - t) = h - 1 /\ h - t < n
      BY <1>1, <1>2, <1>3, <1>6
    <3> QED BY <3>1
  <2>2. z.sig = Rnd(f, h)!shortShift64RightJam(k, c) BY <1>4, <1>6, <2>1
  <2>4. Sticks(z.sig, k, 2^c) BY <1>2, <2>2, ShortJams
  <2>5. (2^c) % 2 = 0
    <3>1. 2^c = 2 * 2^(c - 1) /\ 2^(c - 1) \in Nat BY Doubled
    <3> QED BY <3>1
  <2>6. Sticks(z.sig, v, 2^j * 2^c) BY <2>4, <2>5, StickyComposes
  <2>7. PICK i \in Nat : i = j + c OBVIOUS
  <2>8. Sticks(z.sig, v, 2^i)
    <3>1. 2^(j + c) = 2^j * 2^c BY PowersAdd
    <3> QED BY <2>6, <2>7, <3>1
  <2>9. Bitlen(z.sig, h - 1)
    <3>1. Bitlen(Rnd(f, h)!shortShift64RightJam(k, c), n - c)
      BY <2>1, JamKeepsLength
    <3> QED BY <2>1, <2>2, <3>1
  <2>10. z.sig >= 2^(f.F + 2)
    <3>1. PICK P \in Nat :
            P = 2^(h - 3) /\ 2^(h - 2) = 2 * P /\ P >= 2^(f.F + 2)
      BY WordPowers
    <3>2. z.sig \in Nat /\ 2^(h - 1 - 1) <= z.sig /\ h - 1 - 1 = h - 2
      BY <1>1, <2>9 DEF Bitlen, HasBits
    <3>3. f.F + 2 \in Nat BY <1>1
    <3>4. 2^(f.F + 2) \in Nat BY <3>3, PowerOfTwo
    <3> QED BY <3>1, <3>2, <3>4
  <2>11. z.sig = z.sig * 2^0 BY <2>4, PowerZero DEF Sticks
  <2>12. Delivers(f, h, mode, s, v, z.exp + U + h + 0 - i, z)
    BY <1>5, <2>8, <2>9, <2>10, <2>11, StickyDelivers DEF U
  <2>13. z.exp + U + h + 0 - i = e + U - j
    BY <1>1, <1>2, <1>3, <1>5, <2>1, <2>7
  <2> QED BY <2>12, <2>13 DEF z, U
<1>7. CASE ~ (t < h)
  <2>1. j = 0 /\ v = k BY <1>1, <1>2, <1>3, <1>7
  <2>2. PICK i \in Nat : i = t - h /\ n + i = h - 1
    <3>1. t - h \in Nat /\ n + (t - h) = h - 1 BY <1>1, <1>2, <1>3, <1>7
    <3> QED BY <3>1
  <2>3. z.sig = k * 2^i BY <1>4, <1>7, <2>2
  <2>4. Bitlen(z.sig, h - 1)
    <3>1. Bitlen(k * 2^i, n + i) BY BitlenScaled
    <3> QED BY <2>2, <2>3, <3>1
  <2> DEFINE r == Rnd(f, h)!roundPack(mode, s, z.exp, z.sig)
  <2>5. /\ z.sig \in Rnd(f, h)!Hidden .. (Rnd(f, h)!Top - 1)
        /\ RoundsTo(f, mode, s, z.sig, z.exp + U + h, r)
    BY <1>5, <2>4, PackRounds DEF U
  <2> HIDE DEF r
  <2>6. PICK q \in Int : q = e + U - j /\ q - i = z.exp + U + h
    BY <1>1, <1>2, <1>3, <1>5, <2>1, <2>2
  <2>7. RoundsTo(f, mode, s, k * 2^i, q - i, r) BY <2>3, <2>5, <2>6
  <2>8. k \in Nat \ {0} BY <1>2
  <2>9. RoundsTo(f, mode, s, k, q, r) BY <1>1, <2>7, <2>8, Rescaled
  <2> QED BY <2>1, <2>5, <2>6, <2>9 DEF Delivers, r, z, U
<1> QED BY <1>6, <1>7

\* a * 2^n - b, with b shifted to the place of a, when both have their
\* leading one at the top of a doubleword.
LEMMA LargerMinusSmaller ==
  ASSUME NEW f, NEW h, IsSingle(f, h), NEW w, NEW mode, NEW s, Directed(mode, s),
         NEW a, Bitlen(a, 2 * h - 2), a % 2 = 0, NEW b, Bitlen(b, 2 * h - 2), b % 2 = 0,
         NEW n \in Nat \ {0}, NEW e \in Int
  PROVE  LET k == a - Rnd(f, h)!shift64RightJam(b, n)
         IN /\ k \in Nat \ {0} /\ k < 2^(2 * h - 2) /\ a * 2^n - b \in Nat \ {0}
            /\ Delivers(f, h, mode, s, a * 2^n - b, e + Unit(f, h, w) - n,
                        Rnd(f, h)!normalized([exp |-> e, sig |-> k]))
<1> DEFINE x == Rnd(f, h)!shift64RightJam(b, n)
           k == a - x
           U == Unit(f, h, w)
           v == a * 2^n - b
           z == Rnd(f, h)!normalized([exp |-> e, sig |-> k])
<1>1. /\ IsFormat(f, h) /\ h \in Nat /\ U \in Int /\ h >= 6
  <2>1. /\ IsFormat(f, h) /\ f.F \in Nat \ {0} /\ f.G \in Nat /\ f.G >= 3
        /\ h = f.F + f.G + 2 /\ U \in Int
    BY SingleIs, UnitIs
  <2> QED BY <2>1
<1>2. PICK l \in Nat \ {0}, c \in Nat \ {0}, d \in Nat \ {0} :
        l = 2 * h - 2 /\ c = l - 1 /\ d = c - 1 /\ d - 1 \in Nat /\ d = 2 * h - 4 /\ c = 2 * h - 3
  <2>1. /\ 2 * h - 2 \in Nat \ {0} /\ 2 * h - 3 \in Nat \ {0} /\ 2 * h - 4 \in Nat \ {0}
        /\ (2 * h - 2) - 1 = 2 * h - 3 /\ (2 * h - 3) - 1 = 2 * h - 4 /\ (2 * h - 4) - 1 \in Nat
    BY <1>1
  <2> QED BY <2>1
<1>3. PICK R \in Nat \ {0} : R = 2^(d - 1) /\ 2^d = 2 * R /\ 2^c = 4 * R /\ 2^l = 8 * R
  <2>1. 2^l = 2 * 2^(l - 1) /\ 2^c = 2 * 2^(c - 1) /\ 2^d = 2 * 2^(d - 1)
        /\ 2^(d - 1) \in Nat \ {0}
    BY Doubled
  <2> QED BY <1>2, <2>1
<1>4. /\ a \in Nat /\ 4 * R <= a /\ a < 8 * R /\ b \in Nat /\ 4 * R <= b /\ b < 8 * R
  BY <1>2, <1>3 DEF Bitlen, HasBits
<1>5. Sticks(x, b, 2^n)
  <2>1. 2 * h - 2 <= 2 * h BY <1>1
  <2> QED BY <1>1, <2>1, LongJams
<1>6. x \in Nat /\ 2^n \in Nat \ {0} BY <1>5 DEF Sticks
<1> HIDE DEF x, k, v, U, z
<1>7. CASE n = 1
  <2>1. 2^n = 2
    <3>1. 2^1 = 2 * 2^(1 - 1) /\ 2^0 = 1 BY Doubled, PowerZero
    <3> QED BY <1>7, <3>1
  <2>2. PICK g \in Nat : b = 2 * g
    <3>1. b = 2 * (b \div 2) /\ b \div 2 \in Nat BY <1>4
    <3> QED BY <3>1
  <2>3. x = g BY <1>5, <1>6, <2>1, <2>2 DEF Sticks
  <2>4. v = 2 * k /\ k \in Nat \ {0} /\ k < 8 * R
    BY <1>4, <2>1, <2>2, <2>3 DEF k, v
  <2>5. PICK m \in 1 .. l : HasBits(k, m, l)
    BY <1>3, <2>4, BitsExist
  <2>6. Bitlen(k, m) /\ m <= 2 * h - 2 BY <1>2, <2>5 DEF Bitlen, HasBits
  <2>7. Sticks(k, k, 2^0) BY <2>4, PowerZero DEF Sticks
  <2>8. Delivers(f, h, mode, s, k, e + U - 0, z)
    BY <2>6, <2>7, DifferenceDelivers DEF U, z
  <2>9. v = k * 2^n BY <2>1, <2>4
  <2>10. PICK q \in Int : q = e + U - 0 /\ q - n = e + U - n
    BY <1>1
  <2> DEFINE r == Rnd(f, h)!roundPack(mode, s, z.exp, z.sig)
  <2>11. RoundsTo(f, mode, s, k, q, r) BY <2>8, <2>10 DEF Delivers
  <2> HIDE DEF r
  <2>12. RoundsTo(f, mode, s, k * 2^n, q - n, r)
    BY <1>1, <2>4, <2>11, Rescaled
  <2>13. Delivers(f, h, mode, s, v, e + U - n, z)
    BY <2>8, <2>9, <2>10, <2>12 DEF Delivers, r
  <2>14. v \in Nat \ {0} BY <2>4
  <2> QED BY <1>2, <1>3, <2>4, <2>13, <2>14 DEF k, v, x, U, z
<1>8. CASE n >= 2
  <2>1. PICK N \in Nat : N = 2^n /\ N >= 4
    <3>1. PICK m \in Nat \ {0} : m = n - 1 /\ m - 1 \in Nat
      BY <1>8
    <3>2. 2^n = 2 * 2^(n - 1) /\ 2^m = 2 * 2^(m - 1) /\ 2^(m - 1) \in Nat \ {0}
      BY <3>1, Doubled
    <3> QED BY <1>6, <3>1, <3>2
  <2>2. x <= 2 * R
    <3>1. ~ (x > 2 * R)
      <4>1. (2 * R) * N >= (2 * R) * 4 /\ (2 * R) * N \in Nat BY <2>1
      <4>2. ~ (b > (2 * R) * 2^n) BY <1>4, <2>1, <4>1
      <4> QED BY <1>5, <4>2, StickyOrder
    <3> QED BY <1>6, <3>1
  <2>3. k \in Nat /\ k >= 2 * R /\ k < 8 * R BY <1>4, <1>6, <2>2 DEF k
  <2>4. Sticks(k, v, 2^n)
    <3>1. x <= a BY <1>4, <1>6, <2>2
    <3> QED BY <1>4, <1>5, <3>1, StickyAdds DEF k, v
  <2>5. PICK m \in 1 .. l : HasBits(k, m, l)
    BY <1>3, <2>3, BitsExist
  <2>6. Bitlen(k, m) /\ m <= 2 * h - 2 BY <1>2, <2>5 DEF Bitlen, HasBits
  <2>7. m >= 2 * h - 3
    <3>1. ~ (k < 2^d) BY <1>3, <2>3
    <3>2. ~ (m <= d) BY <2>6, <3>1, BitlenBelow
    <3> QED BY <1>1, <1>2, <3>2
  <2>8. Delivers(f, h, mode, s, v, e + U - n, z)
    BY <2>4, <2>6, <2>7, DifferenceDelivers DEF U, z
  <2>9. v \in Nat \ {0}
    <3>1. v >= (2 * R) * 2^n BY <2>3, <2>4, StickyOrder
    <3>2. (2 * R) * N >= (2 * R) * 4 BY <2>1
    <3> QED BY <2>1, <2>4, <3>1, <3>2 DEF Sticks
  <2> QED BY <1>2, <1>3, <2>3, <2>8, <2>9 DEF k, v, x, U, z
<1> QED BY <1>7, <1>8

\* What the sum of two magnitudes makes of a product x at exponent d and
\* an addend y * 2^h at exponent e.
LEMMA SumMagsDelivers ==
  ASSUME NEW f, NEW h, IsSingle(f, h), NEW w, NEW mode, NEW s, Directed(mode, s),
         NEW X, X.exp \in Int, Bitlen(X.sig, 2 * h - 2), X.sig % 2 = 0,
         NEW e \in Int, NEW y, Bitlen(y, h - 2), y % 2 = 0, NEW n \in Nat
  PROVE  LET U == Unit(f, h, w)
             z == Rnd(f, h)!sumMags(X, e, y)
         IN /\ e - X.exp = n =>
                 Delivers(f, h, mode, s, X.sig + (y * 2^h) * 2^n, X.exp + U, z)
            /\ X.exp - e = n /\ n # 0 =>
                 Delivers(f, h, mode, s, X.sig * 2^n + y * 2^h, e + U, z)
<1> DEFINE U == Unit(f, h, w)
           z == Rnd(f, h)!sumMags(X, e, y)
           x == X.sig
           d == X.exp - e
           low == y + Rnd(f, h)!shift64RightJam(x, h - d)
           in == x + Rnd(f, h)!shift64RightJam(y * 2^h, d)
           high == Rnd(f, h)!shortShift64RightJam(in, h)
           k == IF d <= 0 THEN low ELSE high
           b == IF d <= 0 THEN e ELSE X.exp
           P == 2^(h - 3)
           T == 2^h
           N == 2^n
<1>1. /\ IsFormat(f, h) /\ h \in Nat /\ U \in Int /\ h >= 6
  <2>1. /\ IsFormat(f, h) /\ f.F \in Nat \ {0} /\ f.G \in Nat /\ f.G >= 3
        /\ h = f.F + f.G + 2 /\ U \in Int
    BY SingleIs, UnitIs
  <2> QED BY <2>1
<1>2. z = IF k < Rnd(f, h)!Hidden THEN [exp |-> b - 1, sig |-> 2 * k] ELSE [exp |-> b, sig |-> k]
  BY Zenon DEF Rnd!sumMags, Rnd!M32
<1>3. P \in Nat \ {0} /\ 2^(h - 2) = 2 * P /\ T = 8 * P /\ T \in Nat \ {0} /\ T % 2 = 0
  <2>1. PICK c \in Nat \ {0} :
          P = 2 * c /\ P \in Nat /\ 2^(h - 2) = 2 * P /\ T = 8 * P
    BY WordPowers
  <2> HIDE DEF P, T
  <2> QED BY <2>1
<1>4. N \in Nat \ {0} BY PowerOfTwo
<1>5. y \in Nat /\ P <= y /\ y < 2 * P
  <2>1. y \in Nat /\ 2^(h - 2 - 1) <= y /\ y < 2^(h - 2) /\ h - 2 - 1 = h - 3
    BY <1>1 DEF Bitlen, HasBits
  <2> QED BY <1>3, <2>1
<1>6. x \in Nat /\ P * T <= x /\ x < (2 * P) * T
  <2>1. PICK a \in Nat, c \in Nat : a = h - 3 /\ c = h - 2 /\ a + h = 2 * h - 2 - 1 /\ c + h = 2 * h - 2
    <3>1. h - 3 \in Nat /\ h - 2 \in Nat /\ (h - 3) + h = 2 * h - 2 - 1 /\ (h - 2) + h = 2 * h - 2
      BY <1>1
    <3> QED BY <3>1
  <2>2. 2^(a + h) = 2^a * 2^h BY <1>1, PowersAdd
  <2>3. 2^(c + h) = 2^c * 2^h BY <1>1, PowersAdd
  <2>4. x \in Nat /\ 2^(2 * h - 2 - 1) <= x /\ x < 2^(2 * h - 2)
    BY DEF Bitlen, HasBits
  <2> QED BY <1>3, <2>1, <2>2, <2>3, <2>4
<1>7. Bitlen(y * T, 2 * h - 2) /\ (y * T) % 2 = 0 /\ y * T \in Nat
  <2>1. PICK c \in Nat \ {0} : c = h - 2 /\ c + h = 2 * h - 2
    <3>1. h - 2 \in Nat \ {0} /\ (h - 2) + h = 2 * h - 2 BY <1>1
    <3> QED BY <3>1
  <2>2. Bitlen(y, c) /\ h \in Nat \ {0} BY <1>1, <2>1
  <2>3. Bitlen(y * T, c + h) /\ (y * T) % 2 = 0
    BY <1>5, <2>2, BitlenScaled, ShiftedIsEven
  <2> QED BY <1>3, <1>5, <2>1, <2>3
<1> HIDE DEF U, z, x, d, low, in, high, k, b, P, T, N
<1>8. 2 * h - 2 <= 2 * h BY <1>1
<1>9. ASSUME NEW v, NEW j \in Nat, NEW J \in Nat, J = 2^j, Sticks(k, v, J),
             P * J <= v, v < (4 * P) * J, b \in Int
      PROVE  Delivers(f, h, mode, s, v, b + U + h - j, z)
  BY <1>2, <1>9, SumDelivers DEF P, U
<1>10. ASSUME e - X.exp = n
       PROVE  Delivers(f, h, mode, s, X.sig + (y * 2^h) * 2^n, X.exp + U, z)
  <2>1. PICK j \in Nat \ {0} : j = h - d /\ j = h + n
    <3>1. h + n \in Nat \ {0} /\ h + n = h - d BY <1>1, <1>10 DEF d
    <3> QED BY <3>1
  <2>2. d <= 0 /\ k = low /\ b = e /\ b + U + h - j = X.exp + U
    BY <1>1, <1>10, <2>1 DEF d, k, b
  <2> DEFINE J == 2^j
             v == x + (y * T) * N
  <2>3. J = T * N /\ J \in Nat \ {0}
    <3>1. 2^(h + n) = 2^h * 2^n BY <1>1, PowersAdd
    <3> QED BY <2>1, <3>1, PowerOfTwo DEF T, N
  <2>4. Sticks(Rnd(f, h)!shift64RightJam(x, j), x, 2^j)
    BY <1>1, <1>8, LongJams DEF x
  <2>5. low = y + Rnd(f, h)!shift64RightJam(x, j) BY <2>1 DEF low
  <2> HIDE DEF J
  <2>6. Sticks(low, y * J + x, J) BY <1>5, <2>4, <2>5, StickyAdds DEF J
  <2>7. v = y * J + x
    <3>1. (y * T) * N = y * J /\ y * J \in Nat BY <1>3, <1>4, <1>5, <2>3
    <3> QED BY <1>6, <3>1
  <2>8. P * J <= v /\ v < (4 * P) * J
    <3>1. P * J <= y * J /\ y * J <= (2 * P) * J BY <1>3, <1>5, <2>3
    <3>2. (2 * P) * T <= (2 * P) * J
      <4>1. T <= J
        <5>1. T * 1 <= T * N BY <1>3, <1>4
        <5> QED BY <1>3, <2>3, <5>1
      <4> QED BY <1>3, <2>3, <4>1
    <3>3. (2 * P) * J + (2 * P) * J = (4 * P) * J BY <1>3, <2>3
    <3>4. P * J \in Nat /\ y * J \in Nat /\ (2 * P) * J \in Nat /\ (2 * P) * T \in Nat
      BY <1>3, <1>5, <2>3
    <3> QED BY <1>6, <2>7, <3>1, <3>2, <3>3, <3>4
  <2> HIDE DEF v
  <2>9. b \in Int /\ J = 2^j /\ J \in Nat /\ Sticks(k, v, J)
    BY <2>2, <2>3, <2>6, <2>7 DEF J
  <2>10. Delivers(f, h, mode, s, v, b + U + h - j, z) BY <1>9, <2>8, <2>9
  <2> QED BY <2>2, <2>10 DEF v, x, T, N
<1>11. ASSUME X.exp - e = n, n # 0
       PROVE  Delivers(f, h, mode, s, X.sig * 2^n + y * 2^h, e + U, z)
  <2>1. PICK j \in Nat \ {0} : j = n + h
    <3>1. n + h \in Nat \ {0} BY <1>1
    <3> QED BY <3>1
  <2>2. d = n /\ k = high /\ b = X.exp /\ b + U + h - j = e + U
    <3>1. d = n /\ ~ (n <= 0) BY <1>11 DEF d
    <3> QED BY <1>1, <1>11, <2>1, <3>1 DEF k, b
  <2> DEFINE J == 2^j
             v == x * N + y * T
  <2>3. J = N * T /\ J \in Nat \ {0}
    <3>1. 2^(n + h) = 2^n * 2^h BY <1>1, PowersAdd
    <3> QED BY <2>1, <3>1, PowerOfTwo DEF T, N
  <2>4. Sticks(Rnd(f, h)!shift64RightJam(y * T, n), y * T, 2^n)
    BY <1>1, <1>7, <1>8, <1>11, LongJams
  <2>5. in = x + Rnd(f, h)!shift64RightJam(y * T, n) BY <2>2 DEF in, T
  <2>6. Sticks(in, v, N)
    <3>1. x % 2 = 0 BY DEF x
    <3> QED BY <1>6, <2>4, <2>5, <3>1, StickyAdds DEF N
  <2>7. Sticks(high, in, T)
    <3>1. in \in Nat BY <2>6 DEF Sticks
    <3> QED BY <1>1, <3>1, ShortJams DEF high, T
  <2>8. Sticks(high, v, N * T) BY <1>3, <2>6, <2>7, StickyComposes
  <2> HIDE DEF J
  <2>9. P * J <= v /\ v < (4 * P) * J
    <3>1. (P * T) * N <= x * N /\ x * N <= ((2 * P) * T) * N
      BY <1>3, <1>4, <1>6
    <3>2. y * T <= (2 * P) * T BY <1>3, <1>5
    <3>3. (2 * P) * T <= ((2 * P) * T) * N
      <4>1. PICK c \in Nat : c = (2 * P) * T
        BY <1>3
      <4>2. c * 1 <= c * N BY <1>4
      <4> QED BY <4>1, <4>2
    <3>4. (P * T) * N = P * J /\ ((2 * P) * T) * N = (2 * P) * J
      BY <1>3, <1>4, <2>3
    <3>5. (2 * P) * J + (2 * P) * J = (4 * P) * J BY <1>3, <2>3
    <3>6. x * N < ((2 * P) * T) * N BY <1>3, <1>4, <1>6
    <3>7. P * J \in Nat /\ x * N \in Nat /\ y * T \in Nat /\ (2 * P) * J \in Nat /\ (2 * P) * T \in Nat
      BY <1>3, <1>4, <1>5, <1>6, <2>3
    <3> QED BY <3>1, <3>2, <3>3, <3>4, <3>5, <3>6, <3>7
  <2> HIDE DEF v
  <2>10. b \in Int /\ J = 2^j /\ J \in Nat /\ Sticks(k, v, J)
    BY <2>2, <2>3, <2>8 DEF J
  <2>11. Delivers(f, h, mode, s, v, b + U + h - j, z) BY <1>9, <2>9, <2>10
  <2> QED BY <2>2, <2>11 DEF v, x, T, N
<1> QED BY <1>10, <1>11 DEF z, U

----
\* The sum of the product and the addend

\* The sum of magnitudes delivers the sum of the two terms, whichever of
\* them has to move.
LEMMA SumOf ==
  ASSUME NEW f, NEW h, IsSingle(f, h), NEW w, NEW mode, NEW s, Directed(mode, s),
         NEW X, Bitlen(X.sig, 2 * h - 2), X.sig % 2 = 0,
         NEW e, NEW y, Bitlen(y, h - 2), y % 2 = 0, NEW a, NEW b, Aligns(X.exp, e, a, b)
  PROVE  Delivers(f, h, mode, s, X.sig * 2^a + (y * 2^h) * 2^b,
                  X.exp - a + Unit(f, h, w), Rnd(f, h)!sumMags(X, e, y))
<1>1. X.exp \in Int /\ e \in Int /\ a \in Nat /\ b \in Nat /\ (a = 0 \/ b = 0) /\ X.exp - a = e - b
  BY DEF Aligns
<1>2. X.sig \in Nat /\ y * 2^h \in Nat
  <2>1. h \in Nat
    <3>1. f.F \in Nat \ {0} /\ f.G \in Nat /\ h = f.F + f.G + 2 BY SingleIs
    <3> QED BY <3>1
  <2>2. 2^h \in Nat BY <2>1, PowerOfTwo
  <2> QED BY <2>2 DEF Bitlen, HasBits
<1> DEFINE U == Unit(f, h, w)
           z == Rnd(f, h)!sumMags(X, e, y)
<1>3. CASE a = 0
  <2>1. e - X.exp = b /\ X.exp - a + U = X.exp + U
    <3>1. U \in Int BY UnitIs
    <3> QED BY <1>1, <1>3, <3>1
  <2>2. X.sig * 2^a = X.sig BY <1>2, <1>3, PowerZero
  <2>3. Delivers(f, h, mode, s, X.sig + (y * 2^h) * 2^b, X.exp + U, z)
    BY <1>1, <2>1, SumMagsDelivers
  <2> QED BY <2>1, <2>2, <2>3
<1>4. CASE a # 0
  <2>1. b = 0 /\ X.exp - e = a /\ X.exp - a + U = e + U
    <3>1. U \in Int BY UnitIs
    <3> QED BY <1>1, <1>4, <3>1
  <2>2. (y * 2^h) * 2^b = y * 2^h BY <1>2, <2>1, PowerZero
  <2>3. Delivers(f, h, mode, s, X.sig * 2^a + y * 2^h, e + U, z)
    BY <1>1, <1>4, <2>1, SumMagsDelivers
  <2> QED BY <2>1, <2>2, <2>3
<1> QED BY <1>3, <1>4

\* The difference of magnitudes delivers the difference, and says which
\* of the terms is the larger.
LEMMA DifferenceOf ==
  ASSUME NEW f, NEW h, IsSingle(f, h), NEW w, NEW mode, NEW s, Directed(mode, s),
         NEW X, Bitlen(X.sig, 2 * h - 2), X.sig % 2 = 0,
         NEW e, NEW y, Bitlen(y * 2^h, 2 * h - 2), (y * 2^h) % 2 = 0,
         NEW a, NEW b, Aligns(X.exp, e, a, b)
  PROVE  LET v == X.sig * 2^a - (y * 2^h) * 2^b
             q == X.exp - a + Unit(f, h, w)
             D == Rnd(f, h)!diffMags(X, e, y)
             z == Rnd(f, h)!normalized(D)
         IN /\ v \in Int /\ (v = 0 <=> D.sig = 0)
            /\ v > 0 => ~ D.flip /\ Delivers(f, h, mode, s, v, q, z)
            /\ v < 0 => D.flip /\ Delivers(f, h, mode, s, - v, q, z)
<1> DEFINE U == Unit(f, h, w)
           x == X.sig
           Y == y * 2^h
           d == X.exp - e
           v == x * 2^a - Y * 2^b
           q == X.exp - a + U
           D == Rnd(f, h)!diffMags(X, e, y)
           z == Rnd(f, h)!normalized(D)
           M == 2^(2 * h)
           k == IF d < 0 THEN Y - Rnd(f, h)!shift64RightJam(x, - d)
                ELSE IF d = 0 THEN (x - Y) % M
                ELSE x - Rnd(f, h)!shift64RightJam(Y, d)
           wraps == d = 0 /\ k >= M \div 2
           L == 2^(2 * h - 2)
           Norm(i, j) == Rnd(f, h)!normalized([exp |-> i, sig |-> j])
<1>1. X.exp \in Int /\ e \in Int /\ a \in Nat /\ b \in Nat /\ (a = 0 \/ b = 0) /\ X.exp - a = e - b
  BY DEF Aligns
<1>2. h \in Nat /\ h >= 6 /\ U \in Int /\ IsFormat(f, h)
  <2>1. f.F \in Nat \ {0} /\ f.G \in Nat /\ f.G >= 3 /\ h = f.F + f.G + 2 /\ IsFormat(f, h)
    BY SingleIs
  <2>2. U \in Int BY UnitIs
  <2> QED BY <2>1, <2>2
<1>3. D = [flip |-> d < 0 \/ wraps, exp |-> IF d < 0 THEN e ELSE X.exp,
           sig |-> IF wraps THEN M - k ELSE k]
  BY Zenon DEF Rnd!diffMags, Rnd!M32, Rnd!M64
<1>4. ASSUME NEW i, NEW j, D.exp = i, D.sig = j
      PROVE  z = Norm(i, j)
  <2>1. [exp |-> i, sig |-> j].exp = i /\ [exp |-> i, sig |-> j].sig = j OBVIOUS
  <2> QED BY <1>4, <2>1, Zenon DEF Rnd!normalized
<1>5. x \in Nat /\ Y \in Nat /\ x < L /\ Y < L /\ L \in Nat
  <2>1. 2 * h - 2 \in Nat BY <1>2
  <2> QED BY <2>1, PowerOfTwo DEF Bitlen, HasBits
<1>6. M = 4 * L /\ M \div 2 = 2 * L /\ M \in Nat \ {0}
  <2>1. PICK m \in Nat \ {0}, n \in Nat \ {0} : m = 2 * h /\ n = m - 1 /\ n - 1 = 2 * h - 2
    <3>1. 2 * h \in Nat \ {0} /\ (2 * h) - 1 \in Nat \ {0} /\ ((2 * h) - 1) - 1 = 2 * h - 2
      BY <1>2
    <3> QED BY <3>1
  <2>2. 2^m = 2 * 2^(m - 1) /\ 2^n = 2 * 2^(n - 1) /\ 2^m \in Nat \ {0}
    BY Doubled, PowerOfTwo
  <2>3. M = 2 * (2 * L) /\ M \in Nat \ {0} BY <2>1, <2>2
  <2> HIDE DEF M, L
  <2> QED BY <1>5, <2>3
<1> HIDE DEF U, x, Y, d, v, q, D, z, M, k, wraps, L, Norm
<1>7. CASE d < 0
  <2>1. a = 0 /\ b \in Nat \ {0} /\ b = - d /\ q = e + U - b
    BY <1>1, <1>2, <1>7 DEF d, q
  <2>2. x * 2^a = x /\ v = x - Y * 2^b BY <1>5, <2>1, PowerZero DEF v
  <2> DEFINE l == Y - Rnd(f, h)!shift64RightJam(x, b)
  <2>3. /\ l \in Nat \ {0} /\ Y * 2^b - x \in Nat \ {0}
        /\ Delivers(f, h, mode, s, Y * 2^b - x, e + U - b, Norm(e, l))
    BY <1>1, <2>1, LargerMinusSmaller DEF Norm, Y, x, U
  <2>4. l = k /\ ~ wraps BY <1>7, <2>1 DEF k, wraps
  <2> HIDE DEF l
  <2>5. D.flip /\ D.exp = e /\ D.sig = l BY <1>3, <1>7, <2>4
  <2>6. z = Norm(e, l) BY <1>4, <2>5
  <2>7. PICK t \in Nat : t = Y * 2^b /\ t - x \in Nat \ {0} /\ t - x = Y * 2^b - x
    <3>1. 2^b \in Nat BY <2>1, PowerOfTwo
    <3> QED BY <1>5, <2>3, <3>1
  <2>8. v = x - t /\ - v = t - x /\ v \in Int /\ v < 0 BY <1>5, <2>2, <2>7
  <2>9. Delivers(f, h, mode, s, - v, q, z) BY <2>1, <2>3, <2>6, <2>7, <2>8
  <2> QED BY <2>3, <2>5, <2>8, <2>9 DEF v, q, D, z, x, Y, U
<1>8. CASE d > 0
  <2>1. b = 0 /\ a \in Nat \ {0} /\ a = d /\ q = X.exp + U - a
    BY <1>1, <1>2, <1>8 DEF d, q
  <2>2. Y * 2^b = Y /\ v = x * 2^a - Y BY <1>5, <2>1, PowerZero DEF v
  <2> DEFINE l == x - Rnd(f, h)!shift64RightJam(Y, a)
  <2>3. /\ l \in Nat \ {0} /\ x * 2^a - Y \in Nat \ {0}
        /\ Delivers(f, h, mode, s, x * 2^a - Y, X.exp + U - a, Norm(X.exp, l))
    BY <1>1, <2>1, LargerMinusSmaller DEF Norm, Y, x, U
  <2>4. l = k /\ ~ wraps BY <1>8, <2>1 DEF k, wraps
  <2> HIDE DEF l
  <2>5. ~ D.flip /\ D.exp = X.exp /\ D.sig = l
    <3>1. ~ (d < 0) BY <1>1, <1>8 DEF d
    <3> QED BY <1>3, <2>4, <3>1
  <2>6. z = Norm(X.exp, l) BY <1>4, <2>5
  <2>7. v \in Nat \ {0} /\ Delivers(f, h, mode, s, v, q, z)
    BY <2>1, <2>2, <2>3, <2>6
  <2>8. v \in Int /\ v > 0 /\ ~ (v < 0) /\ v # 0 BY <2>7
  <2> QED BY <2>3, <2>5, <2>7, <2>8 DEF v, q, D, z, x, Y, U
<1>9. CASE d = 0
  <2>1. a = 0 /\ b = 0 /\ q = X.exp + U - 0 BY <1>1, <1>2, <1>9 DEF d, q
  <2>2. v = x - Y BY <1>5, <2>1, PowerZero DEF v
  <2>3. ASSUME NEW l \in Nat \ {0}, l < L, D.sig = l, D.exp = X.exp
        PROVE  Delivers(f, h, mode, s, l, q, z)
    <3>1. z = Norm(X.exp, l) BY <1>4, <2>3
    <3>2. PICK m \in Nat : m = 2 * h - 2
      BY <1>2
    <3>3. PICK n \in 1 .. m : HasBits(l, n, m)
      BY <2>3, <3>2, BitsExist DEF L
    <3>4. Bitlen(l, n) /\ n <= 2 * h - 2 BY <3>2, <3>3 DEF Bitlen, HasBits
    <3>5. Sticks(l, l, 2^0) BY <2>3, PowerZero DEF Sticks
    <3>6. Delivers(f, h, mode, s, l, X.exp + U - 0, Norm(X.exp, l))
      BY <1>1, <3>4, <3>5, DifferenceDelivers DEF Norm, U
    <3> QED BY <2>1, <3>1, <3>6
  <2>4. k = (x - Y) % M /\ (wraps <=> k >= 2 * L) /\ D.exp = X.exp
    BY <1>3, <1>6, <1>9 DEF k, wraps
  <2>5. CASE x >= Y
    <3>1. k = x - Y
      <4>1. x - Y \in Nat /\ x - Y = 0 * M + (x - Y) /\ x - Y \in 0 .. (M - 1)
        BY <1>5, <1>6, <2>5
      <4> QED BY <1>6, <2>4, <4>1, DivisionIs
    <3>2. ~ wraps /\ D.sig = k /\ ~ D.flip
      <4>1. ~ (k >= 2 * L) /\ ~ (d < 0) BY <1>5, <1>9, <2>5, <3>1
      <4>2. ~ wraps BY <2>4, <4>1
      <4> QED BY <1>3, <4>1, <4>2
    <3>3. v \in Nat /\ v = k /\ v < L BY <1>5, <2>2, <2>5, <3>1
    <3>4. v # 0 => Delivers(f, h, mode, s, v, q, z)
      BY <2>3, <2>4, <3>2, <3>3
    <3>5. v \in Int /\ ~ (v < 0) /\ (v > 0 => v # 0) BY <3>3
    <3> QED BY <3>2, <3>3, <3>4, <3>5 DEF v, q, D, z, x, Y, U
  <2>6. CASE x < Y
    <3>1. k = M - (Y - x)
      <4>1. x - Y \in Int /\ x - Y = (-1) * M + (M - (Y - x)) /\ M - (Y - x) \in 0 .. (M - 1)
        BY <1>5, <1>6, <2>6
      <4> QED BY <1>6, <2>4, <4>1, DivisionIs
    <3>2. wraps /\ D.sig = M - k /\ D.flip
      <4>1. k >= 2 * L BY <1>5, <1>6, <2>6, <3>1
      <4> QED BY <1>3, <2>4, <4>1
    <3>3. - v \in Nat \ {0} /\ D.sig = - v /\ - v < L /\ v \in Int /\ v < 0
      BY <1>5, <1>6, <2>2, <2>6, <3>1, <3>2
    <3>4. Delivers(f, h, mode, s, - v, q, z)
      <4>1. PICK l \in Nat \ {0} : l = - v
        BY <3>3
      <4> QED BY <2>3, <2>4, <3>3, <4>1
    <3>5. ~ (v > 0) /\ v # 0 /\ D.sig # 0 BY <3>3
    <3> QED BY <3>2, <3>3, <3>4, <3>5 DEF v, q, D, z, x, Y, U
  <2> QED BY <1>5, <2>5, <2>6
<1> QED
  <2>1. d \in Int BY <1>1 DEF d
  <2> QED BY <1>7, <1>8, <1>9, <2>1

\* The sum of two numbers given at one last place, the first shifted left
\* by i to it and the second by l.
LEMMA ExactSumIs ==
  ASSUME NEW f, NEW w, NEW x, NEW y, x.q \in Int, y.q \in Int, x.m \in Nat, y.m \in Nat,
         x.s \in {0, 1}, y.s \in {0, 1},
         NEW q \in Int, NEW i \in Nat, NEW l \in Nat, x.q = q + i, y.q = q + l
  PROVE  AddsUp(Ref(f, w)!ExactSum(x, y), x, y, x.m * 2^i, y.m * 2^l, q)
<1> DEFINE p == IF x.q < y.q THEN x.q ELSE y.q
           a == x.m * 2^(x.q - p)
           b == y.m * 2^(y.q - p)
           c == Ref(f, w)!SignedNumber(x.s, a) + Ref(f, w)!SignedNumber(y.s, b)
           z == Ref(f, w)!ExactSum(x, y)
           m == x.m * 2^i
           n == y.m * 2^l
<1>1. PICK g \in Nat, j \in Nat, k \in Nat : p = q + g /\ j = x.q - p /\ k = y.q - p /\ i = j + g /\ l = k + g
  <2>1. p - q \in Nat /\ x.q - p \in Nat /\ y.q - p \in Nat /\ p = q + (p - q)
        /\ i = (x.q - p) + (p - q) /\ l = (y.q - p) + (p - q)
    OBVIOUS
  <2> HIDE DEF p
  <2> QED BY <2>1
<1>2. z = [s |-> IF c < 0 THEN 1 ELSE 0, m |-> IF c < 0 THEN - c ELSE c, q |-> p]
  BY Zenon DEF Ref!ExactSum
<1>3. c = (IF x.s = 1 THEN - a ELSE a) + (IF y.s = 1 THEN - b ELSE b)
  BY Zenon DEF Ref!SignedNumber
<1> HIDE DEF p, c, z
<1>4. 2^i = 2^j * 2^g BY <1>1, PowersAdd
<1>5. 2^l = 2^k * 2^g BY <1>1, PowersAdd
<1>6. PICK P \in Nat \ {0}, J \in Nat, K \in Nat : P = 2^g /\ J = 2^j /\ K = 2^k
  BY <1>1, PowerOfTwo
<1>7. a = x.m * J /\ b = y.m * K /\ a \in Nat /\ b \in Nat BY <1>1, <1>6
<1>8. m = a * P /\ n = b * P /\ m \in Nat /\ n \in Nat
  <2>1. (x.m * J) * P = x.m * (J * P) /\ (y.m * K) * P = y.m * (K * P)
    BY <1>6
  <2>2. 2^i = J * P /\ 2^l = K * P BY <1>4, <1>5, <1>6
  <2>3. m = a * P /\ n = b * P BY <1>7, <2>1, <2>2
  <2> QED BY <1>6, <1>7, <2>3
<1> HIDE DEF a, b, m, n
<1>9. (a > b <=> m > n) /\ (a = b <=> m = n) /\ (a = 0 <=> m = 0) /\ (b = 0 <=> n = 0)
  <2>1. a > b => a * P > b * P BY <1>6, <1>7
  <2>2. a < b => a * P < b * P BY <1>6, <1>7
  <2>3. 0 * P = 0 /\ (a > 0 => a * P > 0) /\ (b > 0 => b * P > 0)
    BY <1>6, <1>7
  <2> QED BY <1>7, <1>8, <2>1, <2>2, <2>3
<1>10. (a + b) * P = m + n /\ (a - b) * P = m - n /\ (b - a) * P = n - m
  BY <1>6, <1>7, <1>8
<1>11. CASE x.s = y.s
  <2>1. z.m = a + b /\ (z.m # 0 => z.s = x.s)
    <3>1. CASE x.s = 1
      <4>1. c = - (a + b) BY <1>3, <1>7, <1>11, <3>1
      <4>2. a + b \in Nat BY <1>7
      <4>3. z.m = a + b /\ (a + b # 0 => z.s = 1) BY <1>2, <4>1, <4>2
      <4> QED BY <3>1, <4>3
    <3>2. CASE x.s = 0
      <4>1. c = a + b /\ a + b \in Nat BY <1>3, <1>7, <1>11, <3>2
      <4>2. z.m = a + b /\ z.s = 0 BY <1>2, <4>1
      <4> QED BY <3>2, <4>2
    <3> QED BY <3>1, <3>2
  <2> QED BY <1>1, <1>2, <1>6, <1>7, <1>8, <1>9, <1>10, <1>11, <2>1 DEF z, m, n, AddsUp
<1>12. CASE x.s # y.s /\ a >= b
  <2>1. z.m = a - b /\ (a > b => z.s = x.s) BY <1>2, <1>3, <1>7, <1>12
  <2> QED BY <1>1, <1>2, <1>6, <1>7, <1>8, <1>9, <1>10, <1>12, <2>1 DEF z, m, n, AddsUp
<1>13. CASE x.s # y.s /\ a < b
  <2>1. z.m = b - a /\ z.s = y.s BY <1>2, <1>3, <1>7, <1>13
  <2> QED BY <1>1, <1>2, <1>6, <1>7, <1>8, <1>9, <1>10, <1>13, <2>1 DEF z, m, n, AddsUp
<1> QED BY <1>7, <1>11, <1>12, <1>13

\* What roundPack is given holds for the number at any of its last places.
LEMMA DeliversAt ==
  ASSUME NEW f, NEW h, IsSingle(f, h), NEW mode, NEW s, Directed(mode, s),
         NEW v, NEW q \in Int, NEW Z, Delivers(f, h, mode, s, v, q, Z),
         NEW m \in Nat \ {0}, NEW g \in Nat, v = m * 2^g, NEW p, p = q + g
  PROVE  /\ Z.sig # 0 /\ p \in Int
         /\ RoundsTo(f, mode, s, m, p, Rnd(f, h)!roundPack(mode, s, Z.exp, Z.sig))
<1> DEFINE r == Rnd(f, h)!roundPack(mode, s, Z.exp, Z.sig)
<1>1. Z.sig \in Rnd(f, h)!Hidden .. (Rnd(f, h)!Top - 1) /\ RoundsTo(f, mode, s, v, q, r)
  BY DEF Delivers
<1>2. Z.sig # 0
  <2>1. PICK P \in Nat, b \in Nat \ {0} : P = 2 * b /\ Rnd(f, h)!Hidden = 2 * P /\ Rnd(f, h)!Top = 4 * P
    BY WordPowers
  <2> QED BY <1>1, <2>1
<1> HIDE DEF r
<1>3. p \in Int /\ p - g = q OBVIOUS
<1>4. RoundsTo(f, mode, s, m * 2^g, p - g, r) BY <1>1, <1>3
<1>5. IsFormat(f, h) BY SingleIs
<1>6. RoundsTo(f, mode, s, m, p, r) BY <1>3, <1>4, <1>5, Rescaled
<1> QED BY <1>2, <1>3, <1>6 DEF r

\* DifferenceOf, under the name.
LEMMA AlignedDiffers ==
  ASSUME NEW f, NEW h, IsSingle(f, h), NEW w, NEW mode, NEW s, Directed(mode, s),
         NEW X, Bitlen(X.sig, 2 * h - 2), X.sig % 2 = 0,
         NEW e, NEW y, Bitlen(y * 2^h, 2 * h - 2), (y * 2^h) % 2 = 0,
         NEW a, NEW b, Aligns(X.exp, e, a, b)
  PROVE  Differs(f, h, mode, s, X.sig * 2^a - (y * 2^h) * 2^b,
                 X.exp - a + Unit(f, h, w), Rnd(f, h)!diffMags(X, e, y))
BY DifferenceOf, Zenon DEF Differs

\* sumF32 delivers the exact sum of two terms, with its sign, and says
\* zero only when the sum is zero.
LEMMA TermsSum ==
  ASSUME NEW f, NEW h, IsSingle(f, h), NEW w, NEW mode \in RoundingModes,
         NEW x, NEW y, x.s \in {0, 1}, y.s \in {0, 1}, NEW X, NEW C, C.sig # 0,
         NEW t, t = C.sig * 2^(f.G - 1), Bitlen(t, h - 2), t % 2 = 0,
         Term(f, h, w, x, X.sig, X.exp), Term(f, h, w, y, t * 2^h, C.exp)
  PROVE  /\ SumsTo(f, h, mode, Ref(f, w)!ExactSum(x, y), Rnd(f, h)!sumF32(x.s, X, y.s, C))
         /\ Ref(f, w)!ExactSum(x, y).m = 0 => x.s # y.s
<1> DEFINE U == Unit(f, h, w)
           z == Ref(f, w)!ExactSum(x, y)
           S == Rnd(f, h)!sumF32(x.s, X, y.s, C)
           same == Rnd(f, h)!sumMags(X, C.exp, t)
           D == Rnd(f, h)!diffMags(X, C.exp, t)
           other == Rnd(f, h)!normalized(D)
           Y == t * 2^h
<1>1. U \in Int BY UnitIs
<1>2. X.exp \in Int /\ Bitlen(X.sig, 2 * h - 2) /\ X.sig % 2 = 0
      /\ C.exp \in Int /\ Bitlen(Y, 2 * h - 2) /\ Y % 2 = 0
  BY DEF Term
<1>3. PICK i, l : Moves(x, X.sig, X.exp + U, i) /\ Moves(y, Y, C.exp + U, l)
  BY DEF Term
<1>4. PICK a \in Nat, b \in Nat : Aligns(X.exp, C.exp, a, b)
  <2>1. CASE X.exp >= C.exp
    <3>1. X.exp - C.exp \in Nat /\ X.exp - (X.exp - C.exp) = C.exp - 0
      BY <1>2, <2>1
    <3>2. Aligns(X.exp, C.exp, X.exp - C.exp, 0) BY <1>2, <3>1 DEF Aligns
    <3> QED BY <3>1, <3>2
  <2>2. CASE X.exp < C.exp
    <3>1. C.exp - X.exp \in Nat /\ C.exp - (C.exp - X.exp) = X.exp - 0
      BY <1>2, <2>2
    <3>2. Aligns(X.exp, C.exp, 0, C.exp - X.exp) BY <1>2, <3>1 DEF Aligns
    <3> QED BY <3>1, <3>2
  <2> QED BY <1>2, <2>1, <2>2
<1>5. S = IF x.s = y.s THEN [sign |-> x.s, exp |-> same.exp, sig |-> same.sig]
          ELSE IF D.sig = 0 THEN [sign |-> 0, exp |-> 0, sig |-> 0]
          ELSE [sign |-> IF D.flip THEN 1 - x.s ELSE x.s, exp |-> other.exp, sig |-> other.sig]
  BY Zenon DEF Rnd!sumF32
<1> HIDE DEF U, z, S, same, D, other, Y
<1>6. PICK q \in Int : q = X.exp - a + U /\ q = C.exp - b + U
  <2>1. X.exp - a + U \in Int /\ X.exp - a = C.exp - b
    BY <1>1, <1>2, <1>4 DEF Aligns
  <2> QED BY <2>1
<1>7. PICK ia \in Nat, lb \in Nat : ia = i + a /\ lb = l + b
  BY <1>3 DEF Moves
<1>8. x.m \in Nat \ {0} /\ x.q \in Int /\ y.m \in Nat \ {0} /\ y.q \in Int
      /\ x.q = q + ia /\ y.q = q + lb /\ i \in Nat /\ l \in Nat
      /\ X.sig = x.m * 2^i /\ Y = y.m * 2^l
  BY <1>1, <1>2, <1>3, <1>6, <1>7 DEF Moves
<1>9. x.m * 2^ia = X.sig * 2^a
  <2>1. 2^(i + a) = 2^i * 2^a /\ 2^i \in Nat /\ 2^a \in Nat
    BY <1>8, PowersAdd, PowerOfTwo
  <2>2. (x.m * 2^i) * 2^a = x.m * (2^i * 2^a)
    <3>1. PICK m, c, d \in Nat : m = x.m /\ c = 2^i /\ d = 2^a
      BY <1>8, <2>1
    <3>2. (m * c) * d = m * (c * d) OBVIOUS
    <3> QED BY <3>1, <3>2
  <2> QED BY <1>7, <1>8, <2>1, <2>2
<1>10. y.m * 2^lb = Y * 2^b
  <2>1. 2^(l + b) = 2^l * 2^b /\ 2^l \in Nat /\ 2^b \in Nat
    BY <1>8, PowersAdd, PowerOfTwo
  <2>2. (y.m * 2^l) * 2^b = y.m * (2^l * 2^b)
    <3>1. PICK m, c, d \in Nat : m = y.m /\ c = 2^l /\ d = 2^b
      BY <1>8, <2>1
    <3>2. (m * c) * d = m * (c * d) OBVIOUS
    <3> QED BY <3>1, <3>2
  <2> QED BY <1>7, <1>8, <2>1, <2>2
<1>11. PICK A \in Nat \ {0}, B \in Nat \ {0} : A = X.sig * 2^a /\ B = Y * 2^b
  <2>1. X.sig \in Nat /\ Y \in Nat /\ X.sig >= 1 /\ Y >= 1
    <3>1. 2 * h - 2 \in Nat \ {0}
      <4>1. f.F \in Nat \ {0} /\ f.G \in Nat /\ f.G >= 3 /\ h = f.F + f.G + 2
        BY SingleIs
      <4> QED BY <4>1
    <3>2. 2^(2 * h - 2 - 1) \in Nat \ {0} BY <3>1, Doubled
    <3> QED BY <1>2, <3>2 DEF Bitlen, HasBits
  <2>2. 2^a \in Nat \ {0} /\ 2^b \in Nat \ {0} BY PowerOfTwo
  <2>3. 1 * 2^a <= X.sig * 2^a /\ 1 * 2^b <= Y * 2^b BY <2>1, <2>2
  <2> QED BY <2>1, <2>2, <2>3
<1>12. PICK g \in Nat :
         /\ z.m \in Nat /\ z.q = q + g
         /\ x.s = y.s => z.m * 2^g = A + B /\ (z.m # 0 => z.s = x.s)
         /\ x.s # y.s => /\ A >= B => z.m * 2^g = A - B /\ (A > B => z.s = x.s)
                         /\ A < B => z.m * 2^g = B - A /\ z.s = y.s
         /\ z.m = 0 <=> (A = 0 /\ B = 0) \/ (x.s # y.s /\ A = B)
  <2>1. x.m \in Nat /\ y.m \in Nat BY <1>8
  <2>2. x.m * 2^ia = A /\ y.m * 2^lb = B BY <1>9, <1>10, <1>11
  <2>3. AddsUp(z, x, y, x.m * 2^ia, y.m * 2^lb, q)
    BY <1>8, <2>1, ExactSumIs DEF z
  <2>4. AddsUp(z, x, y, A, B, q) BY <2>2, <2>3
  <2> QED BY <2>4, Zenon DEF AddsUp
<1>13. ASSUME NEW s, s \in {0, 1} PROVE Directed(mode, s)
  BY <1>13 DEF Directed
<1>14. CASE x.s = y.s
  <2>1. Delivers(f, h, mode, x.s, A + B, q, same)
    <3>1. Directed(mode, x.s) BY <1>13
    <3> QED BY <1>2, <1>4, <1>6, <1>11, <3>1, SumOf DEF same, U, Y
  <2>2. z.m \in Nat \ {0} /\ z.s = x.s /\ A + B = z.m * 2^g
    BY <1>11, <1>12, <1>14
  <2>3. Directed(mode, z.s) BY <1>13, <2>2
  <2>4. Delivers(f, h, mode, z.s, A + B, q, same) BY <2>1, <2>2
  <2>5. same.sig # 0 /\ RoundsTo(f, mode, z.s, z.m, z.q, Rnd(f, h)!roundPack(mode, z.s, same.exp, same.sig))
    BY <1>12, <2>2, <2>3, <2>4, DeliversAt
  <2>6. S.sign = z.s /\ S.exp = same.exp /\ S.sig = same.sig
    BY <1>5, <1>14, <2>2
  <2>7. SumsTo(f, h, mode, z, S) BY <2>2, <2>5, <2>6 DEF SumsTo
  <2> QED BY <2>2, <2>7 DEF z, S
<1>15. CASE x.s # y.s
  <2>1. ASSUME NEW s, s \in {0, 1}
        PROVE  /\ A - B \in Int /\ (A - B = 0 <=> D.sig = 0)
               /\ A - B > 0 => ~ D.flip /\ Delivers(f, h, mode, s, A - B, q, other)
               /\ A - B < 0 => D.flip /\ Delivers(f, h, mode, s, - (A - B), q, other)
    <3>1. Directed(mode, s) BY <1>13, <2>1
    <3>2. Bitlen(t * 2^h, 2 * h - 2) /\ (t * 2^h) % 2 = 0 BY <1>2 DEF Y
    <3>3. Differs(f, h, mode, s, X.sig * 2^a - (t * 2^h) * 2^b,
                  X.exp - a + Unit(f, h, w), Rnd(f, h)!diffMags(X, C.exp, t))
      BY <1>2, <1>4, <3>1, <3>2, AlignedDiffers
    <3>4. A - B = X.sig * 2^a - (t * 2^h) * 2^b /\ q = X.exp - a + Unit(f, h, w)
      BY <1>6, <1>11 DEF Y, U
    <3>5. Differs(f, h, mode, s, A - B, q, D) BY <3>3, <3>4 DEF D
    <3> QED BY <3>5, Zenon DEF Differs, other
  <2>2. ASSUME NEW v \in Nat \ {0}, NEW s, s \in {0, 1}, Delivers(f, h, mode, s, v, q, other),
               D.sig # 0, s = (IF D.flip THEN 1 - x.s ELSE x.s), z.s = s, z.m * 2^g = v, z.m # 0
        PROVE  SumsTo(f, h, mode, z, S)
    <3>1. Directed(mode, s) /\ z.m \in Nat \ {0} BY <1>12, <1>13, <2>2
    <3>2. other.sig # 0 /\ RoundsTo(f, mode, s, z.m, z.q, Rnd(f, h)!roundPack(mode, s, other.exp, other.sig))
      BY <1>12, <2>2, <3>1, DeliversAt
    <3>3. S.sign = s /\ S.exp = other.exp /\ S.sig = other.sig
      BY <1>5, <1>15, <2>2
    <3> QED BY <2>2, <3>1, <3>2, <3>3 DEF SumsTo
  <2>3. CASE A = B
    <3>1. D.sig = 0
      <4>1. A - B = 0 /\ 0 \in {0, 1} BY <2>3
      <4> QED BY <2>1, <4>1
    <3>2. S.sig = 0 BY <1>5, <1>15, <3>1
    <3>3. z.m = 0 BY <1>12, <1>15, <2>3
    <3>4. SumsTo(f, h, mode, z, S) BY <1>12, <3>2, <3>3 DEF SumsTo
    <3> QED BY <1>15, <3>4 DEF z, S
  <2>4. CASE A > B
    <3>1. PICK v \in Nat \ {0} : v = A - B /\ A - B > 0 /\ A - B # 0
      <4>1. A - B \in Nat \ {0} BY <2>4
      <4> QED BY <4>1
    <3>2. D.sig # 0 /\ ~ D.flip /\ Delivers(f, h, mode, x.s, v, q, other)
      BY <2>1, <3>1
    <3>3. z.s = x.s /\ z.m * 2^g = v /\ z.m # 0
      BY <1>11, <1>12, <1>15, <2>4, <3>1
    <3>4. SumsTo(f, h, mode, z, S) BY <2>2, <3>2, <3>3
    <3> QED BY <1>15, <3>4 DEF z, S
  <2>5. CASE A < B
    <3>1. PICK v \in Nat \ {0} : v = B - A /\ A - B < 0 /\ - (A - B) = v /\ A - B # 0
      <4>1. B - A \in Nat \ {0} /\ A - B < 0 /\ - (A - B) = B - A /\ A - B # 0
        BY <2>5
      <4> QED BY <4>1
    <3>2. D.sig # 0 /\ D.flip /\ Delivers(f, h, mode, y.s, v, q, other)
      BY <2>1, <3>1
    <3>3. z.s = y.s /\ z.m * 2^g = v /\ z.m # 0
      BY <1>11, <1>12, <1>15, <2>5, <3>1
    <3>4. y.s = 1 - x.s BY <1>15
    <3>5. SumsTo(f, h, mode, z, S) BY <2>2, <3>2, <3>3, <3>4
    <3> QED BY <1>15, <3>5 DEF z, S
  <2> QED BY <2>3, <2>4, <2>5
<1> QED BY <1>14, <1>15

\* One number written at two last places rounds alike.
LEMMA SameRounds ==
  ASSUME NEW f, NEW h, IsFormat(f, h), NEW mode, NEW s, Directed(mode, s),
         NEW m \in Nat \ {0}, NEW p, NEW n \in Nat \ {0}, NEW k, SameNumber(m, p, n, k),
         NEW r, RoundsTo(f, mode, s, m, p, r)
  PROVE  RoundsTo(f, mode, s, n, k, r)
<1>1. PICK q \in Int, i \in Nat, g \in Nat : p = q + i /\ k = q + g /\ n * 2^g = m * 2^i
  BY Zenon DEF SameNumber
<1>2. p \in Int /\ p - i = q /\ k \in Int /\ k - g = q BY <1>1
<1>3. RoundsTo(f, mode, s, m * 2^i, p - i, r) BY <1>2, Rescaled
<1>4. RoundsTo(f, mode, s, n * 2^g, k - g, r) BY <1>1, <1>2, <1>3
<1> QED BY <1>2, <1>4, Rescaled

\* A zero term changes neither the sum nor how it rounds.
LEMMA ZeroAdded ==
  ASSUME NEW f, NEW h, IsFormat(f, h), NEW w, NEW mode \in RoundingModes,
         NEW x, NEW y, x.q \in Int, y.q \in Int, x.s \in {0, 1}, y.s \in {0, 1},
         x.m \in Nat, y.m \in Nat,
         NEW n, n.m # 0, (n = x /\ y.m = 0) \/ (n = y /\ x.m = 0),
         NEW r, RoundsTo(f, mode, n.s, n.m, n.q, r)
  PROVE  LET z == Ref(f, w)!ExactSum(x, y)
         IN z.m \in Nat \ {0} /\ z.s = n.s /\ RoundsTo(f, mode, z.s, z.m, z.q, r)
<1> DEFINE z == Ref(f, w)!ExactSum(x, y)
<1>1. PICK q \in Int, i \in Nat, l \in Nat : x.q = q + i /\ y.q = q + l
  <2>1. CASE x.q >= y.q
    <3>1. x.q - y.q \in Nat /\ x.q = y.q + (x.q - y.q) /\ y.q = y.q + 0
      BY <2>1
    <3> QED BY <3>1
  <2>2. CASE x.q < y.q
    <3>1. y.q - x.q \in Nat /\ y.q = x.q + (y.q - x.q) /\ x.q = x.q + 0
      BY <2>2
    <3> QED BY <3>1
  <2> QED BY <2>1, <2>2
<1>2. AddsUp(z, x, y, x.m * 2^i, y.m * 2^l, q) BY <1>1, ExactSumIs
<1> HIDE DEF z
<1>3. PICK I, L \in Nat \ {0} : I = 2^i /\ L = 2^l
  BY PowerOfTwo
<1>4. PICK A, B \in Nat : A = x.m * 2^i /\ B = y.m * 2^l
                          /\ (x.m = 0 => A = 0) /\ (y.m = 0 => B = 0)
                          /\ (x.m # 0 => A # 0) /\ (y.m # 0 => B # 0)
  <2>1. x.m * I \in Nat /\ y.m * L \in Nat
        /\ (x.m = 0 => x.m * I = 0) /\ (y.m = 0 => y.m * L = 0)
    BY <1>3
  <2>2. x.m # 0 => x.m * I >= 1 * I BY <1>3
  <2>3. y.m # 0 => y.m * L >= 1 * L BY <1>3
  <2> QED BY <1>3, <2>1, <2>2, <2>3
<1>5. PICK g \in Nat :
        /\ z.m \in Nat /\ z.q = q + g
        /\ x.s = y.s => z.m * 2^g = A + B /\ (z.m # 0 => z.s = x.s)
        /\ x.s # y.s => /\ A >= B => z.m * 2^g = A - B /\ (A > B => z.s = x.s)
                        /\ A < B => z.m * 2^g = B - A /\ z.s = y.s
        /\ z.m = 0 <=> (A = 0 /\ B = 0) \/ (x.s # y.s /\ A = B)
  <2>1. AddsUp(z, x, y, A, B, q) BY <1>2, <1>4
  <2> QED BY <2>1, Zenon DEF AddsUp
<1>6. Directed(mode, n.s) BY DEF Directed
<1>7. CASE n = x /\ y.m = 0
  <2>1. A # 0 /\ B = 0 BY <1>4, <1>7
  <2>2. z.m \in Nat \ {0} /\ z.s = n.s /\ z.m * 2^g = A BY <1>5, <1>7, <2>1
  <2>3. RoundsTo(f, mode, n.s, z.m, z.q, r)
    <3>1. z.m * 2^g = x.m * 2^i /\ x.q = q + i /\ z.q = q + g /\ x.m \in Nat \ {0}
      BY <1>1, <1>4, <1>5, <1>7, <2>2
    <3>2. Directed(mode, x.s) /\ RoundsTo(f, mode, x.s, x.m, x.q, r)
      BY <1>6, <1>7
    <3>3. SameNumber(x.m, x.q, z.m, z.q) BY <3>1, Zenon DEF SameNumber
    <3>4. RoundsTo(f, mode, x.s, z.m, z.q, r)
      BY <2>2, <3>1, <3>2, <3>3, SameRounds
    <3> QED BY <1>7, <3>4
  <2> QED BY <2>2, <2>3 DEF z
<1>8. CASE n = y /\ x.m = 0
  <2>1. B # 0 /\ A = 0 BY <1>4, <1>8
  <2>2. z.m \in Nat \ {0} /\ z.s = n.s /\ z.m * 2^g = B BY <1>5, <1>8, <2>1
  <2>3. RoundsTo(f, mode, n.s, z.m, z.q, r)
    <3>1. z.m * 2^g = y.m * 2^l /\ y.q = q + l /\ z.q = q + g /\ y.m \in Nat \ {0}
      BY <1>1, <1>4, <1>5, <1>8, <2>2
    <3>2. Directed(mode, y.s) /\ RoundsTo(f, mode, y.s, y.m, y.q, r)
      BY <1>6, <1>8
    <3>3. SameNumber(y.m, y.q, z.m, z.q) BY <3>1, Zenon DEF SameNumber
    <3>4. RoundsTo(f, mode, y.s, z.m, z.q, r)
      BY <2>2, <3>1, <3>2, <3>3, SameRounds
    <3> QED BY <1>8, <3>4
  <2> QED BY <2>2, <2>3 DEF z
<1> QED BY <1>7, <1>8

\* A zero addend changes neither how the product rounds nor its sign.
LEMMA TermAlone ==
  ASSUME NEW f, NEW h, IsSingle(f, h), NEW w, NEW mode \in RoundingModes,
         NEW x, NEW y, x.s \in {0, 1}, y.s \in {0, 1}, NEW X, NEW C, C.sig = 0,
         Term(f, h, w, x, X.sig, X.exp), y.m = 0, y.q \in Int
  PROVE  /\ SumsTo(f, h, mode, Ref(f, w)!ExactSum(x, y), Rnd(f, h)!sumF32(x.s, X, y.s, C))
         /\ Ref(f, w)!ExactSum(x, y).m # 0
<1> DEFINE U == Unit(f, h, w)
           z == Ref(f, w)!ExactSum(x, y)
           S == Rnd(f, h)!sumF32(x.s, X, y.s, C)
           r == Rnd(f, h)!roundPack(mode, S.sign, S.exp, S.sig)
<1>1. U \in Int /\ IsFormat(f, h) /\ h \in Nat /\ h >= 6 /\ f.F + 2 \in Nat
  <2>1. U \in Int /\ IsFormat(f, h) /\ f.F \in Nat \ {0} /\ f.G \in Nat /\ f.G >= 3 /\ h = f.F + f.G + 2
    BY SingleIs, UnitIs
  <2> QED BY <2>1
<1>2. X.exp \in Int /\ Bitlen(X.sig, 2 * h - 2) BY DEF Term
<1>3. PICK i : Moves(x, X.sig, X.exp + U, i)
  BY DEF Term
<1>4. S = [sign |-> x.s, exp |-> X.exp - 1, sig |-> Rnd(f, h)!shortShift64RightJam(X.sig, h - 1)]
  BY Zenon DEF Rnd!sumF32
<1>5. S.sign = x.s /\ S.exp = X.exp - 1 /\ S.sig = Rnd(f, h)!shortShift64RightJam(X.sig, h - 1)
  BY <1>4
<1> HIDE DEF U, z, S
<1>6. PICK j \in Nat : j = h - 1 /\ j < 2 * h - 2 /\ 2 * h - 2 - j = h - 1
  <2>1. h - 1 \in Nat /\ h - 1 < 2 * h - 2 /\ 2 * h - 2 - (h - 1) = h - 1
    BY <1>1
  <2> QED BY <2>1
<1>7. Sticks(S.sig, X.sig, 2^j)
  <2>1. X.sig \in Nat BY <1>2 DEF Bitlen, HasBits
  <2> QED BY <1>5, <1>6, <2>1, ShortJams
<1>8. Bitlen(S.sig, h - 1)
  <2>1. Bitlen(Rnd(f, h)!shortShift64RightJam(X.sig, j), 2 * h - 2 - j)
    BY <1>2, <1>6, JamKeepsLength
  <2> QED BY <1>5, <1>6, <2>1
<1>9. S.sig >= 2^(f.F + 2)
  <2>1. PICK P \in Nat :
          P = 2^(h - 3) /\ 2^(h - 2) = 2 * P /\ P >= 2^(f.F + 2)
    BY WordPowers
  <2>2. S.sig \in Nat /\ 2^(h - 1 - 1) <= S.sig /\ h - 1 - 1 = h - 2
    BY <1>1, <1>8 DEF Bitlen, HasBits
  <2>3. 2^(f.F + 2) \in Nat BY <1>1, PowerOfTwo
  <2> QED BY <2>1, <2>2, <2>3
<1>10. S.sig = S.sig * 2^0 BY <1>7, PowerZero DEF Sticks
<1>11. Directed(mode, x.s) BY DEF Directed
<1>12. S.exp \in Int BY <1>2, <1>5
<1>13. Delivers(f, h, mode, x.s, X.sig, S.exp + U + h + 0 - j, S)
  BY <1>7, <1>8, <1>9, <1>10, <1>11, <1>12, StickyDelivers DEF U
<1>14. PICK q \in Int : q = X.exp + U /\ q = S.exp + U + h + 0 - j
  BY <1>1, <1>2, <1>5, <1>6
<1>15. x.m \in Nat \ {0} /\ x.q \in Int /\ i \in Nat /\ X.sig = x.m * 2^i /\ x.q = q + i
  BY <1>3, <1>14 DEF Moves
<1>16. Delivers(f, h, mode, x.s, X.sig, q, S) BY <1>13, <1>14
<1>17. S.sig # 0 /\ RoundsTo(f, mode, x.s, x.m, x.q, r)
  BY <1>5, <1>11, <1>15, <1>16, DeliversAt
<1> HIDE DEF r
<1>18. z.m \in Nat \ {0} /\ z.s = x.s /\ RoundsTo(f, mode, z.s, z.m, z.q, r)
  <2>1. x.m \in Nat /\ y.m \in Nat /\ x.m # 0 BY <1>15
  <2> QED BY <1>1, <1>15, <1>17, <2>1, ZeroAdded DEF z
<1>19. SumsTo(f, h, mode, z, S) BY <1>17, <1>18 DEF SumsTo, r
<1> QED BY <1>18, <1>19 DEF z, S

\* A number of the format rounds to itself.
LEMMA RoundsToItself ==
  ASSUME NEW f, NEW h, IsFormat(f, h), NEW mode, NEW u, Nonzero(f, h, u), NEW w
  PROVE  LET x == Ref(f, w)!Num(u)
         IN RoundsTo(f, mode, x.s, x.m, x.q, Rnd(f, h)!Exact(u))
<1> DEFINE s == Rnd(f, h)!sign(u)
           e == Rnd(f, h)!exp(u)
           m == Rnd(f, h)!frac(u)
           P == 2^f.F
           x == Ref(f, w)!Num(u)
           M == Ref(f, w)!MinExp
           B == Ref(f, w)!Bias
<1>1. IsPattern(f, u) /\ e # Rnd(f, h)!MaxExp /\ ~ Rnd(f, h)!isZero(u)
  BY DEF Nonzero, Finite
<1>2. /\ s \in {0, 1} /\ e \in 0 .. Rnd(f, h)!MaxExp /\ m \in 0 .. (P - 1)
      /\ u = s * Rnd(f, h)!SignBit + (e * P + m)
      /\ x = [s |-> s, m |-> IF e = 0 THEN m ELSE P + m,
              q |-> M + (IF e = 0 THEN 0 ELSE e - 1)]
      /\ ~ (e = 0 /\ m = 0)
  BY <1>1, Reads
<1>3. /\ B \in Nat \ {0} /\ Rnd(f, h)!MaxExp = 2 * B + 1 /\ M = 1 - B - f.F
      /\ f.F \in Nat \ {0} /\ Rnd(f, h)!SignBit \in Nat
  BY Exponents DEF IsFormat
<1>4. P \in Nat \ {0} /\ 2^(f.F + 1) = 2 * P
  <2>1. PICK n \in Nat \ {0} : n = f.F + 1 /\ n - 1 = f.F
    BY <1>3
  <2>2. 2^n = 2 * 2^(n - 1) /\ 2^(n - 1) \in Nat \ {0} BY Doubled
  <2> QED BY <2>1, <2>2
<1>5. x.m \in Nat \ {0} /\ x.m < 2 * P /\ (e = 0 => x.m < P) /\ (e # 0 => x.m >= P)
  BY <1>2, <1>4
<1>6. x.q \in Int /\ x.q >= M /\ (e = 0 => x.q = M) /\ x.q <= B - f.F /\ x.s = s
      /\ M \in Int /\ M < B - f.F + 1
  <2>1. x.s = s /\ x.q = M + (IF e = 0 THEN 0 ELSE e - 1) /\ e \in 0 .. (2 * B + 1) /\ e # 2 * B + 1
    BY <1>1, <1>2, <1>3
  <2> HIDE DEF x, M, B, e, s
  <2> QED BY <1>3, <2>1
<1>7. ASSUME NEW v \in Nat, x.m < 2^v
      PROVE  Ref(f, v)!Round(mode, [s |-> x.s, m |-> x.m, q |-> x.q]) = Rnd(f, h)!Exact(u)
  <2> DEFINE n == Ref(f, v)!BitLength(x.m) + x.q
             t == IF n - (f.F + 1) > Ref(f, v)!MinExp THEN n - (f.F + 1) ELSE Ref(f, v)!MinExp
             k == Ref(f, v)!RoundShift(mode, x.s, x.m, t - x.q)
             y == [s |-> x.s, m |-> x.m, q |-> x.q]
  <2>1. Ref(f, v)!MinExp = M /\ Ref(f, v)!Bias = B
    BY DEF Ref!MinExp, Ref!Bias
  <2>2. PICK l \in 1 .. v : HasBits(x.m, l, v)
    BY <1>5, <1>7, BitsExist
  <2>3. Ref(f, v)!BitLength(x.m) = l BY <2>2, BitLengthIs DEF HasBits
  <2>4. Bitlen(x.m, l) BY <2>2 DEF Bitlen, HasBits
  <2>5. (e = 0 => l <= f.F) /\ (e # 0 => l = f.F + 1)
    <3>1. x.m < 2^f.F <=> l <= f.F BY <1>3, <2>4, BitlenBelow
    <3>2. x.m < 2^(f.F + 1) <=> l <= f.F + 1
      <4>1. f.F + 1 \in Nat BY <1>3
      <4> QED BY <2>4, <4>1, BitlenBelow
    <3> HIDE DEF P, x, e
    <3>3. (x.m < P <=> l <= f.F) /\ l <= f.F + 1
      BY <1>4, <1>5, <3>1, <3>2 DEF P
    <3> QED BY <1>3, <1>4, <1>5, <3>3
  <2>6. t = x.q
    <3> HIDE DEF x, M, B, e
    <3>1. n = l + x.q BY <2>3
    <3> HIDE DEF n
    <3> QED BY <1>3, <1>6, <2>1, <2>5, <3>1
  <2>7. k = [k |-> x.m * 2^0, exact |-> TRUE]
    <3>1. t - x.q = 0
      <4> HIDE DEF t, x, M, B, e, s
      <4> QED BY <1>6, <2>6
    <3> HIDE DEF t, x
    <3>2. Ref(f, v)!RoundShift(mode, x.s, x.m, 0) = [k |-> x.m * 2^0, exact |-> TRUE]
      <4>1. PICK d \in Int : d = 0 /\ d <= 0 /\ - d = 0
        BY <3>1
      <4>2. Ref(f, v)!RoundShift(mode, x.s, x.m, d) = [k |-> x.m * 2^(- d), exact |-> TRUE]
        BY <4>1, Zenon DEF Ref!RoundShift
      <4> QED BY <4>1, <4>2
    <3> QED BY <3>1, <3>2
  <2>8. k = [k |-> x.m, exact |-> TRUE]
    <3>1. x.m \in Nat BY <1>5
    <3> HIDE DEF k, x
    <3>2. x.m * 2^0 = x.m BY <3>1, PowerZero
    <3> QED BY <2>7, <3>2
  <2>9. Ref(f, v)!Round(mode, y) = Outcome(f, v, mode, x.s, n, t, k)
    <3>1. ASSUME NEW Y
          PROVE  LET n_1 == Ref(f, v)!BitLength(Y.m) + Y.q
                     u_1 == IF n_1 - (f.F + 1) > Ref(f, v)!MinExp THEN n_1 - (f.F + 1)
                            ELSE Ref(f, v)!MinExp
                 IN Ref(f, v)!Round(mode, Y) =
                      Outcome(f, v, mode, Y.s, n_1, u_1,
                              Ref(f, v)!RoundShift(mode, Y.s, Y.m, u_1 - Y.q))
      BY Zenon DEF Ref!Round, Outcome
    <3>2. y.s = x.s /\ y.m = x.m /\ y.q = x.q OBVIOUS
    <3> HIDE DEF y, x
    <3> QED BY <3>1, <3>2, Zenon
  <2> HIDE DEF n, t, k, y, x
  <2>10. ~ (t > Ref(f, v)!Bias - f.F \/ (t = Ref(f, v)!Bias - f.F /\ k.k > 2^(f.F + 1) - 1))
    <3> HIDE DEF B, M, P
    <3> QED BY <1>3, <1>4, <1>5, <1>6, <2>1, <2>6, <2>8
  <2>11. Outcome(f, v, mode, x.s, n, t, k) =
           Ref(f, v)!Result(Ref(f, v)!Signed(x.s, (t - Ref(f, v)!MinExp) * 2^f.F + k.k), {})
    <3>1. k.exact = TRUE BY <2>8
    <3> QED BY <2>10, <3>1, Zenon DEF Outcome
  <2>12. (t - Ref(f, v)!MinExp) * 2^f.F + k.k = e * P + m
    <3>1. k.k = x.m BY <2>8
    <3>2. x.m = (IF e = 0 THEN m ELSE P + m) /\ x.q - M = (IF e = 0 THEN 0 ELSE e - 1)
      <4>1. x.q = M + (IF e = 0 THEN 0 ELSE e - 1) /\ x.m = (IF e = 0 THEN m ELSE P + m)
        BY <1>2 DEF x
      <4> HIDE DEF e, M, P, m
      <4> QED BY <1>2, <1>6, <4>1
    <3> HIDE DEF e, M, P, m
    <3>3. (t - Ref(f, v)!MinExp) * 2^f.F + k.k = (x.q - M) * P + x.m
      BY <2>1, <2>6, <3>1 DEF P
    <3>4. CASE e = 0 BY <1>2, <1>4, <3>2, <3>3, <3>4
    <3>5. CASE e # 0
      <4>1. (e - 1) * P + P = e * P /\ (e - 1) * P \in Int
        BY <1>2, <1>3, <1>4
      <4> QED BY <1>2, <1>4, <3>2, <3>3, <3>5, <4>1
    <3> QED BY <3>4, <3>5
  <2>13. Ref(f, v)!Signed(x.s, e * P + m) = u
    <3>1. Ref(f, v)!Sign = Rnd(f, h)!SignBit BY Exponents
    <3>2. Ref(f, v)!Signed(x.s, e * P + m) = IF x.s = 1 THEN e * P + m + Rnd(f, h)!SignBit ELSE e * P + m
      BY <3>1, Zenon DEF Ref!Signed
    <3> HIDE DEF e, m, P, s
    <3>3. e * P + m \in Int BY <1>2, <1>3, <1>4
    <3> QED BY <1>2, <1>3, <1>6, <3>2, <3>3
  <2>14. Ref(f, v)!Round(mode, y) = Ref(f, v)!Result(u, {})
    BY <2>9, <2>11, <2>12, <2>13
  <2> QED BY <2>14, Zenon DEF y, Ref!Result, Rnd!Exact
<1> HIDE DEF x
<1>8. RoundsTo(f, mode, x.s, x.m, x.q, Rnd(f, h)!Exact(u))
  BY <1>7, Zenon DEF RoundsTo
<1> QED BY <1>8 DEF x

----
\* NaNs, infinities and zeros

\* What patterns are, and the number of a finite one.
LEMMA Kinds ==
  ASSUME NEW f, NEW h, IsFormat(f, h), NEW u, IsPattern(f, u), NEW w
  PROVE  LET x == Ref(f, w)!Num(u)
         IN /\ Rnd(f, h)!isNaN(u) <=> Ref(f, w)!IsNaN(u)
            /\ Rnd(f, h)!isInf(u) <=> Ref(f, w)!IsInf(u)
            /\ Rnd(f, h)!isZero(u) <=> Ref(f, w)!IsZero(u)
            /\ Rnd(f, h)!isSigNaN(u) <=> Ref(f, w)!IsSignaling(u)
            /\ Rnd(f, h)!exp(u) = Rnd(f, h)!MaxExp <=> Rnd(f, h)!isNaN(u) \/ Rnd(f, h)!isInf(u)
            /\ ~ (Rnd(f, h)!isNaN(u) /\ Rnd(f, h)!isInf(u))
            /\ Rnd(f, h)!isZero(u) => Rnd(f, h)!exp(u) # Rnd(f, h)!MaxExp
            /\ x.s = Rnd(f, h)!sign(u) /\ x.s \in {0, 1} /\ x.m \in Nat /\ x.q \in Int
            /\ Rnd(f, h)!isZero(u) <=> x.m = 0
<1> DEFINE s == Rnd(f, h)!sign(u)
           e == Rnd(f, h)!exp(u)
           m == Rnd(f, h)!frac(u)
           P == 2^f.F
           M == Rnd(f, h)!MaxExp
           x == Ref(f, w)!Num(u)
           L == Ref(f, w)!MinExp
<1>1. /\ s \in {0, 1} /\ e \in 0 .. M /\ m \in 0 .. (P - 1)
      /\ x = [s |-> s, m |-> IF e = 0 THEN m ELSE P + m, q |-> L + (IF e = 0 THEN 0 ELSE e - 1)]
      /\ Rnd(f, h)!isNaN(u) <=> Ref(f, w)!IsNaN(u)
      /\ Rnd(f, h)!isInf(u) <=> Ref(f, w)!IsInf(u)
      /\ Rnd(f, h)!isZero(u) <=> Ref(f, w)!IsZero(u)
      /\ Rnd(f, h)!isSigNaN(u) <=> Ref(f, w)!IsSignaling(u)
      /\ Ref(f, w)!IsZero(u) <=> e = 0 /\ m = 0
  BY Reads
<1>2. M \in Nat \ {0} /\ L \in Int /\ P \in Nat \ {0}
  <2>1. f.F \in Nat /\ Ref(f, w)!Bias \in Nat \ {0} /\ M = 2 * Ref(f, w)!Bias + 1
        /\ L = 1 - Ref(f, w)!Bias - f.F
    BY Exponents DEF IsFormat
  <2>2. P \in Nat \ {0} BY <2>1, PowerOfTwo
  <2> HIDE DEF P, M, L
  <2> QED BY <2>1, <2>2
<1>3. (Rnd(f, h)!isNaN(u) <=> e = M /\ m # 0) /\ (Rnd(f, h)!isInf(u) <=> e = M /\ m = 0)
  BY DEF Rnd!isNaN, Rnd!isInf
<1> HIDE DEF s, e, m, P, M, L, x
<1>4. x.s = s /\ x.m \in Nat /\ x.q \in Int /\ (x.m = 0 <=> e = 0 /\ m = 0)
  BY <1>1, <1>2
<1> QED BY <1>1, <1>2, <1>3, <1>4 DEF s, e, m, P, M, L, x

\* NaN, infinity and zero are written alike.
LEMMA Specials ==
  ASSUME NEW f, NEW h, IsFormat(f, h), NEW w
  PROVE  /\ Rnd(f, h)!defaultNaN = Ref(f, w)!NaN
         /\ ~ Rnd(f, h)!isSigNaN(Rnd(f, h)!defaultNaN) /\ ~ Rnd(f, h)!isSigNaN(0)
         /\ \A s \in {0, 1} : /\ Rnd(f, h)!Exact(Rnd(f, h)!pack(s, Rnd(f, h)!MaxExp, 0)) = Ref(f, w)!Inf(s)
                              /\ Rnd(f, h)!Exact(Rnd(f, h)!pack(s, 0, 0)) = Ref(f, w)!Zero(s)
<1> DEFINE S == Rnd(f, h)!SignBit
           M == Rnd(f, h)!MaxExp
           P == 2^f.F
           N == Rnd(f, h)!defaultNaN
<1>1. /\ f.F \in Nat \ {0} /\ Ref(f, w)!Sign = S /\ S \in Nat /\ Ref(f, w)!Infinity = M * P
      /\ M \in Nat \ {0}
  <2>1. f.F \in Nat \ {0} BY DEF IsFormat
  <2>2. /\ Ref(f, w)!Bias \in Nat \ {0} /\ M = 2 * Ref(f, w)!Bias + 1
        /\ Ref(f, w)!Sign = S /\ Ref(f, w)!Sign \in Nat /\ Ref(f, w)!Infinity = M * P
    BY Exponents
  <2> HIDE DEF M, S, P
  <2> QED BY <2>1, <2>2
<1>2. N = 2 * S - 1 /\ Ref(f, w)!NaN = 2 * Ref(f, w)!Sign - 1
  BY Zenon DEF Rnd!defaultNaN, Ref!NaN
<1>3. P = 2 * 2^(f.F - 1) /\ 2^(f.F - 1) \in Nat \ {0} BY <1>1, Doubled
<1>4. S = (M + 1) * P
  <2>1. S = 2^f.E * P /\ M = 2^f.E - 1 /\ 2^f.E \in Nat
    <3>1. f.E \in Nat BY DEF IsFormat
    <3> QED BY <1>1, <3>1, PowersAdd, PowerOfTwo DEF Rnd!SignBit, Rnd!MaxExp
  <2> HIDE DEF S, M, P
  <2>2. M + 1 = 2^f.E BY <2>1
  <2> QED BY <2>1, <2>2
<1>5. Rnd(f, h)!frac(N) = P - 1
  <2> HIDE DEF S, M, P, N
  <2>1. PICK k \in Int : k = 2 * (M + 1) - 1
    BY <1>1
  <2>2. N = k * P + (P - 1) BY <1>1, <1>2, <1>3, <1>4, <2>1
  <2>3. P - 1 \in 0 .. (P - 1) /\ N \in Int /\ P \in Nat \ {0}
    BY <1>1, <1>2, <1>3
  <2>4. N % P = P - 1 BY <2>1, <2>2, <2>3, DivisionIs
  <2> QED BY <2>4, Zenon DEF Rnd!frac, P
<1>6. ~ Rnd(f, h)!isSigNaN(N)
  <2>1. ~ (P - 1 < 2^(f.F - 1))
    <3> HIDE DEF P
    <3> QED BY <1>3
  <2> QED BY <1>5, <2>1, Zenon DEF Rnd!isSigNaN
<1>7. ~ Rnd(f, h)!isSigNaN(0)
  <2> HIDE DEF P
  <2>1. 0 = 0 * P + 0 /\ P \in Nat \ {0} /\ 0 \in 0 .. (P - 1) BY <1>3
  <2>2. 0 % P = 0 BY <2>1, DivisionIs
  <2>3. Rnd(f, h)!frac(0) = 0 BY <2>2, Zenon DEF Rnd!frac, P
  <2> QED BY <2>3, Zenon DEF Rnd!isSigNaN, Rnd!isNaN
<1>8. ASSUME NEW s \in {0, 1}, NEW e \in {0, M}
      PROVE  Rnd(f, h)!Exact(Rnd(f, h)!pack(s, e, 0)) = Ref(f, w)!Result(Ref(f, w)!Signed(s, e * P), {})
  <2> HIDE DEF S, M, P
  <2>1. Rnd(f, h)!pack(s, e, 0) = s * S + e * P + 0
    BY Zenon DEF Rnd!pack, S, P
  <2>2. Ref(f, w)!Signed(s, e * P) = IF s = 1 THEN e * P + S ELSE e * P
    BY <1>1, Zenon DEF Ref!Signed
  <2>3. e * P \in Int BY <1>1, <1>3
  <2>4. s * S + e * P + 0 = IF s = 1 THEN e * P + S ELSE e * P BY <1>1, <2>3
  <2>5. Rnd(f, h)!pack(s, e, 0) = Ref(f, w)!Signed(s, e * P)
    BY <2>1, <2>2, <2>4
  <2> QED BY <2>5, Zenon DEF Rnd!Exact, Ref!Result
<1>9. 0 * P = 0
  <2> HIDE DEF P
  <2> QED BY <1>3
<1>10. ASSUME NEW s \in {0, 1}
       PROVE  /\ Rnd(f, h)!Exact(Rnd(f, h)!pack(s, M, 0)) = Ref(f, w)!Inf(s)
              /\ Rnd(f, h)!Exact(Rnd(f, h)!pack(s, 0, 0)) = Ref(f, w)!Zero(s)
  <2>1. Ref(f, w)!Inf(s) = Ref(f, w)!Result(Ref(f, w)!Signed(s, M * P), {})
    BY <1>1, Zenon DEF Ref!Inf
  <2>2. Ref(f, w)!Zero(s) = Ref(f, w)!Result(Ref(f, w)!Signed(s, 0), {})
    BY Zenon DEF Ref!Zero
  <2> QED BY <1>8, <1>9, <2>1, <2>2
<1> QED BY <1>1, <1>2, <1>6, <1>7, <1>10

\* Infinities and zeros are their own patterns.
LEMMA SpecialPatterns ==
  ASSUME NEW f, NEW h, IsFormat(f, h), NEW u, IsPattern(f, u), NEW w
  PROVE  /\ Rnd(f, h)!isInf(u) => Rnd(f, h)!Exact(u) = Ref(f, w)!Inf(Ref(f, w)!Num(u).s)
         /\ Rnd(f, h)!isZero(u) => Rnd(f, h)!Exact(u) = Ref(f, w)!Zero(Ref(f, w)!Num(u).s)
<1> DEFINE s == Rnd(f, h)!sign(u)
           e == Rnd(f, h)!exp(u)
           m == Rnd(f, h)!frac(u)
<1>1. /\ s \in {0, 1} /\ u = s * Rnd(f, h)!SignBit + (e * 2^f.F + m)
      /\ e \in 0 .. Rnd(f, h)!MaxExp /\ m \in 0 .. (2^f.F - 1)
      /\ Rnd(f, h)!isZero(u) <=> e = 0 /\ m = 0
  BY Reads
<1>2. Ref(f, w)!Num(u).s = s BY Kinds
<1>3. Rnd(f, h)!isInf(u) <=> e = Rnd(f, h)!MaxExp /\ m = 0 BY DEF Rnd!isInf
<1>4. Rnd(f, h)!pack(s, e, m) = s * Rnd(f, h)!SignBit + e * 2^f.F + m
  BY Zenon DEF Rnd!pack
<1>5. Rnd(f, h)!SignBit \in Nat /\ 2^f.F \in Nat
  <2>1. f.F \in Nat /\ Ref(f, w)!Sign = Rnd(f, h)!SignBit /\ Ref(f, w)!Sign \in Nat
    BY Exponents DEF IsFormat
  <2> QED BY <2>1, PowerOfTwo
<1> HIDE DEF s, e, m
<1>6. u = Rnd(f, h)!pack(s, e, m)
  <2>1. e * 2^f.F \in Int /\ s * Rnd(f, h)!SignBit \in Int BY <1>1, <1>5
  <2> QED BY <1>1, <1>4, <1>5, <2>1
<1> QED BY <1>1, <1>2, <1>3, <1>6, Specials

\* The flags of a result joined with others.
LEMMA FlagsJoined ==
  ASSUME NEW N, NEW A, NEW B, NEW r, r = [z |-> N, flags |-> A]
  PROVE  [r EXCEPT !.flags = @ \cup B] = [z |-> N, flags |-> A \cup B]
OBVIOUS

\* The result of one NaN operand or of an invalid operation, joined with
\* that of the addend.
LEMMA NaNResults ==
  ASSUME NEW f, NEW h, IsFormat(f, h), NEW a, NEW b, NEW c,
         IsPattern(f, a), IsPattern(f, b), IsPattern(f, c), NEW w
  PROVE  /\ Joined(f, h, c, Rnd(f, h)!propagateNaN(a, b)) = Ref(f, w)!QuietNaN({a, b, c})
         /\ Joined(f, h, c, Rnd(f, h)!Invalid) = Ref(f, w)!InvalidOp
         /\ Rnd(f, h)!propagateNaN(0, c) = Ref(f, w)!QuietNaN({c})
         /\ Rnd(f, h)!Invalid = Ref(f, w)!InvalidOp
<1> DEFINE N == Rnd(f, h)!defaultNaN
           Signals(u) == Rnd(f, h)!isSigNaN(u)
           P(u, v) == Rnd(f, h)!propagateNaN(u, v)
           R(flags) == [z |-> N, flags |-> flags]
           I == {"invalid"}
<1>1. N = Ref(f, w)!NaN /\ ~ Signals(N) /\ ~ Signals(0) BY Specials
<1>2. /\ Signals(a) <=> Ref(f, w)!IsSignaling(a)
      /\ Signals(b) <=> Ref(f, w)!IsSignaling(b)
      /\ Signals(c) <=> Ref(f, w)!IsSignaling(c)
  BY Kinds
<1>3. \A u, v : P(u, v) = R(IF Signals(u) \/ Signals(v) THEN I ELSE {})
  BY Zenon DEF Rnd!propagateNaN
<1>4. Rnd(f, h)!Invalid = R(I) BY Zenon DEF Rnd!Invalid
<1>5. Ref(f, w)!InvalidOp = R(I)
  BY <1>1, Zenon DEF Ref!InvalidOp, Ref!Result
<1>6. \A A : Ref(f, w)!QuietNaN(A) = R(IF \E u \in A : Ref(f, w)!IsSignaling(u) THEN I ELSE {})
  BY <1>1, Zenon DEF Ref!QuietNaN, Ref!Result
<1>7. Ref(f, w)!QuietNaN({a, b, c}) = R(IF Signals(a) \/ Signals(b) \/ Signals(c) THEN I ELSE {})
  <2>1. (\E u \in {a, b, c} : Ref(f, w)!IsSignaling(u)) <=> Signals(a) \/ Signals(b) \/ Signals(c)
    BY <1>2
  <2> QED BY <1>6, <2>1
<1>8. Ref(f, w)!QuietNaN({c}) = R(IF Signals(c) THEN I ELSE {})
  <2>1. (\E u \in {c} : Ref(f, w)!IsSignaling(u)) <=> Signals(c) BY <1>2
  <2> QED BY <1>6, <2>1
<1>9. P(N, c) = R(IF Signals(c) THEN I ELSE {}) /\ P(0, c) = R(IF Signals(c) THEN I ELSE {})
      /\ P(a, b) = R(IF Signals(a) \/ Signals(b) THEN I ELSE {})
  BY <1>1, <1>3
<1>10. ASSUME NEW A, NEW B, NEW i, i = R(A), NEW j, j = R(B)
       PROVE  [i EXCEPT !.flags = @ \cup j.flags] = R(A \cup B)
  <2>1. j.flags = B BY <1>10
  <2> DEFINE F == j.flags
  <2>2. [i EXCEPT !.flags = @ \cup F] = [z |-> N, flags |-> A \cup F]
    <3> HIDE DEF N, F
    <3> QED BY <1>10, FlagsJoined
  <2> QED BY <2>1, <2>2
<1>11. ASSUME NEW B PROVE R(B).z = N OBVIOUS
<1>12. [P(R(I).z, c) EXCEPT !.flags = @ \cup R(I).flags] = R(I)
  <2>1. (IF Signals(c) THEN I ELSE {}) \cup I = I OBVIOUS
  <2> HIDE DEF R, P, Signals, I
  <2>2. [P(N, c) EXCEPT !.flags = @ \cup R(I).flags] = R((IF Signals(c) THEN I ELSE {}) \cup I)
    BY <1>9, <1>10
  <2> QED BY <1>11, <2>1, <2>2
<1>13. [P(P(a, b).z, c) EXCEPT !.flags = @ \cup P(a, b).flags] =
         R(IF Signals(a) \/ Signals(b) \/ Signals(c) THEN I ELSE {})
  <2>1. (IF Signals(c) THEN I ELSE {}) \cup (IF Signals(a) \/ Signals(b) THEN I ELSE {}) =
          (IF Signals(a) \/ Signals(b) \/ Signals(c) THEN I ELSE {})
    OBVIOUS
  <2> HIDE DEF R, P, Signals, I
  <2>2. [P(N, c) EXCEPT !.flags = @ \cup P(a, b).flags] =
          R((IF Signals(c) THEN I ELSE {}) \cup (IF Signals(a) \/ Signals(b) THEN I ELSE {}))
    BY <1>9, <1>10
  <2>3. P(a, b).z = N BY <1>9, <1>11
  <2> QED BY <2>1, <2>2, <2>3
<1>14. \A i : Joined(f, h, c, i) = [P(i.z, c) EXCEPT !.flags = @ \cup i.flags]
  BY Zenon DEF Joined
<1> HIDE DEF R, P, Signals
<1> QED BY <1>4, <1>5, <1>7, <1>8, <1>9, <1>12, <1>13, <1>14 DEF P

\* Zeros sum to zero.
LEMMA ZerosAdd ==
  ASSUME NEW f, NEW w, NEW x, NEW y, x.q \in Int, y.q \in Int, x.m = 0, y.m = 0,
         x.s \in {0, 1}, y.s \in {0, 1}
  PROVE  Ref(f, w)!ExactSum(x, y).m = 0
<1> DEFINE q == IF x.q < y.q THEN x.q ELSE y.q
           a == x.m * 2^(x.q - q)
           b == y.m * 2^(y.q - q)
           c == Ref(f, w)!SignedNumber(x.s, a) + Ref(f, w)!SignedNumber(y.s, b)
<1>1. PICK i, j \in Nat : i = x.q - q /\ j = y.q - q
  <2>1. x.q - q \in Nat /\ y.q - q \in Nat OBVIOUS
  <2> QED BY <2>1
<1>2. 2^i \in Nat /\ 2^j \in Nat BY PowerOfTwo
<1> HIDE DEF q
<1>3. a = 0 /\ b = 0 BY <1>1, <1>2
<1> HIDE DEF a, b
<1>4. c = (IF x.s = 1 THEN - a ELSE a) + (IF y.s = 1 THEN - b ELSE b)
  BY Zenon DEF Ref!SignedNumber
<1>5. Ref(f, w)!ExactSum(x, y) = [s |-> IF c < 0 THEN 1 ELSE 0, m |-> IF c < 0 THEN - c ELSE c, q |-> q]
  BY Zenon DEF Ref!ExactSum, q, a, b
<1> HIDE DEF c
<1>6. c = 0 BY <1>3, <1>4
<1> QED BY <1>5, <1>6

\* Of every pattern, infinity, NaN and zero included, and in every mode,
\* softfloat_mulAddF32 makes what IEEE 754 asks of a * b + c rounded once:
\* the product and the jammed smaller term round like the exact sum, z,
\* however far apart they are and however much cancels.
THEOREM MulAddIsIeee ==
  ASSUME NEW f, NEW h, IsSingle(f, h), NEW mode \in RoundingModes,
         NEW a, NEW b, NEW c, IsPattern(f, a), IsPattern(f, b), IsPattern(f, c),
         NEW w \in Nat, NEW z,
         Finite(f, h, a) /\ Finite(f, h, b) /\ Finite(f, h, c) =>
           /\ z = Ref(f, w)!ExactSum(Ref(f, w)!ExactProduct(Ref(f, w)!Num(a), Ref(f, w)!Num(b)),
                                     Ref(f, w)!Num(c))
           /\ z.m < 2^w
  PROVE  Rnd(f, h)!softfloat_mulAddF32(mode, a, b, c) = Ref(f, w)!Fused(mode, a, b, c, z)
<1> DEFINE X == Rnd(f, h)!product(Rnd(f, h)!factors(a, b))
           C == Rnd(f, h)!addend(c)
           s == Rnd(f, h)!signProd(a, b)
           S == Rnd(f, h)!sumF32(s, X, Rnd(f, h)!sign(c), C)
           x == Ref(f, w)!Num(a)
           y == Ref(f, w)!Num(b)
           v == Ref(f, w)!Num(c)
           p == Ref(f, w)!ExactProduct(x, y)
           PN(i, j) == Rnd(f, h)!propagateNaN(i, j)
           And(i) == Joined(f, h, c, i)
           zero == Rnd(f, h)!Exact(Rnd(f, h)!pack(Rnd(f, h)!Bit(mode = "min"), 0, 0))
           NaN(u) == Rnd(f, h)!isNaN(u)
           Inf(u) == Rnd(f, h)!isInf(u)
           Zero(u) == Rnd(f, h)!isZero(u)
           Top(u) == Rnd(f, h)!exp(u) = Rnd(f, h)!MaxExp
           l == Rnd(f, h)!softfloat_mulAddF32(mode, a, b, c)
           r == Ref(f, w)!Fused(mode, a, b, c, z)
<1>1. IsFormat(f, h) BY SingleIs
<1>2. /\ NaN(a) <=> Ref(f, w)!IsNaN(a)
      /\ Inf(a) <=> Ref(f, w)!IsInf(a)
      /\ Zero(a) <=> Ref(f, w)!IsZero(a)
      /\ Top(a) <=> NaN(a) \/ Inf(a)
      /\ ~ (NaN(a) /\ Inf(a)) /\ (Zero(a) => ~ Top(a))
      /\ x.s = Rnd(f, h)!sign(a) /\ x.s \in {0, 1} /\ x.m \in Nat /\ x.q \in Int /\ (Zero(a) <=> x.m = 0)
  BY <1>1, Kinds
<1>3. /\ NaN(b) <=> Ref(f, w)!IsNaN(b)
      /\ Inf(b) <=> Ref(f, w)!IsInf(b)
      /\ Zero(b) <=> Ref(f, w)!IsZero(b)
      /\ Top(b) <=> NaN(b) \/ Inf(b)
      /\ ~ (NaN(b) /\ Inf(b)) /\ (Zero(b) => ~ Top(b))
      /\ y.s = Rnd(f, h)!sign(b) /\ y.s \in {0, 1} /\ y.m \in Nat /\ y.q \in Int /\ (Zero(b) <=> y.m = 0)
  BY <1>1, Kinds
<1>4. /\ NaN(c) <=> Ref(f, w)!IsNaN(c)
      /\ Inf(c) <=> Ref(f, w)!IsInf(c)
      /\ Zero(c) <=> Ref(f, w)!IsZero(c)
      /\ Top(c) <=> NaN(c) \/ Inf(c)
      /\ ~ (NaN(c) /\ Inf(c)) /\ (Zero(c) => ~ Top(c))
      /\ v.s = Rnd(f, h)!sign(c) /\ v.s \in {0, 1} /\ v.m \in Nat /\ v.q \in Int /\ (Zero(c) <=> v.m = 0)
  BY <1>1, Kinds
<1>5. /\ And(PN(a, b)) = Ref(f, w)!QuietNaN({a, b, c})
      /\ And(Rnd(f, h)!Invalid) = Ref(f, w)!InvalidOp
      /\ PN(0, c) = Ref(f, w)!QuietNaN({c})
      /\ Rnd(f, h)!Invalid = Ref(f, w)!InvalidOp
  BY <1>1, NaNResults
<1>6. p.s = s /\ p.s \in {0, 1} /\ p.m = x.m * y.m /\ p.m \in Nat /\ p.q \in Int
  <2>1. p = [s |-> (x.s + y.s) % 2, m |-> x.m * y.m, q |-> x.q + y.q]
    BY Zenon DEF Ref!ExactProduct
  <2>2. s = (Rnd(f, h)!sign(a) + Rnd(f, h)!sign(b)) % 2
    BY Zenon DEF Rnd!signProd
  <2> HIDE DEF p, s, x, y
  <2>3. p.s = (x.s + y.s) % 2 /\ p.m = x.m * y.m /\ p.q = x.q + y.q BY <2>1
  <2>4. s = (x.s + y.s) % 2 /\ (x.s + y.s) % 2 \in {0, 1}
    BY <1>2, <1>3, <2>2
  <2>5. x.m * y.m \in Nat /\ x.q + y.q \in Int BY <1>2, <1>3
  <2> QED BY <2>3, <2>4, <2>5
<1>7. /\ Rnd(f, h)!Exact(Rnd(f, h)!pack(s, Rnd(f, h)!MaxExp, 0)) = Ref(f, w)!Inf(p.s)
      /\ zero = Ref(f, w)!Zero(IF mode = "min" THEN 1 ELSE 0)
      /\ Inf(c) => Rnd(f, h)!Exact(c) = Ref(f, w)!Inf(v.s)
      /\ Zero(c) => Rnd(f, h)!Exact(c) = Ref(f, w)!Zero(v.s)
  <2>1. Rnd(f, h)!Bit(mode = "min") = (IF mode = "min" THEN 1 ELSE 0)
    BY Zenon DEF Rnd!Bit
  <2> DEFINE i == IF mode = "min" THEN 1 ELSE 0
  <2>2. i \in {0, 1} OBVIOUS
  <2> HIDE DEF i
  <2>3. Rnd(f, h)!Exact(Rnd(f, h)!pack(i, 0, 0)) = Ref(f, w)!Zero(i)
    BY <1>1, <2>2, Specials
  <2>4. zero = Ref(f, w)!Zero(i) BY <2>1, <2>3 DEF i
  <2>5. Rnd(f, h)!Exact(Rnd(f, h)!pack(s, Rnd(f, h)!MaxExp, 0)) = Ref(f, w)!Inf(p.s)
    BY <1>1, <1>6, Specials
  <2> QED BY <1>1, <2>4, <2>5, SpecialPatterns DEF i
<1>8. l = Rnd(f, h)!mulAdd(mode, a, b, c, S)
  BY Zenon DEF Rnd!softfloat_mulAddF32
<1>9. /\ NaN(a) \/ NaN(b) => l = And(PN(a, b))
      /\ (Inf(a) \/ Inf(b)) /\ (Zero(a) \/ Zero(b)) /\ ~ NaN(a) /\ ~ NaN(b) => l = And(Rnd(f, h)!Invalid)
      /\ (Inf(a) \/ Inf(b)) /\ ~ Zero(a) /\ ~ Zero(b) /\ ~ NaN(a) /\ ~ NaN(b) =>
           l = IF NaN(c) THEN PN(0, c)
               ELSE IF Inf(c) /\ Rnd(f, h)!sign(c) # s THEN Rnd(f, h)!Invalid
               ELSE Rnd(f, h)!Exact(Rnd(f, h)!pack(s, Rnd(f, h)!MaxExp, 0))
      /\ ~ Top(a) /\ ~ Top(b) /\ Top(c) => l = IF NaN(c) THEN PN(0, c) ELSE Rnd(f, h)!Exact(c)
      /\ ~ Top(a) /\ ~ Top(b) /\ ~ Top(c) /\ (Zero(a) \/ Zero(b)) =>
           l = IF Zero(c) /\ Rnd(f, h)!sign(c) # s THEN zero ELSE Rnd(f, h)!Exact(c)
      /\ ~ Top(a) /\ ~ Top(b) /\ ~ Top(c) /\ ~ Zero(a) /\ ~ Zero(b) =>
           l = IF S.sig = 0 THEN zero ELSE Rnd(f, h)!roundPack(mode, S.sign, S.exp, S.sig)
  <2> HIDE DEF S
  <2>1. l = CASE NaN(a) \/ NaN(b) -> And(PN(a, b))
              [] (Inf(a) \/ Inf(b)) /\ (Zero(a) \/ Zero(b)) -> And(Rnd(f, h)!Invalid)
              [] (Inf(a) \/ Inf(b)) /\ ~ Zero(a) /\ ~ Zero(b) /\ ~ NaN(a) /\ ~ NaN(b) ->
                   IF NaN(c) THEN PN(0, c)
                   ELSE IF Inf(c) /\ Rnd(f, h)!sign(c) # s THEN Rnd(f, h)!Invalid
                   ELSE Rnd(f, h)!Exact(Rnd(f, h)!pack(s, Rnd(f, h)!MaxExp, 0))
              [] ~ Top(a) /\ ~ Top(b) /\ Top(c) -> IF NaN(c) THEN PN(0, c) ELSE Rnd(f, h)!Exact(c)
              [] ~ Top(a) /\ ~ Top(b) /\ ~ Top(c) /\ (Zero(a) \/ Zero(b)) ->
                   IF Zero(c) /\ Rnd(f, h)!sign(c) # s THEN zero ELSE Rnd(f, h)!Exact(c)
              [] OTHER -> IF S.sig = 0 THEN zero ELSE Rnd(f, h)!roundPack(mode, S.sign, S.exp, S.sig)
    BY <1>8, Zenon DEF Rnd!mulAdd, Joined
  <2> HIDE DEF NaN, Inf, Zero, Top, s, zero, And, PN, l
  <2> QED BY <1>2, <1>3, <2>1
<1>10. /\ NaN(a) \/ NaN(b) => r = Ref(f, w)!QuietNaN({a, b, c})
       /\ ~ NaN(a) /\ ~ NaN(b) /\ ((Inf(a) /\ Zero(b)) \/ (Zero(a) /\ Inf(b))) => r = Ref(f, w)!InvalidOp
       /\ ~ NaN(a) /\ ~ NaN(b) /\ ~ ((Inf(a) /\ Zero(b)) \/ (Zero(a) /\ Inf(b))) =>
            r = IF NaN(c) THEN Ref(f, w)!QuietNaN({c})
                ELSE IF Inf(a) \/ Inf(b)
                THEN IF Inf(c) /\ v.s # p.s THEN Ref(f, w)!InvalidOp ELSE Ref(f, w)!Inf(p.s)
                ELSE IF Inf(c) THEN Ref(f, w)!Inf(v.s)
                ELSE Ref(f, w)!SumRounded(mode, p, v, z)
  BY <1>2, <1>3, <1>4 DEF Ref!Fused
<1>11. Ref(f, w)!SumRounded(mode, p, v, z) =
         IF z.m # 0 THEN Ref(f, w)!Round(mode, z)
         ELSE Ref(f, w)!Zero(IF p.s = v.s THEN p.s ELSE IF mode = "min" THEN 1 ELSE 0)
  BY Zenon DEF Ref!SumRounded
<1>12. ASSUME ~ Top(a), ~ Top(b), ~ Top(c)
       PROVE  z = Ref(f, w)!ExactSum(p, v) /\ z.m < 2^w
  <2>1. Finite(f, h, a) /\ Finite(f, h, b) /\ Finite(f, h, c)
    BY <1>12, Zenon DEF Finite
  <2> QED BY <2>1
<1>13. ASSUME NEW R, RoundsTo(f, mode, z.s, z.m, z.q, R), z = Ref(f, w)!ExactSum(p, v), z.m < 2^w
       PROVE  Ref(f, w)!Round(mode, z) = R
  <2>1. z = [s |-> z.s, m |-> z.m, q |-> z.q]
    <3> HIDE DEF p, v
    <3>1. PICK i, j, k : z = [s |-> i, m |-> j, q |-> k]
      BY <1>13, Zenon DEF Ref!ExactSum
    <3> QED BY <3>1
  <2>2. Ref(f, w)!Round(mode, [s |-> z.s, m |-> z.m, q |-> z.q]) = R
    BY <1>13, Zenon DEF RoundsTo
  <2> QED BY <2>1, <2>2
<1>14. CASE NaN(a) \/ NaN(b)
  <2> HIDE DEF NaN, Inf, Zero, Top, s, zero, And, PN, l, r, p, v, x, y
  <2>1. l = And(PN(a, b)) /\ r = Ref(f, w)!QuietNaN({a, b, c})
    BY <1>9, <1>10, <1>14
  <2> QED BY <1>5, <2>1 DEF l, r
<1>15. CASE ~ NaN(a) /\ ~ NaN(b) /\ (Inf(a) \/ Inf(b))
  <2> HIDE DEF NaN, Inf, Zero, Top, s, zero, And, PN, l, r, p, v, x, y
  <2>1. CASE Zero(a) \/ Zero(b)
    <3>1. l = Ref(f, w)!InvalidOp BY <1>5, <1>9, <1>15, <2>1
    <3>2. r = Ref(f, w)!InvalidOp BY <1>2, <1>3, <1>10, <1>15, <2>1
    <3> QED BY <3>1, <3>2 DEF l, r
  <2>2. CASE ~ Zero(a) /\ ~ Zero(b)
    <3>1. l = IF NaN(c) THEN PN(0, c)
               ELSE IF Inf(c) /\ Rnd(f, h)!sign(c) # s THEN Rnd(f, h)!Invalid
               ELSE Rnd(f, h)!Exact(Rnd(f, h)!pack(s, Rnd(f, h)!MaxExp, 0))
      BY <1>9, <1>15, <2>2
    <3>2. r = IF NaN(c) THEN Ref(f, w)!QuietNaN({c})
              ELSE IF Inf(c) /\ v.s # p.s THEN Ref(f, w)!InvalidOp ELSE Ref(f, w)!Inf(p.s)
      BY <1>10, <1>15, <2>2
    <3> QED BY <1>4, <1>5, <1>6, <1>7, <3>1, <3>2 DEF l, r
  <2> QED BY <2>1, <2>2
<1>16. CASE ~ Top(a) /\ ~ Top(b) /\ Top(c)
  <2> HIDE DEF NaN, Inf, Zero, Top, s, zero, And, PN, l, r, p, v, x, y
  <2>1. l = IF NaN(c) THEN PN(0, c) ELSE Rnd(f, h)!Exact(c) BY <1>9, <1>16
  <2>2. r = IF NaN(c) THEN Ref(f, w)!QuietNaN({c}) ELSE Ref(f, w)!Inf(v.s)
    <3>1. ~ NaN(a) /\ ~ NaN(b) /\ ~ Inf(a) /\ ~ Inf(b) BY <1>2, <1>3, <1>16
    <3>2. NaN(c) \/ Inf(c) BY <1>4, <1>16
    <3> QED BY <1>10, <3>1, <3>2
  <2>3. ~ NaN(c) => Rnd(f, h)!Exact(c) = Ref(f, w)!Inf(v.s)
    BY <1>4, <1>7, <1>16
  <2> QED BY <1>5, <2>1, <2>2, <2>3 DEF l, r
<1>17. CASE ~ Top(a) /\ ~ Top(b) /\ ~ Top(c)
  <2>1. z = Ref(f, w)!ExactSum(p, v) /\ z.m < 2^w BY <1>12, <1>17
  <2>2. r = IF z.m # 0 THEN Ref(f, w)!Round(mode, z)
            ELSE Ref(f, w)!Zero(IF p.s = v.s THEN p.s ELSE IF mode = "min" THEN 1 ELSE 0)
    <3> HIDE DEF NaN, Inf, Zero, Top, s, zero, And, PN, l, r, p, v, x, y
    <3> QED BY <1>2, <1>3, <1>4, <1>10, <1>11, <1>17
  <2>3. /\ ~ Zero(a) => Nonzero(f, h, a)
        /\ ~ Zero(b) => Nonzero(f, h, b)
        /\ ~ Zero(c) => Nonzero(f, h, c)
    BY <1>17 DEF Nonzero, Finite
  <2>4. CASE (Zero(a) \/ Zero(b)) /\ Zero(c)
    <3>1. p.m = 0 /\ v.m = 0
      <4> HIDE DEF p, x, y, v, Zero
      <4> QED BY <1>2, <1>3, <1>4, <1>6, <2>4
    <3>2. z.m = 0
      <4>1. Ref(f, w)!ExactSum(p, v).m = 0 BY <1>4, <1>6, <3>1, ZerosAdd
      <4> QED BY <2>1, <4>1
    <3> HIDE DEF NaN, Inf, Zero, Top, s, zero, And, PN, l, r, p, v, x, y
    <3> QED BY <1>4, <1>6, <1>7, <1>9, <1>17, <2>2, <2>4, <3>2 DEF l, r
  <2>5. CASE (Zero(a) \/ Zero(b)) /\ ~ Zero(c)
    <3>1. p.m = 0 /\ v.m # 0
      <4> HIDE DEF p, x, y, v, Zero
      <4> QED BY <1>2, <1>3, <1>4, <1>6, <2>5
    <3>2. RoundsTo(f, mode, v.s, v.m, v.q, Rnd(f, h)!Exact(c))
      BY <1>1, <2>3, <2>5, RoundsToItself
    <3>3. z.m # 0 /\ RoundsTo(f, mode, z.s, z.m, z.q, Rnd(f, h)!Exact(c))
      <4> HIDE DEF p, x, y, v
      <4>1. z.m # 0 /\ RoundsTo(f, mode, z.s, z.m, z.q, Rnd(f, h)!Exact(c))
        <5>1. (v = p /\ v.m = 0) \/ (v = v /\ p.m = 0) BY <3>1
        <5>2. LET u == Ref(f, w)!ExactSum(p, v)
              IN u.m \in Nat \ {0} /\ u.s = v.s
                 /\ RoundsTo(f, mode, u.s, u.m, u.q, Rnd(f, h)!Exact(c))
          BY <1>1, <1>4, <1>6, <3>1, <3>2, <5>1, ZeroAdded
        <5> QED BY <2>1, <5>2
      <4> QED BY <4>1
    <3>4. Ref(f, w)!Round(mode, z) = Rnd(f, h)!Exact(c) BY <1>13, <2>1, <3>3
    <3> HIDE DEF NaN, Inf, Zero, Top, s, zero, And, PN, l, r, p, v, x, y
    <3> QED BY <1>9, <1>17, <2>2, <2>5, <3>3, <3>4 DEF l, r
  <2>6. CASE ~ Zero(a) /\ ~ Zero(b)
    <3>1. Term(f, h, w, p, X.sig, X.exp) BY <2>3, <2>6, ProductTerm
    <3>2. s = p.s /\ Rnd(f, h)!sign(c) = v.s /\ p.s \in {0, 1} /\ v.s \in {0, 1}
          /\ v.m \in Nat /\ v.q \in Int /\ (Zero(c) <=> v.m = 0)
      BY <1>4, <1>6
    <3>3. SumsTo(f, h, mode, Ref(f, w)!ExactSum(p, v), S)
          /\ (Ref(f, w)!ExactSum(p, v).m = 0 => p.s # v.s)
      <4>1. S = Rnd(f, h)!sumF32(p.s, X, v.s, C) BY <3>2
      <4>2. CASE Zero(c)
        <5>1. C.sig = 0 BY <4>2 DEF Rnd!addend
        <5> HIDE DEF p, v, X, C, S
        <5> QED BY <3>1, <3>2, <4>1, <4>2, <5>1, TermAlone
      <4>3. CASE ~ Zero(c)
        <5> DEFINE t == C.sig * 2^(f.G - 1)
        <5>1. C.sig # 0 /\ Bitlen(t, h - 2) /\ t % 2 = 0 /\ Term(f, h, w, v, t * 2^h, C.exp)
          BY <2>3, <4>3, AddendTerm
        <5> HIDE DEF p, v, X, C, S
        <5>2. t = C.sig * 2^(f.G - 1) OBVIOUS
        <5> HIDE DEF t
        <5> QED BY <3>1, <3>2, <4>1, <5>1, <5>2, TermsSum
      <4> QED BY <4>2, <4>3
    <3>4. /\ S.sig = 0 <=> z.m = 0
          /\ S.sig # 0 => RoundsTo(f, mode, z.s, z.m, z.q,
                                   Rnd(f, h)!roundPack(mode, S.sign, S.exp, S.sig))
          /\ z.m = 0 => p.s # v.s
      <4> HIDE DEF p, v, S
      <4> QED BY <2>1, <3>3 DEF SumsTo
    <3>5. S.sig # 0 => Ref(f, w)!Round(mode, z) = Rnd(f, h)!roundPack(mode, S.sign, S.exp, S.sig)
      <4> HIDE DEF p, v, S
      <4> QED BY <1>13, <2>1, <3>4
    <3> HIDE DEF NaN, Inf, Zero, Top, s, zero, And, PN, l, r, p, v, x, y, S
    <3> QED BY <1>7, <1>9, <1>17, <2>2, <2>6, <3>4, <3>5 DEF l, r
  <2> QED BY <2>4, <2>5, <2>6
<1> QED
  <2>1. \/ NaN(a) \/ NaN(b)
        \/ ~ NaN(a) /\ ~ NaN(b) /\ (Inf(a) \/ Inf(b))
        \/ ~ Top(a) /\ ~ Top(b) /\ Top(c)
        \/ ~ Top(a) /\ ~ Top(b) /\ ~ Top(c)
    <3> HIDE DEF NaN, Inf, Zero, Top
    <3> QED BY <1>2, <1>3
  <2> QED BY <1>14, <1>15, <1>16, <1>17, <2>1, Zenon

----
\* Addition and multiplication

\* The pattern of one, which the additions multiply by.
LEMMA OneIs ==
  ASSUME NEW f, NEW h, IsFormat(f, h), NEW w
  PROVE  LET u == Rnd(f, h)!One
         IN /\ Nonzero(f, h, u)
            /\ Ref(f, w)!Num(u) = [s |-> 0, m |-> 2^f.F, q |-> - f.F]
<1> DEFINE u == Rnd(f, h)!One
           B == Ref(f, w)!Bias
           P == 2^f.F
           D == 2^f.E
           S == Bits(f)!SignBit
<1>1. B \in Nat \ {0} /\ Rnd(f, h)!MaxExp = 2 * B + 1 /\ Ref(f, w)!MinExp = 1 - B - f.F
  BY Exponents
<1>2. f.F \in Nat \ {0} /\ f.E \in Nat /\ P \in Nat \ {0} /\ D \in Nat \ {0} /\ S = D * P
  BY PowerOfTwo, PowersAdd DEF IsFormat, Bits!SignBit
<1>3. D = 2 * B + 2
  <2>1. Rnd(f, h)!MaxExp = D - 1 BY DEF Rnd!MaxExp
  <2> HIDE DEF D, B
  <2> QED BY <1>1, <1>2, <2>1
<1>4. u = B * P
  <2>1. Rnd(f, h)!Bias = B BY DEF Rnd!Bias, Ref!Bias
  <2>2. u = 0 * Rnd(f, h)!SignBit + B * P + 0
    BY <2>1, Zenon DEF Rnd!One, Rnd!pack
  <2>3. Rnd(f, h)!SignBit = S BY Zenon DEF Rnd!SignBit, Bits!SignBit
  <2> HIDE DEF u, B, P, S, D
  <2>4. S \in Int /\ B * P \in Int BY <1>1, <1>2
  <2> QED BY <2>2, <2>3, <2>4
<1> HIDE DEF u, B, P, D, S
<1>5. u \in Nat /\ u < S /\ IsPattern(f, u)
  <2>1. B < D BY <1>1, <1>3
  <2>2. B * P < D * P /\ B * P \in Nat BY <1>1, <1>2, <2>1
  <2> QED BY <1>2, <1>4, <2>2 DEF IsPattern, S
<1>6. u \div P = B /\ u % P = 0
  <2>1. u = B * P + 0 /\ 0 \in 0 .. (P - 1) /\ u \in Int /\ B \in Int
    BY <1>1, <1>2, <1>4, <1>5
  <2> QED BY <1>2, <2>1, DivisionIs
<1>7. B % D = B
  <2>1. B = 0 * D + B /\ B \in 0 .. (D - 1) /\ B \in Int BY <1>1, <1>2, <1>3
  <2> QED BY <1>2, <2>1, DivisionIs
<1>8. u \div S = 0 /\ u % S = u
  <2>1. S \in Nat \ {0} BY <1>2
  <2>2. u = 0 * S + u /\ u \in 0 .. (S - 1) /\ u \in Int BY <1>5, <2>1
  <2> QED BY <2>1, <2>2, DivisionIs
<1>9. Rnd(f, h)!sign(u) = 0 /\ Rnd(f, h)!exp(u) = B /\ Rnd(f, h)!frac(u) = 0
  <2>1. Rnd(f, h)!sign(u) = u \div S
    BY Zenon DEF Rnd!sign, Rnd!SignBit, S, Bits!SignBit
  <2>2. Rnd(f, h)!exp(u) = (u \div P) % D BY Zenon DEF Rnd!exp, P, D
  <2>3. Rnd(f, h)!frac(u) = u % P BY Zenon DEF Rnd!frac, P
  <2> QED BY <1>6, <1>7, <1>8, <2>1, <2>2, <2>3
<1>10. /\ Ref(f, w)!Num(u) = [s |-> 0, m |-> P + 0, q |-> Ref(f, w)!MinExp + (B - 1)]
       /\ Rnd(f, h)!isZero(u) <=> Ref(f, w)!IsZero(u)
       /\ Ref(f, w)!IsZero(u) <=> B = 0 /\ 0 = 0
  <2>1. /\ Ref(f, w)!Num(u) = [s |-> Rnd(f, h)!sign(u),
            m |-> IF Rnd(f, h)!exp(u) = 0 THEN Rnd(f, h)!frac(u) ELSE 2^f.F + Rnd(f, h)!frac(u),
            q |-> Ref(f, w)!MinExp + (IF Rnd(f, h)!exp(u) = 0 THEN 0 ELSE Rnd(f, h)!exp(u) - 1)]
        /\ Rnd(f, h)!isZero(u) <=> Ref(f, w)!IsZero(u)
        /\ Ref(f, w)!IsZero(u) <=> Rnd(f, h)!exp(u) = 0 /\ Rnd(f, h)!frac(u) = 0
    BY <1>5, Reads
  <2>2. B # 0 BY <1>1
  <2> QED BY <1>9, <2>1, <2>2 DEF P
<1>11. P + 0 = P /\ Ref(f, w)!MinExp + (B - 1) = - f.F BY <1>1, <1>2
<1>12. B # Rnd(f, h)!MaxExp /\ B # 0 BY <1>1
<1> QED BY <1>5, <1>9, <1>10, <1>11, <1>12 DEF Nonzero, Finite, u, P

\* The addend of a multiplication is a zero of the sign of the product.
LEMMA ZeroOfIs ==
  ASSUME NEW f, NEW h, IsFormat(f, h), NEW a, NEW b, IsPattern(f, a), IsPattern(f, b), NEW w
  PROVE  LET u == Rnd(f, h)!zeroOf(a, b)
         IN /\ Finite(f, h, u) /\ Ref(f, w)!Num(u).m = 0
            /\ Ref(f, w)!Num(u).s = Ref(f, w)!ExactProduct(Ref(f, w)!Num(a), Ref(f, w)!Num(b)).s
            /\ Ref(f, w)!Num(u).s \in {0, 1} /\ Ref(f, w)!Num(u).q \in Int
            /\ ~ Ref(f, w)!IsSignaling(u)
<1> DEFINE u == Rnd(f, h)!zeroOf(a, b)
           S == Bits(f)!SignBit
           x == Ref(f, w)!Num(a)
           y == Ref(f, w)!Num(b)
<1>1. S \in Nat \ {0}
  <2>1. f.E + f.F \in Nat BY DEF IsFormat
  <2> QED BY <2>1, PowerOfTwo DEF Bits!SignBit
<1>2. Rnd(f, h)!SignBit = S BY Zenon DEF Rnd!SignBit, Bits!SignBit
<1>3. x.s = Rnd(f, h)!sign(a) /\ x.s \in {0, 1} /\ y.s = Rnd(f, h)!sign(b) /\ y.s \in {0, 1}
  BY Kinds
<1>4. u = IF x.s # y.s THEN S ELSE 0 BY <1>2, <1>3, Zenon DEF Rnd!zeroOf
<1> HIDE DEF u, S, x, y
<1>5. u = (IF x.s # y.s THEN 1 ELSE 0) * S + 0 /\ u \in Int /\ 0 \in 0 .. (S - 1)
  BY <1>1, <1>4
<1>6. u \div S = (IF x.s # y.s THEN 1 ELSE 0) /\ u % S = 0
  <2>1. PICK d \in Int : d = IF x.s # y.s THEN 1 ELSE 0 OBVIOUS
  <2> QED BY <1>1, <1>5, <2>1, DivisionIs
<1>7. IsPattern(f, u) BY <1>1, <1>4 DEF IsPattern, S
<1>8. Rnd(f, h)!sign(u) = (IF x.s # y.s THEN 1 ELSE 0) /\ Rnd(f, h)!isZero(u)
  <2>1. Rnd(f, h)!sign(u) = u \div S /\ (Rnd(f, h)!isZero(u) <=> u % S = 0)
    BY <1>2, Zenon DEF Rnd!sign, Rnd!isZero
  <2> QED BY <1>6, <2>1
<1>9. /\ Rnd(f, h)!isSigNaN(u) <=> Ref(f, w)!IsSignaling(u)
      /\ Rnd(f, h)!exp(u) = Rnd(f, h)!MaxExp <=> Rnd(f, h)!isNaN(u) \/ Rnd(f, h)!isInf(u)
      /\ Rnd(f, h)!isZero(u) => Rnd(f, h)!exp(u) # Rnd(f, h)!MaxExp
      /\ Ref(f, w)!Num(u).s = Rnd(f, h)!sign(u) /\ Ref(f, w)!Num(u).s \in {0, 1}
      /\ Ref(f, w)!Num(u).q \in Int
      /\ Rnd(f, h)!isZero(u) <=> Ref(f, w)!Num(u).m = 0
  BY <1>7, Kinds
<1>10. Ref(f, w)!ExactProduct(x, y).s = (x.s + y.s) % 2
  BY DEF Ref!ExactProduct
<1>11. (x.s + y.s) % 2 = (IF x.s # y.s THEN 1 ELSE 0) BY <1>3
<1>12. ~ Ref(f, w)!IsSignaling(u)
  <2>1. Rnd(f, h)!isSigNaN(u) => Rnd(f, h)!isNaN(u)
    BY Zenon DEF Rnd!isSigNaN
  <2> QED BY <1>8, <1>9, <2>1
<1> QED BY <1>7, <1>8, <1>9, <1>10, <1>11, <1>12 DEF Finite, u, x, y

\* Sums of the same terms round alike, however the terms are written.
LEMMA SumsAlike ==
  ASSUME NEW f, NEW h, IsFormat(f, h), NEW mode \in RoundingModes,
         NEW m \in Nat, NEW n \in Nat, NEW q \in Int,
         NEW x, NEW y, NEW z, x.s \in {0, 1}, y.s \in {0, 1}, AddsUp(z, x, y, m, n, q),
         NEW u, NEW v, NEW t, u.s = x.s, v.s = y.s, AddsUp(t, u, v, m, n, q)
  PROVE  /\ t.m = 0 <=> z.m = 0
         /\ \A r : t.m # 0 /\ RoundsTo(f, mode, t.s, t.m, t.q, r) => RoundsTo(f, mode, z.s, z.m, z.q, r)
<1>1. PICK g \in Nat :
        /\ z.m \in Nat /\ z.q = q + g
        /\ x.s = y.s => z.m * 2^g = m + n /\ (z.m # 0 => z.s = x.s)
        /\ x.s # y.s => /\ m >= n => z.m * 2^g = m - n /\ (m > n => z.s = x.s)
                        /\ m < n => z.m * 2^g = n - m /\ z.s = y.s
        /\ z.m = 0 <=> (m = 0 /\ n = 0) \/ (x.s # y.s /\ m = n)
  BY Zenon DEF AddsUp
<1>2. PICK k \in Nat :
        /\ t.m \in Nat /\ t.q = q + k
        /\ u.s = v.s => t.m * 2^k = m + n /\ (t.m # 0 => t.s = u.s)
        /\ u.s # v.s => /\ m >= n => t.m * 2^k = m - n /\ (m > n => t.s = u.s)
                        /\ m < n => t.m * 2^k = n - m /\ t.s = v.s
        /\ t.m = 0 <=> (m = 0 /\ n = 0) \/ (u.s # v.s /\ m = n)
  BY Zenon DEF AddsUp
<1>3. t.m = 0 <=> z.m = 0 BY <1>1, <1>2
<1>4. ASSUME NEW r, t.m # 0, RoundsTo(f, mode, t.s, t.m, t.q, r)
      PROVE  RoundsTo(f, mode, z.s, z.m, z.q, r)
  <2>1. z.m * 2^g = t.m * 2^k /\ z.s = t.s /\ t.s \in {0, 1}
    <3>1. CASE x.s = y.s BY <1>1, <1>2, <1>3, <1>4, <3>1
    <3>2. CASE x.s # y.s /\ m > n BY <1>1, <1>2, <1>3, <1>4, <3>2
    <3>3. CASE x.s # y.s /\ m < n BY <1>1, <1>2, <1>3, <1>4, <3>3
    <3>4. CASE x.s # y.s /\ m = n BY <1>1, <1>3, <1>4, <3>4
    <3> QED BY <3>1, <3>2, <3>3, <3>4
  <2>2. t.m \in Nat \ {0} /\ z.m \in Nat \ {0} /\ Directed(mode, t.s)
    BY <1>1, <1>2, <1>3, <1>4, <2>1 DEF Directed
  <2>3. t.q = q + k /\ z.q = q + g /\ z.m * 2^g = t.m * 2^k
    BY <1>1, <1>2, <2>1
  <2>4. SameNumber(t.m, t.q, z.m, z.q) BY <2>3, Zenon DEF SameNumber
  <2>5. RoundsTo(f, mode, t.s, z.m, z.q, r) BY <1>4, <2>2, <2>4, SameRounds
  <2> QED BY <2>1, <2>5
<1> QED BY <1>3, <1>4

\* Two numbers have a last place in common.
LEMMA CommonPlace ==
  ASSUME NEW d \in Int, NEW e \in Int
  PROVE  \E q \in Int, i \in Nat, l \in Nat : d = q + i /\ e = q + l
<1>1. CASE d >= e
  <2>1. d - e \in Nat /\ d = e + (d - e) /\ e = e + 0 BY <1>1
  <2> QED BY <2>1
<1>2. CASE d < e
  <2>1. e - d \in Nat /\ e = d + (e - d) /\ d = d + 0 BY <1>2
  <2> QED BY <2>1
<1> QED BY <1>1, <1>2

\* What fused multiplication makes of finite operands, whatever bound is
\* put on the exact sum.
LEMMA FusedRounds ==
  ASSUME NEW f, NEW h, IsSingle(f, h), NEW mode \in RoundingModes,
         NEW a, NEW b, NEW c, Finite(f, h, a), Finite(f, h, b), Finite(f, h, c), NEW w \in Nat
  PROVE  LET p == Ref(f, w)!ExactProduct(Ref(f, w)!Num(a), Ref(f, w)!Num(b))
             v == Ref(f, w)!Num(c)
             z == Ref(f, w)!ExactSum(p, v)
             l == Rnd(f, h)!softfloat_mulAddF32(mode, a, b, c)
         IN /\ z.m = 0 => l = Ref(f, w)!Zero(IF p.s = v.s THEN p.s ELSE IF mode = "min" THEN 1 ELSE 0)
            /\ z.m # 0 => RoundsTo(f, mode, z.s, z.m, z.q, l)
<1> DEFINE p(i) == Ref(f, i)!ExactProduct(Ref(f, i)!Num(a), Ref(f, i)!Num(b))
           v(i) == Ref(f, i)!Num(c)
           z(i) == Ref(f, i)!ExactSum(p(i), v(i))
           l == Rnd(f, h)!softfloat_mulAddF32(mode, a, b, c)
<1>1. IsFormat(f, h) /\ IsPattern(f, a) /\ IsPattern(f, b) /\ IsPattern(f, c)
  BY SingleIs DEF Finite
<1>2. ASSUME NEW i \in Nat, z(i).m < 2^i
      PROVE  l = Ref(f, i)!SumRounded(mode, p(i), v(i), z(i))
  <2>1. l = Ref(f, i)!Fused(mode, a, b, c, z(i))
    <3>1. z(i) = Ref(f, i)!ExactSum(Ref(f, i)!ExactProduct(Ref(f, i)!Num(a), Ref(f, i)!Num(b)), Ref(f, i)!Num(c))
      OBVIOUS
    <3> HIDE DEF z, l
    <3>2. Rnd(f, h)!softfloat_mulAddF32(mode, a, b, c) = Ref(f, i)!Fused(mode, a, b, c, z(i))
      BY <1>1, <1>2, <3>1, MulAddIsIeee
    <3> QED BY <3>2 DEF l
  <2>2. /\ ~ Ref(f, i)!IsNaN(a) /\ ~ Ref(f, i)!IsInf(a) /\ ~ Ref(f, i)!IsNaN(b) /\ ~ Ref(f, i)!IsInf(b)
        /\ ~ Ref(f, i)!IsNaN(c) /\ ~ Ref(f, i)!IsInf(c)
    BY <1>1, Kinds DEF Finite
  <2>3. Ref(f, i)!Fused(mode, a, b, c, z(i)) = Ref(f, i)!SumRounded(mode, p(i), v(i), z(i))
    <3> HIDE DEF z, l
    <3> QED BY <2>2, Zenon DEF Ref!Fused
  <2> QED BY <2>1, <2>3
<1>3. ASSUME NEW i \in Nat, NEW j \in Nat
      PROVE  z(i) = z(j)
  <2>1. Ref(f, i)!Num(a) = Ref(f, j)!Num(a) /\ Ref(f, i)!Num(b) = Ref(f, j)!Num(b)
        /\ Ref(f, i)!Num(c) = Ref(f, j)!Num(c)
    BY Zenon DEF Ref!Num, Ref!Neg, Ref!Mag, Ref!Sign, Ref!MinExp, Ref!Bias
  <2>2. \A x, y : Ref(f, i)!ExactProduct(x, y) = Ref(f, j)!ExactProduct(x, y)
    BY Zenon DEF Ref!ExactProduct
  <2>3. ASSUME NEW x, NEW y
        PROVE  Ref(f, i)!ExactSum(x, y) = Ref(f, j)!ExactSum(x, y)
    <3>1. \A s, m : Ref(f, i)!SignedNumber(s, m) = Ref(f, j)!SignedNumber(s, m)
      BY Zenon DEF Ref!SignedNumber
    <3> DEFINE q == IF x.q < y.q THEN x.q ELSE y.q
              V(k) == Ref(f, k)!SignedNumber(x.s, x.m * 2^(x.q - q)) + Ref(f, k)!SignedNumber(y.s, y.m * 2^(y.q - q))
              S(n) == [s |-> IF n < 0 THEN 1 ELSE 0, m |-> IF n < 0 THEN -n ELSE n, q |-> q]
    <3>3. V(i) = V(j)
      <4>1. /\ Ref(f, i)!SignedNumber(x.s, x.m * 2^(x.q - q)) = Ref(f, j)!SignedNumber(x.s, x.m * 2^(x.q - q))
            /\ Ref(f, i)!SignedNumber(y.s, y.m * 2^(y.q - q)) = Ref(f, j)!SignedNumber(y.s, y.m * 2^(y.q - q))
        BY <3>1, Zenon
      <4> QED BY <4>1, Zenon
    <3>4. \A n : Ref(f, n)!ExactSum(x, y) = S(V(n))
      BY Zenon DEF Ref!ExactSum
    <3> HIDE DEF S, V
    <3> QED BY <3>3, <3>4, Zenon
  <2>4. Ref(f, i)!ExactProduct(Ref(f, i)!Num(a), Ref(f, i)!Num(b))
          = Ref(f, j)!ExactProduct(Ref(f, j)!Num(a), Ref(f, j)!Num(b))
    BY <2>1, <2>2, Zenon
  <2>5. Ref(f, i)!ExactSum(Ref(f, i)!ExactProduct(Ref(f, i)!Num(a), Ref(f, i)!Num(b)), Ref(f, i)!Num(c))
          = Ref(f, i)!ExactSum(Ref(f, j)!ExactProduct(Ref(f, j)!Num(a), Ref(f, j)!Num(b)), Ref(f, j)!Num(c))
    BY <2>1, <2>4, Zenon
  <2>6. Ref(f, i)!ExactSum(Ref(f, j)!ExactProduct(Ref(f, j)!Num(a), Ref(f, j)!Num(b)), Ref(f, j)!Num(c))
          = Ref(f, j)!ExactSum(Ref(f, j)!ExactProduct(Ref(f, j)!Num(a), Ref(f, j)!Num(b)), Ref(f, j)!Num(c))
    BY <2>3, Zenon
  <2>7. z(i) = Ref(f, i)!ExactSum(Ref(f, i)!ExactProduct(Ref(f, i)!Num(a), Ref(f, i)!Num(b)), Ref(f, i)!Num(c))
        /\ z(j) = Ref(f, j)!ExactSum(Ref(f, j)!ExactProduct(Ref(f, j)!Num(a), Ref(f, j)!Num(b)), Ref(f, j)!Num(c))
    OBVIOUS
  <2> HIDE DEF z
  <2> QED BY <2>5, <2>6, <2>7, Zenon
<1>4. ASSUME z(w).m = 0
      PROVE  l = Ref(f, w)!Zero(IF p(w).s = v(w).s THEN p(w).s ELSE IF mode = "min" THEN 1 ELSE 0)
  <2>1. z(w).m < 2^w
    <3>1. 2^w \in Nat \ {0} BY PowerOfTwo
    <3> HIDE DEF z
    <3> QED BY <1>4, <3>1
  <2>2. l = Ref(f, w)!SumRounded(mode, p(w), v(w), z(w)) BY <1>2, <2>1
  <2> HIDE DEF z, p, v, l
  <2> QED BY <1>4, <2>2, Zenon DEF Ref!SumRounded
<1>5. ASSUME z(w).m # 0
      PROVE  RoundsTo(f, mode, z(w).s, z(w).m, z(w).q, l)
  <2> HIDE DEF z, p, v, l
  <2> SUFFICES ASSUME NEW i \in Nat, z(w).m < 2^i
               PROVE  Ref(f, i)!Round(mode, [s |-> z(w).s, m |-> z(w).m, q |-> z(w).q]) = l
    BY Zenon DEF RoundsTo
  <2>1. z(i) = z(w) BY <1>3, Zenon
  <2>2. l = Ref(f, i)!SumRounded(mode, p(i), v(i), z(i))
    <3>1. z(i).m < 2^i BY <2>1, Zenon
    <3> QED BY <1>2, <3>1, Zenon
  <2>3. z(i) = [s |-> z(i).s, m |-> z(i).m, q |-> z(i).q]
    BY Zenon DEF z, Ref!ExactSum
  <2>4. Ref(f, i)!SumRounded(mode, p(i), v(i), z(i)) = Ref(f, i)!Round(mode, z(i))
    BY <1>5, <2>1, Zenon DEF Ref!SumRounded
  <2> QED BY <2>1, <2>2, <2>3, <2>4
<1> QED BY <1>4, <1>5

\* fadd.s multiplies by one before it adds: whatever the operands, the
\* result and the flags are those of the sum rounded once, the sign of a
\* zero sum included, and the multiplication leaves no trace.
THEOREM AddIsIeee ==
  ASSUME NEW f, NEW h, IsSingle(f, h), NEW mode \in RoundingModes,
         NEW a, NEW b, IsPattern(f, a), IsPattern(f, b), NEW w \in Nat, NEW z,
         Finite(f, h, a) /\ Finite(f, h, b) =>
           z = Ref(f, w)!ExactSum(Ref(f, w)!Num(a), Ref(f, w)!Num(b)) /\ z.m < 2^w
  PROVE  Rnd(f, h)!softfloat_mulAddF32(mode, a, Rnd(f, h)!One, b) = Ref(f, w)!Added(mode, a, b, z)
<1> DEFINE u == Rnd(f, h)!One
           x == Ref(f, w)!Num(a)
           o == Ref(f, w)!Num(u)
           y == Ref(f, w)!Num(b)
           p == Ref(f, w)!ExactProduct(x, o)
           t == Ref(f, w)!ExactSum(p, y)
           l == Rnd(f, h)!softfloat_mulAddF32(mode, a, u, b)
           r == Ref(f, w)!Added(mode, a, b, z)
           NaN(i) == Ref(f, w)!IsNaN(i)
           Inf(i) == Ref(f, w)!IsInf(i)
           Zero(i) == Ref(f, w)!IsZero(i)
<1>1. IsFormat(f, h) BY SingleIs
<1>2. Nonzero(f, h, u) /\ o = [s |-> 0, m |-> 2^f.F, q |-> - f.F]
  BY <1>1, OneIs
<1>3. IsPattern(f, u) /\ Finite(f, h, u) BY <1>2 DEF Nonzero, Finite
<1>4. /\ ~ NaN(u) /\ ~ Inf(u) /\ ~ Zero(u) /\ ~ Ref(f, w)!IsSignaling(u)
  <2>1. ~ NaN(u) /\ ~ Inf(u) /\ ~ Zero(u)
    BY <1>1, <1>2, <1>3, Kinds DEF Nonzero, Finite
  <2> QED BY <2>1 DEF Ref!IsSignaling
<1>5. /\ x.s \in {0, 1} /\ x.m \in Nat /\ x.q \in Int /\ y.s \in {0, 1} /\ y.m \in Nat /\ y.q \in Int
      /\ ~ (NaN(a) /\ Inf(a)) /\ ~ (NaN(b) /\ Inf(b))
      /\ Zero(a) => ~ NaN(a) /\ ~ Inf(a)
      /\ Finite(f, h, a) <=> ~ NaN(a) /\ ~ Inf(a)
      /\ Finite(f, h, b) <=> ~ NaN(b) /\ ~ Inf(b)
  BY <1>1, Kinds DEF Finite
<1>6. p.s = x.s /\ p.m = x.m * 2^f.F /\ p.q = x.q - f.F
  <2>1. p = [s |-> (x.s + o.s) % 2, m |-> x.m * o.m, q |-> x.q + o.q]
    BY Zenon DEF Ref!ExactProduct
  <2>2. o.s = 0 /\ o.m = 2^f.F /\ o.q = - f.F BY <1>2
  <2>3. f.F \in Nat BY <1>1 DEF IsFormat
  <2> HIDE DEF x, o, p
  <2> QED BY <1>5, <2>1, <2>2, <2>3
<1>7. CASE Finite(f, h, a) /\ Finite(f, h, b)
  <2>1. z = Ref(f, w)!ExactSum(x, y) /\ z.m < 2^w BY <1>7
  <2>2. /\ t.m = 0 => l = Ref(f, w)!Zero(IF p.s = y.s THEN p.s ELSE IF mode = "min" THEN 1 ELSE 0)
        /\ t.m # 0 => RoundsTo(f, mode, t.s, t.m, t.q, l)
    <3> HIDE DEF u
    <3> QED BY <1>3, <1>7, FusedRounds
  <2> HIDE DEF x, o, y, p, l, u
  <2>3. f.F \in Nat /\ 2^f.F \in Nat \ {0} /\ p.q \in Int /\ p.m \in Nat
    <3>1. f.F \in Nat BY <1>1 DEF IsFormat
    <3>2. 2^f.F \in Nat \ {0} BY <3>1, PowerOfTwo
    <3> QED BY <1>5, <1>6, <3>1, <3>2
  <2>4. PICK q \in Int, i \in Nat, k \in Nat : p.q = q + i /\ y.q = q + k
    BY <1>5, <2>3, CommonPlace
  <2>5. PICK j \in Nat : j = f.F + i /\ x.q = q + j
    BY <1>5, <1>6, <2>3, <2>4
  <2>6. p.m * 2^i = x.m * 2^j /\ 2^i \in Nat /\ 2^j \in Nat /\ 2^k \in Nat
    <3>1. 2^j = 2^f.F * 2^i /\ 2^i \in Nat /\ 2^j \in Nat /\ 2^k \in Nat
      BY <2>3, <2>5, PowersAdd, PowerOfTwo
    <3>2. PICK c, d, e \in Nat : c = x.m /\ d = 2^f.F /\ e = 2^i
      BY <1>5, <2>3, <3>1
    <3>3. (c * d) * e = c * (d * e) OBVIOUS
    <3> QED BY <1>6, <3>1, <3>2, <3>3
  <2>7. AddsUp(t, p, y, p.m * 2^i, y.m * 2^k, q)
    BY <1>5, <1>6, <2>3, <2>4, ExactSumIs
  <2>8. AddsUp(z, x, y, x.m * 2^j, y.m * 2^k, q)
    BY <1>5, <2>1, <2>4, <2>5, ExactSumIs
  <2>9. PICK m, n \in Nat : m = x.m * 2^j /\ n = y.m * 2^k
    BY <1>5, <2>6
  <2> HIDE DEF t
  <2>10. AddsUp(t, p, y, m, n, q) /\ AddsUp(z, x, y, m, n, q)
    BY <2>6, <2>7, <2>8, <2>9
  <2>11. /\ t.m = 0 <=> z.m = 0
         /\ t.m # 0 => RoundsTo(f, mode, z.s, z.m, z.q, l)
    BY <1>1, <1>5, <1>6, <2>2, <2>10, SumsAlike
  <2>12. r = IF z.m # 0 THEN Ref(f, w)!Round(mode, z)
             ELSE Ref(f, w)!Zero(IF x.s = y.s THEN x.s ELSE IF mode = "min" THEN 1 ELSE 0)
    <3>1. r = Ref(f, w)!SumRounded(mode, x, y, z)
      BY <1>5, <1>7, Zenon DEF Ref!Added, x, y
    <3> QED BY <3>1, Zenon DEF Ref!SumRounded
  <2>13. z.m # 0 => Ref(f, w)!Round(mode, z) = l
    <3>1. z = [s |-> z.s, m |-> z.m, q |-> z.q] BY <2>1 DEF Ref!ExactSum
    <3>2. ASSUME z.m # 0
          PROVE  Ref(f, w)!Round(mode, [s |-> z.s, m |-> z.m, q |-> z.q]) = l
      BY <2>1, <2>11, <3>2, Zenon DEF RoundsTo
    <3> QED BY <3>1, <3>2
  <2> HIDE DEF r
  <2>14. l = r BY <1>6, <2>2, <2>11, <2>12, <2>13
  <2> QED BY <2>14 DEF l, r, u
<1>8. CASE ~ (Finite(f, h, a) /\ Finite(f, h, b))
  <2>1. l = Ref(f, w)!Fused(mode, a, u, b, z)
    <3> HIDE DEF u
    <3> QED BY <1>3, <1>8, MulAddIsIeee
  <2>2. Ref(f, w)!QuietNaN({a, u, b}) = Ref(f, w)!QuietNaN({a, b})
    <3>1. (\E i \in {a, u, b} : Ref(f, w)!IsSignaling(i)) <=> (\E i \in {a, b} : Ref(f, w)!IsSignaling(i))
      BY <1>4
    <3> QED BY <3>1, Zenon DEF Ref!QuietNaN
  <2>3. ~ NaN(a) => Ref(f, w)!QuietNaN({a, b}) = Ref(f, w)!QuietNaN({b})
    <3>1. ASSUME ~ NaN(a)
          PROVE  (\E i \in {a, b} : Ref(f, w)!IsSignaling(i)) <=> (\E i \in {b} : Ref(f, w)!IsSignaling(i))
      BY <3>1 DEF Ref!IsSignaling
    <3> QED BY <3>1, Zenon DEF Ref!QuietNaN
  <2>4. /\ NaN(a) => l = Ref(f, w)!QuietNaN({a, b})
        /\ ~ NaN(a) =>
             l = IF NaN(b) THEN Ref(f, w)!QuietNaN({b})
                 ELSE IF Inf(a)
                 THEN IF Inf(b) /\ y.s # p.s THEN Ref(f, w)!InvalidOp ELSE Ref(f, w)!Inf(p.s)
                 ELSE IF Inf(b) THEN Ref(f, w)!Inf(y.s)
                 ELSE Ref(f, w)!SumRounded(mode, p, y, z)
    <3> HIDE DEF u, l
    <3> QED BY <1>4, <2>1, <2>2 DEF Ref!Fused
  <2>5. r = CASE NaN(a) \/ NaN(b) -> Ref(f, w)!QuietNaN({a, b})
              [] Inf(a) /\ ~ NaN(b) -> IF Inf(b) /\ x.s # y.s THEN Ref(f, w)!InvalidOp ELSE Ref(f, w)!Inf(x.s)
              [] Inf(b) /\ ~ Inf(a) /\ ~ NaN(a) -> Ref(f, w)!Inf(y.s)
              [] OTHER -> Ref(f, w)!SumRounded(mode, x, y, z)
    BY Zenon DEF Ref!Added
  <2> HIDE DEF u, l, r, x, y, p, NaN, Inf, Zero
  <2>6. l = r
    <3>1. CASE NaN(a) BY <1>5, <2>4, <2>5, <3>1
    <3>2. CASE ~ NaN(a) /\ NaN(b) BY <1>5, <2>3, <2>4, <2>5, <3>2
    <3>3. CASE ~ NaN(a) /\ ~ NaN(b) /\ Inf(a) BY <1>6, <2>4, <2>5, <3>3
    <3>4. CASE ~ NaN(a) /\ ~ NaN(b) /\ ~ Inf(a)
      <4>1. Inf(b) BY <1>5, <1>8, <3>4
      <4> QED BY <2>4, <2>5, <3>4, <4>1
    <3> QED BY <3>1, <3>2, <3>3, <3>4
  <2> QED BY <2>6 DEF l, r, u
<1> QED BY <1>7, <1>8

\* fmul.s adds a zero after it multiplies: whatever the operands, the
\* result and the flags are those of the product rounded once, and a zero
\* product keeps its sign in every mode.
THEOREM MulIsIeee ==
  ASSUME NEW f, NEW h, IsSingle(f, h), NEW mode \in RoundingModes,
         NEW a, NEW b, IsPattern(f, a), IsPattern(f, b), NEW w \in Nat,
         Finite(f, h, a) /\ Finite(f, h, b) =>
           Ref(f, w)!ExactProduct(Ref(f, w)!Num(a), Ref(f, w)!Num(b)).m < 2^w
  PROVE  Rnd(f, h)!softfloat_mulAddF32(mode, a, b, Rnd(f, h)!zeroOf(a, b)) = Ref(f, w)!Mul(mode, a, b)
<1> DEFINE u == Rnd(f, h)!zeroOf(a, b)
           x == Ref(f, w)!Num(a)
           y == Ref(f, w)!Num(b)
           v == Ref(f, w)!Num(u)
           p == Ref(f, w)!ExactProduct(x, y)
           t == Ref(f, w)!ExactSum(p, v)
           l == Rnd(f, h)!softfloat_mulAddF32(mode, a, b, u)
           r == Ref(f, w)!Mul(mode, a, b)
           NaN(i) == Ref(f, w)!IsNaN(i)
           Inf(i) == Ref(f, w)!IsInf(i)
           Zero(i) == Ref(f, w)!IsZero(i)
<1>1. IsFormat(f, h) BY SingleIs
<1>2. /\ Finite(f, h, u) /\ v.m = 0 /\ v.s = p.s /\ v.s \in {0, 1} /\ v.q \in Int
      /\ ~ Ref(f, w)!IsSignaling(u)
  BY <1>1, ZeroOfIs
<1>3. IsPattern(f, u) BY <1>2 DEF Finite
<1>4. ~ NaN(u) /\ ~ Inf(u) BY <1>1, <1>2, <1>3, Kinds DEF Finite
<1>5. /\ x.s \in {0, 1} /\ x.m \in Nat /\ x.q \in Int /\ y.s \in {0, 1} /\ y.m \in Nat /\ y.q \in Int
      /\ ~ (NaN(a) /\ Inf(a)) /\ ~ (NaN(b) /\ Inf(b))
      /\ Zero(a) => ~ NaN(a) /\ ~ Inf(a)
      /\ Zero(b) => ~ NaN(b) /\ ~ Inf(b)
      /\ Finite(f, h, a) <=> ~ NaN(a) /\ ~ Inf(a)
      /\ Finite(f, h, b) <=> ~ NaN(b) /\ ~ Inf(b)
  BY <1>1, Kinds DEF Finite
<1>6. p.s \in {0, 1} /\ p.m \in Nat /\ p.q \in Int
  <2>1. p = [s |-> (x.s + y.s) % 2, m |-> x.m * y.m, q |-> x.q + y.q]
    BY Zenon DEF Ref!ExactProduct
  <2> HIDE DEF x, y, p
  <2> QED BY <1>5, <2>1
<1>7. CASE Finite(f, h, a) /\ Finite(f, h, b)
  <2>1. p.m < 2^w BY <1>7
  <2>2. /\ t.m = 0 => l = Ref(f, w)!Zero(IF p.s = v.s THEN p.s ELSE IF mode = "min" THEN 1 ELSE 0)
        /\ t.m # 0 => RoundsTo(f, mode, t.s, t.m, t.q, l)
    <3> HIDE DEF u
    <3> QED BY <1>2, <1>7, FusedRounds
  <2>3. r = IF p.m = 0 THEN Ref(f, w)!Zero(p.s) ELSE Ref(f, w)!Round(mode, p)
    BY <1>5, <1>7, Zenon DEF Ref!Mul, x, y, p
  <2>4. p = [s |-> p.s, m |-> p.m, q |-> p.q] BY DEF Ref!ExactProduct
  <2> HIDE DEF x, y, v, p, l, u, r
  <2>5. PICK q \in Int, i \in Nat, k \in Nat : p.q = q + i /\ v.q = q + k
    BY <1>2, <1>6, CommonPlace
  <2>6. AddsUp(t, p, v, p.m * 2^i, v.m * 2^k, q)
    <3>1. v.m \in Nat BY <1>2
    <3> QED BY <1>2, <1>6, <2>5, <3>1, ExactSumIs
  <2>7. PICK m \in Nat : m = p.m * 2^i /\ (m = 0 <=> p.m = 0) /\ v.m * 2^k = 0
    <3>1. 2^i \in Nat \ {0} /\ 2^k \in Nat \ {0} BY PowerOfTwo
    <3>2. PICK c, d \in Nat : c = p.m /\ d = 2^i /\ d # 0
      BY <1>6, <3>1
    <3>3. c * d \in Nat /\ (c * d = 0 <=> c = 0) BY <3>2
    <3> QED BY <1>2, <3>1, <3>2, <3>3
  <2> HIDE DEF t
  <2>8. AddsUp(t, p, v, m, 0, q) BY <2>6, <2>7
  <2>9. PICK g \in Nat : /\ t.m \in Nat /\ t.q = q + g
                         /\ t.m * 2^g = m /\ (t.m # 0 => t.s = p.s)
                         /\ t.m = 0 <=> m = 0
    <3>1. PICK g \in Nat :
            /\ t.m \in Nat /\ t.q = q + g
            /\ p.s = v.s => t.m * 2^g = m + 0 /\ (t.m # 0 => t.s = p.s)
            /\ t.m = 0 <=> (m = 0 /\ 0 = 0) \/ (p.s # v.s /\ m = 0)
      BY <2>8, Zenon DEF AddsUp
    <3> QED BY <1>2, <3>1
  <2>10. CASE p.m = 0 BY <1>2, <2>2, <2>3, <2>7, <2>9, <2>10 DEF l, r, u
  <2>11. CASE p.m # 0
    <3>1. t.m \in Nat \ {0} /\ p.m \in Nat \ {0} /\ Directed(mode, p.s) /\ t.s = p.s
      BY <1>6, <2>7, <2>9, <2>11 DEF Directed
    <3>2. RoundsTo(f, mode, p.s, t.m, t.q, l) BY <2>2, <3>1
    <3>3. p.m * 2^i = t.m * 2^g /\ p.q = q + i /\ t.q = q + g
      BY <2>5, <2>7, <2>9
    <3>4. SameNumber(t.m, t.q, p.m, p.q) BY <3>3, Zenon DEF SameNumber
    <3>5. RoundsTo(f, mode, p.s, p.m, p.q, l)
      BY <1>1, <3>1, <3>2, <3>4, SameRounds
    <3>6. Ref(f, w)!Round(mode, [s |-> p.s, m |-> p.m, q |-> p.q]) = l
      BY <2>1, <3>5, Zenon DEF RoundsTo
    <3>7. l = r BY <2>3, <2>4, <2>11, <3>6
    <3> QED BY <3>7 DEF l, r, u
  <2> QED BY <2>10, <2>11
<1>8. CASE ~ (Finite(f, h, a) /\ Finite(f, h, b))
  <2> DEFINE z == Ref(f, w)!ExactSum(p, v)
  <2>1. l = Ref(f, w)!Fused(mode, a, b, u, z)
    <3> HIDE DEF u, z
    <3> QED BY <1>3, <1>8, MulAddIsIeee
  <2>2. Ref(f, w)!QuietNaN({a, b, u}) = Ref(f, w)!QuietNaN({a, b})
    <3>1. (\E i \in {a, b, u} : Ref(f, w)!IsSignaling(i)) <=> (\E i \in {a, b} : Ref(f, w)!IsSignaling(i))
      BY <1>2
    <3> QED BY <3>1, Zenon DEF Ref!QuietNaN
  <2>3. /\ NaN(a) \/ NaN(b) => l = Ref(f, w)!QuietNaN({a, b})
        /\ ~ NaN(a) /\ ~ NaN(b) /\ ((Inf(a) /\ Zero(b)) \/ (Zero(a) /\ Inf(b))) => l = Ref(f, w)!InvalidOp
        /\ ~ NaN(a) /\ ~ NaN(b) /\ ~ ((Inf(a) /\ Zero(b)) \/ (Zero(a) /\ Inf(b))) /\ (Inf(a) \/ Inf(b)) =>
             l = Ref(f, w)!Inf(p.s)
    <3>1. Ref(f, w)!Fused(mode, a, b, u, z) =
            CASE NaN(a) \/ NaN(b) -> Ref(f, w)!QuietNaN({a, b, u})
              [] (Inf(a) /\ Zero(b)) \/ (Zero(a) /\ Inf(b)) -> Ref(f, w)!InvalidOp
              [] OTHER ->
                   IF NaN(u) THEN Ref(f, w)!QuietNaN({u})
                   ELSE IF Inf(a) \/ Inf(b)
                   THEN IF Inf(u) /\ v.s # p.s THEN Ref(f, w)!InvalidOp ELSE Ref(f, w)!Inf(p.s)
                   ELSE IF Inf(u) THEN Ref(f, w)!Inf(v.s)
                   ELSE Ref(f, w)!SumRounded(mode, p, v, z)
      BY Zenon DEF Ref!Fused
    <3> HIDE DEF u, l, z, x, y, p, v, NaN, Inf, Zero
    <3> QED BY <1>4, <1>5, <2>1, <2>2, <3>1
  <2>4. r = IF NaN(a) \/ NaN(b) THEN Ref(f, w)!QuietNaN({a, b})
            ELSE IF Inf(a) \/ Inf(b)
            THEN IF Zero(a) \/ Zero(b) THEN Ref(f, w)!InvalidOp ELSE Ref(f, w)!Inf(p.s)
            ELSE IF p.m = 0 THEN Ref(f, w)!Zero(p.s) ELSE Ref(f, w)!Round(mode, p)
    BY Zenon DEF Ref!Mul
  <2> HIDE DEF u, l, r, x, y, p, v, NaN, Inf, Zero
  <2>5. l = r BY <1>5, <1>8, <2>3, <2>4
  <2> QED BY <2>5 DEF l, r, u
<1> QED BY <1>7, <1>8

----
\* Conversions of integers to a format of one word

\* A pattern is read as it was packed.
LEMMA PackedFields ==
  ASSUME NEW f, NEW h, IsFormat(f, h), NEW s \in {0, 1}, NEW e \in 0 .. Rnd(f, h)!MaxExp,
         NEW m \in 0 .. (2^f.F - 1), NEW u, u = s * Rnd(f, h)!SignBit + (e * 2^f.F + m)
  PROVE  IsPattern(f, u) /\ Rnd(f, h)!sign(u) = s /\ Rnd(f, h)!exp(u) = e /\ Rnd(f, h)!frac(u) = m
<1> DEFINE P == 2^f.F
           D == 2^f.E
           S == Rnd(f, h)!SignBit
           M == Rnd(f, h)!MaxExp
<1>1. P \in Nat \ {0} /\ D \in Nat \ {0} /\ S = D * P
  BY PowerOfTwo, PowersAdd DEF IsFormat, Rnd!SignBit
<1>2. M = D - 1 BY DEF Rnd!MaxExp
<1>3. Bits(f)!SignBit = S BY DEF Rnd!SignBit, Bits!SignBit
<1> HIDE DEF P, D, S, M
<1>4. e \in 0 .. (D - 1) /\ m \in 0 .. (P - 1) /\ u = s * S + (e * P + m)
  BY <1>2 DEF P, S, M
<1>5. PICK g \in 0 .. (S - 1) : g = e * P + m
  <2>1. e + 1 <= D BY <1>1, <1>4
  <2>2. (e + 1) * P <= D * P /\ (e + 1) * P = e * P + P /\ e * P \in Nat
    BY <1>1, <1>4, <2>1
  <2> QED BY <1>1, <1>4, <2>2
<1>6. S \in Nat \ {0} /\ u = s * S + g /\ u \in 0 .. (2 * S - 1) /\ u \in Int
  <2>1. S \in Nat \ {0} BY <1>1
  <2> QED BY <1>4, <1>5, <2>1
<1>7. u \div S = s BY <1>6, DivisionIs
<1>8. PICK k \in Int : k = s * D + e
  BY <1>1, <1>4
<1>9. u = k * P + m
  <2>1. PICK x \in Int : x = s * D
    BY <1>1
  <2>2. x * P = s * S BY <1>1, <2>1
  <2>3. (x + e) * P = x * P + e * P /\ e * P \in Int BY <1>1, <1>4, <2>1
  <2> QED BY <1>4, <1>6, <1>8, <2>1, <2>2, <2>3
<1>10. u \div P = k /\ u % P = m
  <2>1. u = k * P + m /\ m \in 0 .. (P - 1) /\ u \in Int /\ P \in Nat \ {0}
    BY <1>1, <1>4, <1>6, <1>9
  <2> QED BY <1>8, <2>1, DivisionIs
<1>11. k % D = e
  <2>1. k = s * D + e /\ e \in 0 .. (D - 1) /\ s \in Int /\ D \in Nat \ {0}
    BY <1>1, <1>4, <1>8
  <2> QED BY <2>1, DivisionIs
<1>12. Rnd(f, h)!sign(u) = u \div S /\ Rnd(f, h)!exp(u) = (u \div P) % D /\ Rnd(f, h)!frac(u) = u % P
  BY Zenon DEF Rnd!sign, Rnd!exp, Rnd!frac, P, D, S
<1> QED BY <1>3, <1>6, <1>7, <1>10, <1>11, <1>12 DEF IsPattern

\* A significand of F + 1 bits, packed, is the number it was.
LEMMA PackedNumber ==
  ASSUME NEW f, NEW h, IsFormat(f, h), NEW w, NEW mode, NEW s \in {0, 1},
         NEW e, e \in 0 .. (Rnd(f, h)!MaxExp - 2), NEW m, Bitlen(m, f.F + 1)
  PROVE  RoundsTo(f, mode, s, m, Ref(f, w)!MinExp + e, Rnd(f, h)!Exact(Rnd(f, h)!pack(s, e, m)))
<1> DEFINE P == 2^f.F
           S == Rnd(f, h)!SignBit
           M == Rnd(f, h)!MaxExp
           L == Ref(f, w)!MinExp
           u == s * S + ((e + 1) * P + (m - P))
           x == Ref(f, w)!Num(u)
<1>1. /\ f.F \in Nat \ {0} /\ M \in Nat \ {0} /\ S \in Nat /\ L \in Int
  <2>1. f.F \in Nat \ {0} BY DEF IsFormat
  <2>2. /\ Ref(f, w)!Bias \in Nat \ {0} /\ M = 2 * Ref(f, w)!Bias + 1
        /\ L = 1 - Ref(f, w)!Bias - f.F /\ Ref(f, w)!Sign = S /\ Ref(f, w)!Sign \in Nat
    BY Exponents
  <2> HIDE DEF M, L, S
  <2> QED BY <2>1, <2>2
<1>2. P \in Nat \ {0} /\ m \in P .. (2 * P - 1)
  <2>1. PICK n \in Nat \ {0} : n = f.F + 1 /\ n - 1 = f.F
    BY <1>1
  <2>2. 2^n = 2 * 2^(n - 1) /\ 2^(n - 1) \in Nat \ {0} BY Doubled
  <2>3. m \in Nat /\ 2^(n - 1) <= m /\ m < 2^n BY <2>1 DEF Bitlen, HasBits
  <2> QED BY <2>1, <2>2, <2>3
<1> HIDE DEF P, S, M, L, u
<1>3. PICK i \in 0 .. M, j \in 0 .. (P - 1) : i = e + 1 /\ j = m - P /\ i # M /\ i # 0
  BY <1>1, <1>2 DEF M
<1>4. u = s * S + (i * P + j) BY <1>3 DEF u
<1>5. IsPattern(f, u) /\ Rnd(f, h)!sign(u) = s /\ Rnd(f, h)!exp(u) = i /\ Rnd(f, h)!frac(u) = j
  BY <1>3, <1>4, PackedFields DEF P, S, M
<1>6. /\ x = [s |-> Rnd(f, h)!sign(u),
              m |-> IF Rnd(f, h)!exp(u) = 0 THEN Rnd(f, h)!frac(u) ELSE 2^f.F + Rnd(f, h)!frac(u),
              q |-> L + (IF Rnd(f, h)!exp(u) = 0 THEN 0 ELSE Rnd(f, h)!exp(u) - 1)]
      /\ Rnd(f, h)!isZero(u) <=> Ref(f, w)!IsZero(u)
      /\ Ref(f, w)!IsZero(u) <=> Rnd(f, h)!exp(u) = 0 /\ Rnd(f, h)!frac(u) = 0
  BY <1>5, Reads DEF L
<1>7. Nonzero(f, h, u) BY <1>3, <1>5, <1>6 DEF Nonzero, Finite, M
<1>8. RoundsTo(f, mode, x.s, x.m, x.q, Rnd(f, h)!Exact(u))
  BY <1>7, RoundsToItself
<1>9. x.s = s /\ x.m = P + j /\ x.q = L + (i - 1) BY <1>3, <1>5, <1>6 DEF P
<1> HIDE DEF x
<1>10. x.s = s /\ x.m = m /\ x.q = L + e BY <1>1, <1>2, <1>3, <1>9
<1>11. u = Rnd(f, h)!pack(s, e, m)
  <2>1. Rnd(f, h)!pack(s, e, m) = s * S + e * P + m
    BY Zenon DEF Rnd!pack, S, P
  <2>2. (e + 1) * P = e * P + P /\ e * P \in Int /\ s * S \in Int
    BY <1>1, <1>2, <1>3
  <2> QED BY <1>1, <1>2, <2>1, <2>2 DEF u
<1> QED BY <1>8, <1>10, <1>11 DEF L

\* countLeadingZeros, of the working word.
LEMMA LeadingZeros ==
  ASSUME NEW f, NEW h, IsFormat(f, h), IsWord(h), NEW a, NEW n, Bitlen(a, n), n <= Rnd(f, h)!W
  PROVE  Rnd(f, h)!countLeadingZeros(a) = Rnd(f, h)!W - n
<1>1. Rnd(f, h)!W \in {h, 2 * h} BY DEF IsFormat
<1>2. CASE Rnd(f, h)!W = h
  <2>1. Rnd(f, h)!countLeadingZeros(a) = Rnd(f, h)!countLeadingZeros32(a)
    BY <1>2, Zenon DEF Rnd!countLeadingZeros
  <2>2. n <= h BY <1>2
  <2> QED BY <1>2, <2>1, <2>2, WordZeros
<1>3. CASE Rnd(f, h)!W # h
  <2>1. Rnd(f, h)!countLeadingZeros(a) = Rnd(f, h)!countLeadingZeros64(a)
    BY <1>3, Zenon DEF Rnd!countLeadingZeros
  <2>2. n <= 2 * h /\ Rnd(f, h)!W = 2 * h BY <1>1, <1>3
  <2> QED BY <2>1, <2>2, DoublewordZeros
<1> QED BY <1>2, <1>3

\* A number of some bits is not zero.
LEMMA PositiveBits ==
  ASSUME NEW m, NEW n, Bitlen(m, n)
  PROVE  m \in Nat \ {0} /\ n \in Nat \ {0}
<1>1. n \in Nat \ {0} /\ m \in Nat /\ 2^(n - 1) <= m BY DEF Bitlen, HasBits
<1>2. 2^(n - 1) \in Nat \ {0}
  <2>1. PICK c \in Nat : c = n - 1
    BY <1>1
  <2> QED BY <2>1, PowerOfTwo
<1> QED BY <1>1, <1>2

\* What is not zero has some bits.
LEMMA HasBitlen ==
  ASSUME NEW m \in Nat \ {0}, NEW c \in Nat, m < 2^c
  PROVE  \E n \in 1 .. c : Bitlen(m, n)
<1>1. PICK n \in 1 .. c : HasBits(m, n, c)
  BY BitsExist
<1>2. Bitlen(m, n) BY <1>1 DEF Bitlen, HasBits
<1> QED BY <1>2

\* What there is to a working word.
LEMMA WorkingWordIs ==
  ASSUME NEW f, NEW h, IsFormat(f, h), NEW w, NEW e \in Int
  PROVE  /\ f.F \in Nat \ {0} /\ f.G \in Nat /\ f.G >= 2 /\ h \in Nat \ {0}
         /\ Rnd(f, h)!W = f.F + f.G + 2 /\ Ref(f, w)!MinExp \in Int
         /\ Place(f, w, e) \in Int /\ Place(f, w, e) = Ref(f, w)!MinExp + e - f.G
<1>1. f.F \in Nat \ {0} /\ f.G \in Nat /\ f.G >= 2 /\ h \in Nat \ {0}
  BY DEF IsFormat
<1>2. Rnd(f, h)!W = f.F + f.G + 2 BY DEF Rnd!W
<1>3. Ref(f, w)!MinExp \in Int
  <2>1. Ref(f, w)!Bias \in Nat \ {0} /\ Ref(f, w)!MinExp = 1 - Ref(f, w)!Bias - f.F
    BY Exponents
  <2> QED BY <1>1, <2>1
<1>4. Place(f, w, e) = Ref(f, w)!MinExp + e - f.G BY DEF Place
<1>5. Place(f, w, e) \in Int BY <1>1, <1>3, <1>4
<1> QED BY <1>1, <1>2, <1>3, <1>4, <1>5

\* What is in the working word, of a format of any word.
LEMMA WordRounds ==
  ASSUME NEW f, NEW h, IsFormat(f, h), NEW w, NEW mode, NEW s, Directed(mode, s),
         NEW e, e \in Int, NEW sig, Bitlen(sig, f.F + f.G + 1)
  PROVE  /\ sig \in Rnd(f, h)!Hidden .. (Rnd(f, h)!Top - 1)
         /\ RoundsTo(f, mode, s, sig, Place(f, w, e), Rnd(f, h)!roundPack(mode, s, e, sig))
<1> DEFINE n == f.F + f.G + 1
           r == Rnd(f, h)!roundPack(mode, s, e, sig)
           q == Place(f, w, e)
<1>1. f.F \in Nat \ {0} /\ f.G \in Nat /\ mode \in RoundingModes /\ s \in {0, 1}
  BY WorkingWordIs DEF Directed
<1>2. Rnd(f, h)!Hidden = 2^(n - 1) /\ Rnd(f, h)!Top = 2^n /\ 2^n \in Nat /\ 2^(n - 1) \in Nat
      /\ n \in Nat \ {0}
  BY WorkingWord
<1> HIDE DEF n
<1>3. sig \in Nat /\ 2^(n - 1) <= sig /\ sig < 2^n /\ Bitlen(sig, n)
  BY DEF Bitlen, HasBits, n
<1>4. sig \in Rnd(f, h)!Hidden .. (Rnd(f, h)!Top - 1) BY <1>2, <1>3
<1>5. ASSUME NEW v \in Nat, sig < 2^v
      PROVE  Ref(f, v)!Round(mode, [s |-> s, m |-> sig, q |-> q]) = r
  <2>1. v >= f.F + f.G + 1
    <3>1. n <= v BY <1>3, <1>5, BitlenBelow
    <3> QED BY <3>1 DEF n
  <2>2. r = Ref(f, v)!Round(mode, [s |-> s, m |-> sig, q |-> Ref(f, v)!MinExp + e - f.G])
    BY <1>1, <1>4, <2>1, RoundPackIsIeee
  <2>3. Ref(f, v)!MinExp + e - f.G = q
    <3>1. Ref(f, v)!MinExp = Ref(f, w)!MinExp BY DEF Ref!MinExp, Ref!Bias
    <3> QED BY <3>1 DEF Place
  <2> QED BY <2>2, <2>3
<1> HIDE DEF r, q
<1>6. RoundsTo(f, mode, s, sig, q, r) BY <1>5 DEF RoundsTo
<1> QED BY <1>4, <1>6 DEF r, q

\* A number moved up into the working word.
LEMMA MovedRounds ==
  ASSUME NEW f, NEW h, IsFormat(f, h), NEW w, NEW mode, NEW s, Directed(mode, s),
         NEW e, e \in Int, NEW k, NEW n, Bitlen(k, n), NEW i \in Nat, n + i = f.F + f.G + 1
  PROVE  RoundsTo(f, mode, s, k, Place(f, w, e + i), Rnd(f, h)!roundPack(mode, s, e, k * 2^i))
<1> DEFINE r == Rnd(f, h)!roundPack(mode, s, e, k * 2^i)
<1>1. PICK p \in Int : p = Place(f, w, e + i) /\ p - i = Place(f, w, e)
  <2>1. e + i \in Int OBVIOUS
  <2>2. Place(f, w, e + i) = Ref(f, w)!MinExp + (e + i) - f.G /\ Place(f, w, e + i) \in Int
    BY <2>1, WorkingWordIs
  <2>3. f.G \in Nat /\ Ref(f, w)!MinExp \in Int /\ Place(f, w, e) = Ref(f, w)!MinExp + e - f.G
    BY WorkingWordIs
  <2>4. Place(f, w, e + i) - i = Place(f, w, e) BY <2>2, <2>3
  <2> QED BY <2>2, <2>4
<1>2. Bitlen(k * 2^i, f.F + f.G + 1) BY BitlenScaled
<1>3. RoundsTo(f, mode, s, k * 2^i, Place(f, w, e), r) BY <1>2, WordRounds
<1> HIDE DEF r
<1>4. k \in Nat \ {0} BY PositiveBits
<1>5. RoundsTo(f, mode, s, k * 2^i, p - i, r) BY <1>1, <1>3
<1>6. RoundsTo(f, mode, s, k, p, r) BY <1>4, <1>5, Rescaled
<1> QED BY <1>1, <1>6 DEF r

\* A number with a sticky last bit, moved up into the working word.
LEMMA StickyWordRounds ==
  ASSUME NEW f, NEW h, IsFormat(f, h), NEW w, NEW mode, NEW s, Directed(mode, s),
         NEW e, e \in Int, NEW k, NEW n, Bitlen(k, n), NEW i \in Nat, n + i = f.F + f.G + 1,
         n >= f.F + 3, NEW v, NEW j \in Nat, Sticks(k, v, 2^j)
  PROVE  RoundsTo(f, mode, s, v, Place(f, w, e + i) - j, Rnd(f, h)!roundPack(mode, s, e, k * 2^i))
<1> DEFINE r == Rnd(f, h)!roundPack(mode, s, e, k * 2^i)
<1>1. RoundsTo(f, mode, s, k, Place(f, w, e + i), r) BY MovedRounds
<1> HIDE DEF r
<1>2. Place(f, w, e + i) \in Int
  <2>1. e + i \in Int OBVIOUS
  <2> QED BY <2>1, WorkingWordIs
<1>3. k >= 2^(f.F + 2)
  <2>1. PICK c \in Nat : c = f.F + 2
    BY WorkingWordIs
  <2>2. k < 2^c <=> n <= c BY BitlenBelow
  <2>3. k \in Nat /\ 2^c \in Nat /\ n \in Nat /\ f.F \in Nat
    BY PositiveBits, PowerOfTwo, WorkingWordIs
  <2> QED BY <2>1, <2>2, <2>3
<1> QED BY <1>1, <1>2, <1>3, StickyRounds DEF r

\* normRoundPack moves a word up until its leading one is where the
\* roundings want it; when it need not be rounded, it is packed at once.
LEMMA NormRoundPackRounds ==
  ASSUME NEW f, NEW h, IsFormat(f, h), IsWord(h), NEW w, NEW mode, NEW s, Directed(mode, s),
         NEW e, e \in Int, NEW k, NEW n, Bitlen(k, n), n <= f.F + f.G + 1
  PROVE  RoundsTo(f, mode, s, k, Place(f, w, e), Rnd(f, h)!normRoundPack(mode, s, e, k))
<1> DEFINE M == Rnd(f, h)!MaxExp
           L == Ref(f, w)!MinExp
<1>1. /\ f.F \in Nat /\ f.G \in Nat /\ Rnd(f, h)!W = f.F + f.G + 2
      /\ n \in Nat \ {0} /\ k \in Nat \ {0} /\ s \in {0, 1} /\ L \in Int /\ M \in Nat
  <2>1. M \in Nat
    <3>1. Ref(f, w)!Bias \in Nat \ {0} /\ M = 2 * Ref(f, w)!Bias + 1
      BY Exponents
    <3> QED BY <3>1
  <2>2. L \in Int /\ f.F \in Nat /\ f.G \in Nat /\ Rnd(f, h)!W = f.F + f.G + 2
    BY WorkingWordIs
  <2> QED BY <2>1, <2>2, PositiveBits DEF Directed
<1> HIDE DEF M, L
<1>2. PICK c \in Nat : c = f.F + f.G + 1 - n /\ n + c = f.F + f.G + 1
  BY <1>1
<1>3. Rnd(f, h)!countLeadingZeros(k) - 1 = c
  <2>1. n <= Rnd(f, h)!W BY <1>1
  <2>2. Rnd(f, h)!countLeadingZeros(k) = Rnd(f, h)!W - n
    BY <2>1, LeadingZeros
  <2> QED BY <1>1, <1>2, <2>2
<1>4. PICK i \in Int : i = e - c /\ i + c = e
  <2>1. e - c \in Int /\ (e - c) + c = e BY <1>2
  <2> QED BY <2>1
<1>5. Rnd(f, h)!normRoundPack(mode, s, e, k) =
        IF f.G <= c /\ i \in 0 .. (M - 3)
        THEN Rnd(f, h)!Exact(Rnd(f, h)!pack(s, IF k = 0 THEN 0 ELSE i, k * 2^(c - f.G)))
        ELSE Rnd(f, h)!roundPack(mode, s, i, k * 2^c)
  BY <1>3, <1>4, Zenon DEF Rnd!normRoundPack, M
<1>6. CASE f.G <= c /\ i \in 0 .. (M - 3)
  <2> DEFINE r == Rnd(f, h)!Exact(Rnd(f, h)!pack(s, i, k * 2^(c - f.G)))
  <2>1. Rnd(f, h)!normRoundPack(mode, s, e, k) = r
    <3>1. k # 0 BY <1>1
    <3> QED BY <1>5, <1>6, <3>1
  <2>2. PICK j \in Nat : j = c - f.G /\ n + j = f.F + 1
    BY <1>1, <1>2, <1>6
  <2>3. Bitlen(k * 2^j, f.F + 1)
    <3>1. Bitlen(k * 2^j, n + j) BY BitlenScaled
    <3> QED BY <2>2, <3>1
  <2>4. i \in 0 .. (M - 2) BY <1>1, <1>6
  <2>5. RoundsTo(f, mode, s, k * 2^j, L + i, Rnd(f, h)!Exact(Rnd(f, h)!pack(s, i, k * 2^j)))
    BY <1>1, <2>3, <2>4, PackedNumber DEF M, L
  <2>6. PICK p \in Int : p = Place(f, w, e) /\ p - j = L + i
    <3>1. Place(f, w, e) = L + e - f.G /\ Place(f, w, e) \in Int
      BY WorkingWordIs DEF L
    <3> QED BY <1>1, <1>2, <1>4, <2>2, <3>1
  <2>7. RoundsTo(f, mode, s, k * 2^j, p - j, r) BY <2>2, <2>5, <2>6
  <2> HIDE DEF r
  <2>8. RoundsTo(f, mode, s, k, p, r) BY <1>1, <2>7, Rescaled
  <2> QED BY <2>1, <2>6, <2>8
<1>7. CASE ~ (f.G <= c /\ i \in 0 .. (M - 3))
  <2>1. Rnd(f, h)!normRoundPack(mode, s, e, k) = Rnd(f, h)!roundPack(mode, s, i, k * 2^c)
    BY <1>5, <1>7
  <2>2. RoundsTo(f, mode, s, k, Place(f, w, i + c), Rnd(f, h)!roundPack(mode, s, i, k * 2^c))
    BY <1>2, <1>4, MovedRounds
  <2> QED BY <1>4, <2>1, <2>2
<1> QED BY <1>6, <1>7

\* What an integer of magnitude m converts to is m, rounded.
LEMMA IntegerRounds ==
  ASSUME NEW f, NEW mode, NEW w \in Nat, NEW z \in Int, NEW s, NEW m, NEW r,
         s = (IF z < 0 THEN 1 ELSE 0), m = (IF z < 0 THEN -z ELSE z), z # 0, m < 2^w,
         RoundsTo(f, mode, s, m, 0, r)
  PROVE  Ref(f, w)!FromInt(mode, z) = r
<1> DEFINE x == [s |-> s, m |-> m, q |-> 0]
<1>1. Ref(f, w)!Round(mode, x) = r BY DEF RoundsTo
<1>2. x.m # 0 BY SMT
<1>3. Ref(f, w)!FromInt(mode, z) = Ref(f, w)!FromNumber(mode, x)
  BY Zenon DEF Ref!FromInt
<1> HIDE DEF x
<1> QED BY <1>1, <1>2, <1>3, Zenon DEF Ref!FromNumber

\* Zero converts to plus zero.
LEMMA ZeroConverts ==
  ASSUME NEW f, NEW h, NEW mode, NEW w
  PROVE  Ref(f, w)!FromInt(mode, 0) = Rnd(f, h)!Exact(0)
<1> DEFINE x == [s |-> IF 0 < 0 THEN 1 ELSE 0, m |-> IF 0 < 0 THEN -0 ELSE 0, q |-> 0]
<1>1. x.m = 0 /\ x.s = 0 OBVIOUS
<1>2. Ref(f, w)!FromInt(mode, 0) = Ref(f, w)!FromNumber(mode, x)
  BY Zenon DEF Ref!FromInt
<1> HIDE DEF x
<1>3. Ref(f, w)!FromInt(mode, 0) = Ref(f, w)!Zero(0)
  BY <1>1, <1>2, Zenon DEF Ref!FromNumber
<1>4. Ref(f, w)!Signed(0, 0) = 0 BY DEF Ref!Signed
<1>5. Ref(f, w)!Zero(0) = Ref(f, w)!Result(0, {})
  BY <1>4, Zenon DEF Ref!Zero
<1> QED BY <1>3, <1>5, Zenon DEF Ref!Result, Rnd!Exact

\* Exponents, when they reach beyond the word.
LEMMA ReachesIs ==
  ASSUME NEW f, NEW h, IsFormat(f, h), NEW w
  PROVE  /\ Rnd(f, h)!Bias \in Nat \ {0} /\ Rnd(f, h)!MaxExp = 2 * Rnd(f, h)!Bias + 1
         /\ Rnd(f, h)!W = f.F + f.G + 2 /\ f.F \in Nat \ {0} /\ f.G \in Nat
         /\ Ref(f, w)!MinExp = 1 - Rnd(f, h)!Bias - f.F
<1>1. Ref(f, w)!Bias = Rnd(f, h)!Bias BY Zenon DEF Ref!Bias, Rnd!Bias
<1>2. /\ Ref(f, w)!Bias \in Nat \ {0} /\ Rnd(f, h)!MaxExp = 2 * Ref(f, w)!Bias + 1
      /\ Ref(f, w)!MinExp = 1 - Ref(f, w)!Bias - f.F
  BY Exponents
<1>3. Rnd(f, h)!W = f.F + f.G + 2 /\ f.F \in Nat \ {0} /\ f.G \in Nat
  BY WorkingWordIs
<1> QED BY <1>1, <1>2, <1>3

\* The last place of a word of exponent Bias + W - 3 is that of one.
LEMMA UnitPlace ==
  ASSUME NEW f, NEW h, IsFormat(f, h), NEW w, NEW i \in Int
  PROVE  /\ Rnd(f, h)!Bias + Rnd(f, h)!W - 3 \in Int
         /\ Rnd(f, h)!Bias + Rnd(f, h)!W - 3 + i \in Int
         /\ Place(f, w, Rnd(f, h)!Bias + Rnd(f, h)!W - 3 + i) = i
         /\ Place(f, w, Rnd(f, h)!Bias + Rnd(f, h)!W - 3) = 0
<1>1. PICK b \in Nat, d \in Nat, x \in Nat, g \in Nat :
        b = Rnd(f, h)!Bias /\ d = Rnd(f, h)!W /\ x = f.F /\ g = f.G /\ d = x + g + 2
        /\ Ref(f, w)!MinExp = 1 - b - x
  BY ReachesIs
<1>2. b + d - 3 \in Int /\ b + d - 3 + i \in Int OBVIOUS
<1>3. Place(f, w, b + d - 3 + i) = Ref(f, w)!MinExp + (b + d - 3 + i) - g
  BY <1>1 DEF Place
<1>4. Place(f, w, b + d - 3) = Ref(f, w)!MinExp + (b + d - 3) - g
  BY <1>1 DEF Place
<1>5. Place(f, w, b + d - 3 + i) = i /\ Place(f, w, b + d - 3) = 0
  BY <1>1, <1>3, <1>4
<1> QED BY <1>1, <1>2, <1>5

\* A word without its top bit, normalized, rounded and packed.
LEMMA WordToFloat ==
  ASSUME NEW f, NEW h, IsFormat(f, h), IsWord(h), NEW mode, NEW s, Directed(mode, s),
         NEW k \in Nat \ {0}, k < 2^(Rnd(f, h)!W - 1)
  PROVE  RoundsTo(f, mode, s, k, 0,
                  Rnd(f, h)!normRoundPack(mode, s, Rnd(f, h)!Bias + Rnd(f, h)!W - 3, k))
<1> DEFINE e == Rnd(f, h)!Bias + Rnd(f, h)!W - 3
<1>1. e \in Int /\ Place(f, 0, e) = 0 BY UnitPlace
<1> HIDE DEF e
<1>2. PICK c \in Nat : c = f.F + f.G + 1 /\ c = Rnd(f, h)!W - 1
  BY ReachesIs
<1>3. PICK n \in 1 .. c : Bitlen(k, n)
  BY <1>2, HasBitlen
<1>4. n <= f.F + f.G + 1 BY <1>2, <1>3, BitlenBelow
<1>5. RoundsTo(f, mode, s, k, Place(f, 0, e), Rnd(f, h)!normRoundPack(mode, s, e, k))
  BY <1>1, <1>3, <1>4, NormRoundPackRounds
<1> QED BY <1>1, <1>5 DEF e

\* A word with its top bit, moved down by one.
LEMMA TopWordToFloat ==
  ASSUME NEW f, NEW h, IsFormat(f, h), NEW mode, NEW s, Directed(mode, s),
         NEW k, Bitlen(k, Rnd(f, h)!W)
  PROVE  RoundsTo(f, mode, s, k, 0,
                  Rnd(f, h)!roundPack(mode, s, Rnd(f, h)!Bias + Rnd(f, h)!W - 2,
                                      Rnd(f, h)!shortShift64RightJam(k, 1)))
<1> DEFINE e == Rnd(f, h)!Bias + Rnd(f, h)!W - 2
           l == Rnd(f, h)!shortShift64RightJam(k, 1)
           r == Rnd(f, h)!roundPack(mode, s, e, l)
<1>1. e \in Int /\ Place(f, 0, e + 0) = 1
  <2>1. /\ Rnd(f, h)!Bias + Rnd(f, h)!W - 3 + 1 \in Int
        /\ Place(f, 0, Rnd(f, h)!Bias + Rnd(f, h)!W - 3 + 1) = 1
    BY UnitPlace
  <2>2. PICK b, d \in Nat : b = Rnd(f, h)!Bias /\ d = Rnd(f, h)!W
    BY ReachesIs
  <2>3. b + d - 2 \in Int /\ b + d - 2 = b + d - 3 + 1 /\ (b + d - 2) + 0 = b + d - 3 + 1
    OBVIOUS
  <2> QED BY <2>1, <2>2, <2>3
<1>2. PICK n \in Nat : n = Rnd(f, h)!W - 1 /\ n + 0 = f.F + f.G + 1 /\ n >= f.F + 3 /\ 1 < Rnd(f, h)!W
  BY WorkingWordIs
<1>3. Bitlen(l, n) BY <1>2, JamKeepsLength
<1>4. k \in Nat BY PositiveBits
<1>5. Sticks(l, k, 2^1) BY <1>4, ShortJams
<1> HIDE DEF e, l
<1>6. RoundsTo(f, mode, s, k, Place(f, 0, e + 0) - 1, Rnd(f, h)!roundPack(mode, s, e, l * 2^0))
  BY <1>1, <1>2, <1>3, <1>5, StickyWordRounds
<1>7. l * 2^0 = l
  <2>1. l \in Nat BY <1>3, PositiveBits
  <2> QED BY <2>1, PowerZero
<1>8. Place(f, 0, e + 0) - 1 = 0 BY <1>1
<1> QED BY <1>6, <1>7, <1>8 DEF e, l

\* The number of least sign, which has no opposite in the word.
LEMMA LowestToFloat ==
  ASSUME NEW f, NEW h, IsFormat(f, h), Reaches(f, h), NEW mode \in RoundingModes
  PROVE  RoundsTo(f, mode, 1, 2^(Rnd(f, h)!W - 1), 0,
                  Rnd(f, h)!Exact(Rnd(f, h)!pack(1, Rnd(f, h)!Bias + Rnd(f, h)!W - 1, 0)))
<1> DEFINE P == 2^f.F
<1>1. PICK b \in Nat \ {0}, d \in Nat, x \in Nat \ {0}, g \in Nat :
        b = Rnd(f, h)!Bias /\ d = Rnd(f, h)!W /\ x = f.F /\ g = f.G /\ d = x + g + 2
        /\ Rnd(f, h)!MaxExp = 2 * b + 1 /\ Ref(f, 0)!MinExp = 1 - b - x
  BY ReachesIs
<1>2. PICK e \in Nat : e = b + d - 2 /\ e + 1 = b + d - 1 /\ e <= Rnd(f, h)!MaxExp - 2
  <2>1. d <= b + 1 BY <1>1 DEF Reaches
  <2> QED BY <1>1, <2>1
<1>3. PICK i \in Nat : i = d - 1 - x /\ d - 1 = x + i
  BY <1>1
<1>4. P \in Nat \ {0} /\ 2^(d - 1) = P * 2^i
  <2>1. 2^(x + i) = 2^x * 2^i /\ 2^x \in Nat \ {0} BY PowersAdd, PowerOfTwo
  <2> QED BY <1>1, <1>3, <2>1
<1>5. Bitlen(P, f.F + 1)
  <2>1. PICK n \in Nat \ {0} : n = f.F + 1 /\ n - 1 = f.F
    BY <1>1
  <2>2. 2^n = 2 * 2^(n - 1) BY Doubled
  <2>3. 2^(n - 1) <= P /\ P < 2^n BY <1>4, <2>1, <2>2
  <2> QED BY <1>4, <2>1, <2>3, BitlenIs
<1>6. e \in 0 .. (Rnd(f, h)!MaxExp - 2) BY <1>1, <1>2
<1>7. RoundsTo(f, mode, 1, P, Ref(f, 0)!MinExp + e, Rnd(f, h)!Exact(Rnd(f, h)!pack(1, e, P)))
  BY <1>5, <1>6, PackedNumber
<1>8. Rnd(f, h)!pack(1, e, P) = Rnd(f, h)!pack(1, e + 1, 0)
  <2>1. /\ Rnd(f, h)!pack(1, e, P) = 1 * Rnd(f, h)!SignBit + e * P + P
        /\ Rnd(f, h)!pack(1, e + 1, 0) = 1 * Rnd(f, h)!SignBit + (e + 1) * P + 0
    BY Zenon DEF Rnd!pack, P
  <2>2. (e + 1) * P = e * P + P /\ e * P \in Nat BY <1>4
  <2>3. Rnd(f, h)!SignBit \in Nat BY Exponents
  <2> QED BY <1>4, <2>1, <2>2, <2>3
<1> DEFINE r == Rnd(f, h)!Exact(Rnd(f, h)!pack(1, e + 1, 0))
<1>9. RoundsTo(f, mode, 1, P, i, r)
  <2>1. Ref(f, 0)!MinExp + e = i BY <1>1, <1>2, <1>3
  <2> QED BY <1>7, <1>8, <2>1
<1> HIDE DEF P, r
<1>10. Directed(mode, 1) BY DEF Directed
<1>11. RoundsTo(f, mode, 1, P * 2^i, i - i, r)
  BY <1>4, <1>9, <1>10, Rescaled
<1>12. i - i = 0 OBVIOUS
<1> QED BY <1>1, <1>2, <1>4, <1>11, <1>12 DEF r

\* The word's powers of two.
LEMMA TopIs ==
  ASSUME NEW f, NEW h, IsFormat(f, h)
  PROVE  /\ Rnd(f, h)!W \in Nat \ {0} /\ Rnd(f, h)!Top = 2^(Rnd(f, h)!W - 1)
         /\ Rnd(f, h)!Top \in Nat \ {0} /\ 2^Rnd(f, h)!W = 2 * Rnd(f, h)!Top
<1>1. Rnd(f, h)!W \in Nat \ {0}
  <2>1. PICK a \in Nat \ {0}, b \in Nat : a = f.F /\ b = f.G /\ Rnd(f, h)!W = a + b + 2
    BY WorkingWordIs
  <2> QED BY <2>1
<1>2. Rnd(f, h)!Top = 2^(Rnd(f, h)!W - 1) BY Zenon DEF Rnd!Top
<1>3. 2^Rnd(f, h)!W = 2 * 2^(Rnd(f, h)!W - 1) /\ 2^(Rnd(f, h)!W - 1) \in Nat \ {0}
  BY <1>1, Doubled
<1> QED BY <1>1, <1>2, <1>3

\* Both round once.
LEMMA SignedIsIeee ==
  ASSUME NEW f, NEW h, IsFormat(f, h), IsWord(h), Reaches(f, h), NEW mode \in RoundingModes,
         NEW w \in Nat, w >= Rnd(f, h)!W,
         NEW z \in (-Rnd(f, h)!Top) .. (Rnd(f, h)!Top - 1)
  PROVE  FromSigned(f, h, mode, z) = Ref(f, w)!FromInt(mode, z)
<1> DEFINE s == IF z < 0 THEN 1 ELSE 0
           m == IF z < 0 THEN -z ELSE z
           T == Rnd(f, h)!Top
           r == FromSigned(f, h, mode, z)
<1>1. /\ Rnd(f, h)!W \in Nat \ {0} /\ T = 2^(Rnd(f, h)!W - 1) /\ T \in Nat \ {0}
      /\ 2^Rnd(f, h)!W = 2 * T
  BY TopIs
<1> HIDE DEF T
<1>2. z \in Int /\ z < T /\ m \in Nat /\ m <= T /\ s \in {0, 1} /\ Directed(mode, s) /\ Directed(mode, 1)
  BY <1>1 DEF T, Directed
<1>3. 2^Rnd(f, h)!W <= 2^w /\ 2^w \in Nat BY <1>1, PowersGrow, PowerOfTwo
<1>4. m < 2^w BY <1>1, <1>2, <1>3
<1>5. r = IF z \in {0, -T}
          THEN Rnd(f, h)!Exact(IF z < 0 THEN Rnd(f, h)!pack(1, Rnd(f, h)!Bias + Rnd(f, h)!W - 1, 0) ELSE 0)
          ELSE Rnd(f, h)!normRoundPack(mode, Rnd(f, h)!Bit(z < 0),
                                       Rnd(f, h)!Bias + Rnd(f, h)!W - 3, m)
  BY Zenon DEF FromSigned, T
<1> HIDE DEF r
<1>6. CASE z = 0 BY <1>5, <1>6, ZeroConverts DEF r
<1>7. CASE z # 0 /\ z = -T
  <2>1. r = Rnd(f, h)!Exact(Rnd(f, h)!pack(1, Rnd(f, h)!Bias + Rnd(f, h)!W - 1, 0))
    BY <1>1, <1>5, <1>7
  <2>2. s = 1 /\ m = 2^(Rnd(f, h)!W - 1) BY <1>1, <1>7
  <2>3. RoundsTo(f, mode, s, m, 0, r) BY <2>1, <2>2, LowestToFloat
  <2> QED BY <1>2, <1>4, <1>7, <2>3, IntegerRounds DEF r
<1>8. CASE z # 0 /\ z # -T
  <2>1. Rnd(f, h)!Bit(z < 0) = s BY Zenon DEF Rnd!Bit
  <2>2. r = Rnd(f, h)!normRoundPack(mode, s, Rnd(f, h)!Bias + Rnd(f, h)!W - 3, m)
    BY <1>5, <1>8, <2>1
  <2>3. m \in Nat \ {0} /\ m < 2^(Rnd(f, h)!W - 1)
    <3>1. T \in Nat \ {0} BY <1>1
    <3>2. m \in Nat \ {0} /\ m < T BY <1>2, <1>8, <3>1
    <3> HIDE DEF m
    <3> QED BY <1>1, <3>2
  <2> HIDE DEF m, s
  <2>4. RoundsTo(f, mode, s, m, 0, r) BY <1>2, <2>2, <2>3, WordToFloat
  <2> QED BY <1>2, <1>4, <1>8, <2>4, IntegerRounds DEF r, s, m
<1> QED BY <1>6, <1>7, <1>8 DEF r

\* A word without sign, converted, is its number rounded.
LEMMA UnsignedIsIeee ==
  ASSUME NEW f, NEW h, IsFormat(f, h), IsWord(h), NEW mode \in RoundingModes,
         NEW w \in Nat, w >= Rnd(f, h)!W, NEW z \in 0 .. (2^Rnd(f, h)!W - 1)
  PROVE  FromUnsigned(f, h, mode, z) = Ref(f, w)!FromInt(mode, z)
<1> DEFINE T == Rnd(f, h)!Top
           r == FromUnsigned(f, h, mode, z)
<1>1. /\ Rnd(f, h)!W \in Nat \ {0} /\ T = 2^(Rnd(f, h)!W - 1) /\ T \in Nat \ {0}
      /\ 2^Rnd(f, h)!W = 2 * T
  BY TopIs
<1> HIDE DEF T
<1>2. z \in Nat /\ z < 2^Rnd(f, h)!W /\ Directed(mode, 0)
  BY <1>1 DEF Directed
<1>3. 2^Rnd(f, h)!W <= 2^w /\ 2^w \in Nat BY <1>1, PowersGrow, PowerOfTwo
<1>4. z < 2^w BY <1>1, <1>2, <1>3
<1>5. r = IF z = 0 THEN Rnd(f, h)!Exact(0)
          ELSE IF z >= T
          THEN Rnd(f, h)!roundPack(mode, 0, Rnd(f, h)!Bias + Rnd(f, h)!W - 2,
                                   Rnd(f, h)!shortShift64RightJam(z, 1))
          ELSE Rnd(f, h)!normRoundPack(mode, 0, Rnd(f, h)!Bias + Rnd(f, h)!W - 3, z)
  BY Zenon DEF FromUnsigned, T
<1> HIDE DEF r
<1>6. CASE z = 0 BY <1>5, <1>6, ZeroConverts DEF r
<1>7. CASE z # 0
  <2>1. RoundsTo(f, mode, 0, z, 0, r)
    <3>1. CASE z >= T
      <4>1. Bitlen(z, Rnd(f, h)!W) BY <1>1, <1>2, <3>1, BitlenIs
      <4> QED BY <1>2, <1>5, <1>7, <3>1, <4>1, TopWordToFloat
    <3>2. CASE ~ (z >= T)
      <4>1. z \in Nat \ {0} /\ z < 2^(Rnd(f, h)!W - 1)
        BY <1>1, <1>2, <1>7, <3>2
      <4> QED BY <1>2, <1>5, <1>7, <3>2, <4>1, WordToFloat
    <3> QED BY <3>1, <3>2
  <2>2. z \in Int /\ 0 = (IF z < 0 THEN 1 ELSE 0) /\ z = (IF z < 0 THEN -z ELSE z)
    BY <1>2
  <2> QED BY <1>4, <1>7, <2>1, <2>2, IntegerRounds DEF r
<1> QED BY <1>6, <1>7

\* A number of no more bits than a fraction holds, packed.
LEMMA SmallFits ==
  ASSUME NEW f, NEW h, IsFormat(f, h), Reaches(f, h), NEW mode, NEW s, Directed(mode, s),
         NEW k, NEW n, Bitlen(k, n), NEW i \in Nat, n + i = f.F + 1
  PROVE  RoundsTo(f, mode, s, k, 0,
                  Rnd(f, h)!Exact(Rnd(f, h)!pack(s, Rnd(f, h)!Bias + f.F - 1 - i, k * 2^i)))
<1> DEFINE u == Rnd(f, h)!Exact(Rnd(f, h)!pack(s, Rnd(f, h)!Bias + f.F - 1 - i, k * 2^i))
<1>1. PICK b \in Nat \ {0}, d \in Nat, x \in Nat \ {0}, g \in Nat :
        b = Rnd(f, h)!Bias /\ d = Rnd(f, h)!W /\ x = f.F /\ g = f.G /\ d = x + g + 2
        /\ Rnd(f, h)!MaxExp = 2 * b + 1 /\ Ref(f, 0)!MinExp = 1 - b - x
  BY ReachesIs
<1>2. d <= b + 1 BY <1>1 DEF Reaches
<1>3. n \in Nat \ {0} /\ k \in Nat \ {0} /\ s \in {0, 1}
  BY PositiveBits DEF Directed
<1>4. n + i = x + 1 BY <1>1
<1>5. PICK e \in Nat : e = b + x - 1 - i /\ e <= 2 * b - 1
  <2>1. b + x - 1 - i >= 0 BY <1>1, <1>3, <1>4
  <2> QED BY <1>1, <1>2, <2>1
<1>6. e \in 0 .. (Rnd(f, h)!MaxExp - 2) BY <1>1, <1>5
<1>7. Bitlen(k * 2^i, f.F + 1)
  <2>1. Bitlen(k * 2^i, n + i) BY BitlenScaled
  <2> QED BY <2>1
<1>8. RoundsTo(f, mode, s, k * 2^i, Ref(f, 0)!MinExp + e, Rnd(f, h)!Exact(Rnd(f, h)!pack(s, e, k * 2^i)))
  BY <1>3, <1>6, <1>7, PackedNumber
<1>9. Ref(f, 0)!MinExp + e = 0 - i BY <1>1, <1>5
<1>10. u = Rnd(f, h)!Exact(Rnd(f, h)!pack(s, e, k * 2^i)) BY <1>1, <1>5
<1> HIDE DEF u
<1>11. RoundsTo(f, mode, s, k * 2^i, 0 - i, u) BY <1>8, <1>9, <1>10
<1>12. 0 \in Int OBVIOUS
<1> QED BY <1>3, <1>11, <1>12, Rescaled DEF u

\* A doubleword to a format of one word.
LEMMA DoublewordToFloat ==
  ASSUME NEW f, NEW h, IsSingle(f, h), Reaches(f, h), NEW mode, NEW s, Directed(mode, s),
         NEW k \in Nat \ {0}, k < 2^(2 * h)
  PROVE  RoundsTo(f, mode, s, k, 0, Rnd(f, h)!fromWord64(mode, s, k))
<1> DEFINE r == Rnd(f, h)!fromWord64(mode, s, k)
<1>1. /\ IsFormat(f, h) /\ IsWord(h) /\ Rnd(f, h)!W = h
      /\ f.F \in Nat \ {0} /\ f.G \in Nat \ {0, 1} /\ h \in Nat \ {0} /\ h = f.F + f.G + 2
  <2>1. /\ IsFormat(f, h) /\ IsWord(h) /\ Rnd(f, h)!W = h
        /\ f.F \in Nat \ {0} /\ f.G \in Nat /\ f.G >= 3 /\ h = f.F + f.G + 2
    BY SingleIs
  <2> QED BY <2>1
<1>0. PICK a \in Nat : a = 2 * h
  BY <1>1
<1>2. PICK n \in 1 .. a : Bitlen(k, n)
  BY <1>0, HasBitlen
<1>3. PICK fits \in Int : fits = f.F + 1 - n /\ Rnd(f, h)!countLeadingZeros64(k) - (2 * h - f.F - 1) = fits
  <2>1. n <= 2 * h BY <1>0, <1>2
  <2>2. Rnd(f, h)!countLeadingZeros64(k) = 2 * h - n
    BY <1>1, <1>2, <2>1, DoublewordZeros
  <2> QED BY <1>1, <1>2, <2>2
<1>4. PICK c \in Int : c = fits + f.G /\ n + c = f.F + f.G + 1
  BY <1>1, <1>2, <1>3
<1> DEFINE e == Rnd(f, h)!Bias + h - 3 - c
<1>5. r = IF 0 <= fits
          THEN Rnd(f, h)!Exact(Rnd(f, h)!pack(s, Rnd(f, h)!Bias + f.F - 1 - fits, k * 2^fits))
          ELSE Rnd(f, h)!roundPack(mode, s, e,
                                   IF c < 0 THEN Rnd(f, h)!shortShift64RightJam(k, -c) ELSE k * 2^c)
  <2> DEFINE x == Rnd(f, h)!countLeadingZeros64(k) - (2 * h - f.F - 1)
  <2>1. r = IF k = 0 THEN Rnd(f, h)!Exact(0)
            ELSE IF 0 <= x
            THEN Rnd(f, h)!Exact(Rnd(f, h)!pack(s, Rnd(f, h)!Bias + f.F - 1 - x, k * 2^x))
            ELSE Rnd(f, h)!roundPack(mode, s, Rnd(f, h)!Bias + h - 3 - (x + f.G),
                                     IF x + f.G < 0 THEN Rnd(f, h)!shortShift64RightJam(k, -(x + f.G))
                                     ELSE k * 2^(x + f.G))
    BY Zenon DEF Rnd!fromWord64
  <2>2. x = fits BY <1>3
  <2>3. x + f.G = c BY <1>4, <2>2
  <2>4. k # 0 OBVIOUS
  <2> HIDE DEF x, r
  <2> QED BY <2>1, <2>2, <2>3, <2>4, Zenon
<1>6. e \in Int /\ e + c \in Int /\ Place(f, 0, e + c) = 0
  <2>1. PICK b \in Nat : b = Rnd(f, h)!Bias
    BY <1>1, ReachesIs
  <2>2. /\ Place(f, 0, Rnd(f, h)!Bias + Rnd(f, h)!W - 3) = 0
    <3>1. 0 \in Int OBVIOUS
    <3> QED BY <1>1, <3>1, UnitPlace
  <2>3. e \in Int /\ e + c = b + h - 3 /\ e + c \in Int BY <1>1, <2>1
  <2> QED BY <1>1, <2>1, <2>2, <2>3
<1> HIDE DEF r, e
<1>7. CASE 0 <= fits
  <2>1. PICK i \in Nat : i = fits /\ n + i = f.F + 1
    BY <1>1, <1>2, <1>3, <1>7
  <2>2. r = Rnd(f, h)!Exact(Rnd(f, h)!pack(s, Rnd(f, h)!Bias + f.F - 1 - i, k * 2^i))
    BY <1>5, <1>7, <2>1
  <2> QED BY <1>1, <1>2, <2>1, <2>2, SmallFits DEF r
<1>8. CASE ~ (0 <= fits) /\ ~ (c < 0)
  <2>1. PICK i \in Nat : i = c /\ n + i = f.F + f.G + 1
    BY <1>4, <1>8
  <2>2. r = Rnd(f, h)!roundPack(mode, s, e, k * 2^i) BY <1>5, <1>8, <2>1
  <2>3. RoundsTo(f, mode, s, k, Place(f, 0, e + i), r)
    BY <1>1, <1>2, <1>6, <2>1, <2>2, MovedRounds
  <2> QED BY <1>6, <2>1, <2>3 DEF r
<1>9. CASE ~ (0 <= fits) /\ c < 0
  <2>1. PICK j \in Nat, p \in Nat : j = -c /\ n - j = p /\ p + 0 = f.F + f.G + 1 /\ p >= f.F + 3 /\ j < n
    BY <1>1, <1>2, <1>4, <1>9
  <2> DEFINE l == Rnd(f, h)!shortShift64RightJam(k, j)
  <2>2. Bitlen(l, p) /\ Sticks(l, k, 2^j)
    BY <1>2, <2>1, JamKeepsLength, ShortJams
  <2>3. r = Rnd(f, h)!roundPack(mode, s, e, l) BY <1>5, <1>9, <2>1
  <2> HIDE DEF l
  <2>4. RoundsTo(f, mode, s, k, Place(f, 0, e + 0) - j, Rnd(f, h)!roundPack(mode, s, e, l * 2^0))
    BY <1>1, <1>6, <2>1, <2>2, StickyWordRounds
  <2>5. l * 2^0 = l
    <3>1. l \in Nat BY <2>2, PositiveBits
    <3> QED BY <3>1, PowerZero
  <2>6. Place(f, 0, e + 0) - j = 0
    <3>1. e + c \in Int /\ e \in Int /\ e + 0 \in Int BY <1>6
    <3>2. /\ Place(f, 0, e + 0) = Ref(f, 0)!MinExp + (e + 0) - f.G
          /\ Place(f, 0, e + c) = Ref(f, 0)!MinExp + (e + c) - f.G
          /\ Ref(f, 0)!MinExp \in Int
      BY <1>1, <3>1, WorkingWordIs
    <3> QED BY <1>1, <1>6, <2>1, <3>1, <3>2
  <2> QED BY <2>3, <2>4, <2>5, <2>6 DEF r
<1> QED BY <1>7, <1>8, <1>9 DEF r

\* Magnitude and sign of an integer of n bits.
LEMMA Magnitude ==
  ASSUME NEW n \in Nat \ {0}, NEW z, z \in SignedRange(n) \cup UnsignedRange(n),
         NEW s, s = (IF z < 0 THEN 1 ELSE 0), NEW m, m = (IF z < 0 THEN -z ELSE z),
         NEW w \in Nat, w >= n
  PROVE  z \in Int /\ m \in Nat /\ m < 2^n /\ m < 2^w /\ s \in {0, 1} /\ (z # 0 => m # 0)
<1>1. PICK a \in Nat \ {0} : a = 2^(n - 1) /\ 2^n = 2 * a
  <2>1. 2^n = 2 * 2^(n - 1) /\ 2^(n - 1) \in Nat \ {0} BY Doubled
  <2> QED BY <2>1
<1>2. 2^n <= 2^w /\ 2^w \in Nat BY PowersGrow, PowerOfTwo
<1>3. z \in (-a) .. (2 * a - 1) BY <1>1 DEF SignedRange, UnsignedRange
<1>4. z \in Int /\ m \in Nat /\ m < 2 * a /\ s \in {0, 1} /\ (z # 0 => m # 0)
  BY <1>3
<1> QED BY <1>1, <1>2, <1>4

\* The conversions of integers of one and of two words to a format of one
\* word deliver the integer rounded once, with the flags of that rounding.
THEOREM FromIntegerIsIeee ==
  ASSUME NEW f, NEW h, IsSingle(f, h), Reaches(f, h), NEW mode \in RoundingModes,
         NEW w \in Nat, w >= 2 * h, NEW z
  PROVE  /\ z \in SignedRange(h) => Rnd(f, h)!i32_to_f32(mode, z) = Ref(f, w)!FromInt(mode, z)
         /\ z \in UnsignedRange(h) => Rnd(f, h)!ui32_to_f32(mode, z) = Ref(f, w)!FromInt(mode, z)
         /\ z \in SignedRange(2 * h) => Rnd(f, h)!i64_to_f32(mode, z) = Ref(f, w)!FromInt(mode, z)
         /\ z \in UnsignedRange(2 * h) => Rnd(f, h)!ui64_to_f32(mode, z) = Ref(f, w)!FromInt(mode, z)
<1>1. IsFormat(f, h) /\ IsWord(h) /\ Rnd(f, h)!W = h /\ h \in Nat \ {0}
  BY SingleIs DEF IsWord
<1>2. Rnd(f, h)!Top = 2^(h - 1) /\ Rnd(f, h)!Top \in Nat \ {0} /\ w >= Rnd(f, h)!W
  BY <1>1, TopIs
<1>3. ASSUME z \in SignedRange(h)
      PROVE  Rnd(f, h)!i32_to_f32(mode, z) = Ref(f, w)!FromInt(mode, z)
  <2>1. z \in (-Rnd(f, h)!Top) .. (Rnd(f, h)!Top - 1)
    BY <1>2, <1>3 DEF SignedRange
  <2>2. FromSigned(f, h, mode, z) = Ref(f, w)!FromInt(mode, z)
    BY <1>1, <1>2, <2>1, SignedIsIeee
  <2>3. Rnd(f, h)!i32_to_f32(mode, z) = FromSigned(f, h, mode, z)
    BY <1>1, Zenon DEF Rnd!i32_to_f32, FromSigned
  <2> QED BY <2>2, <2>3
<1>4. ASSUME z \in UnsignedRange(h)
      PROVE  Rnd(f, h)!ui32_to_f32(mode, z) = Ref(f, w)!FromInt(mode, z)
  <2>1. z \in 0 .. (2^Rnd(f, h)!W - 1) /\ z \in Nat
    BY <1>1, <1>4 DEF UnsignedRange
  <2>2. FromUnsigned(f, h, mode, z) = Ref(f, w)!FromInt(mode, z)
    BY <1>1, <1>2, <2>1, UnsignedIsIeee
  <2>3. Rnd(f, h)!shortShift64RightJam(z, 1) = Rnd(f, h)!shortShift32Right1Jam(z)
    <3>1. 2^1 = 2 OBVIOUS
    <3>2. z % 2 # 0 <=> z % 2 = 1 BY <2>1
    <3>3. Rnd(f, h)!shortShift64RightJam(z, 1) = Rnd(f, h)!Jam(z \div 2, z % 2 # 0)
      BY <3>1, Zenon DEF Rnd!shortShift64RightJam
    <3> QED BY <3>2, <3>3 DEF Rnd!shortShift32Right1Jam, Rnd!Jam
  <2>4. Rnd(f, h)!ui32_to_f32(mode, z) = FromUnsigned(f, h, mode, z)
    BY <1>1, <2>3, Zenon DEF Rnd!ui32_to_f32, FromUnsigned
  <2> QED BY <2>2, <2>4
<1>5. ASSUME z \in SignedRange(2 * h) \cup UnsignedRange(2 * h),
             NEW s, s = (IF z < 0 THEN 1 ELSE 0), NEW m, m = (IF z < 0 THEN -z ELSE z)
      PROVE  Rnd(f, h)!fromWord64(mode, s, m) = Ref(f, w)!FromInt(mode, z)
  <2>1. 2 * h \in Nat \ {0} BY <1>1
  <2>2. z \in Int /\ m \in Nat /\ m < 2^(2 * h) /\ m < 2^w /\ s \in {0, 1} /\ (z # 0 => m # 0)
    BY <1>5, <2>1, Magnitude
  <2>3. CASE z = 0
    <3>1. m = 0 BY <1>5, <2>3
    <3>2. Rnd(f, h)!fromWord64(mode, s, m) = Rnd(f, h)!Exact(0)
      BY <3>1, Zenon DEF Rnd!fromWord64
    <3> QED BY <2>3, <3>2, ZeroConverts
  <2>4. CASE z # 0
    <3>1. RoundsTo(f, mode, s, m, 0, Rnd(f, h)!fromWord64(mode, s, m))
      BY <2>2, <2>4, DoublewordToFloat DEF Directed
    <3> QED BY <1>5, <2>2, <2>4, <3>1, IntegerRounds
  <2> QED BY <2>3, <2>4
<1>6. ASSUME z \in SignedRange(2 * h)
      PROVE  Rnd(f, h)!i64_to_f32(mode, z) = Ref(f, w)!FromInt(mode, z)
  <2>1. Rnd(f, h)!i64_to_f32(mode, z) =
          Rnd(f, h)!fromWord64(mode, IF z < 0 THEN 1 ELSE 0, IF z < 0 THEN -z ELSE z)
    BY Zenon DEF Rnd!i64_to_f32, Rnd!Bit
  <2> QED BY <1>5, <1>6, <2>1
<1>7. ASSUME z \in UnsignedRange(2 * h)
      PROVE  Rnd(f, h)!ui64_to_f32(mode, z) = Ref(f, w)!FromInt(mode, z)
  <2>1. Rnd(f, h)!ui64_to_f32(mode, z) = Rnd(f, h)!fromWord64(mode, 0, z)
    BY Zenon DEF Rnd!ui64_to_f32
  <2>2. 0 = (IF z < 0 THEN 1 ELSE 0) /\ z = (IF z < 0 THEN -z ELSE z)
    <3>1. z \in Nat
      <4>1. 2^(2 * h) \in Nat
        <5>1. 2 * h \in Nat BY <1>1
        <5> QED BY <5>1, PowerOfTwo
      <4> QED BY <1>7, <4>1 DEF UnsignedRange
    <3> QED BY <3>1
  <2> QED BY <1>5, <1>7, <2>1, <2>2
<1> QED BY <1>3, <1>4, <1>6, <1>7

----
\* Division of one word

\* f32_div by its cases.
LEMMA DivParts ==
  ASSUME NEW f, NEW h, NEW mode, NEW a, NEW b
  PROVE  LET s == (Rnd(f, h)!sign(a) + Rnd(f, h)!sign(b)) % 2
         IN Rnd(f, h)!f32_div(mode, a, b) =
              CASE Rnd(f, h)!isNaN(a) \/ Rnd(f, h)!isNaN(b) -> Rnd(f, h)!propagateNaN(a, b)
                [] (Rnd(f, h)!isInf(a) /\ Rnd(f, h)!isInf(b)) \/ (Rnd(f, h)!isZero(a) /\ Rnd(f, h)!isZero(b)) ->
                     Rnd(f, h)!Invalid
                [] Rnd(f, h)!isInf(a) /\ Rnd(f, h)!exp(b) # Rnd(f, h)!MaxExp ->
                     Rnd(f, h)!Exact(Rnd(f, h)!pack(s, Rnd(f, h)!MaxExp, 0))
                [] Rnd(f, h)!isZero(b) /\ Rnd(f, h)!exp(a) # Rnd(f, h)!MaxExp /\ ~ Rnd(f, h)!isZero(a) ->
                     [z |-> Rnd(f, h)!pack(s, Rnd(f, h)!MaxExp, 0), flags |-> {"infinity"}]
                [] (Rnd(f, h)!isInf(b) /\ Rnd(f, h)!exp(a) # Rnd(f, h)!MaxExp)
                     \/ (Rnd(f, h)!isZero(a) /\ Rnd(f, h)!exp(b) # Rnd(f, h)!MaxExp /\ ~ Rnd(f, h)!isZero(b)) ->
                     Rnd(f, h)!Exact(Rnd(f, h)!pack(s, 0, 0))
                [] OTHER -> Divided(f, h, mode, s, Rnd(f, h)!unpacked(a), Rnd(f, h)!unpacked(b))
BY Zenon DEF Rnd!f32_div, Rnd!divWith, Divided, QuotientWord, Rnd!M32

\* Quotients with a sticky bit of fractions that are equal.
LEMMA StickyScaled ==
  ASSUME NEW k, NEW v \in Nat, NEW d \in Nat \ {0}, NEW c \in Nat \ {0}
  PROVE  Sticks(k, v, d) <=> Sticks(k, v * c, d * c)
<1>1. SUFFICES ASSUME k \in Nat
               PROVE  Sticks(k, v, d) <=> Sticks(k, v * c, d * c)
  BY DEF Sticks
<1>2. v * c \in Nat /\ d * c \in Nat \ {0} OBVIOUS
<1>3. ASSUME NEW x \in Int, NEW y \in Int
      PROVE  x < y <=> x * c < y * c
  OBVIOUS
<1>4. PICK a \in Int, b \in Int, e \in Int : a = k * d /\ b = (k - 1) * d /\ e = (k + 1) * d
  BY <1>1
<1>5. k * (d * c) = a * c /\ (k - 1) * (d * c) = b * c /\ (k + 1) * (d * c) = e * c
  BY <1>1, <1>4
<1>6. (v = a <=> v * c = a * c) /\ (b < v <=> b * c < v * c) /\ (v < e <=> v * c < e * c)
  <2>1. (b < v <=> b * c < v * c) /\ (v < e <=> v * c < e * c) BY <1>3
  <2>2. (a < v <=> a * c < v * c) /\ (v < a <=> v * c < a * c) BY <1>3
  <2>3. a * c \in Int /\ v * c \in Int OBVIOUS
  <2> QED BY <2>1, <2>2, <2>3
<1>7. Sticks(k, v, d) <=> (IF k % 2 = 0 THEN v = a ELSE b < v /\ v < e)
  BY <1>1, <1>4 DEF Sticks
<1>8. Sticks(k, v * c, d * c) <=> (IF k % 2 = 0 THEN v * c = a * c ELSE b * c < v * c /\ v * c < e * c)
  BY <1>1, <1>2, <1>5 DEF Sticks
<1> QED BY <1>6, <1>7, <1>8

\* A coarse quotient sticks for a finer one when both stick for one number.
LEMMA StickyCoarser ==
  ASSUME NEW c, NEW k, NEW v \in Nat, NEW d \in Nat \ {0}, NEW e \in Nat \ {0}, e % 2 = 0,
         Sticks(c, v, d * e), Sticks(k, v, d)
  PROVE  Sticks(c, k, e)
<1>1. c \in Nat /\ k \in Nat BY DEF Sticks
<1>2. ASSUME NEW x \in Int, NEW y \in Int
      PROVE  x < y <=> x * d < y * d
  OBVIOUS
<1>3. PICK a \in Int, b \in Int, g \in Int : a = c * e /\ b = (c - 1) * e /\ g = (c + 1) * e
  BY <1>1
<1>4. a % 2 = 0 /\ b % 2 = 0 /\ g % 2 = 0
  <2>1. PICK n \in Nat : e = 2 * n
    BY NaturalDivision
  <2>2. PICK x \in Int, y \in Int, z \in Int : x = c * n /\ y = (c - 1) * n /\ z = (c + 1) * n
    BY <1>1
  <2>3. a = 2 * x /\ b = 2 * y /\ g = 2 * z BY <1>1, <1>3, <2>1, <2>2
  <2> QED BY <2>3
<1>5. c * (d * e) = a * d /\ (c - 1) * (d * e) = b * d /\ (c + 1) * (d * e) = g * d
  BY <1>1, <1>3
<1>6. IF c % 2 = 0 THEN v = a * d ELSE b * d < v /\ v < g * d
  BY <1>1, <1>5 DEF Sticks
<1>7. IF k % 2 = 0 THEN v = k * d ELSE (k - 1) * d < v /\ v < (k + 1) * d
  BY <1>1 DEF Sticks
<1>8. CASE k % 2 = 0
  <2>1. (c % 2 = 0 => k = a) /\ (c % 2 # 0 => b < k /\ k < g)
    <3>1. v = k * d BY <1>7, <1>8
    <3>2. (b < k <=> b * d < k * d) /\ (k < g <=> k * d < g * d)
      BY <1>1, <1>2
    <3>3. (a < k <=> a * d < k * d) /\ (k < a <=> k * d < a * d)
      BY <1>1, <1>2
    <3>4. a * d \in Int /\ k * d \in Int BY <1>1
    <3> QED BY <1>1, <1>6, <3>1, <3>2, <3>3, <3>4
  <2> QED BY <1>1, <1>3, <2>1 DEF Sticks
<1>9. CASE k % 2 # 0
  <2>1. (k - 1) * d < v /\ v < (k + 1) * d BY <1>7, <1>9
  <2>2. c % 2 # 0
    <3>1. SUFFICES ASSUME c % 2 = 0
                   PROVE  FALSE
      OBVIOUS
    <3>2. (k - 1) * d < a * d /\ a * d < (k + 1) * d BY <1>6, <2>1, <3>1
    <3>3. k - 1 < a /\ a < k + 1 BY <1>1, <1>2, <3>2
    <3> QED BY <1>1, <1>4, <1>9, <3>3
  <2>3. b * d < v /\ v < g * d BY <1>1, <1>6, <2>2
  <2>4. b * d < (k + 1) * d /\ (k - 1) * d < g * d
    <3>1. b * d \in Int /\ g * d \in Int /\ (k + 1) * d \in Int /\ (k - 1) * d \in Int
      BY <1>1
    <3> QED BY <2>1, <2>3, <3>1
  <2>5. b < k + 1 /\ k - 1 < g BY <1>1, <1>2, <2>4
  <2>6. b < k /\ k < g BY <1>1, <1>4, <1>9, <2>5
  <2> QED BY <1>1, <1>3, <2>2, <2>6 DEF Sticks
<1> QED BY <1>1, <1>8, <1>9

\* A multiple of an even number.
LEMMA TimesOver ==
  ASSUME NEW i \in Nat, NEW d \in Nat \ {0}
  PROVE  (i * (2 * d)) % (2 * d) = 0
<1>1. PICK D \in Nat \ {0} : D = 2 * d OBVIOUS
<1>2. PICK n \in Int : n = i * D + 0
  BY <1>1
<1>3. n % D = 0 BY <1>2, DivisionIs
<1>4. n = i * D BY <1>1, <1>2
<1> QED BY <1>1, <1>3, <1>4, Zenon

\* The word of the code's quotient, cut to half its round bits, sticks for
\* the quotient: the remainder is jammed when those bits are 0, and needs
\* no jamming when they are not.
LEMMA QuotientSticks ==
  ASSUME NEW f, NEW h, NEW n \in Nat, NEW y \in Nat \ {0}, NEW d \in Nat \ {0}, d % 2 = 0,
         NEW z, z = n \div y,
         NEW c, c = Jammed(f, h, n, y, d, z)
  PROVE  c \in Nat /\ Sticks(Cut(f, h, c, d), n, y * d)
<1>1. PICK k \in Nat, r \in 0 .. (y - 1) : n = k * y + r /\ k = z /\ r = n % y
  BY NaturalDivision
<1>2. y * z # n <=> n % y # 0
  <2>1. PICK p \in Nat : p = k * y
    BY <1>1
  <2>2. y * z = p BY <1>1, <2>1
  <2> QED BY <1>1, <2>1, <2>2
<1>3. CASE z % (2 * d) = 0
  <2>1. c = Rnd(f, h)!Jam(n \div y, n % y # 0) BY <1>2, <1>3 DEF Jammed
  <2>2. Sticks(c, n, y) BY <2>1, JamSticks
  <2>3. c \in Nat BY <2>2 DEF Sticks
  <2>4. Sticks(Cut(f, h, c, d), c, d) BY <2>3, JamSticks DEF Cut
  <2> HIDE DEF Sticks
  <2> QED BY <2>2, <2>3, <2>4, StickyComposes
<1>4. CASE z % (2 * d) # 0
  <2>1. c = z /\ c \in Nat BY <1>1, <1>4 DEF Jammed
  <2>2. PICK l : l = Cut(f, h, c, d) OBVIOUS
  <2>3. Sticks(l, c, d) BY <2>1, <2>2, JamSticks DEF Cut
  <2>4. l \in Nat BY <2>3 DEF Sticks
  <2>5. l % 2 # 0
    <3>1. SUFFICES ASSUME l % 2 = 0
                   PROVE  FALSE
      OBVIOUS
    <3>2. c = l * d BY <2>4, <3>1, <2>3 DEF Sticks
    <3>3. PICK i \in Nat : l = 2 * i
      BY <2>4, <3>1
    <3>4. l * d = i * (2 * d) BY <3>3
    <3>5. (i * (2 * d)) % (2 * d) = 0 BY TimesOver
    <3>6. z % (2 * d) = 0 BY <2>1, <3>2, <3>4, <3>5, Zenon
    <3> QED BY <1>4, <3>6
  <2>6. PICK a \in Int, b \in Int : a = (l - 1) * d /\ b = (l + 1) * d /\ a < c /\ c < b
    BY <2>3, <2>4, <2>5 DEF Sticks
  <2>7. a * y < n /\ n < b * y
    <3>1. a + 1 <= k /\ k + 1 <= b BY <1>1, <2>1, <2>6
    <3>2. (a + 1) * y <= k * y /\ (k + 1) * y <= b * y BY <3>1
    <3>3. (a + 1) * y = a * y + y /\ (k + 1) * y = k * y + y OBVIOUS
    <3>4. a * y \in Int /\ b * y \in Int /\ k * y \in Int OBVIOUS
    <3> QED BY <1>1, <3>2, <3>3, <3>4
  <2>8. (l - 1) * (y * d) = a * y /\ (l + 1) * (y * d) = b * y BY <2>4, <2>6
  <2>9. y * d \in Nat \ {0} OBVIOUS
  <2>10. Sticks(l, n, y * d) BY <2>4, <2>5, <2>7, <2>8, <2>9 DEF Sticks
  <2> QED BY <2>1, <2>2, <2>10
<1> QED BY <1>3, <1>4

\* What is a multiple of an even number is even.
LEMMA EvenWhenMultiple ==
  ASSUME NEW z \in Nat, NEW d \in Nat \ {0}, z % (2 * d) = 0
  PROVE  z % 2 = 0
<1>1. PICK D \in Nat \ {0} : D = 2 * d OBVIOUS
<1>2. PICK o \in Nat : z = o * D
  <2>1. PICK o \in Nat, r \in 0 .. (D - 1) : z = o * D + r /\ r = z % D
    BY NaturalDivision
  <2>2. r = 0 BY <1>1, <2>1
  <2>3. z = o * D BY <2>1, <2>2
  <2> QED BY <2>3
<1>3. PICK i \in Nat : i = o * d OBVIOUS
<1>4. z = 2 * i BY <1>1, <1>2, <1>3
<1> QED BY <1>4

\* The code's quotient word n / y, packed, is the quotient rounded, which
\* any fine enough k that sticks for the same quotient gives.
LEMMA QuotientRounds ==
  ASSUME NEW f, NEW h, IsSingle(f, h), NEW w, NEW mode, NEW s, Directed(mode, s), NEW e, e \in Int,
         NEW a \in Nat, NEW b \in Nat \ {0}, NEW x \in Nat, NEW l \in Nat, NEW g \in Nat,
         NEW n, NEW y, Fraction(n, y, a, b, x, l), NEW z, NEW c, Quotient(f, h, n, y, z, c),
         NEW k, Sticks(k, a * 2^g, b), NEW j \in Nat \ {0}, x + j = l + (f.G - 2) + g
  PROVE  RoundsTo(f, mode, s, k, Place(f, w, e + (f.G - 2)) - j, Rnd(f, h)!roundPack(mode, s, e, c))
<1>1. IsFormat(f, h) /\ f.F \in Nat \ {0} /\ f.G \in Nat /\ f.G >= 3
  BY SingleIs
<1>2. PICK G \in Nat \ {0} : G = f.G - 2 /\ f.G - 1 = G + 1
  BY <1>1
<1>3. PICK d \in Nat \ {0} : d = 2^G /\ d % 2 = 0 /\ 2^(f.G - 1) = 2 * d
  <2>1. 2^G = 2 * 2^(G - 1) /\ 2^(G - 1) \in Nat \ {0} BY Doubled
  <2>2. G + 1 \in Nat \ {0} /\ (G + 1) - 1 = G OBVIOUS
  <2>3. 2^(G + 1) = 2 * 2^G BY <2>2, Doubled
  <2> QED BY <1>2, <2>1, <2>3
<1>4. PICK u \in Nat \ {0}, v \in Nat \ {0}, t \in Nat \ {0} : u = 2^x /\ v = 2^l /\ t = 2^g
  BY PowerOfTwo
<1>5. n \in Nat /\ y \in Nat \ {0} /\ n = a * u /\ y = b * v
  BY <1>4 DEF Fraction
<1> DEFINE m == Cut(f, h, c, d)
<1>6. /\ z = n \div y /\ Bitlen(z, f.F + f.G + 1)
      /\ c = Jammed(f, h, n, y, d, z)
  BY <1>3, Zenon DEF Quotient, Jammed
<1>7. c \in Nat /\ Sticks(m, n, y * d)
  <2>1. d % 2 = 0 BY <1>3
  <2>2. n \in Nat /\ y \in Nat \ {0} BY <1>5
  <2> QED BY <1>6, <2>1, <2>2, QuotientSticks, Zenon
<1>8. PICK N \in Nat \ {0} : N = f.F + f.G + 1
  BY <1>1
<1>9. Bitlen(c, N)
  <2>1. PICK T \in Nat : 2^N = 2 * T /\ 2^(N - 1) = T
    BY Doubled
  <2>2. z \in Nat /\ T <= z /\ z < 2 * T
    <3>1. Bitlen(z, N) BY <1>6, <1>8
    <3> QED BY <2>1, <3>1 DEF Bitlen, HasBits
  <2>3. c = z \/ (c = z + 1 /\ z % 2 = 0)
    <3>1. CASE z % (2 * d) = 0
      <4>1. c = z \/ c = (IF z % 2 = 0 THEN z + 1 ELSE z)
        BY <1>6, <3>1 DEF Jammed, Rnd!Jam
      <4>2. z % 2 = 0 BY <2>2, <3>1, EvenWhenMultiple
      <4> QED BY <4>1, <4>2
    <3>2. CASE z % (2 * d) # 0 BY <1>6, <3>2 DEF Jammed
    <3> QED BY <3>1, <3>2
  <2>4. c \in Nat /\ T <= c /\ c < 2 * T BY <2>2, <2>3
  <2>5. c \in Nat /\ 2^(N - 1) <= c /\ c < 2^N BY <2>1, <2>4
  <2> QED BY <2>5, BitlenIs
<1>10. m = Rnd(f, h)!shortShift64RightJam(c, G)
  BY <1>3, Zenon DEF Cut, Rnd!shortShift64RightJam
<1>11. Bitlen(m, N - G) /\ N - G = f.F + 3 /\ G < N
  <2>1. N - G = f.F + 3 /\ G < N BY <1>1, <1>2, <1>8
  <2>2. Bitlen(Rnd(f, h)!shortShift64RightJam(c, G), N - G)
    BY <1>9, <2>1, JamKeepsLength
  <2> QED BY <1>10, <2>1, <2>2
<1>12. Sticks(m, c, 2^G) BY <1>3, <1>7, JamSticks DEF Cut
<1> HIDE DEF m
<1> DEFINE r == Rnd(f, h)!roundPack(mode, s, e, c)
           q == Rnd(f, h)!roundPack(mode, s, e, m * 2^G)
<1>13. PICK E \in Int : E = Place(f, w, e + G) /\ Place(f, w, e) = E - G
  <2>1. e + G \in Int OBVIOUS
  <2>2. Place(f, w, e + G) = Ref(f, w)!MinExp + (e + G) - f.G /\ Place(f, w, e + G) \in Int
    BY <1>1, <2>1, WorkingWordIs
  <2>3. Place(f, w, e) = Ref(f, w)!MinExp + e - f.G /\ Ref(f, w)!MinExp \in Int
    BY <1>1, WorkingWordIs
  <2> QED BY <1>1, <2>2, <2>3
<1>14. RoundsTo(f, mode, s, c, Place(f, w, e), r)
  BY <1>1, <1>8, <1>9, WordRounds
<1>15. RoundsTo(f, mode, s, m, Place(f, w, e + G), q)
  <2>1. (N - G) + G = f.F + f.G + 1 BY <1>8
  <2> QED BY <1>1, <1>11, <2>1, MovedRounds
<1> HIDE DEF r, q
<1>16. m >= 2^(f.F + 2)
  <2>1. PICK M \in Nat \ {0} : M = N - G /\ M - 1 = f.F + 2
    BY <1>1, <1>11
  <2>2. 2^(M - 1) <= m BY <1>11, <2>1 DEF Bitlen, HasBits
  <2> QED BY <2>1, <2>2
<1>17. RoundsTo(f, mode, s, c, E - G, q)
  BY <1>1, <1>12, <1>13, <1>15, <1>16, StickyRounds
<1>18. q = r
  <2>1. c < 2^N BY <1>9 DEF Bitlen, HasBits
  <2>2. RoundsTo(f, mode, s, c, E - G, r) BY <1>13, <1>14
  <2> QED BY <1>17, <2>1, <2>2 DEF RoundsTo
<1>19. Sticks(m, k, 2^j)
  <2>1. PICK J \in Nat \ {0} : J = 2^j /\ J % 2 = 0
    <3>1. 2^j = 2 * 2^(j - 1) /\ 2^(j - 1) \in Nat \ {0} BY Doubled
    <3> QED BY <3>1
  <2>2. J * u = v * d * t
    <3>1. 2^(x + j) = 2^x * 2^j BY PowersAdd
    <3>2. x + j = l + G + g /\ l + G \in Nat BY <1>2
    <3>3. 2^(l + G + g) = 2^(l + G) * 2^g BY <3>2, PowersAdd
    <3>4. 2^(l + G) = 2^l * 2^G BY PowersAdd
    <3> QED BY <1>3, <1>4, <2>1, <3>1, <3>2, <3>3, <3>4
  <2>3. Sticks(m, n * t, (y * d) * t)
    <3>1. y * d \in Nat \ {0} BY <1>3, <1>5
    <3>2. n \in Nat /\ Sticks(m, n, y * d) BY <1>5, <1>7 DEF m
    <3> QED BY <3>1, <3>2, StickyScaled, Zenon
  <2>4. n * t = (a * t) * u BY <1>4, <1>5
  <2>5. (y * d) * t = (b * J) * u
    <3>1. PICK p \in Nat : p = J * u
      BY <1>4, <2>1
    <3>2. (y * d) * t = b * (v * d * t) BY <1>3, <1>4, <1>5
    <3>3. (b * J) * u = b * p BY <1>4, <2>1, <3>1
    <3> QED BY <2>2, <3>1, <3>2, <3>3
  <2>6. Sticks(m, (a * t) * u, (b * J) * u) BY <2>3, <2>4, <2>5, Zenon
  <2>7. Sticks(m, a * t, b * J)
    <3>1. a * t \in Nat /\ b * J \in Nat \ {0} BY <1>4, <2>1
    <3> QED BY <1>4, <2>6, <3>1, StickyScaled
  <2>8. Sticks(k, a * t, b) BY <1>4
  <2>9. a * t \in Nat BY <1>4
  <2> QED BY <2>1, <2>7, <2>8, <2>9, StickyCoarser
<1>20. RoundsTo(f, mode, s, k, E - j, q)
  BY <1>1, <1>13, <1>15, <1>16, <1>19, StickyRounds
<1> QED BY <1>2, <1>13, <1>18, <1>20 DEF r

\* An operand keeps to its places.
LEMMA StandsForIs ==
  ASSUME NEW f, NEW h, f.F \in Nat, NEW w, Ref(f, w)!MinExp \in Int,
         NEW x, NEW A, NEW i, StandsFor(f, h, w, x, A, i)
  PROVE  Places(f.F, Ref(f, w)!MinExp, x, A, i)
<1>1. /\ A.exp \in Int /\ i \in Nat /\ x.m \in Nat \ {0} /\ x.q \in Int /\ A.sig = x.m * 2^i
      /\ x.q = Ref(f, w)!MinExp + A.exp - 1 + i
  BY Zenon DEF StandsFor, Moves
<1>2. PICK P \in Nat \ {0} : P = 2^f.F /\ 2^(f.F + 1) = 2 * P
  <2>1. f.F + 1 \in Nat \ {0} /\ (f.F + 1) - 1 = f.F OBVIOUS
  <2> QED BY <2>1, Doubled
<1>3. A.sig \in Nat \ {0} /\ P <= A.sig /\ A.sig < 2 * P
  <2>1. PICK n \in Nat \ {0} : n = f.F + 1 /\ n - 1 = f.F OBVIOUS
  <2>2. Bitlen(A.sig, n) BY <2>1 DEF StandsFor
  <2>3. A.sig \in Nat /\ 2^(n - 1) <= A.sig /\ A.sig < 2^n
    BY <2>2 DEF Bitlen, HasBits
  <2> QED BY <1>2, <2>1, <2>3
<1>4. PICK p \in Nat \ {0} : p = 2^i /\ A.sig = x.m * p
  BY <1>1, PowerOfTwo
<1>5. x.m <= x.m * p /\ p <= x.m * p BY <1>1
<1>6. i <= f.F
  <2>1. SUFFICES ASSUME i >= f.F + 1
                 PROVE  FALSE
    BY <1>1
  <2>2. f.F + 1 \in Nat /\ i \in Nat BY <1>1
  <2>3. 2^(f.F + 1) <= 2^i BY <2>1, <2>2, PowersGrow
  <2> QED BY <1>2, <1>3, <1>4, <1>5, <2>3
<1> QED BY <1>1, <1>2, <1>3, <1>4, <1>5, <1>6 DEF Places

\* The bits of a quotient between two powers.
LEMMA QuotientBits ==
  ASSUME NEW n \in Nat, NEW y \in Nat \ {0}, NEW c \in Nat \ {0},
         y * 2^(c - 1) <= n, n < y * 2^c
  PROVE  Bitlen(n \div y, c)
<1>1. PICK T \in Nat \ {0} : T = 2^(c - 1) /\ 2^c = 2 * T
  BY Doubled
<1>2. y * T <= n /\ n < y * (2 * T) BY <1>1
<1>3. PICK k \in Nat, r \in 0 .. (y - 1) : n = k * y + r /\ k = n \div y
  BY NaturalDivision
<1>4. T <= k
  <2>1. SUFFICES ASSUME k + 1 <= T
                 PROVE  FALSE
    BY <1>3
  <2>2. (k + 1) * y <= T * y /\ (k + 1) * y = k * y + y /\ T * y = y * T
    BY <2>1
  <2>3. k * y \in Nat /\ y * T \in Nat BY <1>3
  <2> QED BY <1>2, <1>3, <2>2, <2>3
<1>5. k < 2 * T
  <2>1. SUFFICES ASSUME 2 * T <= k
                 PROVE  FALSE
    BY <1>1, <1>3
  <2>2. (2 * T) * y <= k * y /\ (2 * T) * y = y * (2 * T) BY <1>1, <2>1
  <2>3. k * y \in Nat /\ y * (2 * T) \in Nat BY <1>1, <1>3
  <2> QED BY <1>2, <1>3, <2>2, <2>3
<1>6. k \in Nat /\ 2^(c - 1) <= k /\ k < 2^c BY <1>1, <1>4, <1>5
<1> QED BY <1>3, <1>6, BitlenIs

\* The reference's quotient sticks for the quotient of the numbers.
LEMMA ReferenceSticks ==
  ASSUME NEW a \in Nat, NEW b \in Nat \ {0}, NEW c \in Nat, NEW n, n = a * 2^c,
         NEW k, k = 2 * (n \div b) + (IF n % b = 0 THEN 0 ELSE 1)
  PROVE  Sticks(k, a * 2^(c + 1), b) /\ k <= 2 * n + 1
<1>1. PICK p \in Nat : p = 2^c /\ 2^(c + 1) = 2 * p
  <2>1. c + 1 \in Nat \ {0} /\ (c + 1) - 1 = c OBVIOUS
  <2> QED BY <2>1, Doubled
<1>2. PICK v \in Nat : v = a * p /\ v = n /\ a * 2^(c + 1) = 2 * v
  BY <1>1
<1>3. PICK d \in Nat, r \in 0 .. (b - 1) : v = d * b + r /\ d = n \div b /\ r = n % b
  BY <1>2, NaturalDivision
<1>4. PICK g \in Nat : g = d * b /\ d <= g
  <2>1. d * b \in Nat /\ d * 1 <= d * b BY <1>3
  <2> QED BY <2>1
<1>5. k = 2 * d + (IF r = 0 THEN 0 ELSE 1) BY <1>3
<1>6. (2 * d) * b = 2 * g /\ (2 * d + 2) * b = 2 * g + 2 * b BY <1>4
<1>7. k \in Nat /\ Sticks(k, 2 * v, b)
  <2>1. CASE r = 0
    <3>1. k = 2 * d /\ k \in Nat /\ k % 2 = 0 BY <1>5, <2>1
    <3>2. 2 * v = k * b
      <4>1. v = g BY <1>3, <1>4, <2>1
      <4>2. k * b = 2 * g BY <1>6, <3>1, Zenon
      <4> QED BY <4>1, <4>2, Zenon
    <3> QED BY <1>2, <3>1, <3>2 DEF Sticks
  <2>2. CASE r # 0
    <3>1. k = 2 * d + 1 /\ k \in Nat /\ k % 2 = 1 /\ k - 1 = 2 * d /\ k + 1 = 2 * d + 2
      <4>1. k = 2 * d + 1 BY <1>5, <2>2, Zenon
      <4>2. (2 * d + 1) % 2 = 1 /\ 2 * d + 1 \in Nat /\ (2 * d + 1) - 1 = 2 * d /\ (2 * d + 1) + 1 = 2 * d + 2
        OBVIOUS
      <4> QED BY <4>1, <4>2, Zenon
    <3>2. (k - 1) * b < 2 * v /\ 2 * v < (k + 1) * b
      BY <1>3, <1>4, <1>6, <2>2, <3>1
    <3> QED BY <1>2, <3>1, <3>2 DEF Sticks
  <2> QED BY <2>1, <2>2
<1>8. k <= 2 * n + 1
  <2>1. d <= v BY <1>3, <1>4
  <2>2. k <= 2 * d + 1 BY <1>5
  <2> QED BY <1>2, <2>1, <2>2
<1> QED BY <1>2, <1>7, <1>8

\* The quotient the code packs when the dividend is moved t places further.
LEMMA DividesOnce ==
  ASSUME NEW f, NEW h, IsSingle(f, h), NEW w, NEW mode, NEW s, Directed(mode, s),
         NEW x, NEW A, NEW i, StandsFor(f, h, w, x, A, i),
         NEW y, NEW B, NEW l, StandsFor(f, h, w, y, B, l),
         NEW t \in {0, 1}, IF t = 0 THEN B.sig <= A.sig ELSE A.sig < B.sig,
         NEW e, e = A.exp - B.exp + Rnd(f, h)!Bias - 1 - t,
         NEW k, Sticks(k, x.m * 2^(2 * f.F + 5), y.m)
  PROVE  RoundsTo(f, mode, s, k, x.q - y.q - (2 * f.F + 5),
                  Rnd(f, h)!roundPack(mode, s, e, QuotientWord(f, h, A.sig * 2^(f.G - 1 + t),
                                                               B.sig * 2^(f.G + 1))))
<1>1. IsFormat(f, h) /\ h \in Nat BY SingleIs
<1>2. PICK F \in Nat \ {0}, G \in Nat : F = f.F /\ G = f.G /\ G >= 3 /\ h = F + G + 2
  BY SingleIs
<1>3. PICK b \in Nat : b = Rnd(f, h)!Bias /\ Ref(f, w)!MinExp = 1 - b - F
  <2>1. Ref(f, w)!Bias = Rnd(f, h)!Bias BY DEF Ref!Bias, Rnd!Bias
  <2> QED BY <1>1, <1>2, <2>1, Exponents
<1>4. /\ A.exp \in Int /\ A.sig \in Nat \ {0} /\ 2^F <= A.sig /\ A.sig < 2 * 2^F
      /\ x.m \in Nat \ {0} /\ x.q \in Int /\ A.sig = x.m * 2^i /\ i \in Nat /\ i <= F
      /\ x.q = 1 - b - F + A.exp - 1 + i
  <2>1. f.F \in Nat /\ Ref(f, w)!MinExp \in Int BY <1>2, <1>3
  <2> QED
    <3>1. Places(f.F, Ref(f, w)!MinExp, x, A, i) BY <2>1, StandsForIs, Zenon
    <3>2. Places(F, 1 - b - F, x, A, i) BY <1>2, <1>3, <3>1, Zenon
    <3> QED BY <3>2, Zenon DEF Places
<1>5. /\ B.exp \in Int /\ B.sig \in Nat \ {0} /\ 2^F <= B.sig /\ B.sig < 2 * 2^F
      /\ y.m \in Nat \ {0} /\ y.q \in Int /\ B.sig = y.m * 2^l /\ l \in Nat /\ l <= F
      /\ y.q = 1 - b - F + B.exp - 1 + l
  <2>1. f.F \in Nat /\ Ref(f, w)!MinExp \in Int BY <1>2, <1>3
  <2> QED
    <3>1. Places(f.F, Ref(f, w)!MinExp, y, B, l) BY <2>1, StandsForIs, Zenon
    <3>2. Places(F, 1 - b - F, y, B, l) BY <1>2, <1>3, <3>1, Zenon
    <3> QED BY <3>2, Zenon DEF Places
<1>6. PICK c \in Nat, d \in Nat, j \in Nat \ {0} :
        c = i + (G - 1 + t) + h /\ d = l + (G + 1) /\ j = l - i + F + 3 - t
  <2>1. i \in Nat /\ i <= F /\ l \in Nat /\ h \in Nat BY <1>1, <1>4, <1>5
  <2>2. i + (G - 1 + t) + h \in Nat /\ l + (G + 1) \in Nat /\ l - i + F + 3 - t \in Nat \ {0}
    BY <1>2, <2>1
  <2> QED BY <2>2, Zenon
<1> DEFINE X == A.sig * 2^(f.G - 1 + t)
           n == X * 2^h
           Y == B.sig * 2^(f.G + 1)
           z == n \div Y
           q == QuotientWord(f, h, X, Y)
<1>7. n = x.m * 2^c /\ n \in Nat
  <2>1. G - 1 + t \in Nat BY <1>2
  <2>2. PICK o \in Nat, p \in Nat, r \in Nat : o = 2^i /\ p = 2^(G - 1 + t) /\ r = 2^h
    BY <1>1, <1>4, <2>1, PowerOfTwo
  <2>3. 2^(i + (G - 1 + t)) = o * p BY <1>4, <2>1, <2>2, PowersAdd
  <2>4. 2^((i + (G - 1 + t)) + h) = (o * p) * r
    <3>1. i + (G - 1 + t) \in Nat BY <1>4, <2>1
    <3>2. 2^((i + (G - 1 + t)) + h) = 2^(i + (G - 1 + t)) * 2^h
      BY <1>1, <3>1, PowersAdd
    <3> QED BY <2>2, <2>3, <3>2, Zenon
  <2>5. PICK m \in Nat : m = x.m /\ A.sig = m * o
    BY <1>4, <2>2
  <2>6. n = ((m * o) * p) * r BY <1>2, <2>2, <2>5, Zenon
  <2>7. x.m * 2^c = m * ((o * p) * r) BY <1>6, <2>4, <2>5, Zenon
  <2> HIDE DEF n
  <2> QED BY <2>2, <2>5, <2>6, <2>7
<1>8. Y = y.m * 2^d /\ Y \in Nat \ {0}
  <2>1. PICK o \in Nat \ {0}, p \in Nat \ {0} : o = 2^l /\ p = 2^(G + 1)
    <3>1. G + 1 \in Nat /\ l \in Nat BY <1>2, <1>5
    <3> QED BY <3>1, PowerOfTwo
  <2>2. 2^(l + (G + 1)) = o * p
    <3>1. G + 1 \in Nat BY <1>2
    <3> QED BY <1>5, <2>1, <3>1, PowersAdd
  <2>3. PICK m \in Nat \ {0} : m = y.m /\ B.sig = m * o
    BY <1>5, <2>1
  <2>4. Y = (m * o) * p BY <1>2, <2>1, <2>3, Zenon
  <2>5. y.m * 2^d = m * (o * p) BY <1>6, <2>2, <2>3, Zenon
  <2> HIDE DEF Y
  <2> QED BY <2>1, <2>3, <2>4, <2>5
<1>9. Bitlen(z, f.F + f.G + 1)
  <2>1. PICK N \in Nat \ {0} : N = f.F + f.G + 1 /\ N = h - 1
    BY <1>2
  <2>2. PICK T \in Nat \ {0} : T = 2^(N - 1) /\ 2^N = 2 * T /\ 2^h = 4 * T
    <3>1. h \in Nat \ {0} /\ h - 1 = N BY <1>1, <2>1
    <3>2. 2^h = 2 * 2^N BY <3>1, Doubled
    <3>3. 2^N = 2 * 2^(N - 1) /\ 2^(N - 1) \in Nat \ {0} BY Doubled
    <3> QED BY <3>2, <3>3
  <2>3. PICK p \in Nat \ {0} : p = 2^(G - 1) /\ 2^G = 2 * p /\ 2^(G + 1) = 4 * p
    <3>1. G \in Nat \ {0} /\ G + 1 \in Nat \ {0} /\ (G + 1) - 1 = G BY <1>2
    <3>2. 2^G = 2 * 2^(G - 1) /\ 2^(G - 1) \in Nat \ {0} BY <3>1, Doubled
    <3>3. 2^(G + 1) = 2 * 2^G BY <3>1, Doubled
    <3> QED BY <3>2, <3>3
  <2>4. PICK u \in Nat \ {0}, v \in Nat \ {0}, P \in Nat : 
          u = A.sig /\ v = B.sig /\ P = 2^F /\ P <= u /\ u < 2 * P /\ P <= v /\ v < 2 * P
    BY <1>2, <1>4, <1>5, PowerOfTwo
  <2>5. Y = v * (4 * p) BY <1>2, <2>3, <2>4, Zenon
  <2>6. PICK o \in Nat : o = p * T OBVIOUS
  <2>7. Y * 2^(N - 1) = 4 * (v * o) /\ Y * 2^N = 8 * (v * o)
    <3>1. PICK M \in Nat : M = v * o
      BY <2>6
    <3>2. (v * (4 * p)) * T = 4 * M /\ (v * (4 * p)) * (2 * T) = 8 * M
      BY <2>6, <3>1
    <3> QED BY <2>2, <2>5, <3>1, <3>2, Zenon
  <2>8. n = (IF t = 0 THEN 4 * (u * o) ELSE 8 * (u * o))
    <3>1. CASE t = 0
      <4>1. G - 1 + t = G - 1 BY <1>2, <3>1
      <4>2. n = (u * p) * (4 * T) BY <1>2, <2>2, <2>3, <2>4, <4>1, Zenon
      <4>3. (u * p) * (4 * T) = 4 * (u * o) BY <2>6
      <4> QED BY <3>1, <4>2, <4>3, Zenon
    <3>2. CASE t = 1
      <4>1. G - 1 + t = G BY <1>2, <3>2
      <4>2. n = (u * (2 * p)) * (4 * T)
        BY <1>2, <2>2, <2>3, <2>4, <4>1, Zenon
      <4>3. (u * (2 * p)) * (4 * T) = 8 * (u * o) BY <2>6
      <4>4. t # 0 BY <3>2
      <4> QED BY <4>2, <4>3, <4>4, Zenon
    <3> QED BY <3>1, <3>2
  <2> HIDE DEF n, Y
  <2>9. Y * 2^(N - 1) <= n /\ n < Y * 2^N
    <3>1. PICK a1 \in Nat, b1 \in Nat : a1 = u * o /\ b1 = v * o
      BY <2>6
    <3>2. o \in Nat \ {0} BY <2>2, <2>3, <2>6
    <3>3. CASE t = 0
      <4>1. v <= u /\ u < 2 * v BY <2>4, <3>3
      <4>2. b1 <= a1 /\ a1 < 2 * b1
        <5>1. v * o <= u * o /\ u * o < (2 * v) * o /\ (2 * v) * o = 2 * (v * o)
          BY <3>2, <4>1
        <5> QED BY <3>1, <5>1
      <4> QED BY <2>7, <2>8, <3>1, <3>3, <4>2
    <3>4. CASE t = 1
      <4>1. u < v /\ v < 2 * u BY <2>4, <3>4
      <4>2. a1 < b1 /\ b1 < 2 * a1
        <5>1. u * o < v * o /\ v * o < (2 * u) * o /\ (2 * u) * o = 2 * (u * o)
          BY <3>2, <4>1
        <5> QED BY <3>1, <5>1
      <4> QED BY <2>7, <2>8, <3>1, <3>4, <4>2
    <3> QED BY <3>3, <3>4
  <2>10. Bitlen(n \div Y, N) BY <1>7, <1>8, <2>9, QuotientBits
  <2> QED BY <2>1, <2>10, Zenon
<1>10. Fraction(n, Y, x.m, y.m, c, d) BY <1>7, <1>8 DEF Fraction
<1>11. Quotient(f, h, n, Y, z, q) BY <1>9, Zenon DEF Quotient, QuotientWord
<1> HIDE DEF X, n, Y, z, q
<1>12. e \in Int /\ e = A.exp - B.exp + b - 1 - t BY <1>3, <1>4, <1>5
<1>13. RoundsTo(f, mode, s, k, Place(f, w, e + (f.G - 2)) - j, Rnd(f, h)!roundPack(mode, s, e, q))
  <2>1. PICK g \in Nat : g = 2 * f.F + 5
    BY <1>2
  <2>2. c + j = d + (f.G - 2) + g
    <3>1. i \in Nat /\ l \in Nat /\ h = F + G + 2 BY <1>2, <1>4, <1>5
    <3>2. (i + (G - 1 + t) + h) + (l - i + F + 3 - t) = (l + (G + 1)) + (G - 2) + (2 * F + 5)
      BY <1>2, <3>1
    <3> QED BY <1>2, <1>6, <2>1, <3>2, Zenon
  <2>3. x.m \in Nat /\ y.m \in Nat \ {0} BY <1>4, <1>5
  <2>4. Sticks(k, x.m * 2^g, y.m) BY <2>1
  <2> QED BY <1>10, <1>11, <1>12, <2>2, <2>3, <2>4, QuotientRounds
<1>14. Place(f, w, e + (f.G - 2)) - j = x.q - y.q - (2 * f.F + 5)
  <2>1. PICK m \in Int, o \in Int : m = A.exp /\ o = B.exp
    BY <1>4, <1>5
  <2>2. Place(f, w, e + (f.G - 2)) = 1 - b - F + (e + (G - 2)) - G
    BY <1>2, <1>3, Zenon DEF Place
  <2>3. e = m - o + b - 1 - t BY <1>12, <2>1
  <2>4. x.q = 1 - b - F + m - 1 + i /\ y.q = 1 - b - F + o - 1 + l
    BY <1>4, <1>5, <2>1, Zenon
  <2>5. i \in Nat /\ l \in Nat BY <1>4, <1>5
  <2>6. x.q - y.q = m - o + i - l BY <2>4, <2>5
  <2>8. (1 - b - F + (e + (G - 2)) - G) - j = (m - o + i - l) - (2 * F + 5)
    BY <1>6, <2>3, <2>5
  <2>9. Place(f, w, e + (f.G - 2)) = Place(f, w, e + (G - 2)) /\ 2 * f.F + 5 = 2 * F + 5
    BY <1>2, Zenon
  <2>10. Place(f, w, e + (G - 2)) - j = (m - o + i - l) - (2 * F + 5)
    BY <2>2, <2>8, <2>9, Zenon
  <2> QED BY <2>6, <2>9, <2>10, Zenon
<1> QED BY <1>13, <1>14, Zenon DEF q, X, Y

\* f32_div of two nonzero numbers rounds what its reference rounds: a
\* dividend at least the divisor is moved one place less.
LEMMA DivisionRounds ==
  ASSUME NEW f, NEW h, IsSingle(f, h), NEW w, NEW mode, NEW s, Directed(mode, s),
         NEW x, NEW A, NEW i, StandsFor(f, h, w, x, A, i),
         NEW y, NEW B, NEW l, StandsFor(f, h, w, y, B, l),
         NEW k, Sticks(k, x.m * 2^(2 * f.F + 5), y.m)
  PROVE  RoundsTo(f, mode, s, k, x.q - y.q - (2 * f.F + 5), Divided(f, h, mode, s, A, B))
<1> DEFINE X == A.sig * 2^f.G
           Y == B.sig * 2^(f.G + 1)
           e == A.exp - B.exp + Rnd(f, h)!Bias - 2
           r == Divided(f, h, mode, s, A, B)
           Packs(n, v) == Rnd(f, h)!roundPack(mode, s, n, QuotientWord(f, h, v, Y))
<1>1. PICK G \in Nat \ {0} : G = f.G
  BY SingleIs
<1>2. PICK u \in Nat \ {0}, v \in Nat \ {0}, a \in Int, b \in Int, c \in Int :
        u = A.sig /\ v = B.sig /\ a = A.exp /\ b = B.exp /\ c = Rnd(f, h)!Bias
  <2>1. f.F \in Nat /\ Ref(f, w)!MinExp \in Int BY SingleIs, UnitIs
  <2>2. Places(f.F, Ref(f, w)!MinExp, x, A, i) BY <2>1, StandsForIs, Zenon
  <2>3. Places(f.F, Ref(f, w)!MinExp, y, B, l) BY <2>1, StandsForIs, Zenon
  <2>4. Rnd(f, h)!Bias \in Int BY UnitIs
  <2> QED BY <2>2, <2>3, <2>4, Zenon DEF Places
<1>3. PICK p \in Nat \ {0} : p = 2^(G - 1) /\ 2^G = 2 * p /\ 2^(G + 1) = 4 * p
  <2>1. G + 1 \in Nat \ {0} /\ (G + 1) - 1 = G OBVIOUS
  <2>2. 2^G = 2 * 2^(G - 1) /\ 2^(G - 1) \in Nat \ {0} BY Doubled
  <2>3. 2^(G + 1) = 2 * 2^G BY <2>1, Doubled
  <2> QED BY <2>2, <2>3
<1>4. X = u * (2 * p) /\ Y = v * (4 * p) BY <1>1, <1>2, <1>3, Zenon
<1>5. PICK m \in Nat, n \in Nat : m = u * p /\ n = v * p OBVIOUS
<1>6. X = 2 * m /\ Y = 4 * n BY <1>4, <1>5
<1>7. Y <= 2 * X <=> v <= u
  <2>1. n <= m <=> v <= u BY <1>5
  <2> HIDE DEF X, Y
  <2> QED BY <1>6, <2>1
<1>8. r = IF Y <= 2 * X THEN Packs(e + 1, X \div 2) ELSE Packs(e, X)
  BY Zenon DEF Divided
<1>9. CASE v <= u
  <2>1. G - 1 + 0 = f.G - 1 + 0 /\ G - 1 + 0 = G - 1 BY <1>1
  <2>2. X \div 2 = A.sig * 2^(f.G - 1 + 0)
    <3>1. A.sig * 2^(f.G - 1 + 0) = u * p BY <1>2, <1>3, <2>1, Zenon
    <3>2. (2 * m) \div 2 = m OBVIOUS
    <3> QED BY <1>5, <1>6, <3>1, <3>2, Zenon
  <2>3. e + 1 = A.exp - B.exp + Rnd(f, h)!Bias - 1 - 0
    <3>1. (a - b + c - 2) + 1 = a - b + c - 1 - 0 OBVIOUS
    <3> QED BY <1>2, <3>1, Zenon
  <2>4. r = Packs(e + 1, A.sig * 2^(f.G - 1 + 0))
    BY <1>7, <1>8, <1>9, <2>2, Zenon
  <2>5. IF 0 = 0 THEN B.sig <= A.sig ELSE A.sig < B.sig BY <1>2, <1>9
  <2>6. 0 \in {0, 1} OBVIOUS
  <2> HIDE DEF e
  <2>7. RoundsTo(f, mode, s, k, x.q - y.q - (2 * f.F + 5), Packs(e + 1, A.sig * 2^(f.G - 1 + 0)))
    BY <2>3, <2>5, <2>6, DividesOnce, Zenon
  <2> QED BY <2>4, <2>7, Zenon
<1>10. CASE u < v
  <2>1. G - 1 + 1 = f.G - 1 + 1 /\ G - 1 + 1 = G BY <1>1
  <2>2. X = A.sig * 2^(f.G - 1 + 1) BY <1>1, <2>1, Zenon
  <2>3. e = A.exp - B.exp + Rnd(f, h)!Bias - 1 - 1
    <3>1. a - b + c - 2 = a - b + c - 1 - 1 OBVIOUS
    <3> QED BY <1>2, <3>1, Zenon
  <2>4. r = Packs(e, A.sig * 2^(f.G - 1 + 1))
    <3>1. ~ (v <= u) BY <1>10
    <3> QED BY <1>7, <1>8, <2>2, <3>1, Zenon
  <2>5. IF 1 = 0 THEN B.sig <= A.sig ELSE A.sig < B.sig BY <1>2, <1>10
  <2>6. 1 \in {0, 1} OBVIOUS
  <2> HIDE DEF e
  <2>7. RoundsTo(f, mode, s, k, x.q - y.q - (2 * f.F + 5), Packs(e, A.sig * 2^(f.G - 1 + 1)))
    BY <2>3, <2>5, <2>6, DividesOnce, Zenon
  <2> QED BY <2>4, <2>7, Zenon
<1> QED BY <1>2, <1>9, <1>10

\* The reference's quotient of two significands has at most 3F + 6 bits.
LEMMA QuotientFits ==
  ASSUME NEW F \in Nat, NEW m \in Nat, m < 2 * 2^F, NEW n, n = m * 2^(2 * F + 4),
         NEW k \in Nat, k <= 2 * n + 1, NEW w \in Nat, 3 * F + 6 <= w
  PROVE  k < 2^w
<1>1. PICK p \in Nat \ {0}, c \in Nat : p = 2^F /\ c = 2 * F + 4
  BY PowerOfTwo
<1>2. PICK o \in Nat \ {0} : o = 2^c
  BY PowerOfTwo
<1>3. 2^(3 * F + 6) = 4 * (p * o)
  <2>1. PICK e \in Nat \ {0} : e = F + c + 1 /\ e - 1 = F + c
    BY <1>1
  <2>2. PICK j \in Nat \ {0} : j = e + 1 /\ j - 1 = e /\ j = 3 * F + 6
    BY <1>1, <2>1
  <2>3. 2^j = 2 * 2^e BY <2>2, Doubled
  <2>4. 2^e = 2 * 2^(F + c) BY <2>1, Doubled
  <2>5. 2^(F + c) = p * o BY <1>1, <1>2, PowersAdd
  <2> QED BY <2>2, <2>3, <2>4, <2>5
<1>4. n = m * o /\ n + o <= 2 * (p * o)
  <2>1. n = m * o BY <1>1, <1>2
  <2>2. (m + 1) * o <= (2 * p) * o BY <1>1
  <2>3. (m + 1) * o = m * o + o /\ (2 * p) * o = 2 * (p * o) OBVIOUS
  <2> QED BY <2>1, <2>2, <2>3
<1>5. k < 2^(3 * F + 6)
  <2>1. PICK d \in Nat, q \in Nat : d = m * o /\ q = p * o OBVIOUS
  <2> QED BY <1>3, <1>4, <2>1
<1>6. 2^(3 * F + 6) <= 2^w
  <2>1. 3 * F + 6 \in Nat OBVIOUS
  <2> QED BY <2>1, PowersGrow
<1>7. 2^(3 * F + 6) \in Nat /\ 2^w \in Nat
  <2>1. 3 * F + 6 \in Nat OBVIOUS
  <2> QED BY <2>1, PowerOfTwo
<1> QED BY <1>5, <1>6, <1>7

\* f32_div of two nonzero numbers is their quotient rounded.
LEMMA NumbersDivide ==
  ASSUME NEW f, NEW h, IsSingle(f, h), NEW mode, NEW a, Nonzero(f, h, a), NEW b, Nonzero(f, h, b),
         NEW w \in Nat, 3 * f.F + 6 <= w,
         NEW s, Directed(mode, s), s = (Ref(f, w)!Num(a).s + Ref(f, w)!Num(b).s) % 2
  PROVE  Divided(f, h, mode, s, Rnd(f, h)!unpacked(a), Rnd(f, h)!unpacked(b)) =
           Ref(f, w)!Round(mode, Ref(f, w)!ExactQuotient(Ref(f, w)!Num(a), Ref(f, w)!Num(b)))
<1> DEFINE x == Ref(f, w)!Num(a)
           y == Ref(f, w)!Num(b)
           A == Rnd(f, h)!unpacked(a)
           B == Rnd(f, h)!unpacked(b)
           M == Ref(f, w)!MinExp
           n == x.m * 2^(2 * f.F + 4)
           k == 2 * (n \div y.m) + (IF n % y.m = 0 THEN 0 ELSE 1)
           q == x.q - y.q - (2 * f.F + 5)
           r == Divided(f, h, mode, s, A, B)
<1>1. PICK i : StandsFor(f, h, w, x, A, i)
  <2>1. IsPattern(f, a) /\ Rnd(f, h)!exp(a) # Rnd(f, h)!MaxExp /\ ~ Rnd(f, h)!isZero(a)
    BY DEF Nonzero, Finite
  <2>2. A.exp \in Int /\ Bitlen(A.sig, f.F + 1) /\ \E i : Moves(x, A.sig, M + A.exp - 1, i)
    BY <2>1, Unpacks
  <2> QED BY <2>2, Zenon DEF StandsFor
<1>2. PICK l : StandsFor(f, h, w, y, B, l)
  <2>1. IsPattern(f, b) /\ Rnd(f, h)!exp(b) # Rnd(f, h)!MaxExp /\ ~ Rnd(f, h)!isZero(b)
    BY DEF Nonzero, Finite
  <2>2. B.exp \in Int /\ Bitlen(B.sig, f.F + 1) /\ \E j : Moves(y, B.sig, M + B.exp - 1, j)
    BY <2>1, Unpacks
  <2> QED BY <2>2, Zenon DEF StandsFor
<1>3. f.F \in Nat /\ M \in Int BY SingleIs, UnitIs
<1>4. PICK m \in Nat \ {0}, d \in Nat \ {0} : m = x.m /\ d = y.m /\ m < 2 * 2^f.F
  <2>1. Places(f.F, M, x, A, i) BY <1>1, <1>3, StandsForIs, Zenon
  <2>2. Places(f.F, M, y, B, l) BY <1>2, <1>3, StandsForIs, Zenon
  <2>3. x.m \in Nat \ {0} /\ x.m <= A.sig /\ A.sig \in Nat \ {0} /\ A.sig < 2 * 2^f.F /\ y.m \in Nat \ {0}
    BY <2>1, <2>2, Zenon DEF Places
  <2>4. 2^f.F \in Nat BY <1>3, PowerOfTwo
  <2> HIDE DEF x, y, A
  <2> QED BY <2>3, <2>4
<1>5. Sticks(k, x.m * 2^(2 * f.F + 5), y.m) /\ k <= 2 * n + 1
  <2>1. PICK c \in Nat : c = 2 * f.F + 4 /\ c + 1 = 2 * f.F + 5
    BY <1>3
  <2>2. n = m * 2^c /\ k = 2 * (n \div d) + (IF n % d = 0 THEN 0 ELSE 1)
    BY <1>4, <2>1, Zenon
  <2> HIDE DEF n, k
  <2>3. Sticks(k, m * 2^(c + 1), d) /\ k <= 2 * n + 1
    BY <2>2, ReferenceSticks
  <2> QED BY <1>4, <2>1, <2>3, Zenon
<1>6. RoundsTo(f, mode, s, k, q, r)
  <2> HIDE DEF x, y, A, B, n, k
  <2> QED BY <1>1, <1>2, <1>5, DivisionRounds, Zenon
<1>7. k < 2^w
  <2>1. n = m * 2^(2 * f.F + 4) BY <1>4, Zenon
  <2>2. k \in Nat BY <1>5 DEF Sticks
  <2> HIDE DEF n, k
  <2> QED BY <1>3, <1>4, <1>5, <2>1, <2>2, QuotientFits
<1>8. Ref(f, w)!ExactQuotient(x, y) = [s |-> s, m |-> k, q |-> q]
  BY Zenon DEF Ref!ExactQuotient
<1> HIDE DEF x, y, A, B, n, k, q, r
<1>9. Ref(f, w)!Round(mode, [s |-> s, m |-> k, q |-> q]) = r
  BY <1>6, <1>7, Zenon DEF RoundsTo
<1> QED BY <1>8, <1>9, Zenon DEF x, y, A, B, r

\* The NaN the code makes of two operands.
LEMMA NaNOfTwo ==
  ASSUME NEW f, NEW h, IsFormat(f, h), NEW a, NEW b, IsPattern(f, a), IsPattern(f, b), NEW w
  PROVE  Rnd(f, h)!propagateNaN(a, b) = Ref(f, w)!QuietNaN({a, b})
<1> DEFINE l == Rnd(f, h)!isSigNaN(a) \/ Rnd(f, h)!isSigNaN(b)
           r == \E u \in {a, b} : Ref(f, w)!IsSignaling(u)
<1>1. l <=> r
  <2>1. /\ Rnd(f, h)!isSigNaN(a) <=> Ref(f, w)!IsSignaling(a)
        /\ Rnd(f, h)!isSigNaN(b) <=> Ref(f, w)!IsSignaling(b)
    BY Kinds
  <2> QED BY <2>1
<1>2. Rnd(f, h)!propagateNaN(a, b) = [z |-> Rnd(f, h)!defaultNaN, flags |-> IF l THEN {"invalid"} ELSE {}]
  BY Zenon DEF Rnd!propagateNaN
<1>3. Ref(f, w)!QuietNaN({a, b}) = [z |-> Ref(f, w)!NaN, flags |-> IF r THEN {"invalid"} ELSE {}]
  BY Zenon DEF Ref!QuietNaN, Ref!Result
<1>4. Rnd(f, h)!defaultNaN = Ref(f, w)!NaN BY Specials
<1> HIDE DEF l, r
<1> QED BY <1>1, <1>2, <1>3, <1>4

\* f32_div divides: for all operands, special ones included, the result
\* and the flags are those of the exact quotient rounded once, although
\* the code looks at the remainder only when the round bits of the
\* quotient are 0.
THEOREM DivIsIeee ==
  ASSUME NEW f, NEW h, IsSingle(f, h), NEW mode \in RoundingModes,
         NEW a, NEW b, IsPattern(f, a), IsPattern(f, b), NEW w \in Nat, 3 * f.F + 6 <= w
  PROVE  Rnd(f, h)!f32_div(mode, a, b) = Ref(f, w)!Div(mode, a, b)
<1> DEFINE x == Ref(f, w)!Num(a)
           y == Ref(f, w)!Num(b)
           s == (x.s + y.s) % 2
           NaN(u) == Ref(f, w)!IsNaN(u)
           Inf(u) == Ref(f, w)!IsInf(u)
           Zero(u) == Ref(f, w)!IsZero(u)
           Limit(u) == Rnd(f, h)!exp(u) = Rnd(f, h)!MaxExp
           l == Rnd(f, h)!f32_div(mode, a, b)
           r == Ref(f, w)!Div(mode, a, b)
           value == Divided(f, h, mode, s, Rnd(f, h)!unpacked(a), Rnd(f, h)!unpacked(b))
           DivByZero == [z |-> Rnd(f, h)!pack(s, Rnd(f, h)!MaxExp, 0), flags |-> {"infinity"}]
<1>1. IsFormat(f, h) BY SingleIs
<1>2. /\ Rnd(f, h)!isNaN(a) <=> NaN(a) 
      /\ Rnd(f, h)!isInf(a) <=> Inf(a)
      /\ Rnd(f, h)!isZero(a) <=> Zero(a)
      /\ Limit(a) <=> NaN(a) \/ Inf(a)
      /\ ~ (NaN(a) /\ Inf(a))
      /\ Zero(a) => ~ NaN(a) /\ ~ Inf(a)
      /\ x.s = Rnd(f, h)!sign(a) /\ x.s \in {0, 1}
  BY <1>1, Kinds
<1>3. /\ Rnd(f, h)!isNaN(b) <=> NaN(b) 
      /\ Rnd(f, h)!isInf(b) <=> Inf(b)
      /\ Rnd(f, h)!isZero(b) <=> Zero(b)
      /\ Limit(b) <=> NaN(b) \/ Inf(b)
      /\ ~ (NaN(b) /\ Inf(b))
      /\ Zero(b) => ~ NaN(b) /\ ~ Inf(b)
      /\ y.s = Rnd(f, h)!sign(b) /\ y.s \in {0, 1}
  BY <1>1, Kinds
<1>4. s = (Rnd(f, h)!sign(a) + Rnd(f, h)!sign(b)) % 2 /\ s \in {0, 1} /\ Directed(mode, s)
  <2>1. s = (Rnd(f, h)!sign(a) + Rnd(f, h)!sign(b)) % 2 BY <1>2, <1>3, Zenon
  <2>2. s \in {0, 1}
    <3> HIDE DEF x, y
    <3> QED BY <1>2, <1>3
  <2> QED BY <2>1, <2>2 DEF Directed
<1>5. /\ Rnd(f, h)!propagateNaN(a, b) = Ref(f, w)!QuietNaN({a, b})
      /\ Rnd(f, h)!Invalid = Ref(f, w)!InvalidOp
      /\ Rnd(f, h)!Exact(Rnd(f, h)!pack(s, Rnd(f, h)!MaxExp, 0)) = Ref(f, w)!Inf(s)
      /\ Rnd(f, h)!Exact(Rnd(f, h)!pack(s, 0, 0)) = Ref(f, w)!Zero(s)
  <2>1. Rnd(f, h)!propagateNaN(a, b) = Ref(f, w)!QuietNaN({a, b})
    BY <1>1, NaNOfTwo
  <2>2. Rnd(f, h)!Invalid = Ref(f, w)!InvalidOp BY <1>1, NaNResults
  <2> HIDE DEF s
  <2>3. /\ Rnd(f, h)!Exact(Rnd(f, h)!pack(s, Rnd(f, h)!MaxExp, 0)) = Ref(f, w)!Inf(s)
        /\ Rnd(f, h)!Exact(Rnd(f, h)!pack(s, 0, 0)) = Ref(f, w)!Zero(s)
    BY <1>1, <1>4, Specials
  <2> QED BY <2>1, <2>2, <2>3
<1>6. DivByZero = Ref(f, w)!Result(Ref(f, w)!Inf(s).z, {"infinity"})
  <2>1. Rnd(f, h)!Exact(Rnd(f, h)!pack(s, Rnd(f, h)!MaxExp, 0)).z = Rnd(f, h)!pack(s, Rnd(f, h)!MaxExp, 0)
    BY DEF Rnd!Exact
  <2>2. Ref(f, w)!Inf(s).z = Rnd(f, h)!pack(s, Rnd(f, h)!MaxExp, 0)
    BY <1>5, <2>1, Zenon
  <2> QED BY <2>2, Zenon DEF Ref!Result
<1>7. ~ Limit(a) /\ ~ Limit(b) /\ ~ Zero(a) /\ ~ Zero(b) =>
        value = Ref(f, w)!Round(mode, Ref(f, w)!ExactQuotient(x, y))
  <2>1. SUFFICES ASSUME ~ Limit(a), ~ Limit(b), ~ Zero(a), ~ Zero(b)
                 PROVE  value = Ref(f, w)!Round(mode, Ref(f, w)!ExactQuotient(x, y))
    OBVIOUS
  <2>2. Nonzero(f, h, a) /\ Nonzero(f, h, b)
    BY <1>2, <1>3, <2>1 DEF Nonzero, Finite
  <2>3. s = (Ref(f, w)!Num(a).s + Ref(f, w)!Num(b).s) % 2 OBVIOUS
  <2> HIDE DEF s
  <2> QED BY <1>4, <2>2, <2>3, NumbersDivide
<1>8. l = CASE Rnd(f, h)!isNaN(a) \/ Rnd(f, h)!isNaN(b) -> Rnd(f, h)!propagateNaN(a, b)
            [] (Rnd(f, h)!isInf(a) /\ Rnd(f, h)!isInf(b)) \/ (Rnd(f, h)!isZero(a) /\ Rnd(f, h)!isZero(b)) ->
                 Rnd(f, h)!Invalid
            [] Rnd(f, h)!isInf(a) /\ ~ Limit(b) -> Rnd(f, h)!Exact(Rnd(f, h)!pack(s, Rnd(f, h)!MaxExp, 0))
            [] Rnd(f, h)!isZero(b) /\ ~ Limit(a) /\ ~ Rnd(f, h)!isZero(a) -> DivByZero
            [] (Rnd(f, h)!isInf(b) /\ ~ Limit(a)) \/ (Rnd(f, h)!isZero(a) /\ ~ Limit(b) /\ ~ Rnd(f, h)!isZero(b)) ->
                 Rnd(f, h)!Exact(Rnd(f, h)!pack(s, 0, 0))
            [] OTHER -> value
  BY <1>4, DivParts, Zenon
<1>9. r = CASE NaN(a) \/ NaN(b) -> Ref(f, w)!QuietNaN({a, b})
            [] (Inf(a) /\ Inf(b)) \/ (Zero(a) /\ Zero(b)) -> Ref(f, w)!InvalidOp
            [] Inf(a) /\ ~ Inf(b) /\ ~ NaN(b) -> Ref(f, w)!Inf(s)
            [] (Inf(b) /\ ~ Inf(a) /\ ~ NaN(a)) \/ (Zero(a) /\ ~ Zero(b) /\ ~ NaN(b)) -> Ref(f, w)!Zero(s)
            [] OTHER -> IF Zero(b) THEN Ref(f, w)!Result(Ref(f, w)!Inf(s).z, {"infinity"})
                        ELSE Ref(f, w)!Round(mode, Ref(f, w)!ExactQuotient(x, y))
  BY Zenon DEF Ref!Div
<1> HIDE DEF x, y, s, NaN, Inf, Zero, Limit, l, r, value, DivByZero
<1>10. l = r
  <2>1. CASE NaN(a) \/ NaN(b)
    <3>1. l = Rnd(f, h)!propagateNaN(a, b) BY <1>2, <1>3, <1>8, <2>1
    <3>2. r = Ref(f, w)!QuietNaN({a, b}) BY <1>2, <1>3, <1>9, <2>1
    <3> QED BY <1>5, <3>1, <3>2
  <2>2. CASE ~ NaN(a) /\ ~ NaN(b) /\ ((Inf(a) /\ Inf(b)) \/ (Zero(a) /\ Zero(b)))
    <3>1. l = Rnd(f, h)!Invalid
      <4>1. /\ ~ (Rnd(f, h)!isNaN(a) \/ Rnd(f, h)!isNaN(b))
            /\ (Rnd(f, h)!isInf(a) /\ Rnd(f, h)!isInf(b)) \/ (Rnd(f, h)!isZero(a) /\ Rnd(f, h)!isZero(b))
        BY <1>2, <1>3, <2>2
      <4>2. ~ (Rnd(f, h)!isInf(a) /\ ~ Limit(b)) /\ ~ (Rnd(f, h)!isZero(b) /\ ~ Limit(a) /\ ~ Rnd(f, h)!isZero(a))
        BY <1>2, <1>3, <2>2
      <4>3. ~ ((Rnd(f, h)!isInf(b) /\ ~ Limit(a)) \/ (Rnd(f, h)!isZero(a) /\ ~ Limit(b) /\ ~ Rnd(f, h)!isZero(b)))
        BY <1>2, <1>3, <2>2
      <4> QED BY <1>8, <4>1, <4>2, <4>3
    <3>2. r = Ref(f, w)!InvalidOp BY <1>2, <1>3, <1>9, <2>2
    <3> QED BY <1>5, <3>1, <3>2
  <2>3. CASE ~ NaN(a) /\ ~ NaN(b) /\ Inf(a) /\ ~ Inf(b)
    <3>1. l = Rnd(f, h)!Exact(Rnd(f, h)!pack(s, Rnd(f, h)!MaxExp, 0))
      <4>1. ~ (Rnd(f, h)!isNaN(a) \/ Rnd(f, h)!isNaN(b)) /\ Rnd(f, h)!isInf(a) /\ ~ Limit(b)
        BY <1>2, <1>3, <2>3
      <4>2. ~ ((Rnd(f, h)!isInf(a) /\ Rnd(f, h)!isInf(b)) \/ (Rnd(f, h)!isZero(a) /\ Rnd(f, h)!isZero(b)))
        BY <1>2, <1>3, <2>3
      <4>3. ~ (Rnd(f, h)!isZero(b) /\ ~ Limit(a) /\ ~ Rnd(f, h)!isZero(a))
        BY <1>2, <1>3, <2>3
      <4>4. ~ ((Rnd(f, h)!isInf(b) /\ ~ Limit(a)) \/ (Rnd(f, h)!isZero(a) /\ ~ Limit(b) /\ ~ Rnd(f, h)!isZero(b)))
        BY <1>2, <1>3, <2>3
      <4> QED BY <1>8, <4>1, <4>2, <4>3, <4>4
    <3>2. r = Ref(f, w)!Inf(s) BY <1>2, <1>3, <1>9, <2>3
    <3> QED BY <1>5, <3>1, <3>2
  <2>4. CASE ~ NaN(a) /\ ~ NaN(b) /\ ~ Inf(a) /\ ~ Zero(a) /\ Zero(b)
    <3>1. l = DivByZero BY <1>2, <1>3, <1>8, <2>4
    <3>2. r = Ref(f, w)!Result(Ref(f, w)!Inf(s).z, {"infinity"})
      BY <1>2, <1>3, <1>9, <2>4
    <3> QED BY <1>6, <3>1, <3>2
  <2>5. CASE ~ NaN(a) /\ ~ NaN(b) /\ ~ Inf(a) /\ (Inf(b) \/ (Zero(a) /\ ~ Zero(b)))
    <3>1. l = Rnd(f, h)!Exact(Rnd(f, h)!pack(s, 0, 0))
      BY <1>2, <1>3, <1>8, <2>5
    <3>2. r = Ref(f, w)!Zero(s) BY <1>2, <1>3, <1>9, <2>5
    <3> QED BY <1>5, <3>1, <3>2
  <2>6. CASE ~ NaN(a) /\ ~ NaN(b) /\ ~ Inf(a) /\ ~ Inf(b) /\ ~ Zero(a) /\ ~ Zero(b)
    <3>1. l = value BY <1>2, <1>3, <1>8, <2>6
    <3>2. r = Ref(f, w)!Round(mode, Ref(f, w)!ExactQuotient(x, y))
      BY <1>2, <1>3, <1>9, <2>6
    <3> QED BY <1>2, <1>3, <1>7, <2>6, <3>1, <3>2
  <2> QED BY <2>1, <2>2, <2>3, <2>4, <2>5, <2>6
<1> QED BY <1>10 DEF l, r

----
\* Conversions between formats

\* Below half of the least subnormal, numbers of one sign round alike.
LEMMA TinyRound ==
  ASSUME NEW f, NEW h, IsFormat(f, h), NEW mode, NEW s, Directed(mode, s),
         NEW w, NEW m, NEW n, HasBits(m, n, w), NEW q \in Int, n + q <= Ref(f, 0)!MinExp - 1,
         NEW v, NEW k, NEW l, HasBits(k, l, v), NEW t \in Int, l + t <= Ref(f, 0)!MinExp - 1
  PROVE  Ref(f, w)!Round(mode, [s |-> s, m |-> m, q |-> q]) =
           Ref(f, v)!Round(mode, [s |-> s, m |-> k, q |-> t])
<1> DEFINE L == Ref(f, 0)!MinExp
           B == Ref(f, 0)!Bias
           up == IF RoundsUp(mode, s, 0, 1, 4) THEN 1 ELSE 0
           z == [k |-> up, exact |-> FALSE]
<1>1. L \in Int /\ B \in Nat \ {0} /\ L = 1 - B - f.F /\ f.F \in Nat \ {0}
  <2>1. B \in Nat \ {0} /\ L = 1 - B - f.F BY Exponents
  <2>2. f.F \in Nat \ {0} BY DEF IsFormat
  <2> HIDE DEF L, B
  <2> QED BY <2>1, <2>2
<1> HIDE DEF L, B
<1>2. ASSUME NEW W, NEW a, NEW i, HasBits(a, i, W), NEW p \in Int, i + p <= L - 1
      PROVE  Ref(f, W)!Round(mode, [s |-> s, m |-> a, q |-> p]) =
               Ref(f, 0)!Result(Ref(f, 0)!Signed(s, up), {"inexact", "underflow"})
  <2> DEFINE x == [s |-> s, m |-> a, q |-> p]
             R == Ref(f, W)!RoundShift(mode, s, a, L - p)
  <2>1. W \in Nat /\ i \in Nat \ {0} /\ a \in Nat \ {0} /\ a < 2^i
    <3>1. W \in Nat /\ i \in Nat \ {0} /\ a \in Nat /\ a < 2^i /\ 2^(i - 1) <= a
      BY <1>2 DEF HasBits
    <3>2. 2^(i - 1) \in Nat \ {0} BY <3>1, Doubled
    <3> QED BY <3>1, <3>2
  <2>2. Ref(f, W)!BitLength(a) = i BY <1>2, <2>1, BitLengthIs DEF HasBits
  <2>3. PICK d \in Nat \ {0} : d = L - p /\ i <= d - 1
    BY <1>1, <1>2, <2>1
  <2>4. PICK D \in Nat \ {0} : D = 2^d /\ 2 * a < D
    <3>1. PICK c \in Nat : c = d - 1 /\ i <= c
      BY <2>1, <2>3
    <3>2. 2^i <= 2^c /\ 2^i \in Nat /\ 2^c \in Nat
      BY <2>1, <3>1, PowersGrow, PowerOfTwo
    <3>3. 2^d = 2 * 2^(d - 1) BY Doubled
    <3>4. 2^d \in Nat \ {0} /\ 2 * a < 2^d BY <2>1, <3>1, <3>2, <3>3
    <3> QED BY <3>4
  <2>5. Shifts(a, d, 0, a)
    <3>1. a = 0 * D + a /\ a \in 0 .. (D - 1) BY <2>1, <2>4
    <3> QED BY <2>1, <2>3, <2>4, <3>1 DEF Shifts, Splits
  <2>6. R = z
    <3>1. R = [k |-> Rounded(mode, s, 0, a, 2^d), exact |-> a = 0]
      BY <1>2, <2>3, <2>5, RoundShiftIs
    <3>2. Alike(a, D, 1, 4) BY <2>1, <2>4 DEF Alike
    <3>3. Rounded(mode, s, 0, a, D) = Rounded(mode, s, 0, 1, 4)
      BY <2>1, <2>4, <3>2, UpCompares
    <3>4. Rounded(mode, s, 0, 1, 4) = up BY DEF Rounded
    <3>5. (a = 0) = FALSE BY <2>1
    <3> HIDE DEF R, up
    <3> QED BY <2>4, <3>1, <3>3, <3>4, <3>5
  <2>7. x.s = s /\ x.m = a /\ x.q = p OBVIOUS
  <2> HIDE DEF x
  <2> DEFINE N == Ref(f, W)!BitLength(x.m) + x.q
             U == IF N - (f.F + 1) > Ref(f, W)!MinExp THEN N - (f.F + 1) ELSE Ref(f, W)!MinExp
  <2>8. Ref(f, W)!Round(mode, x) =
          Outcome(f, W, mode, x.s, N, U, Ref(f, W)!RoundShift(mode, x.s, x.m, U - x.q))
    BY Zenon DEF Ref!Round, Outcome
  <2>9. Ref(f, W)!MinExp = L /\ Ref(f, W)!Bias = B
    BY DEF Ref!MinExp, Ref!Bias, L, B
  <2>10. N = i + p /\ U = L BY <1>1, <1>2, <2>1, <2>2, <2>7, <2>9
  <2> HIDE DEF N, U, R
  <2>11. Ref(f, W)!Round(mode, x) = Outcome(f, W, mode, s, N, L, z)
    BY <2>6, <2>7, <2>8, <2>10, Zenon DEF R
  <2>12. ~ (L > B - f.F) BY <1>1
  <2>13. N - 1 < 1 - B /\ (L - L) * 2^f.F + up = up /\ L # B - f.F
    <3>1. up \in {0, 1} BY Zenon
    <3> HIDE DEF up
    <3>7. f.F \in Nat BY <1>1
    <3>8. 2^f.F \in Nat BY <3>7, PowerOfTwo
    <3>9. up \in Nat BY <3>1
    <3>2. 2^f.F \in Nat /\ up \in Nat BY <3>8, <3>9
    <3>3. L - L = 0 BY <1>1
    <3>4. (L - L) * 2^f.F + up = up BY <3>2, <3>3
    <3>5. N - 1 < 1 - B BY <1>1, <1>2, <2>1, <2>10
    <3>6. L # B - f.F BY <1>1
    <3> QED BY <3>4, <3>5, <3>6
  <2>14. z.exact = FALSE /\ z.k = up OBVIOUS
  <2> HIDE DEF z
  <2> HIDE DEF up
  <2>15. Outcome(f, W, mode, s, N, L, z) =
           Ref(f, W)!Result(Ref(f, W)!Signed(s, up), {"inexact"} \cup {"underflow"})
    BY <2>9, <2>12, <2>13, <2>14, Zenon DEF Outcome
  <2>16. Ref(f, W)!Signed(s, up) = Ref(f, 0)!Signed(s, up)
    BY Zenon DEF Ref!Signed, Ref!Sign
  <2>17. {"inexact"} \cup {"underflow"} = {"inexact", "underflow"} OBVIOUS
  <2> QED BY <2>11, <2>15, <2>16, <2>17, Zenon DEF Ref!Result, x
<1> QED BY <1>2 DEF L

\* Two numbers below half of the smallest subnormal round alike.
LEMMA TinyRounds ==
  ASSUME NEW f, NEW h, IsFormat(f, h), NEW mode, NEW s, Directed(mode, s), NEW r,
         NEW m, NEW n, Bitlen(m, n), NEW q \in Int, n + q <= Ref(f, 0)!MinExp - 1,
         NEW k, NEW l, Bitlen(k, l), NEW t \in Int, l + t <= Ref(f, 0)!MinExp - 1,
         RoundsTo(f, mode, s, m, q, r)
  PROVE  RoundsTo(f, mode, s, k, t, r)
<1>1. HasBits(m, n, n) /\ n \in Nat /\ m < 2^n BY DEF Bitlen, HasBits
<1>2. Ref(f, n)!Round(mode, [s |-> s, m |-> m, q |-> q]) = r
  BY <1>1 DEF RoundsTo
<1>3. ASSUME NEW w \in Nat, k < 2^w
      PROVE  Ref(f, w)!Round(mode, [s |-> s, m |-> k, q |-> t]) = r
  <2>1. HasBits(k, l, l) BY DEF Bitlen
  <2>2. HasBits(k, l, w) BY <1>3, <2>1, BitsFit
  <2> QED BY <1>1, <1>2, <2>2, TinyRound
<1> QED BY <1>3 DEF RoundsTo

\* What is shifted out of less than an even number of places stays under
\* that number.
LEMMA StickyBelow ==
  ASSUME NEW k, NEW v, NEW d, Sticks(k, v, d), NEW t \in Nat, t % 2 = 0, v < t * d
  PROVE  k < t
<1>1. k \in Nat /\ v \in Nat /\ d \in Nat \ {0} BY DEF Sticks
<1>2. SUFFICES ASSUME k >= t
               PROVE  FALSE
  BY <1>1
<1>3. CASE k % 2 = 0
  <2>1. v = k * d BY <1>3 DEF Sticks
  <2>2. t * d <= k * d BY <1>1, <1>2
  <2> QED BY <1>1, <2>1, <2>2
<1>4. CASE k % 2 # 0
  <2>1. (k - 1) * d < v BY <1>4 DEF Sticks
  <2>2. k - 1 >= t BY <1>1, <1>2, <1>4
  <2>3. t * d <= (k - 1) * d BY <1>1, <2>2
  <2> QED BY <1>1, <2>1, <2>3
<1> QED BY <1>3, <1>4

\* f64_to_f32 rounds a significand with its hidden bit.
LEMMA Narrows ==
  ASSUME NEW f, NEW g, NEW h, Widens(f, g, h), NEW mode, NEW s, Directed(mode, s),
         NEW e \in Nat, NEW m \in 0 .. (2^f.F - 1)
  PROVE  RoundsTo(g, mode, s, 2^f.F + m, e - Rnd(f, h)!Bias - f.F,
                  Rnd(g, h)!roundPack(mode, s, e - (Rnd(f, h)!Bias - Rnd(g, h)!Bias + 1),
                                      Rnd(g, h)!shortShift64RightJam(m, f.F - h + 2) + Rnd(g, h)!Hidden))
<1> DEFINE k == Rnd(g, h)!shortShift64RightJam(m, f.F - h + 2)
           T == Rnd(g, h)!Hidden
<1>1. /\ IsFormat(g, h) /\ g.F \in Nat \ {0} /\ g.G \in Nat /\ g.G >= 3
      /\ h = g.F + g.G + 2 /\ Rnd(g, h)!W = h /\ h \in Nat
  BY SingleIs DEF Widens
<1>2. f.F \in Nat /\ f.F + 1 >= h BY WorkingWordIs DEF Widens, IsDouble
<1>3. PICK c \in Nat : c = f.F - h + 2
  BY <1>1, <1>2
<1>4. PICK B \in Nat : B = Rnd(f, h)!Bias
  <2>1. Ref(f, 0)!Bias = Rnd(f, h)!Bias BY DEF Ref!Bias, Rnd!Bias
  <2> QED BY <2>1, Exponents DEF Widens, IsDouble
<1>5. PICK b \in Nat : b = Rnd(g, h)!Bias /\ Ref(g, 0)!MinExp = 1 - b - g.F
  <2>1. Ref(g, 0)!Bias = Rnd(g, h)!Bias BY DEF Ref!Bias, Rnd!Bias
  <2> QED BY <1>1, <2>1, Exponents
<1>6. T = 2^(h - 2) /\ T \in Nat \ {0} /\ T % 2 = 0 /\ 2^(h - 1) = 2 * T
  <2>1. T = 2^(h - 2) BY <1>1 DEF Rnd!Hidden
  <2>2. 2^(h - 2) = 2 * 2^(h - 3) /\ 2^(h - 3) \in Nat \ {0}
    <3>1. h - 2 \in Nat \ {0} /\ (h - 2) - 1 = h - 3 BY <1>1
    <3> QED BY <3>1, Doubled
  <2>3. 2^(h - 1) = 2 * 2^(h - 2)
    <3>1. h - 1 \in Nat \ {0} /\ (h - 1) - 1 = h - 2 BY <1>1
    <3> QED BY <3>1, Doubled
  <2> HIDE DEF T
  <2> QED BY <2>1, <2>2, <2>3
<1>7. 2^f.F = T * 2^c /\ 2^c \in Nat \ {0} /\ m \in Nat
  <2>1. h - 2 \in Nat /\ f.F = (h - 2) + c BY <1>1, <1>2, <1>3
  <2>2. 2^((h - 2) + c) = 2^(h - 2) * 2^c /\ 2^c \in Nat \ {0}
    BY <2>1, PowersAdd, PowerOfTwo
  <2>3. m \in Nat BY <1>2, PowerOfTwo
  <2> QED BY <1>6, <2>1, <2>2, <2>3
<1>8. Sticks(k, m, 2^c) BY <1>3, <1>7, ShortJams
<1> HIDE DEF k, T
<1>9. m < T * 2^c BY <1>6, <1>7
<1>10. k \in Nat /\ k < T BY <1>6, <1>8, <1>9, StickyBelow DEF Sticks
<1>11. Bitlen(k + T, h - 1)
  <2>1. PICK n \in Nat \ {0} : n = h - 1
    BY <1>1
  <2>2. n - 1 = h - 2 /\ n \in 1 .. n BY <1>1, <2>1
  <2>3. k + T \in Nat /\ T <= k + T /\ k + T < 2 * T BY <1>6, <1>10
  <2>4. 2^(n - 1) = T /\ 2^n = 2 * T BY <1>6, <2>1, <2>2, Zenon
  <2>5. Bitlen(k + T, n) BY <2>1, <2>2, <2>3, <2>4 DEF Bitlen, HasBits
  <2> QED BY <2>1, <2>5, Zenon
<1>12. Sticks(k + T, 2^f.F + m, 2^c)
  <2>4. T \in Nat /\ T % 2 = 0 BY <1>6
  <2>5. PICK D \in Nat \ {0} : D = 2^c
    BY <1>7
  <2>6. Sticks(k, m, D) BY <1>8, <2>5
  <2>7. Sticks(T + k, T * D + m, D) BY <2>4, <2>6, StickyAdds
  <2>8. T + k = k + T BY <1>6, <1>10
  <2>9. T * D = 2^f.F BY <1>7, <2>5
  <2> QED BY <2>5, <2>7, <2>8, <2>9
<1>13. PICK x \in Int : x = e - (B - b + 1)
  BY <1>4, <1>5
<1>14. RoundsTo(g, mode, s, 2^f.F + m, Place(g, 0, x + 0) - c,
                Rnd(g, h)!roundPack(mode, s, x, (k + T) * 2^0))
  <2>1. (h - 1) + 0 = g.F + g.G + 1 /\ h - 1 >= g.F + 3 /\ 0 \in Nat BY <1>1
  <2> QED BY <1>1, <1>3, <1>11, <1>12, <1>13, <2>1, StickyWordRounds
<1>15. Place(g, 0, x + 0) - c = e - B - f.F
  BY <1>1, <1>2, <1>3, <1>4, <1>5, <1>13 DEF Place
<1>16. (k + T) * 2^0 = k + T BY <1>6, <1>10, PowerZero
<1> QED BY <1>4, <1>5, <1>13, <1>14, <1>15, <1>16 DEF k, T

\* The NaN that a conversion returns is quiet, of either sign.
LEMMA QuietNaNs ==
  ASSUME NEW g, NEW h, IsFormat(g, h), NEW w, NEW s \in {0, 1},
         NEW u, u = (s + 1) * Rnd(g, h)!SignBit - 1
  PROVE  Ref(g, w)!IsNaN(u) /\ ~ Ref(g, w)!IsSignaling(u)
<1>1. PICK A \in Nat \ {0} : 2^(g.F - 1) = A /\ 2^g.F = 2 * A
  <2>1. g.F \in Nat \ {0} BY DEF IsFormat
  <2>2. 2^g.F = 2 * 2^(g.F - 1) /\ 2^(g.F - 1) \in Nat \ {0}
    BY <2>1, Doubled
  <2> QED BY <2>2
<1>2. PICK D \in Nat \ {0} : Rnd(g, h)!MaxExp = D - 1 /\ Rnd(g, h)!SignBit = D * (2 * A)
  <2>1. g.E \in Nat /\ g.F \in Nat BY DEF IsFormat
  <2>2. 2^(g.E + g.F) = 2^g.E * 2^g.F /\ 2^g.E \in Nat \ {0}
    BY <2>1, PowersAdd, PowerOfTwo
  <2> QED BY <1>1, <2>2 DEF Rnd!MaxExp, Rnd!SignBit
<1>3. PICK S \in Nat : S = D * (2 * A)
  BY <1>1, <1>2
<1>4. u = s * S + ((D - 1) * (2 * A) + (2 * A - 1))
  <2>1. (D - 1) * (2 * A) = S - 2 * A BY <1>1, <1>2, <1>3
  <2>2. u = (s + 1) * S - 1 BY <1>2, <1>3
  <2>3. (s + 1) * S = s * S + S /\ s * S \in Int BY <1>3
  <2> QED BY <1>1, <1>3, <2>1, <2>2, <2>3
<1>5. PICK e \in 0 .. Rnd(g, h)!MaxExp : e = Rnd(g, h)!MaxExp
  BY <1>2
<1>6. PICK m \in 0 .. (2^g.F - 1) : m = 2 * A - 1
  BY <1>1
<1>7. u = s * Rnd(g, h)!SignBit + (e * 2^g.F + m)
  BY <1>1, <1>2, <1>3, <1>4, <1>5, <1>6
<1>8. IsPattern(g, u) /\ Rnd(g, h)!exp(u) = e /\ Rnd(g, h)!frac(u) = m
  BY <1>7, PackedFields
<1>9. m # 0 /\ ~ (m < 2^(g.F - 1)) BY <1>1, <1>6
<1>10. Rnd(g, h)!isNaN(u) /\ ~ Rnd(g, h)!isSigNaN(u)
  BY <1>5, <1>8, <1>9, Zenon DEF Rnd!isNaN, Rnd!isSigNaN
<1> QED BY <1>8, <1>10, Kinds

\* A NaN is converted as the reference converts it.
LEMMA NaNConverts ==
  ASSUME NEW f, NEW g, NEW h, IsFormat(f, h), IsFormat(g, h), NEW w, NEW mode, NEW u,
         IsPattern(f, u), Rnd(f, h)!isNaN(u), NEW s \in {0, 1},
         NEW x, x.z = (s + 1) * Rnd(g, h)!SignBit - 1,
         x.flags = (IF Rnd(f, h)!isSigNaN(u) THEN {"invalid"} ELSE {})
  PROVE  Converts(f, g, w, mode, u, x)
<1> DEFINE y == Converted(f, g, w, mode, u)
           q == IF \E v \in {u} : Ref(f, w)!IsSignaling(v) THEN {"invalid"} ELSE {}
<1>1. Ref(f, w)!IsNaN(u) /\ (Rnd(f, h)!isSigNaN(u) <=> Ref(f, w)!IsSignaling(u))
  BY Kinds
<1>2. Ref(f, w)!QuietNaN({u}) = [z |-> Ref(f, w)!NaN, flags |-> q]
  BY DEF Ref!QuietNaN, Ref!Result
<1>3. q = (IF Ref(f, w)!IsSignaling(u) THEN {"invalid"} ELSE {}) OBVIOUS
<1> HIDE DEF q
<1>4. y.z = Ref(g, w)!NaN /\ y.flags = q BY <1>1, <1>2 DEF Converted
<1>5. Ref(g, w)!IsNaN(x.z) /\ ~ Ref(g, w)!IsSignaling(x.z) BY QuietNaNs
<1>6. Ref(g, w)!IsNaN(y.z)
  <2>1. Ref(g, w)!NaN = (1 + 1) * Rnd(g, h)!SignBit - 1
    BY Exponents DEF Ref!NaN
  <2> QED BY <1>4, <2>1, QuietNaNs
<1>7. x.flags = y.flags BY <1>1, <1>3, <1>4
<1> HIDE DEF y
<1>8. Ref(g, w)!SameValue(x.z, y.z) BY <1>5, <1>6, Zenon DEF Ref!SameValue
<1> QED BY <1>7, <1>8 DEF Converts, y

\* A number that is converted is not a NaN.
LEMMA NumberConverts ==
  ASSUME NEW f, NEW g, NEW w, NEW mode, NEW u, ~ Ref(f, w)!IsNaN(u), NEW x,
         x = (IF Ref(f, w)!IsInf(u) THEN Ref(g, w)!Inf(Ref(f, w)!Num(u).s)
              ELSE Ref(g, w)!FromNumber(mode, Ref(f, w)!Num(u)))
  PROVE  Converts(f, g, w, mode, u, x)
<1>1. x = Converted(f, g, w, mode, u) BY Zenon DEF Converted
<1> QED BY <1>1, Zenon DEF Converts, Ref!SameValue

\* f64_to_f32 rounds the number of a pattern once.
LEMMA NarrowingRounds ==
  ASSUME NEW f, NEW g, NEW h, Widens(f, g, h), NEW mode \in RoundingModes, NEW w \in Nat, w >= f.F + 1,
         NEW s \in {0, 1}, NEW e \in Nat, NEW m \in 0 .. (2^f.F - 1),
         NEW x, x = [s |-> s, m |-> IF e = 0 THEN m ELSE 2^f.F + m,
                     q |-> Ref(f, w)!MinExp + (IF e = 0 THEN 0 ELSE e - 1)]
  PROVE  Narrowed(f, g, h, mode, s, e, m) = Ref(g, w)!FromNumber(mode, x)
<1> DEFINE k == Rnd(g, h)!shortShift64RightJam(m, f.F - h + 2)
           P == 2^f.F
           r == Rnd(g, h)!roundPack(mode, s, e - (Rnd(f, h)!Bias - Rnd(g, h)!Bias + 1), k + Rnd(g, h)!Hidden)
<1>1. IsFormat(f, h) /\ IsFormat(g, h) /\ Directed(mode, s)
  BY SingleIs DEF Widens, IsDouble, Directed
<1>2. h \in Nat /\ f.F \in Nat \ {0} /\ f.F + 1 >= h /\ f.F - h + 2 \in Nat /\ g.F \in Nat
  BY SingleIs, WorkingWordIs DEF Widens, IsDouble
<1>3. PICK B \in Nat : B = Rnd(f, h)!Bias /\ Ref(f, w)!MinExp = 1 - B - f.F
  <2>1. Ref(f, w)!Bias = Rnd(f, h)!Bias BY DEF Ref!Bias, Rnd!Bias
  <2> QED BY <1>1, <2>1, Exponents
<1>4. PICK b \in Nat : b = Rnd(g, h)!Bias /\ Ref(g, 0)!MinExp = 1 - b - g.F /\ B >= b + g.F + 1
  <2>1. Ref(g, 0)!Bias = Rnd(g, h)!Bias BY DEF Ref!Bias, Rnd!Bias
  <2> QED BY <1>1, <1>3, <2>1, Exponents DEF Widens
<1>5. P \in Nat \ {0} /\ m \in Nat /\ m < P BY <1>2, PowerOfTwo
<1>6. k = 0 <=> m = 0
  <2>1. Sticks(k, m, 2^(f.F - h + 2)) BY <1>2, <1>5, ShortJams
  <2>2. PICK D \in Nat \ {0} : D = 2^(f.F - h + 2)
    BY <1>2, PowerOfTwo
  <2> HIDE DEF k
  <2>3. k \in Nat /\ (IF k % 2 = 0 THEN m = k * D ELSE (k - 1) * D < m)
    BY <2>1, <2>2 DEF Sticks
  <2>4. ASSUME m = 0
        PROVE  k = 0
    <3>1. CASE k % 2 = 0
      <4>1. k * D = 0 BY <2>3, <2>4, <3>1
      <4> QED BY <2>2, <2>3, <4>1
    <3>2. CASE k % 2 # 0
      <4>1. k - 1 \in Nat BY <2>3, <3>2
      <4>2. (k - 1) * D \in Nat BY <2>2, <4>1
      <4> QED BY <2>3, <2>4, <3>2, <4>2
    <3> QED BY <3>1, <3>2
  <2>5. ASSUME k = 0
        PROVE  m = 0
    BY <2>2, <2>3, <2>5
  <2> QED BY <2>4, <2>5
<1>7. Narrowed(f, g, h, mode, s, e, m) =
        IF e = 0 /\ k = 0 THEN Rnd(g, h)!Exact(Rnd(g, h)!pack(s, 0, 0)) ELSE r
  BY Zenon DEF Narrowed
<1>8. RoundsTo(g, mode, s, P + m, e - B - f.F, r) BY <1>1, <1>3, Narrows
<1> HIDE DEF k, r, P
<1>9. CASE e = 0 /\ m = 0
  <2>1. x.m = 0 /\ x.s = s BY <1>9
  <2>2. Ref(g, w)!FromNumber(mode, x) = Ref(g, w)!Zero(s)
    BY <2>1, Zenon DEF Ref!FromNumber
  <2> QED BY <1>1, <1>6, <1>7, <1>9, <2>2, Specials
<1>10. CASE e = 0 /\ m # 0
  <2> DEFINE q == Ref(f, w)!MinExp + 0
  <2>9. x = [s |-> s, m |-> m, q |-> q] BY <1>10, Zenon
  <2>10. q = 1 - B - f.F BY <1>2, <1>3
  <2> HIDE DEF q
  <2>1. x.m = m /\ x = [s |-> s, m |-> m, q |-> 1 - B - f.F] /\ m # 0
    BY <1>10, <2>9, <2>10
  <2>2. PICK l \in 1 .. f.F : Bitlen(m, l)
    BY <1>2, <1>5, <1>10, HasBitlen DEF P
  <2>3. Bitlen(P + m, f.F + 1)
    <3>1. 2^(f.F + 1) = 2 * P
      <4>1. f.F + 1 \in Nat \ {0} /\ (f.F + 1) - 1 = f.F BY <1>2
      <4> QED BY <4>1, Doubled DEF P
    <3>2. PICK n \in Nat \ {0} : n = f.F + 1
      BY <1>2
    <3>3. n - 1 = f.F /\ n \in 1 .. n BY <1>2, <3>2
    <3>4. 2^(n - 1) = P /\ 2^n = 2 * P BY <3>1, <3>2, <3>3, Zenon DEF P
    <3>5. P + m \in Nat /\ P <= P + m /\ P + m < 2 * P BY <1>5
    <3>6. Bitlen(P + m, n) BY <3>2, <3>3, <3>4, <3>5 DEF Bitlen, HasBits
    <3> QED BY <3>2, <3>6, Zenon
  <2>4. /\ e - B - f.F \in Int /\ 1 - B - f.F \in Int
        /\ (f.F + 1) + (e - B - f.F) <= Ref(g, 0)!MinExp - 1
        /\ l + (1 - B - f.F) <= Ref(g, 0)!MinExp - 1
    BY <1>2, <1>3, <1>4, <1>10, <2>2
  <2>5. RoundsTo(g, mode, s, m, 1 - B - f.F, r)
    <3>1. PICK a \in Int : a = e - B - f.F
      BY <2>4
    <3>2. PICK c \in Int : c = 1 - B - f.F
      BY <2>4
    <3>3. (f.F + 1) + a <= Ref(g, 0)!MinExp - 1 /\ l + c <= Ref(g, 0)!MinExp - 1
      BY <2>4, <3>1, <3>2
    <3>4. RoundsTo(g, mode, s, P + m, a, r) BY <1>8, <3>1
    <3>5. RoundsTo(g, mode, s, m, c, r)
      BY <1>1, <2>2, <2>3, <3>3, <3>4, TinyRounds
    <3> QED BY <3>2, <3>5
  <2>6. m < 2^w
    <3>1. 2^f.F <= 2^w /\ 2^w \in Nat
      <4>1. w >= f.F /\ f.F \in Nat BY <1>2
      <4> QED BY <4>1, PowersGrow, PowerOfTwo
    <3> QED BY <1>5, <3>1 DEF P
  <2>7. Ref(g, w)!Round(mode, x) = r BY <2>1, <2>5, <2>6 DEF RoundsTo
  <2>8. Ref(g, w)!FromNumber(mode, x) = Ref(g, w)!Round(mode, x)
    BY <2>1, Zenon DEF Ref!FromNumber
  <2> QED BY <1>6, <1>7, <1>10, <2>7, <2>8
<1>11. CASE e # 0
  <2>1. x.m = P + m /\ x = [s |-> s, m |-> P + m, q |-> 1 - B - f.F + (e - 1)] /\ P + m # 0
    BY <1>3, <1>5, <1>11 DEF P
  <2>2. 1 - B - f.F + (e - 1) = e - B - f.F BY <1>2, <1>3
  <2>3. P + m < 2^w
    <3>1. 2^(f.F + 1) = 2 * P
      <4>1. f.F + 1 \in Nat \ {0} /\ (f.F + 1) - 1 = f.F BY <1>2
      <4> QED BY <4>1, Doubled DEF P
    <3>2. 2^(f.F + 1) <= 2^w /\ 2^w \in Nat
      <4>1. f.F + 1 \in Nat BY <1>2
      <4> QED BY <4>1, PowersGrow, PowerOfTwo
    <3> QED BY <1>5, <3>1, <3>2
  <2>4. Ref(g, w)!Round(mode, x) = r BY <1>8, <2>1, <2>2, <2>3 DEF RoundsTo
  <2>5. Ref(g, w)!FromNumber(mode, x) = Ref(g, w)!Round(mode, x)
    BY <2>1, Zenon DEF Ref!FromNumber
  <2> QED BY <1>7, <1>11, <2>4, <2>5
<1> QED BY <1>9, <1>10, <1>11

\* The sizes of the two formats.
LEMMA WideningSizes ==
  ASSUME NEW f, NEW g, NEW h, Widens(f, g, h), NEW w
  PROVE  /\ IsFormat(f, h) /\ IsFormat(g, h) /\ g.F \in Nat \ {0} /\ f.F \in Nat \ {0} /\ f.F - g.F \in Nat
         /\ Rnd(f, h)!Bias \in Nat /\ Rnd(g, h)!Bias \in Nat
         /\ Rnd(f, h)!Bias >= Rnd(g, h)!Bias + g.F + 1
         /\ Rnd(f, h)!MaxExp = 2 * Rnd(f, h)!Bias + 1 /\ Rnd(g, h)!MaxExp = 2 * Rnd(g, h)!Bias + 1
         /\ Ref(f, w)!MinExp = 1 - Rnd(f, h)!Bias - f.F /\ Ref(g, w)!MinExp = 1 - Rnd(g, h)!Bias - g.F
<1>1. IsFormat(f, h) /\ IsFormat(g, h) /\ g.F \in Nat \ {0}
  BY SingleIs DEF Widens, IsDouble
<1>2. Ref(f, w)!Bias = Rnd(f, h)!Bias /\ Ref(g, w)!Bias = Rnd(g, h)!Bias
  BY DEF Ref!Bias, Rnd!Bias
<1>3. f.F \in Nat \ {0} /\ f.F - g.F \in Nat
  <2>1. f.F \in Nat \ {0} /\ f.F + 1 >= h BY DEF Widens, IsDouble, IsFormat
  <2>2. h = g.F + g.G + 2 /\ g.G \in Nat BY SingleIs DEF Widens
  <2> QED BY <1>1, <2>1, <2>2
<1>4. Rnd(f, h)!Bias >= Rnd(g, h)!Bias + g.F + 1 BY DEF Widens
<1>5. /\ Ref(f, w)!Bias \in Nat /\ Rnd(f, h)!MaxExp = 2 * Ref(f, w)!Bias + 1
      /\ Ref(f, w)!MinExp = 1 - Ref(f, w)!Bias - f.F
  BY <1>1, Exponents
<1>6. /\ Ref(g, w)!Bias \in Nat /\ Rnd(g, h)!MaxExp = 2 * Ref(g, w)!Bias + 1
      /\ Ref(g, w)!MinExp = 1 - Ref(g, w)!Bias - g.F
  BY <1>1, Exponents
<1> QED BY <1>1, <1>2, <1>3, <1>4, <1>5, <1>6

\* Every nonzero number of the single format is a number of the double.
LEMMA WideningRounds ==
  ASSUME NEW f, NEW g, NEW h, Widens(f, g, h), NEW mode \in RoundingModes, NEW w \in Nat, w >= g.F + 1,
         NEW u, Nonzero(g, h, u), NEW s, s = Ref(g, w)!Num(u).s
  PROVE  Widened(f, g, h, s, Rnd(g, h)!unpacked(u)) = Ref(f, w)!Round(mode, Ref(g, w)!Num(u))
<1> DEFINE U == Rnd(g, h)!unpacked(u)
           x == Ref(g, w)!Num(u)
           r == Widened(f, g, h, s, U)
<1>1. IsFormat(f, h) /\ IsFormat(g, h) /\ IsSingle(g, h) /\ IsPattern(g, u)
  BY WideningSizes DEF Widens, Nonzero, Finite
<1>2. PICK a \in Nat \ {0}, k \in Nat : a = g.F /\ k = f.F - g.F /\ f.F = a + k
  BY WideningSizes
<1>3. PICK B \in Nat, b \in Nat : B = Rnd(f, h)!Bias /\ b = Rnd(g, h)!Bias /\ B >= b + a + 1
  BY <1>2, WideningSizes
<1>4. /\ Rnd(f, h)!MaxExp = 2 * B + 1 /\ Rnd(g, h)!MaxExp = 2 * b + 1
      /\ Ref(f, w)!MinExp = 1 - B - (a + k) /\ Ref(g, w)!MinExp = 1 - b - a
  BY <1>2, <1>3, WideningSizes
<1>5. PICK e \in 0 .. Rnd(g, h)!MaxExp : /\ e = Rnd(g, h)!exp(u) /\ s \in {0, 1} /\ x.s = s
                                         /\ x.q = Ref(g, w)!MinExp + (IF e = 0 THEN 0 ELSE e - 1)
                                         /\ x = [s |-> x.s, m |-> x.m, q |-> x.q]
  <2>1. /\ Rnd(g, h)!sign(u) \in {0, 1} /\ Rnd(g, h)!exp(u) \in 0 .. Rnd(g, h)!MaxExp
        /\ x = [s |-> Rnd(g, h)!sign(u),
                m |-> IF Rnd(g, h)!exp(u) = 0 THEN Rnd(g, h)!frac(u) ELSE 2^g.F + Rnd(g, h)!frac(u),
                q |-> Ref(g, w)!MinExp + (IF Rnd(g, h)!exp(u) = 0 THEN 0 ELSE Rnd(g, h)!exp(u) - 1)]
    BY <1>1, Reads
  <2> HIDE DEF x
  <2>2. /\ x.s = Rnd(g, h)!sign(u)
        /\ x.q = Ref(g, w)!MinExp + (IF Rnd(g, h)!exp(u) = 0 THEN 0 ELSE Rnd(g, h)!exp(u) - 1)
        /\ x = [s |-> x.s, m |-> x.m, q |-> x.q]
    BY <2>1
  <2> QED BY <2>1, <2>2 DEF x
<1>6. e # Rnd(g, h)!MaxExp BY <1>5 DEF Nonzero, Finite
<1>7. U.exp \in Int /\ Bitlen(U.sig, a + 1) /\ \E i : Moves(x, U.sig, Ref(g, w)!MinExp + U.exp - 1, i)
  <2>1. Rnd(g, h)!exp(u) # Rnd(g, h)!MaxExp /\ ~ Rnd(g, h)!isZero(u)
    BY DEF Nonzero, Finite
  <2> QED BY <1>1, <1>2, <2>1, Unpacks
<1> HIDE DEF U, x
<1>8. PICK i : Moves(x, U.sig, Ref(g, w)!MinExp + U.exp - 1, i)
  BY <1>7
<1>9. /\ i \in Nat /\ x.m \in Nat \ {0} /\ x.q \in Int /\ U.sig = x.m * 2^i
      /\ x.q = Ref(g, w)!MinExp + U.exp - 1 + i
  BY <1>8 DEF Moves
<1>10. U.sig \in Nat /\ U.sig < 2^(a + 1) /\ 2^(a + 1) \in Nat
  <2>1. a + 1 \in Nat BY <1>2
  <2> QED BY <1>7, <2>1, PowerOfTwo DEF Bitlen, HasBits
<1>11. x.m <= U.sig /\ i <= a
  <2>1. PICK p \in Nat \ {0} : p = 2^i
    BY <1>9, PowerOfTwo
  <2>2. x.m * 1 <= x.m * p /\ 1 * p <= x.m * p BY <1>9, <2>1
  <2>3. x.m <= U.sig /\ p <= U.sig BY <1>9, <1>10, <2>1, <2>2
  <2>4. ASSUME i >= a + 1
        PROVE  FALSE
    <3>1. a + 1 \in Nat BY <1>2
    <3>2. 2^(a + 1) <= 2^i BY <1>9, <2>4, <3>1, PowersGrow
    <3> QED BY <1>10, <2>1, <2>3, <3>2
  <2> QED BY <1>2, <1>9, <2>3, <2>4
<1>12. PICK j \in Int : j = U.exp - 1 + (B - b) /\ j \in 0 .. (Rnd(f, h)!MaxExp - 2)
  <2>4. PICK y \in Int, z \in Int : y = U.exp /\ z = x.q
    BY <1>7, <1>9
  <2>5. z = 1 - b - a + (IF e = 0 THEN 0 ELSE e - 1) /\ e \in Nat
    BY <1>4, <1>5, <2>4
  <2>8. PICK n \in Int : n = 1 - b - a /\ n = Ref(g, w)!MinExp
    BY <1>4
  <2>9. z = n + y - 1 + i BY <1>9, <2>4, <2>8, Zenon
  <2>6. z = 1 - b - a + y - 1 + i BY <1>9, <2>8, <2>9
  <2>7. y = 1 - i + (IF e = 0 THEN 0 ELSE e - 1)
    <3>1. PICK t \in Int : t = IF e = 0 THEN 0 ELSE e - 1
      BY <2>5
    <3>2. i \in Nat BY <1>9
    <3>3. z = 1 - b - a + t BY <2>5, <3>1
    <3>4. y = 1 - i + t BY <2>6, <3>2, <3>3
    <3> QED BY <3>1, <3>4
  <2>1. U.exp = 1 - i + (IF e = 0 THEN 0 ELSE e - 1) BY <2>4, <2>7
  <2>2. e \in Nat /\ e <= 2 * b BY <1>4, <1>5, <1>6
  <2>3. U.exp \in Int /\ U.exp >= 1 - a /\ U.exp <= 2 * b + 1 /\ (b >= 1 => U.exp <= 2 * b)
    BY <1>2, <1>3, <1>9, <1>11, <2>1, <2>2
  <2> QED BY <1>2, <1>3, <1>4, <2>3
<1>13. PICK m \in Nat : m = U.sig * 2^k /\ m = x.m * 2^(i + k) /\ Bitlen(m, f.F + 1)
  <2>1. 2^(i + k) = 2^i * 2^k BY <1>2, <1>9, PowersAdd
  <2>2. PICK p \in Nat, q \in Nat : p = 2^i /\ q = 2^k
    BY <1>2, <1>9, PowerOfTwo
  <2>3. U.sig * q = x.m * (p * q) /\ U.sig * q \in Nat BY <1>9, <2>2
  <2>4. Bitlen(U.sig * 2^k, (a + 1) + k) BY <1>2, <1>7, BitlenScaled
  <2>5. (a + 1) + k = f.F + 1 BY <1>2
  <2>6. Bitlen(U.sig * 2^k, f.F + 1) BY <2>4, <2>5, Zenon
  <2> QED BY <2>1, <2>2, <2>3, <2>6
<1>14. RoundsTo(f, mode, s, m, Ref(f, w)!MinExp + j, r)
  <2>1. r = Rnd(f, h)!Exact(Rnd(f, h)!pack(s, j, m))
    BY <1>2, <1>3, <1>12, <1>13, Zenon DEF Widened
  <2> HIDE DEF r
  <2> QED BY <1>1, <1>5, <1>12, <1>13, <2>1, PackedNumber
<1>15. PICK c \in Nat : c = i + k
  BY <1>2, <1>9
<1>16. Ref(f, w)!MinExp + j = x.q - c
  <2>1. PICK y \in Int, z \in Int : y = U.exp /\ z = x.q
    BY <1>7, <1>9
  <2>2. j = y - 1 + (B - b) BY <1>12, <2>1
  <2>5. PICK n \in Int : n = 1 - b - a /\ n = Ref(g, w)!MinExp
    BY <1>4
  <2>6. z = n + y - 1 + i BY <1>9, <2>1, <2>5, Zenon
  <2>3. z = 1 - b - a + y - 1 + i BY <1>9, <2>5, <2>6
  <2>4. 1 - B - (a + k) + j = z - c
    <3>1. i \in Nat /\ c = i + k BY <1>9, <1>15
    <3> QED BY <2>2, <2>3, <3>1
  <2> QED BY <1>4, <2>1, <2>4
<1> HIDE DEF r
<1>17. RoundsTo(f, mode, s, x.m * 2^c, x.q - c, r)
  BY <1>13, <1>14, <1>15, <1>16, Zenon
<1>18. RoundsTo(f, mode, s, x.m, x.q, r)
  <2>1. Directed(mode, s) BY <1>5 DEF Directed
  <2> QED BY <1>1, <1>9, <1>15, <1>17, <2>1, Rescaled
<1>19. x.m < 2^w
  <2>1. a + 1 \in Nat /\ w >= a + 1 BY <1>2
  <2>2. 2^(a + 1) <= 2^w /\ 2^w \in Nat BY <2>1, PowersGrow, PowerOfTwo
  <2> QED BY <1>9, <1>10, <1>11, <2>2
<1>20. Ref(f, w)!Round(mode, [s |-> s, m |-> x.m, q |-> x.q]) = r
  BY <1>18, <1>19 DEF RoundsTo
<1> QED BY <1>5, <1>20, Zenon DEF x, r, U

----
\* The double-precision files

Dbl(f, g, h) == INSTANCE Float64Plain WITH E <- f.E, F <- f.F, G <- f.G, P <- f.P,
                                           E1 <- g.E, F1 <- g.F, G1 <- g.G, H <- h

\* The double-precision files pack and round as the single ones do.
LEMMA DoublePacks ==
  ASSUME NEW f, NEW g, NEW h, NEW s, NEW e, NEW u
  PROVE  Dbl(f, g, h)!pack(s, e, u) = Rnd(f, h)!pack(s, e, u)
BY Zenon DEF Dbl!pack, Rnd!pack, Dbl!SignBit, Rnd!SignBit

\* What the double-precision files share with the single ones.
LEMMA DoubleParts ==
  ASSUME NEW f, NEW g, NEW h
  PROVE  /\ \A a : Dbl(f, g, h)!countLeadingZeros32(a) = Rnd(f, h)!countLeadingZeros32(a)
         /\ \A a, n : Dbl(f, g, h)!shortShift64RightJam(a, n) = Rnd(f, h)!shortShift64RightJam(a, n)
         /\ Dbl(f, g, h)!Bias = Rnd(f, h)!Bias
         /\ \A u : Dbl(f, g, h)!Exact(u) = Rnd(f, h)!Exact(u)
         /\ \A b : Dbl(f, g, h)!Bit(b) = Rnd(f, h)!Bit(b)
<1>1. ASSUME NEW a
      PROVE  Dbl(f, g, h)!countLeadingZeros32(a) = Rnd(f, h)!countLeadingZeros32(a)
  BY Zenon DEF Dbl!countLeadingZeros32, Rnd!countLeadingZeros32, Dbl!countLeadingZeros8,
               Rnd!countLeadingZeros8
<1>2. ASSUME NEW a, NEW n
      PROVE  Dbl(f, g, h)!shortShift64RightJam(a, n) = Rnd(f, h)!shortShift64RightJam(a, n)
  BY Zenon DEF Dbl!shortShift64RightJam, Rnd!shortShift64RightJam, Dbl!Jam, Rnd!Jam
<1>3. Dbl(f, g, h)!Bias = Rnd(f, h)!Bias BY Zenon DEF Dbl!Bias, Rnd!Bias
<1>4. ASSUME NEW u
      PROVE  Dbl(f, g, h)!Exact(u) = Rnd(f, h)!Exact(u)
  BY Zenon DEF Dbl!Exact, Rnd!Exact
<1>5. ASSUME NEW b
      PROVE  Dbl(f, g, h)!Bit(b) = Rnd(f, h)!Bit(b)
  BY Zenon DEF Dbl!Bit, Rnd!Bit
<1> QED BY <1>1, <1>2, <1>3, <1>4, <1>5

\* Their roundPack is the same.
LEMMA DoubleRounds ==
  ASSUME NEW f, NEW g, NEW h, NEW m, NEW s, NEW e, NEW u
  PROVE  Dbl(f, g, h)!roundPack(m, s, e, u) = Rnd(f, h)!roundPack(m, s, e, u)
<1> DEFINE x == IF e < 0 THEN Rnd(f, h)!shiftRightJam(u, -e) ELSE u
           y == IF e < 0 THEN Dbl(f, g, h)!shiftRightJam(u, -e) ELSE u
           v == Rnd(f, h)!cut(m, s, x, f.G)
           w == Dbl(f, g, h)!cut(m, s, y, f.G)
           i == Rnd(f, h)!roundIncrement(m, s, f.G)
           j == Dbl(f, g, h)!roundIncrement(m, s, f.G)
           k == IF v = 0 THEN 0 ELSE IF e < 0 THEN 0 ELSE e
           l == IF w = 0 THEN 0 ELSE IF e < 0 THEN 0 ELSE e
<1>1. ASSUME NEW a, NEW n
      PROVE  Dbl(f, g, h)!shiftRightJam(a, n) = Rnd(f, h)!shiftRightJam(a, n)
  BY Zenon DEF Dbl!shiftRightJam, Rnd!shiftRightJam, Dbl!W, Rnd!W,
               Dbl!shift32RightJam, Rnd!shift32RightJam, Dbl!shift64RightJam, Rnd!shift64RightJam,
               Dbl!Jam, Rnd!Jam, Dbl!Lost, Rnd!Lost, Dbl!Bit, Rnd!Bit
<1>2. ASSUME NEW n
      PROVE  Dbl(f, g, h)!roundIncrement(m, s, n) = Rnd(f, h)!roundIncrement(m, s, n)
  BY Zenon DEF Dbl!roundIncrement, Rnd!roundIncrement
<1>3. ASSUME NEW a, NEW n
      PROVE  Dbl(f, g, h)!cut(m, s, a, n) = Rnd(f, h)!cut(m, s, a, n)
  BY <1>2, Zenon DEF Dbl!cut, Rnd!cut
<1>4. Dbl(f, g, h)!MaxExp = Rnd(f, h)!MaxExp /\ Dbl(f, g, h)!Top = Rnd(f, h)!Top
  BY Zenon DEF Dbl!MaxExp, Rnd!MaxExp, Dbl!Top, Rnd!Top, Dbl!W, Rnd!W
<1>5. Rnd(f, h)!roundPack(m, s, e, u) =
        PackedAs(Rnd(f, h)!MaxExp, Rnd(f, h)!Top, i, e, u, x % 2^f.G,
                 Rnd(f, h)!pack(s, Rnd(f, h)!MaxExp, 0), Rnd(f, h)!Bit(i = 0), Rnd(f, h)!pack(s, k, v))
  BY Zenon DEF Rnd!roundPack, PackedAs
<1>6. Dbl(f, g, h)!roundPack(m, s, e, u) =
        PackedAs(Dbl(f, g, h)!MaxExp, Dbl(f, g, h)!Top, j, e, u, y % 2^f.G,
                 Dbl(f, g, h)!pack(s, Dbl(f, g, h)!MaxExp, 0), Dbl(f, g, h)!Bit(j = 0),
                 Dbl(f, g, h)!pack(s, l, w))
  BY Zenon DEF Dbl!roundPack, PackedAs
<1>7. x = y BY <1>1, Zenon
<1> HIDE DEF x, y
<1>8. v = w /\ i = j BY <1>2, <1>3, <1>7, Zenon
<1> HIDE DEF v, w, i, j
<1>9. k = l BY <1>8, Zenon
<1> HIDE DEF k, l
<1>10. /\ Rnd(f, h)!pack(s, k, v) = Dbl(f, g, h)!pack(s, k, v)
       /\ Rnd(f, h)!pack(s, Rnd(f, h)!MaxExp, 0) = Dbl(f, g, h)!pack(s, Rnd(f, h)!MaxExp, 0)
  BY DoublePacks, Zenon
<1>11. Rnd(f, h)!Bit(i = 0) = Dbl(f, g, h)!Bit(i = 0)
  BY Zenon DEF Rnd!Bit, Dbl!Bit
<1> QED BY <1>4, <1>5, <1>6, <1>7, <1>8, <1>9, <1>10, <1>11, Zenon

\* Their normRoundPack is the same.
LEMMA DoubleNormRounds ==
  ASSUME NEW f, NEW g, NEW h, NEW m, NEW s, NEW e, NEW u
  PROVE  Dbl(f, g, h)!normRoundPack(m, s, e, u) = Rnd(f, h)!normRoundPack(m, s, e, u)
<1> DEFINE x == Rnd(f, h)!countLeadingZeros(u)
           y == Dbl(f, g, h)!countLeadingZeros(u)
           c == x - 1
           k == Rnd(f, h)!pack(s, IF u = 0 THEN 0 ELSE e - c, u * 2^(c - f.G))
           l == Dbl(f, g, h)!pack(s, IF u = 0 THEN 0 ELSE e - c, u * 2^(c - f.G))
<1>1. x = y
  BY Zenon DEF Dbl!countLeadingZeros, Rnd!countLeadingZeros, Dbl!W, Rnd!W, Dbl!M32, Rnd!M32,
               Dbl!countLeadingZeros32, Rnd!countLeadingZeros32, Dbl!countLeadingZeros64,
               Rnd!countLeadingZeros64, Dbl!countLeadingZeros8, Rnd!countLeadingZeros8
<1>2. Rnd(f, h)!normRoundPack(m, s, e, u) =
        IF f.G <= c /\ e - c \in 0 .. (Rnd(f, h)!MaxExp - 3) THEN Rnd(f, h)!Exact(k)
        ELSE Rnd(f, h)!roundPack(m, s, e - c, u * 2^c)
  BY Zenon DEF Rnd!normRoundPack
<1>3. Dbl(f, g, h)!normRoundPack(m, s, e, u) =
        IF f.G <= c /\ e - c \in 0 .. (Dbl(f, g, h)!MaxExp - 3) THEN Dbl(f, g, h)!Exact(l)
        ELSE Dbl(f, g, h)!roundPack(m, s, e - c, u * 2^c)
  <2> HIDE DEF x
  <2> QED BY <1>1, Zenon DEF Dbl!normRoundPack
<1>4. k = l
  <2> HIDE DEF c
  <2> QED BY DoublePacks, Zenon
<1> HIDE DEF k, l, c
<1>5. Dbl(f, g, h)!Exact(l) = Rnd(f, h)!Exact(l) /\ Dbl(f, g, h)!MaxExp = Rnd(f, h)!MaxExp
  BY Zenon DEF Dbl!Exact, Rnd!Exact, Dbl!MaxExp, Rnd!MaxExp
<1>6. Dbl(f, g, h)!roundPack(m, s, e - c, u * 2^c) = Rnd(f, h)!roundPack(m, s, e - c, u * 2^c)
  BY DoubleRounds, Zenon
<1>7. Dbl(f, g, h)!normRoundPack(m, s, e, u) =
        IF f.G <= c /\ e - c \in 0 .. (Rnd(f, h)!MaxExp - 3) THEN Rnd(f, h)!Exact(k)
        ELSE Rnd(f, h)!roundPack(m, s, e - c, u * 2^c)
  BY <1>3, <1>4, <1>5, <1>6
<1> QED BY <1>2, <1>7, Zenon

\* The same of a format of two words; an integer of one word fits in it.
THEOREM DoubleFromIntegerIsIeee ==
  ASSUME NEW f, NEW g, NEW h, IsDouble(f, h), Reaches(f, h), NEW mode \in RoundingModes,
         NEW w \in Nat, w >= 2 * h, NEW z
  PROVE  /\ z \in SignedRange(h) => Dbl(f, g, h)!i32_to_f64(z) = Ref(f, w)!FromInt(mode, z)
         /\ z \in UnsignedRange(h) => Dbl(f, g, h)!ui32_to_f64(z) = Ref(f, w)!FromInt(mode, z)
         /\ z \in SignedRange(2 * h) => Dbl(f, g, h)!i64_to_f64(mode, z) = Ref(f, w)!FromInt(mode, z)
         /\ z \in UnsignedRange(2 * h) => Dbl(f, g, h)!ui64_to_f64(mode, z) = Ref(f, w)!FromInt(mode, z)
<1>1. /\ IsFormat(f, h) /\ IsWord(h) /\ Rnd(f, h)!W = 2 * h /\ h \in Nat \ {0}
      /\ f.F \in Nat \ {0} /\ f.F + 1 >= h
  BY WorkingWordIs DEF IsDouble, IsWord
<1>2. /\ Rnd(f, h)!Top = 2^(2 * h - 1) /\ Rnd(f, h)!Top \in Nat \ {0} /\ w >= Rnd(f, h)!W
      /\ 2^(2 * h) = 2 * Rnd(f, h)!Top
  BY <1>1, TopIs
<1>3. Dbl(f, g, h)!M64 \div 2 = Rnd(f, h)!Top
  <2>1. Dbl(f, g, h)!M64 = 2^(2 * h) BY Zenon DEF Dbl!M64
  <2> QED BY <1>2, <2>1
<1>4. ASSUME z \in SignedRange(2 * h)
      PROVE  Dbl(f, g, h)!i64_to_f64(mode, z) = Ref(f, w)!FromInt(mode, z)
  <2>1. z \in (-Rnd(f, h)!Top) .. (Rnd(f, h)!Top - 1)
    BY <1>2, <1>4 DEF SignedRange
  <2>2. FromSigned(f, h, mode, z) = Ref(f, w)!FromInt(mode, z)
    BY <1>1, <1>2, <2>1, SignedIsIeee
  <2> DEFINE T == Rnd(f, h)!Top
             B == Rnd(f, h)!Bias
             m == IF z < 0 THEN -z ELSE z
             x == IF z < 0 THEN Rnd(f, h)!pack(1, B + 2 * h - 1, 0) ELSE 0
  <2>3. Dbl(f, g, h)!i64_to_f64(mode, z) =
          IF z \in {0, -(Dbl(f, g, h)!M64 \div 2)}
          THEN Dbl(f, g, h)!Exact(IF z < 0 THEN Dbl(f, g, h)!pack(1, Dbl(f, g, h)!Bias + 2 * h - 1, 0) ELSE 0)
          ELSE Dbl(f, g, h)!normRoundPack(mode, Dbl(f, g, h)!Bit(z < 0), Dbl(f, g, h)!Bias + 2 * h - 3, m)
    BY Zenon DEF Dbl!i64_to_f64
  <2>4. Dbl(f, g, h)!Bias = B /\ Dbl(f, g, h)!Bit(z < 0) = Rnd(f, h)!Bit(z < 0)
    BY DoubleParts
  <2>5. Dbl(f, g, h)!pack(1, B + 2 * h - 1, 0) = Rnd(f, h)!pack(1, B + 2 * h - 1, 0)
    BY DoublePacks, Zenon
  <2>6. Dbl(f, g, h)!Exact(x) = Rnd(f, h)!Exact(x) BY DoubleParts
  <2>7. Dbl(f, g, h)!normRoundPack(mode, Rnd(f, h)!Bit(z < 0), B + 2 * h - 3, m) =
          Rnd(f, h)!normRoundPack(mode, Rnd(f, h)!Bit(z < 0), B + 2 * h - 3, m)
    BY DoubleNormRounds, Zenon
  <2>8. FromSigned(f, h, mode, z) =
          IF z \in {0, -T} THEN Rnd(f, h)!Exact(x)
          ELSE Rnd(f, h)!normRoundPack(mode, Rnd(f, h)!Bit(z < 0), B + 2 * h - 3, m)
    BY <1>1, Zenon DEF FromSigned
  <2> HIDE DEF T, B, m
  <2>9. Dbl(f, g, h)!i64_to_f64(mode, z) =
          IF z \in {0, -T} THEN Dbl(f, g, h)!Exact(x)
          ELSE Dbl(f, g, h)!normRoundPack(mode, Rnd(f, h)!Bit(z < 0), B + 2 * h - 3, m)
    BY <1>3, <2>3, <2>4, <2>5, Zenon DEF T
  <2> HIDE DEF x
  <2> QED BY <2>2, <2>6, <2>7, <2>8, <2>9, Zenon
<1>5. ASSUME z \in UnsignedRange(2 * h)
      PROVE  Dbl(f, g, h)!ui64_to_f64(mode, z) = Ref(f, w)!FromInt(mode, z)
  <2>1. z \in 0 .. (2^Rnd(f, h)!W - 1) BY <1>1, <1>5 DEF UnsignedRange
  <2>2. FromUnsigned(f, h, mode, z) = Ref(f, w)!FromInt(mode, z)
    BY <1>1, <1>2, <2>1, UnsignedIsIeee
  <2> DEFINE T == Rnd(f, h)!Top
             B == Rnd(f, h)!Bias
             k == Rnd(f, h)!shortShift64RightJam(z, 1)
  <2>3. Dbl(f, g, h)!ui64_to_f64(mode, z) =
          IF z = 0 THEN Dbl(f, g, h)!Exact(0)
          ELSE IF z >= Dbl(f, g, h)!M64 \div 2
          THEN Dbl(f, g, h)!roundPack(mode, 0, Dbl(f, g, h)!Bias + 2 * h - 2,
                                      Dbl(f, g, h)!shortShift64RightJam(z, 1))
          ELSE Dbl(f, g, h)!normRoundPack(mode, 0, Dbl(f, g, h)!Bias + 2 * h - 3, z)
    BY Zenon DEF Dbl!ui64_to_f64
  <2>4. /\ Dbl(f, g, h)!Bias = B /\ Dbl(f, g, h)!Exact(0) = Rnd(f, h)!Exact(0)
        /\ Dbl(f, g, h)!shortShift64RightJam(z, 1) = k
    BY DoubleParts
  <2>5. Dbl(f, g, h)!roundPack(mode, 0, B + 2 * h - 2, k) = Rnd(f, h)!roundPack(mode, 0, B + 2 * h - 2, k)
    BY DoubleRounds, Zenon
  <2>6. Dbl(f, g, h)!normRoundPack(mode, 0, B + 2 * h - 3, z) = Rnd(f, h)!normRoundPack(mode, 0, B + 2 * h - 3, z)
    BY DoubleNormRounds, Zenon
  <2>7. FromUnsigned(f, h, mode, z) =
          IF z = 0 THEN Rnd(f, h)!Exact(0)
          ELSE IF z >= T THEN Rnd(f, h)!roundPack(mode, 0, B + 2 * h - 2, k)
          ELSE Rnd(f, h)!normRoundPack(mode, 0, B + 2 * h - 3, z)
    BY <1>1, Zenon DEF FromUnsigned
  <2> HIDE DEF T, B, k
  <2> QED BY <1>3, <2>2, <2>3, <2>4, <2>5, <2>6, <2>7, Zenon DEF T
<1>6. ASSUME z \in SignedRange(h) \cup UnsignedRange(h),
             NEW s, s = (IF z < 0 THEN 1 ELSE 0), NEW m, m = (IF z < 0 THEN -z ELSE z)
      PROVE  Dbl(f, g, h)!fromWord32(s, m) = Ref(f, w)!FromInt(mode, z)
  <2> DEFINE x == Dbl(f, g, h)!countLeadingZeros32(m) + f.F - h + 1
  <2>1. w >= h BY <1>1
  <2>2. z \in Int /\ m \in Nat /\ m < 2^h /\ m < 2^w /\ s \in {0, 1} /\ (z # 0 => m # 0)
    BY <1>1, <1>6, <2>1, Magnitude
  <2>3. Dbl(f, g, h)!fromWord32(s, m) =
          Dbl(f, g, h)!Exact(IF m = 0 THEN 0
                             ELSE Dbl(f, g, h)!pack(s, Dbl(f, g, h)!Bias + f.F - 1 - x, m * 2^x))
    BY Zenon DEF Dbl!fromWord32
  <2> HIDE DEF x
  <2>4. CASE z = 0
    <3>1. Dbl(f, g, h)!fromWord32(s, m) = Dbl(f, g, h)!Exact(0)
      BY <1>6, <2>3, <2>4
    <3>2. Dbl(f, g, h)!Exact(0) = Rnd(f, h)!Exact(0) BY DoubleParts
    <3> QED BY <2>4, <3>1, <3>2, ZeroConverts
  <2>5. CASE z # 0
    <3>1. PICK n \in 1 .. h : Bitlen(m, n)
      BY <1>1, <2>2, <2>5, HasBitlen
    <3>2. PICK i \in Nat : i = x /\ n + i = f.F + 1
      <4>1. Dbl(f, g, h)!countLeadingZeros32(m) = Rnd(f, h)!countLeadingZeros32(m)
        BY DoubleParts
      <4>2. n <= h BY <1>1, <3>1
      <4>3. Rnd(f, h)!countLeadingZeros32(m) = h - n
        BY <1>1, <3>1, <4>2, WordZeros
      <4>4. x = h - n + f.F - h + 1 BY <4>1, <4>3 DEF x
      <4> QED BY <1>1, <3>1, <4>4
    <3>3. Dbl(f, g, h)!fromWord32(s, m) =
            Rnd(f, h)!Exact(Rnd(f, h)!pack(s, Rnd(f, h)!Bias + f.F - 1 - i, m * 2^i))
      <4>1. m # 0 BY <2>2, <2>5
      <4>2. Dbl(f, g, h)!Bias = Rnd(f, h)!Bias BY DoubleParts
      <4>3. Dbl(f, g, h)!fromWord32(s, m) =
              Dbl(f, g, h)!Exact(Dbl(f, g, h)!pack(s, Rnd(f, h)!Bias + f.F - 1 - i, m * 2^i))
        BY <2>3, <3>2, <4>1, <4>2, Zenon
      <4> QED
        <5>1. Dbl(f, g, h)!pack(s, Rnd(f, h)!Bias + f.F - 1 - i, m * 2^i) =
                Rnd(f, h)!pack(s, Rnd(f, h)!Bias + f.F - 1 - i, m * 2^i)
          BY DoublePacks, Zenon
        <5>2. \A y : Dbl(f, g, h)!Exact(y) = Rnd(f, h)!Exact(y)
          BY DoubleParts
        <5> QED BY <4>3, <5>1, <5>2, Zenon
    <3>4. RoundsTo(f, mode, s, m, 0, Dbl(f, g, h)!fromWord32(s, m))
      BY <1>1, <2>2, <3>1, <3>2, <3>3, SmallFits DEF Directed
    <3> QED BY <1>6, <2>2, <2>5, <3>4, IntegerRounds
  <2> QED BY <2>4, <2>5
<1>7. ASSUME z \in SignedRange(h)
      PROVE  Dbl(f, g, h)!i32_to_f64(z) = Ref(f, w)!FromInt(mode, z)
  <2>1. Dbl(f, g, h)!i32_to_f64(z) =
          Dbl(f, g, h)!fromWord32(IF z < 0 THEN 1 ELSE 0, IF z < 0 THEN -z ELSE z)
    BY Zenon DEF Dbl!i32_to_f64, Dbl!Bit
  <2> QED BY <1>6, <1>7, <2>1
<1>8. ASSUME z \in UnsignedRange(h)
      PROVE  Dbl(f, g, h)!ui32_to_f64(z) = Ref(f, w)!FromInt(mode, z)
  <2>1. Dbl(f, g, h)!ui32_to_f64(z) = Dbl(f, g, h)!fromWord32(0, z)
    BY Zenon DEF Dbl!ui32_to_f64
  <2>2. 0 = (IF z < 0 THEN 1 ELSE 0) /\ z = (IF z < 0 THEN -z ELSE z)
    <3>1. 2^h \in Nat BY <1>1, PowerOfTwo
    <3>2. z \in Nat BY <1>8, <3>1 DEF UnsignedRange
    <3> QED BY <3>2
  <2> QED BY <1>6, <1>8, <2>1, <2>2
<1> QED BY <1>4, <1>5, <1>7, <1>8

\* The parts of the double-precision files that read a pattern, one fact to
\* a lemma.
LEMMA DoubleSign ==
  ASSUME NEW f, NEW g, NEW h, NEW u
  PROVE  Dbl(f, g, h)!sign(u) = Rnd(f, h)!sign(u)
BY Zenon DEF Dbl!sign, Rnd!sign, Dbl!SignBit, Rnd!SignBit

\* The exponent field.
LEMMA DoubleExp ==
  ASSUME NEW f, NEW g, NEW h, NEW u
  PROVE  Dbl(f, g, h)!exp(u) = Rnd(f, h)!exp(u)
BY Zenon DEF Dbl!exp, Rnd!exp

\* The fraction field.
LEMMA DoubleFrac ==
  ASSUME NEW f, NEW g, NEW h, NEW u
  PROVE  Dbl(f, g, h)!frac(u) = Rnd(f, h)!frac(u)
BY Zenon DEF Dbl!frac, Rnd!frac

\* Kinds of pattern.
LEMMA DoubleKinds ==
  ASSUME NEW f, NEW g, NEW h, NEW u
  PROVE  /\ Dbl(f, g, h)!isNaN(u) <=> Rnd(f, h)!isNaN(u)
         /\ Dbl(f, g, h)!isInf(u) <=> Rnd(f, h)!isInf(u)
         /\ Dbl(f, g, h)!isSigNaN(u) <=> Rnd(f, h)!isSigNaN(u)
         /\ Dbl(f, g, h)!MaxExp = Rnd(f, h)!MaxExp
         /\ Dbl(f, g, h)!SignBit = Rnd(f, h)!SignBit
<1>1. Dbl(f, g, h)!isNaN(u) <=> Rnd(f, h)!isNaN(u)
  BY Zenon DEF Dbl!isNaN, Rnd!isNaN, Dbl!exp, Rnd!exp, Dbl!frac, Rnd!frac, Dbl!MaxExp, Rnd!MaxExp
<1>2. Dbl(f, g, h)!isInf(u) <=> Rnd(f, h)!isInf(u)
  BY Zenon DEF Dbl!isInf, Rnd!isInf, Dbl!exp, Rnd!exp, Dbl!frac, Rnd!frac, Dbl!MaxExp, Rnd!MaxExp
<1>3. Dbl(f, g, h)!isSigNaN(u) <=> Rnd(f, h)!isSigNaN(u)
  BY <1>1, Zenon DEF Dbl!isSigNaN, Rnd!isSigNaN, Dbl!frac, Rnd!frac
<1>4. Dbl(f, g, h)!MaxExp = Rnd(f, h)!MaxExp /\ Dbl(f, g, h)!SignBit = Rnd(f, h)!SignBit
  BY Zenon DEF Dbl!MaxExp, Rnd!MaxExp, Dbl!SignBit, Rnd!SignBit
<1> QED BY <1>1, <1>2, <1>3, <1>4

\* The single format of the double-precision files is the single one's.
LEMMA SinglePartPacks ==
  ASSUME NEW f, NEW g, NEW h, NEW s, NEW e, NEW u
  PROVE  Dbl(f, g, h)!S!pack(s, e, u) = Rnd(g, h)!pack(s, e, u)
BY Zenon DEF Dbl!S!pack, Rnd!pack, Dbl!S!SignBit, Rnd!SignBit

\* Its fields.
LEMMA SinglePartFields ==
  ASSUME NEW f, NEW g, NEW h, NEW u
  PROVE  /\ Dbl(f, g, h)!S!sign(u) = Rnd(g, h)!sign(u)
         /\ Dbl(f, g, h)!S!exp(u) = Rnd(g, h)!exp(u)
         /\ Dbl(f, g, h)!S!frac(u) = Rnd(g, h)!frac(u)
<1>1. Dbl(f, g, h)!S!sign(u) = Rnd(g, h)!sign(u)
  BY Zenon DEF Dbl!S!sign, Rnd!sign, Dbl!S!SignBit, Rnd!SignBit
<1>2. Dbl(f, g, h)!S!exp(u) = Rnd(g, h)!exp(u)
  BY Zenon DEF Dbl!S!exp, Rnd!exp
<1>3. Dbl(f, g, h)!S!frac(u) = Rnd(g, h)!frac(u)
  BY Zenon DEF Dbl!S!frac, Rnd!frac
<1> QED BY <1>1, <1>2, <1>3

\* Its constants and its kinds of pattern.
LEMMA SinglePartKinds ==
  ASSUME NEW f, NEW g, NEW h, NEW u
  PROVE  /\ Dbl(f, g, h)!S!isNaN(u) <=> Rnd(g, h)!isNaN(u)
         /\ Dbl(f, g, h)!S!isInf(u) <=> Rnd(g, h)!isInf(u)
         /\ Dbl(f, g, h)!S!isZero(u) <=> Rnd(g, h)!isZero(u)
         /\ Dbl(f, g, h)!S!isSigNaN(u) <=> Rnd(g, h)!isSigNaN(u)
<1>1. Dbl(f, g, h)!S!isNaN(u) <=> Rnd(g, h)!isNaN(u)
  BY Zenon DEF Dbl!S!isNaN, Rnd!isNaN, Dbl!S!exp, Rnd!exp, Dbl!S!frac, Rnd!frac,
               Dbl!S!MaxExp, Rnd!MaxExp
<1>2. Dbl(f, g, h)!S!isInf(u) <=> Rnd(g, h)!isInf(u)
  BY Zenon DEF Dbl!S!isInf, Rnd!isInf, Dbl!S!exp, Rnd!exp, Dbl!S!frac, Rnd!frac,
               Dbl!S!MaxExp, Rnd!MaxExp
<1>3. Dbl(f, g, h)!S!isZero(u) <=> Rnd(g, h)!isZero(u)
  BY Zenon DEF Dbl!S!isZero, Rnd!isZero, Dbl!S!SignBit, Rnd!SignBit
<1>4. Dbl(f, g, h)!S!isSigNaN(u) <=> Rnd(g, h)!isSigNaN(u)
  BY <1>1, Zenon DEF Dbl!S!isSigNaN, Rnd!isSigNaN, Dbl!S!frac, Rnd!frac
<1> QED BY <1>1, <1>2, <1>3, <1>4

\* Its constants.
LEMMA SinglePartSizes ==
  ASSUME NEW f, NEW g, NEW h
  PROVE  /\ Dbl(f, g, h)!S!Hidden = Rnd(g, h)!Hidden
         /\ Dbl(f, g, h)!S!Bias = Rnd(g, h)!Bias
         /\ Dbl(f, g, h)!S!MaxExp = Rnd(g, h)!MaxExp
         /\ Dbl(f, g, h)!S!SignBit = Rnd(g, h)!SignBit
BY Zenon DEF Dbl!S!Hidden, Rnd!Hidden, Dbl!S!W, Rnd!W, Dbl!S!Bias, Rnd!Bias, Dbl!S!MaxExp,
             Rnd!MaxExp, Dbl!S!SignBit, Rnd!SignBit

\* A subnormal of it is normalized alike.
LEMMA SinglePartNormalizes ==
  ASSUME NEW f, NEW g, NEW h, NEW u
  PROVE  Dbl(f, g, h)!S!normSubnormalSig(u) = Rnd(g, h)!normSubnormalSig(u)
BY Zenon DEF Dbl!S!normSubnormalSig, Rnd!normSubnormalSig, Dbl!S!countLeadingZeros,
             Rnd!countLeadingZeros, Dbl!S!W, Rnd!W, Dbl!S!M32, Rnd!M32,
             Dbl!S!countLeadingZeros32, Rnd!countLeadingZeros32, Dbl!S!countLeadingZeros64,
             Rnd!countLeadingZeros64, Dbl!S!countLeadingZeros8, Rnd!countLeadingZeros8

\* It rounds and packs as the single-precision files do.
LEMMA SinglePartRounds ==
  ASSUME NEW f, NEW g, NEW h, NEW m, NEW s, NEW e, NEW u
  PROVE  Dbl(f, g, h)!S!roundPack(m, s, e, u) = Rnd(g, h)!roundPack(m, s, e, u)
<1> DEFINE x == IF e < 0 THEN Rnd(g, h)!shiftRightJam(u, -e) ELSE u
           y == IF e < 0 THEN Dbl(f, g, h)!S!shiftRightJam(u, -e) ELSE u
           v == Rnd(g, h)!cut(m, s, x, g.G)
           w == Dbl(f, g, h)!S!cut(m, s, y, g.G)
           i == Rnd(g, h)!roundIncrement(m, s, g.G)
           j == Dbl(f, g, h)!S!roundIncrement(m, s, g.G)
           k == IF v = 0 THEN 0 ELSE IF e < 0 THEN 0 ELSE e
           l == IF w = 0 THEN 0 ELSE IF e < 0 THEN 0 ELSE e
<1>1. ASSUME NEW a, NEW n
      PROVE  Dbl(f, g, h)!S!shiftRightJam(a, n) = Rnd(g, h)!shiftRightJam(a, n)
  BY Zenon DEF Dbl!S!shiftRightJam, Rnd!shiftRightJam, Dbl!S!W, Rnd!W,
               Dbl!S!shift32RightJam, Rnd!shift32RightJam, Dbl!S!shift64RightJam, Rnd!shift64RightJam,
               Dbl!S!Jam, Rnd!Jam, Dbl!S!Lost, Rnd!Lost, Dbl!S!Bit, Rnd!Bit
<1>2. ASSUME NEW n
      PROVE  Dbl(f, g, h)!S!roundIncrement(m, s, n) = Rnd(g, h)!roundIncrement(m, s, n)
  BY Zenon DEF Dbl!S!roundIncrement, Rnd!roundIncrement
<1>3. ASSUME NEW a, NEW n
      PROVE  Dbl(f, g, h)!S!cut(m, s, a, n) = Rnd(g, h)!cut(m, s, a, n)
  BY <1>2, Zenon DEF Dbl!S!cut, Rnd!cut
<1>4. Dbl(f, g, h)!S!MaxExp = Rnd(g, h)!MaxExp /\ Dbl(f, g, h)!S!Top = Rnd(g, h)!Top
  BY Zenon DEF Dbl!S!MaxExp, Rnd!MaxExp, Dbl!S!Top, Rnd!Top, Dbl!S!W, Rnd!W
<1>5. Rnd(g, h)!roundPack(m, s, e, u) =
        PackedAs(Rnd(g, h)!MaxExp, Rnd(g, h)!Top, i, e, u, x % 2^g.G,
                 Rnd(g, h)!pack(s, Rnd(g, h)!MaxExp, 0), Rnd(g, h)!Bit(i = 0), Rnd(g, h)!pack(s, k, v))
  BY Zenon DEF Rnd!roundPack, PackedAs
<1>6. Dbl(f, g, h)!S!roundPack(m, s, e, u) =
        PackedAs(Dbl(f, g, h)!S!MaxExp, Dbl(f, g, h)!S!Top, j, e, u, y % 2^g.G,
                 Dbl(f, g, h)!S!pack(s, Dbl(f, g, h)!S!MaxExp, 0), Dbl(f, g, h)!S!Bit(j = 0),
                 Dbl(f, g, h)!S!pack(s, l, w))
  BY Zenon DEF Dbl!S!roundPack, PackedAs
<1>7. x = y BY <1>1, Zenon
<1> HIDE DEF x, y
<1>8. v = w /\ i = j BY <1>2, <1>3, <1>7, Zenon
<1> HIDE DEF v, w, i, j
<1>9. k = l BY <1>8, Zenon
<1> HIDE DEF k, l
<1>10. /\ Rnd(g, h)!pack(s, k, v) = Dbl(f, g, h)!S!pack(s, k, v)
       /\ Rnd(g, h)!pack(s, Rnd(g, h)!MaxExp, 0) = Dbl(f, g, h)!S!pack(s, Rnd(g, h)!MaxExp, 0)
  BY SinglePartPacks, Zenon
<1>11. Rnd(g, h)!Bit(i = 0) = Dbl(f, g, h)!S!Bit(i = 0)
  BY Zenon DEF Rnd!Bit, Dbl!S!Bit
<1> QED BY <1>4, <1>5, <1>6, <1>7, <1>8, <1>9, <1>10, <1>11, Zenon

\* f64_to_f32 in the operators of the two formats.
LEMMA NarrowingParts ==
  ASSUME NEW f, NEW g, NEW h, NEW mode, NEW u
  PROVE  Dbl(f, g, h)!f64_to_f32(mode, u) =
           IF Rnd(f, h)!isNaN(u)
           THEN [z |-> (Rnd(f, h)!sign(u) + 1) * Rnd(g, h)!SignBit - 1,
                 flags |-> IF Rnd(f, h)!isSigNaN(u) THEN {"invalid"} ELSE {}]
           ELSE IF Rnd(f, h)!isInf(u)
           THEN Rnd(g, h)!Exact(Rnd(g, h)!pack(Rnd(f, h)!sign(u), Rnd(g, h)!MaxExp, 0))
           ELSE Narrowed(f, g, h, mode, Rnd(f, h)!sign(u), Rnd(f, h)!exp(u), Rnd(f, h)!frac(u))
<1> DEFINE s == Rnd(f, h)!sign(u)
           e == Rnd(f, h)!exp(u)
           m == Rnd(f, h)!frac(u)
           c == f.F - h + 2
           k == Rnd(g, h)!shortShift64RightJam(m, c)
           r == Rnd(f, h)!Bias - Rnd(g, h)!Bias + 1
           D == Dbl(f, g, h)!isSigNaN(u)
           Inf == Rnd(g, h)!pack(s, Rnd(g, h)!MaxExp, 0)
           Zero == Rnd(g, h)!pack(s, 0, 0)
<1>1. /\ Dbl(f, g, h)!sign(u) = s
      /\ Dbl(f, g, h)!exp(u) = e
      /\ Dbl(f, g, h)!frac(u) = m
  BY DoubleSign, DoubleExp, DoubleFrac
<1>2. Dbl(f, g, h)!shortShift64RightJam(m, c) = k
  <2> HIDE DEF m, c
  <2> QED BY Zenon DEF Dbl!shortShift64RightJam, Rnd!shortShift64RightJam, Dbl!Jam, Rnd!Jam
<1>3. Dbl(f, g, h)!Bias - Dbl(f, g, h)!S!Bias + 1 = r /\ Dbl(f, g, h)!S!Hidden = Rnd(g, h)!Hidden
  BY DoubleParts, SinglePartSizes, Zenon
<1>4. /\ Dbl(f, g, h)!S!pack(s, Dbl(f, g, h)!S!MaxExp, 0) = Inf
      /\ Dbl(f, g, h)!S!pack(s, 0, 0) = Zero
  BY SinglePartPacks, SinglePartSizes, Zenon
<1>5. Dbl(f, g, h)!S!roundPack(mode, s, e - r, k + Rnd(g, h)!Hidden) =
        Rnd(g, h)!roundPack(mode, s, e - r, k + Rnd(g, h)!Hidden)
  BY SinglePartRounds, Zenon
<1>6. Dbl(f, g, h)!Exact(Inf) = Rnd(g, h)!Exact(Inf) /\ Dbl(f, g, h)!Exact(Zero) = Rnd(g, h)!Exact(Zero)
  BY Zenon DEF Dbl!Exact, Rnd!Exact
<1>7. /\ Dbl(f, g, h)!isNaN(u) <=> Rnd(f, h)!isNaN(u)
      /\ Dbl(f, g, h)!isInf(u) <=> Rnd(f, h)!isInf(u)
      /\ D <=> Rnd(f, h)!isSigNaN(u)
      /\ Dbl(f, g, h)!S!SignBit = Rnd(g, h)!SignBit
  BY DoubleKinds, SinglePartSizes
<1>8. Dbl(f, g, h)!commonNaNToF32UI(Dbl(f, g, h)!f64UIToCommonNaN(u)) =
        [z |-> (s + 1) * Rnd(g, h)!SignBit - 1,
         flags |-> IF Rnd(f, h)!isSigNaN(u) THEN {"invalid"} ELSE {}]
  <2>1. Dbl(f, g, h)!f64UIToCommonNaN(u) = [sign |-> s, flags |-> IF D THEN {"invalid"} ELSE {}]
    BY <1>1, Zenon DEF Dbl!f64UIToCommonNaN
  <2> HIDE DEF s, D
  <2>2. Dbl(f, g, h)!commonNaNToF32UI([sign |-> s, flags |-> IF D THEN {"invalid"} ELSE {}]) =
          [z |-> (s + 1) * Dbl(f, g, h)!S!SignBit - 1, flags |-> IF D THEN {"invalid"} ELSE {}]
    BY DEF Dbl!commonNaNToF32UI
  <2> QED BY <1>7, <2>1, <2>2, Zenon
<1>9. Dbl(f, g, h)!f64_to_f32(mode, u) =
        IF Dbl(f, g, h)!isNaN(u) THEN Dbl(f, g, h)!commonNaNToF32UI(Dbl(f, g, h)!f64UIToCommonNaN(u))
        ELSE IF Dbl(f, g, h)!isInf(u)
        THEN Dbl(f, g, h)!Exact(Dbl(f, g, h)!S!pack(s, Dbl(f, g, h)!S!MaxExp, 0))
        ELSE IF e = 0 /\ k = 0 THEN Dbl(f, g, h)!Exact(Dbl(f, g, h)!S!pack(s, 0, 0))
        ELSE Dbl(f, g, h)!S!roundPack(mode, s, e - r, k + Rnd(g, h)!Hidden)
  <2> HIDE DEF s, e, m, k, r
  <2> QED BY <1>1, <1>2, <1>3, Zenon DEF Dbl!f64_to_f32
<1>10. Narrowed(f, g, h, mode, s, e, m) =
         IF e = 0 /\ k = 0 THEN Rnd(g, h)!Exact(Zero)
         ELSE Rnd(g, h)!roundPack(mode, s, e - r, k + Rnd(g, h)!Hidden)
  BY Zenon DEF Narrowed
<1> HIDE DEF s, e, m, k, r, Inf, Zero, D
<1> QED BY <1>4, <1>5, <1>6, <1>7, <1>8, <1>9, <1>10, Zenon DEF s, e, m, Inf

\* f64_to_f32 (fcvt.s.d) gives, for every double and in every mode, the
\* number rounded once with the exact flags, although it adds the hidden
\* bit to a subnormal, and a quiet NaN for a NaN, whose signal it reports.
THEOREM NarrowingIsIeee ==
  ASSUME NEW f, NEW g, NEW h, Widens(f, g, h), NEW mode \in RoundingModes, NEW w \in Nat, w >= f.F + 1,
         NEW u, IsPattern(f, u)
  PROVE  Converts(f, g, w, mode, u, Dbl(f, g, h)!f64_to_f32(mode, u))
<1> DEFINE s == Rnd(f, h)!sign(u)
           e == Rnd(f, h)!exp(u)
           m == Rnd(f, h)!frac(u)
           x == Dbl(f, g, h)!f64_to_f32(mode, u)
<1>1. IsFormat(f, h) /\ IsFormat(g, h) BY SingleIs DEF Widens, IsDouble
<1>2. /\ s \in {0, 1} /\ e \in 0 .. Rnd(f, h)!MaxExp /\ m \in 0 .. (2^f.F - 1)
      /\ Ref(f, w)!Num(u) = [s |-> s, m |-> IF e = 0 THEN m ELSE 2^f.F + m,
                             q |-> Ref(f, w)!MinExp + (IF e = 0 THEN 0 ELSE e - 1)]
      /\ Rnd(f, h)!isNaN(u) <=> Ref(f, w)!IsNaN(u)
      /\ Rnd(f, h)!isInf(u) <=> Ref(f, w)!IsInf(u)
  BY <1>1, Reads
<1>3. x = IF Rnd(f, h)!isNaN(u)
          THEN [z |-> (s + 1) * Rnd(g, h)!SignBit - 1,
                flags |-> IF Rnd(f, h)!isSigNaN(u) THEN {"invalid"} ELSE {}]
          ELSE IF Rnd(f, h)!isInf(u)
          THEN Rnd(g, h)!Exact(Rnd(g, h)!pack(s, Rnd(g, h)!MaxExp, 0))
          ELSE Narrowed(f, g, h, mode, s, e, m)
  BY NarrowingParts
<1>4. e \in Nat BY <1>2
<1> HIDE DEF s, e, m, x
<1>5. Narrowed(f, g, h, mode, s, e, m) = Ref(g, w)!FromNumber(mode, Ref(f, w)!Num(u))
  BY <1>2, <1>4, NarrowingRounds
<1>6. Ref(f, w)!Num(u).s = s BY <1>2
<1>7. CASE Rnd(f, h)!isNaN(u)
  <2>1. /\ x.z = (s + 1) * Rnd(g, h)!SignBit - 1
        /\ x.flags = IF Rnd(f, h)!isSigNaN(u) THEN {"invalid"} ELSE {}
    BY <1>3, <1>7
  <2>2. s \in {0, 1} BY <1>2
  <2> QED BY <1>1, <1>7, <2>1, <2>2, NaNConverts DEF x
<1>8. CASE ~ Rnd(f, h)!isNaN(u)
  <2>1. Rnd(g, h)!Exact(Rnd(g, h)!pack(s, Rnd(g, h)!MaxExp, 0)) = Ref(g, w)!Inf(s)
    BY <1>1, <1>2, Specials
  <2>2. x = (IF Ref(f, w)!IsInf(u) THEN Ref(g, w)!Inf(Ref(f, w)!Num(u).s)
             ELSE Ref(g, w)!FromNumber(mode, Ref(f, w)!Num(u)))
    BY <1>2, <1>3, <1>5, <1>6, <1>8, <2>1, Zenon
  <2>3. ~ Ref(f, w)!IsNaN(u) BY <1>2, <1>8
  <2> QED BY <2>2, <2>3, NumberConverts, Zenon DEF x
<1> QED BY <1>7, <1>8

\* f32_to_f64 in the operators of the two formats.
LEMMA WideningParts ==
  ASSUME NEW f, NEW g, NEW h, Widens(f, g, h), NEW u, IsPattern(g, u)
  PROVE  Dbl(f, g, h)!f32_to_f64(u) =
           IF Rnd(g, h)!isNaN(u)
           THEN [z |-> (Rnd(g, h)!sign(u) + 1) * Rnd(f, h)!SignBit - 1,
                 flags |-> IF Rnd(g, h)!isSigNaN(u) THEN {"invalid"} ELSE {}]
           ELSE IF Rnd(g, h)!isInf(u)
           THEN Rnd(f, h)!Exact(Rnd(f, h)!pack(Rnd(g, h)!sign(u), Rnd(f, h)!MaxExp, 0))
           ELSE IF Rnd(g, h)!isZero(u)
           THEN Rnd(f, h)!Exact(Rnd(f, h)!pack(Rnd(g, h)!sign(u), 0, 0))
           ELSE Widened(f, g, h, Rnd(g, h)!sign(u), Rnd(g, h)!unpacked(u))
<1> DEFINE s == Rnd(g, h)!sign(u)
           e == Rnd(g, h)!exp(u)
           m == Rnd(g, h)!frac(u)
           A == Rnd(g, h)!normSubnormalSig(m)
           R == Rnd(f, h)!Bias - Rnd(g, h)!Bias
           K == 2^(f.F - g.F)
           D == Dbl(f, g, h)!S!isSigNaN(u)
           Inf == Rnd(f, h)!pack(s, Rnd(f, h)!MaxExp, 0)
           Zero == Rnd(f, h)!pack(s, 0, 0)
           Sub == Rnd(f, h)!pack(s, A.exp - 1 + R, A.sig * K)
           Norm == Rnd(f, h)!pack(s, e + R, m * K)
<1>1. /\ Dbl(f, g, h)!S!sign(u) = s
      /\ Dbl(f, g, h)!S!exp(u) = e
      /\ Dbl(f, g, h)!S!frac(u) = m
  BY SinglePartFields
<1>2. Dbl(f, g, h)!S!normSubnormalSig(m) = A BY SinglePartNormalizes, Zenon
<1>3. Dbl(f, g, h)!Bias - Dbl(f, g, h)!S!Bias = R
  BY DoubleParts, SinglePartSizes, Zenon
<1>4. Dbl(f, g, h)!pack(s, Dbl(f, g, h)!MaxExp, 0) = Inf
  BY DoublePacks, DoubleKinds, Zenon
<1>5. /\ Dbl(f, g, h)!pack(s, 0, 0) = Zero
      /\ Dbl(f, g, h)!pack(s, A.exp - 1 + R, A.sig * K) = Sub
      /\ Dbl(f, g, h)!pack(s, e + R, m * K) = Norm
  BY DoublePacks, Zenon
<1>6. /\ Dbl(f, g, h)!S!isNaN(u) <=> Rnd(g, h)!isNaN(u)
      /\ Dbl(f, g, h)!S!isInf(u) <=> Rnd(g, h)!isInf(u)
      /\ Dbl(f, g, h)!S!isZero(u) <=> Rnd(g, h)!isZero(u)
      /\ D <=> Rnd(g, h)!isSigNaN(u)
      /\ Dbl(f, g, h)!SignBit = Rnd(f, h)!SignBit
  BY SinglePartKinds, DoubleKinds
<1>7. Dbl(f, g, h)!commonNaNToF64UI(Dbl(f, g, h)!f32UIToCommonNaN(u)) =
        [z |-> (s + 1) * Rnd(f, h)!SignBit - 1,
         flags |-> IF Rnd(g, h)!isSigNaN(u) THEN {"invalid"} ELSE {}]
  <2>1. Dbl(f, g, h)!f32UIToCommonNaN(u) = [sign |-> s, flags |-> IF D THEN {"invalid"} ELSE {}]
    BY <1>1, Zenon DEF Dbl!f32UIToCommonNaN
  <2> HIDE DEF s, D
  <2>2. Dbl(f, g, h)!commonNaNToF64UI([sign |-> s, flags |-> IF D THEN {"invalid"} ELSE {}]) =
          [z |-> (s + 1) * Dbl(f, g, h)!SignBit - 1, flags |-> IF D THEN {"invalid"} ELSE {}]
    BY DEF Dbl!commonNaNToF64UI
  <2> QED BY <1>6, <2>1, <2>2, Zenon
<1>8. Dbl(f, g, h)!f32_to_f64(u) =
        IF Dbl(f, g, h)!S!isNaN(u) THEN Dbl(f, g, h)!commonNaNToF64UI(Dbl(f, g, h)!f32UIToCommonNaN(u))
        ELSE Dbl(f, g, h)!Exact(
               IF Dbl(f, g, h)!S!isInf(u) THEN Dbl(f, g, h)!pack(s, Dbl(f, g, h)!MaxExp, 0)
               ELSE IF Dbl(f, g, h)!S!isZero(u) THEN Dbl(f, g, h)!pack(s, 0, 0)
               ELSE IF e = 0 THEN Dbl(f, g, h)!pack(s, A.exp - 1 + R, A.sig * K)
               ELSE Dbl(f, g, h)!pack(s, e + R, m * K))
  <2> HIDE DEF s, e, m, R, A
  <2> QED BY <1>1, <1>2, <1>3, Zenon DEF Dbl!f32_to_f64
<1>9. ASSUME NEW x
      PROVE  Dbl(f, g, h)!Exact(x) = Rnd(f, h)!Exact(x)
  BY DoubleParts
<1>10. (IF e = 0 THEN Rnd(f, h)!Exact(Sub) ELSE Rnd(f, h)!Exact(Norm)) =
         Widened(f, g, h, s, Rnd(g, h)!unpacked(u))
  <2>1. CASE e = 0
    <3>1. Rnd(g, h)!unpacked(u) = A BY <2>1, Zenon DEF Rnd!unpacked
    <3> QED BY <2>1, <3>1, Zenon DEF Widened
  <2>2. CASE e # 0
    <3>1. Rnd(g, h)!unpacked(u) = [exp |-> e, sig |-> 2^g.F + m]
      BY <2>2, Zenon DEF Rnd!unpacked
    <3>2. PICK E \in Nat : E = e
      BY Reads, WideningSizes
    <3>3. PICK M \in Nat : M = m
      <4>1. 2^g.F \in Nat BY WideningSizes, PowerOfTwo
      <4>2. m \in 0 .. (2^g.F - 1) BY Reads, WideningSizes
      <4> QED BY <4>1, <4>2
    <3>4. PICK r \in Int : r = R
      BY WideningSizes
    <3>5. PICK p \in Nat, k \in Nat : p = 2^g.F /\ k = K /\ 2^f.F = p * k
      <4>1. PICK a \in Nat, c \in Nat : a = g.F /\ c = f.F - g.F /\ f.F = a + c
        BY WideningSizes
      <4>2. 2^(a + c) = 2^a * 2^c /\ 2^a \in Nat /\ 2^c \in Nat
        BY PowersAdd, PowerOfTwo
      <4> QED BY <4>1, <4>2
    <3>6. s * Rnd(f, h)!SignBit + (E + r) * 2^f.F + M * k =
            s * Rnd(f, h)!SignBit + (E - 1 + r) * 2^f.F + (p + M) * k
      <4>1. PICK t \in Nat : t = p * k
        BY <3>5
      <4>2. (E + r) * t = (E - 1 + r) * t + t /\ (p + M) * k = t + M * k
        BY <4>1
      <4>3. PICK x \in Int, y \in Int : x = (E - 1 + r) * t /\ y = M * k
        BY <4>1
      <4>4. PICK z \in Int : z = s * Rnd(f, h)!SignBit
        <5>1. s \in Int BY Reads, WideningSizes
        <5>2. Rnd(f, h)!SignBit \in Int
          <6>1. f.E + f.F \in Nat BY WideningSizes DEF IsFormat
          <6> QED BY <6>1, PowerOfTwo DEF Rnd!SignBit
        <5> HIDE DEF s
        <5> QED BY <5>1, <5>2
      <4>5. z + (x + t) + y = z + x + (t + y) BY <4>1, <4>3, <4>4
      <4> HIDE DEF s
      <4> QED BY <3>5, <4>1, <4>2, <4>3, <4>4, <4>5
    <3> HIDE DEF s, e, m, R, K
    <3>7. Rnd(f, h)!pack(s, e + R, m * K) = Rnd(f, h)!pack(s, e - 1 + R, (2^g.F + m) * K)
      BY <3>2, <3>3, <3>4, <3>5, <3>6, Zenon DEF Rnd!pack
    <3>8. Widened(f, g, h, s, [exp |-> e, sig |-> 2^g.F + m]) =
            Rnd(f, h)!Exact(Rnd(f, h)!pack(s, e - 1 + R, (2^g.F + m) * K))
      BY DEF Widened, R, K
    <3> QED BY <2>2, <3>1, <3>7, <3>8, Zenon
  <2> QED BY <2>1, <2>2
<1> HIDE DEF s, e, m, A, R, K, Inf, Zero, D, Sub, Norm
<1>11. Dbl(f, g, h)!f32_to_f64(u) =
         IF Rnd(g, h)!isNaN(u)
         THEN [z |-> (s + 1) * Rnd(f, h)!SignBit - 1,
               flags |-> IF Rnd(g, h)!isSigNaN(u) THEN {"invalid"} ELSE {}]
         ELSE Dbl(f, g, h)!Exact(IF Rnd(g, h)!isInf(u) THEN Inf ELSE IF Rnd(g, h)!isZero(u) THEN Zero
                                 ELSE IF e = 0 THEN Sub ELSE Norm)
  BY <1>4, <1>5, <1>6, <1>7, <1>8, Zenon
<1>12. CASE Rnd(g, h)!isNaN(u) BY <1>11, <1>12, Zenon DEF s
<1>13. CASE ~ Rnd(g, h)!isNaN(u) /\ Rnd(g, h)!isInf(u)
  BY <1>9, <1>11, <1>13, Zenon DEF s, Inf
<1>14. CASE ~ Rnd(g, h)!isNaN(u) /\ ~ Rnd(g, h)!isInf(u) /\ Rnd(g, h)!isZero(u)
  BY <1>9, <1>11, <1>14, Zenon DEF s, Zero
<1>15. CASE ~ Rnd(g, h)!isNaN(u) /\ ~ Rnd(g, h)!isInf(u) /\ ~ Rnd(g, h)!isZero(u)
  <2>1. Dbl(f, g, h)!f32_to_f64(u) = Widened(f, g, h, s, Rnd(g, h)!unpacked(u))
    <3>1. CASE e = 0
      <4>1. Dbl(f, g, h)!f32_to_f64(u) = Dbl(f, g, h)!Exact(Sub)
        BY <1>11, <1>15, <3>1, Zenon
      <4>2. Rnd(f, h)!Exact(Sub) = Widened(f, g, h, s, Rnd(g, h)!unpacked(u))
        BY <1>10, <3>1, Zenon
      <4> QED BY <1>9, <4>1, <4>2, Zenon
    <3>2. CASE e # 0
      <4>1. Dbl(f, g, h)!f32_to_f64(u) = Dbl(f, g, h)!Exact(Norm)
        BY <1>11, <1>15, <3>2, Zenon
      <4>2. Rnd(f, h)!Exact(Norm) = Widened(f, g, h, s, Rnd(g, h)!unpacked(u))
        BY <1>10, <3>2, Zenon
      <4> QED BY <1>9, <4>1, <4>2, Zenon
    <3> QED BY <3>1, <3>2
  <2> QED BY <1>15, <2>1, Zenon DEF s
<1> QED BY <1>12, <1>13, <1>14, <1>15

\* f32_to_f64 (fcvt.d.s) gives, for every single, subnormals included, the
\* same number as a double without a flag, which is what rounding it in
\* any mode gives, and a quiet NaN for a NaN, whose signal it reports.
THEOREM WideningIsIeee ==
  ASSUME NEW f, NEW g, NEW h, Widens(f, g, h), NEW mode \in RoundingModes, NEW w \in Nat, w >= g.F + 1,
         NEW u, IsPattern(g, u)
  PROVE  Converts(g, f, w, mode, u, Dbl(f, g, h)!f32_to_f64(u))
<1> DEFINE s == Rnd(g, h)!sign(u)
           x == Dbl(f, g, h)!f32_to_f64(u)
           N == Ref(g, w)!Num(u)
<1>1. IsFormat(f, h) /\ IsFormat(g, h) BY WideningSizes
<1>2. /\ Rnd(g, h)!isNaN(u) <=> Ref(g, w)!IsNaN(u)
      /\ Rnd(g, h)!isInf(u) <=> Ref(g, w)!IsInf(u)
      /\ Rnd(g, h)!exp(u) = Rnd(g, h)!MaxExp <=> Rnd(g, h)!isNaN(u) \/ Rnd(g, h)!isInf(u)
      /\ ~ (Rnd(g, h)!isNaN(u) /\ Rnd(g, h)!isInf(u))
      /\ Rnd(g, h)!isZero(u) => Rnd(g, h)!exp(u) # Rnd(g, h)!MaxExp
      /\ Rnd(g, h)!isZero(u) <=> N.m = 0
      /\ N.s = s /\ s \in {0, 1}
  BY <1>1, Kinds
<1>3. x = IF Rnd(g, h)!isNaN(u)
          THEN [z |-> (s + 1) * Rnd(f, h)!SignBit - 1,
                flags |-> IF Rnd(g, h)!isSigNaN(u) THEN {"invalid"} ELSE {}]
          ELSE IF Rnd(g, h)!isInf(u)
          THEN Rnd(f, h)!Exact(Rnd(f, h)!pack(s, Rnd(f, h)!MaxExp, 0))
          ELSE IF Rnd(g, h)!isZero(u) THEN Rnd(f, h)!Exact(Rnd(f, h)!pack(s, 0, 0))
          ELSE Widened(f, g, h, s, Rnd(g, h)!unpacked(u))
  BY WideningParts
<1>4. ASSUME ~ Rnd(g, h)!isNaN(u), ~ Rnd(g, h)!isInf(u), ~ Rnd(g, h)!isZero(u)
      PROVE  Widened(f, g, h, s, Rnd(g, h)!unpacked(u)) = Ref(f, w)!Round(mode, N)
  <2>1. Nonzero(g, h, u) BY <1>2, <1>4 DEF Nonzero, Finite
  <2> QED BY <1>2, <2>1, WideningRounds
<1> HIDE DEF s, x, N
<1>5. CASE Rnd(g, h)!isNaN(u)
  <2>1. /\ x.z = (s + 1) * Rnd(f, h)!SignBit - 1
        /\ x.flags = IF Rnd(g, h)!isSigNaN(u) THEN {"invalid"} ELSE {}
    BY <1>3, <1>5
  <2>2. s \in {0, 1} BY <1>2
  <2> QED BY <1>1, <1>5, <2>1, <2>2, NaNConverts DEF x
<1>6. CASE ~ Rnd(g, h)!isNaN(u)
  <2>1. /\ Rnd(f, h)!Exact(Rnd(f, h)!pack(s, Rnd(f, h)!MaxExp, 0)) = Ref(f, w)!Inf(s)
        /\ Rnd(f, h)!Exact(Rnd(f, h)!pack(s, 0, 0)) = Ref(f, w)!Zero(s)
    BY <1>1, <1>2, Specials
  <2>2. Ref(f, w)!FromNumber(mode, N) = IF N.m = 0 THEN Ref(f, w)!Zero(N.s) ELSE Ref(f, w)!Round(mode, N)
    BY Zenon DEF Ref!FromNumber
  <2>3. x = (IF Ref(g, w)!IsInf(u) THEN Ref(f, w)!Inf(N.s) ELSE Ref(f, w)!FromNumber(mode, N))
    <3>1. CASE Rnd(g, h)!isInf(u) BY <1>2, <1>3, <1>6, <2>1, <3>1, Zenon
    <3>2. CASE ~ Rnd(g, h)!isInf(u) /\ Rnd(g, h)!isZero(u)
      BY <1>2, <1>3, <1>6, <2>1, <2>2, <3>2, Zenon
    <3>3. CASE ~ Rnd(g, h)!isInf(u) /\ ~ Rnd(g, h)!isZero(u)
      BY <1>2, <1>3, <1>4, <1>6, <2>2, <3>3, Zenon
    <3> QED BY <3>1, <3>2, <3>3
  <2>4. ~ Ref(g, w)!IsNaN(u) BY <1>2, <1>6
  <2> QED BY <2>3, <2>4, NumberConverts, Zenon DEF x, N
<1> QED BY <1>5, <1>6

\* The formats of the build: 32-bit and 64-bit floats, words of 32 bits.
Binary32 == [E |-> 8, F |-> 23, G |-> 7, P |-> 7]
Binary64 == [E |-> 11, F |-> 52, G |-> 10, P |-> 7]

\* They meet every assumption on formats that the theorems make.
THEOREM HardwareFormats ==
  /\ IsSingle(Binary32, 32) /\ Reaches(Binary32, 32)
  /\ IsDouble(Binary64, 32) /\ Reaches(Binary64, 32)
  /\ Widens(Binary64, Binary32, 32)
<1>1. ASSUME NEW n \in Nat
      PROVE  2^(n + 1) = 2 * 2^n /\ 2^n \in Nat
  <2>1. n + 1 \in Nat \ {0} /\ (n + 1) - 1 = n OBVIOUS
  <2> QED BY <2>1, Doubled, PowerOfTwo
<1>2. 2^7 = 128
  <2>1. 2^1 = 2 OBVIOUS
  <2>2. 2^2 = 4
    <3>1. 2^(1 + 1) = 2 * 2^1 BY <1>1
    <3> QED BY <2>1, <3>1
  <2>3. 2^3 = 8
    <3>1. 2^(2 + 1) = 2 * 2^2 BY <1>1
    <3> QED BY <2>2, <3>1
  <2>4. 2^6 = 64
    <3>1. 2^(3 + 3) = 2^3 * 2^3 BY PowersAdd
    <3> QED BY <2>3, <3>1
  <2>5. 2^(6 + 1) = 2 * 2^6 BY <1>1
  <2> QED BY <2>4, <2>5
<1>3. 2^10 = 1024
  <2>1. 2^3 = 8
    <3>1. 2^(1 + 1) = 2 * 2^1 /\ 2^(2 + 1) = 2 * 2^2 /\ 2^1 = 2 BY <1>1
    <3> QED BY <3>1
  <2>2. 2^(7 + 3) = 2^7 * 2^3 BY PowersAdd
  <2> QED BY <1>2, <2>1, <2>2
<1> DEFINE f == Binary32
           g == Binary64
<1>4. f.E = 8 /\ f.F = 23 /\ f.G = 7 /\ g.E = 11 /\ g.F = 52 /\ g.G = 10
  BY DEF Binary32, Binary64
<1> HIDE DEF f, g
<1>5. Rnd(f, 32)!W = 32 /\ Rnd(g, 32)!W = 64 BY <1>4 DEF Rnd!W
<1>6. Rnd(f, 32)!Bias = 127
  <2>1. f.E - 1 = 7 BY <1>4
  <2>2. Rnd(f, 32)!Bias = 2^(f.E - 1) - 1 BY Zenon DEF Rnd!Bias
  <2>3. Rnd(f, 32)!Bias = 2^7 - 1 BY <2>1, <2>2, Zenon
  <2> QED BY <1>2, <2>3
<1>7. Rnd(g, 32)!Bias = 1023
  <2>1. g.E - 1 = 10 BY <1>4
  <2>2. Rnd(g, 32)!Bias = 2^(g.E - 1) - 1 BY Zenon DEF Rnd!Bias
  <2>3. Rnd(g, 32)!Bias = 2^10 - 1 BY <2>1, <2>2, Zenon
  <2> QED BY <1>3, <2>3
<1>8. IsFormat(f, 32) /\ IsFormat(g, 32) BY <1>4, <1>5 DEF IsFormat
<1>9. IsSingle(f, 32) /\ IsDouble(g, 32)
  BY <1>4, <1>5, <1>8 DEF IsSingle, IsDouble
<1>10. Reaches(f, 32) /\ Reaches(g, 32) BY <1>5, <1>6, <1>7 DEF Reaches
<1>11. Widens(g, f, 32) BY <1>4, <1>6, <1>7, <1>9 DEF Widens
<1> QED BY <1>9, <1>10, <1>11 DEF f, g

----
\* Programs

Modes == {Mode[n + 1] : n \in 0 .. 4}

\* What an operation that rounds raises is what is promised in its mode.
FlagsAsPromised ==
  \A i \in RoundingInsns, rm \in RmFields, n \in 0 .. MaxInsns, m \in Modes :
    \A x \in Inputs(i.op, i.fmt, rm, n) :
    \A r \in Results(i.op, i.fmt, m, x) :
      r.flags \subseteq Flags /\ r.flags = Promised(i.op, i.fmt, m, x).flags

Inv == TypeOK /\ FlagsAreSticky

\* A mode of the register is a mode.
LEMMA ModeType == ASSUME NEW n \in 0 .. 4 PROVE Mode[n + 1] \in Modes
BY DEF Modes

\* The mode an instruction uses is the one it names.
LEMMA RmType ==
  ASSUME TypeOK, NEW rm \in 0 .. 7, RM(rm) <= 4
  PROVE  RM(rm) \in 0 .. 4 /\ NamedMode(rm) = Mode[RM(rm) + 1]
<1>1. CASE rm = 7 BY <1>1 DEF RM, NamedMode, TypeOK
<1>2. CASE rm # 7 BY <1>2 DEF RM, NamedMode
<1> QED BY <1>1, <1>2

\* The count of instructions keeps to its bound.
LEMMA CountType == ASSUME executed \in 0 .. MaxInsns, Count PROVE executed' \in 0 .. MaxInsns
BY FieldsAssumption DEF Count

\* The end of an instruction keeps the flags, if those it raises are those
\* promised.
LEMMA RetireKeepsFlags ==
  ASSUME Inv, NEW i, NEW x, NEW mode, NEW r, NEW promised,
         r.flags \subseteq Flags, r.flags = promised.flags,
         Retire(i, x, mode, r, promised)
  PROVE  /\ UNCHANGED <<ef, frm>>
         /\ fflags' \subseteq Flags /\ owed' \subseteq Flags /\ exceptionFlags' \subseteq Flags
         /\ FlagsAreSticky'
<1>1. owed' = owed \cup r.flags BY DEF Retire
<1>2. fflags' = fflags \cup r.flags /\ exceptionFlags' = {} /\ UNCHANGED <<ef, frm>>
  BY DEF Retire, Accrue, Inv, FlagsAreSticky
<1> QED BY <1>1, <1>2 DEF Inv, TypeOK, FlagsAreSticky

\* An instruction that rounds keeps the invariant.
LEMMA RoundingKeepsInv ==
  ASSUME Inv, FlagsAsPromised, NEW i \in RoundingInsns, NEW rm \in RmFields,
         NEW x \in Given(i, rm), Rounding(i, x, rm)
  PROVE  Inv'
<1>1. rm \in 0 .. 7 /\ RM(rm) <= 4 BY FieldsAssumption DEF Rounding
<1>2. roundingMode' \in 0 .. 4 /\ NamedMode(rm) = Mode[roundingMode' + 1]
  BY <1>1, RmType DEF Rounding, Inv
<1>3. executed \in 0 .. MaxInsns /\ x \in Inputs(i.op, i.fmt, rm, executed)
  BY DEF Given, Inv, TypeOK
<1> DEFINE used == Mode[roundingMode' + 1]
           promised == Promised(i.op, i.fmt, NamedMode(rm), x)
<1>4. used \in Modes BY <1>2, ModeType
<1>5. PICK r \in Results(i.op, i.fmt, used, x) : Retire(i, x, NamedMode(rm), r, promised)
  BY DEF Rounding
<1>6. r.flags \subseteq Flags /\ r.flags = promised.flags
  BY <1>2, <1>3, <1>4 DEF FlagsAsPromised
<1>7. executed' \in 0 .. MaxInsns BY CountType DEF Rounding, Inv, TypeOK
<1> HIDE DEF used, promised
<1> QED BY <1>2, <1>5, <1>6, <1>7, RetireKeepsFlags DEF Inv, TypeOK

\* The operands that ComparisonIsOrdered needs.
LEMMA ComparedAsOrdered ==
  ASSUME executed \in 0 .. MaxInsns, NEW i \in ComparingInsns, NEW x \in Given(i, 7)
  PROVE  i.op \in OrderedOps /\ Comparison(i.op, i.fmt, x) = Ordered(i.op, i.fmt, x)
<1>1. x \in Inputs(i.op, i.fmt, 7, executed) BY DEF Given
<1>2. /\ i.op \in OrderedOps /\ i.fmt \in {"S", "D"}
      /\ x[1] \in Encodings(i.fmt) /\ (i.op # "fclass" => x[2] \in Encodings(i.fmt))
  BY <1>1, InsnsAssumption
<1> QED BY <1>2, ComparisonIsOrdered

\* A comparison and a move keep it.
LEMMA ComparingKeepsInv ==
  ASSUME Inv, NEW i \in ComparingInsns, NEW x \in Given(i, 7), Comparing(i, x) \/ Moving(i, x)
  PROVE  Inv'
<1> DEFINE r == Ordered(i.op, i.fmt, x)
<1>1. executed \in 0 .. MaxInsns BY DEF Inv, TypeOK
<1>2. i.op \in OrderedOps /\ Comparison(i.op, i.fmt, x) = r BY <1>1, ComparedAsOrdered
<1>3. r.flags \subseteq Flags BY <1>2, OrderedFlags DEF Flags
<1>4. executed' \in 0 .. MaxInsns BY <1>1, CountType DEF Comparing, Moving
<1> HIDE DEF r
<1>5. CASE Comparing(i, x)
  <2>1. Retire(i, x, "any", r, r) /\ roundingMode' = roundingMode
    BY <1>2, <1>5 DEF Comparing, r
  <2> QED BY <1>3, <1>4, <2>1, RetireKeepsFlags DEF Inv, TypeOK
<1>6. CASE Moving(i, x)
  <2>1. i.op \notin Compare2 /\ due' = r BY <1>6 DEF Moving, r
  <2>2. owed' = owed BY <1>2, <1>6, <2>1, OrderedFlags DEF Moving, r
  <2> QED BY <1>4, <1>6, <2>2 DEF Moving, Inv, TypeOK, FlagsAreSticky
<1> QED BY <1>5, <1>6

\* So do traps, integer instructions, library calls and writes.
LEMMA OthersKeepInv ==
  ASSUME Inv,
         \/ \E rm \in RmFields : Traps(rm)
         \/ \E i \in IntegerInsns : \E x \in Given(i, 7) : IntegerInsn(i, x)
         \/ \E i \in LibraryCalls : \E x \in Given(i, 7) : Call(i, x)
         \/ \E flags \in CsrFflags \cup {fflags}, mode \in CsrFrm \cup {frm} :
              WriteFcsr(flags, mode)
         \/ \E enable \in BOOLEAN : WriteStatus(enable)
  PROVE  Inv'
<1>1. executed' \in 0 .. MaxInsns
  BY CountType DEF Inv, TypeOK, Traps, IntegerInsn, Call, WriteFcsr, WriteStatus
<1>2. ASSUME NEW rm \in RmFields, Traps(rm) PROVE Inv'
  BY <1>1, <1>2 DEF Traps, Inv, TypeOK, FlagsAreSticky
<1>3. ASSUME NEW i, NEW x, IntegerInsn(i, x) PROVE Inv'
  BY <1>1, <1>3 DEF IntegerInsn, Inv, TypeOK, FlagsAreSticky
<1>4. ASSUME NEW i, NEW x, Call(i, x) PROVE Inv'
  BY <1>1, <1>4 DEF Call, Inv, TypeOK, FlagsAreSticky
<1>5. ASSUME NEW flags \in CsrFflags \cup {fflags}, NEW mode \in CsrFrm \cup {frm},
             WriteFcsr(flags, mode)
      PROVE  Inv'
  <2>1. flags \subseteq Flags /\ mode \in 0 .. 7
    BY FieldsAssumption DEF Inv, TypeOK
  <2> QED BY <1>1, <1>5, <2>1 DEF WriteFcsr, Inv, TypeOK, FlagsAreSticky
<1>6. ASSUME NEW enable \in BOOLEAN, WriteStatus(enable) PROVE Inv'
  BY <1>1, <1>6 DEF WriteStatus, Inv, TypeOK, FlagsAreSticky
<1> QED BY <1>2, <1>3, <1>4, <1>5, <1>6

\* The invariant holds at the start,
LEMMA InitInv == Init => Inv
BY FieldsAssumption DEF Init, Inv, TypeOK, FlagsAreSticky

\* and every step keeps it.
LEMMA NextKeepsInv == ASSUME Inv, FlagsAsPromised, [Next]_vars PROVE Inv'
<1>1. CASE UNCHANGED vars BY <1>1 DEF vars, Inv, TypeOK, FlagsAreSticky
<1> QED BY <1>1, RoundingKeepsInv, ComparingKeepsInv, OthersKeepInv DEF Next

\* The flags of a program: what the instructions raised since fcsr was
\* last written, whatever happened in between.
THEOREM Invariance == ASSUME FlagsAsPromised PROVE Spec => []Inv
<1>1. Inv /\ [Next]_vars => Inv' BY NextKeepsInv
<1> QED BY <1>1, InitInv, PTL DEF Spec

\* frm keeps to its three bits, and softfloat_roundingMode to the modes
\* that exist: RM throws before it would be set to another.
THEOREM TypeCorrect == ASSUME FlagsAsPromised PROVE Spec => []TypeOK
<1>1. Inv => TypeOK BY DEF Inv
<1> QED BY <1>1, Invariance, PTL

\* set_fp_exceptions at the end of the instructions that have one, and
\* nowhere else, is enough: no flag is lost, or raised for another
\* instruction.
THEOREM StickyFlags == ASSUME FlagsAsPromised PROVE Spec => []FlagsAreSticky
<1>1. Inv => FlagsAreSticky BY DEF Inv
<1> QED BY <1>1, Invariance, PTL

\* What is in last, whatever the operations that round compute.
LastInv == executed \in 0 .. MaxInsns /\ WideIsInteger /\ OrderIsOne

\* An instruction leaves in last its own operation, with its operands and
\* its result.
LEMMA NextKeepsLastInv == ASSUME LastInv, [Next]_vars PROVE LastInv'
<1>1. CASE UNCHANGED vars BY <1>1 DEF vars, LastInv, WideIsInteger, OrderIsOne
<1>2. ASSUME Count PROVE executed' \in 0 .. MaxInsns
  BY <1>2, CountType DEF LastInv
<1>3. ASSUME NEW i \in RoundingInsns \cup LibraryCalls, NEW x, NEW mode,
             NEW r, last' = Done(i, x, mode, r)
      PROVE  WideIsInteger' /\ OrderIsOne'
  BY <1>3, InsnsAssumption DEF Done, WideIsInteger, OrderIsOne
<1>4. ASSUME last' = [op |-> "trap"] \/ last' = [op |-> "csr"]
      PROVE  WideIsInteger' /\ OrderIsOne'
  BY <1>4 DEF WideIsInteger, OrderIsOne, IntegerUnit, OrderedOps, Compare2, Move2
<1>5. ASSUME NEW i \in RoundingInsns, NEW rm \in RmFields, NEW x, Rounding(i, x, rm)
      PROVE  LastInv'
  BY <1>2, <1>3, <1>5 DEF Rounding, Retire, LastInv
<1>6. ASSUME NEW i \in ComparingInsns, NEW x \in Given(i, 7), Comparing(i, x) \/ Moving(i, x)
      PROVE  LastInv'
  <2> DEFINE r == Ordered(i.op, i.fmt, x)
  <2>1. i.op \in OrderedOps /\ Comparison(i.op, i.fmt, x) = r
    BY ComparedAsOrdered DEF LastInv
  <2>2. last' = Done(i, x, "any", r)
    BY <1>6, <2>1 DEF Comparing, Moving, Retire
  <2>3. r = [z |-> r.z, flags |-> r.flags] BY <2>1, OrderedFlags
  <2> HIDE DEF r
  <2>4. /\ last'.op = i.op /\ last'.fmt = i.fmt /\ last'.x = x
        /\ last'.z = r.z /\ last'.flags = r.flags
    BY <2>2 DEF Done
  <2>5. OrderIsOne' BY <2>3, <2>4 DEF OrderIsOne, r
  <2>6. i.op \notin IntegerUnit
    BY <2>1 DEF OrderedOps, Compare2, Move2, IntegerUnit
  <2>7. WideIsInteger' BY <2>4, <2>6 DEF WideIsInteger
  <2> QED BY <1>2, <1>6, <2>5, <2>7 DEF Comparing, Moving, LastInv
<1>7. ASSUME NEW i \in LibraryCalls, NEW x, Call(i, x) PROVE LastInv'
  BY <1>2, <1>3, <1>7 DEF Call, LastInv
<1>8. ASSUME NEW i \in IntegerInsns, NEW x \in Given(i, 7), IntegerInsn(i, x) PROVE LastInv'
  <2>1. i.op \in IntegerUnit /\ x \in Registers \X Registers
    BY <1>8, InsnsAssumption DEF Given, LastInv
  <2>2. /\ last'.op = i.op /\ last'.x = x
        /\ last'.z = IntegerResult(i.op, x[1], x[2])
    BY <1>8 DEF IntegerInsn, Done
  <2>3. IsExact(i.op, x[1], x[2], IntegerResult(i.op, x[1], x[2]))
    BY <2>1, IntegerResultIsExact
  <2>4. WideIsInteger' BY <2>2, <2>3 DEF WideIsInteger
  <2>5. i.op \notin OrderedOps
    BY <2>1 DEF OrderedOps, Compare2, Move2, IntegerUnit
  <2>6. OrderIsOne' BY <2>2, <2>5 DEF OrderIsOne
  <2> QED BY <1>2, <1>8, <2>4, <2>6 DEF IntegerInsn, LastInv
<1>9. ASSUME NEW rm \in RmFields, Traps(rm) PROVE LastInv'
  BY <1>2, <1>4, <1>9 DEF Traps, LastInv
<1>10. ASSUME NEW flags, NEW mode, WriteFcsr(flags, mode) PROVE LastInv'
  BY <1>2, <1>4, <1>10 DEF WriteFcsr, LastInv
<1>11. ASSUME NEW enable \in BOOLEAN, WriteStatus(enable) PROVE LastInv'
  BY <1>2, <1>4, <1>11 DEF WriteStatus, LastInv
<1> QED BY <1>1, <1>5, <1>6, <1>7, <1>8, <1>9, <1>10, <1>11 DEF Next

\* The last result is the exact one, of integers and of comparisons.
LEMMA LastInvariance == Spec => []LastInv
<1>1. Init => LastInv
  BY FieldsAssumption DEF Init, LastInv, WideIsInteger, OrderIsOne, IntegerUnit,
                          OrderedOps, Compare2, Move2
<1>2. LastInv /\ [Next]_vars => LastInv' BY NextKeepsLastInv
<1> QED BY <1>1, <1>2, PTL DEF Spec

\* mulh, mulhsu and mulhu give the high half of the exact product of their
\* operands, and the eight divisions the quotient and the remainder of
\* C's truncated division, for every two registers of every even width:
\* no carry of mulhu is lost, and the negation of a product borrows from
\* the high word exactly when the low word is not zero.
THEOREM WideResults == Spec => []WideIsInteger
<1>1. LastInv => WideIsInteger BY DEF LastInv
<1> QED BY <1>1, LastInvariance, PTL

\* feq, flt, fle, fmin, fmax, fsgnj*, and fclass give what the one order
\* of IEEE 754 says, with its flags, for every two patterns of every
\* format: comparing the patterns as integers, with the sense turned by
\* the sign and the zeros apart, compares the values, and the fields that
\* say NaN, infinity and subnormal say it of the magnitude.
THEOREM OneOrder == Spec => []OrderIsOne
<1>1. LastInv => OrderIsOne BY DEF LastInv
<1> QED BY <1>1, LastInvariance, PTL
===============================================================================
