---------------------------- MODULE CacheSimProofs ----------------------------
(***************************************************************************)
(* Theorems about CacheSim for caches of any geometry that construct       *)
(* accepts, any addresses and any number of accesses.                      *)
(*                                                                         *)
(* The proof goes one level at a time: what an access does to the tags of  *)
(* a level, to its dirty lines (DirtyLinesAfter) and to its counters       *)
(* (CountersAfter). A step of the hierarchy is then a relation between two *)
(* levels (Step), which a hit, a clean miss and a dirty miss all satisfy,  *)
(* and from which the invariant follows (SettleKeeps).                     *)
(***************************************************************************)
EXTENDS CacheSim, FiniteSetTheorems, TLAPS

-----------------------------------------------------------------------------
(* Powers of two, as numbers of subsets: counting takes the place of the   *)
(* induction that the provers cannot do.                                   *)

LEMMA PowerOfTwo ==
  ASSUME NEW n \in Nat
  PROVE  /\ IsFiniteSet(SUBSET (1 .. n))
         /\ Cardinality(SUBSET (1 .. n)) = 2 ^ n
         /\ 2 ^ n \in Nat \ {0}
<1>1. IsFiniteSet(1 .. n) /\ Cardinality(1 .. n) = n
  BY FS_Interval
<1>2. IsFiniteSet(SUBSET (1 .. n)) /\ Cardinality(SUBSET (1 .. n)) = 2 ^ n
  BY <1>1, FS_SUBSET
<1>3. SUBSET (1 .. n) # {}
  OBVIOUS
<1>4. Cardinality(SUBSET (1 .. n)) \in Nat \ {0}
  BY <1>2, <1>3, FS_CardinalityType, FS_EmptySet
<1> QED
  BY <1>2, <1>4

LEMMA PowersGrow ==
  ASSUME NEW m \in Nat, NEW n \in Nat
  PROVE  2 ^ m <= 2 ^ n <=> m <= n
<1>1. ASSUME NEW i \in Nat, NEW j \in Nat, i <= j PROVE 2 ^ i <= 2 ^ j
  <2>1. SUBSET (1 .. i) \in SUBSET (SUBSET (1 .. j))
    BY <1>1
  <2>2. Cardinality(SUBSET (1 .. i)) <= Cardinality(SUBSET (1 .. j))
    BY <2>1, PowerOfTwo, FS_Subset
  <2> QED
    BY <2>2, PowerOfTwo
<1>2. ASSUME NEW i \in Nat, NEW j \in Nat, i < j PROVE 2 ^ i # 2 ^ j
  <2>1. SUBSET (1 .. i) \in SUBSET (SUBSET (1 .. j))
    BY <1>2
  <2>2. 1 .. j \in SUBSET (1 .. j) /\ 1 .. j \notin SUBSET (1 .. i)
    BY <1>2
  <2>3. SUBSET (1 .. i) # SUBSET (1 .. j)
    BY <2>2
  <2>4. Cardinality(SUBSET (1 .. i)) # Cardinality(SUBSET (1 .. j))
    BY <2>1, <2>3, PowerOfTwo, FS_Subset
  <2> QED
    BY <2>4, PowerOfTwo
<1> QED
  BY <1>1, <1>2, PowerOfTwo

(* A subset of 1 .. m + n is a subset of 1 .. m and one of the rest.       *)
LEMMA PowersAdd ==
  ASSUME NEW m \in Nat, NEW n \in Nat
  PROVE  2 ^ (m + n) = 2 ^ m * 2 ^ n
<1> DEFINE Low == 1 .. m
           High == (m + 1) .. (m + n)
           Pairs == (SUBSET Low) \X (SUBSET High)
           f == [p \in Pairs |-> p[1] \union p[2]]
<1>1. IsFiniteSet(Low) /\ Cardinality(Low) = m /\ IsFiniteSet(High) /\ Cardinality(High) = n
  BY FS_Interval
<1>2. /\ IsFiniteSet(SUBSET Low) /\ Cardinality(SUBSET Low) = 2 ^ m
      /\ IsFiniteSet(SUBSET High) /\ Cardinality(SUBSET High) = 2 ^ n
  BY <1>1, FS_SUBSET
<1>3. IsFiniteSet(Pairs) /\ Cardinality(Pairs) = 2 ^ m * 2 ^ n
  <2>1. /\ IsFiniteSet((SUBSET Low) \X (SUBSET High))
        /\ Cardinality((SUBSET Low) \X (SUBSET High)) = Cardinality(SUBSET Low) * Cardinality(SUBSET High)
    <3> HIDE DEF Low, High
    <3> QED
      BY <1>2, FS_Product, Zenon
  <2> QED
    BY <1>2, <2>1, Zenon
<1>4. Low \union High = 1 .. (m + n) /\ Low \intersect High = {}
  OBVIOUS
<1>5. f \in [Pairs -> SUBSET (1 .. (m + n))]
  <2>1. \A p \in Pairs : p[1] \union p[2] \in SUBSET (1 .. (m + n))
    BY <1>4, Zenon
  <2> QED
    BY <2>1
<1>6. \A p, q \in Pairs : f[p] = f[q] => p = q
  <2> SUFFICES ASSUME NEW p \in Pairs, NEW q \in Pairs, f[p] = f[q] PROVE p = q
    OBVIOUS
  <2>1. p[1] \union p[2] = q[1] \union q[2]
    OBVIOUS
  <2>2. p[1] = q[1] /\ p[2] = q[2]
    BY <2>1, <1>4
  <2> QED
    BY <2>2
<1>7. \A s \in SUBSET (1 .. (m + n)) : \E p \in Pairs : f[p] = s
  <2> SUFFICES ASSUME NEW s \in SUBSET (1 .. (m + n)) PROVE \E p \in Pairs : f[p] = s
    OBVIOUS
  <2>1. <<s \intersect Low, s \intersect High>> \in Pairs
    OBVIOUS
  <2>2. f[<<s \intersect Low, s \intersect High>>] = s
    BY <2>1, <1>4
  <2> QED
    BY <2>1, <2>2
<1>8. f \in Bijection(Pairs, SUBSET (1 .. (m + n)))
  <2> HIDE DEF f, Pairs
  <2> QED BY <1>5, <1>6, <1>7 DEF Bijection, Injection, Surjection, IsInjective
<1>9. Cardinality(SUBSET (1 .. (m + n))) = Cardinality(Pairs)
  BY <1>3, <1>8, FS_Bijection DEF ExistsBijection
<1>10. PICK k \in Nat : k = m + n
  OBVIOUS
<1>11. Cardinality(SUBSET (1 .. k)) = 2 ^ k
  BY PowerOfTwo
<1> QED
  BY <1>3, <1>9, <1>10, <1>11

-----------------------------------------------------------------------------
(* The geometry                                                            *)

LEMMA Sizes ==
  ASSUME NEW c \in Cache
  PROVE  /\ Config[c].sets \in Nat \ {0}
         /\ Config[c].ways \in Nat \ {0}
         /\ Config[c].linesz \in Nat \ {0}
         /\ Config[c].linesz <= Config["l2"].linesz
  BY ConfigAssumption, Zenon

(* init counts one shift more than the logarithm of linesz.                *)
LEMMA Exponent ==
  ASSUME NEW c \in Cache
  PROVE  \E k \in Nat : /\ Config[c].linesz = 2 ^ k
                        /\ idx_shift[c] = k + 1
<1>1. PICK k \in 0 .. Config[c].linesz : Config[c].linesz = 2 ^ k
  BY ConfigAssumption, Zenon
<1>2. k \in Nat
  BY <1>1, Sizes
<1>3. {j \in 0 .. Config[c].linesz : 2 ^ j <= Config[c].linesz} = 0 .. k
  <2>1. \A j \in Nat : 2 ^ j <= 2 ^ k <=> j <= k
    BY <1>2, PowersGrow
  <2> QED
    BY <1>1, <1>2, <2>1, Sizes
<1>4. Cardinality(0 .. k) = k + 1
  BY <1>2, FS_Interval
<1> QED
  BY <1>1, <1>2, <1>3, <1>4 DEF idx_shift

LEMMA LinesAreTwoBlocks ==
  ASSUME NEW c \in Cache
  PROVE  /\ LineSize[c] = 2 * Config[c].linesz
         /\ LineSize[c] \in Nat \ {0}
<1>1. PICK k \in Nat : Config[c].linesz = 2 ^ k /\ idx_shift[c] = k + 1
  BY Exponent
<1>2. 2 ^ (k + 1) = 2 ^ k * 2 ^ 1
  BY PowersAdd
<1>3. 2 ^ 1 = 2
  OBVIOUS
<1>4. LineSize[c] = 2 * Config[c].linesz
  BY <1>1, <1>2, <1>3, Sizes DEF LineSize
<1> QED
  BY <1>4, Sizes

(* A line of the last level is made of whole lines, and whole blocks, of   *)
(* those above.                                                            *)
LEMMA WholeLines ==
  ASSUME NEW c \in Cache
  PROVE  /\ \E m \in Nat \ {0} : LineSize["l2"] = m * LineSize[c]
         /\ \E m \in Nat \ {0} : LineSize["l2"] = m * Config[c].linesz
<1>0. "l2" \in Cache
  BY DEF Cache
<1>1. PICK k \in Nat : Config[c].linesz = 2 ^ k
  BY Exponent
<1>2. PICK n \in Nat : Config["l2"].linesz = 2 ^ n
  BY Exponent, <1>0
<1>3. k <= n
  BY <1>1, <1>2, Sizes, PowersGrow
<1>4. PICK d \in Nat : n = k + d
  BY <1>3
<1>5. 2 ^ n = 2 ^ k * 2 ^ d /\ 2 ^ d \in Nat \ {0}
  BY <1>4, PowersAdd, PowerOfTwo
<1>6. PICK m \in Nat \ {0} : Config["l2"].linesz = m * Config[c].linesz
  BY <1>1, <1>2, <1>5, Sizes
<1>7. LineSize["l2"] = m * LineSize[c]
  BY <1>6, <1>0, LinesAreTwoBlocks, Sizes
<1>8. LineSize["l2"] = (2 * m) * Config[c].linesz /\ 2 * m \in Nat \ {0}
  BY <1>6, <1>0, LinesAreTwoBlocks, Sizes
<1> QED
  BY <1>7, <1>8

LEMMA QuotientIs ==
  ASSUME NEW n \in Nat, NEW d \in Nat \ {0}, NEW q \in Nat,
         q * d <= n, n < (q + 1) * d
  PROVE  n \div d = q
<1>1. n = d * (n \div d) + (n % d) /\ n % d \in 0 .. (d - 1) /\ n \div d \in Nat
  OBVIOUS
<1> DEFINE p == n \div d
<1>2. p \in Nat /\ d * p <= n /\ n < d * p + d
  BY <1>1
<1>3. ~ (p < q)
  <2> SUFFICES ASSUME p < q PROVE FALSE
    OBVIOUS
  <2>1. (p + 1) * d <= q * d
    BY <1>2
  <2> QED
    BY <2>1, <1>2
<1>4. ~ (q < p)
  <2> SUFFICES ASSUME q < p PROVE FALSE
    OBVIOUS
  <2>1. (q + 1) * d <= p * d
    BY <1>2
  <2> QED
    BY <2>1, <1>2
<1> QED
  BY <1>2, <1>3, <1>4

(* Rounding an address down to a block, or to a line, leaves it in its     *)
(* line of the last level.                                                 *)
LEMMA RoundedDown ==
  ASSUME NEW a \in Nat, NEW x \in Nat \ {0}, NEW m \in Nat \ {0}
  PROVE  /\ a - (a % x) \in Nat
         /\ a - (a % x) = (a \div x) * x
         /\ (a - (a % x)) \div (m * x) = a \div (m * x)
<1>1. a = x * (a \div x) + (a % x) /\ a % x \in 0 .. (x - 1) /\ a \div x \in Nat
  OBVIOUS
<1>2. m * x \in Nat \ {0}
  OBVIOUS
<1> DEFINE y == m * x
           q == a \div y
           p == a \div x
<1>3. a = y * q + (a % y) /\ a % y \in 0 .. (y - 1) /\ q \in Nat
  BY <1>2
<1>4. a - (a % x) = p * x /\ p * x \in Nat
  BY <1>1
<1>5. q * m <= p
  <2> SUFFICES ASSUME p < q * m PROVE FALSE
    BY <1>1, <1>3
  <2>1. (p + 1) * x <= (q * m) * x
    BY <1>1, <1>3
  <2>2. (q * m) * x <= a
    BY <1>3
  <2> QED
    BY <2>1, <2>2, <1>1
<1>6. (q * m) * x <= p * x
  BY <1>1, <1>3, <1>5
<1>7. q * y <= p * x
  BY <1>6, <1>3
<1>8. p * x < (q + 1) * y
  BY <1>1, <1>3
<1>9. (p * x) \div y = q
  BY <1>2, <1>3, <1>4, <1>7, <1>8, QuotientIs
<1> QED
  BY <1>4, <1>9

-----------------------------------------------------------------------------
(* One level                                                               *)

Tags(c) == [Way(c) -> Tag(c)]

(* A line a level may hold.                                                *)
LineOf(c) == {Line(c, a) : a \in Addresses \union {0}}

(* The way w is one that an access to addr may take if it misses.          *)
Takes(c, addr, w) == w \in Way(c) /\ w[1] = SetOf(c, Line(c, addr))

LEMMA VictimTaken ==
  ASSUME NEW c, NEW t, NEW addr, NEW w \in Victims(c, t, addr)
  PROVE  Takes(c, addr, w)
  BY DEF Victims, Takes

(* An access that misses replaces one way.                                 *)
LEMMA MissReplaces ==
  ASSUME NEW c \in Cache, NEW t \in Tags(c), NEW addr, Line(c, addr) \in LineOf(c),
         NEW store \in BOOLEAN, NEW w \in Way(c), Misses(c, t, addr),
         NEW u, u = TagsAfter(c, t, addr, store, w)
  PROVE  /\ u \in Tags(c)
         /\ u[w].valid /\ (u[w].dirty <=> store) /\ u[w].line = Line(c, addr)
         /\ \A v \in Way(c) \ {w} : u[v] = t[v]
<1>1. u = [t EXCEPT ![w] = [valid |-> TRUE, dirty |-> store, line |-> Line(c, addr)]]
  BY DEF TagsAfter
<1>2. [valid |-> TRUE, dirty |-> store, line |-> Line(c, addr)] \in Tag(c)
  BY DEF Tag, LineOf
<1> QED
  BY <1>1, <1>2 DEF Tags

(* One that hits marks the way it hits.                                    *)
LEMMA HitMarks ==
  ASSUME NEW c \in Cache, NEW t \in Tags(c), NEW addr,
         NEW store \in BOOLEAN, NEW w, ~Misses(c, t, addr),
         NEW u, u = TagsAfter(c, t, addr, store, w)
  PROVE  /\ u \in Tags(c)
         /\ \A v \in Way(c) : /\ u[v].valid <=> t[v].valid
                              /\ u[v].line = t[v].line
                              /\ u[v].dirty <=> t[v].dirty \/ (store /\ v \in Hits(c, t, addr))
<1>1. u = [v \in Way(c) |-> [t[v] EXCEPT !.dirty = @ \/ (store /\ v \in Hits(c, t, addr))]]
  BY DEF TagsAfter
<1>2. ASSUME NEW v \in Way(c)
      PROVE  /\ u[v] \in Tag(c)
             /\ u[v].valid <=> t[v].valid
             /\ u[v].line = t[v].line
             /\ u[v].dirty <=> t[v].dirty \/ (store /\ v \in Hits(c, t, addr))
  <2>1. t[v] \in Tag(c)
    BY DEF Tags
  <2> DEFINE mark == store /\ v \in Hits(c, t, addr)
  <2>2. mark \in BOOLEAN
    OBVIOUS
  <2>3. u[v] = [t[v] EXCEPT !.dirty = @ \/ mark]
    BY <1>1
  <2> HIDE DEF mark
  <2>4. /\ u[v] \in Tag(c)
        /\ u[v].valid <=> t[v].valid
        /\ u[v].line = t[v].line
        /\ u[v].dirty <=> t[v].dirty \/ mark
    BY <2>1, <2>2, <2>3 DEF Tag
  <2> QED
    BY <2>4 DEF mark
<1> QED
  BY <1>1, <1>2 DEF Tags

LEMMA TagsAfterType ==
  ASSUME NEW c \in Cache, NEW t \in Tags(c), NEW addr, Line(c, addr) \in LineOf(c),
         NEW store \in BOOLEAN, NEW w \in Way(c)
  PROVE  TagsAfter(c, t, addr, store, w) \in Tags(c)
  BY MissReplaces, HitMarks

(* OneWayPerLine of one level                                              *)
OneWay(c, t) ==
  \A v, w \in Way(c) :
    /\ t[v].valid => v[1] = SetOf(c, t[v].line)
    /\ t[v].valid /\ t[w].valid /\ t[v].line = t[w].line => v = w

(* Where OneWay holds check_tag finds every line that is present.          *)
LEMMA MissMeansAbsent ==
  ASSUME NEW c \in Cache, NEW t, OneWay(c, t), NEW addr, Misses(c, t, addr),
         NEW v \in Way(c), t[v].valid
  PROVE  t[v].line # Line(c, addr)
  BY DEF OneWay, Misses, Hits

LEMMA OneWayAfter ==
  ASSUME NEW c \in Cache, NEW t \in Tags(c), OneWay(c, t),
         NEW addr, Line(c, addr) \in LineOf(c),
         NEW store \in BOOLEAN, NEW w, Takes(c, addr, w)
  PROVE  OneWay(c, TagsAfter(c, t, addr, store, w))
<1> DEFINE u == TagsAfter(c, t, addr, store, w)
<1>0. w \in Way(c) /\ w[1] = SetOf(c, Line(c, addr))
  BY DEF Takes
<1>1. CASE Misses(c, t, addr)
  <2>1. /\ u[w].line = Line(c, addr)
        /\ \A v \in Way(c) \ {w} : u[v] = t[v]
    BY <1>0, <1>1, MissReplaces
  <2>2. \A v \in Way(c) \ {w} : u[v].valid => u[v].line # Line(c, addr)
    BY <1>1, <2>1, MissMeansAbsent
  <2> HIDE DEF u
  <2>3. OneWay(c, u)
    BY <1>0, <2>1, <2>2 DEF OneWay
  <2> QED
    BY <2>3 DEF u
<1>2. CASE ~Misses(c, t, addr)
  <2>1. \A v \in Way(c) : (u[v].valid <=> t[v].valid) /\ u[v].line = t[v].line
    BY <1>2, HitMarks
  <2> HIDE DEF u
  <2>2. OneWay(c, u)
    BY <2>1 DEF OneWay
  <2> QED
    BY <2>2 DEF u
<1> QED
  BY <1>1, <1>2

(* The lines that are dirty                                                *)
DirtyLines(c, t) == {t[w].line : w \in Dirty(c, t)}

LEMMA DirtyInLines ==
  ASSUME NEW c \in Cache, NEW t, OneWay(c, t), NEW a
  PROVE  DirtyIn(c, t, a) <=> Line(c, a) \in DirtyLines(c, t)
  BY DEF DirtyIn, DirtyLines, Dirty, Present, Hits, OneWay

(* The line that an access writes back                                     *)
LinesBack(c, t, addr, w) == IF WritesBack(c, t, addr, w) THEN {t[w].line} ELSE {}

(* The line that an access marks                                           *)
Marked(c, addr, store) == IF store THEN {Line(c, addr)} ELSE {}

(* What an access stores to is dirty after it, what it writes back is not, *)
(* and that is all it changes.                                             *)
LEMMA DirtyLinesAfter ==
  ASSUME NEW c \in Cache, NEW t \in Tags(c), OneWay(c, t),
         NEW addr, Line(c, addr) \in LineOf(c),
         NEW store \in BOOLEAN, NEW w, Takes(c, addr, w)
  PROVE  /\ DirtyLines(c, TagsAfter(c, t, addr, store, w))
              = (DirtyLines(c, t) \ LinesBack(c, t, addr, w))
                  \union Marked(c, addr, store)
         /\ LinesBack(c, t, addr, w) \subseteq DirtyLines(c, t)
         /\ Line(c, addr) \notin LinesBack(c, t, addr, w)
<1> DEFINE u == TagsAfter(c, t, addr, store, w)
<1>0. w \in Way(c) /\ w[1] = SetOf(c, Line(c, addr))
  BY DEF Takes
<1>1. CASE Misses(c, t, addr)
  <2>1. /\ u[w].valid /\ (u[w].dirty <=> store) /\ u[w].line = Line(c, addr)
        /\ \A v \in Way(c) \ {w} : u[v] = t[v]
    BY <1>0, <1>1, MissReplaces
  <2>2. LinesBack(c, t, addr, w) = IF t[w].valid /\ t[w].dirty THEN {t[w].line} ELSE {}
    BY <1>1 DEF LinesBack, WritesBack
  <2>3. \A v \in Way(c) : t[v].valid => t[v].line # Line(c, addr)
    BY <1>1, MissMeansAbsent
  <2>4. \A v \in Way(c) \ {w} : t[v].valid /\ t[w].valid => t[v].line # t[w].line
    BY <1>0 DEF OneWay
  <2> HIDE DEF u
  <2>5. ASSUME NEW l \in DirtyLines(c, u)
        PROVE  l \in (DirtyLines(c, t) \ LinesBack(c, t, addr, w))
                       \union Marked(c, addr, store)
    <3>1. PICK v \in Way(c) : u[v].valid /\ u[v].dirty /\ l = u[v].line
      BY <2>5 DEF DirtyLines, Dirty, Present
    <3>2. CASE v = w
      BY <2>1, <3>1, <3>2 DEF Marked
    <3>3. CASE v # w
      <4>1. t[v].valid /\ t[v].dirty /\ l = t[v].line
        BY <2>1, <3>1, <3>3
      <4> QED
        BY <2>2, <2>4, <3>3, <4>1 DEF DirtyLines, Dirty, Present
    <3> QED
      BY <3>2, <3>3
  <2>6. ASSUME NEW l \in DirtyLines(c, t), l \notin LinesBack(c, t, addr, w)
        PROVE  l \in DirtyLines(c, u)
    <3>1. PICK v \in Way(c) : t[v].valid /\ t[v].dirty /\ l = t[v].line
      BY <2>6 DEF DirtyLines, Dirty, Present
    <3>2. v # w
      BY <2>2, <2>6, <3>1
    <3> QED
      BY <2>1, <3>1, <3>2 DEF DirtyLines, Dirty, Present
  <2>7. Marked(c, addr, store) \subseteq DirtyLines(c, u)
    BY <1>0, <2>1 DEF DirtyLines, Dirty, Present, Marked
  <2>8. LinesBack(c, t, addr, w) \subseteq DirtyLines(c, t)
    BY <1>0, <2>2 DEF DirtyLines, Dirty, Present
  <2>9. Line(c, addr) \notin LinesBack(c, t, addr, w)
    BY <1>0, <2>2, <2>3
  <2> QED
    BY <2>5, <2>6, <2>7, <2>8, <2>9 DEF u
<1>2. CASE ~Misses(c, t, addr)
  <2>1. LinesBack(c, t, addr, w) = {}
    BY <1>2 DEF LinesBack, WritesBack
  <2>2. \A v \in Way(c) : /\ u[v].valid <=> t[v].valid
                          /\ u[v].line = t[v].line
                          /\ u[v].dirty <=> t[v].dirty \/ (store /\ v \in Hits(c, t, addr))
    BY <1>2, HitMarks
  <2>3. PICK h \in Way(c) : h \in Hits(c, t, addr)
    BY <1>2 DEF Misses, Hits
  <2>4. \A v \in Hits(c, t, addr) : t[v].valid /\ t[v].line = Line(c, addr)
    BY DEF Hits
  <2> HIDE DEF u
  <2>5. ASSUME NEW l \in DirtyLines(c, u)
        PROVE  l \in DirtyLines(c, t) \union Marked(c, addr, store)
    BY <2>2, <2>4, <2>5 DEF DirtyLines, Dirty, Present, Marked
  <2>6. DirtyLines(c, t) \subseteq DirtyLines(c, u)
    BY <2>2 DEF DirtyLines, Dirty, Present
  <2>7. Marked(c, addr, store) \subseteq DirtyLines(c, u)
    BY <2>2, <2>3, <2>4 DEF DirtyLines, Dirty, Present, Marked
  <2> QED
    BY <2>1, <2>5, <2>6, <2>7 DEF u
<1> QED
  BY <1>1, <1>2

-----------------------------------------------------------------------------
(* How many ways of one level are valid, and dirty                         *)

LEMMA FinitelyManyWays ==
  ASSUME NEW c \in Cache, NEW t
  PROVE  IsFiniteSet(Present(c, t)) /\ IsFiniteSet(Dirty(c, t))
<1>1. IsFiniteSet(0 .. (Config[c].sets - 1)) /\ IsFiniteSet(0 .. (Config[c].ways - 1))
  <2>1. Config[c].sets - 1 \in Int /\ Config[c].ways - 1 \in Int
    BY Sizes
  <2> QED
    BY <2>1, FS_Interval
<1>2. IsFiniteSet(Way(c))
  BY <1>1, FS_Product DEF Way
<1> QED
  BY <1>2, FS_Subset DEF Present, Dirty

LEMMA CardinalityOfPart ==
  ASSUME NEW S, IsFiniteSet(S), NEW x, NEW T, T \subseteq S \union {x}
  PROVE  /\ Cardinality(S) \in Nat /\ Cardinality(T) \in Nat
         /\ Cardinality(T) <= Cardinality(S) + 1
         /\ T \subseteq S => Cardinality(T) <= Cardinality(S)
         /\ x \in S /\ x \notin T => Cardinality(T) + 1 <= Cardinality(S)
<1>0. Cardinality(S) \in Nat
  BY FS_CardinalityType
<1>1. IsFiniteSet(S \union {x}) /\ Cardinality(S \union {x}) <= Cardinality(S) + 1
  BY <1>0, FS_AddElement
<1>2. IsFiniteSet(T) /\ Cardinality(T) <= Cardinality(S \union {x})
  BY <1>1, FS_Subset
<1>3. Cardinality(S) \in Nat /\ Cardinality(T) \in Nat /\ Cardinality(S \union {x}) \in Nat
  BY <1>1, <1>2, FS_CardinalityType
<1>4. T \subseteq S => Cardinality(T) <= Cardinality(S)
  BY FS_Subset
<1>5. ASSUME x \in S, x \notin T
      PROVE  Cardinality(T) + 1 <= Cardinality(S)
  <2>1. IsFiniteSet(S \ {x}) /\ Cardinality(S \ {x}) = Cardinality(S) - 1
    BY <1>5, FS_RemoveElement
  <2>2. T \subseteq S \ {x}
    BY <1>5
  <2>3. Cardinality(T) <= Cardinality(S \ {x})
    BY <2>1, <2>2, FS_Subset
  <2> QED
    BY <1>3, <2>1, <2>3
<1> QED
  BY <1>1, <1>2, <1>3, <1>4, <1>5

(* The numbers that Counted adds for an access                             *)
MissCount(c, t, addr) == IF Misses(c, t, addr) THEN 1 ELSE 0
BackCount(c, t, addr, w) == IF WritesBack(c, t, addr, w) THEN 1 ELSE 0
StoreCount(store) == IF store THEN 1 ELSE 0
ReadCount(store, n) == IF store THEN 0 ELSE n

LEMMA PresentAfter ==
  ASSUME NEW c \in Cache, NEW t \in Tags(c), OneWay(c, t),
         NEW addr, Line(c, addr) \in LineOf(c),
         NEW store \in BOOLEAN, NEW w \in Way(c),
         NEW u, u = TagsAfter(c, t, addr, store, w)
  PROVE  Cardinality(Present(c, u)) <= Cardinality(Present(c, t)) + MissCount(c, t, addr)
<1>1. CASE Misses(c, t, addr)
  <2>1. Present(c, u) \subseteq Present(c, t) \union {w}
    BY <1>1, MissReplaces DEF Present
  <2> QED
    BY <1>1, <2>1, FinitelyManyWays, CardinalityOfPart DEF MissCount
<1>2. CASE ~Misses(c, t, addr)
  <2>1. Present(c, u) = Present(c, t)
    BY <1>2, HitMarks DEF Present
  <2> QED
    BY <1>2, <2>1, FinitelyManyWays, FS_CardinalityType DEF MissCount
<1> QED
  BY <1>1, <1>2

LEMMA DirtyAfter ==
  ASSUME NEW c \in Cache, NEW t \in Tags(c), OneWay(c, t),
         NEW addr, Line(c, addr) \in LineOf(c),
         NEW store \in BOOLEAN, NEW w \in Way(c),
         NEW u, u = TagsAfter(c, t, addr, store, w)
  PROVE  Cardinality(Dirty(c, u)) + BackCount(c, t, addr, w)
           <= Cardinality(Dirty(c, t)) + StoreCount(store)
<1>0. /\ IsFiniteSet(Dirty(c, t)) /\ Cardinality(Dirty(c, t)) \in Nat
      /\ IsFiniteSet(Dirty(c, u)) /\ Cardinality(Dirty(c, u)) \in Nat
  BY FinitelyManyWays, FS_CardinalityType
<1>1. CASE Misses(c, t, addr)
  <2>1. /\ u[w].valid /\ (u[w].dirty <=> store)
        /\ \A v \in Way(c) \ {w} : u[v] = t[v]
    BY <1>1, MissReplaces
  <2>2. WritesBack(c, t, addr, w) <=> w \in Dirty(c, t)
    BY <1>1 DEF WritesBack, Dirty, Present
  <2>3. Dirty(c, u) = (Dirty(c, t) \ {w}) \union (IF store THEN {w} ELSE {})
    BY <2>1 DEF Dirty, Present
  <2> DEFINE D == Dirty(c, t)
             E == Dirty(c, u)
  <2>4. E \subseteq D \union {w} /\ (~store => w \notin E)
    BY <2>3
  <2>5. Cardinality(E) <= Cardinality(D) + 1
    BY <1>0, <2>4, CardinalityOfPart
  <2>6. E \subseteq D => Cardinality(E) <= Cardinality(D)
    BY <1>0, <2>4, CardinalityOfPart
  <2>7. w \in D /\ w \notin E => Cardinality(E) + 1 <= Cardinality(D)
    BY <1>0, <2>4, CardinalityOfPart
  <2>8. (w \in D => E \subseteq D) /\ (~store => E \subseteq D)
    BY <2>3
  <2> QED
    BY <1>0, <2>2, <2>4, <2>5, <2>6, <2>7, <2>8 DEF BackCount, StoreCount
<1>2. CASE ~Misses(c, t, addr)
  <2>1. PICK h \in Way(c) : h \in Hits(c, t, addr)
    BY <1>2 DEF Misses, Hits
  <2>2. \A v \in Hits(c, t, addr) : v = h
    BY <2>1 DEF Hits, OneWay
  <2>3. \A v \in Way(c) : /\ u[v].valid <=> t[v].valid
                          /\ u[v].dirty <=> t[v].dirty \/ (store /\ v \in Hits(c, t, addr))
    BY <1>2, HitMarks
  <2>4. Dirty(c, u) \subseteq Dirty(c, t) \union {h} /\ (~store => Dirty(c, u) \subseteq Dirty(c, t))
    BY <2>2, <2>3 DEF Dirty, Present
  <2>5. /\ Cardinality(Dirty(c, u)) <= Cardinality(Dirty(c, t)) + 1
        /\ ~store => Cardinality(Dirty(c, u)) <= Cardinality(Dirty(c, t))
    BY <1>0, <2>4, CardinalityOfPart
  <2>6. BackCount(c, t, addr, w) = 0
    BY <1>2 DEF BackCount, WritesBack
  <2> QED
    BY <1>0, <2>5, <2>6 DEF StoreCount
<1> QED
  BY <1>1, <1>2

-----------------------------------------------------------------------------
(* What holds of each level by itself                                      *)

MissesOf(s) == s["read_misses"] + s["write_misses"]

LevelInv(c, level) ==
  /\ level.t \in Tags(c)
  /\ level.s \in [Counter -> Nat]
  /\ OneWay(c, level.t)
  /\ Cardinality(Present(c, level.t)) <= MissesOf(level.s)
  /\ Cardinality(Dirty(c, level.t)) + level.s["writebacks"] <= level.s["write_accesses"]

LEMMA CountersAfter ==
  ASSUME NEW c \in Cache, NEW level, level.s \in [Counter -> Nat],
         NEW addr, NEW bytes \in Nat, NEW store \in BOOLEAN, NEW w,
         NEW s, s = AccessLevel(c, level, addr, bytes, store, w).s
  PROVE  /\ s \in [Counter -> Nat]
         /\ MissesOf(s) = MissesOf(level.s) + MissCount(c, level.t, addr)
         /\ s["read_accesses"] = level.s["read_accesses"] + ReadCount(store, 1)
         /\ s["write_accesses"] = level.s["write_accesses"] + StoreCount(store)
         /\ s["bytes_read"] = level.s["bytes_read"] + ReadCount(store, bytes)
         /\ s["writebacks"] = level.s["writebacks"] + BackCount(c, level.t, addr, w)
<1> DEFINE more == Counted(c, level.t, addr, bytes, store, w)
<1>1. /\ more["read_accesses"] = ReadCount(store, 1)
      /\ more["write_accesses"] = StoreCount(store)
      /\ more["bytes_read"] = ReadCount(store, bytes)
      /\ more["bytes_written"] = IF store THEN bytes ELSE 0
      /\ more["read_misses"] = IF store THEN 0 ELSE MissCount(c, level.t, addr)
      /\ more["write_misses"] = IF store THEN MissCount(c, level.t, addr) ELSE 0
      /\ more["writebacks"] = BackCount(c, level.t, addr, w)
  BY DEF Counted, StoreCount, ReadCount, MissCount, BackCount
<1> HIDE DEF more
<1>2. \A k \in Counter : more[k] \in Nat /\ level.s[k] \in Nat
  BY <1>1 DEF Counter, StoreCount, ReadCount, MissCount, BackCount
<1>3. s = [k \in Counter |-> level.s[k] + more[k]]
  BY DEF AccessLevel, more
<1>4. s \in [Counter -> Nat]
  BY <1>2, <1>3
<1>5. \A k \in Counter : s[k] = level.s[k] + more[k]
  BY <1>3
<1>6. MissesOf(s) = MissesOf(level.s) + MissCount(c, level.t, addr)
  BY <1>1, <1>2, <1>5 DEF MissesOf, Counter, MissCount
<1> QED
  BY <1>1, <1>2, <1>4, <1>5, <1>6 DEF Counter

LEMMA LevelInvAfter ==
  ASSUME NEW c \in Cache, NEW level, LevelInv(c, level),
         NEW addr, Line(c, addr) \in LineOf(c), NEW bytes \in Nat,
         NEW store \in BOOLEAN, NEW w, Takes(c, addr, w)
  PROVE  LevelInv(c, AccessLevel(c, level, addr, bytes, store, w))
<1> DEFINE new == AccessLevel(c, level, addr, bytes, store, w)
           t == level.t
<1>0. w \in Way(c) /\ t \in Tags(c) /\ level.s \in [Counter -> Nat] /\ OneWay(c, t)
  BY DEF Takes, LevelInv
<1>1. new.t = TagsAfter(c, t, addr, store, w)
  BY DEF AccessLevel
<1>2. new.t \in Tags(c) /\ OneWay(c, new.t)
  BY <1>0, <1>1, TagsAfterType, OneWayAfter
<1>3. Cardinality(Present(c, new.t)) <= Cardinality(Present(c, t)) + MissCount(c, t, addr)
  BY <1>0, <1>1, PresentAfter
<1>4. Cardinality(Dirty(c, new.t)) + BackCount(c, t, addr, w)
        <= Cardinality(Dirty(c, t)) + StoreCount(store)
  BY <1>0, <1>1, DirtyAfter
<1>5. /\ new.s \in [Counter -> Nat]
      /\ MissesOf(new.s) = MissesOf(level.s) + MissCount(c, t, addr)
      /\ new.s["write_accesses"] = level.s["write_accesses"] + StoreCount(store)
      /\ new.s["writebacks"] = level.s["writebacks"] + BackCount(c, t, addr, w)
  BY <1>0, CountersAfter
<1>6. /\ Cardinality(Present(c, new.t)) \in Nat /\ Cardinality(Present(c, t)) \in Nat
      /\ Cardinality(Dirty(c, new.t)) \in Nat /\ Cardinality(Dirty(c, t)) \in Nat
  BY FinitelyManyWays, FS_CardinalityType
<1>7. /\ MissesOf(level.s) \in Nat /\ MissCount(c, t, addr) \in Nat
      /\ level.s["write_accesses"] \in Nat /\ level.s["writebacks"] \in Nat
      /\ BackCount(c, t, addr, w) \in Nat /\ StoreCount(store) \in Nat
  BY <1>0 DEF MissesOf, MissCount, BackCount, StoreCount, Counter
<1>8. /\ Cardinality(Present(c, t)) <= MissesOf(level.s)
      /\ Cardinality(Dirty(c, t)) + level.s["writebacks"] <= level.s["write_accesses"]
  BY DEF LevelInv
<1> HIDE DEF new, t
<1>9. /\ Cardinality(Present(c, new.t)) <= MissesOf(new.s)
      /\ Cardinality(Dirty(c, new.t)) + new.s["writebacks"] <= new.s["write_accesses"]
  BY <1>3, <1>4, <1>5, <1>6, <1>7, <1>8
<1>10. LevelInv(c, new)
  BY <1>2, <1>5, <1>9 DEF LevelInv
<1> QED
  BY <1>10 DEF new

-----------------------------------------------------------------------------
(* The levels together                                                     *)

(* Rounded down, as a block or as a line, an address stays in its line of  *)
(* the level below.                                                        *)
LEMMA SameLineBelow ==
  ASSUME NEW c \in Cache, NEW a \in Nat
  PROVE  /\ Line("l2", BlockAddress(c, a)) = Line("l2", a)
         /\ Line("l2", LineAddress(c, Line(c, a))) = Line("l2", a)
<1>1. PICK m \in Nat \ {0} : LineSize["l2"] = m * LineSize[c]
  BY WholeLines
<1>2. PICK n \in Nat \ {0} : LineSize["l2"] = n * Config[c].linesz
  BY WholeLines
<1>3. LineSize[c] \in Nat \ {0} /\ Config[c].linesz \in Nat \ {0}
  BY Sizes, LinesAreTwoBlocks
<1>4. (a - (a % LineSize[c])) \div (m * LineSize[c]) = a \div (m * LineSize[c])
  BY <1>1, <1>3, RoundedDown
<1>5. a - (a % LineSize[c]) = (a \div LineSize[c]) * LineSize[c]
  BY <1>3, RoundedDown
<1>6. (a - (a % Config[c].linesz)) \div (n * Config[c].linesz) = a \div (n * Config[c].linesz)
  BY <1>2, <1>3, RoundedDown
<1> QED
  BY <1>1, <1>2, <1>4, <1>5, <1>6 DEF Line, BlockAddress, LineAddress

LEMMA LinesBelow ==
  ASSUME NEW c \in Cache, NEW a \in Addresses
  PROVE  /\ Line(c, a) \in LineOf(c)
         /\ Line("l2", BlockAddress(c, a)) \in LineOf("l2")
<1>1. a \in Nat
  BY ConfigAssumption
<1> QED
  BY <1>1, SameLineBelow DEF LineOf

LEMMA VictimLineBelow ==
  ASSUME NEW c \in Cache, NEW l \in LineOf(c)
  PROVE  Line("l2", LineAddress(c, l)) \in LineOf("l2")
<1>1. PICK a \in Addresses \union {0} : l = Line(c, a)
  BY DEF LineOf
<1>2. a \in Nat
  BY <1>1, ConfigAssumption
<1> QED
  BY <1>1, <1>2, SameLineBelow DEF LineOf

(* What a read and a write do to the last level                            *)
ReadsBelow(level, new, addr, size, w) ==
  /\ DirtyLines("l2", new.t) = DirtyLines("l2", level.t) \ WrittenLine(level, addr, w)
  /\ new.s["read_accesses"] = level.s["read_accesses"] + 1
  /\ new.s["bytes_read"] = level.s["bytes_read"] + size
  /\ new.s["write_accesses"] = level.s["write_accesses"]

WritesBelow(level, new, addr, w) ==
  /\ DirtyLines("l2", new.t)
       = (DirtyLines("l2", level.t) \union {Line("l2", addr)}) \ WrittenLine(level, addr, w)
  /\ new.s["read_accesses"] = level.s["read_accesses"]
  /\ new.s["bytes_read"] = level.s["bytes_read"]
  /\ new.s["write_accesses"] = level.s["write_accesses"] + 1

LEMMA AccessBelow ==
  ASSUME NEW level, LevelInv("l2", level),
         NEW addr, Line("l2", addr) \in LineOf("l2"),
         NEW size \in Nat, NEW store \in BOOLEAN, NEW w, Takes("l2", addr, w),
         NEW new, new = AccessLevel("l2", level, addr, size, store, w)
  PROVE  /\ LevelInv("l2", new)
         /\ ~store => ReadsBelow(level, new, addr, size, w)
         /\ store => WritesBelow(level, new, addr, w)
<1>0. /\ "l2" \in Cache
      /\ level.t \in Tags("l2") /\ OneWay("l2", level.t) /\ level.s \in [Counter -> Nat]
  BY DEF Cache, LevelInv
<1> DEFINE dirty == DirtyLines("l2", level.t)
           lines == DirtyLines("l2", new.t)
           back == WrittenLine(level, addr, w)
           line == Line("l2", addr)
<1>1. LevelInv("l2", new)
  BY <1>0, LevelInvAfter
<1>2. new.t = TagsAfter("l2", level.t, addr, store, w)
  BY DEF AccessLevel
<1>3. back = LinesBack("l2", level.t, addr, w)
  BY DEF WrittenLine, LinesBack
<1>4. lines = (dirty \ back) \union Marked("l2", addr, store) /\ line \notin back
  BY <1>0, <1>2, <1>3, DirtyLinesAfter
<1>5. /\ new.s["read_accesses"] = level.s["read_accesses"] + ReadCount(store, 1)
      /\ new.s["bytes_read"] = level.s["bytes_read"] + ReadCount(store, size)
      /\ new.s["write_accesses"] = level.s["write_accesses"] + StoreCount(store)
  BY <1>0, CountersAfter
<1>6. /\ level.s["read_accesses"] \in Nat /\ level.s["bytes_read"] \in Nat
      /\ level.s["write_accesses"] \in Nat
  BY <1>0 DEF Counter
<1>7. /\ Marked("l2", addr, store) = IF store THEN {line} ELSE {}
      /\ ReadCount(store, 1) = IF store THEN 0 ELSE 1
      /\ ReadCount(store, size) = IF store THEN 0 ELSE size
      /\ StoreCount(store) = IF store THEN 1 ELSE 0
  BY DEF Marked, ReadCount, StoreCount
<1> HIDE DEF dirty, lines, back, line
<1>8. IF store THEN lines = (dirty \union {line}) \ back ELSE lines = dirty \ back
  BY <1>4, <1>7
<1>9. CASE ~store
  <2>1. ReadsBelow(level, new, addr, size, w)
    BY <1>5, <1>6, <1>7, <1>8, <1>9 DEF ReadsBelow, lines, dirty, back
  <2> QED
    BY <1>1, <1>9, <2>1
<1>10. CASE store
  <2>1. lines = (dirty \union {line}) \ back
    BY <1>8, <1>10
  <2>2. ReadCount(store, 1) = 0 /\ ReadCount(store, size) = 0 /\ StoreCount(store) = 1
    BY <1>7, <1>10
  <2>3. /\ new.s["read_accesses"] = level.s["read_accesses"]
        /\ new.s["bytes_read"] = level.s["bytes_read"]
        /\ new.s["write_accesses"] = level.s["write_accesses"] + 1
    BY <1>5, <1>6, <2>2
  <2>4. WritesBelow(level, new, addr, w)
    BY <2>1, <2>3 DEF WritesBelow, lines, dirty, back, line
  <2> QED
    BY <1>1, <1>10, <2>4
<1> QED
  BY <1>9, <1>10

LEMMA ReadBelow ==
  ASSUME NEW level, LevelInv("l2", level),
         NEW addr, Line("l2", addr) \in LineOf("l2"),
         NEW size \in Nat, NEW w, Takes("l2", addr, w),
         NEW new, new = AccessLevel("l2", level, addr, size, FALSE, w)
  PROVE  LevelInv("l2", new) /\ ReadsBelow(level, new, addr, size, w)
<1>1. FALSE \in BOOLEAN
  OBVIOUS
<1> QED
  BY <1>1, AccessBelow

LEMMA WriteBelow ==
  ASSUME NEW level, LevelInv("l2", level),
         NEW addr, Line("l2", addr) \in LineOf("l2"),
         NEW size \in Nat, NEW w, Takes("l2", addr, w),
         NEW new, new = AccessLevel("l2", level, addr, size, TRUE, w)
  PROVE  LevelInv("l2", new) /\ WritesBelow(level, new, addr, w)
<1>1. TRUE \in BOOLEAN
  OBVIOUS
<1> QED
  BY <1>1, AccessBelow

LevelsInv == \A c \in Cache : LevelInv(c, Level(c))

(* What one level asks for, the next has been asked.                       *)
AskedInv ==
  LET s(c) == stats[c]
  IN  /\ s("l2")["read_accesses"] = MissesOf(s("ic")) + MissesOf(s("dc"))
      /\ s("l2")["write_accesses"] = s("ic")["writebacks"] + s("dc")["writebacks"]
      /\ s("l2")["bytes_read"] = MissesOf(s("ic")) * Config["ic"].linesz
                                   + MissesOf(s("dc")) * Config["dc"].linesz

DirtyAt(c) == DirtyLines(c, tags[c])

(* No line of the instruction cache is ever dirty.                         *)
UnsavedInv ==
  /\ \A a \in unsaved : \E c \in {"dc", "l2"} : Line(c, a) \in DirtyAt(c)
  /\ \A c \in {"dc", "l2"} : \A l \in DirtyAt(c) : \E a \in unsaved : Line(c, a) = l
  /\ DirtyAt("ic") = {}

IInv ==
  /\ DOMAIN tags = Cache /\ DOMAIN stats = Cache
  /\ stats = [c \in Cache |-> stats[c]]
  /\ unsaved \subseteq Addresses
  /\ LevelsInv
  /\ AskedInv
  /\ UnsavedInv

(* The lines of the last level that cover lines of cache c                 *)
CoveredBelow(c, lines) == {Line("l2", LineAddress(c, l)) : l \in lines}

LEMMA NothingCovered == \A c : CoveredBelow(c, {}) = {}
  BY DEF CoveredBelow

(* What an access to cache c, and what it asks of the level below, make of *)
(* the two levels: back are the lines that c writes back, written those    *)
(* that the last level writes to memory.                                   *)
Step(c, addr, store, l1, l2, back, written) ==
  /\ LevelInv(c, l1) /\ LevelInv("l2", l2)
  /\ DirtyLines(c, l1.t) = (DirtyAt(c) \ back)
                             \union Marked(c, addr, store)
  /\ back \subseteq DirtyAt(c)
  /\ DirtyLines("l2", l2.t)
       = (DirtyAt("l2") \union CoveredBelow(c, back)) \ written
  /\ \E m \in Nat, b \in Nat :
       /\ MissesOf(l1.s) = MissesOf(stats[c]) + m
       /\ l1.s["writebacks"] = stats[c]["writebacks"] + b
       /\ l2.s["read_accesses"] = stats["l2"]["read_accesses"] + m
       /\ l2.s["bytes_read"] = stats["l2"]["bytes_read"] + m * Config[c].linesz
       /\ l2.s["write_accesses"] = stats["l2"]["write_accesses"] + b

LEMMA HitStep ==
  ASSUME IInv, NEW c \in {"ic", "dc"}, NEW addr \in Addresses, NEW store \in BOOLEAN,
         ~Misses(c, tags[c], addr), NEW w \in Hits(c, tags[c], addr)
  PROVE  Step(c, addr, store, AccessLevel(c, Level(c), addr, Bytes, store, w), Level("l2"),
              {}, {})
<1> DEFINE t == tags[c]
           l1 == AccessLevel(c, Level(c), addr, Bytes, store, w)
<1>0. /\ c \in Cache /\ "l2" \in Cache /\ Bytes \in Nat
      /\ Line(c, addr) \in LineOf(c)
      /\ LevelInv(c, Level(c)) /\ LevelInv("l2", Level("l2"))
      /\ Level(c).t = t /\ Level(c).s = stats[c] /\ Level("l2").t = tags["l2"] /\ Level("l2").s = stats["l2"]
  BY ConfigAssumption, LinesBelow DEF Cache, IInv, LevelsInv, Level
<1>1. t \in Tags(c) /\ OneWay(c, t) /\ stats[c] \in [Counter -> Nat] /\ stats["l2"] \in [Counter -> Nat]
  BY <1>0 DEF LevelInv
<1>2. Takes(c, addr, w)
  BY DEF Takes, Hits
<1>3. LevelInv(c, l1)
  BY <1>0, <1>2, LevelInvAfter
<1>4. l1.t = TagsAfter(c, t, addr, store, w)
  BY <1>0 DEF AccessLevel
<1>5. LinesBack(c, t, addr, w) = {} /\ MissCount(c, t, addr) = 0 /\ BackCount(c, t, addr, w) = 0
  BY DEF LinesBack, MissCount, BackCount, WritesBack
<1>6. DirtyLines(c, l1.t) = DirtyLines(c, t) \union Marked(c, addr, store)
  BY <1>0, <1>1, <1>2, <1>4, <1>5, DirtyLinesAfter
<1>7. /\ MissesOf(l1.s) = MissesOf(stats[c]) + 0
      /\ l1.s["writebacks"] = stats[c]["writebacks"] + 0
  BY <1>0, <1>1, <1>5, CountersAfter
<1>8. /\ stats["l2"]["read_accesses"] = stats["l2"]["read_accesses"] + 0
      /\ stats["l2"]["bytes_read"] = stats["l2"]["bytes_read"] + 0 * Config[c].linesz
      /\ stats["l2"]["write_accesses"] = stats["l2"]["write_accesses"] + 0
  BY <1>0, <1>1, Sizes DEF Counter
<1> HIDE DEF l1, t
<1>9. Step(c, addr, store, l1, Level("l2"), {}, {})
  BY <1>0, <1>3, <1>6, <1>7, <1>8, NothingCovered DEF Step, DirtyAt, t
<1> QED
  BY <1>9 DEF l1

LEMMA CleanMissStep ==
  ASSUME IInv, NEW c \in {"ic", "dc"}, NEW addr \in Addresses, NEW store \in BOOLEAN,
         Misses(c, tags[c], addr), NEW v \in Victims(c, tags[c], addr),
         ~WritesBack(c, tags[c], addr, v),
         NEW block, block = BlockAddress(c, addr),
         NEW w \in Victims("l2", tags["l2"], block)
  PROVE  Step(c, addr, store, AccessLevel(c, Level(c), addr, Bytes, store, v),
              AccessLevel("l2", Level("l2"), block, Config[c].linesz, FALSE, w),
              {}, WrittenLine(Level("l2"), block, w))
<1> DEFINE t == tags[c]
           below == tags["l2"]
           size == Config[c].linesz
           l1 == AccessLevel(c, Level(c), addr, Bytes, store, v)
           l2 == AccessLevel("l2", Level("l2"), block, size, FALSE, w)
           written == WrittenLine(Level("l2"), block, w)
<1>0. /\ c \in Cache /\ "l2" \in Cache /\ Bytes \in Nat /\ FALSE \in BOOLEAN
      /\ Line(c, addr) \in LineOf(c) /\ Line("l2", block) \in LineOf("l2")
      /\ LevelInv(c, Level(c)) /\ LevelInv("l2", Level("l2"))
      /\ Level(c).t = t /\ Level(c).s = stats[c] /\ Level("l2").t = below /\ Level("l2").s = stats["l2"]
  BY ConfigAssumption, LinesBelow DEF Cache, IInv, LevelsInv, Level
<1>1. /\ t \in Tags(c) /\ OneWay(c, t) /\ stats[c] \in [Counter -> Nat]
      /\ below \in Tags("l2") /\ OneWay("l2", below) /\ stats["l2"] \in [Counter -> Nat]
      /\ size \in Nat
  BY <1>0, Sizes DEF LevelInv
<1>2. Takes(c, addr, v) /\ Takes("l2", block, w)
  BY VictimTaken
<1>3. LevelInv(c, l1)
  BY <1>0, <1>1, <1>2, LevelInvAfter
<1>4. l1.t = TagsAfter(c, t, addr, store, v)
  BY <1>0 DEF AccessLevel
<1>5. /\ LinesBack(c, t, addr, v) = {} /\ BackCount(c, t, addr, v) = 0
      /\ MissCount(c, t, addr) = 1
  BY DEF LinesBack, MissCount, BackCount
<1>6. DirtyLines(c, l1.t) = DirtyLines(c, t) \union Marked(c, addr, store)
  BY <1>0, <1>1, <1>2, <1>4, <1>5, DirtyLinesAfter
<1>7. LevelInv("l2", l2) /\ ReadsBelow(Level("l2"), l2, block, size, w)
  BY <1>0, <1>1, <1>2, ReadBelow
<1>8. /\ DirtyLines("l2", l2.t) = DirtyLines("l2", below) \ written
      /\ l2.s["read_accesses"] = stats["l2"]["read_accesses"] + 1
      /\ l2.s["bytes_read"] = stats["l2"]["bytes_read"] + size
      /\ l2.s["write_accesses"] = stats["l2"]["write_accesses"]
  BY <1>0, <1>7 DEF ReadsBelow
<1>9. /\ MissesOf(l1.s) = MissesOf(stats[c]) + 1
      /\ l1.s["writebacks"] = stats[c]["writebacks"] + 0
  BY <1>0, <1>1, <1>5, CountersAfter
<1>10. /\ l2.s["bytes_read"] = stats["l2"]["bytes_read"] + 1 * size
       /\ l2.s["write_accesses"] = stats["l2"]["write_accesses"] + 0
  <2>1. 1 * size = size /\ stats["l2"]["write_accesses"] \in Nat
    BY <1>1 DEF Counter
  <2>2. stats["l2"]["write_accesses"] + 0 = stats["l2"]["write_accesses"]
    BY <2>1
  <2> QED
    BY <1>8, <2>1, <2>2
<1> HIDE DEF l1, l2, t, below, written
<1>11. Step(c, addr, store, l1, l2, {}, written)
  BY <1>3, <1>6, <1>7, <1>8, <1>9, <1>10, NothingCovered DEF Step, DirtyAt, t, below
<1> QED
  BY <1>11 DEF l1, l2, written

LEMMA DirtyMissStep ==
  ASSUME IInv, NEW c \in {"ic", "dc"}, NEW addr \in Addresses, NEW store \in BOOLEAN,
         Misses(c, tags[c], addr), NEW v \in Victims(c, tags[c], addr),
         WritesBack(c, tags[c], addr, v),
         NEW block, block = BlockAddress(c, addr),
         NEW dirty_addr, dirty_addr = LineAddress(c, tags[c][v].line),
         NEW u \in Victims("l2", tags["l2"], dirty_addr),
         NEW mid, mid = AccessLevel("l2", Level("l2"), dirty_addr, Config[c].linesz, TRUE, u),
         NEW w \in Victims("l2", mid.t, block)
  PROVE  Step(c, addr, store, AccessLevel(c, Level(c), addr, Bytes, store, v),
              AccessLevel("l2", mid, block, Config[c].linesz, FALSE, w),
              {tags[c][v].line},
              WrittenLine(Level("l2"), dirty_addr, u) \union WrittenLine(mid, block, w))
<1> DEFINE t == tags[c]
           below == tags["l2"]
           size == Config[c].linesz
           l1 == AccessLevel(c, Level(c), addr, Bytes, store, v)
           l2 == AccessLevel("l2", mid, block, size, FALSE, w)
           first == WrittenLine(Level("l2"), dirty_addr, u)
           second == WrittenLine(mid, block, w)
           back == {t[v].line}
<1>0. /\ c \in Cache /\ "l2" \in Cache /\ Bytes \in Nat
      /\ Line(c, addr) \in LineOf(c) /\ Line("l2", block) \in LineOf("l2")
      /\ LevelInv(c, Level(c)) /\ LevelInv("l2", Level("l2"))
      /\ Level(c).t = t /\ Level(c).s = stats[c] /\ Level("l2").t = below /\ Level("l2").s = stats["l2"]
  BY ConfigAssumption, LinesBelow DEF Cache, IInv, LevelsInv, Level
<1>1. /\ t \in Tags(c) /\ OneWay(c, t) /\ stats[c] \in [Counter -> Nat]
      /\ below \in Tags("l2") /\ OneWay("l2", below) /\ stats["l2"] \in [Counter -> Nat]
      /\ size \in Nat
  BY <1>0, Sizes DEF LevelInv
<1>2. Takes(c, addr, v) /\ Takes("l2", dirty_addr, u) /\ Takes("l2", block, w)
  BY VictimTaken
<1>3. t[v].line \in LineOf(c)
  <2>1. v \in Way(c)
    BY <1>2 DEF Takes
  <2> QED
    BY <1>1, <2>1 DEF Tags, Tag, LineOf
<1>4. Line("l2", dirty_addr) \in LineOf("l2")
  BY <1>0, <1>3, VictimLineBelow
<1>5. LevelInv(c, l1)
  BY <1>0, <1>1, <1>2, LevelInvAfter
<1>6. l1.t = TagsAfter(c, t, addr, store, v)
  BY <1>0 DEF AccessLevel
<1>7. /\ LinesBack(c, t, addr, v) = back /\ BackCount(c, t, addr, v) = 1
      /\ MissCount(c, t, addr) = 1
  BY DEF LinesBack, MissCount, BackCount
<1>8. /\ DirtyLines(c, l1.t) = (DirtyLines(c, t) \ back) \union Marked(c, addr, store)
      /\ back \subseteq DirtyLines(c, t)
  BY <1>0, <1>1, <1>2, <1>6, <1>7, DirtyLinesAfter
<1>9. LevelInv("l2", mid) /\ WritesBelow(Level("l2"), mid, dirty_addr, u)
  BY <1>0, <1>1, <1>2, <1>4, WriteBelow
<1>10. LevelInv("l2", l2) /\ ReadsBelow(mid, l2, block, size, w)
  BY <1>0, <1>1, <1>2, <1>9, ReadBelow
<1>11. /\ DirtyLines("l2", mid.t) = (DirtyLines("l2", below) \union {Line("l2", dirty_addr)}) \ first
       /\ mid.s["read_accesses"] = stats["l2"]["read_accesses"]
       /\ mid.s["bytes_read"] = stats["l2"]["bytes_read"]
       /\ mid.s["write_accesses"] = stats["l2"]["write_accesses"] + 1
  BY <1>0, <1>9 DEF WritesBelow
<1>12. /\ DirtyLines("l2", l2.t) = DirtyLines("l2", mid.t) \ second
       /\ l2.s["read_accesses"] = mid.s["read_accesses"] + 1
       /\ l2.s["bytes_read"] = mid.s["bytes_read"] + size
       /\ l2.s["write_accesses"] = mid.s["write_accesses"]
  BY <1>10 DEF ReadsBelow
<1>13. CoveredBelow(c, back) = {Line("l2", dirty_addr)}
  BY DEF CoveredBelow
<1>14. DirtyLines("l2", l2.t)
         = (DirtyLines("l2", below) \union CoveredBelow(c, back))
             \ (first \union second)
  <2> HIDE DEF l2, first, second, back, below
  <2> QED
    BY <1>11, <1>12, <1>13
<1>15. /\ MissesOf(l1.s) = MissesOf(stats[c]) + 1
       /\ l1.s["writebacks"] = stats[c]["writebacks"] + 1
  BY <1>0, <1>1, <1>7, CountersAfter
<1>16. /\ l2.s["read_accesses"] = stats["l2"]["read_accesses"] + 1
       /\ l2.s["bytes_read"] = stats["l2"]["bytes_read"] + 1 * size
       /\ l2.s["write_accesses"] = stats["l2"]["write_accesses"] + 1
  <2>1. 1 * size = size
    BY <1>1
  <2> QED
    BY <1>11, <1>12, <2>1
<1> HIDE DEF l1, l2, t, below, first, second, back
<1>17. Step(c, addr, store, l1, l2, back, first \union second)
  BY <1>5, <1>8, <1>10, <1>14, <1>15, <1>16 DEF Step, DirtyAt, t, below
<1> QED
  BY <1>17 DEF l1, l2, first, second, back, t

-----------------------------------------------------------------------------
(* A step of the hierarchy                                                 *)

(* The lines that unsaved' keeps account for the dirty ones: those of the  *)
(* data cache that were dirty before or are stored to, and those below     *)
(* that are not written to memory.                                         *)
KeptUnsaved(addr, store, dc1, written) ==
  {a \in unsaved \union Stored(addr, store) :
     Line("l2", a) \in written => Line("dc", a) \in dc1}

Accounted(dc1, l21, un) ==
  /\ un \subseteq Addresses
  /\ \A a \in un : Line("dc", a) \in dc1 \/ Line("l2", a) \in l21
  /\ \A l \in dc1 : \E a \in un : Line("dc", a) = l
  /\ \A l \in l21 : \E a \in un : Line("l2", a) = l

LEMMA UnsavedAfter ==
  ASSUME IInv, NEW addr \in Addresses, NEW store \in BOOLEAN,
         NEW dc1, NEW l21, NEW back, NEW written,
         dc1 = (DirtyAt("dc") \ back) \union Marked("dc", addr, store),
         back \subseteq DirtyAt("dc"),
         l21 = (DirtyAt("l2") \union CoveredBelow("dc", back)) \ written,
         NEW un, un = KeptUnsaved(addr, store, dc1, written)
  PROVE  Accounted(dc1, l21, un)
<1>0. un = {a \in unsaved \union Stored(addr, store) :
              Line("l2", a) \in written => Line("dc", a) \in dc1}
  BY DEF KeptUnsaved
<1>1. /\ Marked("dc", addr, store) = IF store THEN {Line("dc", addr)} ELSE {}
      /\ Stored(addr, store) = IF store THEN {addr} ELSE {}
  BY DEF Marked, Stored
<1>2. /\ unsaved \subseteq Addresses /\ Addresses \subseteq Nat
      /\ \A a \in unsaved : Line("dc", a) \in DirtyAt("dc") \/ Line("l2", a) \in DirtyAt("l2")
      /\ \A l \in DirtyAt("dc") : \E a \in unsaved : Line("dc", a) = l
      /\ \A l \in DirtyAt("l2") : \E a \in unsaved : Line("l2", a) = l
  BY ConfigAssumption DEF IInv, UnsavedInv
<1>3. \A a \in Addresses : Line("l2", LineAddress("dc", Line("dc", a))) = Line("l2", a)
  BY <1>2, SameLineBelow DEF Cache
<1>4. \A a \in Stored(addr, store) : a \in un /\ Line("dc", a) \in dc1
  BY <1>0, <1>1
<1>5. un \subseteq Addresses
  <2>1. un \subseteq unsaved \union Stored(addr, store) /\ Stored(addr, store) \subseteq {addr}
    BY <1>0, <1>1
  <2> QED
    BY <1>2, <2>1
<1>6. ASSUME NEW a \in un
      PROVE  Line("dc", a) \in dc1 \/ Line("l2", a) \in l21
  <2>1. CASE a \in Stored(addr, store)
    BY <1>4, <2>1
  <2>2. CASE a \in unsaved /\ Line("l2", a) \in written
    BY <1>0, <1>6, <2>2
  <2>3. CASE a \in unsaved /\ Line("l2", a) \notin written
    <3>1. CASE Line("dc", a) \in DirtyAt("dc") \ back
      BY <3>1
    <3>2. CASE Line("dc", a) \in back
      <4>1. Line("l2", a) \in CoveredBelow("dc", back)
        BY <1>2, <1>3, <2>3, <3>2 DEF CoveredBelow
      <4> QED
        BY <2>3, <4>1
    <3>3. CASE Line("l2", a) \in DirtyAt("l2")
      BY <2>3, <3>3
    <3> QED
      BY <1>2, <2>3, <3>1, <3>2, <3>3
  <2> QED
    BY <1>0, <1>6, <2>1, <2>2, <2>3
<1>7. ASSUME NEW l \in dc1
      PROVE  \E a \in un : Line("dc", a) = l
  <2>1. CASE l \in DirtyAt("dc")
    <3>1. PICK a \in unsaved : Line("dc", a) = l
      BY <1>2, <2>1
    <3> QED
      BY <1>0, <1>7, <3>1
  <2>2. CASE l \in Marked("dc", addr, store)
    <3>1. store /\ l = Line("dc", addr)
      BY <1>1, <2>2
    <3>2. addr \in Stored(addr, store)
      BY <1>1, <3>1
    <3> QED
      BY <1>4, <3>1, <3>2
  <2> QED
    BY <1>7, <2>1, <2>2
<1>8. ASSUME NEW l \in l21
      PROVE  \E a \in un : Line("l2", a) = l
  <2>1. PICK a \in unsaved : Line("l2", a) = l
    <3>1. CASE l \in DirtyAt("l2")
      BY <1>2, <3>1
    <3>2. CASE l \in CoveredBelow("dc", back)
      <4>1. PICK k \in back : l = Line("l2", LineAddress("dc", k))
        BY <3>2 DEF CoveredBelow
      <4>2. PICK a \in unsaved : Line("dc", a) = k
        BY <1>2, <4>1
      <4> QED
        BY <1>2, <1>3, <4>1, <4>2
    <3> QED
      BY <1>8, <3>1, <3>2
  <2> QED
    BY <1>0, <1>8, <2>1
<1> QED
  BY <1>5, <1>6, <1>7, <1>8 DEF Accounted

LEMMA TimesPlus ==
  ASSUME NEW x \in Nat, NEW y \in Nat, NEW n \in Nat
  PROVE  (x + y) * n = x * n + y * n
  OBVIOUS

(* Whatever a step asks of the level below, the invariant survives it.     *)
LEMMA SettleKeeps ==
  ASSUME IInv, NEW c \in {"ic", "dc"}, NEW addr \in Addresses, NEW store \in BOOLEAN,
         c = "ic" => ~store,
         NEW l1, NEW l2, NEW back, NEW written,
         Step(c, addr, store, l1, l2, back, written),
         Settle(c, l1, l2, Stored(addr, store), written)
  PROVE  IInv'
<1>0. c \in Cache /\ "l2" \in Cache /\ "ic" \in Cache /\ "dc" \in Cache /\ c # "l2"
  BY DEF Cache
<1>1. /\ tags' = [tags EXCEPT ![c] = l1.t, !["l2"] = l2.t]
      /\ stats' = [stats EXCEPT ![c] = l1.s, !["l2"] = l2.s]
  BY DEF Settle
<1>2. DOMAIN tags = Cache /\ stats = [d \in Cache |-> stats[d]]
  BY DEF IInv
<1>3. /\ DOMAIN tags' = Cache /\ DOMAIN stats' = Cache
      /\ stats' = [d \in Cache |-> stats'[d]]
  BY <1>1, <1>2
<1>4. /\ tags'[c] = l1.t /\ tags'["l2"] = l2.t
      /\ stats'[c] = l1.s /\ stats'["l2"] = l2.s
      /\ \A d \in Cache \ {c, "l2"} : tags'[d] = tags[d] /\ stats'[d] = stats[d]
  BY <1>0, <1>1, <1>2
<1>5. LevelsInv'
  <2>1. ASSUME NEW d \in Cache
        PROVE  LevelInv(d, Level(d)')
    <3>1. CASE d = c
      BY <1>4, <3>1 DEF Step, LevelInv, Level
    <3>2. CASE d = "l2"
      BY <1>4, <3>2 DEF Step, LevelInv, Level
    <3>3. CASE d \notin {c, "l2"}
      <4>1. LevelInv(d, Level(d))
        BY DEF IInv, LevelsInv
      <4> QED
        BY <1>4, <3>3, <4>1 DEF LevelInv, Level
    <3> QED
      BY <3>1, <3>2, <3>3
  <2> QED
    BY <2>1 DEF LevelsInv
<1>6. PICK m \in Nat, b \in Nat :
        /\ MissesOf(l1.s) = MissesOf(stats[c]) + m
        /\ l1.s["writebacks"] = stats[c]["writebacks"] + b
        /\ l2.s["read_accesses"] = stats["l2"]["read_accesses"] + m
        /\ l2.s["bytes_read"] = stats["l2"]["bytes_read"] + m * Config[c].linesz
        /\ l2.s["write_accesses"] = stats["l2"]["write_accesses"] + b
  BY DEF Step
<1>7. \A d \in Cache : MissesOf(stats[d]) \in Nat /\ stats[d]["writebacks"] \in Nat
  BY DEF IInv, LevelsInv, LevelInv, Level, MissesOf, Counter
<1>8. AskedInv'
  <2>1. PICK o \in {"ic", "dc"} : o # c
    OBVIOUS
  <2>2. /\ stats["l2"]["read_accesses"] = MissesOf(stats[c]) + MissesOf(stats[o])
        /\ stats["l2"]["write_accesses"] = stats[c]["writebacks"] + stats[o]["writebacks"]
        /\ stats["l2"]["bytes_read"] = MissesOf(stats[c]) * Config[c].linesz
                                         + MissesOf(stats[o]) * Config[o].linesz
    BY <1>0, <1>7, <2>1, Sizes DEF IInv, AskedInv
  <2>3. stats'[o] = stats[o] /\ o \in Cache
    BY <1>0, <1>4, <2>1 DEF Cache
  <2>4. MissesOf(stats'[c]) * Config[c].linesz
          = MissesOf(stats[c]) * Config[c].linesz + m * Config[c].linesz
    BY <1>0, <1>4, <1>6, <1>7, Sizes, TimesPlus
  <2>5. /\ stats'["l2"]["read_accesses"] = MissesOf(stats'[c]) + MissesOf(stats'[o])
        /\ stats'["l2"]["write_accesses"] = stats'[c]["writebacks"] + stats'[o]["writebacks"]
    BY <1>0, <1>4, <1>6, <1>7, <2>2, <2>3
  <2>6. stats'["l2"]["bytes_read"] = MissesOf(stats'[c]) * Config[c].linesz
                                       + MissesOf(stats'[o]) * Config[o].linesz
    <3>1. /\ MissesOf(stats[c]) * Config[c].linesz \in Nat
          /\ MissesOf(stats[o]) * Config[o].linesz \in Nat
          /\ m * Config[c].linesz \in Nat
      BY <1>0, <1>6, <1>7, <2>3, Sizes
    <3> QED
      BY <1>4, <1>6, <2>2, <2>3, <2>4, <3>1
  <2>7. /\ MissesOf(stats'[c]) \in Nat /\ MissesOf(stats'[o]) \in Nat
        /\ stats'[c]["writebacks"] \in Nat /\ stats'[o]["writebacks"] \in Nat
        /\ MissesOf(stats'[c]) * Config[c].linesz \in Nat
        /\ MissesOf(stats'[o]) * Config[o].linesz \in Nat
    BY <1>0, <1>4, <1>6, <1>7, <2>3, Sizes
  <2> QED
    BY <2>1, <2>5, <2>6, <2>7 DEF AskedInv
<1>9. unsaved' = KeptUnsaved(addr, store, DirtyAt("dc")', written)
  <2>1. OneWay("dc", tags'["dc"])
    BY <1>0, <1>5 DEF LevelsInv, LevelInv, Level
  <2>2. \A a : DirtyIn("dc", tags'["dc"], a) <=> Line("dc", a) \in DirtyAt("dc")'
    BY <1>0, <2>1, DirtyInLines DEF DirtyAt
  <2> QED
    BY <2>2 DEF Settle, KeptUnsaved
<1>10. /\ DirtyAt(c)' = (DirtyAt(c) \ back) \union Marked(c, addr, store)
       /\ back \subseteq DirtyAt(c)
       /\ DirtyAt("l2")'
            = (DirtyAt("l2") \union CoveredBelow(c, back)) \ written
  BY <1>4 DEF Step, DirtyAt
<1>11. CASE c = "dc"
  <2>1. DirtyAt("ic")' = {}
    BY <1>0, <1>4, <1>11 DEF DirtyAt, IInv, UnsavedInv
  <2>2. Accounted(DirtyAt("dc")', DirtyAt("l2")', unsaved')
    <3>1. PICK dc1, l21, un : dc1 = DirtyAt("dc")' /\ l21 = DirtyAt("l2")' /\ un = unsaved'
      OBVIOUS
    <3>2. Accounted(dc1, l21, un)
      BY <1>9, <1>10, <1>11, <3>1, UnsavedAfter
    <3> QED
      BY <3>1, <3>2
  <2>3. UnsavedInv'
    BY <2>1, <2>2 DEF UnsavedInv, Accounted
  <2> QED
    BY <1>3, <1>5, <1>8, <2>2, <2>3 DEF IInv, Accounted
<1>12. CASE c = "ic"
  <2>1. DirtyAt("ic") = {}
    BY DEF IInv, UnsavedInv
  <2>2. Marked("ic", addr, store) = {} /\ ~store
    BY <1>12 DEF Marked
  <2>3. DirtyAt("ic")' = {} /\ back = {}
    BY <1>10, <1>12, <2>1, <2>2
  <2>4. DirtyAt("dc")' = DirtyAt("dc")
    BY <1>0, <1>4, <1>12 DEF DirtyAt
  <2>5. DirtyAt("dc")' = (DirtyAt("dc") \ {}) \union Marked("dc", addr, store)
    BY <2>2, <2>4 DEF Marked
  <2>6. DirtyAt("l2")'
          = (DirtyAt("l2") \union CoveredBelow("dc", {})) \ written
    BY <1>10, <2>3, NothingCovered
  <2>7. Accounted(DirtyAt("dc")', DirtyAt("l2")', unsaved')
    <3>1. PICK dc1, l21, un : dc1 = DirtyAt("dc")' /\ l21 = DirtyAt("l2")' /\ un = unsaved'
      OBVIOUS
    <3>2. {} \subseteq DirtyAt("dc")
      OBVIOUS
    <3>3. Accounted(dc1, l21, un)
      BY <1>9, <2>5, <2>6, <3>1, <3>2, UnsavedAfter
    <3> QED
      BY <3>1, <3>3
  <2>8. UnsavedInv'
    BY <2>3, <2>7 DEF UnsavedInv, Accounted
  <2> QED
    BY <1>3, <1>5, <1>8, <2>7, <2>8 DEF IInv, Accounted
<1> QED
  BY <1>11, <1>12

LEMMA HitKeeps ==
  ASSUME IInv, NEW c \in {"ic", "dc"}, NEW addr \in Addresses, NEW store \in BOOLEAN,
         c = "ic" => ~store, Hit(c, addr, store)
  PROVE  IInv'
<1>1. ~Misses(c, tags[c], addr)
  BY DEF Hit
<1>2. PICK w \in Hits(c, tags[c], addr) :
        Settle(c, AccessLevel(c, Level(c), addr, Bytes, store, w), Level("l2"),
               Stored(addr, store), {})
  BY DEF Hit
<1>3. Step(c, addr, store, AccessLevel(c, Level(c), addr, Bytes, store, w), Level("l2"), {}, {})
  BY <1>1, HitStep
<1> QED
  BY <1>2, <1>3, SettleKeeps

LEMMA MissKeeps ==
  ASSUME IInv, NEW c \in {"ic", "dc"}, NEW addr \in Addresses, NEW store \in BOOLEAN,
         c = "ic" => ~store, Miss(c, addr, store)
  PROVE  IInv'
<1> DEFINE block == BlockAddress(c, addr)
           size == Config[c].linesz
           l1(v) == AccessLevel(c, Level(c), addr, Bytes, store, v)
           dirty_addr(v) == LineAddress(c, tags[c][v].line)
           mid(v, u) == AccessLevel("l2", Level("l2"), dirty_addr(v), size, TRUE, u)
<1>1. Misses(c, tags[c], addr)
  BY DEF Miss
<1>2. PICK v \in Victims(c, tags[c], addr) :
        \/ /\ ~WritesBack(c, tags[c], addr, v)
           /\ \E w \in Victims("l2", tags["l2"], block) :
                Settle(c, l1(v), AccessLevel("l2", Level("l2"), block, size, FALSE, w),
                       Stored(addr, store), WrittenLine(Level("l2"), block, w))
        \/ /\ WritesBack(c, tags[c], addr, v)
           /\ \E u \in Victims("l2", tags["l2"], dirty_addr(v)) :
                \E w \in Victims("l2", mid(v, u).t, block) :
                  Settle(c, l1(v), AccessLevel("l2", mid(v, u), block, size, FALSE, w),
                         Stored(addr, store),
                         WrittenLine(Level("l2"), dirty_addr(v), u)
                           \union WrittenLine(mid(v, u), block, w))
  BY DEF Miss
<1>3. CASE ~WritesBack(c, tags[c], addr, v)
  <2>1. PICK w \in Victims("l2", tags["l2"], block) :
          Settle(c, l1(v), AccessLevel("l2", Level("l2"), block, size, FALSE, w),
                 Stored(addr, store), WrittenLine(Level("l2"), block, w))
    BY <1>2, <1>3
  <2>2. Step(c, addr, store, l1(v), AccessLevel("l2", Level("l2"), block, size, FALSE, w),
             {}, WrittenLine(Level("l2"), block, w))
    BY <1>1, <1>3, CleanMissStep
  <2> HIDE DEF l1, block, size
  <2> QED
    BY <2>1, <2>2, SettleKeeps
<1>4. CASE WritesBack(c, tags[c], addr, v)
  <2>1. PICK u \in Victims("l2", tags["l2"], dirty_addr(v)) :
          \E w \in Victims("l2", mid(v, u).t, block) :
            Settle(c, l1(v), AccessLevel("l2", mid(v, u), block, size, FALSE, w),
                   Stored(addr, store),
                   WrittenLine(Level("l2"), dirty_addr(v), u) \union WrittenLine(mid(v, u), block, w))
    BY <1>2, <1>4
  <2>2. PICK w \in Victims("l2", mid(v, u).t, block) :
          Settle(c, l1(v), AccessLevel("l2", mid(v, u), block, size, FALSE, w),
                 Stored(addr, store),
                 WrittenLine(Level("l2"), dirty_addr(v), u) \union WrittenLine(mid(v, u), block, w))
    BY <2>1
  <2>3. Step(c, addr, store, l1(v), AccessLevel("l2", mid(v, u), block, size, FALSE, w),
             {tags[c][v].line},
             WrittenLine(Level("l2"), dirty_addr(v), u) \union WrittenLine(mid(v, u), block, w))
    BY <1>1, <1>4, DirtyMissStep
  <2> HIDE DEF l1, block, size, dirty_addr, mid
  <2> QED
    BY <2>2, <2>3, SettleKeeps
<1> QED
  BY <1>3, <1>4

LEMMA InitInv == Init => IInv
<1> SUFFICES ASSUME Init PROVE IInv
  OBVIOUS
<1>1. /\ tags = [c \in Cache |-> [w \in Way(c) |-> Empty]]
      /\ stats = [c \in Cache |-> [k \in Counter |-> 0]]
      /\ unsaved = {}
  BY DEF Init
<1>2. ASSUME NEW c \in Cache
      PROVE  /\ LevelInv(c, Level(c)) /\ DirtyAt(c) = {}
             /\ MissesOf(stats[c]) = 0 /\ \A k \in Counter : stats[c][k] = 0
  <2>1. tags[c] = [w \in Way(c) |-> Empty] /\ stats[c] = [k \in Counter |-> 0]
    BY <1>1
  <2>2. Empty \in Tag(c)
    <3>1. LineSize[c] \in Nat \ {0}
      BY LinesAreTwoBlocks
    <3>2. Line(c, 0) = 0
      BY <3>1 DEF Line
    <3> QED
      BY <3>2 DEF Empty, Tag
  <2>3. tags[c] \in Tags(c)
    BY <2>1, <2>2 DEF Tags
  <2>4. \A w \in Way(c) : ~tags[c][w].valid
    BY <2>1 DEF Empty
  <2>5. Present(c, tags[c]) = {} /\ Dirty(c, tags[c]) = {} /\ DirtyAt(c) = {}
    BY <2>4 DEF Present, Dirty, DirtyAt, DirtyLines
  <2>6. Cardinality(Present(c, tags[c])) = 0 /\ Cardinality(Dirty(c, tags[c])) = 0
    BY <2>5, FS_EmptySet
  <2>7. \A k \in Counter : stats[c][k] = 0
    BY <2>1
  <2>8. /\ stats[c]["read_misses"] = 0 /\ stats[c]["write_misses"] = 0
        /\ stats[c]["writebacks"] = 0 /\ stats[c]["write_accesses"] = 0
    BY <2>7 DEF Counter
  <2>9. MissesOf(stats[c]) = 0
    BY <2>8 DEF MissesOf
  <2>10. stats[c] \in [Counter -> Nat]
    BY <2>1
  <2>11. OneWay(c, tags[c])
    BY <2>4 DEF OneWay
  <2>12. /\ Cardinality(Present(c, tags[c])) <= MissesOf(stats[c])
         /\ Cardinality(Dirty(c, tags[c])) + stats[c]["writebacks"] <= stats[c]["write_accesses"]
    BY <2>6, <2>8, <2>9
  <2>13. LevelInv(c, Level(c))
    BY <2>3, <2>10, <2>11, <2>12 DEF LevelInv, Level
  <2> QED
    BY <2>5, <2>7, <2>9, <2>13
<1>3. LevelsInv
  BY <1>2 DEF LevelsInv
<1>4. AskedInv
  <2>1. /\ MissesOf(stats["ic"]) = 0 /\ MissesOf(stats["dc"]) = 0
        /\ stats["l2"]["read_accesses"] = 0 /\ stats["l2"]["write_accesses"] = 0
        /\ stats["l2"]["bytes_read"] = 0
        /\ stats["ic"]["writebacks"] = 0 /\ stats["dc"]["writebacks"] = 0
    BY <1>2 DEF Cache, Counter
  <2>2. 0 * Config["ic"].linesz = 0 /\ 0 * Config["dc"].linesz = 0
    BY Sizes DEF Cache
  <2> QED
    BY <2>1, <2>2 DEF AskedInv
<1>5. UnsavedInv
  BY <1>1, <1>2 DEF UnsavedInv, Cache
<1> QED
  BY <1>1, <1>3, <1>4, <1>5 DEF IInv

LEMMA NextKeeps == IInv /\ [Next]_vars => IInv'
<1> SUFFICES ASSUME IInv, [Next]_vars PROVE IInv'
  OBVIOUS
<1>1. CASE UNCHANGED vars
  BY <1>1 DEF vars, IInv, LevelsInv, LevelInv, Level, AskedInv, UnsavedInv, DirtyAt
<1>2. ASSUME NEW addr \in Addresses, NEW store \in BOOLEAN, NEW fetch \in BOOLEAN,
             Trace(addr, store, fetch)
      PROVE  IInv'
  <2>1. PICK c \in {"ic", "dc"} : (c = "ic" => ~store) /\ Access(c, addr, store)
    BY <1>2 DEF Trace
  <2> QED
    BY <2>1, HitKeeps, MissKeeps DEF Access
<1>3. CASE Ended
  BY <1>1, <1>3 DEF Ended
<1> QED
  BY <1>1, <1>2, <1>3 DEF Next

(* The inductive invariant of the hierarchy.                               *)
THEOREM Invariance == Spec => []IInv
  BY InitInv, NextKeeps, PTL DEF Spec

(* The tags hold lines of the traced addresses only, whatever blocks and   *)
(* victims one level asks the next for; the counters only grow upwards     *)
(* from 0.                                                                 *)
THEOREM TypeCorrect == Spec => []TypeOK
<1>1. IInv => TypeOK
  <2> SUFFICES ASSUME IInv PROVE TypeOK
    OBVIOUS
  <2>1. \A c \in Cache : tags[c] \in [Way(c) -> Tag(c)] /\ stats[c] \in [Counter -> Nat]
    BY DEF IInv, LevelsInv, LevelInv, Level, Tags
  <2>2. stats \in [Cache -> [Counter -> Nat]]
    BY <2>1 DEF IInv
  <2> QED
    BY <2>1, <2>2 DEF IInv, TypeOK
<1> QED
  BY <1>1, Invariance, PTL

(* check_tag finds a line that is present, and finds it once.              *)
THEOREM LinesAreFoundOnce == Spec => []OneWayPerLine
<1>1. IInv => OneWayPerLine
  BY DEF IInv, LevelsInv, LevelInv, Level, OneWay, OneWayPerLine
<1> QED
  BY <1>1, Invariance, PTL

(* However the levels evict, no store is lost on its way to memory and     *)
(* none is written twice.                                                  *)
THEOREM StoresReachMemoryOnce == Spec => []DirtyIffUnsaved
<1>1. IInv => DirtyIffUnsaved
  <2> SUFFICES ASSUME IInv PROVE DirtyIffUnsaved
    OBVIOUS
  <2>1. UnsavedInv /\ \A c \in Cache : OneWay(c, tags[c])
    BY DEF IInv, LevelsInv, LevelInv, Level
  <2>2. \A c \in {"dc", "l2"} : \A a : DirtyIn(c, tags[c], a) <=> Line(c, a) \in DirtyAt(c)
    BY <2>1, DirtyInLines DEF DirtyAt, Cache
  <2>3. \A a \in unsaved : \E c \in {"dc", "l2"} : DirtyIn(c, tags[c], a)
    BY <2>1, <2>2 DEF UnsavedInv
  <2>4. ASSUME NEW c \in Cache, NEW w \in Way(c), tags[c][w].valid, tags[c][w].dirty
        PROVE  \E a \in unsaved : Line(c, a) = tags[c][w].line
    <3>1. tags[c][w].line \in DirtyAt(c)
      BY <2>4 DEF DirtyAt, DirtyLines, Dirty, Present
    <3>2. c \in {"dc", "l2"}
      BY <2>1, <3>1 DEF UnsavedInv, Cache
    <3> QED
      BY <2>1, <3>1, <3>2 DEF UnsavedInv
  <2> QED
    BY <2>3, <2>4 DEF DirtyIffUnsaved
<1> QED
  BY <1>1, Invariance, PTL

(* What a level reports as misses and write-backs is what the next level   *)
(* has been asked, in numbers and in bytes; it reports no write-back       *)
(* without a store and holds no line without a miss.                       *)
THEOREM CountsAgree == Spec => []StatisticsAgree
<1>1. IInv => StatisticsAgree
  BY DEF IInv, LevelsInv, LevelInv, Level, AskedInv, MissesOf, StatisticsAgree
<1> QED
  BY <1>1, Invariance, PTL
=============================================================================
