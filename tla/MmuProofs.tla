------------------------------ MODULE MmuProofs ------------------------------
(***************************************************************************)
(* Proofs about Mmu, for any number of pages, page tables, TLB and         *)
(* instruction cache entries and any tracers.                              *)
(*                                                                         *)
(* MmuTypeCorrect holds for both users of the class. TlbTransparent,       *)
(* ICacheTransparent and Refinement are about the functional simulator:    *)
(* run mmu_dpi shows the DPI breaking the first of them.                   *)
(***************************************************************************)
EXTENDS Mmu, TLAPS

(* What an entry can serve lies in memory, whoever changed the mode.       *)
FrameInv ==
  /\ \A v \in Vpn, k \in Kind : Hit(v, k) => tlb[TlbIndex(v)].data + v \in Ppn
  /\ \A v \in Vpn : ICacheHit(v) => icache[ICacheIndex(v)].data \in Word

(* The present table and memory are among what the history allows.         *)
HistoryInv ==
  /\ \A v \in Vpn : table[v] \in views[v]
  /\ \A p \in Ppn : mem[p] \in code[p]

IInv ==
  /\ TypeOK
  /\ FrameInv
  /\ HistoryInv
  /\ Port = "isa" => TranslationsCurrent /\ InstructionsCurrent

-----------------------------------------------------------------------------
(* The remainder of a page number is an index.                             *)
LEMMA IndexInRange ==
  \A v \in Vpn : /\ TlbIndex(v) \in 0 .. (TLB_ENTRIES - 1)
                 /\ ICacheIndex(v) \in 0 .. (ICACHE_ENTRIES - 1)
<1>1. SUFFICES ASSUME NEW v \in Int, NEW n \in Nat \ {0}
               PROVE  v % n \in 0 .. (n - 1)
  BY <1>1, PageTableAssumption, MmuAssumption DEF Vpn, TlbIndex, ICacheIndex
<1> QED
  BY SMT

(* No tag is a page number.                                                *)
LEMMA NoTagIsNoPage == NoTag \notin Vpn
BY PageTableAssumption DEF NoTag, Vpn

(* What a walk returns is a leaf, and grants nothing outside memory.       *)
LEMMA WalkEffect ==
  ASSUME NEW s \in Status, NEW v \in Vpn, NEW pte \in Pte
  PROVE  /\ Walk(s, v, pte) \in Leaf
         /\ Permissions(s, Walk(s, v, pte)) \in SUBSET Kind
         /\ \A k \in Permissions(s, Walk(s, v, pte)) : Walk(s, v, pte).ppn \in Ppn
<1>1. pte \in Leaf /\ Ppn \subseteq Nat
  BY PageTableAssumption DEF Ppn
<1>2. BarePte(v) \in Leaf /\ (BarePte(v).valid => BarePte(v).ppn \in Ppn)
  BY <1>1 DEF BarePte, NoPte, Leaf, Ppn
<1>3. NoPte \in Leaf /\ ~NoPte.valid
  BY DEF NoPte, Leaf
<1>4. /\ Walk(s, v, pte) \in Leaf
      /\ Walk(s, v, pte).valid => Walk(s, v, pte).ppn \in Ppn
  BY <1>1, <1>2, <1>3 DEF Walk
<1> QED
  BY <1>4 DEF Permissions, Leaf

-----------------------------------------------------------------------------
(* What the operations do to the caches.                                   *)

TlbType == [0 .. (TLB_ENTRIES - 1) -> [tag : [Kind -> Vpn \union {NoTag}], data : Int]]

ICacheType == [0 .. (ICACHE_ENTRIES - 1) ->
                 [tag : Vpn \union {NoTag}, data : Word \union {Unwritten}]]

LEMMA FlushICacheEffect ==
  ASSUME icache \in ICacheType, FlushICache
  PROVE  icache' \in ICacheType /\ \A v \in Vpn : ~ICacheHit(v)'
BY IndexInRange, NoTagIsNoPage DEF FlushICache, ICacheType, ICacheHit, ICacheIndex

LEMMA FlushTlbEffect ==
  ASSUME tlb \in TlbType, icache \in ICacheType, FlushTlb
  PROVE  /\ tlb' \in TlbType
         /\ icache' \in ICacheType
         /\ \A v \in Vpn, k \in Kind : ~Hit(v, k)'
         /\ \A v \in Vpn : ~ICacheHit(v)'
<1>1. /\ tlb' \in TlbType
      /\ \A v \in Vpn, k \in Kind : ~Hit(v, k)'
  BY IndexInRange, NoTagIsNoPage DEF FlushTlb, TlbType, Hit, TlbIndex
<1> QED
  BY <1>1, FlushICacheEffect DEF FlushTlb

(* A successful translation leads into memory, and leaves only entries     *)
(* that were there before or that the walk of this page has made.          *)
LEMMA TranslateEffect ==
  ASSUME TypeOK, FrameInv, NEW v \in Vpn, NEW k \in Kind,
         ~Faults(v, k), tlb' = TlbAfter(v, k)
  PROVE  /\ Page(v, k) \in Ppn
         /\ tlb' \in TlbType
         /\ \A u \in Vpn, j \in Kind : Hit(u, j)' =>
              \/ Hit(u, j) /\ tlb'[TlbIndex(u)].data = tlb[TlbIndex(u)].data
              \/ /\ u = v
                 /\ j \in Permissions(sr, Translation(v))
                 /\ tlb'[TlbIndex(u)].data + v = Translation(v).ppn
<1>1. sr \in Status /\ table[v] \in Pte /\ tlb \in TlbType /\ v \in Int
  BY DEF TypeOK, TlbType, Vpn
<1>2. TlbIndex(v) \in 0 .. (TLB_ENTRIES - 1)
  BY IndexInRange
<1>3. Translation(v) \in Leaf
  BY <1>1, WalkEffect DEF Translation
<1>4. Translation(v).ppn \in Int
  BY <1>3 DEF Leaf
<1>5. CASE Hit(v, k) \/ k \in Traced
  <2>1. tlb' = tlb
    BY <1>5 DEF TlbAfter
  <2>2. Page(v, k) \in Ppn
    <3>1. CASE Hit(v, k)
      BY <3>1 DEF FrameInv, Page
    <3>2. CASE ~Hit(v, k)
      BY <3>2, <1>1, WalkEffect DEF Faults, Translation, Page
    <3> QED
      BY <3>1, <3>2
  <2> QED
    BY <2>1, <2>2, <1>1 DEF Hit
<1>6. CASE ~Hit(v, k) /\ k \notin Traced
  <2>1. tlb' = [tlb EXCEPT ![TlbIndex(v)] = Filled(v, k)]
    BY <1>6 DEF TlbAfter
  <2>2. Page(v, k) \in Ppn
    BY <1>6, <1>1, WalkEffect DEF Faults, Translation, Page
  <2>3. Filled(v, k) \in [tag : [Kind -> Vpn \union {NoTag}], data : Int]
    BY <1>1, <1>4 DEF Filled
  <2>4. Filled(v, k).data + v = Translation(v).ppn
    BY <1>1, <1>4 DEF Filled
  <2>5. tlb' \in TlbType
    BY <2>1, <2>3, <1>1 DEF TlbType
  <2>6. ASSUME NEW u \in Vpn, NEW j \in Kind, Hit(u, j)'
        PROVE  \/ Hit(u, j) /\ tlb'[TlbIndex(u)].data = tlb[TlbIndex(u)].data
               \/ /\ u = v
                  /\ j \in Permissions(sr, Translation(v))
                  /\ tlb'[TlbIndex(u)].data + v = Translation(v).ppn
    <3>1. tlb'[TlbIndex(u)].tag[j] = u
      BY <2>6 DEF Hit, TlbIndex
    <3>2. TlbIndex(u) \in 0 .. (TLB_ENTRIES - 1)
      BY IndexInRange
    <3>3. CASE TlbIndex(u) = TlbIndex(v)
      <4>1. tlb'[TlbIndex(u)] = Filled(v, k)
        BY <2>1, <3>3, <1>1, <1>2 DEF TlbType
      <4>2. Filled(v, k).tag[j] = u
        BY <4>1, <3>1
      <4>3. u = v /\ j \in Permissions(sr, Translation(v))
        BY <4>2, NoTagIsNoPage DEF Filled
      <4> QED
        BY <4>1, <4>3, <2>4
    <3>4. CASE TlbIndex(u) # TlbIndex(v)
      <4>1. tlb'[TlbIndex(u)] = tlb[TlbIndex(u)]
        BY <2>1, <3>4, <3>2, <1>1 DEF TlbType
      <4> QED
        BY <4>1, <3>1 DEF Hit
    <3> QED
      BY <3>3, <3>4
  <2> QED
    BY <2>2, <2>5, <2>6
<1> QED
  BY <1>5, <1>6

-----------------------------------------------------------------------------
(* The part of the invariant that is about the caches.                     *)
CachesInv ==
  /\ tlb \in TlbType
  /\ icache \in ICacheType
  /\ FrameInv
  /\ Port = "isa" => TranslationsCurrent /\ InstructionsCurrent

LEMMA IInvCaches == IInv => CachesInv
BY DEF IInv, CachesInv, TypeOK, TlbType, ICacheType

(* After a flush there is nothing to be said.                              *)
LEMMA FlushedCaches ==
  ASSUME CachesInv, FlushTlb
  PROVE  CachesInv'
<1>1. /\ tlb' \in TlbType
      /\ icache' \in ICacheType
      /\ \A v \in Vpn, k \in Kind : ~Hit(v, k)'
      /\ \A v \in Vpn : ~ICacheHit(v)'
  BY FlushTlbEffect DEF CachesInv
<1> QED
  BY <1>1 DEF CachesInv, FrameInv, TranslationsCurrent, InstructionsCurrent

LEMMA StatusCaches ==
  ASSUME CachesInv, NEW s, SetStatus(s)
  PROVE  CachesInv'
<1>1. CASE Port = "isa"
  BY <1>1, FlushedCaches DEF SetStatus
<1>2. CASE Port # "isa"
  BY <1>2 DEF SetStatus, KeepCaches, CachesInv, FrameInv, Hit, TlbIndex, ICacheHit,
              ICacheIndex
<1> QED
  BY <1>1, <1>2

LEMMA TrapCaches ==
  ASSUME IInv, NEW k \in Kind, NEW v \in Vpn, NEW out \in Outcome, Trap(k, v, out)
  PROVE  IInv'
<1>1. CachesInv
  BY IInvCaches
<1>2. sr' \in Status /\ answer' \in [kind : Kind, page : Vpn, out : Outcome]
  BY DEF Trap, SetStatus, Answer, IInv, TypeOK, Status
<1>3. CASE Port = "isa"
  <2>1. SetStatus([sr EXCEPT !.S = TRUE])
    BY <1>3 DEF Trap
  <2>2. CachesInv'
    BY <1>1, <2>1, StatusCaches
  <2> QED
    BY <1>2, <2>2 DEF Trap, IInv, CachesInv, TypeOK, TlbType, ICacheType, HistoryInv, history
<1>4. CASE Port # "isa"
  <2>1. UNCHANGED <<tlb, icache>>
    BY <1>4 DEF Trap, KeepCaches
  <2> QED
    BY <1>2, <1>4, <2>1 DEF Trap, IInv, TypeOK, FrameInv, HistoryInv, history, Hit, TlbIndex,
                            ICacheHit, ICacheIndex
<1> QED
  BY <1>3, <1>4

(* Where an access that does not fault goes is where a walk could go.      *)
LEMMA PageByView ==
  ASSUME IInv, Port = "isa", NEW v \in Vpn, NEW k \in Kind, ~Faults(v, k)
  PROVE  \E pte \in Translations(v) : k \in Permissions(sr, pte) /\ Page(v, k) = pte.ppn
<1>1. CASE Hit(v, k)
  BY <1>1 DEF IInv, TranslationsCurrent
<1>2. CASE ~Hit(v, k)
  <2>1. k \in Permissions(sr, Translation(v)) /\ Page(v, k) = Translation(v).ppn
    BY <1>2 DEF Faults, Page
  <2>2. Translation(v) \in Translations(v)
    BY DEF IInv, HistoryInv, Translation, Translations
  <2> QED
    BY <2>1, <2>2
<1> QED
  BY <1>1, <1>2

(* A translation keeps what the invariant says of the TLB.                 *)
LEMMA TranslateCaches ==
  ASSUME IInv, NEW v \in Vpn, NEW k \in Kind, ~Faults(v, k), tlb' = TlbAfter(v, k),
         UNCHANGED <<sr, views>>
  PROVE  /\ tlb' \in TlbType
         /\ \A u \in Vpn, j \in Kind : Hit(u, j)' => tlb'[TlbIndex(u)].data + u \in Ppn
         /\ Port = "isa" => TranslationsCurrent'
         /\ Page(v, k) \in Ppn
<1>1. /\ Page(v, k) \in Ppn
      /\ tlb' \in TlbType
      /\ \A u \in Vpn, j \in Kind : Hit(u, j)' =>
           \/ Hit(u, j) /\ tlb'[TlbIndex(u)].data = tlb[TlbIndex(u)].data
           \/ /\ u = v
              /\ j \in Permissions(sr, Translation(v))
              /\ tlb'[TlbIndex(u)].data + v = Translation(v).ppn
  BY TranslateEffect DEF IInv
<1>2. sr \in Status /\ table[v] \in Pte
  BY DEF IInv, TypeOK
<1>3. \A j \in Permissions(sr, Translation(v)) : Translation(v).ppn \in Ppn
  BY <1>2, WalkEffect DEF Translation
<1>4. \A u \in Vpn, j \in Kind : Hit(u, j)' => tlb'[TlbIndex(u)].data + u \in Ppn
  BY <1>1, <1>3 DEF IInv, FrameInv
<1>5. ASSUME Port = "isa", NEW u \in Vpn, NEW j \in Kind, Hit(u, j)'
      PROVE  (\E pte \in Translations(u) : j \in Permissions(sr, pte) /\ Page(u, j) = pte.ppn)'
  <2>1. Page(u, j)' = tlb'[TlbIndex(u)].data + u
    BY <1>5 DEF Page, TlbIndex
  <2>2. Translations(u)' = Translations(u)
    BY DEF Translations
  <2>3. CASE Hit(u, j) /\ tlb'[TlbIndex(u)].data = tlb[TlbIndex(u)].data
    <3>1. PICK pte \in Translations(u) : j \in Permissions(sr, pte) /\ Page(u, j) = pte.ppn
      BY <1>5, <2>3 DEF IInv, TranslationsCurrent
    <3>2. Page(u, j)' = Page(u, j)
      BY <2>1, <2>3 DEF Page
    <3> QED
      BY <2>2, <3>1, <3>2
  <2>4. CASE /\ u = v
             /\ j \in Permissions(sr, Translation(v))
             /\ tlb'[TlbIndex(u)].data + v = Translation(v).ppn
    <3>1. Translation(v) \in Translations(v)
      BY DEF IInv, HistoryInv, Translation, Translations
    <3> QED
      BY <2>1, <2>2, <2>4, <3>1
  <2> QED
    BY <1>1, <1>5, <2>3, <2>4
<1> QED
  BY <1>1, <1>4, <1>5 DEF TranslationsCurrent

-----------------------------------------------------------------------------
(* The invariant is preserved, one lemma for each action that needs more   *)
(* than the lemmas above.                                                  *)

LEMMA IInvInit == Init => IInv
<1> SUFFICES ASSUME Init PROVE IInv
  OBVIOUS
<1>1. TypeOK
  <2>1. sr \in Status
    BY DEF Init, Status
  <2>2. tlb \in [0 .. (TLB_ENTRIES - 1) -> [tag : [Kind -> Vpn \union {NoTag}], data : Int]]
    BY DEF Init, EmptyTlb
  <2>3. icache \in [0 .. (ICACHE_ENTRIES - 1) ->
                      [tag : Vpn \union {NoTag}, data : Word \union {Unwritten}]]
    BY DEF Init, EmptyICache
  <2>4. views \in [Vpn -> SUBSET Pte] /\ code \in [Ppn -> SUBSET Word]
    BY DEF Init
  <2> QED
    BY <2>1, <2>2, <2>3, <2>4 DEF Init, TypeOK
<1>2. \A v \in Vpn, k \in Kind : ~Hit(v, k)
  BY IndexInRange, NoTagIsNoPage DEF Init, EmptyTlb, Hit
<1>3. \A v \in Vpn : ~ICacheHit(v)
  BY IndexInRange, NoTagIsNoPage DEF Init, EmptyICache, ICacheHit
<1>4. HistoryInv
  BY DEF Init, HistoryInv
<1> QED
  BY <1>1, <1>2, <1>3, <1>4 DEF IInv, FrameInv, TranslationsCurrent, InstructionsCurrent

LEMMA IInvLoad ==
  ASSUME IInv, NEW v \in Vpn, Load(v)
  PROVE  IInv'
<1>1. UNCHANGED <<sr, table, mem, icache, views, code>>
  BY DEF Load, history
<1>2. /\ tlb' \in TlbType
      /\ \A u \in Vpn, j \in Kind : Hit(u, j)' => tlb'[TlbIndex(u)].data + u \in Ppn
      /\ Port = "isa" => TranslationsCurrent'
      /\ Page(v, "load") \in Ppn
  BY <1>1, TranslateCaches DEF Load, Kind
<1>3. answer' \in [kind : Kind, page : Vpn, out : Outcome]
  BY <1>2 DEF Load, Answer, IInv, TypeOK, Outcome, Kind
<1>4. FrameInv' /\ (Port = "isa" => InstructionsCurrent')
  BY <1>1, <1>2 DEF IInv, FrameInv, InstructionsCurrent, ICacheHit, ICacheIndex,
                    Translations, TlbIndex
<1> QED
  BY <1>1, <1>2, <1>3, <1>4 DEF IInv, TypeOK, TlbType, HistoryInv

LEMMA IInvStore ==
  ASSUME IInv, NEW v \in Vpn, NEW w \in Word, Store(v, w)
  PROVE  IInv'
<1>1. UNCHANGED <<sr, table, icache, views>>
  BY DEF Store, Write
<1>2. /\ tlb' \in TlbType
      /\ \A u \in Vpn, j \in Kind : Hit(u, j)' => tlb'[TlbIndex(u)].data + u \in Ppn
      /\ Port = "isa" => TranslationsCurrent'
      /\ Page(v, "store") \in Ppn
  BY <1>1, TranslateCaches DEF Store, Kind
<1>3. answer' \in [kind : Kind, page : Vpn, out : Outcome]
  BY DEF Store, Answer, Outcome, Kind
<1>4. /\ mem' \in [Ppn -> Word]
      /\ code' \in [Ppn -> SUBSET Word]
      /\ \A p \in Ppn : mem'[p] \in code'[p] /\ code[p] \subseteq code'[p]
  BY <1>2 DEF Store, Write, IInv, TypeOK, HistoryInv
<1>5. FrameInv'
  BY <1>1, <1>2 DEF IInv, FrameInv, ICacheHit, ICacheIndex, TlbIndex
<1>6. ASSUME Port = "isa" PROVE InstructionsCurrent'
  <2>1. sr \in Status /\ \A u \in Vpn : views[u] \subseteq Pte
    BY DEF IInv, TypeOK
  <2>2. ASSUME NEW u \in Vpn, ICacheHit(u)'
        PROVE  (\E pte \in Translations(u) :
                  /\ "fetch" \in Permissions(sr, pte)
                  /\ icache[ICacheIndex(u)].data \in code[pte.ppn])'
    <3>1. PICK pte \in Translations(u) :
             /\ "fetch" \in Permissions(sr, pte)
             /\ icache[ICacheIndex(u)].data \in code[pte.ppn]
      BY <1>1, <1>6, <2>2 DEF IInv, InstructionsCurrent, ICacheHit, ICacheIndex
    <3>2. pte.ppn \in Ppn
      BY <2>1, <3>1, WalkEffect DEF Translations
    <3> QED
      BY <1>1, <1>4, <3>1, <3>2 DEF Translations, ICacheIndex
  <2> QED
    BY <2>2 DEF InstructionsCurrent
<1> QED
  BY <1>1, <1>2, <1>3, <1>4, <1>5, <1>6 DEF IInv, TypeOK, TlbType, HistoryInv

LEMMA IInvFetchHits ==
  ASSUME IInv, NEW v \in Vpn, FetchHits(v)
  PROVE  IInv'
<1>1. /\ sr' = sr /\ table' = table /\ mem' = mem /\ tlb' = tlb /\ icache' = icache
      /\ views' = views /\ code' = code
  BY DEF FetchHits, history
<1>2. answer' \in [kind : Kind, page : Vpn, out : Outcome]
  BY DEF FetchHits, Answer, IInv, FrameInv, Outcome, Kind
<1>3. TypeOK'
  BY <1>1, <1>2 DEF IInv, TypeOK
<1>4. FrameInv' /\ HistoryInv'
  BY <1>1 DEF IInv, FrameInv, HistoryInv, Hit, TlbIndex, ICacheHit, ICacheIndex
<1>5. \A u \in Vpn : Translations(u)' = Translations(u)
  BY <1>1, Zenon DEF Translations
<1>6. \A u \in Vpn, j \in Kind : (Hit(u, j)' <=> Hit(u, j)) /\ Page(u, j)' = Page(u, j)
  BY <1>1, Zenon DEF Hit, TlbIndex, Page, Translation
<1>7. TranslationsCurrent => TranslationsCurrent'
  BY <1>1, <1>5, <1>6 DEF TranslationsCurrent
<1>8. InstructionsCurrent => InstructionsCurrent'
  BY <1>1, <1>5 DEF InstructionsCurrent, ICacheHit, ICacheIndex
<1> QED
  BY <1>3, <1>4, <1>7, <1>8 DEF IInv

LEMMA IInvFetchFills ==
  ASSUME IInv, NEW v \in Vpn, FetchMisses(v), ~Faults(v, "fetch")
  PROVE  IInv'
<1> DEFINE w == mem[Page(v, "fetch")]
<1>1. /\ UNCHANGED <<sr, table, mem, views, code>>
      /\ icache' = [icache EXCEPT ![ICacheIndex(v)] = Cached(v, w)]
      /\ Answer("fetch", v, icache'[ICacheIndex(v)].data)
      /\ tlb' = TlbAfter(v, "fetch")
  BY DEF FetchMisses, history
<1>2. /\ tlb' \in TlbType
      /\ \A u \in Vpn, j \in Kind : Hit(u, j)' => tlb'[TlbIndex(u)].data + u \in Ppn
      /\ Port = "isa" => TranslationsCurrent'
      /\ Page(v, "fetch") \in Ppn
  BY <1>1, TranslateCaches DEF Kind
<1>3. w \in Word /\ w \in code[Page(v, "fetch")]
  BY <1>2 DEF IInv, TypeOK, HistoryInv
<1>4. icache \in ICacheType
  BY DEF IInv, TypeOK, ICacheType
<1>5. Cached(v, w) \in [tag : Vpn \union {NoTag}, data : Word \union {Unwritten}]
  BY <1>3 DEF Cached
<1>6. icache' \in ICacheType
  BY <1>1, <1>4, <1>5 DEF ICacheType
<1>7. icache'[ICacheIndex(v)] = Cached(v, w)
  BY <1>1, <1>4, IndexInRange DEF ICacheType
<1>8. answer' \in [kind : Kind, page : Vpn, out : Outcome]
  BY <1>1, <1>3, <1>7 DEF Cached, Answer, Outcome, Kind
<1>9. \A u \in Vpn : ICacheHit(u)' =>
        \/ ICacheHit(u) /\ icache'[ICacheIndex(u)] = icache[ICacheIndex(u)]
        \/ u = v /\ icache'[ICacheIndex(u)].data = w
  <2> TAKE u \in Vpn
  <2>1. CASE ICacheIndex(u) = ICacheIndex(v)
    BY <1>7, <2>1, NoTagIsNoPage DEF Cached, ICacheHit, ICacheIndex
  <2>2. CASE ICacheIndex(u) # ICacheIndex(v)
    <3>1. icache'[ICacheIndex(u)] = icache[ICacheIndex(u)]
      BY <1>1, <1>4, <2>2, IndexInRange DEF ICacheType
    <3> QED
      BY <3>1 DEF ICacheHit, ICacheIndex
  <2> QED
    BY <2>1, <2>2
<1>10. FrameInv'
  <2>1. \A u \in Vpn : ICacheHit(u)' => icache'[ICacheIndex(u)].data \in Word
    BY <1>3, <1>9 DEF IInv, FrameInv
  <2> QED
    BY <1>2, <2>1 DEF FrameInv, TlbIndex, ICacheIndex
<1>11. ASSUME Port = "isa" PROVE InstructionsCurrent'
  <2> SUFFICES ASSUME NEW u \in Vpn, ICacheHit(u)'
               PROVE  \E pte \in Translations(u) :
                        /\ "fetch" \in Permissions(sr, pte)
                        /\ icache'[ICacheIndex(u)].data \in code[pte.ppn]
    BY <1>1 DEF InstructionsCurrent, Translations, ICacheIndex
  <2>1. CASE ICacheHit(u) /\ icache'[ICacheIndex(u)] = icache[ICacheIndex(u)]
    BY <1>11, <2>1 DEF IInv, InstructionsCurrent
  <2>2. CASE u = v /\ icache'[ICacheIndex(u)].data = w
    <3>1. PICK pte \in Translations(v) :
             "fetch" \in Permissions(sr, pte) /\ Page(v, "fetch") = pte.ppn
      BY <1>11, PageByView DEF Kind
    <3> QED
      BY <1>3, <2>2, <3>1
  <2> QED
    BY <1>9, <2>1, <2>2
<1> QED
  BY <1>1, <1>2, <1>6, <1>8, <1>10, <1>11 DEF IInv, TypeOK, TlbType, ICacheType, HistoryInv

LEMMA IInvStatus ==
  ASSUME IInv, NEW s \in Status, SetStatus(s), UNCHANGED <<table, mem, answer, history>>
  PROVE  IInv'
<1>1. CachesInv'
  BY IInvCaches, StatusCaches
<1>2. sr' \in Status
  BY DEF SetStatus
<1> QED
  BY <1>1, <1>2 DEF IInv, CachesInv, TypeOK, TlbType, ICacheType, HistoryInv, history

LEMMA IInvChangeTable ==
  ASSUME IInv, NEW t \in [Vpn -> Pte], ChangeTable(t)
  PROVE  IInv'
<1>1. /\ UNCHANGED <<sr, mem, tlb, icache, answer, code>>
      /\ table' = t
      /\ \A v \in Vpn : views'[v] = views[v] \union {t[v]}
  BY DEF ChangeTable
<1>2. views' \in [Vpn -> SUBSET Pte]
  BY DEF ChangeTable, IInv, TypeOK
<1>3. TypeOK' /\ FrameInv' /\ HistoryInv'
  BY <1>1, <1>2 DEF IInv, TypeOK, FrameInv, HistoryInv, Hit, TlbIndex, ICacheHit, ICacheIndex
<1>4. \A v \in Vpn : Translations(v) \subseteq Translations(v)'
  BY <1>1 DEF Translations
<1>5. ASSUME NEW v \in Vpn, NEW k \in Kind, Hit(v, k)'
      PROVE  Hit(v, k) /\ Page(v, k)' = Page(v, k)
  BY <1>1, <1>5 DEF Hit, TlbIndex, Page
<1>6. ASSUME Port = "isa" PROVE TranslationsCurrent'
  BY <1>1, <1>4, <1>5, <1>6 DEF IInv, TranslationsCurrent
<1>7. ASSUME Port = "isa" PROVE InstructionsCurrent'
  BY <1>1, <1>4, <1>7 DEF IInv, InstructionsCurrent, ICacheHit, ICacheIndex
<1> QED
  BY <1>3, <1>6, <1>7 DEF IInv

LEMMA IInvReadFatc ==
  ASSUME IInv, ReadFatc
  PROVE  IInv'
<1>1. UNCHANGED <<sr, table, mem, answer, code>>
  BY DEF ReadFatc
<1>2. /\ views' \in [Vpn -> SUBSET Pte]
      /\ \A v \in Vpn : table[v] \in views'[v]
  BY DEF ReadFatc, IInv, TypeOK
<1>3. CASE Port = "isa"
  <2>1. CachesInv'
    BY <1>3, IInvCaches, FlushedCaches DEF ReadFatc
  <2> QED
    BY <1>1, <1>2, <2>1 DEF IInv, CachesInv, TypeOK, TlbType, ICacheType, HistoryInv
<1>4. CASE Port # "isa"
  <2>1. UNCHANGED <<tlb, icache>>
    BY <1>4 DEF ReadFatc, KeepCaches
  <2> QED
    BY <1>1, <1>2, <1>4, <2>1 DEF IInv, TypeOK, FrameInv, HistoryInv, Hit, TlbIndex,
                                  ICacheHit, ICacheIndex
<1> QED
  BY <1>3, <1>4

LEMMA IInvFenceI ==
  ASSUME IInv, FenceI
  PROVE  IInv'
<1>1. UNCHANGED <<sr, table, mem, tlb, answer, views>>
  BY DEF FenceI
<1>2. /\ code' \in [Ppn -> SUBSET Word]
      /\ \A p \in Ppn : mem[p] \in code'[p]
  BY DEF FenceI, IInv, TypeOK
<1>3. CASE Port = "isa"
  <2>1. icache' \in ICacheType /\ \A v \in Vpn : ~ICacheHit(v)'
    BY <1>3, FlushICacheEffect DEF FenceI, IInv, TypeOK, ICacheType
  <2>2. InstructionsCurrent'
    BY <2>1 DEF InstructionsCurrent
  <2>3. FrameInv'
    BY <1>1, <2>1 DEF IInv, FrameInv, Hit, TlbIndex
  <2>4. TranslationsCurrent'
    BY <1>1, <1>3 DEF IInv, TranslationsCurrent, Hit, TlbIndex, Translations, Page, Translation
  <2> QED
    BY <1>1, <1>2, <2>1, <2>2, <2>3, <2>4 DEF IInv, TypeOK, ICacheType, HistoryInv
<1>4. CASE Port # "isa"
  BY <1>1, <1>2, <1>4 DEF FenceI, IInv, TypeOK, FrameInv, HistoryInv, Hit, TlbIndex,
                          ICacheHit, ICacheIndex
<1> QED
  BY <1>3, <1>4

LEMMA IInvHostWrites ==
  ASSUME IInv, NEW p \in Ppn, NEW w \in Word, HostWrites(p, w)
  PROVE  IInv'
<1>1. UNCHANGED <<sr, table, tlb, icache, answer, views>>
  BY DEF HostWrites, Write
<1>2. /\ mem' \in [Ppn -> Word]
      /\ code' \in [Ppn -> SUBSET Word]
      /\ \A q \in Ppn : mem'[q] \in code'[q] /\ code[q] \subseteq code'[q]
  BY DEF HostWrites, Write, IInv, TypeOK, HistoryInv
<1>3. TypeOK' /\ FrameInv' /\ HistoryInv'
  BY <1>1, <1>2 DEF IInv, TypeOK, FrameInv, HistoryInv, Hit, TlbIndex, ICacheHit, ICacheIndex
<1>4. ASSUME Port = "isa" PROVE TranslationsCurrent'
  BY <1>1, <1>4 DEF IInv, TranslationsCurrent, Hit, TlbIndex, Translations, Page, Translation
<1>5. ASSUME Port = "isa" PROVE InstructionsCurrent'
  <2>1. sr \in Status /\ \A v \in Vpn : views[v] \subseteq Pte
    BY DEF IInv, TypeOK
  <2>2. ASSUME NEW v \in Vpn, ICacheHit(v)'
        PROVE  (\E pte \in Translations(v) :
                  /\ "fetch" \in Permissions(sr, pte)
                  /\ icache[ICacheIndex(v)].data \in code[pte.ppn])'
    <3>1. PICK pte \in Translations(v) :
             /\ "fetch" \in Permissions(sr, pte)
             /\ icache[ICacheIndex(v)].data \in code[pte.ppn]
      BY <1>1, <1>5, <2>2 DEF IInv, InstructionsCurrent, ICacheHit, ICacheIndex
    <3>2. pte.ppn \in Ppn
      BY <2>1, <3>1, WalkEffect DEF Translations
    <3> QED
      BY <1>1, <1>2, <3>1, <3>2 DEF Translations, ICacheIndex
  <2> QED
    BY <2>2 DEF InstructionsCurrent
<1> QED
  BY <1>3, <1>4, <1>5 DEF IInv

LEMMA IInvStep == IInv /\ [Next]_vars => IInv'
<1> SUFFICES ASSUME IInv, [Next]_vars PROVE IInv'
  OBVIOUS
<1>1. ASSUME NEW k \in Kind, NEW v \in Vpn, Misaligned(k, v) \/ LoadOrStoreFaults(k, v)
      PROVE  IInv'
  BY <1>1, TrapCaches DEF Misaligned, LoadOrStoreFaults, Outcome
<1>2. ASSUME NEW v \in Vpn, FetchMisses(v) PROVE IInv'
  <2>1. CASE Faults(v, "fetch")
    BY <1>2, <2>1, TrapCaches DEF FetchMisses, Outcome, Kind
  <2>2. CASE ~Faults(v, "fetch")
    BY <1>2, <2>2, IInvFetchFills
  <2> QED
    BY <2>1, <2>2
<1>3. ASSUME NEW s \in Status, WriteStatus(s) PROVE IInv'
  BY <1>3, IInvStatus DEF WriteStatus
<1>4. ASSUME TakeTrap PROVE IInv'
  <2>1. [sr EXCEPT !.S = TRUE] \in Status
    BY DEF IInv, TypeOK, Status
  <2> QED
    BY <1>4, <2>1, IInvStatus DEF TakeTrap
<1>5. CASE UNCHANGED vars
  BY <1>5 DEF vars, history, IInv, TypeOK, FrameInv, HistoryInv, Hit, TlbIndex, ICacheHit,
              ICacheIndex, TranslationsCurrent, InstructionsCurrent, Translations, Page,
              Translation
<1> QED
  BY <1>1, <1>2, <1>3, <1>4, <1>5, IInvLoad, IInvStore, IInvFetchHits, IInvChangeTable,
     IInvReadFatc, IInvFenceI, IInvHostWrites DEF Next

(* The strengthening behind the theorems below.                            *)
THEOREM MmuInvariant == Spec => []IInv
<1> QED
  BY IInvInit, IInvStep, PTL DEF Spec

(* Type correctness, for the functional simulator and for the DPI: also    *)
(* with stale entries, every access that succeeds stays inside memory.     *)
THEOREM MmuTypeCorrect == Spec => []TypeOK
<1>1. IInv => TypeOK
  BY DEF IInv
<1> QED
  BY <1>1, MmuInvariant, PTL

(* TranslationsCurrent for a TLB of any size: as processor_t::set_pcr and  *)
(* the FATC register flush it, it never grants what a walk would refuse.   *)
THEOREM TlbTransparent ==
  ASSUME Port = "isa"
  PROVE  Spec => []TranslationsCurrent
<1>1. IInv => TranslationsCurrent
  BY DEF IInv
<1> QED
  BY <1>1, MmuInvariant, PTL

(* InstructionsCurrent for an instruction cache of any size.               *)
THEOREM ICacheTransparent ==
  ASSUME Port = "isa"
  PROVE  Spec => []InstructionsCurrent
<1>1. IInv => InstructionsCurrent
  BY DEF IInv
<1> QED
  BY <1>1, MmuInvariant, PTL

-----------------------------------------------------------------------------
(* The refinement: AddressSpace has the same pages and the same walk, and  *)
(* each action of Mmu is one of its actions.                               *)

LEMMA SameTranslations ==
  /\ Promise!Vpn = Vpn /\ Promise!Ppn = Ppn /\ Promise!Kind = Kind
  /\ Promise!Status = Status /\ Promise!NoAccess = NoAccess
  /\ \A v : Promise!Translations(v) = Translations(v)
  /\ \A s, pte : Promise!Permissions(s, pte) = Permissions(s, pte)
<1>1. /\ Promise!Vpn = Vpn /\ Promise!Ppn = Ppn /\ Promise!Kind = Kind
      /\ Promise!Status = Status /\ Promise!NoAccess = NoAccess
  BY DEF Promise!Vpn, Vpn, Promise!Ppn, Ppn, Promise!Kind, Kind, Promise!Status, Status,
         Promise!NoAccess, NoAccess
<1>2. \A s, v, pte : Promise!Walk(s, v, pte) = Walk(s, v, pte)
  BY <1>1 DEF Promise!Walk, Walk, Promise!BarePte, BarePte, Promise!NoPte, NoPte
<1>3. \A v : Promise!Translations(v) = Translations(v)
  BY <1>2 DEF Promise!Translations, Translations
<1>4. \A s, pte : Promise!Permissions(s, pte) = Permissions(s, pte)
  BY DEF Promise!Permissions, Permissions
<1> QED
  BY <1>1, <1>3, <1>4

LEMMA PromiseInit == Init => Promise!Init
BY SameTranslations DEF Init, Promise!Init

LEMMA PromiseTrap ==
  ASSUME IInv, Port = "isa", NEW k \in Kind, NEW v \in Vpn, NEW out, Trap(k, v, out),
         out = "misaligned" \/ (out = "fault" /\ Faults(v, k))
  PROVE  Promise!Trap(k, v)
<1>1. /\ Answer(k, v, out)
      /\ sr' = [sr EXCEPT !.S = TRUE]
      /\ UNCHANGED <<table, mem, views, code>>
  BY DEF Trap, SetStatus, history
<1>2. Promise!Answer(k, v, out)
  BY <1>1 DEF Answer, Promise!Answer
<1>3. CASE out = "fault" /\ Faults(v, k)
  <2>1. Translation(v) \in Translations(v)
    BY DEF IInv, HistoryInv, Translation, Translations
  <2>2. \E pte \in Promise!Translations(v) : k \notin Promise!Permissions(sr, pte)
    BY <1>3, <2>1, SameTranslations DEF Faults
  <2> QED
    BY <1>1, <1>2, <1>3, <2>2 DEF Promise!Trap
<1> QED
  BY <1>1, <1>2, <1>3 DEF Promise!Trap

LEMMA PromiseLoad ==
  ASSUME IInv, Port = "isa", NEW v \in Vpn, Load(v)
  PROVE  Promise!Load(v)
<1>1. PICK pte \in Translations(v) :
        "load" \in Permissions(sr, pte) /\ Page(v, "load") = pte.ppn
  BY PageByView DEF Load, Kind
<1> QED
  BY <1>1, SameTranslations DEF Load, Answer, history, Promise!Load, Promise!Answer

LEMMA PromiseStore ==
  ASSUME IInv, Port = "isa", NEW v \in Vpn, NEW w \in Word, Store(v, w)
  PROVE  Promise!Store(v, w)
<1>1. PICK pte \in Translations(v) :
        "store" \in Permissions(sr, pte) /\ Page(v, "store") = pte.ppn
  BY PageByView DEF Store, Kind
<1>2. Promise!Answer("store", v, w) /\ Promise!Write(pte.ppn, w)
  BY <1>1 DEF Store, Answer, Write, Promise!Answer, Promise!Write
<1> QED
  BY <1>1, <1>2, SameTranslations DEF Promise!Store

LEMMA PromiseFetchHits ==
  ASSUME IInv, Port = "isa", NEW v \in Vpn, FetchHits(v)
  PROVE  Promise!Fetch(v)
<1>1. PICK pte \in Translations(v) :
        /\ "fetch" \in Permissions(sr, pte)
        /\ icache[ICacheIndex(v)].data \in code[pte.ppn]
  BY DEF FetchHits, IInv, InstructionsCurrent
<1> QED
  BY <1>1, SameTranslations DEF FetchHits, Answer, history, Promise!Fetch, Promise!Answer

(* A fill reads memory, which is among what the page has held.             *)
LEMMA PromiseFetchFills ==
  ASSUME IInv, Port = "isa", NEW v \in Vpn, FetchMisses(v), ~Faults(v, "fetch")
  PROVE  Promise!Fetch(v)
<1> DEFINE w == mem[Page(v, "fetch")]
<1>1. PICK pte \in Translations(v) :
        "fetch" \in Permissions(sr, pte) /\ Page(v, "fetch") = pte.ppn
  BY PageByView DEF Kind
<1>2. /\ icache' = [icache EXCEPT ![ICacheIndex(v)] = Cached(v, w)]
      /\ Answer("fetch", v, icache'[ICacheIndex(v)].data)
      /\ tlb' = TlbAfter(v, "fetch")
      /\ UNCHANGED <<sr, table, mem, history>>
  BY DEF FetchMisses
<1>3. icache'[ICacheIndex(v)].data = w
  BY <1>2, IndexInRange DEF IInv, TypeOK, Cached
<1>4. w \in code[pte.ppn]
  <2>1. Page(v, "fetch") \in Ppn
    BY <1>2, TranslateCaches DEF history, Kind
  <2> QED
    BY <1>1, <2>1 DEF IInv, HistoryInv
<1> QED
  BY <1>1, <1>2, <1>3, <1>4, SameTranslations DEF Answer, history, Promise!Fetch, Promise!Answer

LEMMA PromiseStep ==
  ASSUME IInv, Port = "isa", [Next]_vars
  PROVE  [Promise!Next]_(Promise!vars)
<1> USE SameTranslations DEF Promise!Next
<1>1. ASSUME NEW k \in Kind, NEW v \in Vpn, Misaligned(k, v) \/ LoadOrStoreFaults(k, v)
      PROVE  Promise!Next
  BY <1>1, PromiseTrap DEF Misaligned, LoadOrStoreFaults
<1>2. ASSUME NEW v \in Vpn, Load(v) \/ FetchHits(v) PROVE Promise!Next
  BY <1>2, PromiseLoad, PromiseFetchHits
<1>3. ASSUME NEW v \in Vpn, FetchMisses(v) PROVE Promise!Next
  <2>1. CASE Faults(v, "fetch")
    <3>1. "fetch" \in Kind /\ Trap("fetch", v, "fault")
      BY <1>3, <2>1 DEF FetchMisses, Kind
    <3> QED
      BY <2>1, <3>1, PromiseTrap
  <2>2. CASE ~Faults(v, "fetch")
    BY <1>3, <2>2, PromiseFetchFills
  <2> QED
    BY <2>1, <2>2
<1>4. ASSUME NEW v \in Vpn, NEW w \in Word, Store(v, w) PROVE Promise!Next
  BY <1>4, PromiseStore
<1>5. ASSUME NEW s \in Status, WriteStatus(s) PROVE Promise!Next
  BY <1>5 DEF WriteStatus, SetStatus, history, Promise!SetStatus
<1>6. ASSUME TakeTrap PROVE Promise!Next
  <2>1. [sr EXCEPT !.S = TRUE] \in Status
    BY DEF IInv, TypeOK, Status
  <2> QED
    BY <1>6, <2>1 DEF TakeTrap, SetStatus, history, Promise!SetStatus
<1>7. ASSUME NEW t \in [Vpn -> Pte], ChangeTable(t) PROVE Promise!Next
  BY <1>7 DEF ChangeTable, Promise!SetTable
<1>8. ASSUME ReadFatc PROVE Promise!Next
  BY <1>8 DEF ReadFatc, Promise!ReadFatc
<1>9. ASSUME FenceI PROVE Promise!Next
  BY <1>9 DEF FenceI, Promise!FenceI
<1>10. ASSUME NEW p \in Ppn, NEW w \in Word, HostWrites(p, w) PROVE Promise!Next
  BY <1>10 DEF HostWrites, Write, Promise!HostWrites, Promise!Write
<1>11. CASE UNCHANGED vars
  BY <1>11 DEF vars, history, Promise!vars
<1> QED
  BY <1>1, <1>2, <1>3, <1>4, <1>5, <1>6, <1>7, <1>8, <1>9, <1>10, <1>11 DEF Next

(* ImplementsAddressSpace: for any sizes, tables and tracers, the program  *)
(* cannot tell the functional simulator's MMU from one without caches.     *)
THEOREM Refinement ==
  ASSUME Port = "isa"
  PROVE  Spec => ImplementsAddressSpace
<1>1. IInv /\ [Next]_vars => [Promise!Next]_(Promise!vars)
  BY PromiseStep
<1>2. Spec => []IInv
  BY MmuInvariant
<1> QED
  BY <1>1, <1>2, PromiseInit, PTL DEF Spec, ImplementsAddressSpace, Promise!Spec
=============================================================================
