--------------------------------- MODULE Mmu ---------------------------------
(***************************************************************************)
(* mmu_t (isa_sim_dpi/mmu.h, mmu.cc): a core's port into memory, with its  *)
(* TLB and instruction cache, and what is written around it: the status    *)
(* and page table registers, the FATC register, FENCE.I, the host.         *)
(*                                                                         *)
(* The same class serves two users. Port = "isa" is the functional         *)
(* simulator: instructions go through processor_t. Port = "dpi" is the     *)
(* RTL: loads, stores and fetches are DPI calls to the MMU of s_dpi, and   *)
(* control registers are written by set_pcr of riscv_dpi.cc.               *)
(*                                                                         *)
(* An access is to a page, and a page holds one word. The contents of page *)
(* tables are kept in "table", apart from the words of mem.                *)
(***************************************************************************)
EXTENDS PageTable

CONSTANTS
  TLB_ENTRIES,
  ICACHE_ENTRIES,
  Word,
  Traced,    (* the accesses some registered memtracer is interested in    *)
  Port

ASSUME MmuAssumption ==
  /\ TLB_ENTRIES \in Nat \ {0}
  /\ ICACHE_ENTRIES \in Nat \ {0}
  /\ Traced \subseteq Kind
  /\ Port \in {"isa", "dpi"}

VARIABLES
  sr,        (* state.sr: the bits S and VM                                *)
  table,     (* the page table ptbr points to                              *)
  mem,
  tlb,       (* per index: tlb_insn_tag, tlb_load_tag and tlb_store_tag,   *)
             (* and tlb_data: physical less virtual page                   *)
  icache,
  answer,    (* result of the last access                                  *)
  views,     (* history: entries of each page since FATC was last read     *)
  code       (* history: words of each page since the last FENCE.I         *)

history == <<views, code>>
vars == <<sr, table, mem, tlb, icache, answer, history>>

NoTag == -1

Unwritten == "unwritten"

NoAccess == [kind |-> "none"]

Outcome == Word \union {"misaligned", "fault"}

TypeOK ==
  /\ sr \in Status
  /\ table \in [Vpn -> Pte]
  /\ mem \in [Ppn -> Word]
  /\ tlb \in [0 .. (TLB_ENTRIES - 1) -> [tag : [Kind -> Vpn \union {NoTag}], data : Int]]
  /\ icache \in [0 .. (ICACHE_ENTRIES - 1) ->
                   [tag : Vpn \union {NoTag}, data : Word \union {Unwritten}]]
  /\ answer \in [kind : Kind, page : Vpn, out : Outcome] \union {NoAccess}
  /\ views \in [Vpn -> SUBSET Pte]
  /\ code \in [Ppn -> SUBSET Word]

EmptyTlb ==
  [i \in 0 .. (TLB_ENTRIES - 1) |-> [tag |-> [k \in Kind |-> NoTag], data |-> 0]]

EmptyICache == [i \in 0 .. (ICACHE_ENTRIES - 1) |-> [tag |-> NoTag, data |-> Unwritten]]

(* set_processor, register_memtracer and the release from reset have       *)
(* flushed both.                                                           *)
Init ==
  /\ sr = [S |-> TRUE, VM |-> FALSE]
  /\ table \in [Vpn -> Pte]
  /\ mem \in [Ppn -> Word]
  /\ tlb = EmptyTlb
  /\ icache = EmptyICache
  /\ answer = NoAccess
  /\ views = [v \in Vpn |-> {table[v]}]
  /\ code = [p \in Ppn |-> {mem[p]}]

-----------------------------------------------------------------------------
(* flush_icache and flush_tlb: the tags are reset, the data stays.         *)

FlushICache == icache' = [i \in DOMAIN icache |-> [icache[i] EXCEPT !.tag = NoTag]]

FlushTlb ==
  /\ tlb' = [i \in DOMAIN tlb |-> [tlb[i] EXCEPT !.tag = [k \in Kind |-> NoTag]]]
  /\ FlushICache

KeepCaches == UNCHANGED <<tlb, icache>>

(* Fault: only a change of SR_VM is thought to matter.                     *)
SetStatusVmOnly(s) ==
  /\ sr' = s
  /\ IF Port = "isa" /\ s.VM # sr.VM THEN FlushTlb ELSE KeepCaches

(* set_pcr(CSR_STATUS): processor_t's flushes, riscv_dpi.cc's does not.    *)
SetStatus(s) ==
  /\ sr' = s
  /\ IF Port = "isa" THEN FlushTlb ELSE KeepCaches

-----------------------------------------------------------------------------
(* translate and refill_tlb                                                *)

TlbIndex(v) == v % TLB_ENTRIES

Hit(v, k) == tlb[TlbIndex(v)].tag[k] = v

Translation(v) == Walk(sr, v, table[v])

Faults(v, k) == ~Hit(v, k) /\ k \notin Permissions(sr, Translation(v))

(* The physical page translate returns, if it returns.                     *)
Page(v, k) == IF Hit(v, k) THEN tlb[TlbIndex(v)].data + v ELSE Translation(v).ppn

(* Fault: the tags of the other two kinds of access are left in place.     *)
FilledOneTag(v, k) ==
  [ tag  |-> [tlb[TlbIndex(v)].tag EXCEPT ![k] = v],
    data |-> Translation(v).ppn - v ]

(* The entry refill_tlb writes: all three tags, as they share the data.    *)
Filled(v, k) ==
  [ tag  |-> [j \in Kind |-> IF j \in Permissions(sr, Translation(v)) THEN v ELSE NoTag],
    data |-> Translation(v).ppn - v ]

(* The TLB after a translation that succeeds. A page a tracer is           *)
(* interested in stays out of it.                                          *)
TlbAfter(v, k) ==
  IF Hit(v, k) \/ k \in Traced THEN tlb
  ELSE [tlb EXCEPT ![TlbIndex(v)] = Filled(v, k)]

Answer(k, v, out) == answer' = [kind |-> k, page |-> v, out |-> out]

(* A trap: step catches it and calls take_trap; a DPI call returns its     *)
(* cause to the RTL.                                                       *)
Trap(k, v, out) ==
  /\ Answer(k, v, out)
  /\ IF Port = "isa" THEN SetStatus([sr EXCEPT !.S = TRUE])
     ELSE KeepCaches /\ UNCHANGED sr
  /\ UNCHANGED <<table, mem, history>>

-----------------------------------------------------------------------------
(* load_type and store_type; the DPI functions call them.                  *)

Misaligned(k, v) == Trap(k, v, "misaligned")

LoadOrStoreFaults(k, v) ==
  /\ k # "fetch"
  /\ Faults(v, k)
  /\ Trap(k, v, "fault")

Load(v) ==
  /\ ~Faults(v, "load")
  /\ Answer("load", v, mem[Page(v, "load")])
  /\ tlb' = TlbAfter(v, "load")
  /\ UNCHANGED <<sr, table, mem, icache, history>>

Write(p, w) ==
  /\ mem' = [mem EXCEPT ![p] = w]
  /\ code' = [code EXCEPT ![p] = @ \union {w}]
  /\ UNCHANGED views

Store(v, w) ==
  /\ ~Faults(v, "store")
  /\ Answer("store", v, w)
  /\ Write(Page(v, "store"), w)
  /\ tlb' = TlbAfter(v, "store")
  /\ UNCHANGED <<sr, table, icache>>

-----------------------------------------------------------------------------
(* access_icache: an instruction does not straddle two pages, as none is   *)
(* longer than four bytes.                                                 *)

ICacheIndex(v) == v % ICACHE_ENTRIES

ICacheHit(v) == icache[ICacheIndex(v)].tag = v

FetchHits(v) ==
  /\ ICacheHit(v)
  /\ Answer("fetch", v, icache[ICacheIndex(v)].data)
  /\ UNCHANGED <<sr, table, mem, tlb, icache, history>>

(* Fault: the tag is written, the data is not.                             *)
CachedTagOnly(v, w) == [tag |-> v, data |-> icache[ICacheIndex(v)].data]

(* The entry access_icache writes; it takes the tag away again if a tracer *)
(* wants to see every fetch, and returns the entry all the same.           *)
Cached(v, w) == [tag |-> IF "fetch" \in Traced THEN NoTag ELSE v, data |-> w]

FetchMisses(v) ==
  /\ ~ICacheHit(v)
  /\ IF Faults(v, "fetch")
     THEN Trap("fetch", v, "fault")
     ELSE LET w == mem[Page(v, "fetch")]
          IN  /\ icache' = [icache EXCEPT ![ICacheIndex(v)] = Cached(v, w)]
              /\ Answer("fetch", v, icache'[ICacheIndex(v)].data)
              /\ tlb' = TlbAfter(v, "fetch")
              /\ UNCHANGED <<sr, table, mem, history>>

-----------------------------------------------------------------------------
(* Control registers, FENCE.I and the host                                 *)

(* CSRRW to the status register, and SRET: supervisor instructions.        *)
WriteStatus(s) ==
  /\ sr.S
  /\ SetStatus(s)
  /\ UNCHANGED <<table, mem, answer, history>>

(* take_trap for a system call, an interrupt or an illegal instruction.    *)
TakeTrap ==
  /\ SetStatus([sr EXCEPT !.S = TRUE])
  /\ UNCHANGED <<table, mem, answer, history>>

(* set_pcr(CSR_PTBR), or stores to the table in force: no flush.           *)
ChangeTable(t) ==
  /\ sr.S
  /\ table' = t
  /\ views' = [v \in Vpn |-> views[v] \union {t[v]}]
  /\ UNCHANGED <<sr, mem, tlb, icache, answer, code>>

(* get_pcr(CSR_FATC): processor_t's flushes, riscv_dpi.cc's does not.      *)
ReadFatc ==
  /\ sr.S
  /\ IF Port = "isa" THEN FlushTlb ELSE KeepCaches
  /\ views' = [v \in Vpn |-> {table[v]}]
  /\ UNCHANGED <<sr, table, mem, answer, code>>

(* Fault: FENCE.I does nothing, as in a machine without caches.            *)
FenceIIgnored ==
  /\ code' = [p \in Ppn |-> {mem[p]}]
  /\ UNCHANGED <<sr, table, mem, tlb, icache, answer, views>>

(* fence_i.h. The RTL has no DPI call for it.                              *)
FenceI ==
  /\ IF Port = "isa" THEN FlushICache ELSE UNCHANGED icache
  /\ code' = [p \in Ppn |-> {mem[p]}]
  /\ UNCHANGED <<sr, table, mem, tlb, answer, views>>

(* HTIF_CMD_WRITE_MEM goes through an MMU of its own, by physical address. *)
HostWrites(p, w) ==
  /\ Write(p, w)
  /\ UNCHANGED <<sr, table, tlb, icache, answer>>

Next ==
  \/ \E k \in Kind, v \in Vpn : Misaligned(k, v) \/ LoadOrStoreFaults(k, v)
  \/ \E v \in Vpn : Load(v) \/ FetchHits(v) \/ FetchMisses(v)
  \/ \E v \in Vpn, w \in Word : Store(v, w)
  \/ \E s \in Status : WriteStatus(s)
  \/ TakeTrap
  \/ \E t \in [Vpn -> Pte] : ChangeTable(t)
  \/ ReadFatc
  \/ FenceI
  \/ \E p \in Ppn, w \in Word : HostWrites(p, w)

Spec == Init /\ [][Next]_vars

-----------------------------------------------------------------------------
(* The translations of v the program has to reckon with.                   *)
Translations(v) == { Walk(sr, v, pte) : pte \in views[v] }

(* Whatever was executed in the meantime, a TLB entry that would serve an  *)
(* access grants it by the mode the core is in now and leads to the page a *)
(* walk would lead to, up to page table changes FATC has not published:    *)
(* the TLB is maintained "for simulator performance" (mmu.h:38) only.      *)
TranslationsCurrent ==
  \A v \in Vpn, k \in Kind :
    Hit(v, k) => \E pte \in Translations(v) :
                   k \in Permissions(sr, pte) /\ Page(v, k) = pte.ppn

(* An instruction cache entry that would serve a fetch is one the mode and *)
(* the page table let the program fetch, and holds an instruction that was *)
(* at that place at some time since the last FENCE.I.                      *)
InstructionsCurrent ==
  \A v \in Vpn :
    ICacheHit(v) => \E pte \in Translations(v) :
                      /\ "fetch" \in Permissions(sr, pte)
                      /\ icache[ICacheIndex(v)].data \in code[pte.ppn]

Promise == INSTANCE AddressSpace

(* The caches cannot be seen: every load, store, fetch and trap is one the *)
(* machine without them could have made.                                   *)
ImplementsAddressSpace == Promise!Spec
=============================================================================
