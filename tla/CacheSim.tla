------------------------------ MODULE CacheSim ------------------------------
(***************************************************************************)
(* The cache models: cache_sim_t and fa_cache_sim_t (isa_sim_dpi/          *)
(* cachesim.cc), the icache_sim_t and dcache_sim_t that the mmu feeds with *)
(* every access (cachesim.h), and the level both miss into (riscv_dpi.cc). *)
(* They hold no data: only which lines are present, which of these are     *)
(* dirty, and statistics.                                                  *)
(*                                                                         *)
(* The way that lfsr chooses is any way.                                   *)
(***************************************************************************)
EXTENDS Integers, FiniteSets

CONSTANTS
  Config,      (* sets, ways and linesz of the caches "ic", "dc" and "l2"  *)
  Addresses,   (* the addresses accessed                                   *)
  Bytes,       (* the size of an access                                    *)
  Empirical,   (* with one set, more ways than this are a map; 4 in        *)
               (* cache_sim_t::construct                                   *)
  MaxAccesses  (* bound: accesses traced                                   *)

Cache == {"ic", "dc", "l2"}

(* Every geometry with at least one way that init lets pass, and some      *)
(* more: init asks for lines of a power of two, of 8 bytes or more, and    *)
(* for a power of two of sets, which makes its mask the remainder of       *)
(* SetOf.  Nothing tests the ways, which only the help text wants positive *)
(* and victimize divides by.  That lines of the lower level are no shorter *)
(* than those above it is left to the user of the program.                 *)
ASSUME ConfigAssumption ==
  /\ \A c \in Cache :
       /\ {Config[c].sets, Config[c].ways, Config[c].linesz} \subseteq Nat \ {0}
       /\ \E k \in 0 .. Config[c].linesz : Config[c].linesz = 2 ^ k
       /\ Config[c].linesz <= Config["l2"].linesz
  /\ Addresses \subseteq Nat /\ Bytes \in Nat

VARIABLES
  tags,     (* of each cache, by set and way                               *)
  stats,    (* of each cache                                               *)
  unsaved   (* history: addresses whose last store has not been written    *)
            (* back to memory                                              *)

vars == <<tags, stats, unsaved>>

Way(c) == (0 .. (Config[c].sets - 1)) \X (0 .. (Config[c].ways - 1))

-----------------------------------------------------------------------------
(* The geometry of cache c                                                 *)

(* The loop of init: the shifts that bring linesz to 0, one more than its  *)
(* logarithm. So a tag stands for two blocks of linesz bytes.              *)
idx_shift ==
  [c \in Cache |-> Cardinality({k \in 0 .. Config[c].linesz : 2 ^ k <= Config[c].linesz})]

LineSize == [c \in Cache |-> 2 ^ idx_shift[c]]

Line(c, addr) == addr \div LineSize[c]

(* Fault: shifted back by one bit more than in init.                       *)
LineAddressBeyond(c, line) == line * 2 * LineSize[c]

LineAddress(c, line) == line * LineSize[c]

BlockAddress(c, addr) == addr - (addr % Config[c].linesz)

SetOf(c, line) == line % Config[c].sets

(* cache_sim_t::construct: fa_cache_sim_t                                  *)
IsMap(c) == Config[c].ways > Empirical /\ Config[c].sets = 1

Tag(c) == [valid : BOOLEAN, dirty : BOOLEAN, line : {Line(c, a) : a \in Addresses \union {0}}]

Counter == {"read_accesses", "read_misses", "bytes_read",
            "write_accesses", "write_misses", "bytes_written", "writebacks"}

TypeOK ==
  /\ DOMAIN tags = Cache
  /\ \A c \in Cache : tags[c] \in [Way(c) -> Tag(c)]
  /\ stats \in [Cache -> [Counter -> Nat]]
  /\ unsaved \subseteq Addresses

Empty == [valid |-> FALSE, dirty |-> FALSE, line |-> 0]

(* init                                                                    *)
Init ==
  /\ tags = [c \in Cache |-> [w \in Way(c) |-> Empty]]
  /\ stats = [c \in Cache |-> [k \in Counter |-> 0]]
  /\ unsaved = {}

-----------------------------------------------------------------------------
(* One level: a level is a record of the tags t and the statistics s of a  *)
(* cache c.                                                                *)

(* check_tag: the ways that hold the line                                  *)
Hits(c, t, addr) ==
  LET tag == Line(c, addr)
  IN  {w \in Way(c) : t[w].line = tag /\ t[w].valid /\ w[1] = SetOf(c, tag)}

Misses(c, t, addr) == Hits(c, t, addr) = {}

(* Fault: any way of the cache.                                            *)
VictimsAnywhere(c, t, addr) == Way(c)

(* The ways victimize may take: any of the set, or in a map an entry only  *)
(* if it is full.                                                          *)
Victims(c, t, addr) ==
  LET set == {w \in Way(c) : w[1] = SetOf(c, Line(c, addr))}
      room == {w \in set : ~t[w].valid}
  IN  IF IsMap(c) /\ room # {} THEN room ELSE set

(* Fault: clean lines are written back too.                                *)
WritesBackClean(c, t, addr, w) == Misses(c, t, addr) /\ t[w].valid

(* Does a miss that takes way w write back what was there?                 *)
WritesBack(c, t, addr, w) == Misses(c, t, addr) /\ t[w].valid /\ t[w].dirty

(* Fault: a store that misses does not mark the line it has loaded.        *)
TagsAfterForgetful(c, t, addr, store, w) ==
  IF Misses(c, t, addr)
  THEN [t EXCEPT ![w] = [valid |-> TRUE, dirty |-> FALSE, line |-> Line(c, addr)]]
  ELSE [v \in Way(c) |-> [t[v] EXCEPT !.dirty = @ \/ (store /\ v \in Hits(c, t, addr))]]

TagsAfter(c, t, addr, store, w) ==
  IF Misses(c, t, addr)
  THEN [t EXCEPT ![w] = [valid |-> TRUE, dirty |-> store, line |-> Line(c, addr)]]
  ELSE [v \in Way(c) |-> [t[v] EXCEPT !.dirty = @ \/ (store /\ v \in Hits(c, t, addr))]]

(* What an access adds to the counters                                     *)
Counted(c, t, addr, bytes, store, w) ==
  LET when(b, n) == IF b THEN n ELSE 0
      miss == Misses(c, t, addr)
  IN  [read_accesses |-> when(~store, 1), write_accesses |-> when(store, 1),
       bytes_read |-> when(~store, bytes), bytes_written |-> when(store, bytes),
       read_misses |-> when(miss /\ ~store, 1), write_misses |-> when(miss /\ store, 1),
       writebacks |-> when(WritesBack(c, t, addr, w), 1)]

(* access, up to what it asks of the next level                            *)
AccessLevel(c, level, addr, bytes, store, w) ==
  [t |-> TagsAfter(c, level.t, addr, store, w),
   s |-> LET more == Counted(c, level.t, addr, bytes, store, w)
         IN  [k \in Counter |-> level.s[k] + more[k]]]

Level(c) == [t |-> tags[c], s |-> stats[c]]

-----------------------------------------------------------------------------
(* The next level                                                          *)

(* The lines that the last level writes to memory when its ways w are      *)
(* taken by accesses to addr                                               *)
WrittenLine(level, addr, w) ==
  IF WritesBack("l2", level.t, addr, w) THEN {level.t[w].line} ELSE {}

DirtyIn(c, t, addr) == \E w \in Hits(c, t, addr) : t[w].dirty

Settle(c, l1, l2, stored, written) ==
  /\ tags' = [tags EXCEPT ![c] = l1.t, !["l2"] = l2.t]
  /\ stats' = [stats EXCEPT ![c] = l1.s, !["l2"] = l2.s]
  /\ unsaved' = {a \in unsaved \union stored :
                   Line("l2", a) \in written => DirtyIn("dc", tags'["dc"], a)}

Stored(addr, store) == IF store THEN {addr} ELSE {}

Hit(c, addr, store) ==
  /\ ~Misses(c, tags[c], addr)
  /\ \E w \in Hits(c, tags[c], addr) :
       Settle(c, AccessLevel(c, Level(c), addr, Bytes, store, w), Level("l2"),
              Stored(addr, store), {})

(* A miss first writes the victim back, if that is dirty, and then reads   *)
(* the block from the next level.                                          *)
Miss(c, addr, store) ==
  /\ Misses(c, tags[c], addr)
  /\ \E v \in Victims(c, tags[c], addr) :
       LET l1 == AccessLevel(c, Level(c), addr, Bytes, store, v)
           dirty_addr == LineAddress(c, tags[c][v].line)
           block == BlockAddress(c, addr)
           size == Config[c].linesz
       IN  \/ /\ ~WritesBack(c, tags[c], addr, v)
              /\ \E w \in Victims("l2", tags["l2"], block) :
                   Settle(c, l1, AccessLevel("l2", Level("l2"), block, size, FALSE, w),
                          Stored(addr, store), WrittenLine(Level("l2"), block, w))
           \/ /\ WritesBack(c, tags[c], addr, v)
              /\ \E u \in Victims("l2", tags["l2"], dirty_addr) :
                   LET mid == AccessLevel("l2", Level("l2"), dirty_addr, size, TRUE, u)
                   IN  \E w \in Victims("l2", mid.t, block) :
                         Settle(c, l1, AccessLevel("l2", mid, block, size, FALSE, w),
                                Stored(addr, store),
                                WrittenLine(Level("l2"), dirty_addr, u)
                                  \union WrittenLine(mid, block, w))

Accesses(c) == stats[c]["read_accesses"] + stats[c]["write_accesses"]

Access(c, addr, store) == Hit(c, addr, store) \/ Miss(c, addr, store)

(* memtracer_list_t::trace: a fetch is for the instruction cache, anything *)
(* else for the data cache.                                                *)
Trace(addr, store, fetch) ==
  /\ Accesses("ic") + Accesses("dc") < MaxAccesses
  /\ fetch => ~store
  /\ Access(IF fetch THEN "ic" ELSE "dc", addr, store)

Ended == Accesses("ic") + Accesses("dc") = MaxAccesses /\ UNCHANGED vars

Next ==
  \/ \E addr \in Addresses, store \in BOOLEAN, fetch \in BOOLEAN : Trace(addr, store, fetch)
  \/ Ended

Spec == Init /\ [][Next]_vars

-----------------------------------------------------------------------------
Present(c, t) == {w \in Way(c) : t[w].valid}
Dirty(c, t) == {w \in Present(c, t) : t[w].dirty}

(* However the levels evict, a store is never lost on its way to memory,   *)
(* nor written twice: a line is dirty in the data cache or below exactly   *)
(* as long as it covers an address whose last store is not in memory.      *)
DirtyIffUnsaved ==
  /\ \A a \in unsaved : \E c \in {"dc", "l2"} : DirtyIn(c, tags[c], a)
  /\ \A c \in Cache : \A w \in Way(c) :
       tags[c][w].valid /\ tags[c][w].dirty =>
         \E a \in unsaved : Line(c, a) = tags[c][w].line

(* A line is in one way only, and where check_tag looks for it.            *)
OneWayPerLine ==
  \A c \in Cache : \A v, w \in Way(c) :
    /\ tags[c][v].valid => v[1] = SetOf(c, tags[c][v].line)
    /\ tags[c][v].valid /\ tags[c][w].valid /\ tags[c][v].line = tags[c][w].line => v = w

(* The statistics of the two levels agree: what one asks for, the next has *)
(* been asked. A line has to be stored to before it is written back, and   *)
(* missed before it is present.                                            *)
StatisticsAgree ==
  LET s(c, k) == stats[c][k]
      misses(c) == s(c, "read_misses") + s(c, "write_misses")
  IN  /\ s("l2", "read_accesses") = misses("ic") + misses("dc")
      /\ s("l2", "write_accesses") = s("ic", "writebacks") + s("dc", "writebacks")
      /\ s("l2", "bytes_read")
           = misses("ic") * Config["ic"].linesz + misses("dc") * Config["dc"].linesz
      /\ \A c \in Cache :
           /\ Cardinality(Present(c, tags[c])) <= misses(c)
           /\ Cardinality(Dirty(c, tags[c])) + s(c, "writebacks") <= s(c, "write_accesses")
=============================================================================
