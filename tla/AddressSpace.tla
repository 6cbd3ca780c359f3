----------------------------- MODULE AddressSpace -----------------------------
(***************************************************************************)
(* What the program, and the RTL through the DPI, may rely on when they    *)
(* access memory: the TLB and the instruction cache "are maintained for    *)
(* simulator performance" (mmu.h:38) and are not to be seen. Every access  *)
(* is decided by the mode the core is in now and by a page table entry of  *)
(* the page: the present one or, until the program reads the FATC          *)
(* register, one the page has had since it last did. A fetch returns what  *)
(* the page holds or has held since the last FENCE.I.                      *)
(*                                                                         *)
(* Mmu implements this specification for the functional simulator.         *)
(***************************************************************************)
EXTENDS PageTable

CONSTANT Word      (* what a page may hold                                 *)

VARIABLES
  sr,        (* mode                                                       *)
  table,     (* the page table in force                                    *)
  mem,       (* memory                                                     *)
  views,     (* entries each page has had since FATC was last read         *)
  code,      (* words each physical page has held since the last FENCE.I   *)
  answer     (* result of the last access                                  *)

vars == <<sr, table, mem, views, code, answer>>

NoAccess == [kind |-> "none"]

(* The translations that may serve an access to v.                         *)
Translations(v) == { Walk(sr, v, pte) : pte \in views[v] }

Answer(k, v, out) == answer' = [kind |-> k, page |-> v, out |-> out]

Init ==
  /\ sr = [S |-> TRUE, VM |-> FALSE]
  /\ table \in [Vpn -> Pte]
  /\ mem \in [Ppn -> Word]
  /\ views = [v \in Vpn |-> {table[v]}]
  /\ code = [p \in Ppn |-> {mem[p]}]
  /\ answer = NoAccess

(* A misaligned access, or one without permission, traps: at once to       *)
(* supervisor mode if it was an instruction's, otherwise by a later one.   *)
Trap(k, v) ==
  /\ \/ Answer(k, v, "misaligned")
     \/ /\ \E pte \in Translations(v) : k \notin Permissions(sr, pte)
        /\ Answer(k, v, "fault")
  /\ sr' \in {sr, [sr EXCEPT !.S = TRUE]}
  /\ UNCHANGED <<table, mem, views, code>>

Load(v) ==
  /\ \E pte \in Translations(v) :
       /\ "load" \in Permissions(sr, pte)
       /\ Answer("load", v, mem[pte.ppn])
  /\ UNCHANGED <<sr, table, mem, views, code>>

Write(p, w) ==
  /\ mem' = [mem EXCEPT ![p] = w]
  /\ code' = [code EXCEPT ![p] = @ \union {w}]
  /\ UNCHANGED <<sr, table, views>>

Store(v, w) ==
  \E pte \in Translations(v) :
    /\ "store" \in Permissions(sr, pte)
    /\ Answer("store", v, w)
    /\ Write(pte.ppn, w)

Fetch(v) ==
  /\ \E pte \in Translations(v) :
       /\ "fetch" \in Permissions(sr, pte)
       /\ \E w \in code[pte.ppn] : Answer("fetch", v, w)
  /\ UNCHANGED <<sr, table, mem, views, code>>

HostWrites(p, w) == Write(p, w) /\ UNCHANGED answer

SetStatus(s) == sr' = s /\ UNCHANGED <<table, mem, views, code, answer>>

SetTable(t) ==
  /\ table' = t
  /\ views' = [v \in Vpn |-> views[v] \union {t[v]}]
  /\ UNCHANGED <<sr, mem, code, answer>>

ReadFatc ==
  /\ views' = [v \in Vpn |-> {table[v]}]
  /\ UNCHANGED <<sr, table, mem, code, answer>>

FenceI ==
  /\ code' = [p \in Ppn |-> {mem[p]}]
  /\ UNCHANGED <<sr, table, mem, views, answer>>

Next ==
  \/ \E k \in Kind, v \in Vpn : Trap(k, v)
  \/ \E v \in Vpn : Load(v) \/ Fetch(v)
  \/ \E v \in Vpn, w \in Word : Store(v, w)
  \/ \E p \in Ppn, w \in Word : HostWrites(p, w)
  \/ \E s \in Status : SetStatus(s)
  \/ \E t \in [Vpn -> Pte] : SetTable(t)
  \/ ReadFatc
  \/ FenceI

Spec == Init /\ [][Next]_vars
=============================================================================
