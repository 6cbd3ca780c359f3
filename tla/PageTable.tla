------------------------------ MODULE PageTable ------------------------------
(***************************************************************************)
(* Address translation without caches: what mmu_t::walk returns for a page *)
(* and what refill_tlb makes of its permission bits (isa_sim_dpi/mmu.cc).  *)
(* AddressSpace and Mmu are both stated with these operators.              *)
(*                                                                         *)
(* Pages are numbers: a virtual page number selects the TLB entry by a     *)
(* remainder, and an entry keeps the difference between the two pages. The *)
(* levels of the tree are left out: a table gives each page its leaf.      *)
(***************************************************************************)
EXTENDS Integers

CONSTANTS
  NumVpn,    (* virtual pages the program uses                             *)
  NumPpn,    (* memsz, in pages                                            *)
  Pte        (* page table entries that occur                              *)

Vpn == 0 .. (NumVpn - 1)

Ppn == 0 .. (NumPpn - 1)

Kind == {"fetch", "load", "store"}

(* user and super hold the kinds of access the six permission bits allow.  *)
Leaf == [valid : BOOLEAN, ppn : Nat, user : SUBSET Kind, super : SUBSET Kind]

ASSUME PageTableAssumption ==
  /\ NumVpn \in Nat \ {0}
  /\ NumPpn \in Nat \ {0}
  /\ Pte \subseteq Leaf

(* The bits of the status register translation depends on.                 *)
Status == [S : BOOLEAN, VM : BOOLEAN]

NoPte == [valid |-> FALSE, ppn |-> 0, user |-> {}, super |-> {}]

(* Virtual memory off: the address itself, with every permission.          *)
BarePte(v) ==
  IF v \in Ppn
  THEN [valid |-> TRUE, ppn |-> v, user |-> Kind, super |-> Kind]
  ELSE NoPte

(* walk, when the leaf it finds is pte: an entry that is invalid or points *)
(* beyond the memory translates nothing.                                   *)
Walk(sr, v, pte) ==
  IF ~sr.VM THEN BarePte(v)
  ELSE IF pte.valid /\ pte.ppn \in Ppn THEN pte
  ELSE NoPte

(* pte_perm: supervisor bits are shifted into the place of the user bits.  *)
Permissions(sr, pte) ==
  IF ~pte.valid THEN {} ELSE IF sr.S THEN pte.super ELSE pte.user
=============================================================================
