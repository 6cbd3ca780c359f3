-------------------------------- MODULE MMmu --------------------------------
(***************************************************************************)
(* Mmu for TLC: the page table entries of the instances.                   *)
(***************************************************************************)
EXTENDS Mmu

(* A page the user may read and execute and the supervisor may write, and *)
(* an invalid entry. With virtual memory off every page is its own frame.  *)
MCPte ==
  { [valid |-> TRUE, ppn |-> 1, user |-> {"fetch", "load"}, super |-> {"load", "store"}],
    NoPte }
=============================================================================
