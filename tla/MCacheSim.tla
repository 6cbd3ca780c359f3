----------------------------- MODULE MCacheSim -----------------------------
(***************************************************************************)
(* The smallest hierarchy in which everything happens: a direct mapped     *)
(* instruction cache of one line, a data cache of two sets, and below them *)
(* a fully associative cache of two lines, each twice as long.             *)
(***************************************************************************)
EXTENDS CacheSim

SmallConfig ==
  [ic |-> [sets |-> 1, ways |-> 1, linesz |-> 8],
   dc |-> [sets |-> 2, ways |-> 1, linesz |-> 8],
   l2 |-> [sets |-> 1, ways |-> 2, linesz |-> 16]]

(* A data line of two blocks, two lines that share a line of the next      *)
(* level, and two more that compete for both.                              *)
FewAddresses == {0, 8, 16, 32, 64}
=============================================================================
