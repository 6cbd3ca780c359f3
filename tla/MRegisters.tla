------------------------------ MODULE MRegisters ------------------------------
(* Registers with the instructions of small programs. *)
EXTENDS Registers

Insns(op, csr, values) == [op : {op}, pc : {4}, csr : {csr}, rs1 : values]

(* Status values: supervisor programs with and without the floating-point  *)
(* unit, one with lines that are not pending any more, and a user program. *)
Statuses ==
  {{"S", "S64", "U64", "EF"}, {"S", "PS", "EI", "EA", "HOST", "TIMER"},
   {"PS", "PEI", "EF", "U64"}}

SmallPrograms ==
  Insns("csrrw", "STATUS", Statuses)
    \union Insns("csrrs", "STATUS", {{"EF"}}) \union Insns("csrrc", "STATUS", {{"S64", "IPI"}})
    \union Insns("csrrw", "FCSR", {[fflags |-> {"invalid"}, frm |-> 1]})
    \union Insns("csrrs", "FFLAGS", {{"overflow"}}) \union Insns("csrrw", "FRM", {2})
    \union Insns("csrrw", "EPC", {5}) \union Insns("csrrw", "EVEC", {5})
    \union Insns("csrrw", "COUNT", {2, 6}) \union Insns("csrrw", "COUNTH", {1})
    \union Insns("csrrw", "COMPARE", {1, 3}) \union Insns("csrrw", "SUP0", {1})
    \union Insns("csrrw", "SEND_IPI", {0, 1}) \union Insns("csrrw", "CLEAR_IPI", {0, 1})
    \union Insns("csrrw", "BADVADDR", {1}) \union Insns("csrrw", "CAUSE", {1})
    \union Insns("csrrw", "TOHOST", {1, 2}) \union Insns("csrrw", "FROMHOST", {0, 3})
    \union [op : {"csrr"}, pc : {4}, csr : {"STATUS", "COMPARE", "CYCLE", "SEND_IPI",
                                            "BADVADDR", "CAUSE", "EPC", "TOHOST"}]
    \union [op : {"fp"}, pc : {4}, flags : {{"inexact"}}]
    \union [op : {"load"}, pc : {4}, addr : {8}]
    \union [op : {"scall", "sret", "addi"}, pc : {4}]
===============================================================================
