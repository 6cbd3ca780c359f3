--------------------------------- MODULE MHart --------------------------------
(* Hart with registers of a few values. *)
EXTENDS Hart

(* A kernel that masks the host, and a user program that takes both lines; *)
(* each is written with pending lines that may be out of date.             *)
Writes ==
  {[S |-> s, PS |-> FALSE, EI |-> ~s, PEI |-> FALSE,
    IM |-> IF s THEN {IRQ_TIMER} ELSE Irq, IP |-> p]
     : s \in BOOLEAN, p \in {{}, {IRQ_TIMER}}}
===============================================================================
