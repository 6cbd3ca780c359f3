--------------------------- MODULE LockstepChecker ---------------------------
(***************************************************************************)
(* What the functional simulator, the debug buffer and checkInstruction    *)
(* promise together to the RTL: a bounded queue of architecturally retired *)
(* instructions whose program counters form one unbroken path, handed over *)
(* oldest first, each exactly once, and a verdict that compares the RTL's  *)
(* report with the instruction at the front of that queue.                 *)
(*                                                                         *)
(* CoSim implements this specification; nothing here mentions ring         *)
(* indices, refills or valid bits.                                         *)
(***************************************************************************)
EXTENDS Naturals, Sequences

CONSTANTS
  Pc,        (* program counters                                           *)
  Result,    (* what an instruction leaves in its destination register     *)
  NoRd,      (* an instruction without destination register                *)
  State,     (* the control registers that check_state compares            *)
  Report,    (* what the RTL may report of an instruction: pc, rd, state    *)
  Capacity   (* how far the functional simulator may be ahead              *)

VARIABLES
  queue,     (* instructions retired functionally, not yet by the RTL      *)
  issue_pc,  (* next instruction the functional simulator will retire      *)
  commit_pc, (* next instruction the RTL has to retire                     *)
  verdict    (* answer to the RTL's last report                            *)

vars == <<queue, issue_pc, commit_pc, verdict>>

Instr == [pc : Pc, next_pc : Pc, rd : Result \union {NoRd}, state : State]

(* The RTL's register result matters only if the instruction writes one.   *)
Matches(e, r) ==
  /\ r.pc = e.pc
  /\ e.rd # NoRd => r.rd = e.rd
  /\ r.state = e.state

Init ==
  /\ queue = <<>>
  /\ issue_pc \in Pc
  /\ commit_pc = issue_pc
  /\ verdict = TRUE

Retire(e) ==
  /\ Len(queue) < Capacity
  /\ e.pc = issue_pc
  /\ queue' = Append(queue, e)
  /\ issue_pc' = e.next_pc
  /\ UNCHANGED <<commit_pc, verdict>>

Commit(r) ==
  /\ queue # <<>>
  /\ Head(queue).pc = commit_pc
  /\ verdict' = Matches(Head(queue), r)
  /\ commit_pc' = Head(queue).next_pc
  /\ queue' = Tail(queue)
  /\ UNCHANGED issue_pc

(* A further micro-operation of an instruction already reported.           *)
CommitFission ==
  /\ verdict' = TRUE
  /\ UNCHANGED <<queue, issue_pc, commit_pc>>

Next ==
  \/ \E e \in Instr : Retire(e)
  \/ \E r \in Report : Commit(r)
  \/ CommitFission

Spec == Init /\ [][Next]_vars
=============================================================================
