------------------------------ MODULE Registers ------------------------------
(***************************************************************************)
(* The control registers in co-simulation.  The functional simulator       *)
(* writes them in processor_t::set_pcr; the RTL writes those of the DPI    *)
(* simulator in the function of that name in riscv_dpi.cc, instructions    *)
(* later, and check_state then compares the two state_t's.                 *)
(*                                                                         *)
(* The RTL is not in the repository.  It is taken to do what the comments  *)
(* and signatures of the DPI functions expect of it: it decides on its own *)
(* whether an instruction traps, reads and writes registers through        *)
(* get_pcr and set_pcr, calls checkInstruction, and then advances COUNT.   *)
(* It calls htif_tick after as many instructions as the functional         *)
(* simulator does, and both hosts, which run the same program, send the    *)
(* same packet then.  What dpisim_t mirrors into the RTL's own copy of     *)
(* STATUS and FROMHOST is left out.  Once it has read a value that the     *)
(* functional simulator has not, it runs another program, so the model     *)
(* follows it no further.                                                  *)
(*                                                                         *)
(* SR_IM is zero: CoSim shows what becomes of interrupts.  An instruction  *)
(* [op, pc] has csr and rs1, flags, or addr as its kind needs.  Values     *)
(* with fields are sets of their bits.                                     *)
(***************************************************************************)
EXTENDS Integers, Sequences

CONSTANTS
  Instruction,   (* the instructions programs consist of                   *)
  LowSize,       (* 2^32: the size of the lower half of count              *)
  HighSize,      (* the size of its upper half                             *)
  INTERLEAVE,    (* instructions between two ticks                         *)
  Answer,        (* what the host writes to fromhost                       *)
  MaxAhead,      (* instructions and ticks the RTL may be behind           *)
  MaxInsns       (* bound: instructions of the program                     *)

ASSUME SizesAssumption ==
  /\ LowSize \in Nat \ {0} /\ HighSize \in Nat \ {0} /\ INTERLEAVE \in Nat \ {0}
  /\ MaxAhead \in Nat /\ MaxInsns \in Nat

FpCsr == {"FFLAGS", "FRM", "FCSR"}
Csr == FpCsr \union
  {"STATUS", "EPC", "BADVADDR", "EVEC", "COUNT", "COUNTH", "CYCLE", "COMPARE",
   "CAUSE", "SEND_IPI", "CLEAR_IPI", "SUP0", "TOHOST", "FROMHOST"}

CsrWrite == {"csrrw", "csrrs", "csrrc"}
CsrInsn == {"csrr"} \union CsrWrite

(* The registers modelled; programs may name each of them.                 *)
ASSUME ProgramAssumption ==
  \A i \in Instruction : i.op \in CsrInsn => i.csr \in Csr

VARIABLES
  isa,        (* s_isa's core: state_t and rv64                            *)
  dpi,        (* s_dpi's core: state_t                                     *)
  buffer,     (* what the RTL has still to do: entries of the debug        *)
              (*   buffer, and the packets of the ticks between them       *)
  steps,      (* current_step of s_isa                                     *)
  executed,
  verdict,    (* the last check: [state, value], TRUE if it passed, and    *)
              (*   what was stray of the register it read                  *)
  states,     (* history: isa.state before each element of buffer and now  *)
  stray       (* history: of BADVADDR and CAUSE, which processor_t does    *)
              (*   not let a program write, those it has written since     *)
              (*   a trap last set them                                    *)

vars == <<isa, dpi, buffer, steps, executed, verdict, states, stray>>

-----------------------------------------------------------------------------
(* processor_t                                                             *)

SR_IP == {"IPI", "HOST", "TIMER"}
Kept == {"S", "PS", "EI", "PEI", "EF", "S64", "U64"}

\* One assignment to a field of state_t.
Put(s, field, val) == [s EXCEPT ![field] = val]
PutFcsr(s, val) == Put(Put(s, "fflags", val.fflags), "frm", val.frm)

SetInterrupt(s, irq, on) ==
  Put(s, "sr", IF on THEN s.sr \union {irq} ELSE s.sr \ {irq})

SetFromhost(s, val) ==
  Put(SetInterrupt(s, "HOST", val # 0), "fromhost", val)

Is64(sr) == IF "S" \in sr THEN "S64" \in sr ELSE "U64" \in sr

\* The program's value for STATUS: pending lines are not its to write, and
\* SR_EA goes for want of an extension.
SetStatus(s, val) ==
  Put(s, "sr", (val \intersect Kept) \union (s.sr \intersect SR_IP))

Aligned(val) == val - (val % 4)
WithUpper(count, val) == (val * LowSize) + (count % LowSize)

\* sim_t::send_ipi and deliver_ipi: the one core, if it is the one named.
SendIpi(s, who) == IF who = 0 THEN SetInterrupt(s, "IPI", TRUE) ELSE s

ClearIpi(s, val) == SetInterrupt(s, "IPI", val = 1)
SetCompare(s, val) == Put(SetInterrupt(s, "TIMER", FALSE), "compare", val)
SetTohost(s, val) == IF s.tohost = 0 THEN Put(s, "tohost", val) ELSE s

\* The registers that set_pcr stores as they are written, and their fields.
Plain == [FFLAGS |-> "fflags", FRM |-> "frm", EPC |-> "epc", COUNT |-> "count",
          SUP0 |-> "pcr_k0"]

\* A register that set_pcr has no case for stays as it is.
WithPcr(s, which, val) ==
  CASE which \in DOMAIN Plain -> Put(s, Plain[which], val)
    [] which = "FCSR" -> PutFcsr(s, val)
    [] which = "STATUS" -> SetStatus(s, val)
    [] which = "EVEC" -> Put(s, "evec", Aligned(val))
    [] which = "COUNTH" -> Put(s, "count", WithUpper(s.count, val))
    [] which = "COMPARE" -> SetCompare(s, val)
    [] which = "SEND_IPI" -> SendIpi(s, val)
    [] which = "CLEAR_IPI" -> ClearIpi(s, val)
    [] which = "TOHOST" -> SetTohost(s, val)
    [] which = "FROMHOST" -> SetFromhost(s, val)
    [] OTHER -> s

SetPcr(p, which, val) ==
  LET s == WithPcr(p.state, which, val)
  IN [state |-> s, rv64 |-> IF which = "STATUS" THEN Is64(s.sr) ELSE p.rv64]

GetPcr(s, which) ==
  CASE which = "FFLAGS" -> s.fflags
    [] which = "FRM" -> s.frm
    [] which = "FCSR" -> [fflags |-> s.fflags, frm |-> s.frm]
    [] which = "STATUS" -> s.sr
    [] which = "EPC" -> s.epc
    [] which = "BADVADDR" -> s.badvaddr
    [] which = "EVEC" -> s.evec
    [] which \in {"COUNT", "CYCLE"} -> s.count
    [] which = "COUNTH" -> s.count \div LowSize
    [] which = "COMPARE" -> s.compare
    [] which = "CAUSE" -> s.cause
    [] which \in {"SEND_IPI", "CLEAR_IPI"} -> 0
    [] which = "SUP0" -> s.pcr_k0
    [] which = "TOHOST" -> s.tohost
    [] which = "FROMHOST" -> s.fromhost

\* state_t::reset; processor_t::reset passes sr through set_pcr.
Reset ==
  [sr |-> {"S", "S64", "U64"}, fflags |-> {}, frm |-> 0, epc |-> 0, badvaddr |-> 0,
   evec |-> 0, count |-> 0, compare |-> 0, cause |-> 0, pcr_k0 |-> 0,
   tohost |-> 0, fromhost |-> 0]

-----------------------------------------------------------------------------
(* Instructions                                                            *)

NoTrap == -1
CAUSE_ILLEGAL_INSTRUCTION == 2
CAUSE_PRIVILEGED_INSTRUCTION == 3
CAUSE_FP_DISABLED == 4
CAUSE_SYSCALL == 6
CAUSE_FAULT_LOAD == 10

\* validate_csr: only the floating-point registers, and the counter under
\* its read-only names, are open to user programs.
Forbidden(sr, i) ==
  \/ "S" \notin sr /\ i.csr \notin FpCsr \union {"CYCLE"}
  \/ i.op # "csrr" /\ i.csr = "CYCLE"

\* What instruction i throws: validate_csr, get_pcr, require_supervisor,
\* require_fp, or the instruction itself.
Thrown(sr, rv64, i) ==
  CASE i.op \in CsrInsn ->
         IF Forbidden(sr, i) THEN CAUSE_PRIVILEGED_INSTRUCTION
         ELSE IF i.csr \in FpCsr /\ "EF" \notin sr THEN CAUSE_FP_DISABLED
         ELSE IF i.csr = "COUNTH" /\ rv64 THEN CAUSE_ILLEGAL_INSTRUCTION
         ELSE NoTrap
    [] i.op = "sret" -> IF "S" \in sr THEN NoTrap ELSE CAUSE_PRIVILEGED_INSTRUCTION
    [] i.op = "fp" -> IF "EF" \in sr THEN NoTrap ELSE CAUSE_FP_DISABLED
    [] i.op = "scall" -> CAUSE_SYSCALL
    [] i.op = "load" -> CAUSE_FAULT_LOAD
    [] OTHER -> NoTrap

\* What a csr instruction writes; csrr is csrrs with x0, and writes back.
Written(i, old) ==
  CASE i.op = "csrr" -> old
    [] i.op = "csrrw" -> i.rs1
    [] i.op = "csrrs" -> old \union i.rs1
    [] i.op = "csrrc" -> old \ i.rs1

Bit(b, name) == IF b THEN {name} ELSE {}

\* The STATUS that take_trap, and that sret, asks set_pcr for.
TrapStatus(sr) ==
  ((sr \ {"EI", "PS", "PEI"}) \union {"S"})
    \union Bit("S" \in sr, "PS") \union Bit("EI" \in sr, "PEI")
SretStatus(sr) ==
  (sr \ {"S", "EI"}) \union Bit("PS" \in sr, "S") \union Bit("PEI" \in sr, "EI")

\* take_trap, with the side effects of a memory trap.
TakeTrap(p, cause, i) ==
  LET q == SetPcr(p, "STATUS", TrapStatus(p.state.sr))
      s == Put(Put(q.state, "cause", cause), "epc", i.pc)
  IN [q EXCEPT !.state = IF i.op = "load" THEN Put(s, "badvaddr", i.addr) ELSE s]

\* The body of instruction i, or the trap that ends it.
Executes(p, i) ==
  LET s == p.state
      cause == Thrown(s.sr, p.rv64, i)
  IN CASE cause # NoTrap -> TakeTrap(p, cause, i)
       [] cause = NoTrap /\ i.op \in CsrInsn ->
            SetPcr(p, i.csr, Written(i, GetPcr(s, i.csr)))
       [] cause = NoTrap /\ i.op = "sret" -> SetPcr(p, "STATUS", SretStatus(s.sr))
       [] cause = NoTrap /\ i.op = "fp" ->
            [p EXCEPT !.state = Put(s, "fflags", s.fflags \union i.flags)]
       [] OTHER -> p

\* The destination pushed into the debug buffer, if there is one.
Destination(p, i) ==
  IF i.op \in CsrInsn /\ Thrown(p.state.sr, p.rv64, i) = NoTrap
  THEN <<GetPcr(p.state, i.csr)>> ELSE <<>>

\* update_timer after one instruction.
UpdateTimer(s) ==
  LET n == Put(s, "count", (s.count + 1) % (LowSize * HighSize))
  IN IF (s.count % LowSize) + 1 = s.compare
     THEN Put(n, "sr", n.sr \union {"TIMER"}) ELSE n

-----------------------------------------------------------------------------
(* The DPI functions                                                       *)

DpiInterrupt(s, irq, on) ==
  Put(s, "sr", IF on THEN s.sr \union {irq} ELSE s.sr \ {irq})

DpiStatus(s, val) ==
  Put(s, "sr", (val \intersect Kept) \union (s.sr \intersect SR_IP))

(* Fault: the timer stays pending.                                         *)
DpiCompareOnly(s, val) == Put(s, "compare", val)

DpiCompare(s, val) == Put(DpiInterrupt(s, "TIMER", FALSE), "compare", val)

DpiClearIpi(s, val) == DpiInterrupt(s, "IPI", val = 1)
DpiTohost(s, val) == IF s.tohost = 0 THEN Put(s, "tohost", val) ELSE s
DpiFromhost(s, val) == Put(DpiInterrupt(s, "HOST", val # 0), "fromhost", val)

DpiPlain == [FFLAGS |-> "fflags", FRM |-> "frm", EPC |-> "epc", COUNT |-> "count",
             SUP0 |-> "pcr_k0", BADVADDR |-> "badvaddr", CAUSE |-> "cause"]

DpiSetPcr(s, which, val) ==
  CASE which \in DOMAIN DpiPlain -> Put(s, DpiPlain[which], val)
    [] which = "FCSR" -> PutFcsr(s, val)
    [] which = "STATUS" -> DpiStatus(s, val)
    [] which = "EVEC" -> Put(s, "evec", Aligned(val))
    [] which = "COUNTH" -> Put(s, "count", WithUpper(s.count, val))
    [] which = "COMPARE" -> DpiCompare(s, val)
    [] which = "SEND_IPI" -> SendIpi(s, val)
    [] which = "CLEAR_IPI" -> DpiClearIpi(s, val)
    [] which = "TOHOST" -> DpiTohost(s, val)
    [] which = "FROMHOST" -> DpiFromhost(s, val)
    [] OTHER -> s

DpiGetPcr(s, which) ==
  CASE which = "FFLAGS" -> s.fflags
    [] which = "FRM" -> s.frm
    [] which = "FCSR" -> [fflags |-> s.fflags, frm |-> s.frm]
    [] which = "STATUS" -> s.sr
    [] which = "EPC" -> s.epc
    [] which = "BADVADDR" -> s.badvaddr
    [] which = "EVEC" -> s.evec
    [] which \in {"COUNT", "CYCLE"} -> s.count
    [] which = "COUNTH" -> s.count \div LowSize
    [] which = "COMPARE" -> s.compare
    [] which = "CAUSE" -> s.cause
    [] which \in {"SEND_IPI", "CLEAR_IPI"} -> 0
    [] which = "SUP0" -> s.pcr_k0
    [] which = "TOHOST" -> s.tohost
    [] which = "FROMHOST" -> s.fromhost

-----------------------------------------------------------------------------
(* The RTL (external)                                                      *)

RtlThrown(s, i) ==
  LET sr == DpiGetPcr(s, "STATUS") IN Thrown(sr, Is64(sr), i)

RtlTrap(s, cause, i) ==
  LET s1 == DpiSetPcr(s, "STATUS", TrapStatus(DpiGetPcr(s, "STATUS")))
      s2 == DpiSetPcr(s1, "CAUSE", cause)
      s3 == DpiSetPcr(s2, "EPC", i.pc)
  IN IF i.op = "load" THEN DpiSetPcr(s3, "BADVADDR", i.addr) ELSE s3

RtlExecutes(s, i) ==
  LET cause == RtlThrown(s, i)
  IN CASE cause # NoTrap -> RtlTrap(s, cause, i)
       [] cause = NoTrap /\ i.op \in CsrInsn ->
            DpiSetPcr(s, i.csr, Written(i, DpiGetPcr(s, i.csr)))
       [] cause = NoTrap /\ i.op = "sret" ->
            DpiSetPcr(s, "STATUS", SretStatus(DpiGetPcr(s, "STATUS")))
       [] cause = NoTrap /\ i.op = "fp" ->
            DpiSetPcr(s, "FFLAGS", DpiGetPcr(s, "FFLAGS") \union i.flags)
       [] OTHER -> s

RtlDestination(s, i) ==
  IF i.op \in CsrInsn /\ RtlThrown(s, i) = NoTrap
  THEN <<DpiGetPcr(s, i.csr)>> ELSE <<>>

\* A trap sets CAUSE, and that of a load BADVADDR.
Trapped(i) == {"cause"} \union Bit(i.op = "load", "badvaddr")

\* The field that i names and that only the DPI's set_pcr has a case for.
Unwritable(i) ==
  IF i.op \in CsrInsn
  THEN Bit(i.csr = "BADVADDR", "badvaddr") \union Bit(i.csr = "CAUSE", "cause")
  ELSE {}

\* History: what is stray after i, which begins in state s.
Strays(s, i) ==
  IF RtlThrown(s, i) # NoTrap THEN stray \ Trapped(i)
  ELSE IF i.op \in CsrWrite THEN stray \union Unwritable(i) ELSE stray

RtlCounts(s) ==
  LET count == DpiGetPcr(s, "COUNT")
      n == DpiSetPcr(s, "COUNT", (count + 1) % (LowSize * HighSize))
  IN IF (count % LowSize) + 1 = DpiGetPcr(s, "COMPARE")
     THEN DpiInterrupt(n, "TIMER", TRUE) ELSE n

-----------------------------------------------------------------------------
(* The two simulators                                                      *)

\* check_state; the fields that are commented out there are not compared.
SameState(micro, actual) ==
  /\ micro.badvaddr = actual.badvaddr
  /\ micro.tohost = actual.tohost
  /\ micro.fromhost = actual.fromhost
  /\ micro.count = actual.count
  /\ micro.sr = actual.sr
  /\ micro.fflags = actual.fflags
  /\ micro.frm = actual.frm

\* dpisim_t::set_fromhost.
MicroFromhost(s, val) ==
  Put(Put(s, "sr", IF val # 0 THEN s.sr \union {"HOST"} ELSE s.sr \ {"HOST"}),
      "fromhost", val)

(* What the host of a program asks of htif_isasim_t::tick_once: it fetches *)
(* a request, or offers an answer.                                         *)
Packet == {[cmd |-> "tohost"]} \union [cmd : {"fromhost"}, val : Answer]

IsaServes(s, p) ==
  IF p.cmd = "tohost" THEN Put(s, "tohost", 0)
  ELSE IF s.fromhost = 0 THEN SetFromhost(s, p.val) ELSE s

DpiServes(s, p) ==
  IF p.cmd = "tohost" THEN Put(s, "tohost", 0)
  ELSE IF s.fromhost = 0 THEN MicroFromhost(s, p.val) ELSE s

Init ==
  /\ isa = [state |-> Reset, rv64 |-> TRUE]
  /\ dpi = Reset
  /\ buffer = <<>>
  /\ steps = 0
  /\ executed = 0
  /\ verdict = [state |-> TRUE, value |-> TRUE, stray |-> {}]
  /\ states = <<Reset>>
  /\ stray = {}

(* Fault: the state is pushed after the instruction has been counted.      *)
SnapshotLate(p) == UpdateTimer(p.state)

\* push_state_actual, at the end of execute_insn and of the trap's handler.
Snapshot(p) == p.state

\* Instruction i, the first half of s_isa->step(1).
IsaExecutes(i) ==
  LET p == Executes(isa, i)
      q == [p EXCEPT !.state = UpdateTimer(@)]
  IN /\ steps < INTERLEAVE
     /\ Len(buffer) < MaxAhead
     /\ executed < MaxInsns
     /\ buffer' = Append(buffer,
          [insn |-> i, rdst |-> Destination(isa, i), a_state |-> Snapshot(p)])
     /\ isa' = q
     /\ states' = Append(states, q.state)
     /\ steps' = steps + 1
     /\ executed' = executed + 1
     /\ UNCHANGED <<dpi, verdict, stray>>

\* The turn is over: the second half of the call.
IsaTicks(p) ==
  /\ steps = INTERLEAVE
  /\ steps' = 0
  /\ buffer' = Append(buffer, [packet |-> p])
  /\ isa' = [isa EXCEPT !.state = IsaServes(@, p)]
  /\ states' = Append(states, IsaServes(isa.state, p))
  /\ UNCHANGED <<dpi, executed, verdict, stray>>

IsTick(e) == "packet" \in DOMAIN e

\* The RTL commits its next instruction, and checkInstruction compares.
RtlCommits ==
  /\ steps < INTERLEAVE
  /\ verdict.value
  /\ buffer # <<>> /\ ~IsTick(Head(buffer))
  /\ LET e == Head(buffer)
         s == RtlExecutes(dpi, e.insn)
     IN /\ verdict' = [state |-> SameState(s, e.a_state),
                       value |-> RtlDestination(dpi, e.insn) = e.rdst,
                       stray |-> stray \intersect Unwritable(e.insn)]
        /\ dpi' = RtlCounts(s)
        /\ stray' = Strays(dpi, e.insn)
  /\ buffer' = Tail(buffer)
  /\ states' = Tail(states)
  /\ UNCHANGED <<isa, steps, executed>>

\* htif_tick.
RtlTicks ==
  /\ steps < INTERLEAVE
  /\ verdict.value
  /\ buffer # <<>> /\ IsTick(Head(buffer))
  /\ dpi' = DpiServes(dpi, Head(buffer).packet)
  /\ buffer' = Tail(buffer)
  /\ states' = Tail(states)
  /\ UNCHANGED <<isa, steps, executed, verdict, stray>>

\* The program has come to its end, and the RTL as well, or the RTL has left
\* the program.
Ended ==
  /\ steps < INTERLEAVE
  /\ \/ executed = MaxInsns /\ buffer = <<>>
     \/ ~verdict.value
  /\ UNCHANGED vars

Next ==
  \/ \E i \in Instruction : IsaExecutes(i)
  \/ \E p \in Packet : IsaTicks(p)
  \/ RtlCommits
  \/ RtlTicks
  \/ Ended

Spec == Init /\ [][Next]_vars

-----------------------------------------------------------------------------
(* Properties.                                                             *)

(* checkInstruction finds no fault with an RTL that makes none, whatever   *)
(* the program writes and whatever lines rise on either side in between:   *)
(* the values that csr instructions read are the same, and so is every     *)
(* register that check_state looks at, at the moment it does.  The only    *)
(* false alarms are those of a program that has itself written BADVADDR or *)
(* CAUSE, which processor_t::set_pcr ignores and the DPI's stores: the     *)
(* check of state, until a load faults, if it was BADVADDR, and the check  *)
(* of the value, if the instruction reads what is stray.                   *)
ChecksPass ==
  /\ verdict.state \/ "badvaddr" \in stray
  /\ verdict.value \/ verdict.stray # {}

(* After each instruction and tick the DPI simulator is where the          *)
(* functional simulator was after the same one, in the registers that      *)
(* check_state does not look at, too.  Of every program that is true of    *)
(* all fields but BADVADDR and CAUSE, and of these but from a write by the *)
(* program to the next trap that sets them; no other field catches it.     *)
RegistersAgree ==
  LET s == Head(states)
  IN /\ DOMAIN dpi = DOMAIN s
     /\ \A f \in DOMAIN dpi \ stray : dpi[f] = s[f]
=============================================================================
