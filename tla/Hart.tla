--------------------------------- MODULE Hart ---------------------------------
(***************************************************************************)
(* processor_t as a machine with interrupts: the status register, the      *)
(* pending lines, the 64-bit instruction counter, and the compare register *)
(* that raises the timer line (isa_sim_dpi/processor.cc).                  *)
(*                                                                         *)
(* The simulator calls step(n). The core takes an interrupt or runs up to  *)
(* n instructions, a slice; only then is the counter advanced, once, and   *)
(* the timer looked at. The host and the other cores raise and lower lines *)
(* between steps, the program with its instructions.                       *)
(*                                                                         *)
(* An instruction either works on this state or has no effect here. The    *)
(* counter is its two 32-bit halves. The 64-bit difference of a count and  *)
(* a compare value is an integer: both have 32 bits, so it cannot wrap.    *)
(* Address modes, the FPU bits and EVEC are left out; an instruction that  *)
(* is refused, or faults, is Trap.                                         *)
(***************************************************************************)
EXTENDS Integers

CONSTANTS
  LowSize,     (* values of a 32-bit register: 2^32                        *)
  HighSize,    (* values of the upper half of the counter: 2^32            *)
  MaxSlice,    (* the largest n of step(n): INTERLEAVE                     *)
  StatusWrites (* the values programs write to the status register         *)

IRQ_IPI == 5
IRQ_HOST == 6
IRQ_TIMER == 7
Irq == {IRQ_IPI, IRQ_HOST, IRQ_TIMER}

(* sr, uint32_t: the mode, the previous mode, the masks and pending lines. *)
Status == [S : BOOLEAN, PS : BOOLEAN, EI : BOOLEAN, PEI : BOOLEAN,
           IM : SUBSET Irq, IP : SUBSET Irq]

ASSUME ParametersAssumption ==
  /\ LowSize \in Nat \ {0}
  /\ HighSize \in Nat \ {0}
  /\ MaxSlice \in Nat \ {0}
  /\ MaxSlice < LowSize
  /\ StatusWrites \subseteq Status

Low == 0 .. (LowSize - 1)
High == 0 .. (HighSize - 1)

VARIABLES
  run,      (* not held in reset                                           *)
  debug,    (* the slice loop without the instruction cache                *)
  sr,
  count,    (* as of the end of the last step                              *)
  compare,
  phase,    (* of step(): "idle" outside, "slice" in the loop, "end" after *)
  limit,    (* n, lowered to the next timer                                *)
  instret,  (* instructions counted in the slice                           *)
  (* history                                                               *)
  touched,  (* the program has written COUNT or COMPARE in this slice      *)
  armed     (* COMPARE lies ahead, or was reached and not rewritten        *)

registers == <<sr, count, compare>>
slice == <<phase, limit, instret>>
history == <<touched, armed>>
vars == <<run, debug, registers, slice, history>>

TypeOK ==
  /\ run \in BOOLEAN
  /\ debug \in BOOLEAN
  /\ sr \in Status
  /\ count \in [high : High, low : Low]
  /\ compare \in Low
  /\ phase \in {"idle", "slice", "end"}
  /\ limit \in 0 .. MaxSlice
  /\ instret \in 0 .. limit
  /\ touched \in BOOLEAN
  /\ armed \in BOOLEAN

-------------------------------------------------------------------------------
(* The arithmetic.                                                         *)

(* Fault: the lower half wraps without a carry. *)
AdvanceNoWrap(c, k) == [c EXCEPT !.low = c.low + k]

(* count += k.                                                             *)
Advance(c, k) ==
  IF c.low + k < LowSize
    THEN [c EXCEPT !.low = c.low + k]
    ELSE [high |-> IF c.high + 1 = HighSize THEN 0 ELSE c.high + 1,
          low |-> c.low + k - LowSize]

(* Fault: the test is off by one. *)
FiresLate(c, m, k) == (c.low - m <= 0) # (c.low - m + k <= 0)

(* update_timer: counting k instructions changes the sign of the distance  *)
(* from compare.                                                           *)
Fires(c, m, k) == (c.low - m < 0) # (c.low - m + k < 0)

(* next_timer: in 32 bits, the instructions left until compare.            *)
NextTimer(c, m) == IF c.low <= m THEN m - c.low ELSE m - c.low + LowSize

(* Fault: a slice may be empty. *)
OrZero(x) == x

(* x | 1.                                                                  *)
OrOne(x) == IF x % 2 = 0 THEN x + 1 ELSE x

(* Fault: slices ignore the timer. *)
LimitNoTimer(n, c, m) == n

(* The slice of step(n). *)
Limit(n, c, m) == LET t == OrOne(NextTimer(c, m)) IN IF n < t THEN n ELSE t

-------------------------------------------------------------------------------
(* The status register.                                                    *)

(* Fault: the program writes the pending lines too. *)
StatusValueAll(s, w) == w

(* set_pcr(CSR_STATUS): a program cannot write the pending lines.          *)
StatusValue(s, w) == [w EXCEPT !.IP = s.IP]

(* take_trap.                                                              *)
Trapped(s) ==
  StatusValue(s, [s EXCEPT !.EI = FALSE, !.S = TRUE, !.PS = s.S, !.PEI = s.EI])

(* sret.h.                                                                 *)
Returned(s) == StatusValue(s, [s EXCEPT !.S = s.PS, !.EI = s.PEI])

(* set_interrupt.                                                          *)
WithLine(s, i, on) ==
  [s EXCEPT !.IP = IF on THEN s.IP \union {i} ELSE s.IP \ {i}]

(* Fault: the mask is one line short. *)
InterruptingNoTimer(s) ==
  IF s.EI THEN (s.IP \ {IRQ_TIMER}) \intersect s.IM ELSE {}

(* take_interrupt: the lines that interrupt the core.                      *)
Interrupting(s) == IF s.EI THEN s.IP \intersect s.IM ELSE {}

(* state_t::reset.                                                         *)
ResetStatus == [S |-> TRUE, PS |-> FALSE, EI |-> FALSE, PEI |-> FALSE,
                IM |-> {}, IP |-> {}]

-------------------------------------------------------------------------------
Init ==
  /\ run = FALSE
  /\ debug = FALSE
  /\ sr = ResetStatus
  /\ count = [high |-> 0, low |-> 0]
  /\ compare = 0
  /\ phase = "idle"
  /\ limit = 0
  /\ instret = 0
  /\ touched = FALSE
  /\ armed = FALSE

(* reset(value), from the HTIF: nothing happens in the mode it is in.      *)
Reset(value) ==
  /\ phase = "idle"
  /\ run = value
  /\ run' = ~value
  /\ sr' = ResetStatus
  /\ count' = [high |-> 0, low |-> 0]
  /\ compare' = 0
  /\ armed' = FALSE
  /\ UNCHANGED <<debug, slice, touched>>

(* set_procs_debug(true), when the fast part of the run is over.           *)
EnterDebug ==
  /\ phase = "idle"
  /\ ~debug
  /\ debug' = TRUE
  /\ UNCHANGED <<run, registers, slice, history>>

(* The HTIF writes FROMHOST: set_fromhost.                                 *)
HostLine(on) ==
  /\ phase = "idle"
  /\ sr' = WithLine(sr, IRQ_HOST, on)
  /\ UNCHANGED <<run, debug, count, compare, slice, history>>

(* deliver_ipi, for another core: dropped while this one is in reset.      *)
IpiArrives ==
  /\ phase = "idle"
  /\ run
  /\ sr' = WithLine(sr, IRQ_IPI, TRUE)
  /\ UNCHANGED <<run, debug, count, compare, slice, history>>

-------------------------------------------------------------------------------
(* step(n).                                                                *)

(* The limit is computed first, then take_interrupt looks at the lines; an *)
(* interrupt leaves through the handler of traps.                          *)
StepBegins(n) ==
  /\ phase = "idle"
  /\ run
  /\ limit' = Limit(n, count, compare)
  /\ instret' = 0
  /\ touched' = FALSE
  /\ IF Interrupting(sr) = {}
       THEN phase' = "slice" /\ sr' = sr
       ELSE phase' = "end" /\ sr' = Trapped(sr)
  /\ UNCHANGED <<run, debug, count, compare, armed>>

(* An instruction is run and counted.                                      *)
Retire ==
  /\ phase = "slice"
  /\ instret < limit
  /\ instret' = instret + 1
  /\ UNCHANGED <<run, debug, phase, limit>>

PlainInstruction == Retire /\ UNCHANGED <<registers, history>>

WriteStatus(w) ==
  /\ Retire
  /\ sr.S
  /\ sr' = StatusValue(sr, w)
  /\ UNCHANGED <<count, compare, history>>

SRet ==
  /\ Retire
  /\ sr.S
  /\ sr' = Returned(sr)
  /\ UNCHANGED <<count, compare, history>>

(* CSR_FROMHOST and CSR_CLEAR_IPI set or clear a line; CSR_SEND_IPI, to    *)
(* the core itself, sets it.                                               *)
WriteLine(i, on) ==
  /\ Retire
  /\ sr.S
  /\ sr' = WithLine(sr, i, on)
  /\ UNCHANGED <<count, compare, history>>

WriteCompare(m) ==
  /\ Retire
  /\ sr.S
  /\ sr' = WithLine(sr, IRQ_TIMER, FALSE)
  /\ compare' = m
  /\ touched' = TRUE
  /\ armed' = (count.low < m)
  /\ UNCHANGED count

WriteCount(c) ==
  /\ Retire
  /\ sr.S
  /\ count' = c
  /\ touched' = TRUE
  /\ armed' = FALSE
  /\ UNCHANGED <<sr, compare>>

WriteCountHigh(h) ==
  /\ Retire
  /\ sr.S
  /\ count' = [count EXCEPT !.high = h]
  /\ UNCHANGED <<sr, compare, history>>

(* Fault: an instruction that traps is never counted. *)
TrapNotCounted ==
  /\ phase = "slice"
  /\ instret < limit
  /\ sr' = Trapped(sr)
  /\ phase' = "end"
  /\ UNCHANGED <<run, debug, count, compare, limit, instret, history>>

(* The instruction at which a trap is taken is counted, except a fetch     *)
(* that fails outside the debug loop.                                      *)
Trap ==
  /\ phase = "slice"
  /\ instret < limit
  /\ \/ instret' = instret + 1
     \/ ~debug /\ instret' = instret
  /\ sr' = Trapped(sr)
  /\ phase' = "end"
  /\ UNCHANGED <<run, debug, count, compare, limit, history>>

(* The end of step(): update_timer.                                        *)
StepEnds ==
  /\ \/ phase = "end"
     \/ phase = "slice" /\ instret = limit
  /\ count' = Advance(count, instret)
  /\ sr' = IF Fires(count, compare, instret)
             THEN WithLine(sr, IRQ_TIMER, TRUE)
             ELSE sr
  /\ phase' = "idle"
  /\ armed' = (armed /\ count.low <= count'.low)
  /\ UNCHANGED <<run, debug, compare, limit, instret, touched>>

Instruction ==
  \/ PlainInstruction
  \/ \E w \in StatusWrites : WriteStatus(w)
  \/ SRet
  \/ \E i \in Irq \ {IRQ_TIMER}, on \in BOOLEAN : WriteLine(i, on)
  \/ \E m \in Low : WriteCompare(m)
  \/ \E c \in [high : High, low : Low] : WriteCount(c)
  \/ \E h \in High : WriteCountHigh(h)

Step ==
  \/ \E n \in 1 .. MaxSlice : StepBegins(n)
  \/ Instruction
  \/ Trap
  \/ StepEnds

Next ==
  \/ \E value \in BOOLEAN : Reset(value)
  \/ EnterDebug
  \/ \E on \in BOOLEAN : HostLine(on)
  \/ IpiArrives
  \/ Step

Spec == Init /\ [][Next]_vars

(* The simulator calls step() again and again, and step() runs to its end. *)
FairSpec == Spec /\ WF_vars(Step)
-------------------------------------------------------------------------------
(* Properties.                                                             *)

(* While a compare value that was written ahead of the counter stands, the *)
(* timer line says, after every instruction and every step, whether the    *)
(* counter has reached it: it is not lost to slices, traps, host writes or *)
(* status writes, and not raised early. It says so until the lower half of *)
(* the counter wraps.                                                      *)
TimerSound == armed => (IRQ_TIMER \in sr.IP <=> compare <= count.low)

(* next_timer cuts slices short: when the timer fires, in a slice that did *)
(* not itself write the counter or compare, at most one instruction was    *)
(* counted after the one that reached compare.                             *)
TimerPunctual ==
  [][StepEnds /\ ~touched /\ IRQ_TIMER \in sr'.IP \ sr.IP
       => count.low + instret \in {compare, compare + 1}]_vars

Acknowledges(i) ==
  \/ \E value \in BOOLEAN : Reset(value)
  \/ i = IRQ_TIMER /\ \E m \in Low : WriteCompare(m)
  \/ i = IRQ_HOST /\ HostLine(FALSE)
  \/ i # IRQ_TIMER /\ WriteLine(i, FALSE)

(* A pending line falls only by its own acknowledgement or a reset: not by *)
(* a trap, a return, or a program that writes back a status it read before *)
(* the line rose.                                                          *)
LineKept == [][\A i \in sr.IP \ sr'.IP : Acknowledges(i)]_vars

Wanted(i) == sr.EI /\ i \in sr.IP /\ i \in sr.IM

(* A line that is pending and enabled does not stay so: the core takes an  *)
(* interrupt, and so disables them, unless the program or the host drops   *)
(* the line first.                                                         *)
InterruptTaken == \A i \in Irq : Wanted(i) ~> ~Wanted(i)

(* In the debug loop every instruction counts, one that traps included: a  *)
(* compare value that lies ahead is reached, even by a program that does   *)
(* nothing but fault.                                                      *)
TimerArrives == (debug /\ armed) ~> (~armed \/ IRQ_TIMER \in sr.IP)

(* A core out of reset runs, or traps on, instructions for ever: neither a *)
(* compare value equal to the counter nor interrupts stop it.              *)
CoreProgresses == []<>(~run) \/ []<><<Instruction \/ Trap>>_vars
===============================================================================
