-------------------------------- MODULE CoSim --------------------------------
(***************************************************************************)
(* Co-simulation of one core: the functional simulator s_isa filling the   *)
(* debug buffer, and the RTL calling checkInstruction for every            *)
(* instruction it commits (riscv_dpi.cc, debug.cc, processor.cc).          *)
(*                                                                         *)
(* The program is one C++ thread, so the two simulators alternate through  *)
(* calls: run_ahead, during initializeSim, and the refill loop of pop,     *)
(* during checkInstruction, step the functional simulator one instruction  *)
(* at a time. "mode" is the call stack: "ahead" in run_ahead, "rtl" in the *)
(* RTL, "pop" in the refill loop, "abort" after a failed assertion.        *)
(*                                                                         *)
(* What an instruction does is left open: any successor, any result, a     *)
(* trap, an interrupt before it if the program ever enables interrupts.    *)
(* So is what the RTL reports, right or wrong.                             *)
(***************************************************************************)
EXTENDS DebugBuffer, Sequences

CONSTANTS
  Interrupts   (* whether the program ever sets SR_EI                      *)

ASSUME InterruptsAssumption == Interrupts \in BOOLEAN

VARIABLES
  mode,        (* who is running                                           *)
  pc,          (* functional simulator: state.pc                           *)
  ei,          (* functional simulator: SR_EI in state.sr                  *)
  open,        (* between start() and the pushes that complete an entry    *)
  isa_running, (* s_isa->running(): FALSE once the host has reset the core *)
  arch_pc,     (* riscv_dpi.cc: pc of the next instruction to check        *)
  actual,      (* the entry the last pop returned, or NoEntry              *)
  check_passed (* result of the last checkInstruction                      *)

coreVars == <<pc, ei, isa_running>>
rtlVars == <<arch_pc, actual, check_passed>>
vars == <<bufferVars, mode, open, coreVars, rtlVars>>

NoEntry == DEBUG_SIZE

(* An RTL in error may report a result or a state no instruction has.      *)
Report == [pc : Pc, rd : Result \union {Garbage}, state : State \union {Garbage}]

TypeOK ==
  /\ BufferTypeOK
  /\ mode \in {"ahead", "rtl", "pop", "abort"}
  /\ pc \in Pc
  /\ ei \in BOOLEAN
  /\ open \in BOOLEAN
  /\ isa_running \in BOOLEAN
  /\ arch_pc \in Pc
  /\ actual \in Slots \union {NoEntry}
  /\ check_passed \in BOOLEAN

(* initializeSim, up to run_ahead: both simulators have booted and skipped *)
(* the same instructions, so arch_pc, which is read from s_dpi, is also    *)
(* where s_isa continues.                                                  *)
Init ==
  /\ BufferInit
  /\ mode = "ahead"
  /\ pc \in Pc
  /\ ei \in (IF Interrupts THEN BOOLEAN ELSE {FALSE})
  /\ open = FALSE
  /\ isa_running = TRUE
  /\ arch_pc = pc
  /\ actual = NoEntry
  /\ check_passed = TRUE

-----------------------------------------------------------------------------
(* The functional simulator: one step(1), called while the buffer is       *)
(* hungry. Until start() has been called the loop condition is evaluated   *)
(* again; an open entry is always completed first.                         *)

RefillWanted == Hungry /\ isa_running

InFunctionalStep == mode \in {"ahead", "pop"}

(* take_interrupt throws before start(), so the pushes of the handler go   *)
(* to the entry of the instruction that retired last.                      *)
TakeInterrupt ==
  /\ InFunctionalStep
  /\ ~open
  /\ RefillWanted
  /\ ei
  /\ \E handler \in Pc, s \in State :
       /\ PushException(pc, handler, s)
       /\ pc' = handler
  /\ ei' = FALSE
  /\ UNCHANGED <<mode, open, isa_running, rtlVars>>

BeginInstruction ==
  /\ InFunctionalStep
  /\ ~open
  /\ RefillWanted
  /\ Start
  /\ open' = TRUE
  /\ UNCHANGED <<mode, coreVars, rtlVars>>

(* load_insn and execute_insn succeed.                                     *)
ExecuteInstruction ==
  /\ InFunctionalStep
  /\ open
  /\ \E npc \in Pc, rd \in Result \union {NoRd}, s \in State :
       /\ PushInstr(pc, npc, rd, s)
       /\ pc' = npc
  /\ ei' \in (IF Interrupts THEN BOOLEAN ELSE {FALSE})
  /\ open' = FALSE
  /\ UNCHANGED <<mode, isa_running, rtlVars>>

(* The fetch or the instruction traps.                                     *)
TrapInstruction ==
  /\ InFunctionalStep
  /\ open
  /\ \E handler \in Pc, s \in State :
       /\ PushException(pc, handler, s)
       /\ pc' = handler
  /\ ei' = FALSE
  /\ open' = FALSE
  /\ UNCHANGED <<mode, isa_running, rtlVars>>

(* An HTIF tick inside the step delivers the host's write to the reset     *)
(* register: the program has exited. state.pc is reset too, and not used   *)
(* again: pc keeps where the program ended.                                *)
HostStopsCore ==
  /\ InFunctionalStep
  /\ ~open
  /\ RefillWanted
  /\ isa_running' = FALSE
  /\ UNCHANGED <<bufferVars, mode, pc, ei, open, rtlVars>>

FunctionalStep ==
  \/ TakeInterrupt
  \/ BeginInstruction
  \/ ExecuteInstruction
  \/ TrapInstruction
  \/ HostStopsCore

-----------------------------------------------------------------------------
(* run_ahead returns; the rest of initializeSim does not touch the buffer. *)
(* Its loop asks tick's result, not running(), and so makes some more      *)
(* calls of step, which do nothing once the core is in reset.              *)
RunAheadReturns ==
  /\ mode = "ahead"
  /\ ~open
  /\ ~RefillWanted
  /\ mode' = "rtl"
  /\ UNCHANGED <<bufferVars, open, coreVars, rtlVars>>

(* checkInstruction, not a fission: first(arch_pc), then pop up to its     *)
(* refill loop. A failed assertion in first ends the program.              *)
CheckInstruction ==
  /\ mode = "rtl"
  /\ FirstSucceeds(arch_pc)
  /\ PopInvalidate
  /\ mode' = "pop"
  /\ UNCHANGED <<open, coreVars, rtlVars>>

FirstAsserts ==
  /\ mode = "rtl"
  /\ ~FirstSucceeds(arch_pc)
  /\ mode' = "abort"
  /\ UNCHANGED <<bufferVars, open, coreVars, rtlVars>>

(* The comparison checkInstruction makes between the RTL's report and the  *)
(* popped entry, check_state included.                                     *)
ReportMatches(r, e) ==
  /\ r.pc = e.a_pc
  /\ e.a_num_rdst > 0 => r.rd = e.a_rdst
  /\ r.state = e.a_state

(* Fault: one instruction is enough.                                       *)
PopLoopDoneEarly == length > 0

(* Fault: the loop waits for a full ring, running or not.                  *)
PopLoopDoneFull == ~Hungry

(* The refill loop of pop ends.                                            *)
PopLoopDone == ~RefillWanted

(* The refill loop is over: pop advances head and checkInstruction reads   *)
(* the entry through the pointer pop returned. The report r is what the    *)
(* RTL passed when it called.                                              *)
CheckReturns(r) ==
  /\ mode = "pop"
  /\ ~open
  /\ PopLoopDone
  /\ PopAdvance
  /\ actual' = head
  /\ arch_pc' = db[head].a_next_pc
  /\ check_passed' = ReportMatches(r, db[head])
  /\ mode' = "rtl"
  /\ UNCHANGED <<open, coreVars>>

(* assert(length > 0) in pop.                                              *)
PopAsserts ==
  /\ mode = "pop"
  /\ ~open
  /\ PopLoopDone
  /\ length = 0
  /\ mode' = "abort"
  /\ UNCHANGED <<bufferVars, open, coreVars, rtlVars>>

(* checkInstruction for a further micro-operation of an instruction.       *)
CheckFission ==
  /\ mode = "rtl"
  /\ check_passed' = TRUE
  /\ UNCHANGED <<bufferVars, mode, open, coreVars, arch_pc, actual>>

Aborted == mode = "abort" /\ UNCHANGED vars

Next ==
  \/ FunctionalStep
  \/ RunAheadReturns
  \/ CheckInstruction
  \/ FirstAsserts
  \/ \E r \in Report : CheckReturns(r)
  \/ PopAsserts
  \/ CheckFission
  \/ Aborted

(* The host process keeps executing: a call in progress is never           *)
(* abandoned. Nothing is assumed of the RTL, which may stop calling.       *)
Fairness ==
  /\ WF_vars(FunctionalStep)
  /\ WF_vars(RunAheadReturns)
  /\ WF_vars((\E r \in Report : CheckReturns(r)) \/ PopAsserts)

Spec == Init /\ [][Next]_vars

FairSpec == Spec /\ Fairness

-----------------------------------------------------------------------------
(* What the properties speak of.                                           *)

(* The entries completed and not yet handed over, oldest first.            *)
Pending ==
  [ i \in 1 .. (IF open THEN length - 1 ELSE length) |->
      LET e == db[MOD(head + i - 1)]
      IN  [ pc      |-> e.a_pc,
            next_pc |-> e.a_next_pc,
            rd      |-> IF e.a_num_rdst = 0 THEN NoRd ELSE e.a_rdst,
            state   |-> e.a_state ] ]

Promise == INSTANCE LockstepChecker WITH
  Capacity  <- ACTIVE_SIZE,
  queue     <- Pending,
  issue_pc  <- pc,
  commit_pc <- arch_pc,
  verdict   <- check_passed

(* Every behaviour is one of LockstepChecker: no entry is lost, repeated,  *)
(* reordered or changed between the step that retires it and the           *)
(* checkInstruction that reads it through the pointer pop returned, and    *)
(* the verdict compares the report with the right instruction.             *)
ImplementsLockstep == Promise!Spec

(* is_active(e) says whether e is one of the "length" entries from head    *)
(* on, also when the window wraps, is empty, or fills the whole ring, where *)
(* head and tail alone cannot tell the last two apart.                     *)
ActiveIsWindow ==
  \A e \in Slots :
    IsActive(e) <=> \E i \in 0 .. (length - 1) : e = MOD(head + i)

(* first(arch_pc) never asserts on an instruction that is there: whenever  *)
(* the RTL has control, the head entry is the successor of the entry       *)
(* checked last. "Assert that the head debug buffer entry has a program    *)
(* counter value equal to 'pc'" (debug.h:170).                             *)
FirstFindsArchPc ==
  mode = "rtl" /\ length > 0 => FirstSucceeds(arch_pc)

(* The RTL is never held up and never runs dry while the program runs: on  *)
(* every return to it, the functional simulator is ACTIVE_SIZE - 1         *)
(* instructions ahead at least, whatever happened in the refill loop.      *)
LookaheadKept ==
  mode = "rtl" /\ isa_running => length >= ACTIVE_SIZE - 1

(* pop clears the valid bit of the entry it hands over, "so that perfect   *)
(* branch prediction does not fail at PC mismatch assertion at the end of  *)
(* the program" (debug.cc:306-308).                                        *)
PoppedEntryInvalid ==
  mode = "rtl" /\ actual # NoEntry => ~db[actual].a_valid

(* A checkInstruction that has called pop comes back, or the program has   *)
(* ended on an assertion: the refill loop terminates in every case, also   *)
(* when the host stops the core while pop is refilling.                    *)
CheckComesBack == (mode = "pop") ~> (mode # "pop")
=============================================================================
