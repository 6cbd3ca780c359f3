# Verification of riscv-dpi

riscv-dpi links two RISC-V simulators into a Verilog simulation (AnyCore). The
RTL under test keeps no architectural state of its own that anyone trusts: it
asks the library for instructions and data through DPI calls, and reports every
instruction it commits, which the library compares with a functional simulation
running ahead of it. This directory holds TLA+ models of the library's control,
TLC configurations that check them on small instances, and TLAPS proofs of the
results that should hold at every size.

Every module is translated from the source; `PROJECT.json` maps each definition
to the lines it stands for.

## 1. Inventory

The C++ program is single threaded. What makes it hard is not data races but
control that returns in unexpected places: the RTL calls the checker, the
checker calls the debug buffer, the buffer steps the functional simulator, which
may trap, be interrupted, or exchange a packet with the host process, all inside
one `checkInstruction`. The only other actor is the host (fesvr), which runs in
its own thread and is not part of the repository.

| component | state | operations | interacts with | what makes it correct |
|---|---|---|---|---|
| debug buffer (`dpi_sim/debug.*`) | ring of `db_t`, `head`, `tail`, `length` | `start`, `push_*_actual`, `first`, `pop`, `run_ahead`, `hungry`, `is_active`, `find`, `check_next` | filled by the functional core, drained by the checker; `pop` calls `s_isa->step` | each retired instruction is handed over once, in order, unchanged; the lookahead is kept; `pop` returns |
| co-simulation checker (`riscv_dpi/riscv_dpi.cc`, `dpi_sim/checker.cc`) | `arch_pc`, the two `sim_t` | `initializeSim`, `checkInstruction`, `check_state` | RTL above, debug buffer below | the verdict is about the right instruction; assertions fail only on an RTL error |
| functional core (`isa_sim_dpi/processor.*`) | `state_t`, `run`, opcode map | `step`, `take_interrupt`, `take_trap`, `set_pcr`, `get_pcr`, `reset`, `deliver_ipi` | MMU, debug buffer, HTIF, `sim_t` | traps and interrupts at instruction boundaries; timer fires when count meets compare |
| simulator scheduler (`dpi_sim/sim.*`) | `current_step`, `current_proc`, `idle_cycles`, cores | `boot`, `run`, `run_fast`, `step`, checkpoint create and restore | cores, HTIF | no core starves, skips are exact, the end is noticed |
| HTIF (`isa_sim_dpi/htif.*`) | `reset`, `seqno`, checkpoint streams | `tick`, `tick_once`, `done`, `restore_checkpoint` | host process (blocking `recv`), cores' `tohost`/`fromhost` | requests and answers are neither lost nor repeated; never waits for a host that has gone |
| MMU (`isa_sim_dpi/mmu.*`) | TLB tags and data, instruction cache, tracers | `translate`, `refill_tlb`, `walk`, `access_icache`, `flush_*` | registers of the core, memory written by core and host | caches are invisible |
| DPI memory and register interface (`riscv_dpi.cc`) | none of its own | `getInstruction`, `load*`, `store*`, `virt_to_phys`, `set_pcr`, `get_pcr`, `set_interrupt` | the MMU and `state_t` of `s_dpi` | same effect as the functional core's own accesses |
| DPI core (`dpi_sim/dpisim.*`) | a `processor_t` with another `step` | `step_micro` (a shell: its pipeline is commented out), `set_fromhost`, `set_interrupt` | RTL through `dpis.cc` | its `state_t` is where the functional core's was at the same instruction |
| cache models (`cachesim.*`, `memtracer.h`) | tags, LFSR, counters | `access`, `victimize`, `check_tag` | MMU tracer hooks; the level below | a store stays dirty until it is written back, once; a line is where it is looked for |
| payload buffer (`dpi_sim/payload.*`) | ring of in-flight instructions | `push`, `pop`, `rollback`, `split`, `map_to_actual` | debug buffer's `find`, `check_next` | (not called by the DPI build) |
| checkpoints (`sim.cc`, `htif.cc`) | gzip files | create, restore, replay of host packets | HTIF, host | a new host is brought to where the recorded one was; a pending request survives |
| instruction bodies (`insns/*.h`, `decode.h`, `mulhi.h`) | `fflags`, `frm`, LR/SC reservation | 190 bodies | core, MMU, softfloat | LR/SC atomicity; IEEE 754 results and sticky flags; exact integer results |
| softfloat (`softfloat_dpi/*`) | two globals, `softfloat_roundingMode` and `softfloat_exceptionFlags` | arithmetic, comparison and conversion of two formats over 64- and 128-bit primitives | instruction bodies | the exact result, rounded once, with the right flags |
| statistics, histograms, parameters, disassembler, interactive console, gzstream, RoCC registration, build files | counters, text, tables | printing, parsing | | outside the control logic |

The hazards, each at the line where it bites, are in `PROJECT.json` under
"hazards", with the properties that cover them or the reason why none does yet.

## 2. Modules

Each pair of the form "abstract promise / implementation" is joined by a
refinement that is both checked and proved.

**Co-simulation.** `LockstepChecker` is what the RTL may rely on: a bounded queue
of retired instructions whose program counters form an unbroken path, handed over
oldest first, with a verdict that compares the report with the front of the queue.
`DebugBuffer` has one operator per member function of `debug_buffer_t`.
`CoSim` composes it with its callers. Its variable `mode` is the C++ call stack:
`"ahead"` in `run_ahead`, `"rtl"` while the RTL has control, `"pop"` inside the
refill loop of `pop`, `"abort"` after a failed assertion. An instruction takes two
steps, `BeginInstruction` (`start()`) and `ExecuteInstruction` or
`TrapInstruction` (the pushes), since an entry is open in between; a check takes
`CheckInstruction` (`first` and the first half of `pop`), any number of functional
steps, and `CheckReturns` (`head` advances, the verdict is read through the
pointer `pop` returned). What an instruction does, and what the RTL reports, is
left open; whether the program ever sets SR_EI is the constant `Interrupts`.

**Simulator and host.** `Mailbox` is what a program may rely on when it talks to
the host. `SimHtif` is one ISA_SIM `sim_t` with its HTIF: cores run in turns of
INTERLEAVE instructions or idle calls, one HTIF tick ends a turn, and the host is
a second actor that sends one packet and waits for the reply. `Step` is an
iteration of `run_fast` or a `step(1)` of `run` with everything up to the call of
`tick`; `TickOnce` is `tick_once`, repeated while in reset. The host (`HostSends`,
`HostGets` and what they call) is external, modelled from the packets
`tick_once` accepts.

**Memory.** `PageTable` has the walk and the permission rule, as operators.
`AddressSpace` is memory without caches. `Mmu` is `mmu_t` with its TLB and
instruction cache. The constant `Port` selects who writes the registers around it:
`"isa"` for `processor_t::set_pcr` and `get_pcr`, `"dpi"` for the functions of the
same name in `riscv_dpi.cc`. Two history variables, never read by the actions'
guards, record what the properties need: `views`, the page table entries each page
has had since FATC was read, and `code`, the words each physical page has held
since FENCE.I. `MMmu` gives TLC the page table entries.

**Interrupts and the timer.** `Hart` is `processor_t` seen from its status register:
mode, masks and pending lines, the counter as its two 32-bit halves, and `compare`.
One call of `step(n)` is `StepBegins` (the slice is cut by `next_timer`, then
`take_interrupt` looks at the lines), one action per instruction that works on this
state, `Trap`, and `StepEnds` (`update_timer`, the only place that advances the
counter). Resets, FROMHOST writes of the HTIF and interrupts from other cores come
between calls, as they do in the single-threaded program. `debug` selects the loop,
which decides whether a fetch that traps is counted. Two history variables:
`touched`, the slice itself has written the lower count or compare; `armed`, compare
was written ahead of the counter and neither has been rewritten, nor has the lower
half of the counter wrapped. `MHart` gives TLC the status values programs write,
some with pending lines that are out of date.

**Control registers in co-simulation.** `Registers` is one program run twice: by the
functional core, whose instructions go through `processor_t::set_pcr` and `get_pcr`,
and, up to `MaxAhead` steps later, by an RTL that keeps its registers in `s_dpi`
through the functions of the same names in `riscv_dpi.cc`. The two copies are
translated separately (`WithPcr` and `GetPcr`, `DpiSetPcr` and `DpiGetPcr`). An element
of `buffer` is a debug buffer entry with the state that `push_state_actual` copied, or
the packet of a tick. `RtlCommits` is the RTL's instruction with its
`checkInstruction`, whose `check_state` is `SameState`; `RtlTicks` is `htif_tick`. The
RTL is external and taken to be right: it traps when the functional core does, and
counts after it has been checked. The history `states` keeps the functional core's
state before each element of `buffer`. BADVADDR and CAUSE are where the copies differ:
`processor_t::set_pcr` has no case for them, the DPI's stores what it is given, and
`validate_csr` lets supervisor programs write them. The history `stray` is which of the
two the program has written since a trap last set them; `RegistersAgree` and
`ChecksPass` make an exception of these and of nothing else. When the RTL has read a
value the functional core does not have, its registers hold another program's data, and
the model follows it no further (`RtlCommits` and `RtlTicks` ask for `verdict.value`).
Values with fields, such as STATUS, are sets of their bits. `MRegisters` gives TLC the
instructions.

**Arithmetic.** `Words` has the shifts, 128-bit sums and products and leading zeros of
`softfloat_dpi/s_*.c`, at any word size, `Primitives` its roots and estimates of
quotients. `Pattern` has the fields, comparisons and classification of a bit pattern,
`Rounding` what every operation ends with (`roundPack`, `normRoundPack`, a NaN passed
on), `MulAdd` the fused multiply-add (the double-precision sum of it, on two words, is
in `Float64`), `SoftFloat` the rest of what the single- and double-precision files share
but for constants, `Remainder` the remainder of both. What differs is in two modules for
each format: `Float32Plain` (multiplication, division and conversions of singles) and
`Float64Plain` (sums, products and conversions of doubles, and those between the formats)
are free of loops, `Float32` and `Float64` have the rest: square roots, remainders, and, on
pairs of words, the double-precision division and fused multiply-add. The instruction
bodies on top of them are in three modules: `Comparisons` (those that compare,
classify and inject signs), `MulDiv` (the integer instructions that multiply to the
high half, with `mulhi.h`, and divide) and `ArithInsns` (those that round). Beside them
is what they should compute, translated from nothing: `IeeeOrder` is the order and the
classes of IEEE 754, `IeeeRound` how an exact number is rounded once, `IeeeNumber` the
exact numbers, their sums, products,
quotients and conversions and what a fused operation and a division make of them, `Ieee`
the other operations, and the end of `MulDiv` the exact integers. `Comparisons`, `MulDiv`,
`Float32Plain`, `Float64Plain` and `IeeeNumber`, and what they use, hold no bitwise
operator and no recursion, so that they can be proved about; `Formats` has the notions in
which `FcsrProofs` relates the two.

`Fcsr` is the state around them: the enable bit, `frm`, `fflags` and the library's two
globals, with one action per kind of instruction. What an operation that rounds
computes, and what is promised of it, are parameters; an instruction that compares
(`Comparing`), one that touches no flag (`Moving`) and one of the integer unit
(`IntegerInsn`) compute what `Comparisons` and `MulDiv` say. Its histories are `due`, the
promise for the last instruction, and `owed`, the flags promised since the program
last wrote `fflags`. `Arith` puts all together and states the properties of the
operations that round; `MArith` chooses formats and operands.

**Checkpoints.** `Checkpoint` is a run that is recorded, a checkpoint created at any
moment, and a restored run in a new process with a new host: `Tick` serves a packet
and records it when it is worth recording, `Replay` is an iteration of the loop in
`htif_isasim_t::restore_checkpoint`, `EndReplay` its last tick with the loading of
memory and processor. Host and program are external: the host polls, reads an
argument from memory, writes the result in its place and answers; the program waits
for the answer. The history `trace` is the host after each recorded packet.

**Caches.** `CacheSim` is `cache_sim_t::access` with `check_tag`, `victimize` and the
miss handler, for an instruction and a data cache and the level both miss into.
`Access` works on all levels at once, as the recursive call does, in its order:
write-back of the victim first, then the line itself. The history `unsaved` is the
set of addresses whose last store has not reached memory. `MCacheSim` is a small
hierarchy.

Abstractions common to all: the data an instruction computes (but in `Arith`), log
output, and the fields of a debug buffer entry that are only dumped, are left out. In `Mmu` a page
holds one word and a page table maps each page to its leaf entry directly, so the
levels of the tree and offsets within a page do not appear; pages are integers,
because the TLB index is a remainder and an entry stores a difference.

## 3. Runs

| run | instance | shows |
|---|---|---|
| `cosim` | ring of 4, 2 program counters, no interrupts | the ring refines `LockstepChecker`; `first` never asserts on an instruction that is there |
| `cosim_ring` | ring of 4, 1 program counter, interrupts at any time | `is_active` is right for full, empty and wrapped windows; the RTL never runs dry; every check comes back |
| `cosim_interrupt` | the same with SR_EI | counterexample: `take_interrupt` throws before `start()`, so the handler's pushes land in the previous entry and `first` asserts |
| `cosim_valid` | as `cosim` | counterexample: the refill loop of `pop` sets the valid bit `pop` has just cleared |
| `sim_htif` | 2 cores, turns of 2, skip 3, 2 requests and exit | refines `Mailbox`; interrupt line iff answer; no tick without a host; cores scheduled, requests answered, the simulation ends |
| `mmu_isa` | 2 virtual and 2 physical pages, 1 TLB and 1 instruction cache entry, stores traced | caches invisible: refines `AddressSpace` |
| `mmu_dpi` | the same with `Port = "dpi"` | counterexample: the DPI's `set_pcr` leaves translations of the old mode in the TLB |
| `hart` | 2-bit `compare`, 3-bit `count`, slices of up to 3, all 3 lines | no pending line is lost; the timer says whether compare was reached, at most one instruction late; interrupts are taken; the core never stalls |
| `registers` | 3 instructions of 39, a tick after each, the RTL up to 4 steps behind, 2-bit lower and 1-bit upper half of `count` | every check of a right RTL passes; the two `state_t` agree, in the fields `check_state` skips too; both but for a BADVADDR or CAUSE that the program has written itself |
| `arith` | formats of 8, 14 and 18 bits; one instruction on all operands, three on few | every floating-point, high-multiply and divide instruction and library routine computes the reference result and flags; flags are sticky through instructions, traps and register writes |
| `checkpoint` | 2 addresses, 2 values, 3 requests | the replay takes a new host through the recorded states; requests pending at the checkpoint are answered, once |
| `cache_sim` | one-line and two-set caches over two lines of twice the length, 5 accesses | dirty iff unsaved, whatever is evicted; one way per line; the statistics of the levels agree |

Why the bounds suffice for the questions asked:

* A ring of four is the smallest in which the window can be empty, one entry, in
  the middle, wrapped and full with distinct index patterns; two program counters
  let the RTL's expectation and the head differ. `cosim_ring` asks about indices and
  calls only, so one program counter keeps it small. The ring size is arbitrary in
  the proofs.
* Two cores are needed for interleaving; turns of two separate "ends by
  instructions", "ends by idling" and "mixed"; a skip of three straddles a turn;
  two requests let a second be made while the first answer is under way.
* One TLB entry for two pages makes every access of one evict the other. With
  virtual memory off a page is its own frame, so the two modes disagree about the
  target of page 0; the permission bits make user and supervisor disagree about
  every kind of access. The sizes are arbitrary in the proofs.
* With two bits in the lower half of the counter and slices of three, a slice can
  end before, at and after compare and can pass the wrap. Sizes are arbitrary in the
  proofs, as long as a slice is shorter than the lower half of the counter.

* Three instructions are enough to write a register, have a line rise or a host
  answer arrive in between, and read, trap or return, and to write BADVADDR, fault and
  read it; a distance of four lets the
  functional core finish before the RTL has begun. The counter halves are small so
  that it wraps and meets COMPARE.
* The miniature formats keep every relation between widths that the code relies on
  (guard bits, products in two words, more fraction bits in a double than in an
  integer, `FormatsAssumption`). All patterns of the narrow format are tried in
  operations of one operand; operations of two and three get zeros, subnormals, the
  extreme normal numbers, neighbours of one, ties, distant exponents, infinities and
  both kinds of NaN. Sequences of three separate "raised before", "raised now" and
  "left for later".
* Of three requests one may be finished, one pending at the checkpoint, and one made
  after it; with two addresses an answer in the wrong place shows.
* Two data lines share a line of the next level and two more compete for it, so that a
  write-back can evict the line about to be read, and the other way round; that takes
  four accesses.

Each property has a mutant in `PROJECT.json`: an operator in the module, commented
`Fault:`, that replaces a definition by what a plausible bug would make of it, and
that the property then rejects. No model action refers to one.

**Fairness.** In `CoSim` a call in progress continues (the host CPU executes the
C++ code): weak fairness of functional steps, of the return from `run_ahead` and
of the return from the refill loop. Nothing is assumed about the RTL, which may
stop calling. In `SimHtif` both threads keep running (weak fairness of `Step`,
`TickOnce`, `HostSends`, `HostGets`); and, as an assumption about the program and
not about the code, a program that has infinitely many chances to take an answer
takes it (strong fairness of `TakesAnswer`). Without it no request would ever be
finished, as the program may ignore `fromhost`. `Mmu` has safety properties only.
In `Hart`, `step` is called again and again and runs to its end (weak fairness of
`Step`), which the scheduler of `SimHtif` provides; nothing is assumed about which
instructions the program runs, nor about host and other cores.
In `Checkpoint`, `run_fast` and `run` keep ticking and the loop of the restore goes on
(weak fairness of `Tick`, `Replay`, `EndReplay`), and the program, which only waits,
takes its answer (`TakeAnswer`). Nothing makes a request or a checkpoint happen.
`Registers`, `Arith` and `CacheSim` have safety properties only.
Deadlock is checked in every run but `arith`, where sequences of instructions end at a
bound; elsewhere the end of the program is a stuttering action.

**Findings.** The three violation runs are listed in `PROJECT.json` with the
comments they contradict. The first one matters most in practice: a program that
enables interrupts stops the co-simulation on an assertion with a correct RTL.

## 4. Proofs

`CoSimProofs` (about `CoSim`, any ring size that is a power of two, any program):

* `InductiveInvariant`: `IInv` is `TypeOK` together with `RingInv` (`tail` is
  `head + length - 1` modulo the size: neither index alone says how full the ring
  is), `OpenInv` (an entry is open only while a functional step is in progress) and
  `WrittenInv` (every completed entry of the window has been written). Without the last
  two, `CheckReturns` could copy an unwritten successor into `arch_pc`, so `TypeOK`
  is not inductive.
* `TypeCorrect`, `ActiveWindow`, `Lookahead` follow, with interrupts enabled or not.
* `HeadIsArchPc`: with `Interrupts = FALSE`, `first` finds its pc. The additional
  invariant `ChainInv` says that the completed entries form a path from `arch_pc`
  to `pc`; it is what `TakeInterrupt` breaks.
* `Refinement`: with `Interrupts = FALSE`, `CoSim` implements
  `LockstepChecker`. One lemma per way in which `Pending`, the queue seen from above,
  changes: `PendingPush` (an entry is completed), `PendingPop` (`head` advances) and
  `PendingSame` (every other step); the rest follows from `ChainInv`.

`MmuProofs` (about `Mmu`, any number of pages, page tables, TLB and instruction
cache entries, any tracers):

* `MmuInvariant`: `IInv` is `TypeOK`, `FrameInv` (what a valid entry serves lies
  in memory), `HistoryInv` (the present table and memory are part of the history)
  and, for `Port = "isa"`, the two properties themselves. `FrameInv` does not
  mention the mode, which is why it survives the DPI's missing flush.
* `MmuTypeCorrect` for both ports; `TlbTransparent`, `ICacheTransparent` and
  `Refinement` (`Mmu` implements `AddressSpace`) under `Port = "isa"`. The
  refinement maps each action to one of `AddressSpace`: an access that does not
  fault goes where a walk could go (`PageByView`).

`HartProofs` (about `Hart`, registers of any size, any slice length below the size of
the counter's lower half, any status writes):

* `HartInvariant`: `IInv` is `TypeOK`, `TimerSound` and `SliceShort` (a slice that has
  not written the timer's registers is no longer than it was cut). The arithmetic is
  in lemmas: `FiresIffReached` says that the sign test of `update_timer` is "counting
  this slice reaches compare", `LimitEffect` that a slice has at least one instruction.
* `HartTypeCorrect`, `TimerIsSound`, `TimerIsPunctual`, `LinesAreKept`. The last uses
  one lemma per status operation: only `WithLine` changes a pending line.

What is proved of the timer is the range in which it works. A compare value of 0, and
one just past the wrap of the lower half that a longer slice runs over, raise nothing:
`armed` excludes both, and the hazards name them.

`CheckpointProofs` (about `Checkpoint`, any addresses, data and number of requests):

* `Invariance`: `Inv` adds to `TypeOK` that the trace is one longer than the log and
  that each recorded packet, served to the host before it from any memory and
  registers set up by `setup_replay_state`, gives the host after it. It is why polls
  that find nothing need no record.
* `ReplayFaithful` (the replay visits the recorded states), `EndHarmless` (the packet
  served at `END_HTIF_CHECKPOINT` finds nothing if the checkpoint was taken between
  requests) and `TypeCorrect`.
* `AnswerFits` (`AnswersTheRequest`): `Coherent` names the five stages a request goes
  through (unfetched, fetched, computed, returned, answered) with what memory, mailbox
  and host hold at each. `RequestInv` says that the running program, its memory and
  its host are at one stage, and so are the saved processor, the saved memory and the
  last host of the trace: the only three things that meet again after a restore.

`FcsrProofs` (about `Fcsr`, any instructions, operands, rounding fields and register
writes, any exponent and fraction widths, registers of any even width):

* `OneOrder` (`OrderIsOne`): every comparison, minimum, maximum, sign injection and
  classification returns what the one order of the values says, flags included.
  `Fields` takes a pattern apart into sign, exponent and fraction; `KindsAgree` says that
  NaN, infinity, zero and subnormal, told by the fields in the code, are those told by
  the magnitude; `OrderAgrees` that the test of `f32_lt` and `f32_le`, signs first, then
  patterns as integers with the sense turned below zero, is the order.
* `WideResults` (`WideIsInteger`): the high halves are those of the exact products, and
  quotients and remainders are exact. `ProductByHalves` says that none of the three
  sums of `mulhu` overflows its word, `NegationBorrows` that `mulh` and `mulhsu`, which
  negate a product by its halves, borrow from the high half exactly when the low half
  is not zero, `QuotientDivides` that dividing magnitudes truncates.
* `RoundPackIsIeee`: `roundPack` is one IEEE 754 rounding of the number its arguments
  stand for, result and flags, subnormals and overflow included, in all five modes, for
  every sign, exponent and normalised significand. The formats are those whose working
  word of `F + G + 2` bits is one of the two words and which have 2 exponent and 2 guard
  bits or more (`IsFormat`), which both of the code's are. Adding the increment and cutting the
  guard bits off carries exactly when the rounding goes up (`CutRounds`); the bit that a
  subnormal's right shift jams stands for all it lost (`JamRounds`, `ShiftJams`), so it
  rounds as it would unshifted (`ShiftedRounds`); a carry out of the word is the test for
  overflow (`WordCarries`), and infinity less one is where the directed modes stop
  (`TowardsZero`).
* `MulAddIsIeee`: `softfloat_mulAddF32`, which `fadd.s`, `fsub.s`, `fmul.s` and the four
  fused instructions call, returns what IEEE 754 asks of `a * b + c` rounded once,
  pattern and flags, in all five modes, for every three patterns, NaNs, infinities,
  zeros and subnormals included. `IsSingle` asks for a working word of `H` bits, a
  multiple of four, and 3 guard bits or more; single precision has 32 and 7. The
  operands are taken apart into `Term`s of one unit, however small the numbers
  (`ProductTerm`, `AddendTerm`). A number whose last bit is sticky (`Sticks`: exact when
  even, strictly between its even neighbours when odd) survives what the code does to
  it: another jamming shift (`StickyComposes`), adding or taking away an even number
  (`StickyAdds`), and rounding, as long as it has two bits below the last place
  (`StickyRounds`). It has, because the leading one is found by `countLeadingZeros64`
  (`DoublewordZeros`) and a difference that cancels many bits has had none jammed
  (`DifferenceDelivers`). `ExactSumIs` says that the exact sum does not depend on the
  place it is written at, `SpecialPatterns` what becomes of the other operands.
* `AddIsIeee`, `MulIsIeee`: `fadd.s` is `a * 1 + b` and `fmul.s` is `a * b + 0` with a
  zero of the product's sign; both are the plain operation rounded once. The exact sum
  of the fused operation is that of the plain one, written at another last place
  (`SumsAlike`). `fsub.s` and the negated fused instructions turn the sign of an operand
  in the code and in the reference alike.
* `DivIsIeee`: `f32_div` is the exact quotient rounded once, for all operands, every mode
  and every `IsSingle` format; division by zero, infinities and NaNs get their results and
  flags. The code divides by 64-bit integers and looks at the remainder only if the
  `G - 1` low bits of the quotient are 0; `QuotientSticks` says that the quotient, so jammed,
  is sticky where the rounding looks (`NumbersDivide`). The reference's quotient has
  `2F + 4` bits more, hence the bound on its `Places`, `3F + 6`, which only has to be large
  enough. The proof found two cases of the reference's `Div` that overlapped (infinity
  divided by a NaN): TLC takes the first that holds, the meaning of `CASE` is any of them.
  They are disjoint now, there and in the sums of magnitudes in `SoftFloat`.
* `FromIntegerIsIeee`, `DoubleFromIntegerIsIeee`: the eight conversions of integers are the
  integer rounded once, or exact. A long integer is jammed into the working word before it
  is packed (`DoublewordToFloat`); the least integer, whose magnitude has no
  word, is packed by itself (`LowestToFloat`). The format's exponents must reach beyond the
  integers of a word (`Reaches`).
* `NarrowingIsIeee`, `WideningIsIeee`: `f64_to_f32` rounds once although its significand
  is jammed first and gets a hidden bit even if it is subnormal (`TinyRounds`: such a
  number, below half of the least subnormal of the single format, rounds as any
  other there), and `f32_to_f64` is exact, subnormals included.
  `Widens` asks that the smallest doubles be that small. A NaN becomes quiet, with the
  invalid flag if it signalled; its sign, which the code keeps, is left open.
* `HardwareFormats`: 32-bit and 64-bit floats with words of 32 bits satisfy `IsSingle`,
  `IsDouble`, `Reaches` and `Widens`, so that none of the theorems is about formats that
  the program does not have.
* `OneOrder` and `WideResults` need of a program only that `last` is what its last
  instruction computed (`LastInv`); the rest is arithmetic, from the definition of `\div` and `%` and
  two facts about powers of two (`PowerOfTwo`, `PowersAdd`).
* `StickyFlags`: `fflags` holds exactly what was promised since it was last written.
  The invariant says that the library's flags are empty between instructions and its
  mode is one that exists. Its one hypothesis, `FlagsAsPromised`, is that an operation
  that rounds raises the flags promised of it, which `arith` checks; that comparisons
  do is not supposed but follows from `OneOrder`'s lemmas.
* `TypeCorrect`, under the same hypothesis.

`SimHtifProofs` (about `SimHtif`, any number of cores, lengths of turn and skip, and
number of requests):

* `Invariance`: `IInv` adds to `TypeOK` and `InterruptIffAnswer` that one packet or one
  reply is under way and the packet is the present one of the host (`ChannelInv`), that
  reset lasts until the release of the first core has been served (`ResetInv`), and
  that the cores the host has stopped stay stopped (`StopInv`): `done()` is true before
  the host can go, which is what `TickIsServed` rests on.
* `TypeCorrect`, `InterruptMeansAnswer`, `TickAlwaysServed`.
* `Refinement`: `SimHtif` implements `Mailbox`. An answer is in
  one of four places: the reply that carries the request to the host, the host's hands,
  its outbox, `fromhost`. Each step moves it from one to the next (`MoveToServing`,
  `MoveToOutbox`, `MoveToFromhost`) or leaves it. `QueueInv` says that their contents,
  in this order, are numbered without a gap from the last answer taken to the last
  request made, so the program finds in `fromhost` the answer that is due. It holds
  only of cores that the host has not stopped, whose registers `reset` clears.

`CacheSimProofs` (about `CacheSim`, caches of any number of sets and of one way or more,
lines of any power of two, a last level whose lines are no shorter than those above it,
any addresses and any number of accesses; `init` itself asks for more of sets and lines,
see `ConfigAssumption`, and nothing asks for a way, without which `victimize` divides by
zero):

* `Invariance`: `IInv` has three parts. `LevelsInv` holds of each level by itself: a
  line is in one way at most, no more lines are present than were missed, none is
  dirty or was written back without a store. `AskedInv` says that the last level was
  asked for exactly what the other two missed and wrote back. `UnsavedInv` says that
  the dirty lines of the data cache and of the last level are those of addresses
  whose last store has not reached memory, and that no line of the instruction cache
  is dirty; without that conjunct a write-back of the instruction cache could make a
  line below dirty that no store explains.
* The argument goes level by level. `DirtyLinesAfter`, `CountersAfter` and
  `OneWayAfter` say what one access makes of one level; `Step` relates two levels, and
  a hit, a clean miss and a dirty miss are each shown to be one (`HitStep`,
  `CleanMissStep`, `DirtyMissStep`); `SettleKeeps` gets the invariant from `Step` alone.
* `SameLineBelow` is where the geometry matters: an address rounded down in the upper
  level stays in its line of the lower one. It needs that the longer of two powers of
  two is a multiple of the other, which is proved by counting subsets (`PowersGrow`,
  `PowersAdd`), as induction is out of reach.
* `TypeCorrect`, `LinesAreFoundOnce`, `StoresReachMemoryOnce`, `CountsAgree`.

`RegistersProofs` (about `Registers`, any program on the modelled registers, any host,
any width of the counter, any distance between the two simulators):

* What is written twice does the same to one state: `WritesAgree` (`set_pcr`, but for
  BADVADDR and CAUSE), `ReadsAgree` (`get_pcr`), `TimersAgree`, `PacketsAgree`
  (`set_fromhost`), `TrapsAgree`. `ExecutesCore` shows that `rv64`, which only
  `processor_t` keeps, stays what STATUS says (`Core`), so the RTL may compute it from
  STATUS.
* Because of the two registers the states are not equal but `Alike`: equal outside
  `stray`. No function carries what is stray into another field (`WritesAlike`,
  `TrapsAlike`, `TimersAlike`, `PacketsAlike`), only reading one of the two registers
  shows it (`ReadsAlike`, `DestinationsAlike`), and a trap ends it. `CsrAlike` has the
  cases: `csrr` writes back what it has read, on both sides, and the other csr
  instructions make the register stray.
* `Invariance`: the properties are not inductive, as they say nothing of what is still
  in `buffer`. `HistoryInv` adds that each element of it explains the step between its
  two neighbours in `states`; the functional simulator appends such an element
  (`HistoryGrows`) and the RTL takes the first one (`HistoryShrinks`).
* `DpiFollows` (`RegistersAgree`) and `NoFalseAlarm` (`ChecksPass`): no program meets a
  false alarm that does not write BADVADDR or CAUSE itself; one that does meets it in
  these two registers only, until the next trap that sets them.

The proofs rest on the named assumptions about the constants, `FlagsAsPromised`
included, and on nothing else. The inductive invariants of `CacheSimProofs`,
`CheckpointProofs` and `RegistersProofs` hold in TLC on the instances of the runs too.

Only model-checked: what the other operations that round compute, that is the rest of
`ArithmeticIsIeee` (double-precision sums, products and division, square roots), of
`ConversionsAreIeee` (floats to integers) and of `LibraryIsIeee` (rounding to an integer,
remainders). Division of doubles, roots and remainders correct an estimate in a loop, a
`RECURSIVE` operator: that it converges is induction over data. Their last step,
`roundPack`, is proved. Also only model-checked is all liveness
(in `Hart`: `InterruptTaken`, `TimerArrives`, `CoreProgresses`; in `SimHtif`:
`EveryCoreScheduled`, `RequestAnswered`, `SimulationEnds`; in `CoSim`: `CheckComesBack`;
in `Checkpoint`: `RequestSurvives`).
Liveness under fairness and ENABLED are outside what the prover does.

## 5. Not modelled

* `step_till_pc`, `find`, `check_next`, `peek` and `skip_till_pc`, and the payload
  buffer: no caller in the DPI build. `step_micro`: its pipeline is commented out.
* LR/SC and its reservation, which `run_fast` gives up when it passes to the next core
  and `step` does not; the one-operator integer instructions; the decoder's opcode map.
* Extension interrupts (`IRQ_COP`; no extension is registered in the DPI build), PTBR
  outside `Mmu`, SUP1 and the UARCH registers, the RTL's own copy of STATUS and
  FROMHOST, and what the RTL does after it has read from BADVADDR or CAUSE a value that
  the functional core does not have.
  `Registers` runs with all interrupts masked; `CoSim` shows what becomes of them.
* Widths, alignment below a page and the physical layout of page tables.
* In arithmetic: what a compiler may make of the signed overflow of `a * b` and `-a` in
  `mulh` (`mulhi.h:27-31`), which C++ leaves undefined. `MulDiv` wraps, as does the build
  that `configure.ac` sets up (`-O0`); whether the high half borrows depends on it. The
  upper half of a floating-point register that holds a single;
  `xlen` of 32; primitives of 192 and 256 bits, which nothing calls; the digits of the
  tables of `estimateSqrt32`, abstracted to the error their values have. The reference
  follows the code in what IEEE 754 leaves open: conversions between the formats keep
  the sign of a NaN, and a signaling second operand of `fmin` or `fmax` raises nothing.
* In checkpoints: the file formats and their compression; a recording that begins
  before `boot` has released the core, whose reset packets `setup_replay_state` aborts
  on; several cores. The code writes three files and reads one: the tool that joins
  them and adds the `END_HTIF_CHECKPOINT` line is not in the repository. A checkpoint
  taken while the host is in the middle of a request is replayed, but nothing is
  claimed of the answer.
* In the cache models: the copy constructor and `print_stats`; the numbers the LFSR
  gives (any way may be the victim); a lower level with shorter lines than the one
  above. `idx_shift` makes the block twice the line size that the help text gives.
* Sequence numbers and system control registers of the HTIF.
* Several cores in co-simulation: the DPI interface addresses core 0 only, and one
  debug buffer is shared.
* Statistics, histograms, parameters, disassembly, the interactive console,
  gzstream, RoCC registration, the build system.

## 6. Plan

1. Done: `LockstepChecker`, `DebugBuffer`, `CoSim`, `CoSimProofs`; `Mailbox`, `SimHtif`,
   `SimHtifProofs`; `PageTable`, `AddressSpace`, `Mmu`, `MmuProofs`; `Hart`,
   `HartProofs`; `Words`, `Pattern`, `Rounding`, `MulAdd`, `MulDiv` and the
   modules above them to `Arith`, `FcsrProofs`; `Checkpoint`, `CheckpointProofs`; `CacheSim`, `CacheSimProofs`; `Registers`, `RegistersProofs`.
2. `LoadReserved`: LR/SC with two cores under `run_fast` and under `step`, against
   an abstract atomic update.
3. Decoding and the multi-level walk, as functions against a reference.
4. Proofs: action properties that say what one access of `Mmu` and one slice of `Hart`
   may not disturb; as `MulAddIsIeee`, the double-precision sum and product, whose product
   has two words; as `NarrowingIsIeee`, the conversions to integers and `roundToInt`.
