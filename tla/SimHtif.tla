------------------------------- MODULE SimHtif -------------------------------
(***************************************************************************)
(* sim_t and htif_isasim_t: one simulator of type ISA_SIM that runs its    *)
(* cores in turn and, at the end of every turn, gives the host one packet  *)
(* to exchange (dpi_sim/sim.cc, isa_sim_dpi/htif.cc, processor.cc).        *)
(*                                                                         *)
(* The host side, fesvr, is not in the repository. It is modelled as a     *)
(* second actor from the packets tick_once accepts: it loads the program,  *)
(* releases the cores, polls tohost by exchanging it with 0, writes an     *)
(* answer to fromhost until it reads back that the register was free, and  *)
(* on an exit request resets the cores and goes away. It sends the next    *)
(* packet only after the reply to the last one.                            *)
(*                                                                         *)
(* An instruction either uses the mailbox or has no effect here. Sequence  *)
(* numbers, which both sides increment once per packet, are left out.      *)
(***************************************************************************)
EXTENDS Integers, Sequences

CONSTANTS
  NumCores,    (* procs.size()                                             *)
  INTERLEAVE,  (* instructions, or idle calls, in a turn; 50 in sim.h      *)
  Skip,        (* instructions run_fast has to skip                        *)
  MaxRequests  (* requests a program makes, exit not counted               *)

ASSUME ParametersAssumption ==
  /\ NumCores \in Nat \ {0}
  /\ INTERLEAVE \in Nat \ {0}
  /\ Skip \in Nat
  /\ MaxRequests \in Nat

Core == 0 .. (NumCores - 1)

Exit == MaxRequests + 1

Value == 0 .. Exit

VARIABLES
  (* processor_t                                                           *)
  run,           (* released from reset                                    *)
  tohost,
  fromhost,
  irq_host,      (* SR_IP bit of IRQ_HOST                                  *)
  (* sim_t                                                                 *)
  driver,        (* the caller: "boot", "fast" (run_fast), "run", "done"   *)
  left,          (* run_fast: instructions still to skip                   *)
  current_step,
  idle_cycles,
  current_proc,
  (* htif_isasim_t                                                         *)
  reset,
  ticking,       (* in tick(), waiting in tick_once for a packet           *)
  (* the channel and the host                                              *)
  packet,        (* from the host, or NoMessage                            *)
  reply,         (* to the host, or NoMessage                              *)
  phase,         (* what the host does next                                *)
  peer,          (* the core it does it for                                *)
  serving,       (* the request it has fetched and not answered, or 0      *)
  outbox,        (* answers the host has for each core                     *)
  (* history                                                               *)
  asked,         (* requests each program has had accepted                 *)
  taken          (* answers each program has taken                         *)

coreVars == <<run, tohost, fromhost, irq_host>>
simVars == <<driver, left, current_step, idle_cycles, current_proc>>
htifVars == <<reset, ticking>>
hostVars == <<phase, peer, serving, outbox>>
history == <<asked, taken>>
vars == <<coreVars, simVars, htifVars, packet, reply, hostVars, history>>

NoMessage == [cmd |-> "none"]

Packet ==
  [cmd : {"mem"}]
    \union [cmd : {"tohost"}, core : Core, val : {0}]
    \union [cmd : {"fromhost"}, core : Core, val : Value \ {0}]
    \union [cmd : {"reset"}, core : Core, val : {0, 1}]

Reply == [cmd : {"mem"}] \union [cmd : {"tohost", "fromhost", "reset"}, old : Value]

TypeOK ==
  /\ run \in [Core -> BOOLEAN]
  /\ tohost \in [Core -> Value]
  /\ fromhost \in [Core -> Value]
  /\ irq_host \in [Core -> BOOLEAN]
  /\ driver \in {"boot", "fast", "run", "done"}
  /\ left \in 0 .. Skip
  /\ current_step \in 0 .. (INTERLEAVE - 1)
  /\ idle_cycles \in 0 .. (INTERLEAVE - 1)
  /\ current_proc \in Core
  /\ reset \in BOOLEAN
  /\ ticking \in BOOLEAN
  /\ packet \in Packet \union {NoMessage}
  /\ reply \in Reply \union {NoMessage}
  /\ phase \in {"load", "release", "poll", "serve", "answer", "stop", "gone"}
  /\ peer \in Core
  /\ serving \in 0 .. MaxRequests
  /\ outbox \in [Core -> Seq(1 .. MaxRequests)]
  /\ asked \in [Core -> 0 .. MaxRequests]
  /\ taken \in [Core -> 0 .. MaxRequests]

(* The constructors have run; boot() has called tick().                    *)
Init ==
  /\ run = [c \in Core |-> FALSE]
  /\ tohost = [c \in Core |-> 0]
  /\ fromhost = [c \in Core |-> 0]
  /\ irq_host = [c \in Core |-> FALSE]
  /\ driver = "boot"
  /\ left = Skip
  /\ current_step = 0
  /\ idle_cycles = 0
  /\ current_proc = 0
  /\ reset = TRUE
  /\ ticking = TRUE
  /\ packet = NoMessage
  /\ reply = NoMessage
  /\ phase = "load"
  /\ peer = 0
  /\ serving = 0
  /\ outbox = [c \in Core |-> <<>>]
  /\ asked = [c \in Core |-> 0]
  /\ taken = [c \in Core |-> 0]

-----------------------------------------------------------------------------
(* processor_t                                                             *)

(* sim_t::running                                                          *)
Running == \E c \in Core : run[c]

(* The instructions of one slice in which core c retires k: they may clear *)
(* fromhost, which clears the interrupt, and may write tohost. A write to  *)
(* a tohost that is still full is dropped by set_pcr and not listed here.  *)
UseMailbox(c, k, take, ask) ==
  /\ take => k > 0 /\ fromhost[c] # 0
  /\ ask # 0 => k > 0 /\ tohost[c] = 0
  /\ ask \in {0, Exit} \union {asked[c] + 1}
  /\ fromhost' = IF take THEN [fromhost EXCEPT ![c] = 0] ELSE fromhost
  /\ irq_host' = IF take THEN [irq_host EXCEPT ![c] = FALSE] ELSE irq_host
  /\ tohost' = IF ask # 0 THEN [tohost EXCEPT ![c] = ask] ELSE tohost
  /\ asked' = IF ask \in 1 .. MaxRequests THEN [asked EXCEPT ![c] = ask] ELSE asked
  /\ taken' = IF take THEN [taken EXCEPT ![c] = fromhost[c]] ELSE taken
  /\ UNCHANGED run

(* processor_t::step(steps, instret): a core in reset retires nothing; a   *)
(* trap, an interrupt or the timer may end the slice early.                *)
Retired(c, steps) == IF run[c] THEN 0 .. steps ELSE {0}

(* Fault: the register is written past set_fromhost.                       *)
SetFromhostOnly(c, val) ==
  /\ fromhost' = [fromhost EXCEPT ![c] = val]
  /\ UNCHANGED irq_host

(* processor_t::set_fromhost                                               *)
SetFromhost(c, val) ==
  /\ irq_host' = [irq_host EXCEPT ![c] = (val # 0)]
  /\ fromhost' = [fromhost EXCEPT ![c] = val]

(* processor_t::reset: nothing if the core is already in that state,       *)
(* otherwise state_t::reset.                                               *)
ResetCore(c, value) ==
  IF run[c] = ~value
  THEN UNCHANGED coreVars
  ELSE /\ run' = [run EXCEPT ![c] = ~value]
       /\ tohost' = [tohost EXCEPT ![c] = 0]
       /\ fromhost' = [fromhost EXCEPT ![c] = 0]
       /\ irq_host' = [irq_host EXCEPT ![c] = FALSE]

-----------------------------------------------------------------------------
(* sim_t                                                                   *)

(* Fault: the end is recognised in reset only.                             *)
DoneInReset == reset /\ ~Running

(* htif_isasim_t::done                                                     *)
Done == ~reset /\ ~Running

LesserOf(a, b) == IF a < b THEN a ELSE b

(* How far the next call of processor_t::step may go: step(1) in run, the  *)
(* rest of the skip in run_fast, never past the end of the turn.           *)
SliceLength ==
  LesserOf(IF driver = "fast" THEN left ELSE 1, INTERLEAVE - current_step)

(* Fault: the last core is taken for the number of cores.                  *)
NextProcShort == IF current_proc + 1 = NumCores - 1 THEN 0
                 ELSE IF current_proc + 1 = NumCores THEN 0 ELSE current_proc + 1

NextProc == IF current_proc + 1 = NumCores THEN 0 ELSE current_proc + 1

(* Fault: only retired instructions bring a turn to its end.               *)
IdleAfterNever(k) == 0

IdleAfter(k) == IF k > 0 THEN 0 ELSE idle_cycles + 1

(* Fault: a turn one instruction too long.                                 *)
TurnOverLate(k) == current_step + k > INTERLEAVE \/ IdleAfter(k) = INTERLEAVE

TurnOver(k) == current_step + k = INTERLEAVE \/ IdleAfter(k) = INTERLEAVE

(* One iteration of the loop of run_fast, or one step(1) of run, up to the *)
(* call of tick that ends a turn. If tick returns FALSE the loop ends; run *)
(* starts afresh after run_fast.                                           *)
Step(k, take, ask) ==
  /\ driver \in {"fast", "run"}
  /\ ~ticking
  /\ k \in Retired(current_proc, SliceLength)
  /\ UseMailbox(current_proc, k, take, ask)
  /\ left' = IF driver = "fast" THEN left - k ELSE left
  /\ IF TurnOver(k)
     THEN /\ current_step' = 0
          /\ idle_cycles' = 0
          /\ current_proc' = NextProc
          /\ ticking' = ~Done
     ELSE /\ current_step' = current_step + k
          /\ idle_cycles' = IdleAfter(k)
          /\ UNCHANGED <<current_proc, ticking>>
  /\ driver' =
       IF TurnOver(k) /\ Done
       THEN IF driver = "fast" THEN "run" ELSE "done"
       ELSE IF driver = "fast" /\ left' = 0 THEN "run" ELSE driver
  /\ UNCHANGED <<reset, packet, reply, hostVars>>

-----------------------------------------------------------------------------
(* htif_isasim_t                                                           *)

(* Fault: an answer overwrites the one before.                             *)
OverwriteFromhost(p) == SetFromhost(p.core, p.val)

(* fromhost is written only if it is free.                                 *)
OfferFromhost(p) ==
  IF fromhost[p.core] = 0
  THEN SetFromhost(p.core, p.val)
  ELSE UNCHANGED <<fromhost, irq_host>>

(* The register exchange of tick_once: what packet p does to the cores,    *)
(* and the old value it returns.                                           *)
ExchangeRegister(p) ==
  \/ /\ p.cmd = "tohost"
     /\ reply' = [cmd |-> "tohost", old |-> tohost[p.core]]
     /\ tohost' = [tohost EXCEPT ![p.core] = p.val]
     /\ UNCHANGED <<run, fromhost, irq_host, reset>>
  \/ /\ p.cmd = "fromhost"
     /\ reply' = [cmd |-> "fromhost", old |-> fromhost[p.core]]
     /\ OfferFromhost(p)
     /\ UNCHANGED <<run, tohost, reset>>
  \/ /\ p.cmd = "reset"
     /\ reply' = [cmd |-> "reset", old |-> IF run[p.core] THEN 0 ELSE 1]
     /\ reset' = (reset /\ p.val = 1)
     /\ ResetCore(p.core, p.val = 1)

(* One tick_once. tick repeats it as long as the system is in reset. When  *)
(* tick returns to boot, the caller goes on with run_fast or run.          *)
TickOnce ==
  /\ ticking
  /\ packet # NoMessage
  /\ \/ /\ packet.cmd = "mem"
        /\ reply' = packet
        /\ UNCHANGED <<coreVars, reset>>
     \/ ExchangeRegister(packet)
  /\ packet' = NoMessage
  /\ ticking' = reset'
  /\ driver' = IF driver = "boot" /\ ~reset'
               THEN IF left = 0 THEN "run" ELSE "fast"
               ELSE driver
  /\ UNCHANGED <<left, current_step, idle_cycles, current_proc, hostVars, history>>

-----------------------------------------------------------------------------
(* The host (external)                                                     *)

LastCore == peer = NumCores - 1

NextPeer == IF LastCore THEN 0 ELSE peer + 1

HostPacket ==
  CASE phase \in {"load", "serve"} -> [cmd |-> "mem"]
    [] phase = "release" -> [cmd |-> "reset", core |-> peer, val |-> 0]
    [] phase = "poll"    -> [cmd |-> "tohost", core |-> peer, val |-> 0]
    [] phase = "answer"  -> [cmd |-> "fromhost", core |-> peer, val |-> Head(outbox[peer])]
    [] phase = "stop"    -> [cmd |-> "reset", core |-> peer, val |-> 1]

HostSends ==
  /\ phase # "gone"
  /\ packet = NoMessage
  /\ reply = NoMessage
  /\ packet' = HostPacket
  /\ UNCHANGED <<coreVars, simVars, htifVars, reply, hostVars, history>>

HostStarts ==
  /\ \/ phase = "load" /\ phase' = "release" /\ peer' = peer
     \/ phase = "release" /\ phase' = (IF LastCore THEN "poll" ELSE phase) /\ peer' = NextPeer
  /\ UNCHANGED <<serving, outbox>>

HostPolled ==
  /\ phase = "poll"
  /\ \/ /\ reply.old = 0
        /\ phase' = IF outbox[peer] = <<>> THEN "poll" ELSE "answer"
        /\ peer' = IF outbox[peer] = <<>> THEN NextPeer ELSE peer
        /\ UNCHANGED serving
     \/ /\ reply.old \in 1 .. MaxRequests
        /\ phase' = "serve"
        /\ serving' = reply.old
        /\ UNCHANGED peer
     \/ /\ reply.old = Exit
        /\ phase' = "stop"
        /\ peer' = 0
        /\ UNCHANGED serving
  /\ UNCHANGED outbox

HostServed ==
  /\ phase = "serve"
  /\ outbox' = [outbox EXCEPT ![peer] = Append(@, serving)]
  /\ serving' = 0
  /\ phase' = "answer"
  /\ UNCHANGED peer

HostAnswered ==
  /\ phase = "answer"
  /\ outbox' = IF reply.old = 0 THEN [outbox EXCEPT ![peer] = Tail(@)] ELSE outbox
  /\ phase' = "poll"
  /\ peer' = NextPeer
  /\ UNCHANGED serving

HostStops ==
  /\ phase = "stop"
  /\ phase' = IF LastCore THEN "gone" ELSE "stop"
  /\ peer' = NextPeer
  /\ UNCHANGED <<serving, outbox>>

HostGets ==
  /\ reply # NoMessage
  /\ reply' = NoMessage
  /\ HostStarts \/ HostPolled \/ HostServed \/ HostAnswered \/ HostStops
  /\ UNCHANGED <<coreVars, simVars, htifVars, packet, history>>

-----------------------------------------------------------------------------
Returned == driver = "done" /\ UNCHANGED vars

Next ==
  \/ \E k \in 0 .. INTERLEAVE, take \in BOOLEAN, ask \in Value : Step(k, take, ask)
  \/ TickOnce
  \/ HostSends
  \/ HostGets
  \/ Returned

Spec == Init /\ [][Next]_vars

(* Both threads keep running, and the program of core c does not ignore    *)
(* fromhost for ever.                                                      *)
TakesAnswer(c) ==
  /\ current_proc = c
  /\ \E k \in 1 .. INTERLEAVE, ask \in Value : Step(k, TRUE, ask)

Fairness ==
  /\ WF_vars(\E k \in 0 .. INTERLEAVE, take \in BOOLEAN, ask \in Value : Step(k, take, ask))
  /\ WF_vars(TickOnce)
  /\ WF_vars(HostSends)
  /\ WF_vars(HostGets)
  /\ \A c \in Core : SF_vars(TakesAnswer(c))

FairSpec == Spec /\ Fairness

-----------------------------------------------------------------------------
(* The answers on their way to core c, next to be taken first: the one in  *)
(* fromhost, those the host still has to write, without the one whose      *)
(* delivery the host has not been told of, and the request it is serving.  *)
OnTheWay(c) ==
  LET delivered == reply.cmd = "fromhost" /\ peer = c /\ reply.old = 0
      fetched == reply.cmd = "tohost" /\ peer = c /\ reply.old \in 1 .. MaxRequests
  IN  (IF fromhost[c] # 0 THEN <<fromhost[c]>> ELSE <<>>)
        \o (IF delivered THEN Tail(outbox[c]) ELSE outbox[c])
        \o (IF serving # 0 /\ peer = c THEN <<serving>> ELSE <<>>)
        \o (IF fetched THEN <<reply.old>> ELSE <<>>)

Answers == [c \in Core |-> IF run[c] THEN OnTheWay(c) ELSE <<>>]

Promise == INSTANCE Mailbox WITH
  request <- tohost,
  answers <- Answers

(* Whatever the order in which cores, ticks and the host proceed, a        *)
(* request put in tohost reaches the host once and in order, and its       *)
(* answer the program once and in order, although the host may have to     *)
(* write fromhost several times before it is accepted.                     *)
ImplementsMailbox == Promise!Spec

(* The interrupt line is up exactly while fromhost holds an answer, with   *)
(* the host, the program and the reset all writing both.                   *)
InterruptIffAnswer == \A c \in Core : irq_host[c] <=> fromhost[c] # 0

(* tick never waits for a packet from a host that has gone away: done()    *)
(* tells the end of the program before the simulator blocks in recv.       *)
TickIsServed == ticking /\ packet = NoMessage /\ reply = NoMessage => phase # "gone"

(* No core is passed over, be the others running, trapping or in reset.    *)
EveryCoreScheduled == \A c \in Core : []<>(current_proc = c \/ driver = "done")

(* A request is answered, or the simulation ends.                          *)
RequestAnswered ==
  \A c \in Core, v \in 1 .. MaxRequests : tohost[c] = v ~> (taken[c] >= v \/ ~run[c])

(* After an exit request the simulator returns to its caller: the cores    *)
(* are idle then, so only the idle count still brings the turn to its end. *)
SimulationEnds == \A c \in Core : tohost[c] = Exit ~> driver = "done"
=============================================================================
