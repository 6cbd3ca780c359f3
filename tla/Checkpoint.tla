----------------------------- MODULE Checkpoint -----------------------------
(***************************************************************************)
(* Checkpoints: while a recording is on, htif_isasim_t writes down the     *)
(* packets it serves; create_checkpoint adds the memory and the processor  *)
(* state. A later process boots, replays the recording to its own host,    *)
(* which has no other way of getting back to where it was, and then loads  *)
(* memory and processor (isa_sim_dpi/htif.cc, dpi_sim/sim.cc).             *)
(*                                                                         *)
(* create_checkpoint writes three files; restore_checkpoint reads a single *)
(* one, which has an END_HTIF_CHECKPOINT line and the size of the memory   *)
(* as well. The tool that makes the one from the three is not in the       *)
(* repository; its file is taken to be their content with that line.       *)
(*                                                                         *)
(* One core, as run_fast demands. The program, which is external, puts an  *)
(* argument in memory and its address in tohost and waits for fromhost.    *)
(* The host, external too, polls tohost by exchanging it with 0, reads the *)
(* argument, writes the result in its place and answers. The recording     *)
(* starts after boot, so that it holds no packet setup_replay_state aborts *)
(* on (reset and system registers).                                        *)
(***************************************************************************)
EXTENDS Naturals, Sequences

CONSTANTS
  Word,        (* the addresses of arguments                               *)
  Data,
  None,        (* no address, no request, memory not written               *)
  MaxRequests  (* bound: requests the program makes                        *)

ASSUME ParametersAssumption ==
  /\ None \notin Word
  /\ None \notin (Word \X Data) \union ({"arg", "res"} \X Data)
  /\ MaxRequests \in Nat

VARIABLES
  mem,      (* sim_t::mem                                                  *)
  core,     (* state_t; what the program waits for; requests made          *)
  host,     (* what the host sends next, for which word, what it has read  *)
  mode,     (* "record": checkpointing_active; "created"; "replay": in     *)
            (* htif's restore_checkpoint; "restored"                       *)
  log,      (* the packets recorded                                        *)
  file,     (* the memory and the processor recorded                       *)
  next,     (* how many packets of log have been replayed                  *)
  trace     (* history: the host after boot and after each packet of log   *)

vars == <<mem, core, host, mode, log, file, next, trace>>

Content == ({"arg", "res"} \X Data) \union {None}

Memory == [Word -> Content]

Core == [tohost : Word \union {None}, fromhost : {0, 1}, irq_host : BOOLEAN,
         waits : (Word \X Data) \union {None}, asked : 0 .. MaxRequests]

Host == [phase : {"poll"}, word : {None}, got : {None}]
          \union [phase : {"read", "write", "answer"}, word : Word, got : Content]

Packet == [cmd : {"READ_MEM"}, addr : Word, data : Content]
            \union [cmd : {"WRITE_MEM"}]
            \union [cmd : {"TOHOST"}, old_regval : Word]
            \union [cmd : {"FROMHOST"}, old_regval : {0, 1}]

TypeOK ==
  /\ mem \in Memory
  /\ core \in Core
  /\ host \in Host
  /\ mode \in {"record", "created", "replay", "restored"}
  /\ log \in Seq(Packet)
  /\ file \in [mem : Memory, core : Core]
  /\ next \in 0 .. Len(log)
  /\ trace \in Seq(Host)

Polling == [phase |-> "poll", word |-> None, got |-> None]

BootMem == [w \in Word |-> None]

BootCore == [tohost |-> None, fromhost |-> 0, irq_host |-> FALSE,
             waits |-> None, asked |-> 0]

(* boot has returned and init_checkpoint has been called.                  *)
Init ==
  /\ mem = BootMem
  /\ core = BootCore
  /\ host = Polling
  /\ mode = "record"
  /\ log = <<>>
  /\ file = [mem |-> BootMem, core |-> BootCore]
  /\ next = 0
  /\ trace = <<Polling>>

-----------------------------------------------------------------------------
(* The program (external)                                                  *)

Executing == mode # "replay"

Ask(w, d) ==
  /\ Executing
  /\ core.waits = None
  /\ core.tohost = None
  /\ core.asked < MaxRequests
  /\ mem' = [mem EXCEPT ![w] = <<"arg", d>>]
  /\ core' = [core EXCEPT !.tohost = w, !.waits = <<w, d>>, !.asked = @ + 1]
  /\ UNCHANGED <<host, mode, log, file, next, trace>>

TakeAnswer ==
  /\ Executing
  /\ core.fromhost # 0
  /\ core' = [core EXCEPT !.fromhost = 0, !.irq_host = FALSE, !.waits = None]
  /\ UNCHANGED <<mem, host, mode, log, file, next, trace>>

-----------------------------------------------------------------------------
(* tick_once: what the packet of host h does to memory m and processor c,  *)
(* and what the host gets back                                             *)

(* The host's work on what it has read (external).                         *)
ResultOf(v) == IF v = None THEN None ELSE <<"res", v[2]>>

MemAfter(m, h) ==
  IF h.phase = "write" THEN [m EXCEPT ![h.word] = ResultOf(h.got)] ELSE m

(* processor_t::set_fromhost                                               *)
SetFromhost(c, val) == [c EXCEPT !.fromhost = val, !.irq_host = (val # 0)]

CoreAfter(c, h) ==
  IF h.phase = "poll" THEN [c EXCEPT !.tohost = None]
  ELSE IF h.phase = "answer" /\ c.fromhost = 0 THEN SetFromhost(c, 1)
  ELSE c

Reply(m, c, h) ==
  IF h.phase = "poll" THEN c.tohost
  ELSE IF h.phase = "read" THEN m[h.word]
  ELSE IF h.phase = "write" THEN None
  ELSE c.fromhost

(* The host goes on with the reply (external).                             *)
HostAfter(h, r) ==
  IF h.phase = "poll"
  THEN IF r = None THEN h ELSE [phase |-> "read", word |-> r, got |-> None]
  ELSE IF h.phase = "read" THEN [phase |-> "write", word |-> h.word, got |-> r]
  ELSE IF h.phase = "write" THEN [h EXCEPT !.phase = "answer"]
  ELSE IF r = 0 THEN Polling ELSE h

(* What tick_once writes to the recording.                                 *)
Recorded(h, r) ==
  IF h.phase = "poll" THEN [cmd |-> "TOHOST", old_regval |-> r]
  ELSE IF h.phase = "read" THEN [cmd |-> "READ_MEM", addr |-> h.word, data |-> r]
  ELSE IF h.phase = "write" THEN [cmd |-> "WRITE_MEM"]
  ELSE [cmd |-> "FROMHOST", old_regval |-> r]

(* A poll that finds tohost empty is not recorded.                         *)
WorthRecording(h, r) == h.phase # "poll" \/ r # None

TickOnce(m, c) ==
  /\ mem' = MemAfter(m, host)
  /\ core' = CoreAfter(c, host)
  /\ host' = HostAfter(host, Reply(m, c, host))

Tick ==
  LET reply == Reply(mem, core, host)
      recording == mode = "record" /\ WorthRecording(host, reply)
  IN  /\ Executing
      /\ TickOnce(mem, core)
      /\ log' = IF recording THEN Append(log, Recorded(host, reply)) ELSE log
      /\ trace' = IF recording THEN Append(trace, host') ELSE trace
      /\ UNCHANGED <<mode, file, next>>

-----------------------------------------------------------------------------
(* Creating and restoring                                                  *)

(* Fault: the memory is the one of the beginning of the recording.         *)
SavedAtInit == [mem |-> BootMem, core |-> core]

(* create_memory_checkpoint and create_proc_checkpoint                     *)
Saved == [mem |-> mem, core |-> core]

CreateCheckpoint ==
  /\ mode = "record"
  /\ mode' = "created"
  /\ file' = Saved
  /\ UNCHANGED <<mem, core, host, log, next, trace>>

(* The process ends, at any time after it has created the checkpoint; a    *)
(* new one boots and starts to restore.                                    *)
Restart ==
  /\ mode = "created"
  /\ mode' = "replay"
  /\ mem' = BootMem
  /\ core' = BootCore
  /\ host' = Polling
  /\ next' = 0
  /\ UNCHANGED <<log, file, trace>>

(* Fault: fromhost is not set up.                                          *)
SetUpTohostOnly(c, p) == IF p.cmd = "TOHOST" THEN [c EXCEPT !.tohost = p.old_regval] ELSE c

(* setup_replay_state, for the processor                                   *)
SetUpCore(c, p) ==
  IF p.cmd = "TOHOST" THEN [c EXCEPT !.tohost = p.old_regval]
  ELSE IF p.cmd = "FROMHOST" THEN SetFromhost(c, p.old_regval)
  ELSE c

(* Fault: memory is not set up.                                            *)
SetUpRegistersOnly(m, p) == m

(* setup_replay_state, for the memory                                      *)
SetUpMem(m, p) == IF p.cmd = "READ_MEM" THEN [m EXCEPT ![p.addr] = p.data] ELSE m

(* One iteration of the loop in restore_checkpoint.                        *)
Replay ==
  /\ mode = "replay"
  /\ next < Len(log)
  /\ TickOnce(SetUpMem(mem, log[next + 1]), SetUpCore(core, log[next + 1]))
  /\ next' = next + 1
  /\ UNCHANGED <<mode, log, file, trace>>

(* Fault: the mailbox is kept as the replay has left it.                   *)
LoadProcButMailbox == [file.core EXCEPT !.tohost = core.tohost]

(* restore_proc_checkpoint                                                 *)
LoadProc == file.core

(* END_HTIF_CHECKPOINT: the host has one more packet served, from what the *)
(* replay has left in memory and registers; then both are loaded.          *)
EndReplay ==
  /\ mode = "replay"
  /\ next = Len(log)
  /\ host' = HostAfter(host, Reply(mem, core, host))
  /\ mem' = file.mem
  /\ core' = LoadProc
  /\ mode' = "restored"
  /\ UNCHANGED <<log, file, next, trace>>

-----------------------------------------------------------------------------
Finished ==
  /\ Executing /\ core.waits = None /\ core.asked = MaxRequests
  /\ UNCHANGED vars

Next ==
  \/ \E w \in Word, d \in Data : Ask(w, d)
  \/ TakeAnswer
  \/ Tick
  \/ CreateCheckpoint
  \/ Restart
  \/ Replay
  \/ EndReplay
  \/ Finished

Spec == Init /\ [][Next]_vars

(* run_fast and run keep ticking and executing; the loop of the restore    *)
(* goes on.                                                                *)
Fairness ==
  /\ WF_vars(Tick)
  /\ WF_vars(TakeAnswer)
  /\ WF_vars(Replay)
  /\ WF_vars(EndReplay)

FairSpec == Spec /\ Fairness

-----------------------------------------------------------------------------
(* A restored run presents the host with the packets it saw before the     *)
(* checkpoint, in the same order and with the same contents: after each    *)
(* recorded packet the new host is where the old one was, although the     *)
(* polls that found nothing were not recorded and the program does not run.*)
HostReplayed == mode = "replay" => host = trace[next + 1]

(* The checkpoint was taken while the host was between two requests.       *)
Quiet == trace[Len(trace)].phase = "poll"

(* Then the packet that the end of the replay serves, with memory and      *)
(* registers that are about to be replaced, is a poll that finds nothing,  *)
(* and the host is where the saved memory and processor left it.           *)
HostAsSaved ==
  [][mode = "replay" /\ mode' = "restored" /\ Quiet => host' = trace[Len(trace)]]_vars

(* An answer in fromhost is the one to the request the program waits for,  *)
(* computed from its argument: before the checkpoint, and after it as well *)
(* whatever request was pending, unfetched or answered when it was taken.  *)
AnswersTheRequest ==
  (mode = "restored" => Quiet) /\ mode # "replay" /\ core.fromhost # 0 =>
    /\ core.waits # None
    /\ mem[core.waits[1]] = <<"res", core.waits[2]>>

(* A request that was pending at the checkpoint, or is made after it, is   *)
(* still answered.                                                         *)
RequestSurvives ==
  \A w \in Word, d \in Data :
    (mode = "restored" /\ Quiet /\ core.waits = <<w, d>>) ~> core.waits = None
=============================================================================
