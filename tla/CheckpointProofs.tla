-------------------------- MODULE CheckpointProofs --------------------------
(***************************************************************************)
(* Replaying a recording brings a fresh host where the recorded one was,   *)
(* for any memory, any data and any number of requests.                    *)
(***************************************************************************)
EXTENDS Checkpoint, TLAPS

(* Serving the packet of host h after setting up p makes it g, whatever    *)
(* the memory and the processor held before.                               *)
Follows(h, p, g) ==
  /\ p.cmd = "TOHOST" => h.phase = "poll"
  /\ \A m \in Memory, c \in Core :
       HostAfter(h, Reply(SetUpMem(m, p), SetUpCore(c, p), h)) = g

Chained == \A i \in 1 .. Len(log) : Follows(trace[i], log[i], trace[i + 1])

Inv ==
  /\ TypeOK
  /\ Len(trace) = Len(log) + 1
  /\ trace[1] = Polling
  /\ Chained
  /\ mode = "record" => host = trace[Len(trace)]
  /\ mode = "replay" => host = trace[next + 1] /\ core.tohost = None

-----------------------------------------------------------------------------
(* What a packet does to memory, processor and host                        *)

LEMMA PollingType == Polling \in Host
BY DEF Polling, Host

LEMMA BootType == BootMem \in Memory /\ BootCore \in Core
BY ParametersAssumption DEF BootMem, BootCore, Memory, Core, Content

LEMMA ResultType ==
  ASSUME NEW v \in Content PROVE ResultOf(v) \in Content
<1>1. CASE v = None BY <1>1 DEF ResultOf, Content
<1>2. CASE v # None
  <2>1. PICK t \in {"arg", "res"}, d \in Data : v = <<t, d>>
    BY <1>2 DEF Content
  <2>2. ResultOf(v) = <<"res", d>> BY <1>2, <2>1 DEF ResultOf
  <2> QED BY <2>2 DEF Content
<1> QED BY <1>1, <1>2

LEMMA MemAfterType ==
  ASSUME NEW m \in Memory, NEW h \in Host PROVE MemAfter(m, h) \in Memory
<1>1. CASE h.phase = "write"
  <2>1. ResultOf(h.got) \in Content BY <1>1, ResultType DEF Host
  <2> QED BY <1>1, <2>1 DEF MemAfter, Memory
<1>2. CASE h.phase # "write" BY <1>2 DEF MemAfter
<1> QED BY <1>1, <1>2

LEMMA CoreAfterType ==
  ASSUME NEW c \in Core, NEW h \in Host PROVE CoreAfter(c, h) \in Core
<1>1. CASE h.phase = "poll" BY <1>1 DEF CoreAfter, Core
<1>2. CASE h.phase = "answer" /\ c.fromhost = 0
  BY <1>2 DEF CoreAfter, SetFromhost, Core
<1>3. CASE h.phase # "poll" /\ ~(h.phase = "answer" /\ c.fromhost = 0)
  BY <1>3 DEF CoreAfter
<1> QED BY <1>1, <1>2, <1>3

LEMMA HostAfterType ==
  ASSUME NEW m \in Memory, NEW c \in Core, NEW h \in Host
  PROVE  HostAfter(h, Reply(m, c, h)) \in Host
<1>1. CASE h.phase = "poll"
  <2>1. Reply(m, c, h) = c.tohost BY <1>1 DEF Reply
  <2>2. CASE c.tohost = None BY <1>1, <2>1, <2>2 DEF HostAfter
  <2>3. CASE c.tohost # None
    <3>1. HostAfter(h, Reply(m, c, h)) = [phase |-> "read", word |-> c.tohost, got |-> None]
      BY <1>1, <2>1, <2>3 DEF HostAfter
    <3> QED BY <2>3, <3>1 DEF Host, Core, Content
  <2> QED BY <2>2, <2>3
<1>2. CASE h.phase = "read"
  <2>1. Reply(m, c, h) \in Content BY <1>2 DEF Reply, Host, Memory
  <2> QED BY <1>2, <2>1 DEF HostAfter, Host
<1>3. CASE h.phase = "write" BY <1>3 DEF HostAfter, Host
<1>4. CASE h.phase = "answer" BY <1>4, PollingType DEF HostAfter
<1> QED BY <1>1, <1>2, <1>3, <1>4 DEF Host

LEMMA RecordedType ==
  ASSUME NEW m \in Memory, NEW c \in Core, NEW h \in Host,
         WorthRecording(h, Reply(m, c, h))
  PROVE  Recorded(h, Reply(m, c, h)) \in Packet
<1>1. CASE h.phase = "poll"
  BY <1>1 DEF WorthRecording, Recorded, Reply, Packet, Core
<1>2. CASE h.phase = "read"
  BY <1>2 DEF Recorded, Reply, Packet, Host, Memory
<1>3. CASE h.phase = "write" BY <1>3 DEF Recorded, Packet
<1>4. CASE h.phase = "answer" BY <1>4 DEF Recorded, Reply, Packet, Core
<1> QED BY <1>1, <1>2, <1>3, <1>4 DEF Host

LEMMA SetUpType ==
  ASSUME NEW m \in Memory, NEW c \in Core, NEW p \in Packet
  PROVE  SetUpMem(m, p) \in Memory /\ SetUpCore(c, p) \in Core
<1>1. SetUpMem(m, p) \in Memory BY DEF SetUpMem, Packet, Memory
<1>2. CASE p.cmd = "TOHOST" BY <1>1, <1>2 DEF SetUpCore, Packet, Core
<1>3. CASE p.cmd = "FROMHOST" BY <1>1, <1>3 DEF SetUpCore, SetFromhost, Packet, Core
<1>4. CASE p.cmd \notin {"TOHOST", "FROMHOST"} BY <1>1, <1>4 DEF SetUpCore
<1> QED BY <1>2, <1>3, <1>4

(* What is recorded of a packet is enough to serve it again.               *)
LEMMA RecordedFollows ==
  ASSUME NEW m \in Memory, NEW c \in Core, NEW h \in Host
  PROVE  LET r == Reply(m, c, h) IN Follows(h, Recorded(h, r), HostAfter(h, r))
<1> DEFINE r == Reply(m, c, h)
           p == Recorded(h, r)
<1>1. ASSUME NEW n \in Memory, NEW b \in Core
      PROVE  Reply(SetUpMem(n, p), SetUpCore(b, p), h) = r
  <2>1. CASE h.phase = "poll"
    <3>1. SetUpCore(b, p) = [b EXCEPT !.tohost = r] BY <2>1 DEF Recorded, SetUpCore
    <3> QED BY <2>1, <3>1 DEF Reply, Core
  <2>2. CASE h.phase = "read"
    <3>1. SetUpMem(n, p) = [n EXCEPT ![h.word] = r] BY <2>2 DEF Recorded, SetUpMem
    <3>2. h.word \in Word BY <2>2 DEF Host
    <3>3. SetUpMem(n, p)[h.word] = r BY <3>1, <3>2 DEF Memory
    <3> HIDE DEF r, p
    <3> QED BY <2>2, <3>3 DEF Reply
  <2>3. CASE h.phase = "write" BY <2>3 DEF Reply
  <2>4. CASE h.phase = "answer"
    <3>1. SetUpCore(b, p) = SetFromhost(b, r) BY <2>4 DEF Recorded, SetUpCore
    <3> QED BY <2>4, <3>1 DEF Reply, SetFromhost, Core
  <2> QED BY <2>1, <2>2, <2>3, <2>4 DEF Host
<1>2. p.cmd = "TOHOST" => h.phase = "poll" BY DEF Recorded, Host
<1> HIDE DEF r, p
<1>3. Follows(h, p, HostAfter(h, r)) BY <1>1, <1>2 DEF Follows
<1> QED BY <1>3 DEF r, p

-----------------------------------------------------------------------------
LEMMA InitInv == Init => Inv
BY BootType, PollingType DEF Init, Inv, TypeOK, Chained

LEMMA AskKeepsInv ==
  ASSUME Inv, NEW w \in Word, NEW d \in Data, Ask(w, d) PROVE Inv'
<1>1. mem' \in Memory BY DEF Ask, Inv, TypeOK, Memory, Content
<1>2. core' \in Core
  <2>1. core.asked + 1 \in 0 .. MaxRequests
    BY ParametersAssumption DEF Ask, Inv, TypeOK, Core
  <2>2. <<w, d>> \in (Word \X Data) \union {None} OBVIOUS
  <2>3. core' = [core EXCEPT !.tohost = w, !.waits = <<w, d>>, !.asked = @ + 1]
    BY DEF Ask
  <2> QED BY <2>1, <2>2, <2>3 DEF Inv, TypeOK, Core
<1> QED BY <1>1, <1>2 DEF Ask, Inv, TypeOK, Chained, Executing

LEMMA TakeKeepsInv == ASSUME Inv, TakeAnswer PROVE Inv'
<1>1. core' \in Core BY DEF TakeAnswer, Inv, TypeOK, Core
<1> QED BY <1>1 DEF TakeAnswer, Inv, TypeOK, Chained, Executing

LEMMA TickKeepsInv == ASSUME Inv, Tick PROVE Inv'
<1> DEFINE reply == Reply(mem, core, host)
           recording == mode = "record" /\ WorthRecording(host, reply)
<1> USE DEF Inv
<1>1. mem' \in Memory /\ core' \in Core /\ host' \in Host
  BY MemAfterType, CoreAfterType, HostAfterType DEF Tick, TickOnce, TypeOK
<1>2. CASE recording
  <2>1. Recorded(host, reply) \in Packet BY <1>2, RecordedType DEF TypeOK
  <2>2. log' = Append(log, Recorded(host, reply)) /\ trace' = Append(trace, host')
    BY <1>2 DEF Tick
  <2>3. host' = HostAfter(host, reply) BY DEF Tick, TickOnce
  <2>4. Follows(host, Recorded(host, reply), host')
    BY <2>3, RecordedFollows DEF TypeOK
  <2> HIDE DEF reply
  <2>5. /\ log' \in Seq(Packet) /\ Len(log') = Len(log) + 1
        /\ \A i \in 1 .. Len(log) : log'[i] = log[i]
        /\ log'[Len(log) + 1] = Recorded(host, reply)
    BY <2>1, <2>2 DEF TypeOK
  <2>6. /\ trace' \in Seq(Host) /\ Len(trace') = Len(trace) + 1
        /\ \A i \in 1 .. Len(trace) : trace'[i] = trace[i]
        /\ trace'[Len(trace) + 1] = host'
    BY <1>1, <2>2 DEF TypeOK
  <2>7. TypeOK' BY <1>1, <2>5, <2>6 DEF Tick, TypeOK
  <2>8. Chained'
    <3> SUFFICES ASSUME NEW i \in 1 .. Len(log')
                 PROVE  Follows(trace'[i], log'[i], trace'[i + 1])
      BY DEF Chained, Follows
    <3>1. CASE i \in 1 .. Len(log) BY <2>5, <2>6, <3>1 DEF Chained, TypeOK
    <3>2. CASE i = Len(log) + 1
      <4>1. trace'[i] = host BY <1>2, <2>6, <3>2 DEF TypeOK
      <4> QED BY <2>4, <2>5, <2>6, <3>2, <4>1 DEF TypeOK
    <3> QED BY <2>5, <3>1, <3>2 DEF TypeOK
  <2> QED BY <1>2, <2>5, <2>6, <2>7, <2>8 DEF Tick, TypeOK
<1>3. CASE ~recording
  <2>1. UNCHANGED <<log, trace, mode, file, next>> BY <1>3 DEF Tick
  <2>2. mode = "record" => host' = host
    BY <1>3 DEF Tick, TickOnce, WorthRecording, HostAfter
  <2>3. mode # "replay" BY DEF Tick, Executing
  <2> HIDE DEF recording, reply
  <2>4. TypeOK' BY <1>1, <2>1 DEF TypeOK
  <2>5. Chained' BY <2>1 DEF Chained, Follows
  <2> QED BY <2>1, <2>2, <2>3, <2>4, <2>5
<1> QED BY <1>2, <1>3

LEMMA CreateKeepsInv == ASSUME Inv, CreateCheckpoint PROVE Inv'
BY DEF CreateCheckpoint, Saved, Inv, TypeOK, Chained

LEMMA RestartKeepsInv == ASSUME Inv, Restart PROVE Inv'
<1>1. TypeOK' BY BootType, PollingType DEF Restart, Inv, TypeOK
<1>2. Chained' BY DEF Restart, Inv, Chained, Follows
<1> QED BY <1>1, <1>2 DEF Restart, Inv, BootCore

LEMMA ReplayKeepsInv == ASSUME Inv, Replay PROVE Inv'
<1> DEFINE p == log[next + 1]
           m == SetUpMem(mem, p)
           c == SetUpCore(core, p)
<1> USE DEF Inv
<1>1. /\ next + 1 \in 1 .. Len(log) /\ next' = next + 1
      /\ p \in Packet
      /\ UNCHANGED <<mode, log, file, trace>>
  BY DEF Replay, TypeOK
<1>2. m \in Memory /\ c \in Core BY <1>1, SetUpType DEF TypeOK
<1>3. mem' \in Memory /\ core' \in Core /\ host' \in Host
  BY <1>2, MemAfterType, CoreAfterType, HostAfterType DEF Replay, TickOnce, TypeOK
<1>4. host = trace[next + 1] /\ core.tohost = None BY DEF Replay
<1>5. Follows(host, p, trace[(next + 1) + 1]) BY <1>1, <1>4 DEF Chained
<1>6. host' = trace[next' + 1]
  BY <1>1, <1>5 DEF Replay, TickOnce, Follows, TypeOK
<1>7. core'.tohost = None
  <2>1. core' = CoreAfter(c, host) BY DEF Replay, TickOnce
  <2>2. CASE host.phase = "poll"
    <3> HIDE DEF c
    <3> QED BY <1>2, <2>1, <2>2 DEF CoreAfter, Core
  <2>3. CASE host.phase # "poll"
    <3>1. p.cmd # "TOHOST" BY <1>5, <2>3 DEF Follows
    <3>2. c.tohost = None
      BY <1>4, <3>1 DEF SetUpCore, SetFromhost, TypeOK, Core
    <3> HIDE DEF c
    <3> QED BY <1>2, <2>1, <2>3, <3>2 DEF CoreAfter, SetFromhost, Core
  <2> QED BY <2>2, <2>3
<1>8. TypeOK' BY <1>1, <1>3 DEF TypeOK
<1>9. Chained' BY <1>1 DEF Chained, Follows
<1> QED BY <1>1, <1>6, <1>7, <1>8, <1>9 DEF Replay

LEMMA EndKeepsInv == ASSUME Inv, EndReplay PROVE Inv'
<1>1. host' \in Host BY HostAfterType DEF EndReplay, Inv, TypeOK
<1> QED BY <1>1 DEF EndReplay, LoadProc, Inv, TypeOK, Chained

LEMMA NextKeepsInv == ASSUME Inv, [Next]_vars PROVE Inv'
<1>1. CASE Finished \/ UNCHANGED vars
  BY <1>1 DEF Finished, vars, Inv, TypeOK, Chained, Follows
<1> QED
  BY <1>1, AskKeepsInv, TakeKeepsInv, TickKeepsInv, CreateKeepsInv, RestartKeepsInv,
     ReplayKeepsInv, EndKeepsInv DEF Next

THEOREM Invariance == Spec => []Inv
BY InitInv, NextKeepsInv, PTL DEF Spec

-----------------------------------------------------------------------------
(* Where a request can be, and what memory and the mailbox hold then.      *)

Unfetched(m, c, h, w, d) ==
  h = Polling /\ c.tohost = w /\ c.fromhost = 0 /\ m[w] = <<"arg", d>>
Fetched(m, c, h, w, d) ==
  /\ h.phase = "read" /\ h.word = w /\ c.tohost = None /\ c.fromhost = 0
  /\ m[w] = <<"arg", d>>
Computed(m, c, h, w, d) ==
  /\ h.phase = "write" /\ h.word = w /\ c.tohost = None /\ c.fromhost = 0
  /\ h.got = <<"arg", d>>
Returned(m, c, h, w, d) ==
  /\ h.phase = "answer" /\ h.word = w /\ c.tohost = None /\ c.fromhost = 0
  /\ m[w] = <<"res", d>>
Answered(m, c, h, w, d) ==
  h = Polling /\ c.tohost = None /\ c.fromhost = 1 /\ m[w] = <<"res", d>>

Pending(m, c, h, w, d) ==
  \/ Unfetched(m, c, h, w, d) \/ Fetched(m, c, h, w, d) \/ Computed(m, c, h, w, d)
  \/ Returned(m, c, h, w, d) \/ Answered(m, c, h, w, d)

Coherent(m, c, h) ==
  \/ c.waits = None /\ c.tohost = None /\ c.fromhost = 0 /\ h = Polling
  \/ \E w \in Word, d \in Data : c.waits = <<w, d>> /\ Pending(m, c, h, w, d)

\* The three are coherent wherever the program runs, and so are the memory and
\* the processor in the file with the host at the end of the recording.
RequestInv ==
  /\ mode \in {"record", "created"} => Coherent(mem, core, host)
  /\ mode \in {"created", "replay"} => Coherent(file.mem, file.core, trace[Len(trace)])
  /\ mode = "restored" /\ Quiet => Coherent(mem, core, host)

(* One packet takes a request from one stage to the next, or leaves it.    *)
LEMMA PacketCoherent ==
  ASSUME NEW m \in Memory, NEW c \in Core, NEW h \in Host, Coherent(m, c, h)
  PROVE  Coherent(MemAfter(m, h), CoreAfter(c, h), HostAfter(h, Reply(m, c, h)))
<1> DEFINE n == MemAfter(m, h)
           b == CoreAfter(c, h)
           g == HostAfter(h, Reply(m, c, h))
<1>1. CASE c.waits = None /\ c.tohost = None /\ c.fromhost = 0 /\ h = Polling
  <2>1. b = [c EXCEPT !.tohost = None] /\ g = h
    BY <1>1 DEF CoreAfter, HostAfter, Reply, Polling
  <2>2. b.waits = None /\ b.tohost = None /\ b.fromhost = 0
    BY <1>1, <2>1 DEF Core
  <2> HIDE DEF n, b, g
  <2>3. Coherent(n, b, g) BY <1>1, <2>1, <2>2 DEF Coherent
  <2> QED BY <2>3 DEF n, b, g
<1>2. ASSUME NEW w \in Word, NEW d \in Data, c.waits = <<w, d>>, Pending(m, c, h, w, d)
      PROVE  Coherent(n, b, g)
  <2> SUFFICES b.waits = <<w, d>> /\ Pending(n, b, g, w, d) BY DEF Coherent
  <2>0. None \notin Word BY ParametersAssumption
  <2>1. CASE Unfetched(m, c, h, w, d)
    <3>1. /\ n = m /\ b = [c EXCEPT !.tohost = None]
          /\ g = [phase |-> "read", word |-> w, got |-> None]
      BY <2>0, <2>1 DEF Unfetched, MemAfter, CoreAfter, HostAfter, Reply, Polling
    <3>2. b.waits = <<w, d>> /\ b.tohost = None /\ b.fromhost = 0
      BY <1>2, <2>1, <3>1 DEF Core, Unfetched
    <3> HIDE DEF n, b, g
    <3> QED BY <2>1, <3>1, <3>2 DEF Pending, Unfetched, Fetched
  <2>2. CASE Fetched(m, c, h, w, d)
    <3>1. n = m /\ b = c /\ g = [phase |-> "write", word |-> w, got |-> <<"arg", d>>]
      BY <2>2 DEF Fetched, MemAfter, CoreAfter, HostAfter, Reply
    <3> HIDE DEF n, b, g
    <3> QED BY <1>2, <2>2, <3>1 DEF Pending, Fetched, Computed
  <2>3. CASE Computed(m, c, h, w, d)
    <3>1. n = [m EXCEPT ![w] = ResultOf(<<"arg", d>>)] /\ b = c
          /\ g = [h EXCEPT !.phase = "answer"]
      BY <2>3 DEF Computed, MemAfter, CoreAfter, HostAfter
    <3>2. ResultOf(<<"arg", d>>) = <<"res", d>>
      BY ParametersAssumption DEF ResultOf
    <3>3. n[w] = <<"res", d>> BY <3>1, <3>2 DEF Memory
    <3>4. g.phase = "answer" /\ g.word = w BY <2>3, <3>1 DEF Computed, Host
    <3> HIDE DEF n, b, g
    <3> QED BY <1>2, <2>3, <3>1, <3>3, <3>4 DEF Pending, Computed, Returned
  <2>4. CASE Returned(m, c, h, w, d)
    <3>1. n = m /\ b = [c EXCEPT !.fromhost = 1, !.irq_host = (1 # 0)] /\ g = Polling
      BY <2>4 DEF Returned, MemAfter, CoreAfter, SetFromhost, HostAfter, Reply
    <3>2. b.waits = <<w, d>> /\ b.tohost = None /\ b.fromhost = 1
      BY <1>2, <2>4, <3>1 DEF Core, Returned
    <3> HIDE DEF n, b, g
    <3> QED BY <2>4, <3>1, <3>2 DEF Pending, Returned, Answered
  <2>5. CASE Answered(m, c, h, w, d)
    <3>1. n = m /\ b = [c EXCEPT !.tohost = None] /\ g = h
      BY <2>5 DEF Answered, MemAfter, CoreAfter, HostAfter, Reply, Polling
    <3>2. b.waits = <<w, d>> /\ b.tohost = None /\ b.fromhost = 1
      BY <1>2, <2>5, <3>1 DEF Core, Answered
    <3> HIDE DEF n, b, g
    <3> QED BY <2>5, <3>1, <3>2 DEF Pending, Answered
  <2> QED BY <1>2, <2>1, <2>2, <2>3, <2>4, <2>5 DEF Pending
<1> QED BY <1>1, <1>2 DEF Coherent

(* The program makes a request when none is pending, and takes an answer   *)
(* when there is one.                                                      *)
LEMMA AskCoherent ==
  ASSUME TypeOK, Coherent(mem, core, host), NEW w \in Word, NEW d \in Data, Ask(w, d)
  PROVE  Coherent(mem', core', host')
<1>1. core.fromhost = 0 /\ host = Polling
  <2>1. \A v \in Word, e \in Data : <<v, e>> # None BY ParametersAssumption
  <2> QED BY <2>1 DEF Ask, Coherent
<1>2. /\ core'.waits = <<w, d>> /\ core'.tohost = w /\ core'.fromhost = 0
      /\ mem'[w] = <<"arg", d>> /\ host' = Polling
  BY <1>1 DEF Ask, TypeOK, Core, Memory
<1>3. Pending(mem', core', host', w, d) BY <1>2 DEF Pending, Unfetched
<1> QED BY <1>2, <1>3 DEF Coherent

LEMMA TakeCoherent ==
  ASSUME TypeOK, Coherent(mem, core, host), TakeAnswer
  PROVE  Coherent(mem', core', host')
<1>1. core.tohost = None /\ host = Polling
  BY DEF TakeAnswer, Coherent, Pending, Unfetched, Fetched, Computed, Returned, Answered
<1>2. core'.waits = None /\ core'.tohost = None /\ core'.fromhost = 0 /\ host' = Polling
  BY <1>1 DEF TakeAnswer, TypeOK, Core
<1> QED BY <1>2 DEF Coherent

LEMMA TickCoherent ==
  ASSUME TypeOK, Coherent(mem, core, host), Tick
  PROVE  Coherent(mem', core', host')
BY PacketCoherent DEF Tick, TickOnce, TypeOK

(* A step of the program or a tick once there is no recording any more.    *)
LEMMA RunningKeepsRequests ==
  ASSUME Inv, RequestInv,
         (\E w \in Word, d \in Data : Ask(w, d)) \/ TakeAnswer \/ Tick
  PROVE  RequestInv'
<1>1. mode \in {"record", "created", "restored"} /\ UNCHANGED <<mode, file>>
  BY DEF Ask, TakeAnswer, Tick, Executing, Inv, TypeOK
<1>2. Coherent(mem, core, host) => Coherent(mem', core', host')
  BY AskCoherent, TakeCoherent, TickCoherent DEF Inv
<1>3. mode # "record" => UNCHANGED trace
  BY DEF Ask, TakeAnswer, Tick
<1> QED BY <1>1, <1>2, <1>3 DEF RequestInv, Quiet

LEMMA RequestsStep == Inv /\ RequestInv /\ [Next]_vars => RequestInv'
<1> SUFFICES ASSUME Inv, RequestInv, [Next]_vars PROVE RequestInv' OBVIOUS
<1>1. CASE (\E w \in Word, d \in Data : Ask(w, d)) \/ TakeAnswer \/ Tick
  BY <1>1, RunningKeepsRequests
<1>2. CASE CreateCheckpoint
  BY <1>2 DEF CreateCheckpoint, Saved, RequestInv, Inv
<1>3. CASE Restart BY <1>3 DEF Restart, RequestInv
<1>4. CASE Replay BY <1>4 DEF Replay, RequestInv
<1>5. CASE EndReplay
  <2>1. SUFFICES ASSUME Quiet PROVE Coherent(mem', core', host')
    BY <1>5 DEF EndReplay, RequestInv, Quiet
  <2>2. host = trace[Len(trace)] /\ core.tohost = None
    BY <1>5 DEF EndReplay, Inv, TypeOK
  <2>3. host' = host BY <1>5, <2>1, <2>2 DEF EndReplay, Quiet, HostAfter, Reply
  <2> QED BY <1>5, <2>2, <2>3 DEF EndReplay, LoadProc, RequestInv
<1>6. CASE Finished \/ UNCHANGED vars
  BY <1>6 DEF Finished, vars, RequestInv, Quiet
<1> QED BY <1>1, <1>2, <1>3, <1>4, <1>5, <1>6 DEF Next

LEMMA RequestsCoherent == Spec => []RequestInv
<1>1. Init => RequestInv
  BY DEF Init, RequestInv, Coherent, BootCore
<1> QED BY <1>1, RequestsStep, Invariance, PTL DEF Spec

-----------------------------------------------------------------------------
(* Every state is of the right type: only packets that the replay          *)
(* understands are recorded (tick_once, setup_replay_state).               *)
THEOREM TypeCorrect == Spec => []TypeOK
<1>1. Inv => TypeOK BY DEF Inv
<1> QED BY <1>1, Invariance, PTL

(* The replay takes the host of the new process through the states that    *)
(* the recorded one went through (htif_isasim_t::restore_checkpoint).      *)
THEOREM ReplayFaithful == Spec => []HostReplayed
<1>1. Inv => HostReplayed BY DEF Inv, HostReplayed
<1> QED BY <1>1, Invariance, PTL

(* When the checkpoint was taken between two requests, the packet served   *)
(* at END_HTIF_CHECKPOINT leaves the host as it was then.                  *)
THEOREM EndHarmless == Spec => HostAsSaved
<1>1. ASSUME Inv, Next, mode = "replay", mode' = "restored", Quiet
      PROVE  host' = trace[Len(trace)]
  <2>1. EndReplay
    BY <1>1 DEF Next, Ask, TakeAnswer, Tick, CreateCheckpoint, Restart, Replay, Finished,
                Executing, vars
  <2>2. host = trace[Len(trace)] /\ core.tohost = None
    BY <1>1, <2>1 DEF EndReplay, Inv, TypeOK
  <2>3. host' = HostAfter(host, Reply(mem, core, host)) BY <2>1 DEF EndReplay
  <2> QED BY <1>1, <2>2, <2>3 DEF Quiet, HostAfter, Reply
<1>2. Inv /\ [Next]_vars =>
        [mode = "replay" /\ mode' = "restored" /\ Quiet => host' = trace[Len(trace)]]_vars
  BY <1>1
<1> QED BY <1>2, Invariance, PTL DEF Spec, HostAsSaved

(* Whatever was saved and restored, an answer the program finds in         *)
(* fromhost was computed from the argument it left in memory: the saved    *)
(* memory and processor fit the host that the replay leaves, as long as    *)
(* the checkpoint was taken between two requests.                          *)
THEOREM AnswerFits == Spec => []AnswersTheRequest
<1>1. ASSUME TypeOK, RequestInv PROVE AnswersTheRequest
  <2> SUFFICES ASSUME mode = "restored" => Quiet, mode # "replay", core.fromhost # 0
               PROVE  /\ core.waits # None
                      /\ mem[core.waits[1]] = <<"res", core.waits[2]>>
    BY DEF AnswersTheRequest
  <2>1. Coherent(mem, core, host) BY <1>1 DEF TypeOK, RequestInv
  <2>2. PICK w \in Word, d \in Data :
           core.waits = <<w, d>> /\ Pending(mem, core, host, w, d)
    BY <2>1 DEF Coherent
  <2>3. mem[w] = <<"res", d>>
    BY <2>2 DEF Pending, Unfetched, Fetched, Computed, Returned, Answered
  <2>4. <<w, d>> # None BY ParametersAssumption
  <2> QED BY <2>2, <2>3, <2>4
<1> QED BY <1>1, TypeCorrect, RequestsCoherent, PTL
=============================================================================
