---------------------------- MODULE SimHtifProofs ----------------------------
(***************************************************************************)
(* Proofs about SimHtif, for any number of cores, turns and skips of any   *)
(* length, and any number of requests.                                     *)
(***************************************************************************)
EXTENDS SimHtif, SequenceTheorems, TLAPS

(* fromhost holds answers only, the exit request has none.                 *)
AnswersInv == \A c \in Core : fromhost[c] \in 0 .. MaxRequests

(* One packet or one reply is under way, and the packet is the one that    *)
(* the host, which waits, has sent in its present phase.                   *)
ChannelInv ==
  /\ packet # NoMessage => reply = NoMessage /\ packet = HostPacket /\ phase # "gone"
  /\ phase = "gone" => reply = NoMessage

(* The host has what it is about to write.                                 *)
HostInv ==
  /\ phase = "serve" => serving # 0
  /\ phase = "answer" => outbox[peer] # <<>>

(* The HTIF is in reset until it has served the release of the first core. *)
ResetInv ==
  /\ phase = "load" => peer = 0
  /\ reset => phase = "load" \/ (phase = "release" /\ peer = 0 /\ reply = NoMessage)

(* Once the host stops the cores they stay stopped, up to the one whose    *)
(* reset has been served.                                                  *)
StopInv ==
  /\ phase = "stop" =>
       \A c \in Core : c < peer \/ (c = peer /\ reply # NoMessage) => ~run[c]
  /\ phase = "stop" /\ LastCore /\ reply # NoMessage => ~ticking
  /\ phase = "gone" => ~ticking /\ \A c \in Core : ~run[c]

IInv ==
  /\ TypeOK
  /\ InterruptIffAnswer
  /\ AnswersInv
  /\ ChannelInv
  /\ HostInv
  /\ ResetInv
  /\ StopInv

-----------------------------------------------------------------------------
(* The packets of the host.                                                *)

(* What the host sends in each phase, and that it is a packet.             *)
LEMMA PacketOfPhase ==
  ASSUME TypeOK, HostInv, AnswersInv
  PROVE  /\ phase \in {"load", "serve"} => HostPacket = [cmd |-> "mem"]
         /\ phase = "release" => HostPacket = [cmd |-> "reset", core |-> peer, val |-> 0]
         /\ phase = "poll" => HostPacket = [cmd |-> "tohost", core |-> peer, val |-> 0]
         /\ phase = "answer" =>
              HostPacket = [cmd |-> "fromhost", core |-> peer, val |-> Head(outbox[peer])]
         /\ phase = "stop" => HostPacket = [cmd |-> "reset", core |-> peer, val |-> 1]
<1>1. phase \in {"load", "serve"} => HostPacket = [cmd |-> "mem"]
  BY Zenon DEF HostPacket
<1>2. phase = "release" => HostPacket = [cmd |-> "reset", core |-> peer, val |-> 0]
  BY Zenon DEF HostPacket
<1>3. phase = "poll" => HostPacket = [cmd |-> "tohost", core |-> peer, val |-> 0]
  BY Zenon DEF HostPacket
<1>4. phase = "answer" =>
        HostPacket = [cmd |-> "fromhost", core |-> peer, val |-> Head(outbox[peer])]
  BY Zenon DEF HostPacket
<1>5. phase = "stop" => HostPacket = [cmd |-> "reset", core |-> peer, val |-> 1]
  BY Zenon DEF HostPacket
<1> QED BY <1>1, <1>2, <1>3, <1>4, <1>5

LEMMA HeadTail ==
  ASSUME NEW S, NEW s \in Seq(S), s # <<>>
  PROVE  Head(s) \in S /\ Tail(s) \in Seq(S)
BY HeadTailProperties

LEMMA AppendType ==
  ASSUME NEW S, NEW s \in Seq(S), NEW e \in S
  PROVE  Append(s, e) \in Seq(S) /\ Append(s, e) # <<>>
BY AppendProperties

(* An answer that the host has is the number of a request.                 *)
LEMMA AnswerOfOutbox ==
  ASSUME TypeOK, HostInv, phase = "answer"
  PROVE  /\ Head(outbox[peer]) \in 1 .. MaxRequests
         /\ Tail(outbox[peer]) \in Seq(1 .. MaxRequests)
<1>1. outbox[peer] \in Seq(1 .. MaxRequests) /\ outbox[peer] # <<>>
  BY DEF TypeOK, HostInv
<1> QED BY <1>1, HeadTail

LEMMA HostPacketType ==
  ASSUME TypeOK, HostInv, AnswersInv, phase # "gone"
  PROVE  HostPacket \in Packet /\ HostPacket # NoMessage
<1>1. peer \in Core BY DEF TypeOK
<1>2. CASE phase \in {"load", "serve"}
  <2>1. HostPacket = [cmd |-> "mem"] BY <1>2, PacketOfPhase
  <2> QED BY <2>1 DEF Packet, NoMessage
<1>3. CASE phase = "release"
  <2>1. HostPacket = [cmd |-> "reset", core |-> peer, val |-> 0] BY <1>3, PacketOfPhase
  <2> QED BY <1>1, <2>1 DEF Packet, NoMessage
<1>4. CASE phase = "poll"
  <2>1. HostPacket = [cmd |-> "tohost", core |-> peer, val |-> 0] BY <1>4, PacketOfPhase
  <2> QED BY <1>1, <2>1 DEF Packet, NoMessage
<1>5. CASE phase = "answer"
  <2>1. HostPacket = [cmd |-> "fromhost", core |-> peer, val |-> Head(outbox[peer])]
    BY <1>5, PacketOfPhase
  <2>2. Head(outbox[peer]) \in Value \ {0}
    BY <1>5, AnswerOfOutbox, ParametersAssumption DEF Value, Exit
  <2> QED BY <1>1, <2>1, <2>2 DEF Packet, NoMessage
<1>6. CASE phase = "stop"
  <2>1. HostPacket = [cmd |-> "reset", core |-> peer, val |-> 1] BY <1>6, PacketOfPhase
  <2> QED BY <1>1, <2>1 DEF Packet, NoMessage
<1> QED BY <1>2, <1>3, <1>4, <1>5, <1>6 DEF TypeOK

-----------------------------------------------------------------------------
(* The actions.                                                            *)

LEMMA HostSendsKeepsInv ==
  ASSUME IInv, HostSends PROVE IInv'
<1> USE DEF IInv
<1>1. packet' = HostPacket /\ HostPacket \in Packet /\ HostPacket # NoMessage
  BY HostPacketType DEF HostSends
<1>2. TypeOK'
  BY <1>1 DEF HostSends, TypeOK, coreVars, simVars, htifVars, hostVars, history
<1>3. HostPacket' = HostPacket
  BY Zenon DEF HostSends, HostPacket, hostVars
<1>4. ChannelInv'
  BY <1>1, <1>3 DEF HostSends, ChannelInv, hostVars
<1>5. InterruptIffAnswer' /\ AnswersInv'
  BY DEF HostSends, InterruptIffAnswer, AnswersInv, coreVars
<1>6. HostInv' /\ ResetInv' /\ StopInv'
  BY DEF HostSends, HostInv, ResetInv, StopInv, LastCore, coreVars, hostVars, htifVars
<1> QED BY <1>2, <1>4, <1>5, <1>6

(* The host consumes a reply: what its phases promise of each other.       *)
LEMMA HostGetsKeepsInv ==
  ASSUME IInv, HostGets PROVE IInv'
<1> USE DEF IInv
<1>1. /\ reply # NoMessage /\ reply' = NoMessage /\ packet = NoMessage /\ packet' = NoMessage
      /\ UNCHANGED <<coreVars, simVars, htifVars, history>>
      /\ phase # "gone"
  BY DEF HostGets, ChannelInv
<1>2. peer \in Core /\ NextPeer \in Core /\ NumCores \in Nat \ {0}
  BY ParametersAssumption DEF TypeOK, NextPeer, LastCore, Core
<1>3. InterruptIffAnswer' /\ AnswersInv'
  BY <1>1 DEF InterruptIffAnswer, AnswersInv, coreVars
<1>4. ChannelInv'
  BY <1>1 DEF ChannelInv
<1>5. ASSUME /\ phase' \in {"load", "release", "poll", "serve", "answer", "stop", "gone"}
             /\ peer' \in Core /\ serving' \in 0 .. MaxRequests
             /\ outbox' \in [Core -> Seq(1 .. MaxRequests)]
      PROVE  TypeOK'
  BY <1>1, <1>5 DEF TypeOK, coreVars, simVars, htifVars, history
<1>6. CASE HostStarts
  <2>1. TypeOK' BY <1>2, <1>5, <1>6 DEF HostStarts, TypeOK
  <2>2. HostInv' BY <1>6 DEF HostStarts, HostInv
  <2>3. ResetInv' BY <1>1, <1>6 DEF HostStarts, ResetInv, htifVars
  <2>4. StopInv' BY <1>6 DEF HostStarts, StopInv
  <2> QED BY <1>3, <1>4, <2>1, <2>2, <2>3, <2>4
<1>7. CASE HostPolled
  <2>1. TypeOK'
    <3>1. /\ phase' \in {"poll", "answer", "serve", "stop"}
          /\ peer' \in {0, peer, NextPeer} /\ outbox' = outbox
          /\ serving' = serving \/ serving' \in 1 .. MaxRequests
      BY <1>7 DEF HostPolled
    <3>2. 0 \in Core BY <1>2 DEF Core
    <3>3. serving \in 0 .. MaxRequests /\ outbox \in [Core -> Seq(1 .. MaxRequests)]
      BY DEF TypeOK
    <3> QED BY <1>2, <1>5, <3>1, <3>2, <3>3
  <2>2. HostInv' BY <1>7 DEF HostPolled, HostInv
  <2>3. ResetInv' BY <1>1, <1>7 DEF HostPolled, ResetInv, htifVars
  <2>4. StopInv' BY <1>1, <1>2, <1>7 DEF HostPolled, StopInv, Core
  <2> QED BY <1>3, <1>4, <2>1, <2>2, <2>3, <2>4
<1>8. CASE HostServed
  <2>1. serving \in 1 .. MaxRequests BY <1>8 DEF HostServed, HostInv, TypeOK
  <2>2. /\ Append(outbox[peer], serving) \in Seq(1 .. MaxRequests)
        /\ Append(outbox[peer], serving) # <<>>
    BY <1>2, <2>1, AppendType DEF TypeOK
  <2>3. TypeOK'
    <3>1. outbox' \in [Core -> Seq(1 .. MaxRequests)]
      BY <1>8, <2>2 DEF HostServed, TypeOK
    <3>2. phase' = "answer" /\ peer' = peer /\ serving' = 0 BY <1>8 DEF HostServed
    <3> QED BY <1>2, <1>5, <3>1, <3>2, ParametersAssumption
  <2>4. HostInv' BY <1>2, <1>8, <2>2 DEF HostServed, HostInv, TypeOK
  <2>5. ResetInv' BY <1>1, <1>8 DEF HostServed, ResetInv, htifVars
  <2>6. StopInv' BY <1>8 DEF HostServed, StopInv
  <2> QED BY <1>3, <1>4, <2>3, <2>4, <2>5, <2>6
<1>9. CASE HostAnswered
  <2>1. Tail(outbox[peer]) \in Seq(1 .. MaxRequests)
    BY <1>9, AnswerOfOutbox DEF HostAnswered
  <2>2. TypeOK' BY <1>2, <1>5, <1>9, <2>1 DEF HostAnswered, TypeOK
  <2>3. HostInv' BY <1>9 DEF HostAnswered, HostInv
  <2>4. ResetInv' BY <1>1, <1>9 DEF HostAnswered, ResetInv, htifVars
  <2>5. StopInv' BY <1>9 DEF HostAnswered, StopInv
  <2> QED BY <1>3, <1>4, <2>2, <2>3, <2>4, <2>5
<1>10. CASE HostStops
  <2>1. TypeOK' BY <1>2, <1>5, <1>10 DEF HostStops, TypeOK
  <2>2. HostInv' BY <1>10 DEF HostStops, HostInv
  <2>3. ResetInv' BY <1>1, <1>10 DEF HostStops, ResetInv, htifVars
  <2>4. \A c \in Core : c <= peer => ~run'[c]
    BY <1>1, <1>2, <1>10 DEF HostStops, StopInv, Core, coreVars
  <2>5. StopInv'
    <3>1. CASE LastCore
      BY <1>1, <1>2, <1>10, <2>4, <3>1 DEF HostStops, StopInv, LastCore, Core, htifVars
    <3>2. CASE ~LastCore
      BY <1>1, <1>2, <1>10, <2>4, <3>2 DEF HostStops, StopInv, NextPeer, Core
    <3> QED BY <3>1, <3>2
  <2> QED BY <1>3, <1>4, <2>1, <2>2, <2>3, <2>5
<1> QED BY <1>6, <1>7, <1>8, <1>9, <1>10 DEF HostGets

(* A packet is served: to the cores, what it does to one.                  *)
LEMMA ServedPacket ==
  ASSUME IInv, TickOnce
  PROVE  /\ packet = HostPacket /\ packet \in Packet /\ reply = NoMessage
         /\ phase # "gone" /\ phase' = phase /\ peer' = peer
         /\ packet' = NoMessage /\ reply' # NoMessage /\ reply' \in Reply
         /\ packet.cmd = "mem" <=> phase \in {"load", "serve"}
         /\ packet.cmd # "mem" => packet.core = peer
         /\ packet.cmd = "tohost" => packet.val = 0
         /\ packet.cmd = "fromhost" => packet.val \in 1 .. MaxRequests
         /\ packet.cmd = "reset" => /\ phase \in {"release", "stop"}
                                   /\ packet.val = IF phase = "stop" THEN 1 ELSE 0
<1> USE DEF IInv
<1>1. /\ packet = HostPacket /\ packet # NoMessage /\ reply = NoMessage /\ phase # "gone"
      /\ phase' = phase /\ peer' = peer /\ packet' = NoMessage
  BY DEF TickOnce, ChannelInv, hostVars
<1>2. packet \in Packet BY <1>1, HostPacketType
<1>3. phase = "answer" => Head(outbox[peer]) \in 1 .. MaxRequests BY AnswerOfOutbox
<1>4. /\ packet.cmd = "mem" <=> phase \in {"load", "serve"}
      /\ packet.cmd # "mem" => packet.core = peer
      /\ packet.cmd = "tohost" => packet.val = 0
      /\ packet.cmd = "fromhost" => packet.val \in 1 .. MaxRequests
      /\ packet.cmd = "reset" => /\ phase \in {"release", "stop"}
                                /\ packet.val = IF phase = "stop" THEN 1 ELSE 0
  <2>1. CASE phase \in {"load", "serve"} BY <1>1, <2>1, PacketOfPhase
  <2>2. CASE phase = "release" BY <1>1, <2>2, PacketOfPhase
  <2>3. CASE phase = "poll" BY <1>1, <2>3, PacketOfPhase
  <2>4. CASE phase = "answer" BY <1>1, <1>3, <2>4, PacketOfPhase
  <2>5. CASE phase = "stop" BY <1>1, <2>5, PacketOfPhase
  <2> QED BY <1>1, <2>1, <2>2, <2>3, <2>4, <2>5 DEF TypeOK
<1>5. reply' \in Reply /\ reply' # NoMessage
  <2>1. peer \in Core /\ tohost[peer] \in Value /\ fromhost[peer] \in Value BY DEF TypeOK
  <2>2. {0, 1} \subseteq Value BY ParametersAssumption DEF Value, Exit
  <2>3. CASE packet.cmd = "mem"
    <3>1. packet = [cmd |-> "mem"] BY <1>1, <1>4, <2>3, PacketOfPhase
    <3>2. reply' = packet BY <2>3 DEF TickOnce, ExchangeRegister
    <3> QED BY <3>1, <3>2 DEF Reply, NoMessage
  <2>4. CASE packet.cmd = "tohost"
    <3>1. reply' = [cmd |-> "tohost", old |-> tohost[peer]]
      BY <1>4, <2>4 DEF TickOnce, ExchangeRegister
    <3> QED BY <2>1, <3>1 DEF Reply, NoMessage
  <2>5. CASE packet.cmd = "fromhost"
    <3>1. reply' = [cmd |-> "fromhost", old |-> fromhost[peer]]
      BY <1>4, <2>5 DEF TickOnce, ExchangeRegister
    <3> QED BY <2>1, <3>1 DEF Reply, NoMessage
  <2>6. CASE packet.cmd = "reset"
    <3>1. reply' = [cmd |-> "reset", old |-> IF run[peer] THEN 0 ELSE 1]
      BY <1>4, <2>6 DEF TickOnce, ExchangeRegister
    <3>2. (IF run[peer] THEN 0 ELSE 1) \in Value BY <2>2
    <3> QED BY <3>1, <3>2 DEF Reply, NoMessage
  <2> QED BY <2>3, <2>4, <2>5, <2>6 DEF TickOnce, ExchangeRegister
<1> QED BY <1>1, <1>2, <1>4, <1>5

LEMMA TickOnceKeepsInv ==
  ASSUME IInv, TickOnce PROVE IInv'
<1> USE DEF IInv
<1>1. /\ packet = HostPacket /\ packet \in Packet /\ reply = NoMessage
      /\ phase # "gone" /\ phase' = phase /\ peer' = peer
      /\ packet' = NoMessage /\ reply' # NoMessage /\ reply' \in Reply
      /\ packet.cmd = "mem" <=> phase \in {"load", "serve"}
      /\ packet.cmd # "mem" => packet.core = peer
      /\ packet.cmd = "tohost" => packet.val = 0
      /\ packet.cmd = "fromhost" => packet.val \in 1 .. MaxRequests
      /\ packet.cmd = "reset" => /\ phase \in {"release", "stop"}
                                /\ packet.val = IF phase = "stop" THEN 1 ELSE 0
  BY ServedPacket
<1>2. peer \in Core BY DEF TypeOK
\* The cores and the HTIF's own reset.
<1>3. /\ run' \in [Core -> BOOLEAN] /\ tohost' \in [Core -> Value]
      /\ fromhost' \in [Core -> Value] /\ irq_host' \in [Core -> BOOLEAN]
      /\ reset' \in BOOLEAN
      /\ InterruptIffAnswer' /\ AnswersInv'
  <2>1. CASE packet.cmd = "mem"
    <3>1. UNCHANGED <<coreVars, reset>> BY <2>1 DEF TickOnce, ExchangeRegister
    <3> QED BY <3>1 DEF coreVars, TypeOK, InterruptIffAnswer, AnswersInv
  <2>2. CASE packet.cmd = "tohost"
    <3>1. /\ tohost' = [tohost EXCEPT ![peer] = 0]
          /\ UNCHANGED <<run, fromhost, irq_host, reset>>
      BY <1>1, <2>2 DEF TickOnce, ExchangeRegister
    <3>2. 0 \in Value BY ParametersAssumption DEF Value, Exit
    <3> QED BY <3>1, <3>2 DEF TypeOK, InterruptIffAnswer, AnswersInv
  <2>3. CASE packet.cmd = "fromhost"
    <3>1. /\ UNCHANGED <<run, tohost, reset>>
          /\ \/ UNCHANGED <<fromhost, irq_host>>
             \/ /\ irq_host' = [irq_host EXCEPT ![peer] = (packet.val # 0)]
                /\ fromhost' = [fromhost EXCEPT ![peer] = packet.val]
      BY <1>1, <2>3 DEF TickOnce, ExchangeRegister, OfferFromhost, SetFromhost
    <3>2. packet.val \in 1 .. MaxRequests /\ packet.val \in Value /\ packet.val # 0
      BY <1>1, <2>3, ParametersAssumption DEF Value, Exit
    <3>3. CASE UNCHANGED <<fromhost, irq_host>>
      BY <3>1, <3>3 DEF TypeOK, InterruptIffAnswer, AnswersInv
    <3>4. CASE /\ irq_host' = [irq_host EXCEPT ![peer] = TRUE]
               /\ fromhost' = [fromhost EXCEPT ![peer] = packet.val]
      BY <1>2, <3>1, <3>2, <3>4, ParametersAssumption
         DEF TypeOK, InterruptIffAnswer, AnswersInv
    <3> QED BY <3>1, <3>2, <3>3, <3>4
  <2>4. CASE packet.cmd = "reset"
    <3>1. reset' \in BOOLEAN BY <2>4 DEF TickOnce, ExchangeRegister, TypeOK
    <3>2. ResetCore(peer, packet.val = 1)
      BY <1>1, <2>4 DEF TickOnce, ExchangeRegister
    <3>3. CASE UNCHANGED coreVars
      BY <3>1, <3>3 DEF coreVars, TypeOK, InterruptIffAnswer, AnswersInv
    <3>4. CASE /\ run' = [run EXCEPT ![peer] = ~(packet.val = 1)]
               /\ tohost' = [tohost EXCEPT ![peer] = 0]
               /\ fromhost' = [fromhost EXCEPT ![peer] = 0]
               /\ irq_host' = [irq_host EXCEPT ![peer] = FALSE]
      BY <1>2, <3>1, <3>4, ParametersAssumption
         DEF TypeOK, InterruptIffAnswer, AnswersInv, Value, Exit
    <3> QED BY <3>2, <3>3, <3>4 DEF ResetCore
  <2> QED BY <2>1, <2>2, <2>3, <2>4 DEF TickOnce, ExchangeRegister
<1>4. TypeOK'
  <2>1. ticking' \in BOOLEAN /\ driver' \in {"boot", "fast", "run", "done"}
    BY <1>3 DEF TickOnce, TypeOK
  <2> QED
    BY <1>1, <1>3, <2>1 DEF TickOnce, TypeOK, hostVars, history
<1>5. ChannelInv'
  BY <1>1 DEF ChannelInv
<1>6. HostInv'
  BY DEF HostInv, TickOnce, hostVars
<1>7. ResetInv'
  <2>1. packet.cmd # "reset" => reset' = reset BY DEF TickOnce, ExchangeRegister
  <2>2. phase = "release" => packet.cmd = "reset" /\ packet.val = 0
    BY <1>1, PacketOfPhase
  <2>3. phase = "release" => ~reset'
    <3>1. SUFFICES ASSUME phase = "release" PROVE ~reset' OBVIOUS
    <3>2. packet.cmd = "reset" /\ packet.val # 1 BY <2>2, <3>1
    <3> QED BY <3>2 DEF TickOnce, ExchangeRegister
  <2>4. reset' => reset BY DEF TickOnce, ExchangeRegister, TypeOK
  <2> QED BY <1>1, <2>3, <2>4 DEF ResetInv
<1>8. StopInv'
  <2>1. SUFFICES ASSUME phase = "stop"
        PROVE  /\ \A c \in Core : c <= peer => ~run'[c]
               /\ ~ticking'
    BY <1>1, <1>2, ParametersAssumption DEF StopInv, Core
  <2>2. packet.cmd = "reset" /\ packet.val = 1
    BY <1>1, <2>1, PacketOfPhase
  <2>3. ResetCore(peer, TRUE) /\ ~reset'
    BY <1>1, <2>1, <2>2 DEF TickOnce, ExchangeRegister, ResetInv
  <2>4. ~ticking' BY <2>3 DEF TickOnce
  <2>5. \/ run[peer] = FALSE /\ run' = run
        \/ run' = [run EXCEPT ![peer] = FALSE]
    BY <2>3 DEF ResetCore, coreVars
  <2>6. \A c \in Core : c < peer => ~run[c]
    BY <2>1 DEF StopInv
  <2>7. ~run'[peer] /\ \A c \in Core \ {peer} : run'[c] = run[c]
    BY <1>2, <2>5 DEF TypeOK
  <2>8. ASSUME NEW c \in Core, c <= peer PROVE c = peer \/ c < peer
    BY <1>2, <2>8, ParametersAssumption DEF Core
  <2> QED BY <2>4, <2>6, <2>7, <2>8
<1> QED BY <1>3, <1>4, <1>5, <1>6, <1>7, <1>8

(* A slice of instructions: the turn ends at INTERLEAVE, and a simulator   *)
(* whose cores have all been stopped does not tick again.                  *)
LEMMA StepKeepsInv ==
  ASSUME IInv, NEW k \in 0 .. INTERLEAVE, NEW take \in BOOLEAN, NEW ask \in Value,
         Step(k, take, ask)
  PROVE  IInv'
<1> USE DEF IInv
<1> DEFINE c == current_proc
<1>1. c \in Core /\ c \in Nat /\ NumCores \in Nat \ {0}
  BY ParametersAssumption DEF TypeOK, Core
<1>2. /\ k \in Nat /\ left \in Nat /\ current_step \in Nat /\ idle_cycles \in Nat
      /\ current_step < INTERLEAVE /\ idle_cycles < INTERLEAVE
      /\ current_step + k <= INTERLEAVE
      /\ driver = "fast" => k <= left
  BY ParametersAssumption DEF Step, Retired, SliceLength, LesserOf, TypeOK
<1>3. left' \in 0 .. Skip
  BY <1>2, ParametersAssumption DEF Step, TypeOK
<1>4. current_step' \in 0 .. (INTERLEAVE - 1) /\ idle_cycles' \in 0 .. (INTERLEAVE - 1)
  BY <1>2, ParametersAssumption DEF Step, TurnOver, IdleAfter
<1>5. current_proc' \in Core
  BY <1>1 DEF Step, NextProc, Core
<1>6. driver' \in {"boot", "fast", "run", "done"} /\ ticking' \in BOOLEAN
  BY DEF Step, TypeOK, Done, Running
<1>7. /\ run' = run
      /\ fromhost' \in [Core -> Value] /\ irq_host' \in [Core -> BOOLEAN]
      /\ tohost' \in [Core -> Value]
      /\ asked' \in [Core -> 0 .. MaxRequests] /\ taken' \in [Core -> 0 .. MaxRequests]
      /\ InterruptIffAnswer' /\ AnswersInv'
  <2>1. UseMailbox(c, k, take, ask) BY DEF Step
  <2>2. tohost' \in [Core -> Value] BY <1>1, <2>1 DEF UseMailbox, TypeOK
  <2>3. asked' \in [Core -> 0 .. MaxRequests]
    BY <1>1, <2>1, ParametersAssumption DEF UseMailbox, TypeOK
  <2>4. CASE take
    <3>1. /\ run' = run /\ fromhost' = [fromhost EXCEPT ![c] = 0]
          /\ irq_host' = [irq_host EXCEPT ![c] = FALSE]
          /\ taken' = [taken EXCEPT ![c] = fromhost[c]]
      BY <2>1, <2>4 DEF UseMailbox
    <3>2. 0 \in Value BY ParametersAssumption DEF Value, Exit
    <3>3. fromhost[c] \in 0 .. MaxRequests BY <1>1 DEF AnswersInv
    <3>4. taken' \in [Core -> 0 .. MaxRequests] BY <1>1, <3>1, <3>3 DEF TypeOK
    <3>5. InterruptIffAnswer' BY <1>1, <3>1 DEF TypeOK, InterruptIffAnswer
    <3>6. AnswersInv' BY <1>1, <3>1, ParametersAssumption DEF TypeOK, AnswersInv
    <3>7. fromhost' \in [Core -> Value] /\ irq_host' \in [Core -> BOOLEAN]
      BY <1>1, <3>1, <3>2 DEF TypeOK
    <3> QED BY <2>2, <2>3, <3>1, <3>4, <3>5, <3>6, <3>7
  <2>5. CASE ~take
    <3>1. UNCHANGED <<run, fromhost, irq_host, taken>> BY <2>1, <2>5 DEF UseMailbox
    <3> QED BY <2>2, <2>3, <3>1 DEF TypeOK, InterruptIffAnswer, AnswersInv
  <2> QED BY <2>4, <2>5
<1>8. UNCHANGED <<reset, packet, reply, phase, peer, serving, outbox>>
  BY DEF Step, hostVars
<1>9. TypeOK'
  BY <1>3, <1>4, <1>5, <1>6, <1>7, <1>8 DEF TypeOK
<1>10. HostPacket' = HostPacket
  BY <1>8, Zenon DEF HostPacket
<1>11. ChannelInv' /\ HostInv' /\ ResetInv'
  BY <1>8, <1>10 DEF ChannelInv, HostInv, ResetInv
<1>12. StopInv'
  <2>1. CASE ticking' = ticking
    BY <1>7, <1>8, <2>1 DEF StopInv, LastCore
  <2>2. CASE ticking' = ~Done
    <3>1. ASSUME \/ phase = "gone"
                 \/ phase = "stop" /\ LastCore /\ reply # NoMessage
          PROVE  Done
      BY <3>1, ParametersAssumption DEF StopInv, ResetInv, Done, Running, LastCore, Core
    <3> QED BY <1>7, <1>8, <2>2, <3>1 DEF StopInv, LastCore
  <2> QED BY <2>1, <2>2 DEF Step
<1> QED BY <1>7, <1>9, <1>11, <1>12

-----------------------------------------------------------------------------
(* The results.                                                            *)

LEMMA InitInv == Init => IInv
<1> SUFFICES ASSUME Init PROVE IInv
  OBVIOUS
<1>1. 0 \in Core /\ 0 \in Value
  BY ParametersAssumption DEF Core, Value, Exit
<1>2. TypeOK
  BY <1>1, ParametersAssumption DEF Init, TypeOK
<1>3. InterruptIffAnswer /\ AnswersInv
  BY ParametersAssumption DEF Init, InterruptIffAnswer, AnswersInv
<1>4. ChannelInv /\ HostInv /\ ResetInv /\ StopInv
  BY DEF Init, ChannelInv, HostInv, ResetInv, StopInv
<1> QED BY <1>2, <1>3, <1>4 DEF IInv

LEMMA NextKeepsInv == IInv /\ [Next]_vars => IInv'
<1> SUFFICES ASSUME IInv, [Next]_vars PROVE IInv'
  OBVIOUS
<1>1. CASE UNCHANGED vars
  <2>1. HostPacket' = HostPacket
    BY <1>1, Zenon DEF HostPacket, vars, hostVars
  <2> QED
    BY <1>1, <2>1
       DEF IInv, TypeOK, InterruptIffAnswer, AnswersInv, ChannelInv, HostInv, ResetInv,
           StopInv, LastCore, vars, coreVars, simVars, htifVars, hostVars, history
<1>2. CASE Next
  BY <1>1, <1>2, StepKeepsInv, TickOnceKeepsInv, HostSendsKeepsInv, HostGetsKeepsInv
     DEF Next, Returned
<1> QED BY <1>1, <1>2

THEOREM Invariance == Spec => []IInv
BY InitInv, NextKeepsInv, PTL DEF Spec

(* Turns, skips, packets and answers keep their ranges: no slice runs over *)
(* the end of a turn, and the host is never asked to answer with nothing.  *)
THEOREM TypeCorrect == Spec => []TypeOK
<1>1. IInv => TypeOK BY DEF IInv
<1> QED BY <1>1, Invariance, PTL

(* The interrupt line of a core and its fromhost register are written in   *)
(* three places (set_fromhost, set_pcr, reset), always together.           *)
THEOREM InterruptMeansAnswer == Spec => []InterruptIffAnswer
<1>1. IInv => InterruptIffAnswer BY DEF IInv
<1> QED BY <1>1, Invariance, PTL

(* done() is true as soon as the reset of the last core has been served,   *)
(* so tick is not called again, however the host's departure and the turns *)
(* of the cores interleave.                                                *)
THEOREM TickAlwaysServed == Spec => []TickIsServed
<1>1. IInv => TickIsServed BY DEF IInv, StopInv, TickIsServed
<1> QED BY <1>1, Invariance, PTL

-----------------------------------------------------------------------------
(* SimHtif implements Mailbox for any number of cores, turns and skips of  *)
(* any length, and any number of requests.                                 *)
(*                                                                         *)
(* An answer on its way to the program passes through four places: the     *)
(* reply to the poll that fetched the request, the host's hands, the       *)
(* host's outbox, and fromhost. The proof shows that each step moves it    *)
(* from one place to the next without a change of order, that the program  *)
(* takes it from the last, and that the numbers in the four places and in  *)
(* tohost are consecutive.                                                 *)

Request == 1 .. MaxRequests

(* The kind of a reply says what the host is doing.                        *)
ReplyInv ==
  /\ reply.cmd = "mem" => phase \in {"load", "serve"}
  /\ reply.cmd = "reset" => phase \in {"release", "stop"}
  /\ reply.cmd = "tohost" => phase = "poll"
  /\ reply.cmd = "fromhost" => phase = "answer"

(* The host polls when it has released every core, and until then it has   *)
(* no answers. A core that does not run has nothing in its registers.      *)
ReleaseInv ==
  /\ phase \in {"load", "release"} => \A c \in Core : outbox[c] = <<>>
  /\ serving # 0 => phase = "serve"
  /\ phase = "release" =>
       \A c \in Core : c < peer \/ (c = peer /\ reply # NoMessage) => run[c]
  /\ phase \in {"poll", "serve", "answer"} => \A c \in Core : run[c]
  /\ \A c \in Core : ~run[c] => tohost[c] = 0 /\ fromhost[c] = 0

-----------------------------------------------------------------------------
LEMMA ServedPhase ==
  ASSUME IInv, TickOnce
  PROVE  /\ packet.cmd = "tohost" => phase = "poll"
         /\ packet.cmd = "fromhost" => phase = "answer"
<1>1. /\ packet = HostPacket
      /\ phase \in {"load", "release", "poll", "serve", "answer", "stop"}
      /\ packet.cmd = "mem" <=> phase \in {"load", "serve"}
  BY ServedPacket DEF IInv, TypeOK
<1>2. /\ phase = "release" => packet.cmd = "reset"
      /\ phase = "stop" => packet.cmd = "reset"
      /\ phase = "poll" => packet.cmd = "tohost"
      /\ phase = "answer" => packet.cmd = "fromhost"
  BY <1>1, PacketOfPhase DEF IInv
<1> QED BY <1>1, <1>2

LEMMA ReplyInvStep ==
  ASSUME IInv, ReplyInv, [Next]_vars
  PROVE  ReplyInv'
<1>1. CASE TickOnce
  <2>1. /\ packet.cmd = "mem" <=> phase \in {"load", "serve"}
        /\ packet.cmd = "reset" => phase \in {"release", "stop"}
        /\ phase' = phase
    BY <1>1, ServedPacket
  <2>2. /\ packet.cmd = "tohost" => phase = "poll"
        /\ packet.cmd = "fromhost" => phase = "answer"
    BY <1>1, ServedPhase
  <2>3. reply'.cmd = packet.cmd
    BY <1>1 DEF TickOnce, ExchangeRegister
  <2> QED BY <2>1, <2>2, <2>3 DEF ReplyInv
<1>2. CASE HostGets
  BY <1>2 DEF HostGets, ReplyInv, NoMessage
<1>3. CASE HostSends
  BY <1>3 DEF HostSends, ReplyInv, hostVars
<1>4. ASSUME NEW k \in 0 .. INTERLEAVE, NEW take \in BOOLEAN, NEW ask \in Value,
             Step(k, take, ask)
      PROVE  ReplyInv'
  BY <1>4 DEF Step, ReplyInv, hostVars
<1>5. CASE UNCHANGED vars
  BY <1>5 DEF vars, ReplyInv, hostVars
<1> QED BY <1>1, <1>2, <1>3, <1>4, <1>5 DEF Next, Returned

(* A slice of a core that does not run retires nothing.                    *)
LEMMA IdleSlice ==
  ASSUME IInv, NEW k \in 0 .. INTERLEAVE, NEW take \in BOOLEAN, NEW ask \in Value,
         Step(k, take, ask)
  PROVE  take \/ ask # 0 => run[current_proc]
<1>1. UseMailbox(current_proc, k, take, ask) /\ k \in Retired(current_proc, SliceLength)
  BY DEF Step
<1>2. take \/ ask # 0 => k > 0
  BY <1>1 DEF UseMailbox
<1> QED BY <1>1, <1>2 DEF Retired

LEMMA ReleaseInvStep ==
  ASSUME IInv, ReplyInv, ReleaseInv, [Next]_vars
  PROVE  ReleaseInv'
<1>0. /\ peer \in Core /\ NumCores \in Nat \ {0} /\ current_proc \in Core
      /\ run \in [Core -> BOOLEAN] /\ tohost \in [Core -> Value]
      /\ fromhost \in [Core -> Value]
  BY ParametersAssumption DEF IInv, TypeOK
<1>1. CASE TickOnce
  <2>1. /\ packet = HostPacket /\ phase' = phase /\ peer' = peer /\ phase # "gone"
        /\ packet.cmd # "mem" => packet.core = peer
        /\ packet.cmd = "tohost" => packet.val = 0
        /\ packet.cmd = "reset" => /\ phase \in {"release", "stop"}
                                  /\ packet.val = IF phase = "stop" THEN 1 ELSE 0
        /\ outbox' = outbox /\ serving' = serving
    BY <1>1, ServedPacket DEF TickOnce, hostVars
  <2>2. CASE packet.cmd = "mem"
    <3>1. UNCHANGED <<run, tohost, fromhost>>
      BY <1>1, <2>2 DEF TickOnce, ExchangeRegister, coreVars
    <3>2. phase # "release"
      BY <2>1, <2>2, PacketOfPhase DEF IInv
    <3> QED BY <2>1, <3>1, <3>2 DEF ReleaseInv
  <2>3. CASE packet.cmd = "tohost"
    <3>1. run' = run /\ fromhost' = fromhost /\ tohost' = [tohost EXCEPT ![peer] = 0]
      BY <1>1, <2>1, <2>3 DEF TickOnce, ExchangeRegister
    <3>2. phase # "release"
      BY <2>1, <2>3, PacketOfPhase DEF IInv
    <3> QED BY <1>0, <2>1, <3>1, <3>2 DEF ReleaseInv
  <2>4. CASE packet.cmd = "fromhost"
    <3>1. run' = run /\ tohost' = tohost
      BY <1>1, <2>4 DEF TickOnce, ExchangeRegister
    <3>2. phase = "answer"
      BY <1>1, <2>4, ServedPhase
    <3> QED BY <2>1, <3>1, <3>2 DEF ReleaseInv
  <2>5. CASE packet.cmd = "reset"
    <3>1. ResetCore(peer, packet.val = 1)
      BY <1>1, <2>1, <2>5 DEF TickOnce, ExchangeRegister
    <3>2. (run'[peer] <=> packet.val # 1) /\ \A c \in Core \ {peer} : run'[c] = run[c]
      BY <1>0, <3>1 DEF ResetCore, coreVars
    <3>3. \A c \in Core : ~run'[c] => tohost'[c] = 0 /\ fromhost'[c] = 0
      <4>1. CASE UNCHANGED coreVars
        BY <4>1 DEF coreVars, ReleaseInv
      <4>2. CASE /\ tohost' = [tohost EXCEPT ![peer] = 0]
                 /\ fromhost' = [fromhost EXCEPT ![peer] = 0]
        BY <1>0, <3>2, <4>2 DEF ReleaseInv
      <4> QED BY <3>1, <4>1, <4>2 DEF ResetCore
    <3>4. phase = "release" => \A c \in Core : c < peer \/ c = peer => run'[c]
      <4>1. phase = "release" => run'[peer]
        BY <2>1, <2>5, <3>2
      <4>2. phase = "release" => \A c \in Core : c < peer => run[c]
        BY DEF ReleaseInv
      <4>3. \A c \in Core : c < peer => c # peer
        BY <1>0 DEF Core
      <4> QED BY <3>2, <4>1, <4>2, <4>3
    <3> QED BY <2>1, <2>5, <3>3, <3>4 DEF ReleaseInv
  <2> QED BY <1>1, <2>2, <2>3, <2>4, <2>5 DEF TickOnce, ExchangeRegister
<1>2. CASE HostGets
  <2>1. /\ reply # NoMessage /\ reply' = NoMessage
        /\ UNCHANGED <<run, tohost, fromhost>>
    BY <1>2 DEF HostGets, coreVars
  <2>2. CASE HostStarts
    <3>1. /\ phase \in {"load", "release"} /\ serving' = serving /\ outbox' = outbox
          /\ phase' \in {"release", "poll"}
      BY <2>2 DEF HostStarts
    <3>2. CASE phase = "load" /\ phase' = "release" /\ peer' = peer
      <4>1. peer' = 0 BY <3>2 DEF IInv, ResetInv
      <4> QED BY <1>0, <2>1, <3>1, <3>2, <4>1 DEF ReleaseInv, Core
    <3>3. CASE phase = "release" /\ ~LastCore /\ phase' = phase /\ peer' = peer + 1
      BY <1>0, <2>1, <3>1, <3>3 DEF ReleaseInv, Core
    <3>4. CASE phase = "release" /\ LastCore /\ phase' = "poll"
      BY <1>0, <2>1, <3>1, <3>4 DEF ReleaseInv, Core, LastCore
    <3> QED BY <2>2, <3>2, <3>3, <3>4 DEF HostStarts, NextPeer
  <2>3. CASE HostPolled
    <3>1. phase = "poll" /\ phase' \in {"poll", "answer", "serve", "stop"}
          /\ (serving' = serving \/ phase' = "serve")
      BY <2>3 DEF HostPolled
    <3> QED BY <2>1, <3>1 DEF ReleaseInv
  <2>4. CASE HostServed
    BY <2>1, <2>4 DEF HostServed, ReleaseInv
  <2>5. CASE HostAnswered
    BY <2>1, <2>5 DEF HostAnswered, ReleaseInv
  <2>6. CASE HostStops
    BY <2>1, <2>6 DEF HostStops, ReleaseInv
  <2> QED BY <1>2, <2>2, <2>3, <2>4, <2>5, <2>6 DEF HostGets
<1>3. CASE HostSends
  BY <1>3 DEF HostSends, ReleaseInv, hostVars, coreVars
<1>4. ASSUME NEW k \in 0 .. INTERLEAVE, NEW take \in BOOLEAN, NEW ask \in Value,
             Step(k, take, ask)
      PROVE  ReleaseInv'
  <2>1. /\ run' = run /\ UNCHANGED <<phase, peer, serving, outbox, reply>>
        /\ tohost' = IF ask # 0 THEN [tohost EXCEPT ![current_proc] = ask] ELSE tohost
        /\ fromhost' = IF take THEN [fromhost EXCEPT ![current_proc] = 0] ELSE fromhost
    BY <1>4 DEF Step, UseMailbox, hostVars
  <2>2. take \/ ask # 0 => run[current_proc]
    BY <1>4, IdleSlice
  <2>3. \A c \in Core : ~run[c] => tohost'[c] = tohost[c] /\ fromhost'[c] = fromhost[c]
    BY <1>0, <2>1, <2>2
  <2> QED BY <2>1, <2>3 DEF ReleaseInv
<1>5. CASE UNCHANGED vars
  BY <1>5 DEF vars, ReleaseInv, hostVars, coreVars
<1> QED BY <1>1, <1>2, <1>3, <1>4, <1>5 DEF Next, Returned

-----------------------------------------------------------------------------
(* Sequences of four parts.                                                *)

LEMMA Single == ASSUME NEW S, NEW x \in S
                PROVE  <<x>> \in Seq(S) /\ Len(<<x>>) = 1 /\ <<x>>[1] = x
  OBVIOUS

LEMMA FourInSeq ==
  ASSUME NEW S, NEW a \in Seq(S), NEW b \in Seq(S), NEW c \in Seq(S), NEW d \in Seq(S)
  PROVE  /\ a \o b \in Seq(S) /\ a \o b \o c \in Seq(S) /\ a \o b \o c \o d \in Seq(S)
         /\ Len(a \o b \o c \o d) = Len(a) + Len(b) + Len(c) + Len(d)
<1>1. a \o b \in Seq(S) /\ Len(a \o b) = Len(a) + Len(b)
  BY ConcatProperties
<1>2. a \o b \o c \in Seq(S) /\ Len(a \o b \o c) = Len(a \o b) + Len(c)
  BY <1>1, ConcatProperties
<1>3. a \o b \o c \o d \in Seq(S) /\ Len(a \o b \o c \o d) = Len(a \o b \o c) + Len(d)
  BY <1>2, ConcatProperties
<1> QED BY <1>1, <1>2, <1>3

(* Between neighbouring places.                                            *)
LEMMA MoveToServing ==
  ASSUME NEW S, NEW a \in Seq(S), NEW b \in Seq(S), NEW x \in S
  PROVE  a \o b \o <<>> \o <<x>> = a \o b \o <<x>> \o <<>>
<1>1. a \o b \in Seq(S) /\ <<x>> \in Seq(S) BY FourInSeq, Single
<1>2. a \o b \o <<x>> \in Seq(S) BY <1>1, ConcatProperties
<1> QED BY <1>1, <1>2, ConcatEmptySeq

LEMMA MoveToOutbox ==
  ASSUME NEW S, NEW a \in Seq(S), NEW b \in Seq(S), NEW x \in S
  PROVE  a \o b \o <<x>> \o <<>> = a \o Append(b, x) \o <<>> \o <<>>
<1>1. <<x>> \in Seq(S) /\ Append(b, x) \in Seq(S) /\ Append(b, x) = b \o <<x>>
  BY Single, AppendProperties, AppendIsConcat
<1>2. a \o b \o <<x>> = a \o Append(b, x)
  BY <1>1, ConcatAssociative
<1>3. a \o Append(b, x) \in Seq(S)
  BY <1>1, ConcatProperties
<1> QED BY <1>2, <1>3, ConcatEmptySeq

LEMMA MoveToFromhost ==
  ASSUME NEW S, NEW b \in Seq(S), b # <<>>
  PROVE  <<>> \o b = <<Head(b)>> \o Tail(b)
<1>1. Head(b) \in S /\ Tail(b) \in Seq(S) BY HeadTail
<1>2. <<Head(b)>> \o Tail(b) = b
  <2>1. /\ <<Head(b)>> \in Seq(S) /\ Len(<<Head(b)>>) = 1 /\ <<Head(b)>>[1] = Head(b)
        /\ Len(b) \in Nat /\ Len(b) > 0 /\ Head(b) = b[1]
    BY <1>1, Single, EmptySeq
  <2>2. /\ Len(Tail(b)) = Len(b) - 1
        /\ \A i \in 1 .. Len(Tail(b)) : Tail(b)[i] = b[i + 1]
    BY HeadTailProperties
  <2>3. /\ <<Head(b)>> \o Tail(b) \in Seq(S)
        /\ Len(<<Head(b)>> \o Tail(b)) = Len(b)
        /\ \A i \in 1 .. Len(b) : (<<Head(b)>> \o Tail(b))[i] =
             IF i <= 1 THEN <<Head(b)>>[i] ELSE Tail(b)[i - 1]
    BY <1>1, <2>1, <2>2, ConcatProperties
  <2>4. ASSUME NEW i \in 1 .. Len(b)
        PROVE  (<<Head(b)>> \o Tail(b))[i] = b[i]
    <3>1. CASE i = 1
      BY <2>1, <2>3, <3>1
    <3>2. CASE i # 1
      <4>1. i - 1 \in 1 .. Len(Tail(b)) /\ (i - 1) + 1 = i /\ ~(i <= 1)
        BY <2>1, <2>2, <3>2
      <4> QED BY <2>2, <2>3, <4>1
    <3> QED BY <3>1, <3>2
  <2> QED BY <2>3, <2>4, SeqEqual
<1> QED BY <1>2, ConcatEmptySeq

LEMMA FetchIsAppend ==
  ASSUME NEW S, NEW a \in Seq(S), NEW x \in S
  PROVE  a \o <<x>> = Append(a \o <<>>, x)
  BY AppendIsConcat, ConcatEmptySeq

(* s is x, then b, then c, then d.                                        *)
Leads(S, s, x, b, c, d) ==
  x \in S /\ b \in Seq(S) /\ c \in Seq(S) /\ d \in Seq(S) /\ s = <<x>> \o b \o c \o d

LEMMA TakeIsTail ==
  ASSUME NEW S, NEW s, NEW x, NEW b, NEW c, NEW d, Leads(S, s, x, b, c, d)
  PROVE  s # <<>> /\ Head(s) = x /\ Tail(s) = <<>> \o b \o c \o d
<1> DEFINE rest == b \o c \o d
           all == <<x>> \o rest
<1>0. x \in S /\ b \in Seq(S) /\ c \in Seq(S) /\ d \in Seq(S) /\ s = <<x>> \o b \o c \o d
  BY Zenon DEF Leads
<1> USE <1>0
<1>1. <<x>> \in Seq(S) /\ Len(<<x>>) = 1 /\ <<x>>[1] = x BY Single
<1>2. b \o c \in Seq(S) /\ rest \in Seq(S) BY FourInSeq, ConcatProperties
<1>3. <<x>> \o b \o c \o d = all
  <2>1. <<x>> \o b \o c = <<x>> \o (b \o c) BY <1>1, ConcatAssociative
  <2> QED BY <1>1, <1>2, <2>1, ConcatAssociative
<1>4. <<>> \o b \o c \o d = rest
  BY ConcatEmptySeq
<1> HIDE DEF rest
<1>5. /\ all \in Seq(S) /\ Len(all) = 1 + Len(rest)
      /\ \A i \in 1 .. 1 + Len(rest) : all[i] = IF i <= 1 THEN <<x>>[i] ELSE rest[i - 1]
  BY <1>1, <1>2, ConcatProperties
<1> HIDE DEF all
<1>6. Len(rest) \in Nat BY <1>2, LenProperties
<1>7. all # <<>> /\ Head(all) = x
  <2>1. all[1] = x BY <1>1, <1>5, <1>6
  <2> QED BY <1>5, <1>6, <2>1, EmptySeq
<1>8. Tail(all) = rest
  <2>1. /\ Tail(all) \in Seq(S) /\ Len(Tail(all)) = Len(rest)
        /\ \A i \in 1 .. Len(rest) : Tail(all)[i] = all[i + 1]
    BY <1>5, <1>6, <1>7, HeadTailProperties
  <2>2. ASSUME NEW i \in 1 .. Len(rest)
        PROVE  Tail(all)[i] = rest[i]
    <3>1. i + 1 \in 1 .. 1 + Len(rest) /\ ~(i + 1 <= 1) /\ (i + 1) - 1 = i
      BY <1>6
    <3> QED BY <1>5, <2>1, <3>1
  <2> QED BY <1>2, <2>1, <2>2, SeqEqual
<1>9. s = all
  BY <1>3, Zenon
<1> QED BY <1>4, <1>7, <1>8, <1>9

-----------------------------------------------------------------------------
(* The four places.                                                        *)

Delivered(c) == reply.cmd = "fromhost" /\ peer = c /\ reply.old = 0
Fetched(c) == reply.cmd = "tohost" /\ peer = c /\ reply.old \in Request

InFromhost(c) == IF fromhost[c] # 0 THEN <<fromhost[c]>> ELSE <<>>
InOutbox(c) == IF Delivered(c) THEN Tail(outbox[c]) ELSE outbox[c]
InHands(c) == IF serving # 0 /\ peer = c THEN <<serving>> ELSE <<>>
InReply(c) == IF Fetched(c) THEN <<reply.old>> ELSE <<>>

LEMMA FourPlaces ==
  ASSUME NEW c \in Core
  PROVE  OnTheWay(c) = InFromhost(c) \o InOutbox(c) \o InHands(c) \o InReply(c)
  BY Zenon DEF OnTheWay, InFromhost, InOutbox, InHands, InReply, Delivered, Fetched, Request

LEMMA FourPlacesNext ==
  ASSUME NEW c \in Core
  PROVE  OnTheWay(c)' = InFromhost(c)' \o InOutbox(c)' \o InHands(c)' \o InReply(c)'
  BY Zenon DEF OnTheWay, InFromhost, InOutbox, InHands, InReply, Delivered, Fetched, Request

RInv == IInv /\ ReplyInv /\ ReleaseInv

PlacesInv ==
  \A c \in Core :
    /\ InFromhost(c) \in Seq(Request)
    /\ InOutbox(c) \in Seq(Request)
    /\ InHands(c) \in Seq(Request)
    /\ InReply(c) \in Seq(Request)
    /\ OnTheWay(c) \in Seq(Request)

LEMMA PlacesType == RInv => PlacesInv
<1> SUFFICES ASSUME RInv, NEW c \in Core
    PROVE  /\ InFromhost(c) \in Seq(Request)
           /\ InOutbox(c) \in Seq(Request)
           /\ InHands(c) \in Seq(Request)
           /\ InReply(c) \in Seq(Request)
           /\ OnTheWay(c) \in Seq(Request)
  BY DEF PlacesInv
<1>0. MaxRequests \in Nat BY ParametersAssumption
<1>1. InFromhost(c) \in Seq(Request)
  <2>1. fromhost[c] # 0 => fromhost[c] \in Request
    BY <1>0 DEF RInv, IInv, AnswersInv, Request
  <2> QED BY <2>1, Single DEF InFromhost
<1>2. InOutbox(c) \in Seq(Request)
  <2>1. outbox[c] \in Seq(Request) BY DEF RInv, IInv, TypeOK, Request
  <2>2. Delivered(c) => outbox[c] # <<>>
    BY DEF RInv, IInv, HostInv, ReplyInv, Delivered
  <2> QED BY <2>1, <2>2, HeadTail DEF InOutbox
<1>3. InHands(c) \in Seq(Request)
  <2>1. serving # 0 => serving \in Request
    BY <1>0 DEF RInv, IInv, TypeOK, Request
  <2> QED BY <2>1, Single DEF InHands
<1>4. InReply(c) \in Seq(Request)
  BY Single DEF InReply, Fetched
<1>5. InFromhost(c) \o InOutbox(c) \o InHands(c) \o InReply(c) \in Seq(Request)
  BY <1>1, <1>2, <1>3, <1>4, FourInSeq, Zenon
<1> QED BY <1>1, <1>2, <1>3, <1>4, <1>5, FourPlaces

(* A step that leaves every place as it is.                                *)
LEMMA SamePlaces ==
  ASSUME NEW c \in Core, fromhost'[c] = fromhost[c], outbox'[c] = outbox[c],
         UNCHANGED <<serving, peer, reply>>
  PROVE  OnTheWay(c)' = OnTheWay(c)
<1>1. /\ InFromhost(c)' = InFromhost(c) /\ InOutbox(c)' = InOutbox(c)
      /\ InHands(c)' = InHands(c) /\ InReply(c)' = InReply(c)
  BY DEF InFromhost, InOutbox, InHands, InReply, Delivered, Fetched
<1> QED BY <1>1, FourPlaces, FourPlacesNext

-----------------------------------------------------------------------------
(* What the host does with a reply moves an answer or leaves it.           *)
LEMMA HostGetsMoves ==
  ASSUME RInv, HostGets, NEW c \in Core
  PROVE  OnTheWay(c)' = OnTheWay(c)
<1>1. /\ reply # NoMessage /\ reply' = NoMessage /\ fromhost' = fromhost
      /\ peer \in Core /\ outbox \in [Core -> Seq(Request)] /\ serving \in 0 .. MaxRequests
      /\ reply \in Reply
  BY DEF HostGets, coreVars, RInv, IInv, TypeOK, Request
<1>2. /\ InFromhost(c) \in Seq(Request) /\ InOutbox(c) \in Seq(Request)
      /\ InHands(c) \in Seq(Request) /\ InReply(c) \in Seq(Request)
  BY PlacesType DEF PlacesInv
<1>3. /\ InFromhost(c)' = InFromhost(c) /\ InReply(c)' = <<>> /\ ~Delivered(c)'
      /\ InOutbox(c)' = outbox'[c]
  BY <1>1 DEF InFromhost, InReply, InOutbox, Delivered, Fetched, NoMessage
<1>4. \/ HostStarts \/ HostPolled \/ HostServed \/ HostAnswered \/ HostStops
  BY DEF HostGets
<1>5. CASE HostStarts \/ HostStops
  <2>1. /\ phase \in {"load", "release", "stop"} /\ serving' = serving /\ outbox' = outbox
    BY <1>5 DEF HostStarts, HostStops
  <2>2. serving = 0 /\ ~Delivered(c) /\ ~Fetched(c)
    BY <2>1 DEF RInv, ReplyInv, ReleaseInv, Delivered, Fetched
  <2>3. /\ InOutbox(c)' = InOutbox(c) /\ InHands(c)' = InHands(c) /\ InReply(c) = <<>>
    BY <1>3, <2>1, <2>2 DEF InOutbox, InHands, InReply
  <2> QED BY <1>3, <2>3, FourPlaces, FourPlacesNext
<1>6. CASE HostPolled
  <2>1. phase = "poll" /\ outbox' = outbox BY <1>6 DEF HostPolled
  <2>2. serving = 0 /\ ~Delivered(c)
    BY <2>1 DEF RInv, ReplyInv, ReleaseInv, Delivered
  <2>3. InOutbox(c)' = InOutbox(c) /\ InHands(c) = <<>>
    BY <1>3, <2>1, <2>2 DEF InOutbox, InHands
  <2>4. reply.cmd = "tohost"
    BY <1>1, <2>1 DEF RInv, ReplyInv, Reply
  <2>5. CASE reply.old \in Request /\ peer = c
    <3>1. serving' = reply.old /\ peer' = peer /\ serving' # 0
      BY <1>6, <2>5, ParametersAssumption DEF HostPolled, Request, Exit
    <3>2. InHands(c)' = <<reply.old>> /\ InReply(c) = <<reply.old>>
      BY <2>4, <2>5, <3>1 DEF InHands, InReply, Fetched
    <3>3. InFromhost(c) \o InOutbox(c) \o <<>> \o <<reply.old>>
            = InFromhost(c) \o InOutbox(c) \o <<reply.old>> \o <<>>
      BY <1>2, <2>5, MoveToServing
    <3> QED BY <1>3, <2>3, <3>2, <3>3, FourPlaces, FourPlacesNext
  <2>6. CASE ~(reply.old \in Request /\ peer = c)
    <3>1. InReply(c) = <<>> BY <2>6 DEF InReply, Fetched
    <3>2. InHands(c)' = <<>>
      BY <1>6, <2>2, <2>6, ParametersAssumption DEF HostPolled, InHands, Request, Exit
    <3> QED BY <1>3, <2>3, <3>1, <3>2, FourPlaces, FourPlacesNext
  <2> QED BY <2>5, <2>6
<1>7. CASE HostServed
  <2>1. /\ phase = "serve" /\ serving' = 0 /\ peer' = peer
        /\ outbox' = [outbox EXCEPT ![peer] = Append(@, serving)]
    BY <1>7 DEF HostServed
  <2>2. ~Delivered(c) /\ ~Fetched(c) /\ serving # 0 /\ serving \in Request
    BY <1>1, <2>1 DEF RInv, IInv, HostInv, ReplyInv, Delivered, Fetched, Request
  <2>3. InOutbox(c) = outbox[c] /\ InReply(c) = <<>> /\ InHands(c)' = <<>>
    BY <2>1, <2>2 DEF InOutbox, InReply, InHands
  <2>4. CASE peer = c
    <3>1. InHands(c) = <<serving>> /\ InOutbox(c)' = Append(outbox[c], serving)
      BY <1>1, <1>3, <2>1, <2>2, <2>4 DEF InHands
    <3>2. InFromhost(c) \in Seq(Request) /\ outbox[c] \in Seq(Request) /\ serving \in Request
      BY <1>2, <2>2, <2>3
    <3>3. InFromhost(c) \o outbox[c] \o <<serving>> \o <<>>
            = InFromhost(c) \o Append(outbox[c], serving) \o <<>> \o <<>>
      BY <3>2, MoveToOutbox
    <3> QED BY <1>3, <2>3, <3>1, <3>3, FourPlaces, FourPlacesNext
  <2>5. CASE peer # c
    <3>1. InHands(c) = <<>> /\ InOutbox(c)' = outbox[c]
      BY <1>1, <1>3, <2>1, <2>5 DEF InHands
    <3> QED BY <1>3, <2>3, <3>1, FourPlaces, FourPlacesNext
  <2> QED BY <2>4, <2>5
<1>8. CASE HostAnswered
  <2>1. /\ phase = "answer" /\ serving' = serving
        /\ outbox' = IF reply.old = 0 THEN [outbox EXCEPT ![peer] = Tail(@)] ELSE outbox
    BY <1>8 DEF HostAnswered
  <2>2. serving = 0 /\ reply.cmd = "fromhost" /\ ~Fetched(c)
    BY <1>1, <2>1 DEF RInv, ReplyInv, ReleaseInv, Fetched, Reply
  <2>3. InHands(c) = <<>> /\ InHands(c)' = <<>> /\ InReply(c) = <<>>
    BY <2>1, <2>2 DEF InHands, InReply
  <2>4. InOutbox(c)' = InOutbox(c)
    BY <1>1, <1>3, <2>1, <2>2 DEF InOutbox, Delivered
  <2> QED BY <1>3, <2>3, <2>4, FourPlaces, FourPlacesNext
<1> QED BY <1>4, <1>5, <1>6, <1>7, <1>8

(* What serving a packet does to the answers on their way: a poll fetches  *)
(* a request, everything else moves an answer or leaves it.                *)
LEMMA PollFetches ==
  ASSUME RInv, TickOnce, packet.cmd = "tohost", NEW c \in Core
  PROVE  OnTheWay(c)' = IF c = peer /\ tohost[c] \in Request
                        THEN Append(OnTheWay(c), tohost[c]) ELSE OnTheWay(c)
<1>1. /\ reply = NoMessage /\ reply' = [cmd |-> "tohost", old |-> tohost[peer]]
      /\ UNCHANGED <<fromhost, serving, outbox, peer>>
  BY ServedPacket DEF RInv, TickOnce, ExchangeRegister, hostVars
<1>2. /\ InFromhost(c)' = InFromhost(c) /\ InOutbox(c)' = InOutbox(c)
      /\ InHands(c)' = InHands(c) /\ InReply(c) = <<>>
  BY <1>1 DEF InFromhost, InOutbox, InHands, InReply, Delivered, Fetched, NoMessage
<1>3. CASE c = peer /\ tohost[c] \in Request
  <2>1. InReply(c)' = <<tohost[c]>>
    BY <1>1, <1>3 DEF InReply, Fetched
  <2>2. InFromhost(c) \o InOutbox(c) \o InHands(c) \in Seq(Request)
    BY PlacesType, FourInSeq DEF PlacesInv
  <2>3. InFromhost(c) \o InOutbox(c) \o InHands(c) \o <<tohost[c]>>
          = Append(InFromhost(c) \o InOutbox(c) \o InHands(c) \o <<>>, tohost[c])
    BY <1>3, <2>2, FetchIsAppend
  <2> QED BY <1>2, <1>3, <2>1, <2>3, FourPlaces, FourPlacesNext
<1>4. CASE ~(c = peer /\ tohost[c] \in Request)
  <2>1. InReply(c)' = <<>>
    BY <1>1, <1>4 DEF InReply, Fetched
  <2> QED BY <1>2, <1>4, <2>1, FourPlaces, FourPlacesNext
<1> QED BY <1>3, <1>4

LEMMA OfferMoves ==
  ASSUME RInv, TickOnce, packet.cmd = "fromhost", NEW c \in Core
  PROVE  OnTheWay(c)' = OnTheWay(c)
<1>1. /\ reply = NoMessage /\ reply' = [cmd |-> "fromhost", old |-> fromhost[peer]]
      /\ UNCHANGED <<serving, outbox, peer, phase>>
      /\ packet = HostPacket /\ packet.core = peer
      /\ OfferFromhost(packet)
  BY ServedPacket DEF RInv, TickOnce, ExchangeRegister, hostVars
<1>2. InHands(c)' = InHands(c) /\ InReply(c) = <<>> /\ InReply(c)' = <<>> /\ ~Delivered(c)
  BY <1>1 DEF InHands, InReply, Fetched, Delivered, NoMessage
<1>3. CASE c = peer /\ fromhost[c] = 0
  <2>1. phase = "answer"
    BY ServedPhase DEF RInv
  <2>2. /\ packet.val = Head(outbox[c]) /\ packet.val \in 1 .. MaxRequests
        /\ outbox[c] \in Seq(Request) /\ outbox[c] # <<>>
    <3>1. TypeOK /\ HostInv /\ AnswersInv
      BY DEF RInv, IInv
    <3>2. packet = [cmd |-> "fromhost", core |-> peer, val |-> Head(outbox[peer])]
      BY <1>1, <2>1, <3>1, PacketOfPhase
    <3>3. Head(outbox[peer]) \in 1 .. MaxRequests
      BY <2>1, <3>1, AnswerOfOutbox
    <3>4. outbox[c] \in Seq(Request) /\ outbox[c] # <<>>
      BY <1>3, <2>1, <3>1 DEF TypeOK, HostInv, Request
    <3> QED
      BY <1>3, <3>2, <3>3, <3>4
  <2>3. fromhost'[c] = Head(outbox[c]) /\ fromhost'[c] # 0
    <3>1. fromhost[packet.core] = 0 /\ packet.core = c /\ OfferFromhost(packet)
      BY <1>1, <1>3, Zenon
    <3>2. fromhost' = [fromhost EXCEPT ![c] = packet.val]
      BY <3>1, Zenon DEF OfferFromhost, SetFromhost
    <3>3. fromhost \in [Core -> Value]
      BY DEF RInv, IInv, TypeOK
    <3>4. fromhost'[c] = packet.val
      BY <3>2, <3>3, Zenon
    <3> QED
      BY <2>2, <3>4
  <2>4. InFromhost(c) = <<>> /\ InFromhost(c)' = <<Head(outbox[c])>>
    BY <1>3, <2>3 DEF InFromhost
  <2>5. InOutbox(c) = outbox[c] /\ InOutbox(c)' = Tail(outbox[c])
    BY <1>1, <1>2, <1>3 DEF InOutbox, Delivered
  <2>6. <<>> \o outbox[c] = <<Head(outbox[c])>> \o Tail(outbox[c])
    BY <2>2, MoveToFromhost
  <2> QED BY <1>2, <2>4, <2>5, <2>6, FourPlaces, FourPlacesNext
<1>4. CASE ~(c = peer /\ fromhost[c] = 0)
  <2>1. fromhost'[c] = fromhost[c]
    BY <1>1, <1>4 DEF OfferFromhost, SetFromhost, RInv, IInv, TypeOK
  <2>2. InOutbox(c)' = InOutbox(c) /\ InFromhost(c)' = InFromhost(c)
    BY <1>1, <1>2, <1>4, <2>1 DEF InOutbox, InFromhost, Delivered
  <2> QED BY <1>2, <2>2, FourPlaces, FourPlacesNext
<1> QED BY <1>3, <1>4

LEMMA QuietPacket ==
  ASSUME RInv, TickOnce, packet.cmd \in {"mem", "reset"}, NEW c \in Core,
         fromhost'[c] = fromhost[c]
  PROVE  OnTheWay(c)' = OnTheWay(c)
<1>1. /\ reply = NoMessage /\ reply'.cmd = packet.cmd
      /\ UNCHANGED <<serving, outbox, peer>>
  BY ServedPacket DEF RInv, TickOnce, ExchangeRegister, hostVars
<1>2. /\ InFromhost(c)' = InFromhost(c) /\ InOutbox(c)' = InOutbox(c)
      /\ InHands(c)' = InHands(c) /\ InReply(c)' = InReply(c)
  BY <1>1 DEF InFromhost, InOutbox, InHands, InReply, Delivered, Fetched, NoMessage
<1> QED BY <1>2, FourPlaces, FourPlacesNext

(* The program takes the first answer, if it takes one.                    *)
LEMMA SliceTakes ==
  ASSUME RInv, NEW k \in 0 .. INTERLEAVE, NEW take \in BOOLEAN, NEW ask \in Value,
         Step(k, take, ask), NEW c \in Core
  PROVE  IF take /\ c = current_proc
         THEN /\ OnTheWay(c) # <<>> /\ Head(OnTheWay(c)) = fromhost[c]
              /\ OnTheWay(c)' = Tail(OnTheWay(c))
         ELSE OnTheWay(c)' = OnTheWay(c)
<1>1. /\ UseMailbox(current_proc, k, take, ask)
      /\ UNCHANGED <<reply, serving, peer, outbox>>
  BY DEF Step, hostVars
<1>2. CASE take /\ c = current_proc
  <2>1. fromhost[c] # 0 /\ fromhost'[c] = 0
    BY <1>1, <1>2 DEF UseMailbox, RInv, IInv, TypeOK
  <2>2. /\ InFromhost(c) = <<fromhost[c]>> /\ InFromhost(c)' = <<>>
        /\ InOutbox(c)' = InOutbox(c) /\ InHands(c)' = InHands(c) /\ InReply(c)' = InReply(c)
    BY <1>1, <2>1 DEF InFromhost, InOutbox, InHands, InReply, Delivered, Fetched
  <2>3. fromhost[c] \in Request
    BY <2>1, ParametersAssumption DEF RInv, IInv, AnswersInv, Request
  <2>4. /\ InOutbox(c) \in Seq(Request) /\ InHands(c) \in Seq(Request)
        /\ InReply(c) \in Seq(Request)
    BY PlacesType DEF PlacesInv
  <2>5. OnTheWay(c) = <<fromhost[c]>> \o InOutbox(c) \o InHands(c) \o InReply(c)
    BY <2>2, FourPlaces
  <2>6. /\ OnTheWay(c) # <<>> /\ Head(OnTheWay(c)) = fromhost[c]
        /\ Tail(OnTheWay(c)) = <<>> \o InOutbox(c) \o InHands(c) \o InReply(c)
    <3>1. Leads(Request, OnTheWay(c), fromhost[c], InOutbox(c), InHands(c), InReply(c))
      BY <2>3, <2>4, <2>5, Zenon DEF Leads
    <3> QED BY <3>1, TakeIsTail
  <2>7. OnTheWay(c)' = <<>> \o InOutbox(c) \o InHands(c) \o InReply(c)
    BY <2>2, FourPlacesNext
  <2> QED BY <1>2, <2>6, <2>7
<1>3. CASE ~(take /\ c = current_proc)
  <2>1. fromhost'[c] = fromhost[c]
    BY <1>1, <1>3 DEF UseMailbox, RInv, IInv, TypeOK
  <2> QED BY <1>1, <1>3, <2>1, SamePlaces
<1> QED BY <1>2, <1>3

-----------------------------------------------------------------------------
(* The numbers.                                                            *)

(* A core the host has not stopped.                                        *)
Live(c) == run[c] \/ phase \in {"load", "release"}

Waiting(c) == IF tohost[c] \in Request THEN 1 ELSE 0

(* What is on its way to the program follows what the program has taken,   *)
(* without a gap, up to what it has asked.                                 *)
Numbered(c) ==
  /\ asked[c] = taken[c] + Len(OnTheWay(c)) + Waiting(c)
  /\ \A i \in 1 .. Len(OnTheWay(c)) : OnTheWay(c)[i] = taken[c] + i
  /\ tohost[c] \in Request => tohost[c] = asked[c]

QueueInv == \A c \in Core : Live(c) => Numbered(c)

Inv == RInv /\ QueueInv

LEMMA SameNumbers ==
  ASSUME NEW c \in Core, Numbered(c), OnTheWay(c)' = OnTheWay(c),
         asked'[c] = asked[c], taken'[c] = taken[c], tohost'[c] = tohost[c]
  PROVE  Numbered(c)'
  BY DEF Numbered, Waiting

(* The program takes the front, and may ask for the next.                  *)
LEMMA SliceNumbers ==
  ASSUME Inv, NEW k \in 0 .. INTERLEAVE, NEW take \in BOOLEAN, NEW ask \in Value,
         Step(k, take, ask), NEW c \in Core, Live(c)'
  PROVE  Numbered(c)'
<1>1. /\ UseMailbox(current_proc, k, take, ask) /\ run' = run /\ phase' = phase
  BY DEF Step, hostVars, UseMailbox
<1>2. /\ Numbered(c) /\ OnTheWay(c) \in Seq(Request)
      /\ asked \in [Core -> 0 .. MaxRequests] /\ taken \in [Core -> 0 .. MaxRequests]
      /\ tohost \in [Core -> Value] /\ MaxRequests \in Nat
  BY <1>1, PlacesType, ParametersAssumption
     DEF Inv, QueueInv, Live, PlacesInv, RInv, IInv, TypeOK
<1>3. CASE c # current_proc
  <2>1. OnTheWay(c)' = OnTheWay(c)
    BY <1>3, SliceTakes DEF Inv
  <2>2. asked'[c] = asked[c] /\ taken'[c] = taken[c] /\ tohost'[c] = tohost[c]
    BY <1>1, <1>2, <1>3 DEF UseMailbox
  <2> QED BY <1>2, <2>1, <2>2, SameNumbers
<1>4. CASE c = current_proc
  \* The requests.
  <2>1. /\ asked'[c] - Waiting(c)' = asked[c] - Waiting(c)
        /\ tohost'[c] \in Request => tohost'[c] = asked'[c]
        /\ asked'[c] \in Nat
    <3>1. /\ ask # 0 => tohost[c] = 0
          /\ ask \in {0, Exit, asked[c] + 1}
          /\ tohost'[c] = IF ask # 0 THEN ask ELSE tohost[c]
          /\ asked'[c] = IF ask \in Request THEN ask ELSE asked[c]
      BY <1>1, <1>2, <1>4 DEF UseMailbox, Request
    <3>2. CASE ask = 0
      BY <1>2, <3>1, <3>2 DEF Numbered, Waiting, Request
    <3>3. CASE ask # 0 /\ ask \in Request
      <4>1. /\ ask = asked[c] + 1 /\ asked'[c] = ask /\ tohost'[c] = ask /\ tohost[c] = 0
        BY <1>2, <3>1, <3>3 DEF Exit, Request
      <4>2. Waiting(c)' = 1 /\ Waiting(c) = 0
        BY <3>3, <4>1 DEF Waiting, Request
      <4>3. asked[c] \in Nat BY <1>2
      <4> QED BY <4>1, <4>2, <4>3
    <3>4. CASE ask # 0 /\ ask \notin Request
      <4>1. asked'[c] = asked[c] /\ tohost'[c] = ask /\ tohost[c] = 0
        BY <3>1, <3>4
      <4>2. Waiting(c)' = 0 /\ Waiting(c) = 0
        BY <3>4, <4>1 DEF Waiting, Request
      <4> QED BY <1>2, <3>4, <4>1, <4>2
    <3> QED BY <3>2, <3>3, <3>4
  <2>2. Waiting(c) \in {0, 1} /\ Waiting(c)' \in {0, 1} /\ asked[c] \in Nat /\ taken[c] \in Nat
    BY <1>2 DEF Waiting
  <2>3. CASE ~take
    <3>1. OnTheWay(c)' = OnTheWay(c) BY <2>3, SliceTakes DEF Inv
    <3>2. taken' = taken BY <1>1, <2>3 DEF UseMailbox
    <3>3. asked'[c] = taken[c] + Len(OnTheWay(c)) + Waiting(c)'
      <4>1. Len(OnTheWay(c)) \in Nat BY <1>2, LenProperties
      <4>2. asked[c] = taken[c] + Len(OnTheWay(c)) + Waiting(c) BY <1>2 DEF Numbered
      <4> QED BY <2>1, <2>2, <4>1, <4>2
    <3> QED BY <1>2, <2>1, <3>1, <3>2, <3>3 DEF Numbered
  <2>4. CASE take
    <3>1. /\ OnTheWay(c) # <<>> /\ Head(OnTheWay(c)) = fromhost[c]
          /\ OnTheWay(c)' = Tail(OnTheWay(c))
      BY <1>4, <2>4, SliceTakes DEF Inv
    <3>2. /\ Len(OnTheWay(c)) \in Nat /\ Len(OnTheWay(c)) > 0
          /\ Head(OnTheWay(c)) = OnTheWay(c)[1]
          /\ Len(Tail(OnTheWay(c))) = Len(OnTheWay(c)) - 1
          /\ \A i \in 1 .. Len(Tail(OnTheWay(c))) :
               Tail(OnTheWay(c))[i] = OnTheWay(c)[i + 1]
      BY <1>2, <3>1, EmptySeq, HeadTailProperties
    <3>3. taken'[c] = taken[c] + 1
      <4>1. taken'[c] = fromhost[c]
        BY <1>1, <1>2, <1>4, <2>4 DEF UseMailbox
      <4>2. OnTheWay(c)[1] = taken[c] + 1
        BY <1>2, <3>2 DEF Numbered
      <4>3. Head(OnTheWay(c)) = fromhost[c]
        BY <3>1
      <4>4. Head(OnTheWay(c)) = OnTheWay(c)[1]
        BY <3>2
      <4> QED BY <4>1, <4>2, <4>3, <4>4, Zenon
    <3>4. asked'[c] = taken'[c] + Len(OnTheWay(c)') + Waiting(c)'
      <4>1. asked[c] = taken[c] + Len(OnTheWay(c)) + Waiting(c) BY <1>2 DEF Numbered
      <4>2. Len(OnTheWay(c)') = Len(OnTheWay(c)) - 1 /\ Len(OnTheWay(c)) \in Nat
        <5>1. Len(OnTheWay(c)') = Len(Tail(OnTheWay(c))) BY <3>1, Zenon
        <5>2. Len(Tail(OnTheWay(c))) = Len(OnTheWay(c)) - 1 /\ Len(OnTheWay(c)) \in Nat BY <3>2
        <5> QED BY <5>1, <5>2, Zenon
      <4>3. PICK l \in Nat : l = Len(OnTheWay(c)) BY <4>2
      <4>4. /\ asked[c] = taken[c] + l + Waiting(c)
            /\ taken'[c] = taken[c] + 1 /\ Len(OnTheWay(c)') = l - 1
        BY <3>3, <4>1, <4>2, <4>3
      <4>5. asked'[c] - Waiting(c)' = asked[c] - Waiting(c) /\ asked'[c] \in Nat BY <2>1
      <4>6. Waiting(c) \in {0, 1} /\ Waiting(c)' \in {0, 1} /\ taken[c] \in Nat BY <2>2
      <4>7. PICK t \in Nat, w \in {0, 1}, v \in {0, 1}, b \in Nat :
              t = taken[c] /\ w = Waiting(c) /\ v = Waiting(c)' /\ b = asked'[c]
        BY <4>5, <4>6
      <4>8. b - v = t + l + w - w
        BY <4>4, <4>5, <4>7
      <4>9. b = (t + 1) + (l - 1) + v
        BY <4>8
      <4> QED BY <4>4, <4>7, <4>9
    <3>5. ASSUME NEW i \in 1 .. Len(OnTheWay(c)')
          PROVE  OnTheWay(c)'[i] = taken'[c] + i
      <4>1. i + 1 \in 1 .. Len(OnTheWay(c)) /\ i \in 1 .. Len(Tail(OnTheWay(c))) /\ i \in Nat
        BY <3>1, <3>2
      <4>2. OnTheWay(c)'[i] = OnTheWay(c)[i + 1]
        BY <3>1, <3>2, <4>1
      <4>3. OnTheWay(c)[i + 1] = taken[c] + (i + 1)
        BY <1>2, <4>1 DEF Numbered
      <4> QED BY <2>2, <3>3, <4>1, <4>2, <4>3
    <3> QED BY <2>1, <3>4, <3>5 DEF Numbered
  <2> QED BY <2>3, <2>4
<1> QED BY <1>3, <1>4

LEMMA TickNumbers ==
  ASSUME Inv, TickOnce, NEW c \in Core, Live(c)'
  PROVE  Numbered(c)'
<1>1. /\ asked' = asked /\ taken' = taken /\ phase' = phase /\ peer \in Core
      /\ tohost \in [Core -> Value] /\ OnTheWay(c) \in Seq(Request)
      /\ asked \in [Core -> 0 .. MaxRequests] /\ taken \in [Core -> 0 .. MaxRequests]
      /\ MaxRequests \in Nat /\ run \in [Core -> BOOLEAN] /\ fromhost \in [Core -> Value]
      /\ Live(c) => Numbered(c)
  BY PlacesType, ParametersAssumption
     DEF TickOnce, hostVars, history, Inv, RInv, IInv, TypeOK, PlacesInv, QueueInv
<1>2. CASE packet.cmd = "mem"
  <2>1. UNCHANGED coreVars BY <1>2 DEF TickOnce, ExchangeRegister
  <2>2. fromhost'[c] = fromhost[c] /\ tohost'[c] = tohost[c] /\ Live(c)
    BY <1>1, <2>1 DEF coreVars, Live
  <2>3. OnTheWay(c)' = OnTheWay(c) BY <1>2, <2>2, QuietPacket DEF Inv
  <2> QED BY <1>1, <2>2, <2>3, SameNumbers
<1>3. CASE packet.cmd = "tohost"
  <2>1. run' = run /\ tohost' = [tohost EXCEPT ![peer] = 0]
    BY <1>3, ServedPacket DEF TickOnce, ExchangeRegister, Inv, RInv
  <2>2. Numbered(c)
    BY <1>1, <2>1 DEF Live
  <2>3. CASE c = peer /\ tohost[c] \in Request
    <3>1. OnTheWay(c)' = Append(OnTheWay(c), tohost[c])
      BY <1>3, <2>3, PollFetches DEF Inv
    <3>2. tohost'[c] = 0 /\ Waiting(c)' = 0 /\ Waiting(c) = 1
      BY <1>1, <2>1, <2>3 DEF Waiting, Request
    <3>3. /\ Len(OnTheWay(c)) \in Nat
          /\ Len(OnTheWay(c)') = Len(OnTheWay(c)) + 1
          /\ \A i \in 1 .. Len(OnTheWay(c)) : OnTheWay(c)'[i] = OnTheWay(c)[i]
          /\ OnTheWay(c)'[Len(OnTheWay(c)) + 1] = tohost[c]
      BY <1>1, <2>3, <3>1, AppendProperties, LenProperties
    <3>4. /\ asked[c] = taken[c] + Len(OnTheWay(c)) + 1
          /\ tohost[c] = asked[c]
      BY <2>2, <2>3, <3>2 DEF Numbered
    <3>5. asked[c] \in Nat /\ taken[c] \in Nat BY <1>1
    <3>6. asked'[c] = taken'[c] + Len(OnTheWay(c)') + Waiting(c)'
      BY <1>1, <3>2, <3>3, <3>4, <3>5
    <3>7. ASSUME NEW i \in 1 .. Len(OnTheWay(c)')
          PROVE  OnTheWay(c)'[i] = taken'[c] + i
      <4>1. CASE i = Len(OnTheWay(c)) + 1
        BY <1>1, <3>3, <3>4, <3>5, <4>1
      <4>2. CASE i # Len(OnTheWay(c)) + 1
        <5>1. i \in 1 .. Len(OnTheWay(c)) BY <3>3, <4>2
        <5> QED BY <1>1, <2>2, <3>3, <5>1 DEF Numbered
      <4> QED BY <4>1, <4>2
    <3>8. tohost'[c] \notin Request BY <3>2 DEF Request
    <3> QED BY <3>6, <3>7, <3>8 DEF Numbered
  <2>4. CASE ~(c = peer /\ tohost[c] \in Request)
    <3>1. OnTheWay(c)' = OnTheWay(c)
      BY <1>3, <2>4, PollFetches DEF Inv
    <3>2. Waiting(c)' = Waiting(c) /\ (tohost'[c] \in Request => tohost'[c] = tohost[c])
      BY <1>1, <2>1, <2>4 DEF Waiting, Request
    <3> QED BY <1>1, <2>2, <3>1, <3>2 DEF Numbered
  <2> QED BY <2>3, <2>4
<1>4. CASE packet.cmd = "fromhost"
  <2>1. run' = run /\ tohost' = tohost
    BY <1>4 DEF TickOnce, ExchangeRegister
  <2>2. Numbered(c) BY <1>1, <2>1 DEF Live
  <2>3. OnTheWay(c)' = OnTheWay(c) BY <1>4, OfferMoves DEF Inv
  <2> QED BY <1>1, <2>1, <2>2, <2>3, SameNumbers
<1>5. CASE packet.cmd = "reset"
  <2>1. /\ ResetCore(peer, packet.val = 1) /\ phase \in {"release", "stop"}
        /\ packet.val = IF phase = "stop" THEN 1 ELSE 0
    BY <1>5, ServedPacket DEF TickOnce, ExchangeRegister, Inv, RInv
  <2>2. Live(c) /\ fromhost'[c] = fromhost[c] /\ tohost'[c] = tohost[c]
    <3>1. CASE UNCHANGED coreVars
      BY <1>1, <3>1 DEF coreVars, Live
    <3>2. CASE c # peer /\ ~UNCHANGED coreVars
      BY <1>1, <2>1, <3>2 DEF ResetCore, Live
    <3>3. CASE c = peer /\ ~UNCHANGED coreVars
      <4>1. /\ run'[c] <=> packet.val # 1
            /\ tohost'[c] = 0 /\ fromhost'[c] = 0 /\ (run[c] <=> packet.val = 1)
        BY <1>1, <2>1, <3>3 DEF ResetCore
      <4>2. phase = "release"
        BY <1>1, <2>1, <4>1 DEF Live
      <4>3. ~run[c] BY <2>1, <4>1, <4>2
      <4> QED BY <4>1, <4>2, <4>3 DEF Live, Inv, RInv, ReleaseInv
    <3> QED BY <3>1, <3>2, <3>3
  <2>3. OnTheWay(c)' = OnTheWay(c) BY <1>5, <2>2, QuietPacket DEF Inv
  <2> QED BY <1>1, <2>2, <2>3, SameNumbers
<1> QED BY <1>2, <1>3, <1>4, <1>5 DEF TickOnce, ExchangeRegister

(* The answers do not change when the host sends or receives.              *)
LEMMA HostNumbers ==
  ASSUME Inv, HostSends \/ HostGets \/ UNCHANGED vars, NEW c \in Core
  PROVE  /\ UNCHANGED <<coreVars, history>> /\ OnTheWay(c)' = OnTheWay(c)
         /\ Live(c)' => Live(c)
<1>1. UNCHANGED <<coreVars, history>>
  BY DEF HostSends, HostGets, vars
<1>2. CASE HostGets
  <2>1. phase' \in {"load", "release"} => phase \in {"load", "release"}
    BY <1>2 DEF HostGets, HostStarts, HostPolled, HostServed, HostAnswered, HostStops
  <2> QED BY <1>1, <1>2, <2>1, HostGetsMoves DEF Inv, Live, coreVars
<1>3. CASE HostSends \/ UNCHANGED vars
  <2>1. UNCHANGED <<hostVars, reply, coreVars>> BY <1>3 DEF HostSends, vars
  <2>2. OnTheWay(c)' = OnTheWay(c)
    BY <2>1, SamePlaces DEF hostVars, coreVars
  <2> QED BY <1>1, <2>1, <2>2 DEF Live, hostVars, coreVars
<1> QED BY <1>2, <1>3

LEMMA InvInit == Init => Inv
<1> SUFFICES ASSUME Init PROVE Inv
  OBVIOUS
<1>1. IInv BY InitInv
<1>2. ReplyInv /\ ReleaseInv
  BY <1>1 DEF Init, ReplyInv, ReleaseInv, NoMessage
<1>3. ASSUME NEW c \in Core PROVE Numbered(c)
  <2>1. /\ InFromhost(c) = <<>> /\ InOutbox(c) = <<>> /\ InHands(c) = <<>> /\ InReply(c) = <<>>
    BY <1>3 DEF Init, InFromhost, InOutbox, InHands, InReply, Delivered, Fetched, NoMessage
  <2>2. OnTheWay(c) = <<>>
    BY <2>1, FourPlaces, ConcatEmptySeq
  <2>3. asked[c] = 0 /\ taken[c] = 0 /\ tohost[c] = 0 /\ Waiting(c) = 0
    BY <1>3 DEF Init, Waiting, Request
  <2> QED BY <2>2, <2>3 DEF Numbered, Request
<1> QED BY <1>1, <1>2, <1>3 DEF Inv, RInv, QueueInv

LEMMA InvStep == Inv /\ [Next]_vars => Inv'
<1> SUFFICES ASSUME Inv, [Next]_vars PROVE Inv'
  OBVIOUS
<1>1. RInv'
  BY NextKeepsInv, ReplyInvStep, ReleaseInvStep DEF Inv, RInv
<1>2. ASSUME NEW c \in Core, Live(c)' PROVE Numbered(c)'
  <2>1. CASE HostSends \/ HostGets \/ UNCHANGED vars
    <3>1. /\ UNCHANGED <<coreVars, history>> /\ OnTheWay(c)' = OnTheWay(c) /\ Numbered(c)
      BY <1>2, <2>1, HostNumbers DEF Inv, QueueInv
    <3> QED BY <3>1, SameNumbers DEF coreVars, history
  <2>2. CASE TickOnce
    BY <1>2, <2>2, TickNumbers
  <2>3. ASSUME NEW k \in 0 .. INTERLEAVE, NEW take \in BOOLEAN, NEW ask \in Value,
               Step(k, take, ask)
        PROVE  Numbered(c)'
    BY <1>2, <2>3, SliceNumbers
  <2> QED BY <2>1, <2>2, <2>3 DEF Next, Returned
<1> QED BY <1>1, <1>2 DEF Inv, QueueInv

-----------------------------------------------------------------------------
(* Each step is one of Mailbox, or a stutter.                              *)

MailboxSame == UNCHANGED <<asked, tohost, Answers, taken>>

LEMMA SameAnswers ==
  ASSUME run' = run, \A c \in Core : run[c] => OnTheWay(c)' = OnTheWay(c)
  PROVE  Answers' = Answers
  BY DEF Answers

LEMMA SliceUses ==
  ASSUME Inv, NEW k \in 0 .. INTERLEAVE, NEW take \in BOOLEAN, NEW ask \in Value,
         Step(k, take, ask)
  PROVE  Promise!Next \/ MailboxSame
<1>0. PICK c \in Core : c = current_proc
  BY DEF Inv, RInv, IInv, TypeOK
<1>1. /\ UseMailbox(c, k, take, ask) /\ run' = run
      /\ ask \in 0 .. Promise!Exit
  BY <1>0 DEF Step, UseMailbox, Value, Exit, Promise!Exit
<1>2. \A d \in Core : ~(take /\ d = c) => OnTheWay(d)' = OnTheWay(d)
  BY <1>0, SliceTakes DEF Inv
<1>3. CASE ~take /\ ask = 0
  <2>1. Answers' = Answers BY <1>1, <1>2, <1>3, SameAnswers
  <2>2. UNCHANGED <<asked, tohost, taken>>
    BY <1>1, <1>3, ParametersAssumption DEF UseMailbox
  <2> QED BY <2>1, <2>2 DEF MailboxSame
<1>4. CASE take \/ ask # 0
  <2>1. run[c] BY <1>0, <1>4, IdleSlice DEF Inv, RInv
  <2>2. /\ ask # 0 => tohost[c] = 0 /\ ask \in {asked[c] + 1, Promise!Exit}
        /\ tohost' = IF ask # 0 THEN [tohost EXCEPT ![c] = ask] ELSE tohost
        /\ asked' = IF ask \in 1 .. MaxRequests THEN [asked EXCEPT ![c] = ask] ELSE asked
    BY <1>1 DEF UseMailbox, Exit, Promise!Exit
  <2>3. CASE ~take
    <3>1. Answers' = Answers BY <1>1, <1>2, <2>3, SameAnswers
    <3>2. taken' = taken BY <1>1, <2>3 DEF UseMailbox
    <3>3. Promise!Use(c, take, ask)
      BY <1>4, <2>2, <2>3, <3>1, <3>2 DEF Promise!Use
    <3> QED BY <1>1, <3>3 DEF Promise!Next
  <2>4. CASE take
    <3>1. /\ OnTheWay(c) # <<>> /\ Head(OnTheWay(c)) = fromhost[c]
          /\ OnTheWay(c)' = Tail(OnTheWay(c))
      BY <1>0, <2>4, SliceTakes DEF Inv
    <3>2. fromhost[c] = taken[c] + 1
      <4>1. Numbered(c) /\ OnTheWay(c) \in Seq(Request)
        BY <1>1, <2>1, PlacesType DEF Inv, QueueInv, Live, PlacesInv
      <4>2. /\ Len(OnTheWay(c)) \in Nat \ {0} /\ Head(OnTheWay(c)) = OnTheWay(c)[1]
        BY <3>1, <4>1, EmptySeq
      <4> QED BY <3>1, <4>1, <4>2 DEF Numbered
    <3>3. Answers[c] = OnTheWay(c) /\ Answers' = [Answers EXCEPT ![c] = Tail(@)]
      <4>1. Answers[c] = OnTheWay(c) BY <1>1, <2>1 DEF Answers
      <4>2. Answers' = [d \in Core |-> IF run[d] THEN OnTheWay(d)' ELSE <<>>]
        BY <1>1 DEF Answers
      <4>3. [Answers EXCEPT ![c] = Tail(@)] =
              [d \in Core |-> IF d = c THEN Tail(OnTheWay(c))
                              ELSE IF run[d] THEN OnTheWay(d) ELSE <<>>]
        BY <1>1, <2>1 DEF Answers
      <4>4. ASSUME NEW d \in Core
            PROVE  (IF run[d] THEN OnTheWay(d)' ELSE <<>>) =
                   (IF d = c THEN Tail(OnTheWay(c))
                    ELSE IF run[d] THEN OnTheWay(d) ELSE <<>>)
        BY <1>2, <2>1, <3>1
      <4> QED BY <4>1, <4>2, <4>3, <4>4
    <3>4. taken' = [taken EXCEPT ![c] = @ + 1]
      BY <1>1, <2>4, <3>2 DEF UseMailbox, Inv, RInv, IInv, TypeOK
    <3>5. Promise!Use(c, take, ask)
      BY <1>4, <2>2, <2>4, <3>1, <3>2, <3>3, <3>4 DEF Promise!Use
    <3> QED BY <1>1, <3>5 DEF Promise!Next
  <2> QED BY <2>3, <2>4
<1> QED BY <1>3, <1>4

(* Nothing is on its way to a core that has not been released.             *)
LEMMA NothingYet ==
  ASSUME Inv, phase = "release", reply = NoMessage, NEW c \in Core, fromhost[c] = 0
  PROVE  OnTheWay(c) = <<>>
<1>1. outbox[c] = <<>> /\ serving = 0
  BY DEF Inv, RInv, ReleaseInv
<1>2. /\ InFromhost(c) = <<>> /\ InOutbox(c) = <<>> /\ InHands(c) = <<>> /\ InReply(c) = <<>>
  BY <1>1 DEF InFromhost, InOutbox, InHands, InReply, Delivered, Fetched, NoMessage
<1> QED BY <1>2, FourPlaces, ConcatEmptySeq

LEMMA TickServes ==
  ASSUME Inv, TickOnce
  PROVE  Promise!Next \/ MailboxSame
<1>1. /\ asked' = asked /\ taken' = taken /\ peer \in Core
      /\ tohost \in [Core -> Value] /\ run \in [Core -> BOOLEAN]
      /\ fromhost \in [Core -> Value] /\ reply = NoMessage
      /\ packet.cmd # "mem" => packet.core = peer
      /\ packet.cmd = "tohost" => packet.val = 0
      /\ packet.cmd = "reset" => /\ phase \in {"release", "stop"}
                                /\ packet.val = IF phase = "stop" THEN 1 ELSE 0
  BY ServedPacket DEF TickOnce, history, Inv, RInv, IInv, TypeOK
<1>2. CASE packet.cmd = "mem"
  <2>1. UNCHANGED coreVars BY <1>2 DEF TickOnce, ExchangeRegister
  <2>2. \A c \in Core : OnTheWay(c)' = OnTheWay(c)
    BY <1>2, <2>1, QuietPacket DEF Inv, coreVars
  <2> QED BY <1>1, <2>1, <2>2, SameAnswers DEF MailboxSame, coreVars
<1>3. CASE packet.cmd = "tohost"
  <2>1. run' = run /\ tohost' = [tohost EXCEPT ![peer] = 0]
    BY <1>1, <1>3 DEF TickOnce, ExchangeRegister
  <2>2. CASE tohost[peer] = 0
    <3>1. \A c \in Core : OnTheWay(c)' = OnTheWay(c)
      BY <1>3, <2>2, PollFetches DEF Inv, Request
    <3>2. tohost' = tohost BY <1>1, <2>1, <2>2
    <3> QED BY <1>1, <2>1, <3>1, <3>2, SameAnswers DEF MailboxSame
  <2>3. CASE tohost[peer] # 0
    <3>1. run[peer] BY <1>1, <2>3 DEF Inv, RInv, ReleaseInv
    <3>2. Answers' = IF tohost[peer] = Promise!Exit THEN Answers
                     ELSE [Answers EXCEPT ![peer] = Append(@, tohost[peer])]
      <4>1. CASE tohost[peer] = Promise!Exit
        <5>1. tohost[peer] \notin Request
          BY <4>1, ParametersAssumption DEF Promise!Exit, Request
        <5>2. \A c \in Core : OnTheWay(c)' = OnTheWay(c)
          BY <1>3, <5>1, PollFetches DEF Inv
        <5> QED BY <2>1, <4>1, <5>2, SameAnswers
      <4>2. CASE tohost[peer] # Promise!Exit
        <5>1. tohost[peer] \in Request
          BY <1>1, <2>3, <4>2, ParametersAssumption DEF Promise!Exit, Request, Value, Exit
        <5>2. Answers' = [c \in Core |-> IF run[c] THEN OnTheWay(c)' ELSE <<>>]
          BY <2>1 DEF Answers
        <5>3. [Answers EXCEPT ![peer] = Append(@, tohost[peer])] =
                [c \in Core |-> IF c = peer THEN Append(OnTheWay(peer), tohost[peer])
                                ELSE IF run[c] THEN OnTheWay(c) ELSE <<>>]
          BY <1>1, <3>1 DEF Answers
        <5>4. ASSUME NEW c \in Core
              PROVE  (IF run[c] THEN OnTheWay(c)' ELSE <<>>) =
                     (IF c = peer THEN Append(OnTheWay(peer), tohost[peer])
                      ELSE IF run[c] THEN OnTheWay(c) ELSE <<>>)
          BY <1>3, <3>1, <5>1, PollFetches DEF Inv
        <5> QED BY <4>2, <5>2, <5>3, <5>4
      <4> QED BY <4>1, <4>2
    <3>3. Promise!Fetch(peer)
      BY <1>1, <2>1, <2>3, <3>2 DEF Promise!Fetch
    <3> QED BY <1>1, <3>3 DEF Promise!Next
  <2> QED BY <2>2, <2>3
<1>4. CASE packet.cmd = "fromhost"
  <2>1. run' = run /\ tohost' = tohost
    BY <1>4 DEF TickOnce, ExchangeRegister
  <2>2. \A c \in Core : OnTheWay(c)' = OnTheWay(c) BY <1>4, OfferMoves DEF Inv
  <2> QED BY <1>1, <2>1, <2>2, SameAnswers DEF MailboxSame
<1>5. CASE packet.cmd = "reset"
  <2>1. ResetCore(peer, packet.val = 1)
    BY <1>1, <1>5 DEF TickOnce, ExchangeRegister
  <2>2. CASE UNCHANGED coreVars
    <3>1. \A c \in Core : OnTheWay(c)' = OnTheWay(c)
      BY <1>5, <2>2, QuietPacket DEF Inv, coreVars
    <3> QED BY <1>1, <2>2, <3>1, SameAnswers DEF MailboxSame, coreVars
  <2>3. CASE ~UNCHANGED coreVars
    <3>1. /\ run' = [run EXCEPT ![peer] = ~(packet.val = 1)]
          /\ tohost' = [tohost EXCEPT ![peer] = 0]
          /\ fromhost' = [fromhost EXCEPT ![peer] = 0]
          /\ run[peer] <=> packet.val = 1
      BY <1>1, <2>1, <2>3 DEF ResetCore
    <3>2. \A c \in Core \ {peer} : run'[c] = run[c] /\ OnTheWay(c)' = OnTheWay(c)
      BY <1>1, <1>5, <3>1, QuietPacket DEF Inv
    <3>3. Answers' = [c \in Core |-> IF run'[c] THEN OnTheWay(c)' ELSE <<>>]
      BY DEF Answers
    <3>4. CASE phase = "release"
      <4>1. ~run[peer] /\ fromhost[peer] = 0 /\ tohost[peer] = 0
        BY <1>1, <1>5, <3>1, <3>4 DEF Inv, RInv, ReleaseInv
      <4>2. tohost' = tohost /\ fromhost' = fromhost
        BY <1>1, <3>1, <4>1
      <4>3. ASSUME NEW c \in Core
            PROVE  (IF run'[c] THEN OnTheWay(c)' ELSE <<>>) =
                   (IF run[c] THEN OnTheWay(c) ELSE <<>>)
        <5>1. CASE c = peer
          <6>1. OnTheWay(c) = <<>>
            BY <1>1, <3>4, <4>1, <5>1, NothingYet
          <6>2. OnTheWay(c)' = OnTheWay(c)
            BY <1>5, <4>2, QuietPacket DEF Inv
          <6> QED BY <6>1, <6>2
        <5>2. CASE c # peer
          BY <3>2, <5>2
        <5> QED BY <5>1, <5>2
      <4>4. Answers' = Answers BY <3>3, <4>3 DEF Answers
      <4> QED BY <1>1, <4>2, <4>4 DEF MailboxSame
    <3>5. CASE phase = "stop"
      <4>1. ~run'[peer] BY <1>1, <1>5, <3>1, <3>5
      <4>2. [Answers EXCEPT ![peer] = <<>>] =
              [c \in Core |-> IF c = peer THEN <<>>
                              ELSE IF run[c] THEN OnTheWay(c) ELSE <<>>]
        BY <1>1 DEF Answers
      <4>3. ASSUME NEW c \in Core
            PROVE  (IF run'[c] THEN OnTheWay(c)' ELSE <<>>) =
                   (IF c = peer THEN <<>> ELSE IF run[c] THEN OnTheWay(c) ELSE <<>>)
        BY <3>2, <4>1
      <4>4. Answers' = [Answers EXCEPT ![peer] = <<>>] BY <3>3, <4>2, <4>3
      <4>5. Promise!Halt(peer) BY <1>1, <3>1, <4>4 DEF Promise!Halt
      <4> QED BY <1>1, <4>5 DEF Promise!Next
    <3> QED BY <1>1, <1>5, <3>4, <3>5
  <2> QED BY <2>2, <2>3
<1> QED BY <1>2, <1>3, <1>4, <1>5 DEF TickOnce, ExchangeRegister

LEMMA MailboxStep == Inv /\ [Next]_vars => [Promise!Next]_(Promise!vars)
<1> SUFFICES ASSUME Inv, [Next]_vars
             PROVE  Promise!Next \/ MailboxSame
  BY DEF MailboxSame, Promise!vars
<1>1. CASE HostSends \/ HostGets \/ UNCHANGED vars
  <2>1. \A c \in Core : OnTheWay(c)' = OnTheWay(c) BY <1>1, HostNumbers
  <2>2. UNCHANGED <<coreVars, history>>
    BY <1>1 DEF HostSends, HostGets, vars
  <2> QED BY <2>1, <2>2, SameAnswers DEF MailboxSame, coreVars, history
<1>2. CASE TickOnce BY <1>2, TickServes
<1>3. ASSUME NEW k \in 0 .. INTERLEAVE, NEW take \in BOOLEAN, NEW ask \in Value,
             Step(k, take, ask)
      PROVE  Promise!Next \/ MailboxSame
  BY <1>3, SliceUses
<1> QED BY <1>1, <1>2, <1>3 DEF Next, Returned

LEMMA MailboxInit == Init => Promise!Init
<1>1. Init => Answers = [c \in Core |-> <<>>]
  BY DEF Init, Answers
<1> QED BY <1>1 DEF Init, Promise!Init

(* For any number of cores and however their turns, the ticks and the      *)
(* host's packets interleave, each request reaches the host once and in    *)
(* order, and its answer the program once and in order.                    *)
THEOREM Refinement == Spec => ImplementsMailbox
<1>1. Spec => []Inv
  BY InvInit, InvStep, PTL DEF Spec
<1> QED
  BY <1>1, MailboxInit, MailboxStep, PTL DEF Spec, ImplementsMailbox, Promise!Spec
=============================================================================
