--------------------------- MODULE RegistersProofs ---------------------------
(***************************************************************************)
(* Proofs about the control registers in co-simulation: whatever the       *)
(* program, and however far the RTL is behind, an RTL that makes no        *)
(* mistake keeps through the DPI functions the registers that the          *)
(* functional simulator had, and no check of it fails, except for BADVADDR *)
(* and CAUSE while what they hold is the program's own.                    *)
(*                                                                         *)
(* The functions of riscv_dpi.cc do to a state_t what those of processor.cc*)
(* do, one by one: set_pcr, get_pcr, the update of the timer, an           *)
(* instruction or its trap.  The one piece of state that only the          *)
(* functional simulator keeps is rv64, which stays what STATUS says.  The  *)
(* invariant is then about the elements of buffer: each leads from the     *)
(* state before it to the state after it.                                  *)
(*                                                                         *)
(* They differ on BADVADDR and CAUSE, which only one of the two set_pcr    *)
(* stores.  So the two copies are not equal but alike (Alike), up to the   *)
(* fields that are stray, and no function carries what is stray into       *)
(* another field.                                                          *)
(***************************************************************************)
EXTENDS Registers, SequenceTheorems, TLAPS

-----------------------------------------------------------------------------
(* A state_t and one assignment to it.                                     *)

Fields == {"sr", "fflags", "frm", "epc", "badvaddr", "evec", "count", "compare",
           "cause", "pcr_k0", "tohost", "fromhost"}

IsState(s) == DOMAIN s = Fields /\ s = [f \in Fields |-> s[f]]

\* The state and the mode the functional simulator derives from it.
Core(s) == [state |-> s, rv64 |-> Is64(s.sr)]

\* t is a state in which code runs as wide as in s.
Keeps(s, t) == IsState(t) /\ Is64(t.sr) = Is64(s.sr)

(* An assignment leaves a state, and leaves STATUS unless it is to it.     *)
LEMMA PutState ==
  ASSUME NEW s, IsState(s), NEW f \in Fields, NEW v
  PROVE  /\ IsState(Put(s, f, v))
         /\ Put(s, f, v)[f] = v
         /\ f # "sr" => Put(s, f, v).sr = s.sr
  BY DEF IsState, Put, Fields

(* Assigning what is there changes nothing.                                *)
LEMMA PutBack ==
  ASSUME NEW s, IsState(s), NEW f \in Fields
  PROVE  Put(s, f, s[f]) = s
  BY DEF IsState, Put

LEMMA PutKeeps ==
  ASSUME NEW s, IsState(s), NEW f \in Fields, f # "sr", NEW v
  PROVE  Keeps(s, Put(s, f, v))
  BY PutState DEF Keeps

(* The pending lines of STATUS do not say how wide code runs.              *)
LEMMA LinesKeep ==
  ASSUME NEW s, IsState(s), NEW irq \in SR_IP, NEW on
  PROVE  Keeps(s, SetInterrupt(s, irq, on))
<1> DEFINE v == IF on THEN s.sr \union {irq} ELSE s.sr \ {irq}
<1>1. \A b \in {"S", "S64", "U64"} : b \in v <=> b \in s.sr
  BY DEF SR_IP
<1>2. Is64(v) = Is64(s.sr)
  BY <1>1 DEF Is64
<1>3. IsState(Put(s, "sr", v)) /\ Put(s, "sr", v).sr = v
  <2>1. "sr" \in Fields
    BY DEF Fields
  <2> QED
    BY <2>1, PutState
<1> QED
  BY <1>2, <1>3 DEF Keeps, SetInterrupt

LEMMA KeepsTwice ==
  ASSUME NEW s, NEW t, NEW u, Keeps(s, t), Keeps(t, u)
  PROVE  Keeps(s, u)
  BY DEF Keeps

LEMMA FieldsAreThese ==
  /\ "sr" \in Fields /\ "fflags" \in Fields /\ "frm" \in Fields /\ "epc" \in Fields
  /\ "badvaddr" \in Fields /\ "evec" \in Fields /\ "count" \in Fields
  /\ "compare" \in Fields /\ "cause" \in Fields /\ "pcr_k0" \in Fields
  /\ "tohost" \in Fields /\ "fromhost" \in Fields
  BY DEF Fields

-----------------------------------------------------------------------------
(* Control registers.                                                      *)

(* What processor_t::set_pcr assigns, case by case of its switch.          *)
LEMMA Assigns ==
  ASSUME NEW s, NEW val
  PROVE  /\ WithPcr(s, "FFLAGS", val) = Put(s, "fflags", val)
         /\ WithPcr(s, "FRM", val) = Put(s, "frm", val)
         /\ WithPcr(s, "FCSR", val) = PutFcsr(s, val)
         /\ WithPcr(s, "STATUS", val) = SetStatus(s, val)
         /\ WithPcr(s, "EPC", val) = Put(s, "epc", val)
         /\ WithPcr(s, "EVEC", val) = Put(s, "evec", Aligned(val))
         /\ WithPcr(s, "COUNT", val) = Put(s, "count", val)
         /\ WithPcr(s, "COUNTH", val) = Put(s, "count", WithUpper(s.count, val))
         /\ WithPcr(s, "COMPARE", val) = SetCompare(s, val)
         /\ WithPcr(s, "SEND_IPI", val) = SendIpi(s, val)
         /\ WithPcr(s, "CLEAR_IPI", val) = ClearIpi(s, val)
         /\ WithPcr(s, "SUP0", val) = Put(s, "pcr_k0", val)
         /\ WithPcr(s, "TOHOST", val) = SetTohost(s, val)
         /\ WithPcr(s, "FROMHOST", val) = SetFromhost(s, val)
         /\ WithPcr(s, "BADVADDR", val) = s
         /\ WithPcr(s, "CAUSE", val) = s
         /\ WithPcr(s, "CYCLE", val) = s
<1> DEFINE Stored == {"FFLAGS", "FRM", "EPC", "COUNT", "SUP0"}
<1>1. DOMAIN Plain = Stored
  BY DEF Plain
<1>2. \A which \in Stored : WithPcr(s, which, val) = Put(s, Plain[which], val)
  BY <1>1, Zenon DEF WithPcr
<1>3. /\ Plain["FFLAGS"] = "fflags" /\ Plain["FRM"] = "frm"
      /\ Plain["EPC"] = "epc" /\ Plain["COUNT"] = "count"
      /\ Plain["SUP0"] = "pcr_k0"
  BY DEF Plain
<1>4. /\ WithPcr(s, "FFLAGS", val) = Put(s, "fflags", val)
      /\ WithPcr(s, "FRM", val) = Put(s, "frm", val)
      /\ WithPcr(s, "EPC", val) = Put(s, "epc", val)
      /\ WithPcr(s, "COUNT", val) = Put(s, "count", val)
      /\ WithPcr(s, "SUP0", val) = Put(s, "pcr_k0", val)
  BY <1>2, <1>3
<1>5. WithPcr(s, "FCSR", val) = PutFcsr(s, val)
  BY <1>1, Zenon DEF WithPcr
<1>6. WithPcr(s, "STATUS", val) = SetStatus(s, val)
  BY <1>1, Zenon DEF WithPcr
<1>7. WithPcr(s, "EVEC", val) = Put(s, "evec", Aligned(val))
  BY <1>1, Zenon DEF WithPcr
<1>8. WithPcr(s, "COUNTH", val) = Put(s, "count", WithUpper(s.count, val))
  BY <1>1, Zenon DEF WithPcr
<1>9. WithPcr(s, "COMPARE", val) = SetCompare(s, val)
  BY <1>1, Zenon DEF WithPcr
<1>10. WithPcr(s, "SEND_IPI", val) = SendIpi(s, val)
  BY <1>1, Zenon DEF WithPcr
<1>11. WithPcr(s, "CLEAR_IPI", val) = ClearIpi(s, val)
  BY <1>1, Zenon DEF WithPcr
<1>12. WithPcr(s, "TOHOST", val) = SetTohost(s, val)
  BY <1>1, Zenon DEF WithPcr
<1>13. WithPcr(s, "FROMHOST", val) = SetFromhost(s, val)
  BY <1>1, Zenon DEF WithPcr
<1>14. WithPcr(s, "BADVADDR", val) = s
  BY <1>1, Zenon DEF WithPcr
<1>15. WithPcr(s, "CAUSE", val) = s
  BY <1>1, Zenon DEF WithPcr
<1>16. WithPcr(s, "CYCLE", val) = s
  BY <1>1, Zenon DEF WithPcr
<1> QED
  BY <1>4, <1>5, <1>6, <1>7, <1>8, <1>9, <1>10, <1>11, <1>12,
     <1>13, <1>14, <1>15, <1>16

(* What the set_pcr of riscv_dpi.cc assigns.                               *)
LEMMA DpiAssigns ==
  ASSUME NEW s, NEW val
  PROVE  /\ DpiSetPcr(s, "FFLAGS", val) = Put(s, "fflags", val)
         /\ DpiSetPcr(s, "FRM", val) = Put(s, "frm", val)
         /\ DpiSetPcr(s, "FCSR", val) = PutFcsr(s, val)
         /\ DpiSetPcr(s, "STATUS", val) = DpiStatus(s, val)
         /\ DpiSetPcr(s, "EPC", val) = Put(s, "epc", val)
         /\ DpiSetPcr(s, "EVEC", val) = Put(s, "evec", Aligned(val))
         /\ DpiSetPcr(s, "COUNT", val) = Put(s, "count", val)
         /\ DpiSetPcr(s, "COUNTH", val) = Put(s, "count", WithUpper(s.count, val))
         /\ DpiSetPcr(s, "COMPARE", val) = DpiCompare(s, val)
         /\ DpiSetPcr(s, "SEND_IPI", val) = SendIpi(s, val)
         /\ DpiSetPcr(s, "CLEAR_IPI", val) = DpiClearIpi(s, val)
         /\ DpiSetPcr(s, "SUP0", val) = Put(s, "pcr_k0", val)
         /\ DpiSetPcr(s, "TOHOST", val) = DpiTohost(s, val)
         /\ DpiSetPcr(s, "FROMHOST", val) = DpiFromhost(s, val)
         /\ DpiSetPcr(s, "BADVADDR", val) = Put(s, "badvaddr", val)
         /\ DpiSetPcr(s, "CAUSE", val) = Put(s, "cause", val)
         /\ DpiSetPcr(s, "CYCLE", val) = s
<1> DEFINE Stored == {"FFLAGS", "FRM", "EPC", "COUNT", "SUP0", "BADVADDR", "CAUSE"}
<1>1. DOMAIN DpiPlain = Stored
  BY DEF DpiPlain
<1>2. \A which \in Stored : DpiSetPcr(s, which, val) = Put(s, DpiPlain[which], val)
  BY <1>1, Zenon DEF DpiSetPcr
<1>3. /\ DpiPlain["FFLAGS"] = "fflags" /\ DpiPlain["FRM"] = "frm"
      /\ DpiPlain["EPC"] = "epc" /\ DpiPlain["COUNT"] = "count"
      /\ DpiPlain["SUP0"] = "pcr_k0" /\ DpiPlain["BADVADDR"] = "badvaddr"
      /\ DpiPlain["CAUSE"] = "cause"
  BY DEF DpiPlain
<1>4. /\ DpiSetPcr(s, "FFLAGS", val) = Put(s, "fflags", val)
      /\ DpiSetPcr(s, "FRM", val) = Put(s, "frm", val)
      /\ DpiSetPcr(s, "EPC", val) = Put(s, "epc", val)
      /\ DpiSetPcr(s, "COUNT", val) = Put(s, "count", val)
      /\ DpiSetPcr(s, "SUP0", val) = Put(s, "pcr_k0", val)
      /\ DpiSetPcr(s, "BADVADDR", val) = Put(s, "badvaddr", val)
      /\ DpiSetPcr(s, "CAUSE", val) = Put(s, "cause", val)
  BY <1>2, <1>3
<1>5. DpiSetPcr(s, "FCSR", val) = PutFcsr(s, val)
  BY <1>1, Zenon DEF DpiSetPcr
<1>6. DpiSetPcr(s, "STATUS", val) = DpiStatus(s, val)
  BY <1>1, Zenon DEF DpiSetPcr
<1>7. DpiSetPcr(s, "EVEC", val) = Put(s, "evec", Aligned(val))
  BY <1>1, Zenon DEF DpiSetPcr
<1>8. DpiSetPcr(s, "COUNTH", val) = Put(s, "count", WithUpper(s.count, val))
  BY <1>1, Zenon DEF DpiSetPcr
<1>9. DpiSetPcr(s, "COMPARE", val) = DpiCompare(s, val)
  BY <1>1, Zenon DEF DpiSetPcr
<1>10. DpiSetPcr(s, "SEND_IPI", val) = SendIpi(s, val)
  BY <1>1, Zenon DEF DpiSetPcr
<1>11. DpiSetPcr(s, "CLEAR_IPI", val) = DpiClearIpi(s, val)
  BY <1>1, Zenon DEF DpiSetPcr
<1>12. DpiSetPcr(s, "TOHOST", val) = DpiTohost(s, val)
  BY <1>1, Zenon DEF DpiSetPcr
<1>13. DpiSetPcr(s, "FROMHOST", val) = DpiFromhost(s, val)
  BY <1>1, Zenon DEF DpiSetPcr
<1>14. DpiSetPcr(s, "CYCLE", val) = s
  BY <1>1, Zenon DEF DpiSetPcr
<1> QED
  BY <1>4, <1>5, <1>6, <1>7, <1>8, <1>9, <1>10, <1>11, <1>12,
     <1>13, <1>14

(* The assignments that riscv_dpi.cc has code of its own for.              *)
LEMMA SameInterrupt ==
  ASSUME NEW s, NEW irq, NEW on
  PROVE  DpiInterrupt(s, irq, on) = SetInterrupt(s, irq, on)
  BY DEF DpiInterrupt, SetInterrupt

LEMMA SameStatus ==
  ASSUME NEW s, NEW val
  PROVE  DpiStatus(s, val) = SetStatus(s, val)
  BY DEF DpiStatus, SetStatus

LEMMA SameTohost ==
  ASSUME NEW s, NEW val
  PROVE  DpiTohost(s, val) = SetTohost(s, val)
  BY DEF DpiTohost, SetTohost

LEMMA SameFromhost ==
  ASSUME NEW s, NEW val
  PROVE  DpiFromhost(s, val) = SetFromhost(s, val)
  BY SameInterrupt, Zenon DEF DpiFromhost, SetFromhost

LEMMA SameCompare ==
  ASSUME NEW s, NEW val
  PROVE  DpiCompare(s, val) = SetCompare(s, val)
  BY SameInterrupt, Zenon DEF DpiCompare, SetCompare

LEMMA SameClearIpi ==
  ASSUME NEW s, NEW val
  PROVE  DpiClearIpi(s, val) = ClearIpi(s, val)
  BY SameInterrupt, Zenon DEF DpiClearIpi, ClearIpi

(* Every register a program may write is written alike on both sides.      *)
LEMMA WritesAgree ==
  ASSUME NEW s, NEW which \in Csr \ {"BADVADDR", "CAUSE"}, NEW val
  PROVE  DpiSetPcr(s, which, val) = WithPcr(s, which, val)
<1>1. CASE which = "STATUS"
  BY <1>1, Assigns, DpiAssigns, SameStatus
<1>2. CASE which = "COMPARE"
  BY <1>2, Assigns, DpiAssigns, SameCompare
<1>3. CASE which = "CLEAR_IPI"
  BY <1>3, Assigns, DpiAssigns, SameClearIpi
<1>4. CASE which = "TOHOST"
  BY <1>4, Assigns, DpiAssigns, SameTohost
<1>5. CASE which = "FROMHOST"
  BY <1>5, Assigns, DpiAssigns, SameFromhost
<1>6. CASE which \in FpCsr
  BY <1>6, Assigns, DpiAssigns DEF FpCsr
<1>7. CASE which \in {"EPC", "EVEC", "COUNT", "COUNTH", "CYCLE", "SEND_IPI", "SUP0"}
  BY <1>7, Assigns, DpiAssigns
<1> QED
  BY <1>1, <1>2, <1>3, <1>4, <1>5, <1>6, <1>7 DEF Csr

(* Every register reads alike.                                             *)
LEMMA ReadsAgree ==
  ASSUME NEW s, NEW which
  PROVE  DpiGetPcr(s, which) = GetPcr(s, which)
  BY DEF DpiGetPcr, GetPcr

(* A line and another field: what COMPARE and FROMHOST change.             *)
LEMMA LineAndFieldKeep ==
  ASSUME NEW s, IsState(s), NEW irq \in SR_IP, NEW on,
         NEW f \in Fields, f # "sr", NEW v
  PROVE  Keeps(s, Put(SetInterrupt(s, irq, on), f, v))
<1> DEFINE q == SetInterrupt(s, irq, on)
<1>1. Keeps(s, q)
  BY LinesKeep
<1> HIDE DEF q
<1>2. Keeps(q, Put(q, f, v))
  BY <1>1, PutKeeps DEF Keeps
<1>3. Keeps(s, Put(q, f, v))
  BY <1>1, <1>2, KeepsTwice
<1> QED
  BY <1>3 DEF q

LEMMA FromhostKeeps ==
  ASSUME NEW s, IsState(s), NEW val
  PROVE  Keeps(s, SetFromhost(s, val))
  BY LineAndFieldKeep, FieldsAreThese DEF SetFromhost, SR_IP

LEMMA CompareKeeps ==
  ASSUME NEW s, IsState(s), NEW val
  PROVE  Keeps(s, SetCompare(s, val))
  BY LineAndFieldKeep, FieldsAreThese DEF SetCompare, SR_IP

(* No register but STATUS says how wide code runs.                         *)
LEMMA WithPcrState ==
  ASSUME NEW s, IsState(s), NEW which \in Csr, NEW val
  PROVE  /\ IsState(WithPcr(s, which, val))
         /\ which # "STATUS" => Keeps(s, WithPcr(s, which, val))
<1> USE FieldsAreThese
<1>1. Keeps(s, s)
  BY DEF Keeps
<1>2. \A f \in Fields \ {"sr"} : \A v : Keeps(s, Put(s, f, v))
  BY PutKeeps
<1>3. \A irq \in SR_IP : \A on : Keeps(s, SetInterrupt(s, irq, on))
  BY LinesKeep
<1>4. "TIMER" \in SR_IP /\ "IPI" \in SR_IP /\ "HOST" \in SR_IP
  BY DEF SR_IP
<1>5. CASE which = "STATUS"
  <2>1. IsState(SetStatus(s, val))
    BY PutState DEF SetStatus
  <2> QED
    BY <1>5, <2>1, Assigns
<1>6. CASE which = "FCSR"
  <2>1. Keeps(s, Put(s, "fflags", val.fflags))
    BY <1>2
  <2>2. Keeps(Put(s, "fflags", val.fflags), PutFcsr(s, val))
    BY <2>1, PutKeeps DEF Keeps, PutFcsr
  <2> QED
    BY <1>6, <2>1, <2>2, KeepsTwice, Assigns DEF Keeps
<1>7. CASE which = "COMPARE"
  <2>1. Keeps(s, SetCompare(s, val))
    BY CompareKeeps
  <2> QED
    BY <1>7, <2>1, Assigns DEF Keeps
<1>8. CASE which = "SEND_IPI"
  <2>1. Keeps(s, SendIpi(s, val))
    BY <1>1, <1>3, <1>4, Zenon DEF SendIpi
  <2> QED
    BY <1>8, <2>1, Assigns DEF Keeps
<1>9. CASE which = "CLEAR_IPI"
  <2>1. Keeps(s, ClearIpi(s, val))
    BY <1>4, LinesKeep, Zenon DEF ClearIpi
  <2> QED
    BY <1>9, <2>1, Assigns DEF Keeps
<1>10. CASE which = "TOHOST"
  BY <1>10, <1>1, <1>2, Assigns DEF Keeps, SetTohost
<1>11. CASE which = "FROMHOST"
  <2>1. Keeps(s, SetFromhost(s, val))
    BY FromhostKeeps
  <2> QED
    BY <1>11, <2>1, Assigns DEF Keeps
<1>12. CASE which \in {"FFLAGS", "FRM", "EPC", "EVEC", "COUNT", "COUNTH", "SUP0"}
  BY <1>12, <1>2, Assigns DEF Keeps
<1>13. CASE which \in {"BADVADDR", "CAUSE", "CYCLE"}
  BY <1>13, <1>1, Assigns DEF Keeps
<1> QED
  BY <1>5, <1>6, <1>7, <1>8, <1>9, <1>10, <1>11, <1>12, <1>13 DEF Csr, FpCsr

(* rv64 stays what STATUS says.                                            *)
LEMMA SetPcrCore ==
  ASSUME NEW s, IsState(s), NEW which \in Csr, NEW val
  PROVE  SetPcr(Core(s), which, val) = Core(WithPcr(s, which, val))
<1>1. Core(s).state = s /\ Core(s).rv64 = Is64(s.sr)
  BY DEF Core
<1>2. CASE which = "STATUS"
  BY <1>1, <1>2 DEF SetPcr, Core
<1>3. CASE which # "STATUS"
  <2>1. Is64(WithPcr(s, which, val).sr) = Is64(s.sr)
    BY <1>3, WithPcrState DEF Keeps
  <2> QED
    BY <1>1, <1>3, <2>1 DEF SetPcr, Core
<1> QED
  BY <1>2, <1>3

-----------------------------------------------------------------------------
(* Instructions.                                                           *)

(* Whether an instruction traps, and why, is the same question.            *)
LEMMA ThrownAgrees ==
  ASSUME NEW s, NEW i
  PROVE  RtlThrown(s, i) = Thrown(Core(s).state.sr, Core(s).rv64, i)
<1>1. DpiGetPcr(s, "STATUS") = s.sr
  BY Zenon DEF DpiGetPcr
<1> QED
  BY <1>1, Zenon DEF RtlThrown, Core

(* The trap of the RTL leaves the state take_trap leaves.                  *)
LEMMA TrapsAgree ==
  ASSUME NEW s, IsState(s), NEW cause, NEW i
  PROVE  /\ IsState(RtlTrap(s, cause, i))
         /\ TakeTrap(Core(s), cause, i) = Core(RtlTrap(s, cause, i))
<1> DEFINE t == SetStatus(s, TrapStatus(s.sr))
           u == Put(Put(t, "cause", cause), "epc", i.pc)
           r == IF i.op = "load" THEN Put(u, "badvaddr", i.addr) ELSE u
<1>1. DpiGetPcr(s, "STATUS") = s.sr
  BY Zenon DEF DpiGetPcr
<1>2. IsState(t)
  BY PutState, FieldsAreThese DEF SetStatus
<1>3. Keeps(t, u)
  <2>1. Keeps(t, Put(t, "cause", cause))
    BY <1>2, PutKeeps, FieldsAreThese
  <2>2. Keeps(Put(t, "cause", cause), u)
    BY <2>1, PutKeeps, FieldsAreThese DEF Keeps
  <2> QED
    BY <2>1, <2>2, KeepsTwice
<1>4. Keeps(t, r)
  <2>1. Keeps(u, Put(u, "badvaddr", i.addr))
    BY <1>3, PutKeeps, FieldsAreThese DEF Keeps
  <2> QED
    BY <1>3, <2>1, KeepsTwice
<1>5. RtlTrap(s, cause, i) = r
  <2>1. DpiSetPcr(s, "STATUS", TrapStatus(DpiGetPcr(s, "STATUS"))) = t
    BY <1>1, DpiAssigns, SameStatus
  <2>2. DpiSetPcr(t, "CAUSE", cause) = Put(t, "cause", cause)
    BY DpiAssigns
  <2>3. DpiSetPcr(Put(t, "cause", cause), "EPC", i.pc) = u
    BY DpiAssigns
  <2>4. DpiSetPcr(u, "BADVADDR", i.addr) = Put(u, "badvaddr", i.addr)
    BY DpiAssigns
  <2> HIDE DEF t, u
  <2> QED
    BY <2>1, <2>2, <2>3, <2>4 DEF RtlTrap, u
<1>6. SetPcr(Core(s), "STATUS", TrapStatus(Core(s).state.sr)) = Core(t)
  <2>1. Core(s).state = s
    BY DEF Core
  <2>2. WithPcr(s, "STATUS", TrapStatus(s.sr)) = t
    BY Assigns
  <2>3. "STATUS" \in Csr
    BY DEF Csr
  <2> QED
    BY <2>1, <2>2, <2>3, SetPcrCore
<1>7. TakeTrap(Core(s), cause, i) = [Core(t) EXCEPT !.state = r]
  <2>1. Core(t).state = t
    BY DEF Core
  <2> HIDE DEF t
  <2> QED
    BY <1>6, <2>1 DEF TakeTrap
<1>8. [Core(t) EXCEPT !.state = r] = Core(r)
  <2> HIDE DEF t, r
  <2> QED
    BY <1>4 DEF Core, Keeps
<1> QED
  BY <1>4, <1>5, <1>7, <1>8 DEF Keeps

(* An instruction leaves a state, and rv64 what its STATUS says.            *)
LEMMA ExecutesCore ==
  ASSUME NEW s, IsState(s), NEW i \in Instruction
  PROVE  /\ IsState(Executes(Core(s), i).state)
         /\ Executes(Core(s), i) = Core(Executes(Core(s), i).state)
<1> DEFINE cause == Thrown(Core(s).state.sr, Core(s).rv64, i)
           p == Executes(Core(s), i)
<1>1. Core(s).state = s
  BY DEF Core
<1>2. \A t : Core(t).state = t
  BY DEF Core
<1> HIDE DEF cause
<1>3. CASE cause # NoTrap
  <2>1. p = TakeTrap(Core(s), cause, i)
    BY <1>3, Zenon DEF Executes, cause
  <2>2. p = Core(RtlTrap(s, cause, i)) /\ IsState(RtlTrap(s, cause, i))
    BY <2>1, TrapsAgree
  <2> HIDE DEF p
  <2> QED
    BY <1>2, <2>2 DEF p
<1>4. CASE cause = NoTrap /\ i.op \in CsrInsn
  <2> DEFINE v == Written(i, GetPcr(s, i.csr))
  <2>1. p = SetPcr(Core(s), i.csr, v)
    BY <1>1, <1>4, Zenon DEF Executes, cause, CsrInsn, CsrWrite
  <2>2. i.csr \in Csr
    BY <1>4, ProgramAssumption
  <2> HIDE DEF v
  <2>3. p = Core(WithPcr(s, i.csr, v)) /\ IsState(WithPcr(s, i.csr, v))
    BY <2>1, <2>2, SetPcrCore, WithPcrState
  <2> HIDE DEF p
  <2> QED
    BY <1>2, <2>3 DEF p
<1>5. CASE cause = NoTrap /\ i.op = "sret"
  <2> DEFINE v == SretStatus(s.sr)
  <2>1. p = SetPcr(Core(s), "STATUS", v)
    BY <1>1, <1>5, Zenon DEF Executes, cause, CsrInsn, CsrWrite
  <2>2. "STATUS" \in Csr
    BY DEF Csr
  <2> HIDE DEF v
  <2>3. p = Core(WithPcr(s, "STATUS", v)) /\ IsState(WithPcr(s, "STATUS", v))
    BY <2>1, <2>2, SetPcrCore, WithPcrState
  <2> HIDE DEF p
  <2> QED
    BY <1>2, <2>3 DEF p
<1>6. CASE cause = NoTrap /\ i.op = "fp"
  <2> DEFINE t == Put(s, "fflags", s.fflags \union i.flags)
  <2>1. p = [Core(s) EXCEPT !.state = t]
    BY <1>1, <1>6, Zenon DEF Executes, cause, CsrInsn, CsrWrite
  <2>2. Keeps(s, t)
    BY PutKeeps, FieldsAreThese
  <2> HIDE DEF t
  <2>3. [Core(s) EXCEPT !.state = t] = Core(t)
    BY <2>2 DEF Core, Keeps
  <2>4. p = Core(t) /\ IsState(t)
    BY <2>1, <2>2, <2>3 DEF Keeps
  <2> HIDE DEF p
  <2> QED
    BY <1>2, <2>4 DEF p
<1>7. CASE cause = NoTrap /\ i.op \notin CsrInsn \union {"sret", "fp"}
  <2>1. p = Core(s)
    BY <1>7, Zenon DEF Executes, cause
  <2> HIDE DEF p
  <2> QED
    BY <1>2, <2>1 DEF p
<1> QED
  BY <1>3, <1>4, <1>5, <1>6, <1>7

(* The timer.                                                              *)
LEMMA TimersAgree ==
  ASSUME NEW s, IsState(s)
  PROVE  RtlCounts(s) = UpdateTimer(s) /\ Keeps(s, UpdateTimer(s))
<1> DEFINE n == Put(s, "count", (s.count + 1) % (LowSize * HighSize))
           m == Put(n, "sr", n.sr \union {"TIMER"})
<1>1. DpiGetPcr(s, "COUNT") = s.count /\ DpiGetPcr(s, "COMPARE") = s.compare
  BY Zenon DEF DpiGetPcr
<1>2. DpiSetPcr(s, "COUNT", (s.count + 1) % (LowSize * HighSize)) = n
  BY DpiAssigns
<1>3. Keeps(s, n)
  BY PutKeeps, FieldsAreThese
<1>4. SetInterrupt(n, "TIMER", TRUE) = m
  BY DEF SetInterrupt
<1>5. Keeps(s, m)
  <2>1. Keeps(n, SetInterrupt(n, "TIMER", TRUE))
    BY <1>3, LinesKeep DEF Keeps, SR_IP
  <2> QED
    BY <1>3, <1>4, <2>1, KeepsTwice
<1>6. DpiInterrupt(n, "TIMER", TRUE) = m
  BY <1>4, SameInterrupt, Zenon
<1> HIDE DEF n, m
<1>7. RtlCounts(s) = IF (s.count % LowSize) + 1 = s.compare THEN m ELSE n
  BY <1>1, <1>2, <1>6, Zenon DEF RtlCounts
<1>8. UpdateTimer(s) = IF (s.count % LowSize) + 1 = s.compare THEN m ELSE n
  BY Zenon DEF UpdateTimer, n, m
<1> QED
  BY <1>3, <1>5, <1>7, <1>8

(* A packet of the host.                                                   *)
LEMMA PacketsAgree ==
  ASSUME NEW s, IsState(s), NEW p
  PROVE  DpiServes(s, p) = IsaServes(s, p) /\ Keeps(s, IsaServes(s, p))
<1>1. MicroFromhost(s, p.val) = SetFromhost(s, p.val)
  BY Zenon DEF MicroFromhost, SetFromhost, SetInterrupt
<1>2. Keeps(s, s)
  BY DEF Keeps
<1>3. Keeps(s, Put(s, "tohost", 0))
  BY PutKeeps, FieldsAreThese
<1>4. Keeps(s, SetFromhost(s, p.val))
  BY FromhostKeeps
<1> QED
  BY <1>1, <1>2, <1>3, <1>4 DEF DpiServes, IsaServes
-----------------------------------------------------------------------------
(* Two copies that differ in what is stray.                                *)

\* States d and s agree in all fields outside X.
Alike(d, s, X) ==
  /\ IsState(d) /\ IsState(s)
  /\ X \subseteq {"badvaddr", "cause"}
  /\ \A f \in Fields \ X : d[f] = s[f]

(* What is never stray.                                                    *)
LEMMA AlikeFields ==
  ASSUME NEW d, NEW s, NEW X, Alike(d, s, X)
  PROVE  /\ IsState(d) /\ IsState(s)
         /\ d.sr = s.sr /\ d.fflags = s.fflags /\ d.frm = s.frm /\ d.epc = s.epc
         /\ d.evec = s.evec /\ d.count = s.count /\ d.compare = s.compare
         /\ d.pcr_k0 = s.pcr_k0 /\ d.tohost = s.tohost /\ d.fromhost = s.fromhost
  BY DEF Alike, Fields

(* The same assignment on both sides: the field is not stray any more.     *)
LEMMA PutAlike ==
  ASSUME NEW d, NEW s, NEW X, Alike(d, s, X), NEW f \in Fields, NEW v
  PROVE  /\ Alike(Put(d, f, v), Put(s, f, v), X)
         /\ Alike(Put(d, f, v), Put(s, f, v), X \ {f})
  BY DEF Alike, IsState, Put

(* An assignment on one side.                                              *)
LEMMA StrayAlike ==
  ASSUME NEW d, NEW s, NEW X, Alike(d, s, X),
         NEW f \in {"badvaddr", "cause"}, NEW v
  PROVE  Alike(Put(d, f, v), s, X \union {f})
<1>1. f \in Fields
  BY DEF Fields
<1> QED
  BY <1>1 DEF Alike, IsState, Put

LEMMA InterruptAlike ==
  ASSUME NEW d, NEW s, NEW X, Alike(d, s, X), NEW irq, NEW on
  PROVE  Alike(SetInterrupt(d, irq, on), SetInterrupt(s, irq, on), X)
<1> DEFINE v == IF on THEN s.sr \union {irq} ELSE s.sr \ {irq}
<1>1. d.sr = s.sr
  BY AlikeFields
<1>2. SetInterrupt(d, irq, on) = Put(d, "sr", v)
  BY <1>1 DEF SetInterrupt
<1>3. SetInterrupt(s, irq, on) = Put(s, "sr", v)
  BY DEF SetInterrupt
<1> HIDE DEF v
<1>4. Alike(Put(d, "sr", v), Put(s, "sr", v), X)
  BY PutAlike, FieldsAreThese
<1> QED
  BY <1>2, <1>3, <1>4, Zenon

LEMMA StatusAlike ==
  ASSUME NEW d, NEW s, NEW X, Alike(d, s, X), NEW val
  PROVE  Alike(SetStatus(d, val), SetStatus(s, val), X)
<1>1. d.sr = s.sr
  BY AlikeFields
<1> QED
  BY <1>1, PutAlike, FieldsAreThese DEF SetStatus

LEMMA FromhostAlike ==
  ASSUME NEW d, NEW s, NEW X, Alike(d, s, X), NEW val
  PROVE  Alike(SetFromhost(d, val), SetFromhost(s, val), X)
<1>1. Alike(SetInterrupt(d, "HOST", val # 0), SetInterrupt(s, "HOST", val # 0), X)
  BY InterruptAlike
<1> QED
  BY <1>1, PutAlike, FieldsAreThese DEF SetFromhost

(* No register that a program writes takes its value from what is stray.   *)
LEMMA WritesAlike ==
  ASSUME NEW d, NEW s, NEW X, Alike(d, s, X), NEW which \in Csr, NEW val
  PROVE  Alike(WithPcr(d, which, val), WithPcr(s, which, val), X)
<1> USE FieldsAreThese
<1>1. \A f \in Fields : \A v : Alike(Put(d, f, v), Put(s, f, v), X)
  BY PutAlike
<1>2. CASE which = "STATUS"
  BY <1>2, Assigns, StatusAlike
<1>3. CASE which = "FCSR"
  <2>1. Alike(Put(d, "fflags", val.fflags), Put(s, "fflags", val.fflags), X)
    BY <1>1
  <2>2. Alike(PutFcsr(d, val), PutFcsr(s, val), X)
    BY <2>1, PutAlike DEF PutFcsr
  <2> QED
    BY <1>3, <2>2, Assigns
<1>4. CASE which = "COMPARE"
  <2>1. Alike(SetInterrupt(d, "TIMER", FALSE), SetInterrupt(s, "TIMER", FALSE), X)
    BY InterruptAlike
  <2>2. Alike(SetCompare(d, val), SetCompare(s, val), X)
    BY <2>1, PutAlike DEF SetCompare
  <2> QED
    BY <1>4, <2>2, Assigns
<1>5. CASE which = "SEND_IPI"
  <2>1. Alike(SendIpi(d, val), SendIpi(s, val), X)
    BY InterruptAlike, Zenon DEF SendIpi
  <2> QED
    BY <1>5, <2>1, Assigns
<1>6. CASE which = "CLEAR_IPI"
  <2>1. Alike(ClearIpi(d, val), ClearIpi(s, val), X)
    BY InterruptAlike, Zenon DEF ClearIpi
  <2> QED
    BY <1>6, <2>1, Assigns
<1>7. CASE which = "TOHOST"
  <2>1. d.tohost = s.tohost
    BY AlikeFields
  <2> QED
    BY <1>1, <1>7, <2>1, Assigns DEF SetTohost
<1>8. CASE which = "FROMHOST"
  BY <1>8, Assigns, FromhostAlike
<1>9. CASE which = "COUNTH"
  <2>1. d.count = s.count
    BY AlikeFields
  <2> QED
    BY <1>1, <1>9, <2>1, Assigns
<1>10. CASE which \in {"FFLAGS", "FRM", "EPC", "EVEC", "COUNT", "SUP0"}
  BY <1>1, <1>10, Assigns
<1>11. CASE which \in {"BADVADDR", "CAUSE", "CYCLE"}
  BY <1>11, Assigns
<1> QED
  BY <1>2, <1>3, <1>4, <1>5, <1>6, <1>7, <1>8, <1>9, <1>10, <1>11 DEF Csr, FpCsr

(* Only BADVADDR and CAUSE read what may be stray.                         *)
LEMMA ReadsAlike ==
  ASSUME NEW d, NEW s, NEW X, Alike(d, s, X), NEW which \in Csr
  PROVE  \/ GetPcr(d, which) = GetPcr(s, which)
         \/ which = "BADVADDR" /\ "badvaddr" \in X
         \/ which = "CAUSE" /\ "cause" \in X
<1>1. CASE which = "BADVADDR"
  <2>1. GetPcr(d, "BADVADDR") = d.badvaddr /\ GetPcr(s, "BADVADDR") = s.badvaddr
    BY DEF GetPcr
  <2> QED
    BY <1>1, <2>1, FieldsAreThese DEF Alike
<1>2. CASE which = "CAUSE"
  <2>1. GetPcr(d, "CAUSE") = d.cause /\ GetPcr(s, "CAUSE") = s.cause
    BY DEF GetPcr
  <2> QED
    BY <1>2, <2>1, FieldsAreThese DEF Alike
<1>3. CASE which \notin {"BADVADDR", "CAUSE"}
  BY <1>3, AlikeFields DEF GetPcr, Csr, FpCsr
<1> QED
  BY <1>1, <1>2, <1>3

LEMMA ThrownAlike ==
  ASSUME NEW d, NEW s, NEW X, Alike(d, s, X), NEW i
  PROVE  RtlThrown(d, i) = Thrown(Core(s).state.sr, Core(s).rv64, i)
<1>1. d.sr = s.sr
  BY AlikeFields
<1>2. DpiGetPcr(d, "STATUS") = d.sr
  BY Zenon DEF DpiGetPcr
<1>3. RtlThrown(d, i) = Thrown(s.sr, Is64(s.sr), i)
  BY <1>1, <1>2, Zenon DEF RtlThrown
<1> QED
  BY <1>3 DEF Core

(* The trap of the RTL leaves what take_trap leaves: CAUSE, and BADVADDR   *)
(* after a load, are right again.                                          *)
LEMMA TrapsAlike ==
  ASSUME NEW d, NEW s, NEW X, Alike(d, s, X), NEW cause, NEW i
  PROVE  Alike(RtlTrap(d, cause, i), RtlTrap(s, cause, i), X \ Trapped(i))
<1> USE FieldsAreThese
<1> DEFINE v == TrapStatus(s.sr)
           d1 == SetStatus(d, v)
           s1 == SetStatus(s, v)
           d2 == Put(d1, "cause", cause)
           s2 == Put(s1, "cause", cause)
           d3 == Put(d2, "epc", i.pc)
           s3 == Put(s2, "epc", i.pc)
           d4 == Put(d3, "badvaddr", i.addr)
           s4 == Put(s3, "badvaddr", i.addr)
           Y == X \ {"cause"}
<1>1. d.sr = s.sr
  BY AlikeFields
<1>2. Alike(d1, s1, X)
  BY StatusAlike
<1>3. Alike(d3, s3, Y)
  <2> HIDE DEF d1, s1
  <2>1. Alike(d2, s2, Y)
    BY <1>2, PutAlike
  <2> HIDE DEF d2, s2, Y
  <2> QED
    BY <2>1, PutAlike
<1>4. Alike(d4, s4, Y \ {"badvaddr"})
  <2> HIDE DEF d3, s3, Y
  <2> QED
    BY <1>3, PutAlike
<1>5. /\ RtlTrap(d, cause, i) = IF i.op = "load" THEN d4 ELSE d3
      /\ RtlTrap(s, cause, i) = IF i.op = "load" THEN s4 ELSE s3
  <2>1. DpiGetPcr(d, "STATUS") = s.sr /\ DpiGetPcr(s, "STATUS") = s.sr
    BY <1>1, Zenon DEF DpiGetPcr
  <2>2. DpiSetPcr(d, "STATUS", v) = d1 /\ DpiSetPcr(s, "STATUS", v) = s1
    BY DpiAssigns, SameStatus
  <2>3. DpiSetPcr(d1, "CAUSE", cause) = d2 /\ DpiSetPcr(s1, "CAUSE", cause) = s2
    BY DpiAssigns
  <2>4. DpiSetPcr(d2, "EPC", i.pc) = d3 /\ DpiSetPcr(s2, "EPC", i.pc) = s3
    BY DpiAssigns
  <2>5. /\ DpiSetPcr(d3, "BADVADDR", i.addr) = d4
        /\ DpiSetPcr(s3, "BADVADDR", i.addr) = s4
    BY DpiAssigns
  <2> HIDE DEF d1, s1, d2, s2, d3, s3, d4, s4
  <2> QED
    BY <2>1, <2>2, <2>3, <2>4, <2>5, Zenon DEF RtlTrap
<1> HIDE DEF d3, s3, d4, s4
<1>6. CASE i.op = "load"
  <2>1. X \ Trapped(i) = Y \ {"badvaddr"}
    BY <1>6 DEF Trapped, Bit
  <2> QED
    BY <1>4, <1>5, <1>6, <2>1
<1>7. CASE i.op # "load"
  <2>1. X \ Trapped(i) = Y
    BY <1>7 DEF Trapped, Bit
  <2> QED
    BY <1>3, <1>5, <1>7, <2>1
<1> QED
  BY <1>6, <1>7

(* A csr instruction that does not trap.                                   *)
LEMMA CsrAlike ==
  ASSUME NEW d, NEW s, Alike(d, s, stray), NEW i \in Instruction, i.op \in CsrInsn
  PROVE  Alike(DpiSetPcr(d, i.csr, Written(i, GetPcr(d, i.csr))),
               WithPcr(s, i.csr, Written(i, GetPcr(s, i.csr))),
               IF i.op \in CsrWrite THEN stray \union Unwritable(i) ELSE stray)
<1> DEFINE v == Written(i, GetPcr(d, i.csr))
           w == Written(i, GetPcr(s, i.csr))
<1>1. i.csr \in Csr
  BY ProgramAssumption
<1>2. IsState(d) /\ IsState(s)
  BY AlikeFields
<1>3. CASE i.csr \notin {"BADVADDR", "CAUSE"}
  <2>1. v = w
    BY <1>1, <1>3, ReadsAlike
  <2>2. DpiSetPcr(d, i.csr, v) = WithPcr(d, i.csr, v)
    BY <1>1, <1>3, WritesAgree
  <2>3. stray \union Unwritable(i) = stray
    BY <1>3 DEF Unwritable, Bit
  <2> HIDE DEF v, w
  <2>4. Alike(WithPcr(d, i.csr, v), WithPcr(s, i.csr, v), stray)
    BY <1>1, WritesAlike
  <2> QED
    BY <2>1, <2>2, <2>3, <2>4 DEF v, w
<1>4. ASSUME NEW f \in {"badvaddr", "cause"}, DpiSetPcr(d, i.csr, v) = Put(d, f, v),
             WithPcr(s, i.csr, w) = s, GetPcr(d, i.csr) = d[f],
             Unwritable(i) = {f}
      PROVE  Alike(DpiSetPcr(d, i.csr, v), WithPcr(s, i.csr, w),
                   IF i.op \in CsrWrite THEN stray \union Unwritable(i) ELSE stray)
  <2>1. CASE i.op \in CsrWrite
    <3> HIDE DEF v, w
    <3>1. Alike(Put(d, f, v), s, stray \union {f})
      BY StrayAlike
    <3> QED
      BY <1>4, <2>1, <3>1
  <2>2. CASE i.op \notin CsrWrite
    <3>1. i.op = "csrr"
      BY <2>2 DEF CsrInsn
    <3>2. v = d[f]
      BY <1>4, <3>1, Zenon DEF Written
    <3>3. f \in Fields
      BY DEF Fields
    <3>4. Put(d, f, v) = d
      BY <1>2, <3>2, <3>3, PutBack
    <3> HIDE DEF v, w
    <3> QED
      BY <1>4, <2>2, <3>4
  <2> QED
    BY <2>1, <2>2
<1>5. CASE i.csr = "BADVADDR"
  <2>1. GetPcr(d, "BADVADDR") = d.badvaddr
    BY DEF GetPcr
  <2>2. Unwritable(i) = {"badvaddr"}
    BY <1>5 DEF Unwritable, Bit
  <2>3. DpiSetPcr(d, i.csr, v) = Put(d, "badvaddr", v) /\ WithPcr(s, i.csr, w) = s
    <3> HIDE DEF v, w
    <3> QED
      BY <1>5, Assigns, DpiAssigns
  <2> HIDE DEF v, w
  <2> QED
    BY <1>4, <1>5, <2>1, <2>2, <2>3 DEF v, w
<1>6. CASE i.csr = "CAUSE"
  <2>1. GetPcr(d, "CAUSE") = d.cause
    BY DEF GetPcr
  <2>2. Unwritable(i) = {"cause"}
    BY <1>6 DEF Unwritable, Bit
  <2>3. DpiSetPcr(d, i.csr, v) = Put(d, "cause", v) /\ WithPcr(s, i.csr, w) = s
    <3> HIDE DEF v, w
    <3> QED
      BY <1>6, Assigns, DpiAssigns
  <2> HIDE DEF v, w
  <2> QED
    BY <1>4, <1>6, <2>1, <2>2, <2>3 DEF v, w
<1> QED
  BY <1>3, <1>5, <1>6

(* The RTL executes an instruction as the functional simulator does, up to *)
(* what is stray then.                                                     *)
LEMMA ExecutesAlike ==
  ASSUME NEW d, NEW s, Alike(d, s, stray), NEW i \in Instruction
  PROVE  Alike(RtlExecutes(d, i), Executes(Core(s), i).state, Strays(d, i))
<1> DEFINE cause == Thrown(Core(s).state.sr, Core(s).rv64, i)
           p == Executes(Core(s), i)
<1>1. Core(s).state = s /\ IsState(s) /\ IsState(d)
  BY AlikeFields DEF Core
<1>2. RtlThrown(d, i) = cause
  BY ThrownAlike
<1>3. \A t : Core(t).state = t
  BY DEF Core
<1> HIDE DEF cause
<1>4. CASE cause # NoTrap
  <2>1. p = TakeTrap(Core(s), cause, i)
    BY <1>4, Zenon DEF Executes, cause
  <2>2. p = Core(RtlTrap(s, cause, i))
    BY <1>1, <2>1, TrapsAgree
  <2>3. RtlExecutes(d, i) = RtlTrap(d, cause, i)
    BY <1>2, <1>4, Zenon DEF RtlExecutes
  <2>4. Strays(d, i) = stray \ Trapped(i)
    BY <1>2, <1>4 DEF Strays
  <2> HIDE DEF p
  <2> QED
    BY <1>3, <2>2, <2>3, <2>4, TrapsAlike DEF p
<1>5. CASE cause = NoTrap /\ i.op \in CsrInsn
  <2> DEFINE v == Written(i, GetPcr(d, i.csr))
             w == Written(i, GetPcr(s, i.csr))
  <2>1. p = SetPcr(Core(s), i.csr, w)
    BY <1>1, <1>5, Zenon DEF Executes, cause, CsrInsn, CsrWrite
  <2>2. DpiGetPcr(d, i.csr) = GetPcr(d, i.csr)
    BY ReadsAgree
  <2>3. RtlExecutes(d, i) = DpiSetPcr(d, i.csr, v)
    BY <1>2, <1>5, <2>2, Zenon DEF RtlExecutes, CsrInsn, CsrWrite
  <2>4. i.csr \in Csr
    BY <1>5, ProgramAssumption
  <2>5. Strays(d, i) = IF i.op \in CsrWrite THEN stray \union Unwritable(i) ELSE stray
    BY <1>2, <1>5, Zenon DEF Strays
  <2>6. Alike(DpiSetPcr(d, i.csr, v), WithPcr(s, i.csr, w), Strays(d, i))
    BY <1>5, <2>5, CsrAlike
  <2> HIDE DEF v, w
  <2>7. p = Core(WithPcr(s, i.csr, w))
    BY <1>1, <2>1, <2>4, SetPcrCore
  <2> HIDE DEF p
  <2> QED
    BY <1>3, <2>3, <2>6, <2>7 DEF p
<1>6. CASE cause = NoTrap /\ i.op = "sret"
  <2> DEFINE v == SretStatus(s.sr)
  <2>1. p = SetPcr(Core(s), "STATUS", v)
    BY <1>1, <1>6, Zenon DEF Executes, cause, CsrInsn, CsrWrite
  <2>2. DpiGetPcr(d, "STATUS") = s.sr
    <3>1. DpiGetPcr(d, "STATUS") = d.sr
      BY Zenon DEF DpiGetPcr
    <3> QED
      BY <3>1, AlikeFields
  <2>3. RtlExecutes(d, i) = DpiSetPcr(d, "STATUS", v)
    BY <1>2, <1>6, <2>2, Zenon DEF RtlExecutes, CsrInsn, CsrWrite
  <2>4. "STATUS" \in Csr /\ "STATUS" \in Csr \ {"BADVADDR", "CAUSE"}
    BY DEF Csr
  <2>5. Strays(d, i) = stray
    BY <1>2, <1>6 DEF Strays, CsrWrite
  <2> HIDE DEF v
  <2>6. p = Core(WithPcr(s, "STATUS", v))
    BY <1>1, <2>1, <2>4, SetPcrCore
  <2>7. DpiSetPcr(d, "STATUS", v) = WithPcr(d, "STATUS", v)
    BY <2>4, WritesAgree
  <2>8. Alike(WithPcr(d, "STATUS", v), WithPcr(s, "STATUS", v), stray)
    BY <2>4, WritesAlike
  <2> HIDE DEF p
  <2> QED
    BY <1>3, <2>3, <2>5, <2>6, <2>7, <2>8 DEF p
<1>7. CASE cause = NoTrap /\ i.op = "fp"
  <2> DEFINE v == s.fflags \union i.flags
  <2>1. p = [Core(s) EXCEPT !.state = Put(s, "fflags", v)]
    BY <1>1, <1>7, Zenon DEF Executes, cause, CsrInsn, CsrWrite
  <2>2. DpiGetPcr(d, "FFLAGS") = s.fflags
    <3>1. DpiGetPcr(d, "FFLAGS") = d.fflags
      BY Zenon DEF DpiGetPcr
    <3> QED
      BY <3>1, AlikeFields
  <2>3. DpiSetPcr(d, "FFLAGS", v) = Put(d, "fflags", v)
    BY DpiAssigns
  <2>4. RtlExecutes(d, i) = Put(d, "fflags", v)
    BY <1>2, <1>7, <2>2, <2>3, Zenon DEF RtlExecutes, CsrInsn, CsrWrite
  <2>5. Strays(d, i) = stray
    BY <1>2, <1>7 DEF Strays, CsrWrite
  <2> HIDE DEF v
  <2>6. p.state = Put(s, "fflags", v)
    BY <2>1 DEF Core
  <2>7. Alike(Put(d, "fflags", v), Put(s, "fflags", v), stray)
    BY PutAlike, FieldsAreThese
  <2> QED
    BY <2>4, <2>5, <2>6, <2>7
<1>8. CASE cause = NoTrap /\ i.op \notin CsrInsn \union {"sret", "fp"}
  <2>1. p = Core(s)
    BY <1>8, Zenon DEF Executes, cause
  <2>2. RtlExecutes(d, i) = d
    BY <1>2, <1>8, Zenon DEF RtlExecutes
  <2>3. Strays(d, i) = stray
    BY <1>2, <1>8 DEF Strays, CsrInsn
  <2> HIDE DEF p
  <2> QED
    BY <1>3, <2>1, <2>2, <2>3 DEF p
<1> QED
  BY <1>4, <1>5, <1>6, <1>7, <1>8

(* What an instruction reads is the destination pushed for it, unless it   *)
(* reads what is stray.                                                    *)
LEMMA DestinationsAlike ==
  ASSUME NEW d, NEW s, Alike(d, s, stray), NEW i \in Instruction
  PROVE  \/ RtlDestination(d, i) = Destination(Core(s), i)
         \/ stray \intersect Unwritable(i) # {}
<1>1. Core(s).state = s
  BY DEF Core
<1>2. RtlThrown(d, i) = Thrown(Core(s).state.sr, Core(s).rv64, i)
  BY ThrownAlike
<1>3. CASE i.op \in CsrInsn
  <2>1. i.csr \in Csr
    BY <1>3, ProgramAssumption
  <2>2. DpiGetPcr(d, i.csr) = GetPcr(d, i.csr)
    BY ReadsAgree
  <2>3. \/ GetPcr(d, i.csr) = GetPcr(s, i.csr)
        \/ i.csr = "BADVADDR" /\ "badvaddr" \in stray
        \/ i.csr = "CAUSE" /\ "cause" \in stray
    BY <2>1, ReadsAlike
  <2>4. CASE GetPcr(d, i.csr) = GetPcr(s, i.csr)
    BY <1>1, <1>2, <2>2, <2>4, Zenon DEF RtlDestination, Destination
  <2>5. CASE i.csr = "BADVADDR" /\ "badvaddr" \in stray
    BY <1>3, <2>5 DEF Unwritable, Bit
  <2>6. CASE i.csr = "CAUSE" /\ "cause" \in stray
    BY <1>3, <2>6 DEF Unwritable, Bit
  <2> QED
    BY <2>3, <2>4, <2>5, <2>6
<1>4. CASE i.op \notin CsrInsn
  BY <1>4, Zenon DEF RtlDestination, Destination
<1> QED
  BY <1>3, <1>4

LEMMA SameStateIfAlike ==
  ASSUME NEW d, NEW s, NEW X, Alike(d, s, X)
  PROVE  SameState(d, s) \/ "badvaddr" \in X
<1>1. "badvaddr" \notin X => d.badvaddr = s.badvaddr
  BY FieldsAreThese DEF Alike
<1> QED
  BY <1>1, AlikeFields DEF SameState

(* The count after an instruction.                                         *)
LEMMA TimersAlike ==
  ASSUME NEW d, NEW s, NEW X, Alike(d, s, X)
  PROVE  Alike(RtlCounts(d), UpdateTimer(s), X)
<1> DEFINE c == (s.count + 1) % (LowSize * HighSize)
           e == Put(d, "count", c)
           t == Put(s, "count", c)
<1>1. d.count = s.count /\ d.compare = s.compare /\ IsState(d)
  BY AlikeFields
<1>2. Alike(e, t, X)
  BY PutAlike, FieldsAreThese
<1>3. /\ UpdateTimer(d) = IF (s.count % LowSize) + 1 = s.compare
                          THEN SetInterrupt(e, "TIMER", TRUE) ELSE e
      /\ UpdateTimer(s) = IF (s.count % LowSize) + 1 = s.compare
                          THEN SetInterrupt(t, "TIMER", TRUE) ELSE t
  BY <1>1 DEF UpdateTimer, SetInterrupt
<1> HIDE DEF e, t
<1>4. Alike(UpdateTimer(d), UpdateTimer(s), X)
  BY <1>2, <1>3, InterruptAlike
<1> QED
  BY <1>1, <1>4, TimersAgree

(* A packet of the host.                                                   *)
LEMMA PacketsAlike ==
  ASSUME NEW d, NEW s, NEW X, Alike(d, s, X), NEW p
  PROVE  Alike(DpiServes(d, p), IsaServes(s, p), X)
<1>1. d.fromhost = s.fromhost /\ IsState(d)
  BY AlikeFields
<1>2. DpiServes(d, p) = IsaServes(d, p)
  BY <1>1, PacketsAgree
<1>3. Alike(Put(d, "tohost", 0), Put(s, "tohost", 0), X)
  BY PutAlike, FieldsAreThese
<1>4. Alike(SetFromhost(d, p.val), SetFromhost(s, p.val), X)
  BY FromhostAlike
<1> QED
  BY <1>1, <1>2, <1>3, <1>4 DEF IsaServes

-----------------------------------------------------------------------------
(* Sequences of anything.                                                  *)

Elements(q) == {q[k] : k \in DOMAIN q}
IsSeq(q) == q \in Seq(Elements(q))

LEMMA SeqOfElements ==
  ASSUME NEW S, NEW q \in Seq(S)
  PROVE  /\ IsSeq(q)
         /\ \A T : Elements(q) \subseteq T => q \in Seq(T)
<1>1. PICK n \in Nat : q \in [1 .. n -> S]
  BY SeqDef
<1>2. \A T : Elements(q) \subseteq T => q \in [1 .. n -> T]
  BY <1>1 DEF Elements
<1>3. \A T : Elements(q) \subseteq T => q \in Seq(T)
  BY <1>2, SeqDef
<1> QED
  BY <1>3 DEF IsSeq

LEMMA Appended ==
  ASSUME NEW q, IsSeq(q), NEW x
  PROVE  /\ IsSeq(Append(q, x))
         /\ Len(Append(q, x)) = Len(q) + 1
         /\ \A k \in 1 .. Len(q) : Append(q, x)[k] = q[k]
         /\ Append(q, x)[Len(q) + 1] = x
<1> DEFINE S == Elements(q) \union {x}
<1>1. q \in Seq(S)
  BY SeqOfElements DEF IsSeq
<1>2. x \in S
  OBVIOUS
<1> HIDE DEF S
<1>3. /\ Append(q, x) \in Seq(S)
      /\ Len(Append(q, x)) = Len(q) + 1
      /\ \A k \in 1 .. Len(q) : Append(q, x)[k] = q[k]
      /\ Append(q, x)[Len(q) + 1] = x
  BY <1>1, <1>2, AppendProperties
<1>4. IsSeq(Append(q, x))
  BY <1>3, SeqOfElements, Zenon
<1> QED
  BY <1>3, <1>4

LEMMA Shifted ==
  ASSUME NEW q, IsSeq(q), q # <<>>
  PROVE  /\ IsSeq(Tail(q))
         /\ Len(q) \in Nat \ {0}
         /\ Head(q) = q[1]
         /\ Len(Tail(q)) = Len(q) - 1
         /\ \A k \in 1 .. Len(Tail(q)) : Tail(q)[k] = q[k + 1]
<1> DEFINE S == Elements(q)
<1>1. q \in Seq(S)
  BY DEF IsSeq
<1> HIDE DEF S
<1>2. Len(q) \in Nat \ {0}
  BY <1>1, EmptySeq, LenProperties
<1>3. Head(q) = q[1]
  BY <1>1, <1>2
<1> QED
  BY <1>1, <1>2, <1>3, HeadTailProperties, SeqOfElements

-----------------------------------------------------------------------------
(* The invariant.                                                          *)

\* Element e of buffer is what the functional simulator did between the two
\* states: an instruction with what it pushed for it, or a tick.
Explains(before, e, after) ==
  \/ /\ IsTick(e)
     /\ after = IsaServes(before, e.packet)
  \/ /\ ~IsTick(e)
     /\ e.insn \in Instruction
     /\ e.rdst = Destination(Core(before), e.insn)
     /\ e.a_state = Executes(Core(before), e.insn).state
     /\ after = UpdateTimer(e.a_state)

HistoryInv ==
  /\ IsSeq(buffer) /\ IsSeq(states)
  /\ Len(states) = Len(buffer) + 1
  /\ \A k \in 1 .. Len(states) : IsState(states[k])
  /\ \A k \in 1 .. Len(buffer) : Explains(states[k], buffer[k], states[k + 1])

IInv ==
  /\ HistoryInv
  /\ isa = Core(states[Len(states)])
  /\ Alike(dpi, states[1], stray)
  /\ ChecksPass

LEMMA StartsRight == Init => IInv
<1> SUFFICES ASSUME Init PROVE IInv
  OBVIOUS
<1>1. IsState(Reset)
  BY DEF IsState, Reset, Fields
<1>2. isa = Core(Reset)
  <2>1. Is64(Reset.sr) = TRUE
    BY DEF Is64, Reset
  <2> QED
    BY <2>1 DEF Init, Core
<1>3. states = <<Reset>> /\ buffer = <<>> /\ dpi = Reset /\ stray = {}
  BY DEF Init
<1> HIDE DEF Init
<1>4. Len(states) = 1 /\ states[1] = Reset /\ Len(buffer) = 0
  BY <1>3
<1>5. IsSeq(states) /\ IsSeq(buffer)
  <2>1. states \in Seq({Reset}) /\ buffer \in Seq({Reset})
    BY <1>3
  <2> QED
    BY <2>1, SeqOfElements
<1>6. HistoryInv
  BY <1>1, <1>4, <1>5 DEF HistoryInv
<1>7. ChecksPass
  BY DEF ChecksPass, Init
<1>8. Alike(dpi, states[1], stray)
  BY <1>1, <1>3, <1>4 DEF Alike
<1> QED
  BY <1>2, <1>3, <1>4, <1>6, <1>7, <1>8 DEF IInv

(* The functional simulator adds an element that explains its step.        *)
LEMMA HistoryGrows ==
  ASSUME HistoryInv, NEW e, NEW s, IsState(s),
         Explains(states[Len(states)], e, s),
         buffer' = Append(buffer, e), states' = Append(states, s)
  PROVE  HistoryInv' /\ states'[Len(states')] = s /\ states'[1] = states[1]
<1>1. /\ IsSeq(buffer) /\ IsSeq(states)
      /\ Len(states) = Len(buffer) + 1
      /\ \A k \in 1 .. Len(states) : IsState(states[k])
      /\ \A k \in 1 .. Len(buffer) : Explains(states[k], buffer[k], states[k + 1])
  BY DEF HistoryInv
<1>2. Len(buffer) \in Nat
  BY <1>1, LenProperties DEF IsSeq
<1>3. /\ IsSeq(buffer') /\ Len(buffer') = Len(buffer) + 1
      /\ \A k \in 1 .. Len(buffer) : buffer'[k] = buffer[k]
      /\ buffer'[Len(buffer) + 1] = e
  BY <1>1, Appended
<1>4. /\ IsSeq(states') /\ Len(states') = Len(states) + 1
      /\ \A k \in 1 .. Len(states) : states'[k] = states[k]
      /\ states'[Len(states) + 1] = s
  BY <1>1, Appended
<1>5. \A k \in 1 .. Len(states') : IsState(states'[k])
  BY <1>1, <1>2, <1>4
<1>6. ASSUME NEW k \in 1 .. Len(buffer')
      PROVE  Explains(states'[k], buffer'[k], states'[k + 1])
  <2>1. CASE k = Len(buffer) + 1
    BY <1>1, <1>2, <1>3, <1>4, <2>1
  <2>2. CASE k \in 1 .. Len(buffer)
    BY <1>1, <1>2, <1>3, <1>4, <2>2
  <2>3. k = Len(buffer) + 1 \/ k \in 1 .. Len(buffer)
    <3>1. Len(buffer') = Len(buffer) + 1
      BY <1>3
    <3>2. k \in 1 .. Len(buffer) + 1
      BY <3>1
    <3> QED
      BY <1>2, <3>2
  <2> QED
    BY <2>1, <2>2, <2>3
<1>7. HistoryInv'
  BY <1>1, <1>2, <1>3, <1>4, <1>5, <1>6 DEF HistoryInv
<1> QED
  BY <1>1, <1>2, <1>4, <1>7

(* The RTL takes the oldest element, and the history starts after it.      *)
LEMMA HistoryShrinks ==
  ASSUME HistoryInv, buffer # <<>>,
         buffer' = Tail(buffer), states' = Tail(states)
  PROVE  /\ HistoryInv'
         /\ states'[Len(states')] = states[Len(states)]
         /\ Explains(states[1], Head(buffer), states'[1])
         /\ IsState(states[1])
<1>1. /\ IsSeq(buffer) /\ IsSeq(states)
      /\ Len(states) = Len(buffer) + 1
      /\ \A k \in 1 .. Len(states) : IsState(states[k])
      /\ \A k \in 1 .. Len(buffer) : Explains(states[k], buffer[k], states[k + 1])
  BY DEF HistoryInv
<1>2. /\ IsSeq(buffer') /\ Len(buffer) \in Nat \ {0}
      /\ Head(buffer) = buffer[1] /\ Len(buffer') = Len(buffer) - 1
      /\ \A k \in 1 .. Len(buffer') : buffer'[k] = buffer[k + 1]
  BY <1>1, Shifted
<1>3. states # <<>>
  BY <1>1, <1>2
<1>4. /\ IsSeq(states') /\ Len(states') = Len(states) - 1
      /\ \A k \in 1 .. Len(states') : states'[k] = states[k + 1]
  BY <1>1, <1>3, Shifted
<1>5. \A k \in 1 .. Len(states') : IsState(states'[k])
  BY <1>1, <1>2, <1>4
<1>6. ASSUME NEW k \in 1 .. Len(buffer')
      PROVE  Explains(states'[k], buffer'[k], states'[k + 1])
  <2>1. /\ states'[k] = states[k + 1] /\ buffer'[k] = buffer[k + 1]
        /\ states'[k + 1] = states[(k + 1) + 1]
    BY <1>1, <1>2, <1>4
  <2>2. k + 1 \in 1 .. Len(buffer)
    BY <1>2
  <2> QED
    BY <1>1, <2>1, <2>2
<1>7. HistoryInv'
  BY <1>1, <1>2, <1>4, <1>5, <1>6 DEF HistoryInv
<1>8. Explains(states[1], Head(buffer), states'[1])
  <2>1. 1 \in 1 .. Len(buffer) /\ 1 \in 1 .. Len(states') /\ 1 + 1 = 2
    BY <1>1, <1>2, <1>4
  <2> QED
    BY <1>1, <1>2, <1>4, <2>1
<1> QED
  BY <1>1, <1>2, <1>4, <1>7, <1>8

(* What a history ends in is a state.                                      *)
LEMMA HistoryEnds ==
  ASSUME HistoryInv
  PROVE  IsState(states[Len(states)])
<1>1. Len(buffer) \in Nat
  BY LenProperties DEF HistoryInv, IsSeq
<1> QED
  BY <1>1 DEF HistoryInv

LEMMA IsaExecutesKeeps ==
  ASSUME IInv, NEW i \in Instruction, IsaExecutes(i)
  PROVE  IInv'
<1> DEFINE s == states[Len(states)]
           p == Executes(isa, i)
           e == [insn |-> i, rdst |-> Destination(isa, i), a_state |-> Snapshot(p)]
           t == UpdateTimer(p.state)
<1>1. isa = Core(s) /\ IsState(s) /\ HistoryInv
  BY HistoryEnds DEF IInv
<1>2. p = Core(p.state)
  BY <1>1, ExecutesCore
<1>3. IsState(p.state)
  BY <1>1, ExecutesCore
<1>4. Keeps(p.state, t)
  BY <1>3, TimersAgree
<1>5. [p EXCEPT !.state = UpdateTimer(@)] = Core(t)
  BY <1>2, <1>3, <1>4 DEF Core, Keeps
<1>6. /\ buffer' = Append(buffer, e)
      /\ isa' = [p EXCEPT !.state = UpdateTimer(@)]
      /\ states' = Append(states, isa'.state)
      /\ UNCHANGED <<dpi, verdict, stray>>
  BY DEF IsaExecutes
<1>7. isa' = Core(t) /\ isa'.state = t
  BY <1>5, <1>6 DEF Core
<1>8. Explains(s, e, t)
  <2>1. /\ e.insn = i /\ e.rdst = Destination(Core(s), i) /\ e.a_state = p.state
        /\ ~IsTick(e)
    BY <1>1 DEF IsTick, Snapshot
  <2>2. p = Executes(Core(s), i)
    BY <1>1
  <2> HIDE DEF p, e, s
  <2> QED
    BY <2>1, <2>2 DEF Explains, t
<1> HIDE DEF e, t, p
<1>9. HistoryInv' /\ states'[Len(states')] = t /\ states'[1] = states[1]
  BY <1>1, <1>4, <1>6, <1>7, <1>8, HistoryGrows DEF Keeps
<1>10. ChecksPass'
  BY <1>6 DEF IInv, ChecksPass
<1> QED
  BY <1>6, <1>7, <1>9, <1>10 DEF IInv

LEMMA IsaTicksKeeps ==
  ASSUME IInv, NEW p \in Packet, IsaTicks(p)
  PROVE  IInv'
<1> DEFINE s == states[Len(states)]
           e == [packet |-> p]
           t == IsaServes(s, p)
<1>1. isa = Core(s) /\ IsState(s) /\ HistoryInv /\ isa.state = s
  BY HistoryEnds DEF IInv, Core
<1>2. Keeps(s, t)
  BY <1>1, PacketsAgree
<1>3. /\ buffer' = Append(buffer, e)
      /\ isa' = [isa EXCEPT !.state = IsaServes(@, p)]
      /\ states' = Append(states, t)
      /\ UNCHANGED <<dpi, verdict, stray>>
  BY <1>1 DEF IsaTicks
<1>4. isa' = Core(t)
  BY <1>1, <1>2, <1>3 DEF Core, Keeps
<1>5. Explains(s, e, t)
  <2>1. e.packet = p /\ IsTick(e)
    BY DEF IsTick
  <2> HIDE DEF e, s
  <2> QED
    BY <2>1 DEF Explains
<1> HIDE DEF e, t
<1>6. HistoryInv' /\ states'[Len(states')] = t /\ states'[1] = states[1]
  BY <1>1, <1>2, <1>3, <1>5, HistoryGrows DEF Keeps
<1>7. ChecksPass'
  BY <1>3 DEF IInv, ChecksPass
<1> QED
  BY <1>3, <1>4, <1>6, <1>7 DEF IInv

LEMMA RtlCommitsKeeps ==
  ASSUME IInv, RtlCommits
  PROVE  IInv'
<1> DEFINE e == Head(buffer)
           d == RtlExecutes(dpi, e.insn)
<1>1. /\ buffer # <<>> /\ ~IsTick(e)
      /\ verdict' = [state |-> SameState(d, e.a_state),
                     value |-> RtlDestination(dpi, e.insn) = e.rdst,
                     stray |-> stray \intersect Unwritable(e.insn)]
      /\ dpi' = RtlCounts(d)
      /\ stray' = Strays(dpi, e.insn)
      /\ buffer' = Tail(buffer) /\ states' = Tail(states) /\ isa' = isa
  BY DEF RtlCommits
<1>2. /\ HistoryInv /\ isa = Core(states[Len(states)])
      /\ Alike(dpi, states[1], stray)
  BY DEF IInv
<1>3. /\ HistoryInv' /\ states'[Len(states')] = states[Len(states)]
      /\ Explains(states[1], e, states'[1])
  BY <1>1, <1>2, HistoryShrinks
<1> HIDE DEF e
<1>4. /\ e.insn \in Instruction
      /\ e.rdst = Destination(Core(states[1]), e.insn)
      /\ e.a_state = Executes(Core(states[1]), e.insn).state
      /\ states'[1] = UpdateTimer(e.a_state)
  BY <1>1, <1>3 DEF Explains
<1>5. Alike(d, e.a_state, stray')
  BY <1>1, <1>2, <1>4, ExecutesAlike
<1> HIDE DEF d
<1>6. Alike(dpi', states'[1], stray')
  BY <1>1, <1>4, <1>5, TimersAlike
<1>7. SameState(d, e.a_state) \/ "badvaddr" \in stray'
  BY <1>5, SameStateIfAlike
<1>8. RtlDestination(dpi, e.insn) = e.rdst \/ stray \intersect Unwritable(e.insn) # {}
  BY <1>2, <1>4, DestinationsAlike
<1>9. ChecksPass'
  BY <1>1, <1>7, <1>8 DEF ChecksPass
<1> QED
  BY <1>1, <1>2, <1>3, <1>6, <1>9 DEF IInv

LEMMA RtlTicksKeeps ==
  ASSUME IInv, RtlTicks
  PROVE  IInv'
<1> DEFINE e == Head(buffer)
<1>1. /\ buffer # <<>> /\ IsTick(e)
      /\ dpi' = DpiServes(dpi, e.packet)
      /\ buffer' = Tail(buffer) /\ states' = Tail(states)
      /\ isa' = isa /\ verdict' = verdict /\ stray' = stray
  BY DEF RtlTicks
<1>2. /\ HistoryInv /\ isa = Core(states[Len(states)])
      /\ Alike(dpi, states[1], stray)
  BY DEF IInv
<1>3. /\ HistoryInv' /\ states'[Len(states')] = states[Len(states)]
      /\ Explains(states[1], e, states'[1])
  BY <1>1, <1>2, HistoryShrinks
<1> HIDE DEF e
<1>4. states'[1] = IsaServes(states[1], e.packet)
  BY <1>1, <1>3 DEF Explains
<1>5. Alike(dpi', states'[1], stray')
  BY <1>1, <1>2, <1>4, PacketsAlike
<1>6. ChecksPass'
  BY <1>1 DEF IInv, ChecksPass
<1> QED
  BY <1>1, <1>2, <1>3, <1>5, <1>6 DEF IInv

LEMMA Step == IInv /\ [Next]_vars => IInv'
<1> SUFFICES ASSUME IInv, [Next]_vars PROVE IInv'
  OBVIOUS
<1>1. CASE \E i \in Instruction : IsaExecutes(i)
  BY <1>1, IsaExecutesKeeps
<1>2. CASE \E p \in Packet : IsaTicks(p)
  BY <1>2, IsaTicksKeeps
<1>3. CASE RtlCommits
  BY <1>3, RtlCommitsKeeps
<1>4. CASE RtlTicks
  BY <1>4, RtlTicksKeeps
<1>5. CASE UNCHANGED vars
  BY <1>5 DEF IInv, HistoryInv, ChecksPass, vars, Alike
<1>6. CASE Ended
  BY <1>6, <1>5 DEF Ended
<1> QED
  BY <1>1, <1>2, <1>3, <1>4, <1>5, <1>6 DEF Next

-----------------------------------------------------------------------------
(* The theorems.                                                           *)

(* The invariant holds always.                                             *)
THEOREM Invariance == Spec => []IInv
  BY StartsRight, Step, PTL DEF Spec

(* Whatever the program, and however far the RTL is behind, the DPI        *)
(* simulator has the state the functional simulator had at that point of   *)
(* the program, but for BADVADDR and CAUSE from a write by the program to  *)
(* the next trap that sets them: elsewhere set_pcr, get_pcr and htif_tick  *)
(* of riscv_dpi.cc do what processor_t does.                               *)
THEOREM DpiFollows == Spec => []RegistersAgree
<1>1. IInv => RegistersAgree
  <2> SUFFICES ASSUME IInv PROVE RegistersAgree
    OBVIOUS
  <2>1. Len(buffer) \in Nat /\ Len(states) = Len(buffer) + 1 /\ IsSeq(states)
    BY LenProperties DEF IInv, HistoryInv, IsSeq
  <2>2. states # <<>>
    BY <2>1
  <2>3. Head(states) = states[1]
    BY <2>1, <2>2, Shifted
  <2>4. Alike(dpi, Head(states), stray)
    BY <2>3 DEF IInv
  <2> QED
    BY <2>4 DEF RegistersAgree, Alike, IsState
<1> QED
  BY <1>1, Invariance, PTL

(* checkInstruction blames an RTL that makes no mistake only when the      *)
(* program itself has written BADVADDR or CAUSE: the state it compares has *)
(* a BADVADDR no load has replaced since, or the value is that of one of   *)
(* the two.                                                                *)
THEOREM NoFalseAlarm == Spec => []ChecksPass
<1>1. IInv => ChecksPass
  BY DEF IInv
<1> QED
  BY <1>1, Invariance, PTL
=============================================================================
