------------------------------ MODULE HartProofs ------------------------------
(***************************************************************************)
(* Proofs about Hart, for registers of any size, slices of any length      *)
(* shorter than the counter's lower half, and any status writes.           *)
(***************************************************************************)
EXTENDS Hart, TLAPS

Count == [high : High, low : Low]

(* A slice that has not touched the timer still ends where it was cut.     *)
SliceShort ==
  phase # "idle" /\ ~touched => limit <= OrOne(NextTimer(count, compare))

IInv == TypeOK /\ TimerSound /\ SliceShort

-------------------------------------------------------------------------------
(* The status register: no operation but WithLine changes a pending line.  *)

LEMMA StatusValueEffect ==
  ASSUME NEW s \in Status, NEW w \in Status
  PROVE  StatusValue(s, w) \in Status /\ StatusValue(s, w).IP = s.IP
BY DEF StatusValue, Status

LEMMA TrappedEffect ==
  ASSUME NEW s \in Status
  PROVE  Trapped(s) \in Status /\ Trapped(s).IP = s.IP
<1>1. [s EXCEPT !.EI = FALSE, !.S = TRUE, !.PS = s.S, !.PEI = s.EI] \in Status
  BY DEF Status
<1> QED
  BY <1>1, StatusValueEffect DEF Trapped

LEMMA ReturnedEffect ==
  ASSUME NEW s \in Status
  PROVE  Returned(s) \in Status /\ Returned(s).IP = s.IP
<1>1. [s EXCEPT !.S = s.PS, !.EI = s.PEI] \in Status
  BY DEF Status
<1> QED
  BY <1>1, StatusValueEffect DEF Returned

LEMMA WithLineEffect ==
  ASSUME NEW s \in Status, NEW i \in Irq, NEW on \in BOOLEAN
  PROVE  /\ WithLine(s, i, on) \in Status
         /\ WithLine(s, i, on).IP = IF on THEN s.IP \union {i} ELSE s.IP \ {i}
BY DEF WithLine, Status

LEMMA OtherLineEffect ==
  ASSUME NEW s \in Status, NEW i \in Irq \ {IRQ_TIMER}, NEW on \in BOOLEAN
  PROVE  /\ WithLine(s, i, on) \in Status
         /\ IRQ_TIMER \in WithLine(s, i, on).IP <=> IRQ_TIMER \in s.IP
<1>1. i \in Irq /\ i # IRQ_TIMER
  OBVIOUS
<1>2. /\ WithLine(s, i, on) \in Status
      /\ WithLine(s, i, on).IP = IF on THEN s.IP \union {i} ELSE s.IP \ {i}
  BY <1>1, WithLineEffect
<1> QED
  BY <1>1, <1>2

LEMMA LoweredLine ==
  ASSUME NEW s \in Status, NEW j \in Irq, NEW on \in BOOLEAN,
         NEW i \in s.IP \ WithLine(s, j, on).IP
  PROVE  on = FALSE /\ i = j
<1>1. WithLine(s, j, on).IP = IF on THEN s.IP \union {j} ELSE s.IP \ {j}
  BY WithLineEffect
<1>2. CASE on
  BY <1>1, <1>2
<1>3. CASE ~on
  BY <1>1, <1>3
<1> QED
  BY <1>2, <1>3

LEMMA Lines ==
  IRQ_TIMER \in Irq /\ IRQ_HOST \in Irq \ {IRQ_TIMER} /\ IRQ_IPI \in Irq \ {IRQ_TIMER}
BY DEF Irq, IRQ_TIMER, IRQ_HOST, IRQ_IPI

-------------------------------------------------------------------------------
(* The arithmetic.                                                         *)

(* Counting a slice carries at most once.                                  *)
LEMMA AdvanceEffect ==
  ASSUME NEW c \in Count, NEW k \in 0 .. MaxSlice
  PROVE  /\ Advance(c, k) \in Count
         /\ Advance(c, k).low =
              IF c.low + k < LowSize THEN c.low + k ELSE c.low + k - LowSize
BY ParametersAssumption DEF Advance, Count, High, Low

(* The test of update_timer says that counting k instructions reaches m.   *)
LEMMA FiresIffReached ==
  ASSUME NEW c \in Count, NEW m \in Low, NEW k \in Nat
  PROVE  Fires(c, m, k) <=> c.low < m /\ m <= c.low + k
<1>1. c.low \in Int /\ m \in Int /\ k \in Int /\ 0 <= k
  BY ParametersAssumption DEF Count, Low
<1>2. (c.low - m < 0) <=> c.low < m
  BY <1>1
<1>3. (c.low - m + k < 0) <=> c.low + k < m
  BY <1>1
<1>4. Fires(c, m, k) <=> ~((c.low < m) <=> (c.low + k < m))
  BY <1>2, <1>3 DEF Fires
<1> QED
  BY <1>1, <1>4

LEMMA NextTimerType ==
  ASSUME NEW c \in Count, NEW m \in Low
  PROVE  NextTimer(c, m) \in Nat
BY ParametersAssumption DEF NextTimer, Count, Low

(* x | 1 is x or the next, and not zero.                                   *)
LEMMA OrOneEffect ==
  ASSUME NEW x \in Nat
  PROVE  OrOne(x) \in Nat /\ OrOne(x) \in {x, x + 1} /\ 1 <= OrOne(x)
BY DEF OrOne

LEMMA LimitEffect ==
  ASSUME NEW n \in 1 .. MaxSlice, NEW c \in Count, NEW m \in Low
  PROVE  /\ Limit(n, c, m) \in 1 .. MaxSlice
         /\ Limit(n, c, m) <= OrOne(NextTimer(c, m))
<1>1. OrOne(NextTimer(c, m)) \in Nat /\ 1 <= OrOne(NextTimer(c, m))
  BY NextTimerType, OrOneEffect
<1> QED
  BY <1>1, ParametersAssumption DEF Limit

-------------------------------------------------------------------------------
(* The end of a step.                                                      *)

LEMMA StepEndsEffect ==
  ASSUME TypeOK, StepEnds
  PROVE  /\ sr' \in Status
         /\ count' \in Count
         /\ sr'.IP = IF count.low < compare /\ compare <= count.low + instret
                       THEN sr.IP \union {IRQ_TIMER}
                       ELSE sr.IP
         /\ count'.low = IF count.low + instret < LowSize
                           THEN count.low + instret
                           ELSE count.low + instret - LowSize
<1>1. /\ sr \in Status
      /\ count \in Count
      /\ compare \in Low
      /\ instret \in 0 .. MaxSlice
  BY ParametersAssumption DEF TypeOK, Count
<1>2. /\ count' \in Count
      /\ count'.low = IF count.low + instret < LowSize
                        THEN count.low + instret
                        ELSE count.low + instret - LowSize
  BY <1>1, AdvanceEffect DEF StepEnds
<1>3. Fires(count, compare, instret) <=>
        count.low < compare /\ compare <= count.low + instret
  <2>1. instret \in Nat
    BY <1>1
  <2> QED
    BY <1>1, <2>1, FiresIffReached
<1>4. /\ WithLine(sr, IRQ_TIMER, TRUE) \in Status
      /\ WithLine(sr, IRQ_TIMER, TRUE).IP = sr.IP \union {IRQ_TIMER}
  BY <1>1, WithLineEffect DEF Irq
<1> QED
  BY <1>1, <1>2, <1>3, <1>4 DEF StepEnds
(* The invariant at the end of a step: a standing compare value is pending *)
(* exactly if it has been reached, unless the counter has just wrapped.    *)
LEMMA StepEndsKeeps ==
  ASSUME IInv, StepEnds
  PROVE  IInv'
<1>1. /\ sr \in Status /\ count.low \in Low /\ compare \in Low
      /\ instret \in 0 .. MaxSlice
  BY ParametersAssumption DEF IInv, TypeOK
<1>2. /\ sr' \in Status
      /\ count' \in Count
      /\ sr'.IP = IF count.low < compare /\ compare <= count.low + instret
                    THEN sr.IP \union {IRQ_TIMER}
                    ELSE sr.IP
      /\ count'.low = IF count.low + instret < LowSize
                        THEN count.low + instret
                        ELSE count.low + instret - LowSize
  BY StepEndsEffect DEF IInv
<1>3. TypeOK'
  BY <1>2 DEF IInv, TypeOK, StepEnds, Count
<1>4. TimerSound'
  <2>1. SUFFICES ASSUME armed'
                 PROVE  IRQ_TIMER \in sr'.IP <=> compare <= count'.low
    BY DEF TimerSound, StepEnds
  <2>2. /\ armed /\ count.low <= count'.low
        /\ IRQ_TIMER \in sr.IP <=> compare <= count.low
    BY <2>1 DEF IInv, TypeOK, TimerSound, StepEnds
  <2>3. /\ LowSize \in Nat /\ MaxSlice \in Nat /\ MaxSlice < LowSize
        /\ count.low \in 0 .. (LowSize - 1) /\ compare \in 0 .. (LowSize - 1)
    BY <1>1, ParametersAssumption DEF Low
  <2>4. count'.low = count.low + instret
    BY <1>1, <1>2, <2>2, <2>3
  <2>5. CASE count.low < compare /\ compare <= count.low + instret
    BY <1>2, <2>4, <2>5
  <2>6. CASE ~(count.low < compare /\ compare <= count.low + instret)
    <3>1. sr'.IP = sr.IP
      BY <1>2, <2>6
    <3>2. compare <= count.low <=> compare <= count.low + instret
      BY <1>1, <2>3, <2>6
    <3> QED
      BY <2>2, <2>4, <3>1, <3>2
  <2> QED
    BY <2>5, <2>6
<1>5. SliceShort'
  BY DEF SliceShort, StepEnds
<1> QED
  BY <1>3, <1>4, <1>5 DEF IInv

(* A change of the status register that leaves the timer line alone, and   *)
(* nothing else that matters here.                                         *)
LEMMA StatusChangeKeeps ==
  ASSUME IInv, sr' \in Status, IRQ_TIMER \in sr'.IP <=> IRQ_TIMER \in sr.IP,
         run' \in BOOLEAN, debug' \in BOOLEAN,
         phase' \in {"idle", "slice", "end"},
         phase' # "idle" => phase # "idle",
         instret' \in 0 .. limit,
         UNCHANGED <<count, compare, limit, touched, armed>>
  PROVE  IInv'
<1>1. TypeOK'
  BY DEF IInv, TypeOK
<1>2. TimerSound' /\ SliceShort'
  BY DEF IInv, TimerSound, SliceShort
<1> QED
  BY <1>1, <1>2 DEF IInv

LEMMA RetireEffect ==
  ASSUME TypeOK, Retire
  PROVE  instret' \in 0 .. limit /\ run' = run /\ debug' = debug
         /\ phase' = "slice" /\ phase = "slice" /\ limit' = limit
BY ParametersAssumption DEF TypeOK, Retire

-------------------------------------------------------------------------------
(* Every instruction keeps the invariant.                                  *)
LEMMA InstructionKeeps ==
  ASSUME IInv, Instruction
  PROVE  IInv'
<1> USE DEF IInv
<1>1. sr \in Status /\ count \in Count /\ compare \in Low
      /\ run \in BOOLEAN /\ debug \in BOOLEAN /\ touched \in BOOLEAN
  BY DEF TypeOK, Count
<1>2. Retire
  BY DEF Instruction, PlainInstruction, WriteStatus, SRet, WriteLine,
         WriteCompare, WriteCount, WriteCountHigh
<1>3. instret' \in 0 .. limit /\ run' = run /\ debug' = debug
      /\ phase' = "slice" /\ phase = "slice" /\ limit' = limit
  BY <1>2, RetireEffect
<1>4. CASE PlainInstruction
  BY <1>1, <1>3, <1>4, StatusChangeKeeps DEF PlainInstruction, registers, history
<1>5. ASSUME NEW w \in StatusWrites, WriteStatus(w)
      PROVE  IInv'
  <2>1. sr' \in Status /\ sr'.IP = sr.IP
    BY <1>1, <1>5, ParametersAssumption, StatusValueEffect DEF WriteStatus
  <2> QED
    BY <1>1, <1>3, <1>5, <2>1, StatusChangeKeeps DEF WriteStatus, history
<1>6. CASE SRet
  <2>1. sr' \in Status /\ sr'.IP = sr.IP
    BY <1>1, <1>6, ReturnedEffect DEF SRet
  <2> QED
    BY <1>1, <1>3, <1>6, <2>1, StatusChangeKeeps DEF SRet, history
<1>7. ASSUME NEW i \in Irq \ {IRQ_TIMER}, NEW on \in BOOLEAN, WriteLine(i, on)
      PROVE  IInv'
  <2>1. sr' \in Status /\ (IRQ_TIMER \in sr'.IP <=> IRQ_TIMER \in sr.IP)
    BY <1>1, <1>7, OtherLineEffect DEF WriteLine
  <2> QED
    BY <1>1, <1>3, <1>7, <2>1, StatusChangeKeeps DEF WriteLine, history
<1>8. ASSUME NEW m \in Low, WriteCompare(m)
      PROVE  IInv'
  <2>1. sr' \in Status /\ sr'.IP = sr.IP \ {IRQ_TIMER}
    BY <1>1, <1>8, WithLineEffect DEF WriteCompare, Irq
  <2>2. armed' = (count.low < m) /\ compare' = m /\ count' = count /\ touched'
    BY <1>8 DEF WriteCompare
  <2>3. TypeOK'
    BY <1>1, <1>3, <2>1, <2>2 DEF TypeOK
  <2>4. TimerSound'
    <3>1. count.low \in Int /\ m \in Int
      BY <1>1, ParametersAssumption DEF Count, Low
    <3>2. armed' => count.low < m
      BY <2>2, Zenon
    <3>3. count.low < m => ~(m <= count.low)
      BY <3>1
    <3>4. IRQ_TIMER \notin sr'.IP
      BY <2>1
    <3> QED
      BY <2>2, <3>2, <3>3, <3>4 DEF TimerSound
  <2> QED
    BY <2>2, <2>3, <2>4 DEF SliceShort
<1>9. ASSUME NEW c \in [high : High, low : Low], WriteCount(c)
      PROVE  IInv'
  <2>1. sr' = sr /\ compare' = compare /\ count' = c /\ touched' /\ ~armed'
        /\ armed' \in BOOLEAN
    BY <1>9 DEF WriteCount
  <2>2. TypeOK'
    BY <1>1, <1>3, <2>1 DEF TypeOK
  <2> QED
    BY <2>1, <2>2 DEF TimerSound, SliceShort
<1>10. ASSUME NEW h \in High, WriteCountHigh(h)
       PROVE  IInv'
  <2>1. count' \in Count /\ count'.low = count.low
    BY <1>1, <1>10 DEF WriteCountHigh, Count
  <2>2. sr' = sr /\ compare' = compare /\ touched' = touched /\ armed' = armed
    BY <1>10 DEF WriteCountHigh, history
  <2>3. TypeOK'
    BY <1>1, <1>3, <2>1, <2>2 DEF TypeOK, Count
  <2>4. TimerSound' /\ SliceShort'
    BY <1>3, <2>1, <2>2 DEF TimerSound, SliceShort, NextTimer
  <2> QED
    BY <2>3, <2>4
<1> QED
  BY <1>4, <1>5, <1>6, <1>7, <1>8, <1>9, <1>10 DEF Instruction

-------------------------------------------------------------------------------
(* Every step of the core, the host and the simulator keeps the invariant. *)
LEMMA NextKeeps ==
  ASSUME IInv, [Next]_vars
  PROVE  IInv'
<1> USE DEF IInv
<1>1. /\ sr \in Status /\ count \in Count /\ compare \in Low
      /\ run \in BOOLEAN /\ debug \in BOOLEAN /\ touched \in BOOLEAN
      /\ armed \in BOOLEAN /\ limit \in 0 .. MaxSlice /\ instret \in 0 .. limit
      /\ phase \in {"idle", "slice", "end"}
  BY DEF TypeOK, Count
<1>2. ASSUME NEW value \in BOOLEAN, Reset(value)
      PROVE  IInv'
  <2>1. ResetStatus \in Status
    BY DEF ResetStatus, Status
  <2>2. 0 \in Low /\ 0 \in High
    BY ParametersAssumption DEF Low, High
  <2>3. TypeOK'
    BY <1>1, <1>2, <2>1, <2>2 DEF Reset, TypeOK, slice
  <2> QED
    BY <1>2, <2>3 DEF Reset, TimerSound, SliceShort, slice
<1>3. CASE EnterDebug
  <2>1. sr' = sr /\ debug' \in BOOLEAN
    BY <1>3 DEF EnterDebug, registers
  <2> QED
    BY <1>1, <1>3, <2>1, StatusChangeKeeps
    DEF EnterDebug, registers, slice, history
<1>4. ASSUME NEW on \in BOOLEAN, HostLine(on)
      PROVE  IInv'
  <2>1. sr' \in Status /\ (IRQ_TIMER \in sr'.IP <=> IRQ_TIMER \in sr.IP)
    BY <1>1, <1>4, Lines, OtherLineEffect DEF HostLine
  <2> QED
    BY <1>1, <1>4, <2>1, StatusChangeKeeps DEF HostLine, slice, history
<1>5. CASE IpiArrives
  <2>1. sr' \in Status /\ (IRQ_TIMER \in sr'.IP <=> IRQ_TIMER \in sr.IP)
    BY <1>1, <1>5, Lines, OtherLineEffect DEF IpiArrives
  <2> QED
    BY <1>1, <1>5, <2>1, StatusChangeKeeps DEF IpiArrives, slice, history
<1>6. ASSUME NEW n \in 1 .. MaxSlice, StepBegins(n)
      PROVE  IInv'
  <2>1. /\ limit' \in 1 .. MaxSlice
        /\ limit' <= OrOne(NextTimer(count, compare))
        /\ count' = count /\ compare' = compare
    BY <1>1, <1>6, LimitEffect DEF StepBegins
  <2>2. sr' \in Status /\ sr'.IP = sr.IP /\ phase' \in {"slice", "end"}
    BY <1>1, <1>6, TrappedEffect DEF StepBegins
  <2>3. TypeOK'
    <3>1. limit' \in 0 .. MaxSlice /\ 0 \in 0 .. limit'
      BY <2>1, ParametersAssumption
    <3> QED
      BY <1>1, <1>6, <2>2, <3>1 DEF StepBegins, TypeOK, Count
  <2>4. TimerSound'
    BY <1>6, <2>2 DEF StepBegins, TimerSound
  <2> QED
    BY <2>1, <2>3, <2>4 DEF SliceShort
<1>7. CASE Instruction
  BY <1>7, InstructionKeeps
<1>8. CASE Trap
  <2>1. sr' \in Status /\ sr'.IP = sr.IP
    BY <1>1, <1>8, TrappedEffect DEF Trap
  <2>2. instret' \in 0 .. limit
    BY <1>1, <1>8, ParametersAssumption DEF Trap
  <2> QED
    BY <1>1, <1>8, <2>1, <2>2, StatusChangeKeeps DEF Trap, history
<1>9. CASE StepEnds
  BY <1>9, StepEndsKeeps
<1>10. CASE UNCHANGED vars
  BY <1>10 DEF vars, registers, slice, history, TypeOK, TimerSound, SliceShort,
               NextTimer
<1> QED
  BY <1>2, <1>3, <1>4, <1>5, <1>6, <1>7, <1>8, <1>9, <1>10 DEF Next, Step

(* The invariant, of which the theorems below are consequences.            *)
THEOREM HartInvariant == Spec => []IInv
<1>1. Init => IInv
  <2>1. SUFFICES ASSUME Init PROVE IInv
    OBVIOUS
  <2>2. ResetStatus \in Status
    BY DEF ResetStatus, Status
  <2>3. TypeOK
    <3>1. 0 \in Low /\ 0 \in High /\ 0 \in 0 .. MaxSlice /\ 0 \in 0 .. 0
      BY ParametersAssumption DEF Low, High
    <3> QED
      BY <2>1, <2>2, <3>1 DEF Init, TypeOK
  <2> QED
    BY <2>1, <2>3 DEF Init, IInv, TimerSound, SliceShort
<1> QED
  BY <1>1, NextKeeps, PTL DEF Spec

(* Every register keeps its width and a slice never overruns its limit.    *)
THEOREM HartTypeCorrect == Spec => []TypeOK
BY HartInvariant, PTL DEF IInv

(* The timer line says whether a compare value that was ahead has been     *)
(* reached, for every width and every mix of slices, traps and writes.     *)
THEOREM TimerIsSound == Spec => []TimerSound
BY HartInvariant, PTL DEF IInv
-------------------------------------------------------------------------------
(* Action properties.                                                      *)

(* The timer fires at most one instruction late.                           *)
LEMMA PunctualStep ==
  ASSUME IInv, StepEnds, ~touched, IRQ_TIMER \in sr'.IP \ sr.IP
  PROVE  count.low + instret \in {compare, compare + 1}
<1>1. /\ count \in Count /\ compare \in Low /\ limit \in Nat /\ instret \in Nat
      /\ instret <= limit
  BY ParametersAssumption DEF IInv, TypeOK, Count
<1>2. count.low < compare /\ compare <= count.low + instret
  BY StepEndsEffect DEF IInv
<1>3. phase # "idle"
  BY DEF StepEnds
<1>4. instret <= OrOne(NextTimer(count, compare))
  <2>1. limit <= OrOne(NextTimer(count, compare))
    BY <1>3 DEF IInv, SliceShort
  <2>2. OrOne(NextTimer(count, compare)) \in Nat
    BY <1>1, NextTimerType, OrOneEffect
  <2> QED
    BY <1>1, <2>1, <2>2
<1>5. count.low \in Int /\ compare \in Int
  BY <1>1, ParametersAssumption DEF Count, Low
<1>6. NextTimer(count, compare) = compare - count.low
  BY <1>2, <1>5 DEF NextTimer
<1>7. OrOne(NextTimer(count, compare)) <= compare - count.low + 1
  <2>1. NextTimer(count, compare) \in Nat
    BY <1>1, NextTimerType
  <2> QED
    BY <1>5, <1>6, <2>1, OrOneEffect
<1>8. OrOne(NextTimer(count, compare)) \in Nat
  BY <1>1, NextTimerType, OrOneEffect
<1> QED
  BY <1>1, <1>2, <1>4, <1>5, <1>7, <1>8

(* Slices cut by next_timer make the timer punctual, whatever their        *)
(* length and the width of the registers.                                  *)
THEOREM TimerIsPunctual == Spec => TimerPunctual
<1>1. IInv /\ [Next]_vars =>
        [StepEnds /\ ~touched /\ IRQ_TIMER \in sr'.IP \ sr.IP
           => count.low + instret \in {compare, compare + 1}]_vars
  BY PunctualStep
<1> QED
  BY <1>1, HartInvariant, PTL DEF Spec, TimerPunctual

(* A line that falls is acknowledged or the core is reset.                 *)
LEMMA LineKeptStep ==
  ASSUME TypeOK, [Next]_vars, NEW i \in sr.IP \ sr'.IP
  PROVE  Acknowledges(i)
<1>1. sr \in Status /\ i \in sr.IP /\ i \notin sr'.IP /\ i \in Irq
  BY DEF TypeOK, Status
<1>2. ASSUME NEW value \in BOOLEAN, Reset(value)
      PROVE  Acknowledges(i)
  BY <1>2 DEF Acknowledges
<1>3. CASE EnterDebug
  BY <1>1, <1>3 DEF EnterDebug, registers
<1>4. ASSUME NEW on \in BOOLEAN, HostLine(on)
      PROVE  Acknowledges(i)
  <2>1. on = FALSE /\ i = IRQ_HOST
    BY <1>1, <1>4, Lines, LoweredLine DEF HostLine
  <2> QED
    BY <1>4, <2>1 DEF Acknowledges
<1>5. CASE IpiArrives
  <2>1. TRUE = FALSE
    BY <1>1, <1>5, Lines, LoweredLine DEF IpiArrives
  <2> QED
    BY <2>1
<1>6. ASSUME NEW n \in 1 .. MaxSlice, StepBegins(n)
      PROVE  Acknowledges(i)
  BY <1>1, <1>6, TrappedEffect DEF StepBegins
<1>7. CASE Instruction
  <2>1. CASE PlainInstruction
    BY <1>1, <2>1 DEF PlainInstruction, registers
  <2>2. ASSUME NEW w \in StatusWrites, WriteStatus(w)
        PROVE  Acknowledges(i)
    BY <1>1, <2>2, ParametersAssumption, StatusValueEffect DEF WriteStatus
  <2>3. CASE SRet
    BY <1>1, <2>3, ReturnedEffect DEF SRet
  <2>4. ASSUME NEW j \in Irq \ {IRQ_TIMER}, NEW on \in BOOLEAN, WriteLine(j, on)
        PROVE  Acknowledges(i)
    <3>1. on = FALSE /\ i = j
      BY <1>1, <2>4, LoweredLine DEF WriteLine
    <3> QED
      BY <2>4, <3>1 DEF Acknowledges
  <2>5. ASSUME NEW m \in Low, WriteCompare(m)
        PROVE  Acknowledges(i)
    <3>1. i = IRQ_TIMER
      BY <1>1, <2>5, Lines, LoweredLine DEF WriteCompare
    <3> QED
      BY <2>5, <3>1 DEF Acknowledges
  <2>6. ASSUME NEW c \in [high : High, low : Low], WriteCount(c)
        PROVE  Acknowledges(i)
    BY <1>1, <2>6 DEF WriteCount
  <2>7. ASSUME NEW h \in High, WriteCountHigh(h)
        PROVE  Acknowledges(i)
    BY <1>1, <2>7 DEF WriteCountHigh
  <2> QED
    BY <1>7, <2>1, <2>2, <2>3, <2>4, <2>5, <2>6, <2>7 DEF Instruction
<1>8. CASE Trap
  BY <1>1, <1>8, TrappedEffect DEF Trap
<1>9. CASE StepEnds
  BY <1>1, <1>9, StepEndsEffect
<1>10. CASE UNCHANGED vars
  BY <1>1, <1>10 DEF vars, registers
<1> QED
  BY <1>2, <1>3, <1>4, <1>5, <1>6, <1>7, <1>8, <1>9, <1>10 DEF Next, Step

(* No trap, return, status write or slice drops a pending interrupt.       *)
THEOREM LinesAreKept == Spec => LineKept
<1>1. TypeOK /\ [Next]_vars => [\A i \in sr.IP \ sr'.IP : Acknowledges(i)]_vars
  BY LineKeptStep
<1> QED
  BY <1>1, HartTypeCorrect, PTL DEF Spec, LineKept

===============================================================================
