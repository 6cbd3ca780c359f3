----------------------------- MODULE CoSimProofs -----------------------------
(***************************************************************************)
(* Theorems about CoSim for every ring size, every set of instructions and *)
(* every schedule.                                                         *)
(***************************************************************************)
EXTENDS CoSim, SequenceTheorems, TLAPS

-----------------------------------------------------------------------------
(* Arithmetic of the ring.                                                 *)

LEMMA SizeIsPositive == DEBUG_SIZE \in Nat /\ DEBUG_SIZE > 0
  BY DebugSizeAssumption

(* On the values the code produces, MOD subtracts DEBUG_SIZE at most once. *)
LEMMA ModOnce ==
  \A x \in 0 .. (2 * DEBUG_SIZE - 1) :
    MOD(x) = IF x < DEBUG_SIZE THEN x ELSE x - DEBUG_SIZE
<1>. USE SizeIsPositive
<1>. SUFFICES ASSUME NEW x \in 0 .. (2 * DEBUG_SIZE - 1)
              PROVE  MOD(x) = IF x < DEBUG_SIZE THEN x ELSE x - DEBUG_SIZE
  OBVIOUS
<1>1. CASE x < DEBUG_SIZE
  BY <1>1 DEF MOD
<1>2. CASE x >= DEBUG_SIZE
  <2>1. x - DEBUG_SIZE \in 0 .. (DEBUG_SIZE - 1)
    BY <1>2
  <2>2. x = DEBUG_SIZE * 1 + (x - DEBUG_SIZE)
    BY <2>1
  <2>3. x % DEBUG_SIZE = x - DEBUG_SIZE
    BY <2>1, <2>2
  <2>. QED
    BY <1>2, <2>3 DEF MOD
<1>. QED
  BY <1>1, <1>2

(* The slot after s.                                                       *)
LEMMA NextSlot ==
  \A s \in Slots :
    /\ MOD(s + 1) = IF s = DEBUG_SIZE - 1 THEN 0 ELSE s + 1
    /\ MOD(s + 1) \in Slots
<1>. USE SizeIsPositive DEF Slots
<1>. SUFFICES ASSUME NEW s \in Slots
              PROVE  /\ MOD(s + 1) = IF s = DEBUG_SIZE - 1 THEN 0 ELSE s + 1
                     /\ MOD(s + 1) \in Slots
  OBVIOUS
<1>1. s + 1 \in 0 .. (2 * DEBUG_SIZE - 1)
  OBVIOUS
<1>. QED
  BY <1>1, ModOnce

-----------------------------------------------------------------------------
(* What each member function of the buffer changes, field by field.        *)

LEMMA StartEffect ==
  ASSUME BufferTypeOK, Start
  PROVE  /\ length < DEBUG_SIZE
         /\ length' = length + 1
         /\ head' = head
         /\ tail' = MOD(tail + 1)
         /\ BufferTypeOK'
         /\ \A s \in Slots :
              /\ db'[s].a_pc = db[s].a_pc
              /\ db'[s].a_next_pc = db[s].a_next_pc
              /\ db'[s].a_num_rdst = IF s = tail' THEN 0 ELSE db[s].a_num_rdst
              /\ db'[s].a_rdst = db[s].a_rdst
              /\ db'[s].a_state = db[s].a_state
<1>1. length < DEBUG_SIZE /\ length' = length + 1 /\ head' = head /\ tail' = MOD(tail + 1)
  BY DEF Start, ACTIVE_SIZE
<1>2. tail' \in Slots /\ head' \in Slots
  BY <1>1, NextSlot DEF BufferTypeOK
<1>3. length' \in 0 .. ACTIVE_SIZE
  BY <1>1, SizeIsPositive DEF BufferTypeOK, ACTIVE_SIZE
<1>4. db' = [ s \in Slots |->
                [ db[s] EXCEPT
                    !.a_valid    = @ \/ s = head,
                    !.a_num_rdst = IF s = tail' THEN 0 ELSE @ ] ]
  BY <1>1 DEF Start
<1>5. db \in [Slots -> Entry]
  BY DEF BufferTypeOK
<1>6. ASSUME NEW s \in Slots
      PROVE  /\ db'[s] \in Entry
             /\ db'[s].a_pc = db[s].a_pc
             /\ db'[s].a_next_pc = db[s].a_next_pc
             /\ db'[s].a_num_rdst = IF s = tail' THEN 0 ELSE db[s].a_num_rdst
             /\ db'[s].a_rdst = db[s].a_rdst
             /\ db'[s].a_state = db[s].a_state
  <2>1. PICK e \in Entry : e = db[s]
    BY <1>5
  <2>2. PICK valid \in BOOLEAN : valid = (e.a_valid \/ s = head)
    OBVIOUS
  <2>3. PICK n \in {0, 1} : n = IF s = tail' THEN 0 ELSE e.a_num_rdst
    BY <2>1 DEF Entry
  <2>4. db'[s] = [e EXCEPT !.a_valid = valid, !.a_num_rdst = n]
    BY <1>4, <2>1, <2>2, <2>3
  <2> QED
    BY <2>1, <2>3, <2>4 DEF Entry
<1>7. db' \in [Slots -> Entry]
  BY <1>4, <1>6
<1>. QED
  BY <1>1, <1>2, <1>3, <1>6, <1>7 DEF BufferTypeOK

LEMMA PushInstrEffect ==
  ASSUME BufferTypeOK, db[tail].a_num_rdst = 0,
         NEW p \in Pc, NEW np \in Pc, NEW rd \in Result \union {NoRd}, NEW st \in State,
         PushInstr(p, np, rd, st)
  PROVE  /\ UNCHANGED <<head, tail, length>>
         /\ BufferTypeOK'
         /\ db'[tail].a_pc = p
         /\ db'[tail].a_next_pc = np
         /\ db'[tail].a_num_rdst = IF rd = NoRd THEN 0 ELSE 1
         /\ rd # NoRd => db'[tail].a_rdst = rd
         /\ db'[tail].a_state = st
         /\ \A s \in Slots \ {tail} : db'[s] = db[s]
<1>1. UNCHANGED <<head, tail, length>>
  BY DEF PushInstr
<1>2. tail \in Slots /\ db \in [Slots -> Entry] /\ db[tail] \in Entry
  BY DEF BufferTypeOK
<1>. DEFINE e1 == WithOperand(db[tail], rd)
            e2 == WithInstr(e1, p, np)
            e3 == WithState(e2, st)
<1>3. db' = [ db EXCEPT ![tail] = e3 ]
  BY DEF PushInstr
<1>4. /\ e1 \in Entry
      /\ e1.a_num_rdst = IF rd = NoRd THEN 0 ELSE 1
      /\ rd # NoRd => e1.a_rdst = rd
  <2>1. CASE rd = NoRd
    BY <1>2, <2>1 DEF WithOperand
  <2>2. CASE rd # NoRd
    <3>1. e1 = [ db[tail] EXCEPT !.a_num_rdst = 1, !.a_rdst = rd ]
      BY <2>2 DEF WithOperand
    <3>. QED
      BY <1>2, <2>2, <3>1 DEF Entry
  <2>. QED
    BY <2>1, <2>2
<1>5. /\ e2 \in Entry
      /\ e2.a_pc = p /\ e2.a_next_pc = np
      /\ e2.a_num_rdst = e1.a_num_rdst /\ e2.a_rdst = e1.a_rdst
  BY <1>4 DEF WithInstr, Entry
<1>6. /\ e3 \in Entry
      /\ e3.a_pc = p /\ e3.a_next_pc = np /\ e3.a_state = st
      /\ e3.a_num_rdst = e2.a_num_rdst /\ e3.a_rdst = e2.a_rdst
  BY <1>5 DEF WithState, Entry
<1>. HIDE DEF e1, e2, e3
<1>7. db'[tail] = e3 /\ db' \in [Slots -> Entry] /\ \A s \in Slots \ {tail} : db'[s] = db[s]
  BY <1>2, <1>3, <1>6
<1>. QED
  BY <1>1, <1>4, <1>5, <1>6, <1>7 DEF BufferTypeOK

LEMMA PushExceptionEffect ==
  ASSUME BufferTypeOK, NEW p \in Pc, NEW h \in Pc, NEW st \in State,
         PushException(p, h, st)
  PROVE  /\ UNCHANGED <<head, tail, length>>
         /\ BufferTypeOK'
         /\ db'[tail].a_pc = p
         /\ db'[tail].a_next_pc = h
         /\ db'[tail].a_num_rdst = db[tail].a_num_rdst
         /\ db'[tail].a_rdst = db[tail].a_rdst
         /\ db'[tail].a_state = st
         /\ \A s \in Slots \ {tail} : db'[s] = db[s]
<1>1. UNCHANGED <<head, tail, length>>
  BY DEF PushException
<1>2. tail \in Slots /\ db \in [Slots -> Entry] /\ db[tail] \in Entry
  BY DEF BufferTypeOK
<1>. DEFINE e1 == WithInstr(db[tail], p, p)
            e2 == WithException(e1, h)
            e3 == WithState(e2, st)
<1>3. db' = [ db EXCEPT ![tail] = e3 ]
  BY DEF PushException
<1>4. /\ e1 \in Entry
      /\ e1.a_pc = p
      /\ e1.a_num_rdst = db[tail].a_num_rdst /\ e1.a_rdst = db[tail].a_rdst
  BY <1>2 DEF WithInstr, Entry
<1>5. /\ e2 \in Entry
      /\ e2.a_pc = p /\ e2.a_next_pc = h
      /\ e2.a_num_rdst = e1.a_num_rdst /\ e2.a_rdst = e1.a_rdst
  BY <1>4 DEF WithException, Entry
<1>6. /\ e3 \in Entry
      /\ e3.a_pc = p /\ e3.a_next_pc = h /\ e3.a_state = st
      /\ e3.a_num_rdst = e2.a_num_rdst /\ e3.a_rdst = e2.a_rdst
  BY <1>5 DEF WithState, Entry
<1>. HIDE DEF e1, e2, e3
<1>7. db'[tail] = e3 /\ db' \in [Slots -> Entry] /\ \A s \in Slots \ {tail} : db'[s] = db[s]
  BY <1>2, <1>3, <1>6
<1>. QED
  BY <1>1, <1>4, <1>5, <1>6, <1>7 DEF BufferTypeOK

LEMMA PopInvalidateEffect ==
  ASSUME BufferTypeOK, PopInvalidate
  PROVE  /\ UNCHANGED <<head, tail, length>>
         /\ BufferTypeOK'
         /\ \A s \in Slots :
              /\ db'[s].a_pc = db[s].a_pc
              /\ db'[s].a_next_pc = db[s].a_next_pc
              /\ db'[s].a_num_rdst = db[s].a_num_rdst
              /\ db'[s].a_rdst = db[s].a_rdst
              /\ db'[s].a_state = db[s].a_state
<1>1. UNCHANGED <<head, tail, length>>
  BY DEF PopInvalidate
<1>2. head \in Slots /\ db \in [Slots -> Entry]
  BY DEF BufferTypeOK
<1>3. db' = [db EXCEPT ![head].a_valid = FALSE]
  BY DEF PopInvalidate
<1>4. db' \in [Slots -> Entry]
  BY <1>2, <1>3 DEF Entry
<1>5. ASSUME NEW s \in Slots
      PROVE  /\ db'[s].a_pc = db[s].a_pc
             /\ db'[s].a_next_pc = db[s].a_next_pc
             /\ db'[s].a_num_rdst = db[s].a_num_rdst
             /\ db'[s].a_rdst = db[s].a_rdst
             /\ db'[s].a_state = db[s].a_state
  BY <1>2, <1>3 DEF Entry
<1>. QED
  BY <1>1, <1>4, <1>5 DEF BufferTypeOK

LEMMA PopAdvanceEffect ==
  ASSUME BufferTypeOK, PopAdvance
  PROVE  /\ length > 0
         /\ length' = length - 1
         /\ head' = MOD(head + 1)
         /\ UNCHANGED <<tail, db>>
         /\ BufferTypeOK'
<1>1. length > 0 /\ length' = length - 1 /\ head' = MOD(head + 1) /\ UNCHANGED <<tail, db>>
  BY DEF PopAdvance
<1>2. head' \in Slots
  BY <1>1, NextSlot DEF BufferTypeOK
<1>3. length' \in 0 .. ACTIVE_SIZE
  BY <1>1, SizeIsPositive DEF BufferTypeOK, ACTIVE_SIZE
<1>. QED
  BY <1>1, <1>2, <1>3 DEF BufferTypeOK

-----------------------------------------------------------------------------
(* The inductive invariant.                                                *)

(* The slot of the i-th active entry, oldest first.                        *)
At(i) == MOD(head + i)

(* The active entries that are complete: all but the one being filled.     *)
Completed == IF open THEN length - 1 ELSE length

(* head, tail and length agree.                                            *)
RingInv == MOD(tail + 1) = MOD(head + length)

(* An entry is open only inside the functional simulator. It is the newest *)
(* one and its destination has not been pushed.                            *)
OpenInv ==
  open => /\ InFunctionalStep
          /\ length > 0
          /\ db[tail].a_num_rdst = 0

(* No field of a completed entry that is read later is left unwritten.     *)
Written(e) ==
  /\ e.a_pc \in Pc
  /\ e.a_next_pc \in Pc
  /\ e.a_num_rdst > 0 => e.a_rdst \in Result
  /\ e.a_state \in State

WrittenInv == \A i \in 0 .. (Completed - 1) : Written(db[At(i)])

IInv == TypeOK /\ RingInv /\ OpenInv /\ WrittenInv

(* The completed entries are one path from arch_pc to pc. This is what an  *)
(* interrupt breaks.                                                       *)
ChainInv ==
  /\ ei = FALSE
  /\ \A i \in 1 .. (Completed - 1) : db[At(i - 1)].a_next_pc = db[At(i)].a_pc
  /\ Completed > 0 => /\ db[At(0)].a_pc = arch_pc
                      /\ db[At(Completed - 1)].a_next_pc = pc
  /\ Completed = 0 => arch_pc = pc

-----------------------------------------------------------------------------
(* Positions in the ring.                                                  *)

LEMMA AtSlot ==
  ASSUME head \in Slots
  PROVE  \A i \in 0 .. DEBUG_SIZE :
           /\ At(i) = IF head + i < DEBUG_SIZE THEN head + i ELSE head + i - DEBUG_SIZE
           /\ At(i) \in Slots
<1>. USE SizeIsPositive DEF Slots
<1>. SUFFICES ASSUME NEW i \in 0 .. DEBUG_SIZE
              PROVE  /\ At(i) = IF head + i < DEBUG_SIZE THEN head + i ELSE head + i - DEBUG_SIZE
                     /\ At(i) \in Slots
  OBVIOUS
<1>1. head + i \in 0 .. (2 * DEBUG_SIZE - 1)
  OBVIOUS
<1>2. At(i) = IF head + i < DEBUG_SIZE THEN head + i ELSE head + i - DEBUG_SIZE
  BY <1>1, ModOnce DEF At
<1>. QED
  BY <1>2

(* Two active entries are never in one slot.                               *)
LEMMA AtInjective ==
  ASSUME head \in Slots
  PROVE  \A i, j \in 0 .. (DEBUG_SIZE - 1) : At(i) = At(j) => i = j
<1>. SUFFICES ASSUME NEW i \in 0 .. (DEBUG_SIZE - 1), NEW j \in 0 .. (DEBUG_SIZE - 1),
                     At(i) = At(j)
              PROVE  i = j
  OBVIOUS
<1>1. /\ At(i) = IF head + i < DEBUG_SIZE THEN head + i ELSE head + i - DEBUG_SIZE
      /\ At(j) = IF head + j < DEBUG_SIZE THEN head + j ELSE head + j - DEBUG_SIZE
  BY AtSlot, SizeIsPositive
<1>2. head \in 0 .. (DEBUG_SIZE - 1) /\ DEBUG_SIZE \in Nat
  BY SizeIsPositive DEF Slots
<1>3. CASE head + i < DEBUG_SIZE /\ head + j < DEBUG_SIZE
  <2>1. head + i = head + j
    BY <1>1, <1>3
  <2>. QED
    BY <1>2, <2>1
<1>4. CASE head + i < DEBUG_SIZE /\ ~(head + j < DEBUG_SIZE)
  <2>1. head + i = head + j - DEBUG_SIZE
    BY <1>1, <1>4
  <2>. QED
    BY <1>2, <2>1
<1>5. CASE ~(head + i < DEBUG_SIZE) /\ head + j < DEBUG_SIZE
  <2>1. head + i - DEBUG_SIZE = head + j
    BY <1>1, <1>5
  <2>. QED
    BY <1>2, <2>1
<1>6. CASE ~(head + i < DEBUG_SIZE) /\ ~(head + j < DEBUG_SIZE)
  <2>1. head + i - DEBUG_SIZE = head + j - DEBUG_SIZE
    BY <1>1, <1>6
  <2>. QED
    BY <1>2, <2>1
<1>. QED
  BY <1>3, <1>4, <1>5, <1>6

(* The newest entry is the last position.                                  *)
LEMMA TailPosition ==
  ASSUME BufferTypeOK, RingInv, length > 0
  PROVE  tail = At(length - 1)
<1>1. length \in 1 .. DEBUG_SIZE /\ head \in Slots /\ tail \in Slots
  BY SizeIsPositive DEF BufferTypeOK, ACTIVE_SIZE
<1>2. MOD(tail + 1) = At(length)
  BY DEF RingInv, At
<1>3. MOD(tail + 1) = IF tail = DEBUG_SIZE - 1 THEN 0 ELSE tail + 1
  BY <1>1, NextSlot
<1>4. At(length) = IF head + length < DEBUG_SIZE THEN head + length
                                                 ELSE head + length - DEBUG_SIZE
  BY <1>1, AtSlot, SizeIsPositive
<1>5. At(length - 1) = IF head + (length - 1) < DEBUG_SIZE
                       THEN head + (length - 1) ELSE head + (length - 1) - DEBUG_SIZE
  BY <1>1, AtSlot, SizeIsPositive
<1>. QED
  BY <1>1, <1>2, <1>3, <1>4, <1>5, SizeIsPositive DEF Slots

(* Advancing head renumbers the positions.                                 *)
LEMMA AtAdvance ==
  ASSUME head \in Slots, head' = MOD(head + 1)
  PROVE  \A i \in 0 .. (DEBUG_SIZE - 1) : MOD(head' + i) = At(i + 1)
<1>. SUFFICES ASSUME NEW i \in 0 .. (DEBUG_SIZE - 1)
              PROVE  MOD(head' + i) = At(i + 1)
  OBVIOUS
<1>1. head' = IF head = DEBUG_SIZE - 1 THEN 0 ELSE head + 1
  BY NextSlot
<1>2. head' \in Slots
  BY NextSlot
<1>3. head' + i \in 0 .. (2 * DEBUG_SIZE - 1)
  BY <1>2, SizeIsPositive DEF Slots
<1>4. MOD(head' + i) = IF head' + i < DEBUG_SIZE THEN head' + i ELSE head' + i - DEBUG_SIZE
  BY <1>2, <1>3, ModOnce, SizeIsPositive DEF Slots
<1>5. At(i + 1) = IF head + (i + 1) < DEBUG_SIZE
                  THEN head + (i + 1) ELSE head + (i + 1) - DEBUG_SIZE
  BY AtSlot, SizeIsPositive
<1>. QED
  BY <1>1, <1>4, <1>5, SizeIsPositive DEF Slots

(* The slot behind a position is the next position.                        *)
LEMMA AtNext ==
  ASSUME head \in Slots
  PROVE  \A i \in 0 .. (DEBUG_SIZE - 1) : MOD(At(i) + 1) = At(i + 1)
<1>. SUFFICES ASSUME NEW i \in 0 .. (DEBUG_SIZE - 1)
              PROVE  MOD(At(i) + 1) = At(i + 1)
  OBVIOUS
<1>1. At(i) = IF head + i < DEBUG_SIZE THEN head + i ELSE head + i - DEBUG_SIZE
  BY AtSlot, SizeIsPositive
<1>2. At(i) \in Slots
  BY AtSlot, SizeIsPositive
<1>3. MOD(At(i) + 1) = IF At(i) = DEBUG_SIZE - 1 THEN 0 ELSE At(i) + 1
  BY <1>2, NextSlot
<1>4. At(i + 1) = IF head + (i + 1) < DEBUG_SIZE
                  THEN head + (i + 1) ELSE head + (i + 1) - DEBUG_SIZE
  BY AtSlot, SizeIsPositive
<1>. QED
  BY <1>1, <1>2, <1>3, <1>4, SizeIsPositive DEF Slots

-----------------------------------------------------------------------------
(* Each action preserves the inductive invariant.                          *)

LEMMA IInvInit == Init => IInv
<1>. SUFFICES ASSUME Init PROVE IInv
  OBVIOUS
<1>1. BufferTypeOK
  <2>1. PICK valid \in [Slots -> BOOLEAN] :
          db = [ s \in Slots |->
                  [ a_valid |-> valid[s], a_pc |-> Garbage, a_next_pc |-> Garbage,
                    a_num_rdst |-> 0, a_rdst |-> Garbage, a_state |-> Garbage ] ]
    BY DEF Init, BufferInit
  <2>2. db \in [Slots -> Entry]
    BY <2>1 DEF Entry
  <2>3. head \in Slots /\ tail \in Slots /\ length \in 0 .. ACTIVE_SIZE
    BY SizeIsPositive DEF Init, BufferInit, Slots, ACTIVE_SIZE
  <2>. QED
    BY <2>2, <2>3 DEF BufferTypeOK
<1>2. TypeOK
  BY <1>1, InterruptsAssumption DEF Init, TypeOK
<1>3. RingInv
  <2>1. head = 0 /\ tail = DEBUG_SIZE - 1 /\ length = 0
    BY DEF Init, BufferInit
  <2>2. MOD(tail + 1) = 0
    BY <2>1, NextSlot, SizeIsPositive DEF Slots
  <2>3. MOD(head + length) = 0
    BY <2>1, ModOnce, SizeIsPositive
  <2>. QED
    BY <2>2, <2>3 DEF RingInv
<1>4. OpenInv
  BY DEF Init, OpenInv
<1>5. WrittenInv
  BY DEF Init, BufferInit, WrittenInv, Completed
<1>. QED
  BY <1>2, <1>3, <1>4, <1>5 DEF IInv

(* A step that leaves the buffer alone, and the entry being filled.        *)
LEMMA IInvBufferUnchanged ==
  ASSUME IInv, UNCHANGED <<bufferVars, open>>, TypeOK', open => mode' = mode
  PROVE  IInv'
<1>1. UNCHANGED <<head, tail, length, db, open>>
  BY DEF bufferVars
<1>2. RingInv'
  BY <1>1 DEF IInv, RingInv, MOD
<1>3. OpenInv'
  BY <1>1 DEF IInv, OpenInv, InFunctionalStep
<1>4. WrittenInv'
  BY <1>1 DEF IInv, WrittenInv, Completed, Written, At, MOD
<1>. QED
  BY <1>2, <1>3, <1>4 DEF IInv

LEMMA IInvBegin ==
  ASSUME IInv, BeginInstruction
  PROVE  IInv'
<1>1. /\ BufferTypeOK /\ Start
      /\ open = FALSE /\ open' = TRUE
      /\ UNCHANGED <<mode, coreVars, rtlVars>>
      /\ InFunctionalStep
  BY DEF IInv, TypeOK, BeginInstruction
<1>2. /\ length < DEBUG_SIZE
      /\ length' = length + 1
      /\ head' = head
      /\ tail' = MOD(tail + 1)
      /\ BufferTypeOK'
      /\ \A s \in Slots :
           /\ db'[s].a_pc = db[s].a_pc
           /\ db'[s].a_next_pc = db[s].a_next_pc
           /\ db'[s].a_num_rdst = IF s = tail' THEN 0 ELSE db[s].a_num_rdst
           /\ db'[s].a_rdst = db[s].a_rdst
           /\ db'[s].a_state = db[s].a_state
  BY <1>1, StartEffect
<1>3. TypeOK'
  BY <1>1, <1>2 DEF IInv, TypeOK, coreVars, rtlVars
<1>4. /\ head \in Slots
      /\ length \in 0 .. (DEBUG_SIZE - 1)
      /\ tail' \in Slots
  BY <1>1, <1>2, SizeIsPositive DEF BufferTypeOK, ACTIVE_SIZE
<1>5. tail' = At(length)
  BY <1>2 DEF IInv, RingInv, At
<1>6. RingInv'
  <2>1. MOD(tail' + 1) = At(length + 1)
    BY <1>4, <1>5, AtNext
  <2>2. RingInv' <=> MOD(tail' + 1) = MOD(head' + length')
    BY DEF RingInv, MOD
  <2>3. MOD(head' + length') = At(length + 1)
    BY <1>2 DEF At
  <2>. QED
    BY <2>1, <2>2, <2>3
<1>7. OpenInv'
  <2>1. length' > 0
    BY <1>2, <1>4
  <2>2. db'[tail'].a_num_rdst = 0
    BY <1>2, <1>4
  <2>. QED
    BY <1>1, <2>1, <2>2 DEF OpenInv, InFunctionalStep
<1>8. WrittenInv'
  <2>1. Completed = length /\ Completed' = length
    BY <1>1, <1>2, <1>4 DEF Completed
  <2>2. SUFFICES ASSUME NEW i \in 0 .. (length - 1)
                 PROVE  Written(db[At(i)])'
    BY <2>1 DEF WrittenInv
  <2>3. At(i)' = At(i)
    BY <1>2 DEF At, MOD
  <2>4. At(i) \in Slots /\ At(i) # tail'
    <3>1. i \in 0 .. (DEBUG_SIZE - 1) /\ i # length
      BY <1>4, SizeIsPositive
    <3>. QED
      BY <1>4, <1>5, <3>1, AtSlot, AtInjective, SizeIsPositive
  <2>5. Written(db[At(i)])
    BY <2>1 DEF IInv, WrittenInv
  <2>. QED
    BY <1>2, <2>3, <2>4, <2>5 DEF Written
<1>. QED
  BY <1>3, <1>6, <1>7, <1>8 DEF IInv

(* A step that pushes to the newest entry and leaves it complete.          *)
LEMMA IInvPush ==
  ASSUME IInv, TypeOK', UNCHANGED <<head, tail, length>>, open' = FALSE,
         \A s \in Slots \ {tail} : db'[s] = db[s],
         length > 0 => Written(db'[tail])
  PROVE  IInv'
<1>1. /\ BufferTypeOK /\ RingInv
      /\ head \in Slots
      /\ length \in 0 .. DEBUG_SIZE
  BY DEF IInv, TypeOK, BufferTypeOK, ACTIVE_SIZE
<1>2. RingInv'
  BY <1>1 DEF RingInv, MOD
<1>3. OpenInv'
  BY DEF OpenInv
<1>4. WrittenInv'
  <2>1. Completed' = length
    BY <1>1 DEF Completed
  <2>2. SUFFICES ASSUME NEW i \in 0 .. (length - 1)
                 PROVE  Written(db[At(i)])'
    BY <2>1 DEF WrittenInv
  <2>3. At(i)' = At(i)
    BY DEF At, MOD
  <2>4. length > 0 /\ tail = At(length - 1)
    BY <1>1, TailPosition, SizeIsPositive
  <2>5. CASE i = length - 1
    <3>1. Written(db'[At(i)])
      BY <2>4, <2>5
    <3>. QED
      BY <2>3, <3>1 DEF Written
  <2>6. CASE i # length - 1
    <3>1. i \in 0 .. (DEBUG_SIZE - 1) /\ length - 1 \in 0 .. (DEBUG_SIZE - 1)
      BY <1>1, SizeIsPositive
    <3>2. At(i) \in Slots \ {tail}
      BY <1>1, <2>4, <2>6, <3>1, AtSlot, AtInjective, SizeIsPositive
    <3>3. i \in 0 .. (Completed - 1)
      BY <1>1, <2>6 DEF Completed
    <3>4. Written(db[At(i)])
      BY <3>3 DEF IInv, WrittenInv
    <3>. QED
      BY <2>3, <3>2, <3>4 DEF Written
  <2>. QED
    BY <2>5, <2>6
<1>. QED
  BY <1>2, <1>3, <1>4 DEF IInv

LEMMA IInvExecute ==
  ASSUME IInv, ExecuteInstruction
  PROVE  IInv'
<1>1. /\ BufferTypeOK /\ open /\ pc \in Pc
      /\ db[tail].a_num_rdst = 0
  BY DEF IInv, TypeOK, OpenInv, ExecuteInstruction
<1>2. /\ ei' \in BOOLEAN /\ open' = FALSE
      /\ UNCHANGED <<mode, isa_running, arch_pc, actual, check_passed>>
  BY InterruptsAssumption DEF ExecuteInstruction, rtlVars
<1>3. PICK npc \in Pc, rd \in Result \union {NoRd}, s \in State :
        PushInstr(pc, npc, rd, s) /\ pc' = npc
  BY DEF ExecuteInstruction
<1>4. /\ UNCHANGED <<head, tail, length>>
      /\ BufferTypeOK'
      /\ db'[tail].a_pc = pc
      /\ db'[tail].a_next_pc = npc
      /\ db'[tail].a_num_rdst = IF rd = NoRd THEN 0 ELSE 1
      /\ rd # NoRd => db'[tail].a_rdst = rd
      /\ db'[tail].a_state = s
      /\ \A t \in Slots \ {tail} : db'[t] = db[t]
  BY <1>1, <1>3, PushInstrEffect
<1>5. TypeOK'
  BY <1>2, <1>3, <1>4 DEF IInv, TypeOK
<1>6. Written(db'[tail])
  BY <1>1, <1>4 DEF Written
<1>. QED
  BY <1>2, <1>4, <1>5, <1>6, IInvPush

LEMMA IInvTrap ==
  ASSUME IInv, TrapInstruction
  PROVE  IInv'
<1>1. /\ BufferTypeOK /\ open /\ pc \in Pc
      /\ db[tail].a_num_rdst = 0
  BY DEF IInv, TypeOK, OpenInv, TrapInstruction
<1>2. /\ ei' = FALSE /\ open' = FALSE
      /\ UNCHANGED <<mode, isa_running, arch_pc, actual, check_passed>>
  BY DEF TrapInstruction, rtlVars
<1>3. PICK handler \in Pc, s \in State : PushException(pc, handler, s) /\ pc' = handler
  BY DEF TrapInstruction
<1>4. /\ UNCHANGED <<head, tail, length>>
      /\ BufferTypeOK'
      /\ db'[tail].a_pc = pc
      /\ db'[tail].a_next_pc = handler
      /\ db'[tail].a_num_rdst = db[tail].a_num_rdst
      /\ db'[tail].a_state = s
      /\ \A t \in Slots \ {tail} : db'[t] = db[t]
  BY <1>1, <1>3, PushExceptionEffect
<1>5. TypeOK'
  BY <1>2, <1>3, <1>4 DEF IInv, TypeOK
<1>6. Written(db'[tail])
  BY <1>1, <1>4 DEF Written
<1>. QED
  BY <1>2, <1>4, <1>5, <1>6, IInvPush

(* The interrupt's pushes go to an entry that was complete before.         *)
LEMMA IInvInterrupt ==
  ASSUME IInv, TakeInterrupt
  PROVE  IInv'
<1>1. BufferTypeOK /\ RingInv /\ open = FALSE /\ pc \in Pc
  BY DEF IInv, TypeOK, TakeInterrupt
<1>2. /\ ei' = FALSE
      /\ UNCHANGED <<mode, open, isa_running, arch_pc, actual, check_passed>>
  BY DEF TakeInterrupt, rtlVars
<1>3. PICK handler \in Pc, s \in State : PushException(pc, handler, s) /\ pc' = handler
  BY DEF TakeInterrupt
<1>4. /\ UNCHANGED <<head, tail, length>>
      /\ BufferTypeOK'
      /\ db'[tail].a_pc = pc
      /\ db'[tail].a_next_pc = handler
      /\ db'[tail].a_num_rdst = db[tail].a_num_rdst
      /\ db'[tail].a_rdst = db[tail].a_rdst
      /\ db'[tail].a_state = s
      /\ \A t \in Slots \ {tail} : db'[t] = db[t]
  BY <1>1, <1>3, PushExceptionEffect
<1>5. TypeOK'
  BY <1>2, <1>3, <1>4 DEF IInv, TypeOK
<1>6. ASSUME length > 0 PROVE Written(db'[tail])
  <2>1. length \in 1 .. DEBUG_SIZE
    BY <1>1, <1>6, SizeIsPositive DEF BufferTypeOK, ACTIVE_SIZE
  <2>2. tail = At(length - 1) /\ length - 1 \in 0 .. (Completed - 1)
    BY <1>1, <1>6, <2>1, TailPosition DEF Completed
  <2>3. Written(db[tail])
    BY <2>2 DEF IInv, WrittenInv
  <2>. QED
    BY <1>1, <1>3, <1>4, <2>3 DEF Written
<1>. QED
  BY <1>1, <1>2, <1>4, <1>5, <1>6, IInvPush

LEMMA IInvCheckCall ==
  ASSUME IInv, CheckInstruction
  PROVE  IInv'
<1>1. BufferTypeOK /\ PopInvalidate
  BY DEF IInv, TypeOK, CheckInstruction
<1>2. /\ mode = "rtl" /\ mode' = "pop"
      /\ UNCHANGED <<open, pc, ei, isa_running, arch_pc, actual, check_passed>>
  BY DEF CheckInstruction, coreVars, rtlVars
<1>3. /\ UNCHANGED <<head, tail, length>>
      /\ BufferTypeOK'
      /\ \A s \in Slots :
           /\ db'[s].a_pc = db[s].a_pc
           /\ db'[s].a_next_pc = db[s].a_next_pc
           /\ db'[s].a_num_rdst = db[s].a_num_rdst
           /\ db'[s].a_rdst = db[s].a_rdst
           /\ db'[s].a_state = db[s].a_state
  BY <1>1, PopInvalidateEffect
<1>4. TypeOK'
  BY <1>2, <1>3 DEF IInv, TypeOK
<1>5. RingInv'
  BY <1>3 DEF IInv, RingInv, MOD
<1>6. ~open /\ ~open'
  BY <1>2 DEF IInv, OpenInv, InFunctionalStep
<1>7. WrittenInv'
  <2>1. Completed = length /\ Completed' = length
    BY <1>3, <1>6 DEF Completed
  <2>2. SUFFICES ASSUME NEW i \in 0 .. (length - 1)
                 PROVE  Written(db[At(i)])'
    BY <2>1 DEF WrittenInv
  <2>3. At(i)' = At(i)
    BY <1>3 DEF At, MOD
  <2>4. At(i) \in Slots
    BY <1>1, AtSlot, SizeIsPositive DEF BufferTypeOK, ACTIVE_SIZE
  <2>5. Written(db[At(i)])
    BY <2>1 DEF IInv, WrittenInv
  <2>. QED
    BY <1>3, <2>3, <2>4, <2>5 DEF Written
<1>. QED
  BY <1>4, <1>5, <1>6, <1>7 DEF IInv, OpenInv

LEMMA IInvCheckReturns ==
  ASSUME IInv, NEW r \in Report, CheckReturns(r)
  PROVE  IInv'
<1>1. /\ BufferTypeOK /\ PopAdvance /\ RingInv
      /\ open = FALSE
  BY DEF IInv, TypeOK, CheckReturns
<1>2. /\ mode' = "rtl"
      /\ actual' = head
      /\ arch_pc' = db[head].a_next_pc
      /\ check_passed' = ReportMatches(r, db[head])
      /\ UNCHANGED <<open, pc, ei, isa_running>>
  BY DEF CheckReturns, coreVars
<1>3. /\ length > 0
      /\ length' = length - 1
      /\ head' = MOD(head + 1)
      /\ UNCHANGED <<tail, db>>
      /\ BufferTypeOK'
  BY <1>1, PopAdvanceEffect
<1>4. /\ head \in Slots /\ head' \in Slots
      /\ length \in 1 .. DEBUG_SIZE
  BY <1>1, <1>3, SizeIsPositive DEF BufferTypeOK, ACTIVE_SIZE
<1>5. Completed = length /\ Completed' = length - 1
  BY <1>1, <1>2, <1>3 DEF Completed
<1>6. At(0) = head
  BY <1>4, AtSlot, SizeIsPositive DEF Slots
<1>7. TypeOK'
  <2>1. Written(db[head])
    <3>1. 0 \in 0 .. (Completed - 1)
      BY <1>4, <1>5
    <3>. QED
      BY <1>6, <3>1 DEF IInv, WrittenInv
  <2>2. check_passed' \in BOOLEAN
    BY <1>2 DEF ReportMatches
  <2>. QED
    BY <1>2, <1>3, <1>4, <2>1, <2>2 DEF IInv, TypeOK, Written
<1>8. RingInv'
  <2>1. MOD(tail + 1) = At(length)
    BY <1>1 DEF RingInv, At
  <2>2. length' \in 0 .. (DEBUG_SIZE - 1) /\ length' + 1 = length
    BY <1>3, <1>4, SizeIsPositive
  <2>3. MOD(head' + length') = At(length)
    BY <1>3, <1>4, <2>2, AtAdvance
  <2>4. RingInv' <=> MOD(tail' + 1) = MOD(head' + length')
    BY DEF RingInv, MOD
  <2>5. MOD(tail' + 1) = MOD(tail + 1)
    BY <1>3
  <2>. QED
    BY <2>1, <2>3, <2>4, <2>5
<1>9. OpenInv'
  BY <1>1, <1>2 DEF OpenInv
<1>10. WrittenInv'
  <2>1. SUFFICES ASSUME NEW i \in 0 .. (length - 2)
                 PROVE  Written(db[At(i)])'
    BY <1>4, <1>5 DEF WrittenInv
  <2>2. i \in 0 .. (DEBUG_SIZE - 1) /\ i + 1 \in 0 .. (Completed - 1)
    BY <1>4, <1>5, SizeIsPositive
  <2>3. At(i)' = At(i + 1)
    <3>1. At(i)' = MOD(head' + i)
      BY DEF At, MOD
    <3>. QED
      BY <1>3, <1>4, <2>2, <3>1, AtAdvance
  <2>4. Written(db[At(i + 1)])
    BY <2>2 DEF IInv, WrittenInv
  <2>. QED
    BY <1>3, <2>3, <2>4 DEF Written
<1>. QED
  BY <1>7, <1>8, <1>9, <1>10 DEF IInv

LEMMA IInvStep == IInv /\ [Next]_vars => IInv'
<1>. SUFFICES ASSUME IInv, [Next]_vars
              PROVE  IInv'
  OBVIOUS
<1>. USE DEF coreVars, rtlVars
<1>1. CASE TakeInterrupt
  BY <1>1, IInvInterrupt
<1>2. CASE BeginInstruction
  BY <1>2, IInvBegin
<1>3. CASE ExecuteInstruction
  BY <1>3, IInvExecute
<1>4. CASE TrapInstruction
  BY <1>4, IInvTrap
<1>5. CASE HostStopsCore
  <2>1. TypeOK'
    BY <1>5 DEF HostStopsCore, IInv, TypeOK, BufferTypeOK, bufferVars
  <2>. QED
    BY <1>5, <2>1, IInvBufferUnchanged DEF HostStopsCore
<1>6. CASE RunAheadReturns
  <2>1. TypeOK'
    BY <1>6 DEF RunAheadReturns, IInv, TypeOK, BufferTypeOK, bufferVars
  <2>. QED
    BY <1>6, <2>1, IInvBufferUnchanged DEF RunAheadReturns
<1>7. CASE CheckInstruction
  BY <1>7, IInvCheckCall
<1>8. CASE FirstAsserts
  <2>1. TypeOK'
    BY <1>8 DEF FirstAsserts, IInv, TypeOK, BufferTypeOK, bufferVars
  <2>2. ~open
    BY <1>8 DEF FirstAsserts, IInv, OpenInv, InFunctionalStep
  <2>. QED
    BY <1>8, <2>1, <2>2, IInvBufferUnchanged DEF FirstAsserts
<1>9. ASSUME NEW r \in Report, CheckReturns(r)
      PROVE  IInv'
  BY <1>9, IInvCheckReturns
<1>10. CASE PopAsserts
  <2>1. TypeOK'
    BY <1>10 DEF PopAsserts, IInv, TypeOK, BufferTypeOK, bufferVars
  <2>. QED
    BY <1>10, <2>1, IInvBufferUnchanged DEF PopAsserts
<1>11. CASE CheckFission
  <2>1. TypeOK'
    BY <1>11 DEF CheckFission, IInv, TypeOK, BufferTypeOK, bufferVars
  <2>. QED
    BY <1>11, <2>1, IInvBufferUnchanged DEF CheckFission
<1>12. CASE Aborted \/ UNCHANGED vars
  <2>1. UNCHANGED vars
    BY <1>12 DEF Aborted
  <2>2. TypeOK'
    BY <2>1 DEF vars, IInv, TypeOK, BufferTypeOK, bufferVars
  <2>. QED
    BY <2>1, <2>2, IInvBufferUnchanged DEF vars
<1>. QED
  BY <1>1, <1>2, <1>3, <1>4, <1>5, <1>6, <1>7, <1>8, <1>9, <1>10, <1>11, <1>12
     DEF Next, FunctionalStep

-----------------------------------------------------------------------------
(* Every behaviour, interrupts enabled or not, keeps the ring and the call *)
(* stack in the states the code is written for.                            *)
THEOREM InductiveInvariant == Spec => []IInv
  BY IInvInit, IInvStep, PTL DEF Spec

(* No step of the simulators or of the checker leaves the declared ranges: *)
(* head and tail stay inside the allocated entries, length never exceeds   *)
(* their number nor drops below zero, and arch_pc, which checkInstruction  *)
(* copies from the popped entry, is never read from an entry nobody wrote. *)
THEOREM TypeCorrect == Spec => []TypeOK
<1>1. IInv => TypeOK
  BY DEF IInv
<1>. QED
  BY <1>1, InductiveInvariant, PTL

-----------------------------------------------------------------------------
(* is_active compares a slot with head and tail alone. With the ring       *)
(* invariant that is membership in the window of "length" slots from head. *)
LEMMA WindowByComparison ==
  ASSUME BufferTypeOK, RingInv, NEW e \in Slots
  PROVE  IsActive(e) <=> \E i \in 0 .. (length - 1) : e = MOD(head + i)
<1>1. /\ head \in 0 .. (DEBUG_SIZE - 1)
      /\ tail \in 0 .. (DEBUG_SIZE - 1)
      /\ length \in 0 .. DEBUG_SIZE
      /\ e \in 0 .. (DEBUG_SIZE - 1)
      /\ DEBUG_SIZE \in Nat \ {0}
  BY SizeIsPositive DEF BufferTypeOK, ACTIVE_SIZE, Slots
<1>2. CASE length = 0
  BY <1>2 DEF IsActive
<1>3. CASE length > 0
  <2>1. tail = IF head + (length - 1) < DEBUG_SIZE
               THEN head + (length - 1) ELSE head + (length - 1) - DEBUG_SIZE
    <3>1. tail = At(length - 1)
      BY <1>3, TailPosition
    <3>. QED
      BY <1>1, <1>3, <3>1, AtSlot DEF Slots
  <2>2. IsActive(e) <=> IF head <= tail THEN e >= head /\ e <= tail
                                        ELSE e >= head \/ e <= tail
    BY <1>3 DEF IsActive
  <2>3. ASSUME IsActive(e)
        PROVE  \E i \in 0 .. (length - 1) : e = MOD(head + i)
    <3>. DEFINE i == IF e >= head THEN e - head ELSE e - head + DEBUG_SIZE
    <3>1. i \in 0 .. (length - 1)
      BY <1>1, <1>3, <2>1, <2>2, <2>3
    <3>2. MOD(head + i) = IF head + i < DEBUG_SIZE THEN head + i ELSE head + i - DEBUG_SIZE
      <4>1. head + i \in 0 .. (2 * DEBUG_SIZE - 1)
        BY <1>1, <3>1
      <4>. QED
        BY <1>1, <3>1, <4>1, ModOnce
    <3>3. e = MOD(head + i)
      BY <1>1, <3>2
    <3>. QED
      BY <3>1, <3>3
  <2>4. ASSUME NEW i \in 0 .. (length - 1), e = MOD(head + i)
        PROVE  IsActive(e)
    <3>1. e = IF head + i < DEBUG_SIZE THEN head + i ELSE head + i - DEBUG_SIZE
      <4>1. head + i \in 0 .. (2 * DEBUG_SIZE - 1)
        BY <1>1
      <4>. QED
        BY <1>1, <2>4, <4>1, ModOnce
    <3>. QED
      BY <1>1, <1>3, <2>1, <2>2, <3>1
  <2>. QED
    BY <2>3, <2>4
<1>. QED
  BY <1>1, <1>2, <1>3

(* In every reachable state, is_active(e) answers whether e is one of the  *)
(* "length" entries from head on, for every ring size and every wrap.      *)
THEOREM ActiveWindow == Spec => []ActiveIsWindow
<1>1. IInv => ActiveIsWindow
  <2>. SUFFICES ASSUME IInv, NEW e \in Slots
                PROVE  IsActive(e) <=> \E i \in 0 .. (length - 1) : e = MOD(head + i)
    BY DEF ActiveIsWindow
  <2>. QED
    BY WindowByComparison DEF IInv, TypeOK
<1>. QED
  BY <1>1, InductiveInvariant, PTL

-----------------------------------------------------------------------------
(* Whenever the RTL gets control back and the program has not ended, the   *)
(* functional simulator is ACTIVE_SIZE - 1 instructions ahead or more.     *)
THEOREM Lookahead == Spec => []LookaheadKept
<1>1. Init => LookaheadKept
  BY DEF Init, LookaheadKept
<1>2. LookaheadKept /\ IInv /\ [Next]_vars => LookaheadKept'
  <2>. SUFFICES ASSUME LookaheadKept, IInv, [Next]_vars, mode' = "rtl", isa_running'
                PROVE  length' >= ACTIVE_SIZE - 1
    BY DEF LookaheadKept
  <2>1. length \in 0 .. DEBUG_SIZE /\ ACTIVE_SIZE = DEBUG_SIZE /\ DEBUG_SIZE \in Nat
    BY SizeIsPositive DEF IInv, TypeOK, BufferTypeOK, ACTIVE_SIZE
  <2>2. CASE FunctionalStep
    BY <2>2 DEF FunctionalStep, TakeInterrupt, BeginInstruction, ExecuteInstruction,
                TrapInstruction, HostStopsCore, InFunctionalStep
  <2>3. CASE RunAheadReturns
    <3>1. ~RefillWanted /\ isa_running /\ length' = length
      BY <2>3 DEF RunAheadReturns, coreVars, bufferVars
    <3>2. ~(length < DEBUG_SIZE)
      BY <2>1, <3>1 DEF RefillWanted, Hungry
    <3>. QED
      BY <2>1, <3>1, <3>2
  <2>4. ASSUME NEW r \in Report, CheckReturns(r)
        PROVE  length' >= ACTIVE_SIZE - 1
    <3>1. ~RefillWanted /\ isa_running /\ length' = length - 1
      BY <2>4 DEF CheckReturns, PopLoopDone, PopAdvance, coreVars
    <3>2. ~(length < DEBUG_SIZE)
      BY <2>1, <3>1 DEF RefillWanted, Hungry
    <3>. QED
      BY <2>1, <3>1, <3>2
  <2>5. CASE CheckInstruction \/ FirstAsserts \/ PopAsserts
    BY <2>5 DEF CheckInstruction, FirstAsserts, PopAsserts
  <2>6. CASE CheckFission \/ Aborted \/ UNCHANGED vars
    <3>1. UNCHANGED <<length, mode, isa_running>>
      BY <2>6 DEF CheckFission, Aborted, vars, bufferVars, coreVars
    <3>. QED
      BY <3>1 DEF LookaheadKept
  <2>. QED
    BY <2>2, <2>3, <2>4, <2>5, <2>6 DEF Next
<1>. QED
  BY <1>1, <1>2, InductiveInvariant, PTL DEF Spec

-----------------------------------------------------------------------------
(* The path through the buffer. It needs a program that never enables      *)
(* interrupts: CoSimInterrupt.cfg shows how one interrupt breaks it.       *)

(* Positions, and the pc fields of the entries at them, have not changed.  *)
LEMMA ChainSameEntries ==
  ASSUME IInv, ChainInv, ei' = ei,
         UNCHANGED <<head, pc, arch_pc>>, Completed' = Completed,
         \A s \in Slots : /\ db'[s].a_pc = db[s].a_pc
                          /\ db'[s].a_next_pc = db[s].a_next_pc
  PROVE  ChainInv'
<1>1. Completed \in 0 .. DEBUG_SIZE
  BY SizeIsPositive DEF IInv, TypeOK, BufferTypeOK, ACTIVE_SIZE, OpenInv, Completed
<1>2. \A i \in 0 .. (Completed - 1) :
        /\ At(i)' = At(i)
        /\ db'[At(i)].a_pc = db[At(i)].a_pc
        /\ db'[At(i)].a_next_pc = db[At(i)].a_next_pc
  <2>. SUFFICES ASSUME NEW i \in 0 .. (Completed - 1)
                PROVE  At(i)' = At(i) /\ At(i) \in Slots
    OBVIOUS
  <2>1. At(i) \in Slots
    BY <1>1, AtSlot, SizeIsPositive DEF IInv, TypeOK, BufferTypeOK
  <2>. QED
    BY <2>1 DEF At, MOD
<1>3. ASSUME NEW i \in 1 .. (Completed - 1)
      PROVE  db'[At(i - 1)'].a_next_pc = db'[At(i)'].a_pc
  <2>1. i \in 0 .. (Completed - 1) /\ i - 1 \in 0 .. (Completed - 1)
    BY <1>1
  <2>. QED
    BY <1>2, <2>1 DEF ChainInv
<1>4. ASSUME Completed > 0
      PROVE  /\ db'[At(0)'].a_pc = arch_pc'
             /\ db'[MOD(head' + (Completed' - 1))].a_next_pc = pc'
  <2>1. 0 \in 0 .. (Completed - 1) /\ Completed - 1 \in 0 .. (Completed - 1)
    BY <1>1, <1>4
  <2>2. MOD(head' + (Completed' - 1)) = At(Completed - 1)
    BY DEF At
  <2>. QED
    BY <1>2, <1>4, <2>1, <2>2 DEF ChainInv
<1>. QED
  BY <1>3, <1>4 DEF ChainInv, At, MOD

(* The entry that becomes complete continues the path.                     *)
LEMMA ChainPush ==
  ASSUME IInv, ChainInv, ei' = FALSE, open, ~open',
         UNCHANGED <<head, tail, length, arch_pc>>,
         \A s \in Slots \ {tail} : db'[s] = db[s],
         db'[tail].a_pc = pc, db'[tail].a_next_pc = pc'
  PROVE  ChainInv'
<1>1. length \in 1 .. DEBUG_SIZE /\ head \in Slots /\ BufferTypeOK /\ RingInv
  BY SizeIsPositive DEF IInv, TypeOK, BufferTypeOK, ACTIVE_SIZE, OpenInv
<1>2. Completed = length - 1 /\ Completed' = length
  BY DEF Completed
<1>3. tail = At(length - 1)
  BY <1>1, TailPosition
<1>4. \A i \in 0 .. (length - 2) : db'[At(i)] = db[At(i)]
  <2>. SUFFICES ASSUME NEW i \in 0 .. (length - 2)
                PROVE  At(i) \in Slots \ {tail}
    OBVIOUS
  <2>1. /\ i \in 0 .. (DEBUG_SIZE - 1) /\ length - 1 \in 0 .. (DEBUG_SIZE - 1)
        /\ i # length - 1
    BY <1>1, SizeIsPositive
  <2>. QED
    BY <1>1, <1>3, <2>1, AtSlot, AtInjective, SizeIsPositive
<1>5. ASSUME NEW i \in 1 .. (length - 1)
      PROVE  db'[At(i - 1)].a_next_pc = db'[At(i)].a_pc
  <2>1. i - 1 \in 0 .. (length - 2)
    BY <1>1
  <2>2. db'[At(i - 1)].a_next_pc = db[At(i - 1)].a_next_pc
    BY <1>4, <2>1
  <2>3. CASE i = length - 1
    <3>1. Completed > 0 /\ i - 1 = Completed - 1
      BY <1>1, <1>2, <2>3
    <3>2. db[At(i - 1)].a_next_pc = pc
      BY <3>1 DEF ChainInv
    <3>. QED
      BY <1>3, <2>2, <2>3, <3>2
  <2>4. CASE i # length - 1
    <3>1. i \in 0 .. (length - 2) /\ i \in 1 .. (Completed - 1)
      BY <1>1, <1>2, <2>4
    <3>2. db'[At(i)].a_pc = db[At(i)].a_pc
      BY <1>4, <3>1
    <3>. QED
      BY <2>2, <3>1, <3>2 DEF ChainInv
  <2>. QED
    BY <2>3, <2>4
<1>6. db'[At(0)].a_pc = arch_pc
  <2>1. CASE length = 1
    <3>1. Completed = 0 /\ tail = At(0)
      BY <1>2, <1>3, <2>1
    <3>. QED
      BY <3>1 DEF ChainInv
  <2>2. CASE length # 1
    <3>1. Completed > 0 /\ 0 \in 0 .. (length - 2)
      BY <1>1, <1>2, <2>2
    <3>. QED
      BY <1>4, <3>1 DEF ChainInv
  <2>. QED
    BY <2>1, <2>2
<1>7. \A i : At(i)' = At(i)
  BY DEF At, MOD
<1>8. MOD(head' + (Completed' - 1)) = tail
  BY <1>2, <1>3 DEF At
<1>. QED
  BY <1>1, <1>2, <1>5, <1>6, <1>7, <1>8 DEF ChainInv, At, MOD

(* The oldest entry leaves the path, and arch_pc moves to its successor.   *)
LEMMA ChainPop ==
  ASSUME IInv, ChainInv, NEW r \in Report, CheckReturns(r)
  PROVE  ChainInv'
<1>1. /\ BufferTypeOK /\ PopAdvance /\ ~open /\ ~open'
      /\ arch_pc' = db[head].a_next_pc
      /\ pc' = pc /\ ei' = FALSE
  BY DEF IInv, TypeOK, CheckReturns, coreVars, ChainInv
<1>2. /\ length' = length - 1
      /\ head' = MOD(head + 1)
      /\ db' = db
      /\ length \in 1 .. DEBUG_SIZE
      /\ head \in Slots
  BY <1>1, PopAdvanceEffect, SizeIsPositive DEF BufferTypeOK, ACTIVE_SIZE
<1>3. Completed = length /\ Completed' = length - 1
  BY <1>1, <1>2 DEF Completed
<1>4. \A i \in 0 .. (DEBUG_SIZE - 1) : MOD(head' + i) = At(i + 1)
  BY <1>2, AtAdvance
<1>5. head = At(0)
  BY <1>2, AtSlot, SizeIsPositive DEF Slots
<1>6. ASSUME NEW i \in 1 .. (length - 2)
      PROVE  db[MOD(head' + (i - 1))].a_next_pc = db[MOD(head' + i)].a_pc
  <2>1. /\ i - 1 \in 0 .. (DEBUG_SIZE - 1) /\ i \in 0 .. (DEBUG_SIZE - 1)
        /\ i + 1 \in 1 .. (Completed - 1)
        /\ (i - 1) + 1 = i /\ (i + 1) - 1 = i
    BY <1>2, <1>3, SizeIsPositive
  <2>2. MOD(head' + (i - 1)) = At(i) /\ MOD(head' + i) = At(i + 1)
    BY <1>4, <2>1
  <2>3. db[At((i + 1) - 1)].a_next_pc = db[At(i + 1)].a_pc
    BY <2>1 DEF ChainInv
  <2>. QED
    BY <2>1, <2>2, <2>3
<1>7. ASSUME length - 1 > 0
      PROVE  /\ db[MOD(head' + 0)].a_pc = arch_pc'
             /\ db[MOD(head' + (length - 2))].a_next_pc = pc
  <2>1. /\ 0 \in 0 .. (DEBUG_SIZE - 1) /\ length - 2 \in 0 .. (DEBUG_SIZE - 1)
        /\ 1 \in 1 .. (Completed - 1) /\ Completed > 0
        /\ (length - 2) + 1 = Completed - 1 /\ 0 + 1 = 1 /\ 1 - 1 = 0
    BY <1>2, <1>3, <1>7, SizeIsPositive
  <2>2. MOD(head' + 0) = At(1) /\ MOD(head' + (length - 2)) = At(Completed - 1)
    BY <1>4, <2>1
  <2>3. db[At(1 - 1)].a_next_pc = db[At(1)].a_pc
    BY <2>1 DEF ChainInv
  <2>4. db[At(Completed - 1)].a_next_pc = pc
    BY <2>1 DEF ChainInv
  <2>. QED
    BY <1>1, <1>5, <2>1, <2>2, <2>3, <2>4
<1>8. ASSUME length - 1 = 0
      PROVE  arch_pc' = pc
  <2>1. Completed > 0 /\ Completed - 1 = 0
    BY <1>2, <1>3, <1>8
  <2>2. db[At(0)].a_next_pc = pc
    BY <2>1 DEF ChainInv
  <2>. QED
    BY <1>1, <1>5, <2>2
<1>9. Completed' - 1 = length - 2
  BY <1>2, <1>3
<1>10. ChainInv' <=>
         /\ ei' = FALSE
         /\ \A i \in 1 .. (Completed' - 1) :
              db'[MOD(head' + (i - 1))].a_next_pc = db'[MOD(head' + i)].a_pc
         /\ Completed' > 0 => /\ db'[MOD(head' + 0)].a_pc = arch_pc'
                              /\ db'[MOD(head' + (Completed' - 1))].a_next_pc = pc'
         /\ Completed' = 0 => arch_pc' = pc'
  BY DEF ChainInv, At, MOD
<1>. QED
  BY <1>1, <1>2, <1>3, <1>6, <1>7, <1>8, <1>9, <1>10

LEMMA ChainStep ==
  ASSUME Interrupts = FALSE
  PROVE  IInv /\ ChainInv /\ [Next]_vars => ChainInv'
<1>. SUFFICES ASSUME IInv, ChainInv, [Next]_vars
              PROVE  ChainInv'
  OBVIOUS
<1>1. CASE TakeInterrupt
  BY <1>1 DEF TakeInterrupt, ChainInv
<1>2. CASE BeginInstruction
  <2>1. /\ BufferTypeOK /\ Start /\ ~open /\ open'
        /\ UNCHANGED <<pc, ei, arch_pc>>
    BY <1>2 DEF BeginInstruction, IInv, TypeOK, coreVars, rtlVars
  <2>2. /\ head' = head /\ length' = length + 1
        /\ \A s \in Slots : /\ db'[s].a_pc = db[s].a_pc
                            /\ db'[s].a_next_pc = db[s].a_next_pc
    BY <2>1, StartEffect
  <2>3. Completed' = Completed
    BY <2>1, <2>2 DEF Completed, BufferTypeOK, ACTIVE_SIZE
  <2>. QED
    BY <2>1, <2>2, <2>3, ChainSameEntries
<1>3. CASE ExecuteInstruction
  <2>1. /\ BufferTypeOK /\ open /\ ~open' /\ ei' = FALSE /\ pc \in Pc
        /\ db[tail].a_num_rdst = 0 /\ arch_pc' = arch_pc
    BY <1>3 DEF ExecuteInstruction, IInv, TypeOK, OpenInv, rtlVars
  <2>2. PICK npc \in Pc, rd \in Result \union {NoRd}, s \in State :
          PushInstr(pc, npc, rd, s) /\ pc' = npc
    BY <1>3 DEF ExecuteInstruction
  <2>3. /\ UNCHANGED <<head, tail, length>>
        /\ db'[tail].a_pc = pc /\ db'[tail].a_next_pc = pc'
        /\ \A t \in Slots \ {tail} : db'[t] = db[t]
    BY <2>1, <2>2, PushInstrEffect
  <2>. QED
    BY <2>1, <2>3, ChainPush
<1>4. CASE TrapInstruction
  <2>1. /\ BufferTypeOK /\ open /\ ~open' /\ ei' = FALSE /\ pc \in Pc
        /\ arch_pc' = arch_pc
    BY <1>4 DEF TrapInstruction, IInv, TypeOK, rtlVars
  <2>2. PICK handler \in Pc, s \in State : PushException(pc, handler, s) /\ pc' = handler
    BY <1>4 DEF TrapInstruction
  <2>3. /\ UNCHANGED <<head, tail, length>>
        /\ db'[tail].a_pc = pc /\ db'[tail].a_next_pc = pc'
        /\ \A t \in Slots \ {tail} : db'[t] = db[t]
    BY <2>1, <2>2, PushExceptionEffect
  <2>. QED
    BY <2>1, <2>3, ChainPush
<1>5. CASE CheckInstruction
  <2>1. BufferTypeOK /\ PopInvalidate /\ UNCHANGED <<open, pc, ei, arch_pc>>
    BY <1>5 DEF CheckInstruction, IInv, TypeOK, coreVars, rtlVars
  <2>2. /\ UNCHANGED <<head, tail, length>>
        /\ \A s \in Slots : /\ db'[s].a_pc = db[s].a_pc
                            /\ db'[s].a_next_pc = db[s].a_next_pc
    BY <2>1, PopInvalidateEffect
  <2>3. Completed' = Completed
    BY <2>1, <2>2 DEF Completed
  <2>. QED
    BY <2>1, <2>2, <2>3, ChainSameEntries
<1>6. ASSUME NEW r \in Report, CheckReturns(r)
      PROVE  ChainInv'
  BY <1>6, ChainPop
<1>7. CASE \/ HostStopsCore \/ RunAheadReturns \/ FirstAsserts \/ PopAsserts
           \/ CheckFission \/ Aborted \/ UNCHANGED vars
  <2>1. UNCHANGED <<head, length, db, open, pc, ei, arch_pc>>
    BY <1>7 DEF HostStopsCore, RunAheadReturns, FirstAsserts, PopAsserts, CheckFission,
                Aborted, vars, bufferVars, coreVars, rtlVars
  <2>2. Completed' = Completed
    BY <2>1 DEF Completed
  <2>. QED
    BY <2>1, <2>2, ChainSameEntries
<1>. QED
  BY <1>1, <1>2, <1>3, <1>4, <1>5, <1>6, <1>7 DEF Next, FunctionalStep

(* As long as the program never enables interrupts, first(arch_pc) never   *)
(* asserts on an instruction that is there: the head entry is always the   *)
(* successor of the instruction checkInstruction accepted last.            *)
THEOREM HeadIsArchPc ==
  ASSUME Interrupts = FALSE
  PROVE  Spec => []FirstFindsArchPc
<1>1. Init => ChainInv
  BY SizeIsPositive DEF Init, BufferInit, ChainInv, Completed
<1>2. IInv /\ ChainInv /\ [Next]_vars => ChainInv'
  BY ChainStep
<1>3. IInv /\ ChainInv => FirstFindsArchPc
  <2>. SUFFICES ASSUME IInv, ChainInv, mode = "rtl", length > 0
                PROVE  arch_pc = db[head].a_pc
    BY DEF FirstFindsArchPc, FirstSucceeds
  <2>1. Completed > 0
    BY DEF IInv, OpenInv, InFunctionalStep, Completed
  <2>2. At(0) = head
    BY AtSlot, SizeIsPositive DEF IInv, TypeOK, BufferTypeOK, Slots
  <2>. QED
    BY <2>1, <2>2 DEF ChainInv
<1>. QED
  BY <1>1, <1>2, <1>3, InductiveInvariant, PTL DEF Spec

-----------------------------------------------------------------------------
(* CoSim implements LockstepChecker for every ring size and every program  *)
(* that never enables interrupts.                                          *)
(*                                                                         *)
(* The ring holds one path of instructions (ChainInv). What is left to     *)
(* show is how Pending, the queue that LockstepChecker sees, changes: it   *)
(* grows at its end when an entry is completed, loses its front when pop   *)
(* advances head, and does not change otherwise.                           *)

(* What LockstepChecker sees of an entry.                                  *)
Retired(e) ==
  [ pc      |-> e.a_pc,
    next_pc |-> e.a_next_pc,
    rd      |-> IF e.a_num_rdst = 0 THEN NoRd ELSE e.a_rdst,
    state   |-> e.a_state ]

LEMMA PendingItems == Pending = [i \in 1 .. Completed |-> Retired(db[At(i - 1)])]
<1>1. \A i \in 1 .. Completed : head + i - 1 = head + (i - 1)
  OBVIOUS
<1> QED
  BY <1>1 DEF Pending, Completed, Retired, At

LEMMA SeqOfFunction ==
  ASSUME NEW S, NEW n \in Nat, NEW f \in [1 .. n -> S]
  PROVE  f \in Seq(S) /\ Len(f) = n
  OBVIOUS

LEMMA CompletedRange ==
  ASSUME IInv
  PROVE  /\ Completed \in 0 .. DEBUG_SIZE
         /\ length \in 0 .. DEBUG_SIZE /\ head \in Slots /\ tail \in Slots
         /\ BufferTypeOK /\ RingInv
         /\ open => Completed = length - 1 /\ length > 0
         /\ ~open => Completed = length
  BY SizeIsPositive DEF IInv, TypeOK, BufferTypeOK, ACTIVE_SIZE, OpenInv, Completed

LEMMA RetiredIsInstr ==
  ASSUME NEW e \in Entry, Written(e)
  PROVE  Retired(e) \in Promise!Instr
<1>1. (IF e.a_num_rdst = 0 THEN NoRd ELSE e.a_rdst) \in Result \union {NoRd}
  BY DEF Written, Entry
<1> QED
  BY <1>1 DEF Written, Retired, Promise!Instr

PendingInv ==
  /\ Pending \in Seq(Promise!Instr)
  /\ Len(Pending) = Completed
  /\ \A i \in 1 .. Completed : Pending[i] = Retired(db[At(i - 1)])

LEMMA PendingType == IInv => PendingInv
<1> SUFFICES ASSUME IInv PROVE PendingInv
  OBVIOUS
<1>1. ASSUME NEW i \in 1 .. Completed
      PROVE  Retired(db[At(i - 1)]) \in Promise!Instr
  <2>1. i - 1 \in 0 .. (Completed - 1) /\ i - 1 \in 0 .. DEBUG_SIZE
    BY CompletedRange, SizeIsPositive
  <2>2. At(i - 1) \in Slots
    BY <2>1, AtSlot, CompletedRange
  <2>3. db[At(i - 1)] \in Entry
    BY <2>2, CompletedRange DEF BufferTypeOK
  <2>4. Written(db[At(i - 1)])
    BY <2>1 DEF IInv, WrittenInv
  <2> QED
    BY <2>3, <2>4, RetiredIsInstr
<1>2. Pending \in [1 .. Completed -> Promise!Instr]
  BY <1>1, PendingItems
<1>3. Completed \in Nat
  BY CompletedRange, SizeIsPositive
<1>4. \A i \in 1 .. Completed : Pending[i] = Retired(db[At(i - 1)])
  BY PendingItems
<1> QED
  BY <1>2, <1>3, <1>4, SeqOfFunction DEF PendingInv

(* The same after a step.                                                  *)
LEMMA PendingTypeNext ==
  ASSUME IInv'
  PROVE  /\ Pending' \in Seq(Promise!Instr)
         /\ Len(Pending') = Completed'
         /\ \A i \in 1 .. Completed' : Pending'[i] = Retired(db'[MOD(head' + (i - 1))])
<1>1. PendingInv'
  BY PendingType, PTL
<1> QED
  BY <1>1 DEF PendingInv, Retired, At, MOD, Promise!Instr

(* Two queues with the same instructions are one.                          *)
LEMMA SameQueue ==
  ASSUME NEW S, NEW s \in Seq(S), NEW t \in Seq(S), Len(s) = Len(t),
         \A i \in 1 .. Len(s) : s[i] = t[i]
  PROVE  s = t
  BY SeqEqual

(* No completed entry is added, removed or changed.                        *)
LEMMA PendingSame ==
  ASSUME IInv, IInv', head' = head, Completed' = Completed,
         \A i \in 0 .. (Completed - 1) :
           At(i) \in Slots => Retired(db'[At(i)]) = Retired(db[At(i)])
  PROVE  Pending' = Pending
<1>1. PendingInv /\ Completed \in 0 .. DEBUG_SIZE /\ head \in Slots
  BY PendingType, CompletedRange
<1>2. ASSUME NEW i \in 1 .. Completed
      PROVE  Pending'[i] = Pending[i]
  <2>1. i - 1 \in 0 .. (Completed - 1) /\ i - 1 \in 0 .. DEBUG_SIZE
    BY <1>1, SizeIsPositive
  <2>2. At(i - 1) \in Slots /\ At(i - 1) = MOD(head' + (i - 1))
    BY <1>1, <2>1, AtSlot DEF At
  <2>3. Pending'[i] = Retired(db'[At(i - 1)])
    BY <2>2, PendingTypeNext
  <2> QED
    BY <1>1, <2>1, <2>2, <2>3 DEF PendingInv
<1> QED
  BY <1>1, <1>2, PendingTypeNext, SameQueue DEF PendingInv

(* The entry that becomes complete is the new end of the queue.            *)
LEMMA PendingPush ==
  ASSUME IInv, IInv', open, ~open', UNCHANGED <<head, tail, length>>,
         \A s \in Slots \ {tail} : db'[s] = db[s]
  PROVE  Pending' = Append(Pending, Retired(db'[tail]))
<1>1. /\ PendingInv
      /\ length \in 1 .. DEBUG_SIZE /\ head \in Slots
      /\ Completed = length - 1 /\ Completed' = length
  BY PendingType, CompletedRange, SizeIsPositive DEF Completed
<1>2. tail = At(length - 1)
  BY <1>1, TailPosition, CompletedRange
<1>3. ASSUME NEW i \in 1 .. length
      PROVE  Pending'[i] = IF i = length THEN Retired(db'[tail]) ELSE Pending[i]
  <2>1. i - 1 \in 0 .. (DEBUG_SIZE - 1) /\ length - 1 \in 0 .. (DEBUG_SIZE - 1)
    BY <1>1, SizeIsPositive
  <2>2. At(i - 1) \in Slots /\ At(i - 1) = MOD(head' + (i - 1))
    BY <1>1, <2>1, AtSlot, SizeIsPositive DEF At
  <2>3. Pending'[i] = Retired(db'[At(i - 1)])
    BY <1>1, <2>2, PendingTypeNext
  <2>4. CASE i = length
    BY <1>2, <2>3, <2>4
  <2>5. CASE i # length
    <3>1. At(i - 1) # tail /\ i \in 1 .. Completed
      BY <1>1, <1>2, <2>1, <2>5, AtInjective, SizeIsPositive
    <3>2. db'[At(i - 1)] = db[At(i - 1)]
      BY <2>2, <3>1
    <3> QED
      BY <1>1, <2>3, <2>5, <3>1, <3>2 DEF PendingInv
  <2> QED
    BY <2>4, <2>5
<1> DEFINE item == Retired(db'[tail])
           extended == Append(Pending, item)
<1>4. item \in Promise!Instr
  <2>1. Pending'[length] = item
    BY <1>1, <1>3
  <2> QED
    BY <1>1, <2>1, PendingTypeNext, LenProperties
<1> HIDE DEF item
<1>5. /\ extended \in Seq(Promise!Instr)
      /\ Len(extended) = length
      /\ \A i \in 1 .. Len(Pending) : extended[i] = Pending[i]
      /\ extended[Len(Pending) + 1] = item
  BY <1>1, <1>4, AppendProperties DEF PendingInv
<1>6. ASSUME NEW i \in 1 .. length
      PROVE  extended[i] = IF i = length THEN item ELSE Pending[i]
  BY <1>1, <1>5 DEF PendingInv
<1>7. \A i \in 1 .. length : Pending'[i] = IF i = length THEN item ELSE Pending[i]
  BY <1>3 DEF item
<1> HIDE DEF extended
<1>8. Pending' = extended
  BY <1>1, <1>5, <1>6, <1>7, PendingTypeNext, SameQueue
<1> QED
  BY <1>8 DEF extended, item

(* pop takes the front of the queue.                                       *)
LEMMA PendingPop ==
  ASSUME IInv, IInv', ~open, ~open', PopAdvance
  PROVE  /\ Pending # <<>>
         /\ Head(Pending) = Retired(db[head])
         /\ Pending' = Tail(Pending)
<1>1. /\ PendingInv /\ head \in Slots
      /\ length \in 1 .. DEBUG_SIZE /\ length' = length - 1
      /\ head' = MOD(head + 1) /\ db' = db
      /\ Completed = length /\ Completed' = length - 1
  BY PendingType, CompletedRange, PopAdvanceEffect, SizeIsPositive DEF Completed
<1>2. Pending # <<>>
  BY <1>1, EmptySeq DEF PendingInv
<1>3. Head(Pending) = Retired(db[head])
  <2>1. At(0) = head
    BY <1>1, AtSlot, SizeIsPositive DEF Slots
  <2>2. Pending[1] = Retired(db[At(1 - 1)])
    BY <1>1 DEF PendingInv
  <2>3. Head(Pending) = Pending[1]
    BY <1>1, <1>2 DEF PendingInv
  <2> QED
    BY <2>1, <2>2, <2>3
<1>4. /\ Tail(Pending) \in Seq(Promise!Instr)
      /\ Len(Tail(Pending)) = length - 1
      /\ \A i \in 1 .. (length - 1) : Tail(Pending)[i] = Pending[i + 1]
  BY <1>1, <1>2, HeadTailProperties DEF PendingInv
<1>5. ASSUME NEW i \in 1 .. (length - 1)
      PROVE  Pending'[i] = Pending[i + 1]
  <2>1. /\ i - 1 \in 0 .. (DEBUG_SIZE - 1) /\ (i - 1) + 1 = i
        /\ i + 1 \in 1 .. Completed /\ (i + 1) - 1 = i
    BY <1>1, SizeIsPositive
  <2>2. MOD(head' + (i - 1)) = At((i - 1) + 1)
    BY <1>1, <2>1, AtAdvance
  <2>3. Pending'[i] = Retired(db[At(i)])
    BY <1>1, <2>1, <2>2, PendingTypeNext
  <2>4. Pending[i + 1] = Retired(db[At((i + 1) - 1)])
    BY <1>1, <2>1 DEF PendingInv
  <2> QED
    BY <2>1, <2>3, <2>4
<1>6. Pending' = Tail(Pending)
  BY <1>1, <1>4, <1>5, PendingTypeNext, SameQueue
<1> QED
  BY <1>2, <1>3, <1>6

-----------------------------------------------------------------------------
(* Each step is one of LockstepChecker, or a stutter.                      *)

LEMMA SameVerdict ==
  ASSUME NEW e \in Entry, NEW r \in Report
  PROVE  ReportMatches(r, e) <=> Promise!Matches(Retired(e), r)
<1>1. e.a_num_rdst > 0 <=> Retired(e).rd # NoRd
  BY GarbageAssumption DEF Retired, Entry
<1>2. e.a_num_rdst > 0 => Retired(e).rd = e.a_rdst
  BY DEF Retired, Entry
<1>3. Retired(e).pc = e.a_pc /\ Retired(e).state = e.a_state
  BY DEF Retired
<1> QED
  BY <1>1, <1>2, <1>3 DEF ReportMatches, Promise!Matches

(* An instruction that completes the open entry retires.                   *)
LEMMA RetireStep ==
  ASSUME IInv, IInv', open, ~open', UNCHANGED <<head, tail, length, rtlVars>>,
         \A s \in Slots \ {tail} : db'[s] = db[s],
         db'[tail].a_pc = pc, db'[tail].a_next_pc = pc'
  PROVE  Promise!Next
<1> DEFINE item == Retired(db'[tail])
<1>1. Pending' = Append(Pending, item)
  BY PendingPush
<1>2. /\ PendingInv /\ length \in 1 .. DEBUG_SIZE
      /\ Completed = length - 1 /\ Completed' = length
  BY PendingType, CompletedRange, SizeIsPositive DEF Completed
<1>3. Len(Pending) < ACTIVE_SIZE
  BY <1>2, SizeIsPositive DEF PendingInv, ACTIVE_SIZE
<1>4. item \in Promise!Instr
  <2>1. /\ Pending' \in Seq(Promise!Instr)
        /\ Len(Pending') = length
    BY <1>2, PendingTypeNext
  <2>2. Pending'[length] = item
    BY <1>1, <1>2 DEF PendingInv
  <2> QED
    BY <1>2, <2>1, <2>2, LenProperties
<1>5. item.pc = pc /\ item.next_pc = pc'
  BY DEF Retired
<1> HIDE DEF item
<1>6. Promise!Retire(item)
  BY <1>1, <1>3, <1>5 DEF Promise!Retire, rtlVars
<1> QED
  BY <1>4, <1>6 DEF Promise!Next

LEMMA PromiseStep ==
  ASSUME Interrupts = FALSE
  PROVE  IInv /\ IInv' /\ ChainInv /\ [Next]_vars => [Promise!Next]_(Promise!vars)
<1> SUFFICES ASSUME IInv, IInv', ChainInv, [Next]_vars
             PROVE  Promise!Next \/ UNCHANGED <<Pending, pc, arch_pc, check_passed>>
  BY DEF Promise!vars
<1>0. BufferTypeOK /\ head \in Slots /\ tail \in Slots /\ pc \in Pc
  BY CompletedRange DEF IInv, TypeOK
<1>1. CASE TakeInterrupt
  BY <1>1 DEF TakeInterrupt, ChainInv
<1>2. CASE BeginInstruction
  <2>1. Start /\ ~open /\ open' /\ UNCHANGED <<pc, arch_pc, check_passed>>
    BY <1>2 DEF BeginInstruction, coreVars, rtlVars
  <2>2. /\ head' = head /\ length' = length + 1 /\ tail' = MOD(tail + 1)
        /\ length < DEBUG_SIZE
        /\ \A s \in Slots :
             /\ db'[s].a_pc = db[s].a_pc
             /\ db'[s].a_next_pc = db[s].a_next_pc
             /\ s # tail' => db'[s].a_num_rdst = db[s].a_num_rdst
             /\ db'[s].a_rdst = db[s].a_rdst
             /\ db'[s].a_state = db[s].a_state
    BY <1>0, <2>1, StartEffect
  <2>3. Completed = length /\ Completed' = length /\ length \in 0 .. (DEBUG_SIZE - 1)
    BY <2>1, <2>2, CompletedRange, SizeIsPositive DEF Completed
  <2>4. tail' = At(length)
    BY <2>2 DEF IInv, RingInv, At
  <2>5. ASSUME NEW i \in 0 .. (Completed - 1), At(i) \in Slots
        PROVE  Retired(db'[At(i)]) = Retired(db[At(i)])
    <3>1. /\ i \in 0 .. (DEBUG_SIZE - 1) /\ length \in 0 .. (DEBUG_SIZE - 1)
          /\ i # length
      BY <2>3, SizeIsPositive
    <3>2. At(i) # tail'
      BY <1>0, <2>4, <3>1, AtInjective
    <3> QED
      BY <2>2, <2>5, <3>2 DEF Retired
  <2>6. Pending' = Pending
    BY <2>2, <2>3, <2>5, PendingSame
  <2> QED
    BY <2>1, <2>6
<1>3. CASE ExecuteInstruction
  <2>1. open /\ ~open' /\ db[tail].a_num_rdst = 0 /\ UNCHANGED rtlVars
    BY <1>3 DEF ExecuteInstruction, IInv, OpenInv
  <2>2. PICK npc \in Pc, rd \in Result \union {NoRd}, s \in State :
          PushInstr(pc, npc, rd, s) /\ pc' = npc
    BY <1>3 DEF ExecuteInstruction
  <2>3. /\ UNCHANGED <<head, tail, length>>
        /\ db'[tail].a_pc = pc /\ db'[tail].a_next_pc = pc'
        /\ \A t \in Slots \ {tail} : db'[t] = db[t]
    BY <1>0, <2>1, <2>2, PushInstrEffect
  <2> QED
    BY <2>1, <2>3, RetireStep
<1>4. CASE TrapInstruction
  <2>1. open /\ ~open' /\ UNCHANGED rtlVars
    BY <1>4 DEF TrapInstruction
  <2>2. PICK handler \in Pc, s \in State : PushException(pc, handler, s) /\ pc' = handler
    BY <1>4 DEF TrapInstruction
  <2>3. /\ UNCHANGED <<head, tail, length>>
        /\ db'[tail].a_pc = pc /\ db'[tail].a_next_pc = pc'
        /\ \A t \in Slots \ {tail} : db'[t] = db[t]
    BY <1>0, <2>2, PushExceptionEffect
  <2> QED
    BY <2>1, <2>3, RetireStep
<1>5. CASE CheckInstruction
  <2>1. PopInvalidate /\ UNCHANGED <<open, pc, arch_pc, check_passed>>
    BY <1>5 DEF CheckInstruction, coreVars, rtlVars
  <2>2. /\ UNCHANGED <<head, tail, length>>
        /\ \A s \in Slots : Retired(db'[s]) = Retired(db[s])
    BY <1>0, <2>1, PopInvalidateEffect DEF Retired
  <2>3. Completed' = Completed
    BY <2>1, <2>2 DEF Completed
  <2>4. Pending' = Pending
    BY <2>2, <2>3, PendingSame
  <2> QED
    BY <2>1, <2>4
<1>6. ASSUME NEW r \in Report, CheckReturns(r)
      PROVE  Promise!Next
  <2>1. /\ ~open /\ ~open' /\ PopAdvance /\ pc' = pc
        /\ arch_pc' = db[head].a_next_pc
        /\ check_passed' = ReportMatches(r, db[head])
    BY <1>6 DEF CheckReturns, coreVars
  <2>2. /\ Pending # <<>>
        /\ Head(Pending) = Retired(db[head])
        /\ Pending' = Tail(Pending)
    BY <2>1, PendingPop
  <2>3. db[head].a_pc = arch_pc
    <3>1. length > 0 /\ Completed > 0
      BY <2>1, PopAdvanceEffect, <1>0 DEF Completed
    <3>2. At(0) = head
      BY <1>0, AtSlot, SizeIsPositive DEF Slots
    <3> QED
      BY <3>1, <3>2 DEF ChainInv
  <2>4. ReportMatches(r, db[head]) <=> Promise!Matches(Retired(db[head]), r)
    BY <1>0, SameVerdict DEF BufferTypeOK
  <2>5. check_passed' = Promise!Matches(Head(Pending), r)
    BY Zenon, <2>1, <2>2, <2>4 DEF ReportMatches, Promise!Matches
  <2>6. Head(Pending).pc = arch_pc /\ arch_pc' = Head(Pending).next_pc
    BY <2>1, <2>2, <2>3 DEF Retired
  <2>7. Promise!Commit(r)
    BY <2>1, <2>2, <2>5, <2>6 DEF Promise!Commit
  <2> QED
    BY <2>7 DEF Promise!Next
<1>7. CASE CheckFission
  <2>1. UNCHANGED <<head, length, db, open, pc, arch_pc>> /\ check_passed' = TRUE
    BY <1>7 DEF CheckFission, bufferVars, coreVars
  <2>2. Completed' = Completed
    BY <2>1 DEF Completed
  <2>3. Pending' = Pending
    BY <2>1, <2>2, PendingSame
  <2> QED
    BY <2>1, <2>3 DEF Promise!Next, Promise!CommitFission
<1>8. CASE \/ HostStopsCore \/ RunAheadReturns \/ FirstAsserts \/ PopAsserts
           \/ Aborted \/ UNCHANGED vars
  <2>1. UNCHANGED <<head, length, db, open, pc, arch_pc, check_passed>>
    BY <1>8 DEF HostStopsCore, RunAheadReturns, FirstAsserts, PopAsserts, Aborted, vars,
                bufferVars, coreVars, rtlVars
  <2>2. Completed' = Completed
    BY <2>1 DEF Completed
  <2>3. Pending' = Pending
    BY <2>1, <2>2, PendingSame
  <2> QED
    BY <2>1, <2>3
<1> QED
  BY <1>1, <1>2, <1>3, <1>4, <1>5, <1>6, <1>7, <1>8 DEF Next, FunctionalStep

LEMMA PromiseInit == Init => Promise!Init
<1> SUFFICES ASSUME Init PROVE Promise!Init
  OBVIOUS
<1>1. Completed = 0
  BY DEF Init, BufferInit, Completed
<1>2. Pending = <<>>
  BY <1>1, PendingItems
<1> QED
  BY <1>2 DEF Init, Promise!Init

(* No instruction is lost, repeated, reordered or changed between the step *)
(* that retires it and the checkInstruction that compares it with the      *)
(* RTL's report, in a ring of any size: CoSim implements LockstepChecker   *)
(* as long as the program never enables interrupts.                        *)
THEOREM Refinement ==
  ASSUME Interrupts = FALSE
  PROVE  Spec => ImplementsLockstep
<1>1. Init => ChainInv
  BY SizeIsPositive DEF Init, BufferInit, ChainInv, Completed
<1>2. IInv /\ ChainInv /\ [Next]_vars => ChainInv'
  BY ChainStep
<1>3. IInv /\ IInv' /\ ChainInv /\ [Next]_vars => [Promise!Next]_(Promise!vars)
  BY PromiseStep
<1> QED
  BY <1>1, <1>2, <1>3, PromiseInit, InductiveInvariant, PTL
     DEF Spec, ImplementsLockstep, Promise!Spec
=============================================================================
