----------------------------- MODULE DebugBuffer -----------------------------
(***************************************************************************)
(* debug_buffer_t (dpi_sim/debug.h, debug.cc): the ring of retired         *)
(* instructions between the functional simulator, which fills it, and the  *)
(* RTL, which pops it through checkInstruction. One operator per member    *)
(* function; CoSim supplies the callers and the order of the calls.        *)
(*                                                                         *)
(* An entry keeps the fields a caller acts on. Source operands, addresses, *)
(* sequence numbers and the exception flag are only ever dumped and are    *)
(* left out; a register number and its value are one member of Result, and *)
(* the state_t snapshot is one member of State.                            *)
(***************************************************************************)
EXTENDS Integers

CONSTANTS
  DEBUG_SIZE,  (* entries allocated; PIPE_QUEUE_SIZE in the program        *)
  Pc,          (* program counters                                         *)
  Result,      (* destination register and value                           *)
  NoRd,        (* no destination register                                  *)
  State,       (* state_t snapshots, as far as check_state compares them   *)
  Garbage      (* content of a field nobody has written                    *)

(* The constructor asserts a power of two (debug.cc:45): MOD(a,b) is       *)
(* a & (b-1), which is a % b only then.                                    *)
ASSUME DebugSizeAssumption ==
  /\ DEBUG_SIZE \in Nat \ {0}
  /\ \E k \in 0 .. DEBUG_SIZE : DEBUG_SIZE = 2 ^ k

ASSUME GarbageAssumption ==
  /\ Garbage \notin Pc \union Result \union State
  /\ NoRd \notin Result \union {Garbage}

VARIABLES
  head,    (* oldest active entry                                          *)
  tail,    (* newest active entry                                          *)
  length,  (* number of active entries                                     *)
  db       (* the entries                                                  *)

bufferVars == <<head, tail, length, db>>

Slots == 0 .. (DEBUG_SIZE - 1)

ACTIVE_SIZE == DEBUG_SIZE

MOD(a) == a % DEBUG_SIZE

Entry ==
  [ a_valid    : BOOLEAN,
    a_pc       : Pc \union {Garbage},
    a_next_pc  : Pc \union {Garbage},
    a_num_rdst : {0, 1},
    a_rdst     : Result \union {Garbage},
    a_state    : State \union {Garbage} ]

BufferTypeOK ==
  /\ head \in Slots
  /\ tail \in Slots
  /\ length \in 0 .. ACTIVE_SIZE
  /\ db \in [Slots -> Entry]

-----------------------------------------------------------------------------
(* The entries come from new db_t[], so no field is set but a_state, to    *)
(* the reset state, for which Garbage stands as well. Only a_valid can be  *)
(* read before it is written, and starts with any value.                   *)
BufferInit ==
  /\ head = 0
  /\ tail = DEBUG_SIZE - 1
  /\ length = 0
  /\ \E valid \in [Slots -> BOOLEAN] :
       db = [ s \in Slots |->
               [ a_valid    |-> valid[s],
                 a_pc       |-> Garbage,
                 a_next_pc  |-> Garbage,
                 a_num_rdst |-> 0,
                 a_rdst     |-> Garbage,
                 a_state    |-> Garbage ] ]

(* Fault: a window of one entry taken for a wrapped one.                   *)
IsActiveStrict(e) ==
  /\ length > 0
  /\ IF head < tail
     THEN e >= head /\ e <= tail
     ELSE e >= head \/ e <= tail

(* is_active: the code's comparison of e with head and tail.               *)
IsActive(e) ==
  /\ length > 0
  /\ IF head <= tail
     THEN e >= head /\ e <= tail
     ELSE e >= head \/ e <= tail

Hungry == length < ACTIVE_SIZE

(* start: open a new entry behind tail. The valid bit goes to the head     *)
(* entry, as in the code, whichever entry is being opened.                 *)
Start ==
  LET new == MOD(tail + 1)
  IN  /\ length < ACTIVE_SIZE
      /\ length' = length + 1
      /\ tail' = new
      /\ db' = [ s \in Slots |->
                   [ db[s] EXCEPT
                       !.a_valid    = @ \/ s = head,
                       !.a_num_rdst = IF s = new THEN 0 ELSE @ ] ]
      /\ UNCHANGED head

(* The members that write the newest entry, each as what it makes of the   *)
(* entry e. push_operand_actual for the destination:                       *)
WithOperand(e, rd) ==
  IF rd = NoRd THEN e
  ELSE [e EXCEPT !.a_num_rdst = @ + 1, !.a_rdst = rd]

(* push_instr_actual                                                       *)
WithInstr(e, pc, next_pc) == [e EXCEPT !.a_pc = pc, !.a_next_pc = next_pc]

(* push_exception_actual                                                   *)
WithException(e, handler_pc) == [e EXCEPT !.a_next_pc = handler_pc]

(* push_state_actual                                                       *)
WithState(e, state) == [e EXCEPT !.a_state = state]

(* Fault: the pushes go to the oldest entry.                               *)
PushInstrToHead(pc, next_pc, rd, state) ==
  /\ db' = [ db EXCEPT ![head] =
               WithState(WithInstr(WithOperand(@, rd), pc, next_pc), state) ]
  /\ UNCHANGED <<head, tail, length>>

(* The pushes of an instruction that completes. The destination is pushed  *)
(* at most once: a second push would trip the assertion on a_num_rdst.     *)
PushInstr(pc, next_pc, rd, state) ==
  /\ db' = [ db EXCEPT ![tail] =
               WithState(WithInstr(WithOperand(@, rd), pc, next_pc), state) ]
  /\ UNCHANGED <<head, tail, length>>

(* Fault: the successor of a trapping instruction is left to be itself.    *)
PushExceptionNoHandler(pc, handler_pc, state) ==
  /\ db' = [ db EXCEPT ![tail] = WithState(WithInstr(@, pc, pc), state) ]
  /\ UNCHANGED <<head, tail, length>>

(* The pushes of the trap handler of processor_t::step: the faulting pc as *)
(* its own successor, which push_exception_actual then replaces.           *)
PushException(pc, handler_pc, state) ==
  /\ db' = [ db EXCEPT ![tail] =
               WithState(WithException(WithInstr(@, pc, pc), handler_pc), state) ]
  /\ UNCHANGED <<head, tail, length>>

(* first: the caller's pc must be the head entry's.                        *)
FirstSucceeds(pc) == pc = db[head].a_pc

(* pop, up to its refill loop.                                             *)
PopInvalidate ==
  /\ db' = [db EXCEPT ![head].a_valid = FALSE]
  /\ UNCHANGED <<head, tail, length>>

(* Fault: head is not wrapped.                                             *)
PopAdvanceNoWrap ==
  /\ length > 0
  /\ length' = length - 1
  /\ head' = head + 1
  /\ UNCHANGED <<tail, db>>

(* pop, after its refill loop. The entry that was head is the one pop      *)
(* returns a pointer to; it is not copied.                                 *)
PopAdvance ==
  /\ length > 0
  /\ length' = length - 1
  /\ head' = MOD(head + 1)
  /\ UNCHANGED <<tail, db>>
=============================================================================
