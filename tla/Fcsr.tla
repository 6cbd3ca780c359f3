--------------------------------- MODULE Fcsr ---------------------------------
(***************************************************************************)
(* The state that floating-point instructions share: fflags and frm of the *)
(* core, and the two globals of the library, softfloat_roundingMode and    *)
(* softfloat_exceptionFlags (decode.h, insns/f*.h, processor.cc).          *)
(*                                                                         *)
(* A step executes one instruction, to its end or to its trap.  What an    *)
(* operation that rounds computes is a parameter, Results, and so is what  *)
(* it should compute, Promised: both give [z, flags]; the others are those *)
(* of Comparisons and MulDiv.  The register files are left out: an         *)
(* instruction [op, fmt] comes with its operands x, and last keeps what    *)
(* was computed.                                                           *)
(***************************************************************************)
EXTENDS Sequences, Comparisons, MulDiv

CONSTANTS
  RoundingInsns,        (* instructions with a rounding mode field         *)
  ComparingInsns,       (* those that compare, classify and move           *)
  IntegerInsns,         (* instructions of the integer unit                *)
  LibraryCalls,         (* calls of other routines: [op, fmt, modes]       *)
  Inputs(_, _, _, _),   (* of op, fmt, the mode field and how many         *)
                        (*   instructions were executed before: operands   *)
  Results(_, _, _, _),  (* of op, fmt, mode and x: a set of [z, flags]     *)
  Promised(_, _, _, _), (* of op, fmt, mode and x: [z, flags]              *)
  Agree(_, _, _, _),    (* two results of op in fmt are the same           *)
  RmFields,             (* the rounding mode fields of instructions        *)
  CsrFrm, CsrFflags,    (* values programs write to fcsr                   *)
  InitialFrm,
  MaxInsns,             (* bound: instructions executed                    *)
  GoesOn(_)             (* bound: the programs that go on after last       *)

VARIABLES
  ef,              (* SR_EF: the unit is enabled                           *)
  frm, fflags,     (* STATE.frm, STATE.fflags                              *)
  roundingMode,    (* softfloat_roundingMode                               *)
  exceptionFlags,  (* softfloat_exceptionFlags                             *)
  last,            (* the last instruction, its mode, operands and result  *)
  executed,
  due,             (* history: what was promised of last                   *)
  owed             (* history: the flags promised since the program last   *)
                   (*   wrote fflags                                       *)

vars == <<ef, frm, fflags, roundingMode, exceptionFlags, last, executed, due, owed>>

Flags == {"inexact", "underflow", "overflow", "infinity", "invalid"}
Mode == <<"near_even", "minMag", "min", "max", "near_maxMag">>

ASSUME FieldsAssumption ==
  /\ RmFields \subseteq 0 .. 7 /\ CsrFrm \subseteq 0 .. 7 /\ InitialFrm \subseteq 0 .. 7
  /\ CsrFflags \subseteq SUBSET Flags
  /\ MaxInsns \in Nat

ASSUME InsnsAssumption ==
  /\ \A i \in IntegerInsns : i.op \in IntegerUnit
  /\ \A i \in ComparingInsns : i.op \in OrderedOps /\ i.fmt \in {"S", "D"}
  /\ \A i \in RoundingInsns \cup LibraryCalls : i.op \notin IntegerUnit \cup OrderedOps
  /\ \A i \in IntegerInsns, n \in 0 .. MaxInsns :
       Inputs(i.op, i.fmt, 7, n) \subseteq Registers \X Registers
  /\ \A i \in ComparingInsns, n \in 0 .. MaxInsns : \A x \in Inputs(i.op, i.fmt, 7, n) :
       /\ x[1] \in Encodings(i.fmt)
       /\ i.op # "fclass" => x[2] \in Encodings(i.fmt)

TypeOK ==
  /\ ef \in BOOLEAN
  /\ frm \in 0 .. 7
  /\ fflags \subseteq Flags /\ owed \subseteq Flags
  /\ exceptionFlags \subseteq Flags
  /\ roundingMode \in 0 .. 4
  /\ executed \in 0 .. MaxInsns

Nothing == [z |-> 0, flags |-> {}]

\* A program that has enabled the unit.
Init ==
  /\ ef = TRUE
  /\ frm \in InitialFrm
  /\ fflags = {} /\ owed = {} /\ exceptionFlags = {}
  /\ roundingMode = 0
  /\ last = [op |-> "none"] /\ due = Nothing
  /\ executed = 0

\* The macro RM: the field of the instruction, or frm when it is 7.
RM(rm) == IF rm = 7 THEN frm ELSE rm

Count == executed < MaxInsns /\ GoesOn(last) /\ executed' = executed + 1

(* Fault: the flags of the instruction replace those of the ones before. *)
AccrueOver(flags) ==
  /\ fflags' = exceptionFlags \cup flags
  /\ exceptionFlags' = {}

\* The library raises its flags, and set_fp_exceptions moves them to fflags.
Accrue(flags) ==
  /\ fflags' = fflags \cup (exceptionFlags \cup flags)
  /\ exceptionFlags' = {}

Done(i, x, mode, r) ==
  [op |-> i.op, fmt |-> i.fmt, mode |-> mode, x |-> x, z |-> r.z, flags |-> r.flags]

\* The mode the instruction set names, which is not always the one used.
NamedMode(rm) == IF rm = 7 THEN Mode[frm + 1] ELSE Mode[rm + 1]

\* The end of an instruction that computed r.
Retire(i, x, mode, r, promised) ==
  /\ Accrue(r.flags)
  /\ last' = Done(i, x, mode, r)
  /\ due' = promised
  /\ owed' = owed \cup due'.flags
  /\ UNCHANGED <<ef, frm>>

\* An instruction that rounds: softfloat_roundingMode = RM.
Rounding(i, x, rm) ==
  /\ Count /\ ef /\ RM(rm) <= 4
  /\ roundingMode' = RM(rm)
  /\ \E r \in Results(i.op, i.fmt, Mode[roundingMode' + 1], x) :
       Retire(i, x, NamedMode(rm), r, Promised(i.op, i.fmt, NamedMode(rm), x))

\* An instruction that compares leaves the mode alone.
Comparing(i, x) ==
  /\ Count /\ ef /\ i.op \in Compare2
  /\ Retire(i, x, "any", Comparison(i.op, i.fmt, x), Ordered(i.op, i.fmt, x))
  /\ UNCHANGED roundingMode

\* One that classifies or moves bits leaves the flags alone, too.
Moving(i, x) ==
  /\ Count /\ ef /\ i.op \notin Compare2
  /\ last' = Done(i, x, "any", Comparison(i.op, i.fmt, x))
  /\ due' = Ordered(i.op, i.fmt, x)
  /\ owed' = owed \cup due'.flags
  /\ UNCHANGED <<ef, frm, fflags, roundingMode, exceptionFlags>>

\* require_fp, and RM when its mode is illegal, throw before anything is done.
Traps(rm) ==
  /\ Count /\ (~ef \/ RM(rm) > 4)
  /\ last' = [op |-> "trap"] /\ due' = Nothing
  /\ UNCHANGED <<ef, frm, fflags, roundingMode, exceptionFlags, owed>>

\* The integer unit has no flags, and no enable bit.
IntegerInsn(i, x) ==
  /\ Count
  /\ last' = Done(i, x, "minMag", [z |-> IntegerResult(i.op, x[1], x[2]), flags |-> {}])
  /\ due' = Nothing
  /\ UNCHANGED <<ef, frm, fflags, roundingMode, exceptionFlags, owed>>

\* A routine that no instruction uses, called on its own by one of the modes
\* it is meant for; its flags are dropped.
Call(i, x) ==
  /\ Count
  /\ frm <= 4 /\ Mode[frm + 1] \in i.modes
  /\ \E r \in Results(i.op, i.fmt, Mode[frm + 1], x) : last' = Done(i, x, Mode[frm + 1], r)
  /\ due' = Promised(i.op, i.fmt, Mode[frm + 1], x)
  /\ UNCHANGED <<ef, frm, fflags, roundingMode, exceptionFlags, owed>>

\* csrrw of fflags, frm and fcsr: reading the old value needs the unit, so a
\* program can write them only when it is enabled.
WriteFcsr(flags, mode) ==
  /\ Count /\ ef
  /\ fflags' = flags /\ owed' = flags /\ frm' = mode
  /\ last' = [op |-> "csr"] /\ due' = Nothing
  /\ UNCHANGED <<ef, roundingMode, exceptionFlags>>

WriteStatus(enable) ==
  /\ Count
  /\ ef' = enable
  /\ last' = [op |-> "csr"] /\ due' = Nothing
  /\ UNCHANGED <<frm, fflags, roundingMode, exceptionFlags, owed>>

\* The operands of i, in an instruction with mode field rm; none when no
\* instruction follows, which spares TLC trying them all.
Given(i, rm) ==
  IF executed < MaxInsns /\ GoesOn(last) THEN Inputs(i.op, i.fmt, rm, executed) ELSE {}

Next ==
  \/ \E i \in RoundingInsns, rm \in RmFields : \E x \in Given(i, rm) : Rounding(i, x, rm)
  \/ \E i \in ComparingInsns : \E x \in Given(i, 7) : Comparing(i, x) \/ Moving(i, x)
  \/ \E rm \in RmFields : Traps(rm)
  \/ \E i \in IntegerInsns : \E x \in Given(i, 7) : IntegerInsn(i, x)
  \/ \E i \in LibraryCalls : \E x \in Given(i, 7) : Call(i, x)
  \/ \E flags \in CsrFflags \cup {fflags}, mode \in CsrFrm \cup {frm} :
       WriteFcsr(flags, mode)
  \/ \E enable \in BOOLEAN : WriteStatus(enable)

Spec == Init /\ [][Next]_vars

-------------------------------------------------------------------------------
(* Properties.                                                             *)

\* fflags is the union of the flags IEEE 754 raises in the instructions
\* executed since the program last wrote it: no instruction loses the flags
\* of an earlier one, leaves its own for a later one, or, when it traps,
\* raises any.
FlagsAreSticky == fflags = owed /\ exceptionFlags = {}

\* Comparisons, minimum, maximum, sign injection and classification agree on
\* one order of the values, with one zero: fmin and fmax return a number when
\* they are given one; exactly one class bit is set.
OrderIsOne ==
  last.op \in OrderedOps =>
    [z |-> last.z, flags |-> last.flags] = Ordered(last.op, last.fmt, last.x)

\* The high halves are those of the exact product of the operands, signed
\* or not; a quotient and a remainder belong to a = q * b + r with |r| < |b|
\* and r of the sign of a, but for b = 0 and for the quotient of the least
\* integer by -1, where the result is fixed.
WideIsInteger ==
  last.op \in IntegerUnit => IsExact(last.op, last.x[1], last.x[2], last.z)

\* What is in last is what was promised, by the mode the instruction set
\* names, flags included.
Kept(ops) ==
  last.op \in ops =>
    last.flags = due.flags /\ Agree(last.op, last.fmt, last.z, due.z)
===============================================================================
