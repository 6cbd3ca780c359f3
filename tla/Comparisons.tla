----------------------------- MODULE Comparisons -----------------------------
(***************************************************************************)
(* The instructions of the functional simulator that compare, classify and *)
(* move floating-point numbers (isa_sim_dpi/insns), on the patterns of the *)
(* format Single, "S", or Double, "D".  The double-precision files are the *)
(* text of the single-precision ones with other constants.                 *)
(***************************************************************************)
EXTENDS Integers

CONSTANTS Single, Double   \* formats: E and F, and more in modules over this

ASSUME ComparedAssumption ==
  \A f \in {Single, Double} : f.E \in Nat \ {0} /\ f.F \in Nat \ {0}

Bits(f) == INSTANCE Pattern WITH E <- f.E, F <- f.F
Std(f) == INSTANCE IeeeOrder WITH E <- f.E, F <- f.F

FormatOf(fmt) == IF fmt = "S" THEN Single ELSE Double
Encodings(fmt) == 0 .. (2 * Bits(FormatOf(fmt))!SignBit - 1)

f64_eq(a, b) == Bits(Double)!eq(a, b)
f64_eq_signaling(a, b) == Bits(Double)!eq_signaling(a, b)
f64_le(a, b) == Bits(Double)!le(a, b)
f64_le_quiet(a, b) == Bits(Double)!le_quiet(a, b)
f64_lt(a, b) == Bits(Double)!lt(a, b)
f64_lt_quiet(a, b) == Bits(Double)!lt_quiet(a, b)
f64_classify(ui) == Bits(Double)!classify(ui)

SignBit(fmt) == Bits(FormatOf(fmt))!SignBit
neg(fmt, ui) == ui >= SignBit(fmt)
flip(fmt, ui) == IF neg(fmt, ui) THEN ui - SignBit(fmt) ELSE ui + SignBit(fmt)

quiet(z) == [z |-> z, flags |-> {}]

feq(fmt, a, b) == IF fmt = "S" THEN Bits(Single)!eq(a, b) ELSE f64_eq(a, b)
flt(fmt, a, b) == IF fmt = "S" THEN Bits(Single)!lt(a, b) ELSE f64_lt(a, b)
fle(fmt, a, b) == IF fmt = "S" THEN Bits(Single)!le(a, b) ELSE f64_le(a, b)

\* With a NaN in rs2 the comparison is not evaluated, nor its flag raised.
isNaN(fmt, ui) == Bits(FormatOf(fmt))!isNaN(ui)
fmin(fmt, a, b) ==
  LET less == IF fmt = "S" THEN Bits(Single)!lt_quiet(a, b) ELSE f64_lt_quiet(a, b)
  IN IF isNaN(fmt, b) THEN quiet(a)
     ELSE [z |-> IF less.z THEN a ELSE b, flags |-> less.flags]
fmax(fmt, a, b) ==
  LET less == IF fmt = "S" THEN Bits(Single)!le_quiet(b, a) ELSE f64_le_quiet(b, a)
  IN IF isNaN(fmt, b) THEN quiet(a)
     ELSE [z |-> IF less.z THEN a ELSE b, flags |-> less.flags]

fclass(fmt, a) ==
  quiet(IF fmt = "S" THEN Bits(Single)!classify(a) ELSE f64_classify(a))

fsgnj(fmt, a, b) == (a % SignBit(fmt)) + (IF neg(fmt, b) THEN SignBit(fmt) ELSE 0)
fsgnjn(fmt, a, b) == fsgnj(fmt, a, flip(fmt, b))
fsgnjx(fmt, a, b) == IF neg(fmt, b) THEN flip(fmt, a) ELSE a

\* Those that set_fp_exceptions ends, and those that touch no flag.
Compare2 == {"feq", "flt", "fle", "fmin", "fmax"}
Move2 == {"fsgnj", "fsgnjn", "fsgnjx"}
OrderedOps == Compare2 \cup Move2 \cup {"fclass"}

Comparison(op, fmt, x) ==
  CASE op = "feq" -> feq(fmt, x[1], x[2])
    [] op = "flt" -> flt(fmt, x[1], x[2])
    [] op = "fle" -> fle(fmt, x[1], x[2])
    [] op = "fmin" -> fmin(fmt, x[1], x[2])
    [] op = "fmax" -> fmax(fmt, x[1], x[2])
    [] op = "fsgnj" -> quiet(fsgnj(fmt, x[1], x[2]))
    [] op = "fsgnjn" -> quiet(fsgnjn(fmt, x[1], x[2]))
    [] op = "fsgnjx" -> quiet(fsgnjx(fmt, x[1], x[2]))
    [] op = "fclass" -> fclass(fmt, x[1])

\* What the standard says of it.
Ordered(op, fmt, x) == Std(FormatOf(fmt))!Ordered(op, x)
==============================================================================
