------------------------------ MODULE ArithInsns ------------------------------
(***************************************************************************)
(* The floating-point instructions of the functional simulator             *)
(* (isa_sim_dpi/insns) as expressions over softfloat_dpi, and beside them  *)
(* what IEEE 754 asks for.  Formats are named "S" (single), "D" (double)   *)
(* and "L" (a double with more fraction bits than an integer word has, for *)
(* the conversions).                                                       *)
(***************************************************************************)
EXTENDS Sequences, Comparisons

CONSTANTS
  H,                    (* bits of a "32-bit" word of the library          *)
  P,                    (* fraction bits of what is rounded to such a word *)
  Long                  (* a format, as Single and Double: [E, F, G]       *)

ASSUME FormatsAssumption ==
  /\ H % 4 = 0
  /\ Single.F + Single.G + 2 = H
  /\ Double.F + Double.G + 2 = 2 * H
  /\ Long.F + Long.G + 2 = 2 * H /\ Long.F - P > H

A32 == INSTANCE Float32 WITH E <- Single.E, F <- Single.F, G <- Single.G
A64 == INSTANCE Float64 WITH E <- Double.E, F <- Double.F, G <- Double.G,
                             E1 <- Single.E, F1 <- Single.F, G1 <- Single.G
L64 == INSTANCE Float64 WITH E <- Long.E, F <- Long.F, G <- Long.G,
                             E1 <- Single.E, F1 <- Single.F, G1 <- Single.G

-------------------------------------------------------------------------------
(* The floating-point instructions, as expressions over the library.       *)

One(fmt) == IF fmt = "S" THEN A32!One ELSE A64!One

mulAdd(fmt, mode, t) ==
  IF fmt = "S" THEN A32!softfloat_mulAddF32(mode, t[1], t[2], t[3])
  ELSE A64!softfloat_mulAddF64(mode, t[1], t[2], t[3])

\* The operands that each instruction gives it.
fadd(fmt, a, b) == <<a, One(fmt), b>>
fsub(fmt, a, b) == <<a, One(fmt), flip(fmt, b)>>
fmul(fmt, a, b) == <<a, b, IF fmt = "S" THEN A32!zeroOf(a, b) ELSE A64!zeroOf(a, b)>>
fmadd(fmt, a, b, c) == <<a, b, c>>
fmsub(fmt, a, b, c) == <<a, b, flip(fmt, c)>>
fnmsub(fmt, a, b, c) == <<flip(fmt, a), b, c>>
fnmadd(fmt, a, b, c) == <<flip(fmt, a), b, flip(fmt, c)>>
fdiv(fmt, mode, a, b) ==
  IF fmt = "S" THEN A32!f32_div(mode, a, b) ELSE A64!f64_div(mode, a, b)
fsqrt(fmt, mode, a) ==
  IF fmt = "S" THEN A32!f32_sqrt(mode, a) ELSE A64!f64_sqrt(mode, a)

toInt(op, fmt, mode, a) ==
  CASE op = "fcvt_w"  -> IF fmt = "S" THEN A32!f32_to_i32(mode, a) ELSE L64!f64_to_i32(mode, a)
    [] op = "fcvt_wu" -> IF fmt = "S" THEN A32!f32_to_ui32(mode, a) ELSE L64!f64_to_ui32(mode, a)
    [] op = "fcvt_l"  -> IF fmt = "S" THEN A32!f32_to_i64(mode, a) ELSE L64!f64_to_i64(mode, a)
    [] op = "fcvt_lu" -> IF fmt = "S" THEN A32!f32_to_ui64(mode, a) ELSE L64!f64_to_ui64(mode, a)

fromInt(op, fmt, mode, z) ==
  CASE op = "from_w"  -> IF fmt = "S" THEN A32!i32_to_f32(mode, z) ELSE L64!i32_to_f64(z)
    [] op = "from_wu" -> IF fmt = "S" THEN A32!ui32_to_f32(mode, z) ELSE L64!ui32_to_f64(z)
    [] op = "from_l"  -> IF fmt = "S" THEN A32!i64_to_f32(mode, z) ELSE L64!i64_to_f64(mode, z)
    [] op = "from_lu" -> IF fmt = "S" THEN A32!ui64_to_f32(mode, z) ELSE L64!ui64_to_f64(mode, z)

fcvt_s_d(mode, a) == A64!f64_to_f32(mode, a)
fcvt_d_s(a) == A64!f32_to_f64(a)

-------------------------------------------------------------------------------
(* What an instruction, or a library routine that no instruction calls,    *)
(* may compute: [z, flags].                                                *)

Arithmetic2 == {"fadd", "fsub", "fmul", "fdiv"}
Arithmetic3 == {"fmadd", "fmsub", "fnmsub", "fnmadd"}
ToInteger == {"fcvt_w", "fcvt_wu", "fcvt_l", "fcvt_lu"}
FromInteger == {"from_w", "from_wu", "from_l", "from_lu"}
Library2 == {"add", "sub", "mul"}
Relations == {"eq_signaling", "le_quiet", "lt_quiet"}
Unrounded2 == {"ieee_rem"} \cup Relations
ToIntegerMinMag == {"i32_r_minMag", "ui32_r_minMag", "i64_r_minMag", "ui64_r_minMag"}

Fused(op, fmt, x) ==
  CASE op = "fadd" -> fadd(fmt, x[1], x[2])
    [] op = "fsub" -> fsub(fmt, x[1], x[2])
    [] op = "fmul" -> fmul(fmt, x[1], x[2])
    [] op = "fmadd" -> fmadd(fmt, x[1], x[2], x[3])
    [] op = "fmsub" -> fmsub(fmt, x[1], x[2], x[3])
    [] op = "fnmsub" -> fnmsub(fmt, x[1], x[2], x[3])
    [] op = "fnmadd" -> fnmadd(fmt, x[1], x[2], x[3])

Arithmetic(op, fmt, mode, x) ==
  CASE op = "fdiv" -> {fdiv(fmt, mode, x[1], x[2])}
    [] op = "fsqrt" -> fsqrt(fmt, mode, x[1])
    [] OTHER -> {mulAdd(fmt, mode, Fused(op, fmt, x))}

Library(op, fmt, mode, x) ==
  LET S == fmt = "S"
  IN CASE op = "add" -> IF S THEN A32!add(mode, x[1], x[2]) ELSE A64!f64_add(mode, x[1], x[2])
       [] op = "sub" -> IF S THEN A32!sub(mode, x[1], x[2]) ELSE A64!f64_sub(mode, x[1], x[2])
       [] op = "mul" -> IF S THEN A32!f32_mul(mode, x[1], x[2]) ELSE A64!f64_mul(mode, x[1], x[2])
       [] op = "ieee_rem" -> IF S THEN A32!f32_rem(mode, x[1], x[2]) ELSE A64!f64_rem(mode, x[1], x[2])
       [] op = "eq_signaling" -> IF S THEN A32!eq_signaling(x[1], x[2]) ELSE f64_eq_signaling(x[1], x[2])
       [] op = "le_quiet" -> IF S THEN A32!le_quiet(x[1], x[2]) ELSE f64_le_quiet(x[1], x[2])
       [] op = "lt_quiet" -> IF S THEN A32!lt_quiet(x[1], x[2]) ELSE f64_lt_quiet(x[1], x[2])
       [] op = "roundToInt" -> IF S THEN A32!roundToInt(mode, x[1]) ELSE A64!f64_roundToInt(mode, x[1])
       [] op = "i32_r_minMag" -> IF S THEN A32!f32_to_i32_r_minMag(x[1]) ELSE L64!f64_to_i32_r_minMag(x[1])
       [] op = "ui32_r_minMag" -> IF S THEN A32!f32_to_ui32_r_minMag(x[1]) ELSE L64!f64_to_ui32_r_minMag(x[1])
       [] op = "i64_r_minMag" -> IF S THEN A32!f32_to_i64_r_minMag(x[1]) ELSE L64!f64_to_i64_r_minMag(x[1])
       [] op = "ui64_r_minMag" -> IF S THEN A32!f32_to_ui64_r_minMag(x[1]) ELSE L64!f64_to_ui64_r_minMag(x[1])

\* All of them, as sets: a root may come out of more than one estimate.
Computed(op, fmt, mode, x) ==
  CASE op \in Arithmetic2 \cup Arithmetic3 \cup {"fsqrt"} -> Arithmetic(op, fmt, mode, x)
    [] op \in ToInteger -> {toInt(op, fmt, mode, x[1])}
    [] op \in FromInteger -> {fromInt(op, fmt, mode, x[1])}
    [] op = "fcvt_s_d" -> {fcvt_s_d(mode, x[1])}
    [] op = "fcvt_d_s" -> {fcvt_d_s(x[1])}
    [] op \in Library2 \cup Unrounded2 \cup {"roundToInt"} \cup ToIntegerMinMag ->
         {Library(op, fmt, mode, x)}

-------------------------------------------------------------------------------
(* What IEEE 754 asks for.                                                 *)

IEEE(f) == INSTANCE Ieee WITH E <- f.E, F <- f.F, Places <- 31
Format(fmt) == CASE fmt = "S" -> Single [] fmt = "D" -> Double [] fmt = "L" -> Long

Bounds(op) ==
  CASE op \in {"fcvt_w", "i32_r_minMag"} -> <<-(2^(H - 1)), 2^(H - 1) - 1>>
    [] op \in {"fcvt_wu", "ui32_r_minMag"} -> <<0, 2^H - 1>>
    [] op \in {"fcvt_l", "i64_r_minMag"} -> <<-(2^(2 * H - 1)), 2^(2 * H - 1) - 1>>
    [] op \in {"fcvt_lu", "ui64_r_minMag"} -> <<0, 2^(2 * H) - 1>>

Quiet(f, operands) == IEEE(f)!QuietNaN(operands)

\* A value of format f in format g.
Converted(f, g, mode, ui) ==
  IF IEEE(f)!IsNaN(ui) THEN [Quiet(f, {ui}) EXCEPT !.z = IEEE(g)!NaN]
  ELSE IF IEEE(f)!IsInf(ui) THEN IEEE(g)!Inf(IEEE(f)!Num(ui).s)
  ELSE IEEE(g)!FromNumber(mode, IEEE(f)!Num(ui))

\* The truncating conversions take a NaN for plus infinity.
Truncated(op, f, ui) ==
  IEEE(f)!ToInt("minMag", Bounds(op)[1], Bounds(op)[2],
                IF IEEE(f)!IsNaN(ui) THEN IEEE(f)!Infinity ELSE ui)

\* The exact result rounded once.
Ieee754(op, fmt, m, x) ==
  LET f == Format(fmt)
      a == x[1]
      b == x[2]
      c == x[3]
      minus(ui) == IEEE(f)!Negated(ui)
  IN CASE op \in {"fadd", "add"} -> IEEE(f)!Add(m, a, b)
       [] op \in {"fsub", "sub"} -> IEEE(f)!Add(m, a, minus(b))
       [] op \in {"fmul", "mul"} -> IEEE(f)!Mul(m, a, b)
       [] op = "fdiv" -> IEEE(f)!Div(m, a, b)
       [] op = "fsqrt" -> IEEE(f)!Sqrt(m, a)
       [] op = "fmadd" -> IEEE(f)!Fma(m, a, b, c)
       [] op = "fmsub" -> IEEE(f)!Fma(m, a, b, minus(c))
       [] op = "fnmsub" -> IEEE(f)!Fma(m, minus(a), b, c)
       [] op = "fnmadd" -> IEEE(f)!Fma(m, minus(a), b, minus(c))
       [] op = "ieee_rem" -> IEEE(f)!Rem(a, b)
       [] op = "roundToInt" -> IEEE(f)!RoundToInt(m, a)
       [] op \in ToInteger -> IEEE(f)!ToInt(m, Bounds(op)[1], Bounds(op)[2], a)
       [] op \in ToIntegerMinMag -> Truncated(op, f, a)
       [] op \in FromInteger -> IEEE(f)!FromInt(m, a)
       [] op = "fcvt_s_d" -> Converted(Double, Single, m, a)
       [] op = "fcvt_d_s" -> Converted(Single, Double, m, a)
       [] op = "eq_signaling" -> IEEE(f)!Relation(a, b, IEEE(f)!Ord(a) = IEEE(f)!Ord(b), TRUE)
       [] op = "lt_quiet" -> IEEE(f)!Relation(a, b, IEEE(f)!Ord(a) < IEEE(f)!Ord(b), FALSE)
       [] op = "le_quiet" -> IEEE(f)!Relation(a, b, IEEE(f)!Ord(a) <= IEEE(f)!Ord(b), FALSE)
===============================================================================
