-------------------------------- MODULE MArith --------------------------------
(* Arith in formats of 8, 14 and 18 bits. *)
EXTENDS Arith

Formats == [S |-> [E |-> 5, F |-> 2, G |-> 4],
            D |-> [E |-> 6, F |-> 7, G |-> 7],
            L |-> [E |-> 6, F |-> 11, G |-> 3]]
S8 == Formats.S
D14 == Formats.D
L18 == Formats.L

(* The patterns with an exponent of es and a fraction of fs, of both signs. *)
Patterns(f, es, fs) == {s * 2^(f.E + f.F) + e * 2^f.F + m :
                          s \in {0, 1}, e \in es, m \in fs}

(* Zeros, subnormals, the least and the largest normal numbers, numbers    *)
(* around one, near ties and far apart, infinities, both kinds of NaN.     *)
OperandSets ==
  [S |-> <<0 .. 255,
           Patterns(S8, {0}, {0, 1, 3}) \cup Patterns(S8, {1, 30, 31}, {0})
             \cup Patterns(S8, {15}, {0, 3}) \cup Patterns(S8, {13, 18}, {1})
             \cup {123, 125, 126},
           Patterns(S8, {0, 13, 15}, {0}) \cup {1, 53, 63, 123, 251, 124, 125}>>,
   D |-> <<Patterns(D14, {0, 1, 30, 31, 32, 38, 45, 61, 62, 63}, {0, 1, 63, 64, 96, 127})
             \cup {e * 128 + 85 : e \in 0 .. 63},
           Patterns(D14, {0}, {0, 1, 127}) \cup Patterns(D14, {1, 62, 63}, {0})
             \cup Patterns(D14, {31}, {0, 127}) \cup Patterns(D14, {24, 39}, {1, 85})
             \cup {62 * 128 + 127, 63 * 128 + 1, 63 * 128 + 64},
           Patterns(D14, {0, 31}, {0}) \cup Patterns(D14, {23}, {1})
             \cup {1, 31 * 128 + 127, 62 * 128 + 127, 63 * 128, 63 * 128 + 1}>>,
   L |-> <<Patterns(L18, {0, 1} \cup 29 .. 50 \cup {62, 63}, {0, 1, 1023, 1024, 2047})>>]

Converted64 ==
  UNION {{-(2^i), -(2^i) - 1, 2^i - 1, 2^i, 2^i + 1} : i \in 0 .. 16}
    \cup {3 * 1365 * i : i \in -8 .. 16} \cup {5 * i : i \in -25 .. 51}

HalfWords == {0, 1, 2, 3, 7, 8, 9, 14, 15, 16, 17, 100, 127, 128, 129, 136, 143,
              144, 240, 241, 247, 248, 254, 255}

(* For sequences of instructions: zero, the least subnormal and a large    *)
(* number; an addition may be inexact or overflow, a division underflow,   *)
(* divide by zero or be invalid; a comparison with a signaling NaN.        *)
FewInputs(op, fmt) ==
  CASE fmt # "S" -> {}
    [] op = "fadd" -> {1, 122} \X {122}
    [] op = "fdiv" -> {0, 1} \X {0, 122}
    [] op = "flt" -> {125} \X {1}
    [] op = "fcvt_w" -> {<<1>>}
    [] OTHER -> {}

(* The first instruction, rounding by frm, takes every operand; those that *)
(* name a mode, and those that follow, take few.                           *)
AllThenFew(op, fmt, rm, n) ==
  IF rm = 7 /\ n = 0 THEN OperandsOf(op, fmt) ELSE FewInputs(op, fmt)

AfterFew(l) ==
  IF l.op \in {"none", "csr", "trap"} THEN TRUE ELSE l.x \in FewInputs(l.op, l.fmt)

Written == {{}, {"invalid", "inexact"}}
===============================================================================
