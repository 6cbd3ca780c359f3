--------------------------------- MODULE Arith ---------------------------------
(***************************************************************************)
(* Fcsr with the instructions and the arithmetic of ArithInsns: its cfg    *)
(* gives Computed for Results and Ieee754 for Promised.  The sets of       *)
(* operands are parameters.                                                *)
(***************************************************************************)
EXTENDS Fcsr, ArithInsns

CONSTANTS
  Operands,    (* Operands[format][n]: the operands of n-operand instructions *)
  Integers64,  (* integers to convert, of H or 2 * H bits                  *)
  Words        (* operands of the integer unit                             *)

Pairs(fmt) == Operands[fmt][2] \X Operands[fmt][2]
Triples(fmt) == Operands[fmt][3] \X Operands[fmt][3] \X Operands[fmt][3]
Alone(fmt) == {<<a>> : a \in Operands[fmt][1]}
Ints(op) ==
  LET range == CASE op = "from_w" -> -(2^(H - 1)) .. (2^(H - 1) - 1)
                 [] op = "from_wu" -> 0 .. (2^H - 1)
                 [] op = "from_l" -> -(2^(2 * H - 1)) .. (2^(2 * H - 1) - 1)
                 [] op = "from_lu" -> 0 .. (2^(2 * H) - 1)
  IN {<<z>> : z \in Integers64 \cap range}

Insns(ops, fmts) == [op : ops, fmt : fmts]

\* The double format of the conversions is L.
AllRounding ==
  Insns(Arithmetic2 \cup Arithmetic3 \cup {"fsqrt"}, {"S", "D"})
    \cup Insns(ToInteger \cup FromInteger, {"S", "L"})
    \cup Insns({"fcvt_s_d"}, {"D"}) \cup Insns({"fcvt_d_s"}, {"S"})

AllComparing == Insns(OrderedOps, {"S", "D"})

AllInteger == Insns(IntegerUnit, {"X"})

Calls(ops, fmts, modes) == [op : ops, fmt : fmts, modes : {modes}]

AllCalls ==
  Calls(Library2 \cup {"roundToInt"}, {"S", "D"}, {Mode[m] : m \in 1 .. 5})
    \cup Calls(Unrounded2, {"S", "D"}, {"near_even"})
    \cup Calls(ToIntegerMinMag, {"S", "L"}, {"minMag"})

OperandsOf(op, fmt) ==
  CASE op \in IntegerUnit -> Words \X Words
    [] op \in Arithmetic3 -> Triples(fmt)
    [] op \in Arithmetic2 \cup Compare2 \cup Move2 \cup Library2 \cup Unrounded2 -> Pairs(fmt)
    [] op \in FromInteger -> Ints(op)
    [] OTHER -> Alone(fmt)

\* A NaN that an operation returns is any quiet NaN.
SameResult(op, fmt, z, y) ==
  CASE op = "fcvt_s_d" -> IEEE(Single)!SameValue(z, y)
    [] op = "fcvt_d_s" -> IEEE(Double)!SameValue(z, y)
    [] op \in Arithmetic2 \cup Arithmetic3 \cup {"fsqrt"} \cup FromInteger
          \cup Library2 \cup {"ieee_rem", "roundToInt"} ->
         IEEE(Format(fmt))!SameValue(z, y)
    [] OTHER -> z = y

-------------------------------------------------------------------------------
(* Properties.                                                             *)

\* An arithmetic instruction computes what IEEE 754 says: the exact result
\* rounded once, by the mode its field or frm names, and the exact set of
\* flags, although additions and products go through a fused operation and
\* the routines round estimates.
ArithmeticIsIeee ==
  Kept(Arithmetic2 \cup Arithmetic3 \cup {"fsqrt"})

\* A conversion rounds once, raises invalid alone when the value does not
\* fit, and saturates; from the integers and between the formats likewise.
ConversionsAreIeee ==
  Kept(ToInteger \cup FromInteger \cup {"fcvt_s_d", "fcvt_d_s"})

\* The routines of the library that the simulator does not use keep its
\* promise too: addition, subtraction and product without the fused
\* operation, the remainder, rounding to an integral value, truncation, and
\* the other three comparisons.
LibraryIsIeee ==
  Kept(Library2 \cup Unrounded2 \cup {"roundToInt"} \cup ToIntegerMinMag)
===============================================================================
