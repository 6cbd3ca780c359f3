-------------------------------- MODULE MulDiv --------------------------------
(***************************************************************************)
(* The instructions of the functional simulator that multiply to the high  *)
(* half, divide and take remainders (isa_sim_dpi/insns, mulhi.h).  A       *)
(* register is a word of XLEN = 2 * HI bits, an integer below 2^XLEN; the  *)
(* narrow instructions use its lower half.  Everything wraps where the C++ *)
(* wraps.                                                                  *)
(***************************************************************************)
EXTENDS Integers

CONSTANT HI   \* bits of half a register

ASSUME HIAssumption == HI \in Nat \ {0}

XLEN == 2 * HI
Registers == 0 .. (2^XLEN - 1)

word(z) == z % 2^XLEN
sreg(w, a) == ((a + 2^(w - 1)) % 2^w) - 2^(w - 1)   \* sext32, sext_xlen
abs(v) == IF v < 0 THEN -v ELSE v

IntegerUnit == {"mulh", "mulhu", "mulhsu", "div", "divu", "divw", "divuw",
                "rem", "remu", "remw", "remuw"}

-------------------------------------------------------------------------------
(* mulhi.h                                                                 *)

\* By halves; the carry of each sum is what its upper half is for.
mulhu(a, b) ==
  LET a0 == a % 2^HI
      a1 == a \div 2^HI
      b0 == b % 2^HI
      b1 == b \div 2^HI
      t1 == word(a1 * b0 + ((a0 * b0) \div 2^HI))
      t2 == word(a0 * b1 + (t1 % 2^HI))
  IN word(a1 * b1 + (t1 \div 2^HI) + (t2 \div 2^HI))

\* A negative int64_t is a word with its top bit set.
Negative(a) == a >= 2^(XLEN - 1)
Abs64(a) == IF Negative(a) THEN word(2^XLEN - a) ELSE a

(* Fault: the high word is negated on its own, without the borrow. *)
NegatedAlone(res, low) == word(2^XLEN - res)

\* ~res + (a * b == 0): the negated product borrows from its high word
\* unless the low word is zero.  In mulh, a * b and -a have type int64_t, and
\* where they overflow C++ does not say what they are.  They wrap here, as in
\* the build that configure.ac sets up (-O0).  In mulhsu, a * b is unsigned.
NegatedHigh(res, low) == word(2^XLEN - 1 - res + (IF low = 0 THEN 1 ELSE 0))

mulh(a, b) ==
  LET res == mulhu(Abs64(a), Abs64(b))
  IN IF Negative(a) # Negative(b) THEN NegatedHigh(res, word(a * b)) ELSE res

mulhsu(a, b) ==
  LET res == mulhu(Abs64(a), b)
  IN IF Negative(a) THEN NegatedHigh(res, word(a * b)) ELSE res

-------------------------------------------------------------------------------
(* Division.  C's truncates.                                               *)

quotient(l, r) ==
  LET q == abs(l) \div abs(r)
  IN IF (l < 0) # (r < 0) THEN -q ELSE q
remainder(l, r) == l - r * quotient(l, r)

AllOnes == 2^XLEN - 1   \* UINT64_MAX
Least == -(2^(XLEN - 1))   \* INT64_MIN

div(a, b) ==
  LET lhs == sreg(XLEN, a)
      rhs == sreg(XLEN, b)
  IN IF rhs = 0 THEN AllOnes
     ELSE IF lhs = Least /\ rhs = -1 THEN word(lhs)
     ELSE word(quotient(lhs, rhs))
divu(a, b) == IF b = 0 THEN AllOnes ELSE a \div b
divw(a, b) ==
  LET rhs == sreg(HI, b)
  IN IF rhs = 0 THEN AllOnes
     ELSE word(sreg(HI, quotient(sreg(HI, a), rhs)))
divuw(a, b) ==
  LET rhs == b % 2^HI
  IN IF rhs = 0 THEN AllOnes ELSE word(sreg(HI, (a % 2^HI) \div rhs))
rem(a, b) ==
  LET lhs == sreg(XLEN, a)
      rhs == sreg(XLEN, b)
  IN IF rhs = 0 THEN word(lhs)
     ELSE IF lhs = Least /\ rhs = -1 THEN 0
     ELSE word(remainder(lhs, rhs))
remu(a, b) == IF b = 0 THEN a ELSE a % b
remw(a, b) ==
  LET lhs == sreg(HI, a)
      rhs == sreg(HI, b)
  IN IF rhs = 0 THEN word(lhs) ELSE word(sreg(HI, remainder(lhs, rhs)))
remuw(a, b) ==
  LET lhs == a % 2^HI
      rhs == b % 2^HI
  IN IF rhs = 0 THEN word(sreg(HI, lhs)) ELSE word(sreg(HI, lhs % rhs))

IntegerResult(op, a, b) ==
  CASE op = "mulh" -> mulh(a, b)
    [] op = "mulhu" -> mulhu(a, b)
    [] op = "mulhsu" -> mulhsu(a, b)
    [] op = "div" -> div(a, b)
    [] op = "divu" -> divu(a, b)
    [] op = "divw" -> divw(a, b)
    [] op = "divuw" -> divuw(a, b)
    [] op = "rem" -> rem(a, b)
    [] op = "remu" -> remu(a, b)
    [] op = "remw" -> remw(a, b)
    [] op = "remuw" -> remuw(a, b)

-------------------------------------------------------------------------------
(* What the instruction set asks for, z of the registers a and b.          *)

Narrow == {"divw", "divuw", "remw", "remuw"}
Unsigned == {"divu", "divuw", "remu", "remuw"}
Width(op) == IF op \in Narrow THEN HI ELSE XLEN

\* The integer that the lower w bits of v stand for.
SignedOf(w, v) == IF v % 2^w >= 2^(w - 1) THEN (v % 2^w) - 2^w ELSE v % 2^w
Operand(op, v) ==
  IF op \in Unsigned THEN v % 2^Width(op) ELSE SignedOf(Width(op), v)

\* The result of a narrow instruction is sign-extended.
Represents(op, z, v) ==
  z = (IF op \in Narrow THEN SignedOf(HI, v) ELSE v) % 2^XLEN

IsHighHalf(z, p) == z = (p \div 2^XLEN) % 2^XLEN

\* q times r leaves a rest smaller than r and of the sign of l.
Divides(l, r, q) ==
  LET rest == l - q * r
  IN abs(rest) < abs(r) /\ (rest = 0 \/ (rest < 0) = (l < 0))

\* Only these can be a quotient.
Candidates(l, r) == {abs(l) \div abs(r), -(abs(l) \div abs(r))}

IsExact(op, a, b, z) ==
  LET l == Operand(op, a)
      r == Operand(op, b)
  IN CASE op = "mulh" -> IsHighHalf(z, l * r)
       [] op = "mulhu" -> IsHighHalf(z, a * b)
       [] op = "mulhsu" -> IsHighHalf(z, l * b)
       [] op \in {"div", "divu", "divw", "divuw"} ->
            IF r = 0 THEN z = AllOnes
            ELSE \E q \in Candidates(l, r) :
                   Divides(l, r, q) /\ Represents(op, z, q)
       [] OTHER ->
            IF r = 0 THEN Represents(op, z, l)
            ELSE \E q \in Candidates(l, r) :
                   Divides(l, r, q) /\ Represents(op, z, l - q * r)
===============================================================================
