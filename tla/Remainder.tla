------------------------------ MODULE Remainder -------------------------------
(***************************************************************************)
(* The remainder of src/softfloat_dpi, f32_rem and f64_rem: what the two   *)
(* files share.  No instruction calls them.                                *)
(***************************************************************************)
EXTENDS Primitives, SoftFloat

\* Subtract b until the result is negative: the last two remainders.
RECURSIVE pastZero(_, _, _)
pastZero(q, sig, b) ==
  IF (sig - b) % M64 < Top THEN pastZero(q + 1, sig - b, b)
  ELSE [q |-> q + 1, before |-> sig, after |-> (sig - b) % M64]

\* The one nearer to zero; at a tie the one of an even quotient.
nearer(z) ==
  LET mean == (z.after + z.before) % 2^W
  IN IF mean >= Top \/ (mean = 0 /\ z.q % 2 = 1) THEN z.before ELSE z.after

remPacked(mode, s, e, sig) ==
  normRoundPack(mode, (s + Bit(sig >= Top)) % 2, e,
                IF sig >= Top THEN M64 - sig ELSE sig)

\* The IEEE remainder.  Reduce(expDiff, sigA, sigB) brings sigA down near
\* sigB with the low bits of the quotient in q.
remWith(mode, a, b, Reduce(_, _, _)) ==
  LET A == unpacked(a)
      B == unpacked(b)
      last2(r) == pastZero(r.q, r.sigA, r.sigB)
  IN IF isNaN(a) \/ isNaN(b) THEN propagateNaN(a, b)
     ELSE IF isInf(a) THEN Invalid
     ELSE IF isInf(b) THEN Exact(a)
     ELSE IF isZero(b) THEN Invalid
     ELSE IF isZero(a) \/ A.exp - B.exp < -1 THEN Exact(a)
     ELSE remPacked(mode, sign(a), B.exp,
                    nearer(last2(Reduce(A.exp - B.exp, A.sig, B.sig))))

\* Two less than the estimate, so that it is never too large.
estimateBelow(sigA, sigB) ==
  LET q == estimateDiv128To64(sigA, 0, sigB) IN IF 2 < q THEN q - 2 ELSE 0
===============================================================================
