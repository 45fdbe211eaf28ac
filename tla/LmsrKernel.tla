----------------------------- MODULE LmsrKernel -----------------------------
(***************************************************************************)
(* The fixed-point half of programs/amm/src/lmsr.rs: exp, ln, the LMSR     *)
(* cost and the softmax prices.  The algorithms are the program's; the     *)
(* number of fractional bits is a parameter (64 there), so that TLC can    *)
(* evaluate the same series, truncations and shifts in its own integers.   *)
(*                                                                         *)
(* A definition under a "Broken:" comment is a bug the code does not have: *)
(* substituted for the definition after it, it shows that a property of    *)
(* the runs can fail (README.md, mutants).                                 *)
(***************************************************************************)
EXTENDS Integers, FiniteSetsExt

CONSTANTS
  ONE_Q64,        \* 2 ^ FracBits
  FracBits,       \* 64 in the program
  LN2_Q64,        \* floor(ln 2 * ONE_Q64)
  EXP_MAX_PAIRS,  \* caps on the two series
  LN_MAX_TERMS,
  BPS_DENOM

Outcomes == 0..2

ASSUME KernelConstants ==
  /\ FracBits \in Nat \ {0}
  /\ ONE_Q64 = 2 ^ FracBits
  /\ LN2_Q64 \in 1..(ONE_Q64 - 1)
  /\ EXP_MAX_PAIRS \in Nat \ {0}
  /\ LN_MAX_TERMS \in Nat \ {0}
  /\ BPS_DENOM \in Nat \ {0}

mul_q64(a, b) == (a * b) \div ONE_Q64

\* The j-th pair of the series of e^(-r), of which t is r^(2j)/(2j)!, and the next t.
pair(r, j, t) == mul_q64(t, ONE_Q64 - r \div (2 * j + 1))
next_pair(r, j, t) == mul_q64(t, mul_q64(r, r)) \div ((2 * j + 1) * (2 * j + 2))

\* Broken: the integer part k of x / ln 2 is dropped.
exp_neg_unshifted(x) ==
  LET r == x % LN2_Q64
      Pairs[p \in (0..EXP_MAX_PAIRS) \X Nat] ==
        LET next == next_pair(r, p[1], p[2])
        IN pair(r, p[1], p[2])
             + IF next = 0 \/ p[1] = EXP_MAX_PAIRS THEN 0 ELSE Pairs[<<p[1] + 1, next>>]
  IN Min({Pairs[<<0, ONE_Q64>>], ONE_Q64})

\* e^(-x): reduce x to k*ln2 + r, sum the all-positive paired Taylor series of
\* e^(-r), clamp it to one and shift it down k places.
exp_neg_q64(x) ==
  LET k == x \div LN2_Q64
      r == x - k * LN2_Q64
      Pairs[p \in (0..EXP_MAX_PAIRS) \X Nat] ==
        LET next == next_pair(r, p[1], p[2])
        IN pair(r, p[1], p[2])
             + IF next = 0 \/ p[1] = EXP_MAX_PAIRS THEN 0 ELSE Pairs[<<p[1] + 1, next>>]
  IN IF k >= FracBits THEN 0
     ELSE Min({Pairs[<<0, ONE_Q64>>], ONE_Q64}) \div 2 ^ k

\* Broken: one halving too many is counted, and the series is left out.
ln_miscounted(y) ==
  LET e == CHOOSE e \in 0..FracBits :
             y \div 2 ^ e >= ONE_Q64 /\ y \div 2 ^ e < 2 * ONE_Q64
  IN (e + 1) * LN2_Q64

\* ln y for y >= 1: halve y e times into [1, 2), then the atanh series.
ln_q64(y) ==
  LET e == CHOOSE e \in 0..FracBits :
             y \div 2 ^ e >= ONE_Q64 /\ y \div 2 ^ e < 2 * ONE_Q64
      m == y \div 2 ^ e
      z == ((m - ONE_Q64) * ONE_Q64) \div (m + ONE_Q64)
      Terms[p \in (1..(LN_MAX_TERMS + 1)) \X Nat] ==
        LET next == mul_q64(p[2], mul_q64(z, z))
        IN IF p[2] = 0 \/ p[1] > LN_MAX_TERMS THEN 0
           ELSE next \div (2 * p[1] + 1) + Terms[<<p[1] + 1, next>>]
  IN e * LN2_Q64 + 2 * (z + Terms[<<1, z>>])

MaxOf(q) == Max({q[o] : o \in Outcomes})

\* Broken: the quotients by b are rounded before they are subtracted.
exps_of_quotients(q, b) ==
  [o \in Outcomes |-> exp_neg_q64((MaxOf(q) * ONE_Q64) \div b - (q[o] * ONE_Q64) \div b)]

\* shifted_exp_sum: exp((q_i - max q) / b), whose largest term is exactly one.
shifted_exps(q, b) ==
  [o \in Outcomes |-> exp_neg_q64(((MaxOf(q) - q[o]) * ONE_Q64) \div b)]
shifted_exp_sum(q, b) ==
  LET exps == shifted_exps(q, b) IN exps[0] + exps[1] + exps[2]

\* C(q) = max(q) + b * ln(sum of shifted exponentials)
cost_q64(q, b) == MaxOf(q) * ONE_Q64 + b * ln_q64(shifted_exp_sum(q, b))

\* The softmax, each price rounded down.
prices_bps(q, b) ==
  LET exps == shifted_exps(q, b)
      sum == shifted_exp_sum(q, b)
  IN [o \in Outcomes |-> (exps[o] * BPS_DENOM) \div sum]
=============================================================================
