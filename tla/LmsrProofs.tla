----------------------------- MODULE LmsrProofs -----------------------------
(***************************************************************************)
(* The LMSR arithmetic for any liquidity, any bound on the quantities and  *)
(* any number of fractional bits: the fixed-point kernel computes naturals *)
(* that never fall below the largest quantity and move by exactly one per  *)
(* complete set; and on a monotone curve the roundings of buy_cost and     *)
(* sell_refund leave no profitable slicing, no arbitrage against complete  *)
(* sets, and a budget the binary search does not use up.                   *)
(***************************************************************************)
EXTENDS MCLmsr, SumTheorems, TLAPS

-----------------------------------------------------------------------------
(* The series: loops that run over a bounded counter and a term. *)

Grid(lo, hi) == (lo..hi) \X Nat

\* The loop adds add at each iteration, passes next on, and ends in stop.
Loop(lo, hi, add, next, stop) ==
  /\ lo \in Nat /\ hi \in Nat /\ lo <= hi
  /\ add \in [Grid(lo, hi) -> Nat]
  /\ next \in [Grid(lo, hi) -> Nat]
  /\ \A t \in Nat : <<hi, t>> \in stop

\* f is its value from each iteration on.
Runs(f, lo, hi, add, next, stop) ==
  /\ \A p \in Grid(lo, hi) : p \in stop => f[p] = add[p]
  /\ \A p \in Grid(lo, hi) : p \notin stop => f[p] = add[p] + f[<<p[1] + 1, next[p]>>]

\* A loop's value is well defined: it is the last iteration's addend, and before
\* that each iteration's plus the rest.
LEMMA LoopExists ==
  ASSUME NEW lo, NEW hi, NEW add, NEW next, NEW stop, Loop(lo, hi, add, next, stop)
  PROVE  \E f \in [Grid(lo, hi) -> Nat] : Runs(f, lo, hi, add, next, stop)
<1> SUFFICES ASSUME lo \in Nat, hi \in Nat, lo <= hi, NEW D, D = Grid(lo, hi),
                    add \in [D -> Nat], next \in [D -> Nat],
                    \A t \in Nat : <<hi, t>> \in stop
             PROVE  \E f \in [D -> Nat] :
                      /\ \A p \in D : p \in stop => f[p] = add[p]
                      /\ \A p \in D : p \notin stop => f[p] = add[p] + f[<<p[1] + 1, next[p]>>]
  BY DEF Loop, Runs
<1> DEFINE body(f, p) == add[p] + IF p \in stop THEN 0 ELSE f[<<p[1] + 1, next[p]>>]
           Solved == {n \in Nat : \E f \in [D -> Nat] :
                                    \A p \in D : p[1] >= hi - n => f[p] = body(f, p)}
<1>1. \A p \in D : /\ p[1] \in lo..hi /\ p[2] \in Nat /\ p = <<p[1], p[2]>>
                   /\ add[p] \in Nat /\ next[p] \in Nat
  BY DEF Grid
<1>2. \A p \in D : p \in stop \/ (p[1] < hi /\ <<p[1] + 1, next[p]>> \in D)
  <2> TAKE p \in D
  <2>1. CASE p[1] = hi
    BY <1>1, <2>1
  <2>2. CASE p[1] # hi
    <3>1. p[1] + 1 \in lo..hi /\ p[1] < hi
      BY <1>1, <2>2
    <3> QED BY <1>1, <3>1 DEF Grid
  <2> QED BY <2>1, <2>2
<1>3. 0 \in Solved
  <2>1. \A p \in D : p[1] >= hi - 0 => add[p] = body(add, p)
    BY <1>1, <1>2
  <2> QED BY <2>1
<1>4. ASSUME NEW n \in Nat, n \in Solved
      PROVE  n + 1 \in Solved
  <2>1. PICK f \in [D -> Nat] : \A p \in D : p[1] >= hi - n => f[p] = body(f, p)
    BY <1>4
  <2> DEFINE g == [p \in D |-> IF p[1] >= hi - n THEN f[p] ELSE body(f, p)]
  <2>2. \A p \in D : body(f, p) \in Nat
    BY <1>1, <1>2
  <2>3. g \in [D -> Nat]
    BY <2>2
  <2>4. ASSUME NEW p \in D, p[1] >= hi - (n + 1)
        PROVE  g[p] = body(g, p)
    <3>1. g[p] = body(f, p)
      BY <2>1
    <3>2. CASE p \in stop
      BY <3>1, <3>2
    <3>3. CASE p \notin stop
      <4>1. PICK r \in D : r = <<p[1] + 1, next[p]>>
        BY <1>2, <3>3
      <4>2. r[1] >= hi - n
        BY <1>1, <2>4, <4>1
      <4>3. g[r] = f[r]
        BY <4>2
      <4> HIDE DEF g
      <4> QED BY <3>1, <3>3, <4>1, <4>3
    <3> QED BY <3>2, <3>3
  <2> HIDE DEF g
  <2>5. \A p \in D : p[1] >= hi - (n + 1) => g[p] = body(g, p)
    BY <2>4
  <2>6. \E f0 \in [D -> Nat] : \A p \in D : p[1] >= hi - (n + 1) => f0[p] = body(f0, p)
    BY <2>3, <2>5
  <2>7. n + 1 \in Nat
    OBVIOUS
  <2> HIDE DEF body
  <2> QED BY <2>6, <2>7
<1>5. hi - lo \in Solved
  <2> HIDE DEF Solved
  <2>1. hi - lo \in Nat
    OBVIOUS
  <2> QED BY <1>3, <1>4, <2>1, NatClosed
<1>6. PICK f \in [D -> Nat] : \A p \in D : p[1] >= hi - (hi - lo) => f[p] = body(f, p)
  BY <1>5
<1>7. \A p \in D : f[p] = body(f, p)
  <2> TAKE p \in D
  <2>1. p[1] >= hi - (hi - lo)
    <3>1. p[1] \in lo..hi /\ hi - (hi - lo) = lo
      BY <1>1
    <3> QED BY <3>1
  <2> QED BY <1>6, <2>1
<1>8. \A p \in D : p \in stop => f[p] = add[p]
  <2> TAKE p \in D
  <2>1. p \in stop => f[p] = add[p] + 0 /\ add[p] \in Nat
    BY <1>1, <1>7
  <2> QED BY <2>1
<1>9. \A p \in D : p \notin stop => f[p] = add[p] + f[<<p[1] + 1, next[p]>>]
  BY <1>7
<1> QED BY <1>8, <1>9

\* However it is chosen, it is a natural.
LEMMA LoopNat ==
  ASSUME NEW lo, NEW hi, NEW add, NEW next, NEW stop, Loop(lo, hi, add, next, stop),
         NEW f, Runs(f, lo, hi, add, next, stop)
  PROVE  \A p \in Grid(lo, hi) : f[p] \in Nat
<1> SUFFICES ASSUME lo \in Nat, hi \in Nat, lo <= hi, NEW D, D = Grid(lo, hi),
                    add \in [D -> Nat], next \in [D -> Nat],
                    \A t \in Nat : <<hi, t>> \in stop,
                    \A p \in D : p \in stop => f[p] = add[p],
                    \A p \in D : p \notin stop => f[p] = add[p] + f[<<p[1] + 1, next[p]>>]
             PROVE  \A p \in D : f[p] \in Nat
  BY DEF Loop, Runs
<1> DEFINE Typed == {n \in Nat : \A p \in D : p[1] >= hi - n => f[p] \in Nat}
<1>1. \A p \in D : /\ p[1] \in lo..hi /\ p[2] \in Nat /\ p = <<p[1], p[2]>>
                   /\ add[p] \in Nat /\ next[p] \in Nat
  BY DEF Grid
<1>2. \A p \in D : p \in stop \/ (p[1] < hi /\ <<p[1] + 1, next[p]>> \in D)
  <2> TAKE p \in D
  <2>1. CASE p[1] = hi
    BY <1>1, <2>1
  <2>2. CASE p[1] # hi
    <3>1. p[1] + 1 \in lo..hi /\ p[1] < hi
      BY <1>1, <2>2
    <3> QED BY <1>1, <3>1 DEF Grid
  <2> QED BY <2>1, <2>2
<1> SUFFICES \A p \in D : f[p] \in Nat
  OBVIOUS
<1>3. 0 \in Typed
  <2>1. ASSUME NEW p \in D, p[1] >= hi - 0
        PROVE  f[p] \in Nat
    <3>1. p \in stop
      BY <1>1, <1>2, <2>1
    <3>2. add[p] \in Nat
      BY <1>1
    <3>3. f[p] = add[p]
      BY <3>1
    <3> QED BY <3>2, <3>3
  <2> QED BY <2>1
<1>4. ASSUME NEW n \in Nat, n \in Typed
      PROVE  n + 1 \in Typed
  <2>1. ASSUME NEW p \in D, p[1] >= hi - (n + 1)
        PROVE  f[p] \in Nat
    <3>1. CASE p \in stop
      <4>1. add[p] \in Nat
        BY <1>1
      <4>2. f[p] = add[p]
        BY <3>1
      <4> QED BY <4>1, <4>2
    <3>2. CASE p \notin stop
      <4>1. PICK r \in D : r = <<p[1] + 1, next[p]>>
        BY <1>2, <3>2
      <4>2. r[1] >= hi - n
        BY <1>1, <2>1, <4>1
      <4>3. f[r] \in Nat
        BY <1>4, <4>2
      <4>4. f[p] = add[p] + f[r]
        BY <3>2, <4>1
      <4> QED BY <1>1, <4>3, <4>4
    <3> QED BY <3>1, <3>2
  <2> QED BY <2>1
<1>5. hi - lo \in Typed
  <2> HIDE DEF Typed
  <2>1. hi - lo \in Nat
    OBVIOUS
  <2> QED BY <1>3, <1>4, <2>1, NatClosed
<1> SUFFICES ASSUME NEW p \in D PROVE f[p] \in Nat
  OBVIOUS
<1>6. p[1] >= hi - (hi - lo)
  <2>1. p[1] \in lo..hi /\ hi - (hi - lo) = lo
    BY <1>1
  <2> QED BY <2>1
<1> QED BY <1>5, <1>6

\* Shifting by n places divides by a positive number.
LEMMA PowPositive ==
  ASSUME NEW n \in Nat
  PROVE  2 ^ n \in Nat \ {0}
<1>1. IsFiniteSet(1..n) /\ Cardinality(1..n) = n
  BY FS_Interval
<1>2. IsFiniteSet(SUBSET (1..n)) /\ Cardinality(SUBSET (1..n)) = 2 ^ n
  BY <1>1, FS_SUBSET
<1>3. SUBSET (1..n) # {}
  OBVIOUS
<1> QED BY <1>2, <1>3, FS_CardinalityType, FS_EmptySet

-----------------------------------------------------------------------------
(* The kernel. *)

LEMMA OneFacts ==
  /\ ONE_Q64 \in Nat \ {0} /\ LN2_Q64 \in Nat \ {0} /\ LN2_Q64 < ONE_Q64
  /\ FracBits \in Nat \ {0} /\ EXP_MAX_PAIRS \in Nat \ {0} /\ LN_MAX_TERMS \in Nat \ {0}
  /\ BPS_DENOM \in Nat \ {0}
BY KernelConstants, PowPositive

LEMMA MulQ ==
  ASSUME NEW x \in Nat, NEW y \in Nat
  PROVE  mul_q64(x, y) \in Nat
<1>1. x * y \in Nat
  BY MulNat
<1> QED BY <1>1, OneFacts, DivBounds DEF mul_q64

\* One is neutral, and zero stays zero.
LEMMA MulQOne == mul_q64(ONE_Q64, ONE_Q64) = ONE_Q64
<1>1. PICK d \in Nat \ {0} : d = ONE_Q64
  BY OneFacts
<1>2. (d * d) \div d = d
  OBVIOUS
<1> QED BY <1>1, <1>2 DEF mul_q64

LEMMA MulQZero ==
  ASSUME NEW x \in Nat PROVE mul_q64(x, 0) = 0
<1>1. PICK d \in Nat \ {0} : d = ONE_Q64
  BY OneFacts
<1>2. (x * 0) \div d = 0
  OBVIOUS
<1> QED BY <1>1, <1>2 DEF mul_q64

\* What a halved argument leaves is less than one: pairs and terms are naturals.
LEMMA PairTypes ==
  ASSUME NEW r \in Nat, r < ONE_Q64, NEW j \in Nat, NEW t \in Nat
  PROVE  pair(r, j, t) \in Nat /\ next_pair(r, j, t) \in Nat
<1>1. 2 * j + 1 \in Nat \ {0} /\ 2 * j + 2 \in Nat \ {0}
  OBVIOUS
<1>2. PICK d \in Nat : d = r \div (2 * j + 1) /\ d <= r
  <2>1. PICK n \in Nat \ {0} : n = 2 * j + 1
    BY <1>1
  <2>2. r \div n \in Nat /\ r \div n <= r
    OBVIOUS
  <2> QED BY <2>1, <2>2
<1>3. ONE_Q64 - d \in Nat
  BY <1>2, OneFacts
<1>4. pair(r, j, t) \in Nat
  BY <1>2, <1>3, MulQ DEF pair
<1>5. mul_q64(t, mul_q64(r, r)) \in Nat
  BY MulQ
<1>6. (2 * j + 1) * (2 * j + 2) \in Nat \ {0}
  BY <1>1, MulPos
<1>7. next_pair(r, j, t) \in Nat
  BY <1>5, <1>6, DivBounds DEF next_pair
<1> QED BY <1>4, <1>7

PairsFrom(f, r, p) ==
  LET next == next_pair(r, p[1], p[2])
  IN pair(r, p[1], p[2]) + IF next = 0 \/ p[1] = EXP_MAX_PAIRS THEN 0 ELSE f[<<p[1] + 1, next>>]

\* The sum of the pairs.
LEMMA PairsSolve ==
  ASSUME NEW r \in Nat, r < ONE_Q64,
         NEW f, f = CHOOSE g : g = [p \in Grid(0, EXP_MAX_PAIRS) |-> PairsFrom(g, r, p)]
  PROVE  \A p \in Grid(0, EXP_MAX_PAIRS) : f[p] = PairsFrom(f, r, p) /\ f[p] \in Nat
<1> DEFINE D == Grid(0, EXP_MAX_PAIRS)
<1>1. \A p \in D : p[1] \in 0..EXP_MAX_PAIRS /\ p[1] \in Nat /\ p[2] \in Nat
  BY OneFacts DEF Grid
<1>2. PICK add : add = [p \in D |-> pair(r, p[1], p[2])]
  OBVIOUS
<1>3. PICK next : next = [p \in D |-> next_pair(r, p[1], p[2])]
  OBVIOUS
<1>4. PICK stop : stop = {p \in D : next_pair(r, p[1], p[2]) = 0 \/ p[1] = EXP_MAX_PAIRS}
  OBVIOUS
<1>5. Loop(0, EXP_MAX_PAIRS, add, next, stop)
  <2>1. add \in [D -> Nat] /\ next \in [D -> Nat]
    BY <1>1, <1>2, <1>3, PairTypes
  <2>2. \A t \in Nat : <<EXP_MAX_PAIRS, t>> \in stop
    BY <1>4, OneFacts DEF Grid
  <2> QED BY <2>1, <2>2, OneFacts DEF Loop
<1>6. \A g : (\A p \in D : g[p] = PairsFrom(g, r, p)) <=> Runs(g, 0, EXP_MAX_PAIRS, add, next, stop)
  <2>1. ASSUME NEW g, NEW p \in D
        PROVE  /\ p \in stop => PairsFrom(g, r, p) = add[p]
               /\ p \notin stop => PairsFrom(g, r, p) = add[p] + g[<<p[1] + 1, next[p]>>]
    <3>1. add[p] \in Nat
      BY <1>5 DEF Loop
    <3>2. CASE p \in stop
      <4>1. PairsFrom(g, r, p) = add[p] + 0
        BY <1>2, <1>4, <3>2 DEF PairsFrom
      <4> QED BY <3>1, <3>2, <4>1
    <3>3. CASE p \notin stop
      BY <1>2, <1>3, <1>4, <3>3 DEF PairsFrom
    <3> QED BY <3>2, <3>3
  <2> QED BY <2>1, Zenon DEF Runs
<1>7. PICK g \in [D -> Nat] : Runs(g, 0, EXP_MAX_PAIRS, add, next, stop)
  BY <1>5, LoopExists, Zenon
<1>8. \A p \in D : g[p] = PairsFrom(g, r, p)
  BY <1>6, <1>7, Zenon
<1>9. g = [p \in D |-> PairsFrom(g, r, p)]
  <2>1. g = [p \in D |-> g[p]]
    OBVIOUS
  <2>2. [p \in D |-> g[p]] = [p \in D |-> PairsFrom(g, r, p)]
    BY <1>8
  <2> QED BY <2>1, <2>2
<1>10. f = [p \in D |-> PairsFrom(f, r, p)]
  BY <1>9, Zenon
<1>11. \A p \in D : f[p] = PairsFrom(f, r, p)
  BY <1>10
<1>12. \A p \in D : f[p] \in Nat
  <2>1. Runs(f, 0, EXP_MAX_PAIRS, add, next, stop)
    BY <1>6, <1>11, Zenon
  <2> QED BY <1>5, <2>1, LoopNat, Zenon
<1> QED BY <1>11, <1>12

\* The smaller of two naturals.
LEMMA MinOfTwo ==
  ASSUME NEW x \in Nat, NEW y \in Nat
  PROVE  /\ Min({x, y}) \in Nat /\ Min({x, y}) <= y
         /\ y <= x => Min({x, y}) = y
<1>1. \E m \in {x, y} : \A n \in {x, y} : m <= n
  <2>1. CASE x <= y
    BY <2>1
  <2>2. CASE y <= x
    BY <2>2
  <2> QED BY <2>1, <2>2
<1>2. PICK m : m = Min({x, y})
  OBVIOUS
<1>3. m \in {x, y} /\ \A n \in {x, y} : m <= n
  BY <1>1, <1>2 DEF Min
<1> QED BY <1>2, <1>3

\* e^(-x) lies between zero and one, and e^0 is one exactly.
LEMMA ExpBounds ==
  ASSUME NEW x \in Nat
  PROVE  exp_neg_q64(x) \in 0..ONE_Q64 /\ (x = 0 => exp_neg_q64(x) = ONE_Q64)
<1> DEFINE k == x \div LN2_Q64
           r == x - k * LN2_Q64
           Pairs == CHOOSE g : g = [p \in (0..EXP_MAX_PAIRS) \X Nat |->
                       LET next == next_pair(r, p[1], p[2])
                       IN pair(r, p[1], p[2])
                            + IF next = 0 \/ p[1] = EXP_MAX_PAIRS THEN 0 ELSE g[<<p[1] + 1, next>>]]
<1>1. exp_neg_q64(x) = IF k >= FracBits THEN 0 ELSE Min({Pairs[<<0, ONE_Q64>>], ONE_Q64}) \div 2 ^ k
  BY Zenon DEF exp_neg_q64
<1>2. k \in Nat /\ (x = 0 => k = 0)
  <2>1. PICK n \in Nat \ {0} : n = LN2_Q64
    BY OneFacts
  <2>2. x \div n \in Nat /\ (x = 0 => x \div n = 0)
    OBVIOUS
  <2> QED BY <2>1, <2>2
<1> HIDE DEF Pairs
<1>3. r \in Nat /\ r < ONE_Q64 /\ (x = 0 => r = 0)
  <2>1. PICK n \in Nat \ {0} : n = LN2_Q64 /\ n < ONE_Q64
    BY OneFacts
  <2>2. x - (x \div n) * n \in 0..(n - 1)
    OBVIOUS
  <2>3. r = x - (x \div n) * n
    BY <2>1
  <2>4. r \in 0..(n - 1)
    BY <2>2, <2>3
  <2>5. x = 0 => r = 0
    <3> SUFFICES ASSUME x = 0 PROVE r = 0
      OBVIOUS
    <3>1. k = 0 /\ 0 * n = 0
      BY <1>2
    <3>2. r = 0 - 0 * n
      BY <2>1, <3>1
    <3> QED BY <3>1, <3>2
  <2> QED BY <2>1, <2>4, <2>5, OneFacts
<1>4. Pairs = CHOOSE g : g = [p \in Grid(0, EXP_MAX_PAIRS) |-> PairsFrom(g, r, p)]
  BY Zenon DEF PairsFrom, Grid, Pairs
<1> HIDE DEF k, r
<1>5. \A p \in Grid(0, EXP_MAX_PAIRS) : Pairs[p] = PairsFrom(Pairs, r, p) /\ Pairs[p] \in Nat
  BY <1>3, <1>4, PairsSolve
<1>6. <<0, ONE_Q64>> \in Grid(0, EXP_MAX_PAIRS)
  BY OneFacts DEF Grid
<1>7. PICK s \in Nat : s = Pairs[<<0, ONE_Q64>>] /\ (x = 0 => s >= ONE_Q64)
  <2>1. Pairs[<<0, ONE_Q64>>] \in Nat
    BY <1>5, <1>6
  <2>2. ASSUME x = 0
        PROVE  Pairs[<<0, ONE_Q64>>] >= ONE_Q64
    <3>1. pair(r, 0, ONE_Q64) = ONE_Q64
      <4>1. r \div (2 * 0 + 1) = 0
        BY <1>3, <2>2
      <4>2. ONE_Q64 - r \div (2 * 0 + 1) = ONE_Q64
        BY <4>1, OneFacts
      <4> QED BY <4>2, MulQOne DEF pair
    <3>2. PICK t \in Nat : t = next_pair(r, 0, ONE_Q64)
      BY <1>3, PairTypes, OneFacts
    <3>3. <<0 + 1, t>> \in Grid(0, EXP_MAX_PAIRS)
      BY OneFacts DEF Grid
    <3>4. PICK u \in Nat : u = Pairs[<<0 + 1, t>>]
      BY <1>5, <3>3
    <3>5. Pairs[<<0, ONE_Q64>>] = ONE_Q64 + IF t = 0 \/ 0 = EXP_MAX_PAIRS THEN 0 ELSE u
      BY <1>5, <1>6, <3>1, <3>2, <3>4 DEF PairsFrom
    <3> QED BY <3>5, OneFacts
  <2> QED BY <2>1, <2>2
<1>8. PICK m \in Nat : m = Min({s, ONE_Q64}) /\ m <= ONE_Q64 /\ (x = 0 => m = ONE_Q64)
  BY <1>7, MinOfTwo, OneFacts
<1>9. PICK w \in Nat \ {0} : w = 2 ^ k /\ (x = 0 => w = 1)
  <2>1. 2 ^ k \in Nat \ {0}
    BY <1>2, PowPositive
  <2>2. x = 0 => 2 ^ k = 1
    <3>1. 2 ^ 0 = 1
      OBVIOUS
    <3> QED BY <1>2, <3>1
  <2> QED BY <2>1, <2>2
<1>10. m \div w \in Nat /\ m \div w <= m /\ (w = 1 => m \div w = m)
  OBVIOUS
<1>11. exp_neg_q64(x) = IF k >= FracBits THEN 0 ELSE m \div w
  BY <1>1, <1>7, <1>8, <1>9
<1> QED BY <1>2, <1>8, <1>9, <1>10, <1>11, OneFacts

\* The sum of the terms.
TermsFrom(f, z, p) ==
  LET next == mul_q64(p[2], mul_q64(z, z))
  IN IF p[2] = 0 \/ p[1] > LN_MAX_TERMS THEN 0
     ELSE next \div (2 * p[1] + 1) + f[<<p[1] + 1, next>>]

LEMMA TermsSolve ==
  ASSUME NEW z \in Nat,
         NEW f, f = CHOOSE g : g = [p \in Grid(1, LN_MAX_TERMS + 1) |-> TermsFrom(g, z, p)]
  PROVE  \A p \in Grid(1, LN_MAX_TERMS + 1) : f[p] \in Nat
<1> DEFINE D == Grid(1, LN_MAX_TERMS + 1)
           Following(p) == mul_q64(p[2], mul_q64(z, z))
<1>1. \A p \in D : p[1] \in 1..(LN_MAX_TERMS + 1) /\ p[1] \in Nat /\ p[2] \in Nat /\ Following(p) \in Nat
  <2>1. \A p \in D : p[1] \in 1..(LN_MAX_TERMS + 1) /\ p[1] \in Nat /\ p[2] \in Nat
    BY OneFacts DEF Grid
  <2> QED BY <2>1, MulQ
<1>2. PICK stop : stop = {p \in D : p[2] = 0 \/ p[1] > LN_MAX_TERMS}
  OBVIOUS
<1>3. PICK add : add = [p \in D |-> IF p \in stop THEN 0 ELSE Following(p) \div (2 * p[1] + 1)]
  OBVIOUS
<1>4. PICK next : next = [p \in D |-> Following(p)]
  OBVIOUS
<1>5. Loop(1, LN_MAX_TERMS + 1, add, next, stop)
  <2>1. add \in [D -> Nat]
    <3>1. \A p \in D : Following(p) \div (2 * p[1] + 1) \in Nat
      <4> TAKE p \in D
      <4>1. PICK n \in Nat, d \in Nat \ {0} : n = Following(p) /\ d = 2 * p[1] + 1
        BY <1>1
      <4>2. n \div d \in Nat
        OBVIOUS
      <4> QED BY <4>1, <4>2
    <3> HIDE DEF Next, D
    <3> QED BY <1>3, <3>1
  <2>2. next \in [D -> Nat]
    BY <1>1, <1>4
  <2>3. \A t \in Nat : <<LN_MAX_TERMS + 1, t>> \in stop
    BY <1>2, OneFacts DEF Grid
  <2> QED BY <2>1, <2>2, <2>3, OneFacts DEF Loop
<1>6. \A g : (\A p \in D : g[p] = TermsFrom(g, z, p)) <=> Runs(g, 1, LN_MAX_TERMS + 1, add, next, stop)
  <2>1. ASSUME NEW g, NEW p \in D
        PROVE  /\ p \in stop => TermsFrom(g, z, p) = add[p]
               /\ p \notin stop => TermsFrom(g, z, p) = add[p] + g[<<p[1] + 1, next[p]>>]
    BY <1>2, <1>3, <1>4 DEF TermsFrom
  <2> QED BY <2>1, Zenon DEF Runs
<1>7. PICK g \in [D -> Nat] : Runs(g, 1, LN_MAX_TERMS + 1, add, next, stop)
  BY <1>5, LoopExists, Zenon
<1>8. \A p \in D : g[p] = TermsFrom(g, z, p)
  BY <1>6, <1>7, Zenon
<1>9. g = [p \in D |-> TermsFrom(g, z, p)]
  <2>1. g = [p \in D |-> g[p]]
    OBVIOUS
  <2>2. [p \in D |-> g[p]] = [p \in D |-> TermsFrom(g, z, p)]
    BY <1>8
  <2> QED BY <2>1, <2>2
<1>10. f = [p \in D |-> TermsFrom(f, z, p)]
  BY <1>9, Zenon
<1>11. \A p \in D : f[p] = TermsFrom(f, z, p)
  BY <1>10
<1>12. Runs(f, 1, LN_MAX_TERMS + 1, add, next, stop)
  BY <1>6, <1>11, Zenon
<1> QED BY <1>5, <1>12, LoopNat, Zenon

\* The logarithm of a sum of one to three is a natural.
LEMMA LnNat ==
  ASSUME NEW y \in ONE_Q64..(3 * ONE_Q64)
  PROVE  ln_q64(y) \in Nat
<1> DEFINE Halved(n) == y \div 2 ^ n >= ONE_Q64 /\ y \div 2 ^ n < 2 * ONE_Q64
           e == CHOOSE n \in 0..FracBits : Halved(n)
           m == y \div 2 ^ e
           z == ((m - ONE_Q64) * ONE_Q64) \div (m + ONE_Q64)
           Terms == CHOOSE g : g = [p \in (1..(LN_MAX_TERMS + 1)) \X Nat |->
                      LET next == mul_q64(p[2], mul_q64(z, z))
                      IN IF p[2] = 0 \/ p[1] > LN_MAX_TERMS THEN 0
                         ELSE next \div (2 * p[1] + 1) + g[<<p[1] + 1, next>>]]
<1>1. ln_q64(y) = e * LN2_Q64 + 2 * (z + Terms[<<1, z>>])
  BY Zenon DEF ln_q64
<1> HIDE DEF Terms
<1>2. \E n \in 0..FracBits : Halved(n)
  <2>1. PICK d \in Nat \ {0} : d = ONE_Q64
    BY OneFacts
  <2>2. y \in Nat /\ y >= d /\ y <= 3 * d
    BY <2>1
  <2>3. CASE y < 2 * d
    <3>1. 2 ^ 0 = 1 /\ y \div 1 = y
      BY <2>2
    <3>2. Halved(0)
      BY <2>1, <2>2, <2>3, <3>1
    <3>3. 0 \in 0..FracBits
      BY OneFacts
    <3> HIDE DEF Halved
    <3> QED BY <3>2, <3>3
  <2>4. CASE y >= 2 * d
    <3>1. 2 ^ 1 = 2 /\ y \div 2 >= d /\ y \div 2 < 2 * d
      BY <2>1, <2>2, <2>4
    <3>2. Halved(1)
      BY <2>1, <3>1
    <3>3. 1 \in 0..FracBits
      BY OneFacts
    <3> HIDE DEF Halved
    <3> QED BY <3>2, <3>3
  <2> QED BY <2>1, <2>2, <2>3, <2>4
<1>3. e \in 0..FracBits /\ Halved(e)
  <2> HIDE DEF Halved
  <2> QED BY <1>2
<1>4. e \in Nat
  BY <1>3, OneFacts
<1>5. m \in Nat /\ m >= ONE_Q64
  <2>1. PICK w \in Nat \ {0} : w = 2 ^ e
    BY <1>4, PowPositive
  <2>2. y \in Nat
    BY OneFacts
  <2>3. y \div w \in Nat
    BY <2>1, <2>2
  <2> QED BY <1>3, <2>1, <2>3
<1> HIDE DEF e, m
<1>6. z \in Nat
  <2>1. PICK d \in Nat \ {0} : d = ONE_Q64
    BY OneFacts
  <2>2. PICK n \in Nat : n = (m - d) * d
    <3>1. m - d \in Nat
      BY <1>5, <2>1
    <3> QED BY <3>1, MulNat
  <2>3. PICK u \in Nat \ {0} : u = m + d
    BY <1>5
  <2>4. n \div u \in Nat
    OBVIOUS
  <2> QED BY <2>1, <2>2, <2>3, <2>4
<1>7. Terms = CHOOSE g : g = [p \in Grid(1, LN_MAX_TERMS + 1) |-> TermsFrom(g, z, p)]
  BY Zenon DEF TermsFrom, Grid, Terms
<1> HIDE DEF z
<1>8. Terms[<<1, z>>] \in Nat
  <2>1. <<1, z>> \in Grid(1, LN_MAX_TERMS + 1)
    BY <1>6, OneFacts DEF Grid
  <2>2. \A p \in Grid(1, LN_MAX_TERMS + 1) : Terms[p] \in Nat
    BY <1>6, <1>7, TermsSolve
  <2> QED BY <2>1, <2>2
<1>9. e * LN2_Q64 \in Nat
  BY <1>4, OneFacts, MulNat
<1> QED BY <1>1, <1>6, <1>8, <1>9

-----------------------------------------------------------------------------
(* The cost of a vector and its prices. *)

Naturals3 == [Outcomes -> Nat]

\* The largest quantity is one of the three, and none is larger.
LEMMA MaxIs ==
  ASSUME NEW x \in Naturals3
  PROVE  /\ MaxOf(x) \in Nat
         /\ \A o \in Outcomes : x[o] <= MaxOf(x)
         /\ \E o \in Outcomes : x[o] = MaxOf(x)
<1> DEFINE S == {x[o] : o \in Outcomes}
<1>1. \A o \in Outcomes : x[o] \in Nat
  BY DEF Naturals3
<1>2. \E m \in S : \A n \in S : m >= n
  <2>1. PICK i \in Nat, j \in Nat, k \in Nat : i = x[0] /\ j = x[1] /\ k = x[2]
    BY <1>1 DEF Outcomes
  <2>2. S = {i, j, k}
    BY <2>1 DEF Outcomes
  <2>3. \E m \in {i, j, k} : m >= i /\ m >= j /\ m >= k
    <3>1. CASE i >= j /\ i >= k
      BY <3>1
    <3>2. CASE j >= i /\ j >= k
      BY <3>2
    <3>3. CASE k >= i /\ k >= j
      BY <3>3
    <3> QED BY <3>1, <3>2, <3>3
  <2> QED BY <2>2, <2>3
<1>3. PICK m : m = Max(S)
  OBVIOUS
<1>4. m \in S /\ \A n \in S : m >= n
  <2> HIDE DEF S
  <2> QED BY <1>2, <1>3 DEF Max
<1>5. MaxOf(x) = m
  BY <1>3 DEF MaxOf
<1> QED BY <1>1, <1>4, <1>5

\* The largest exponential is exactly one, so the three sum to one to three.
LEMMA SumBounds ==
  ASSUME NEW x \in Naturals3, NEW bb \in Nat \ {0}
  PROVE  /\ shifted_exps(x, bb) \in [Outcomes -> 0..ONE_Q64]
         /\ \E o \in Outcomes : shifted_exps(x, bb)[o] = ONE_Q64
         /\ shifted_exp_sum(x, bb) \in ONE_Q64..(3 * ONE_Q64)
<1> DEFINE arg(o) == ((MaxOf(x) - x[o]) * ONE_Q64) \div bb
<1>1. \A o \in Outcomes : arg(o) \in Nat /\ (x[o] = MaxOf(x) => arg(o) = 0)
  <2> TAKE o \in Outcomes
  <2>1. PICK d \in Nat : d = MaxOf(x) - x[o] /\ (x[o] = MaxOf(x) => d = 0)
    <3>1. x[o] \in Nat /\ MaxOf(x) \in Nat /\ x[o] <= MaxOf(x)
      BY MaxIs DEF Naturals3
    <3> QED BY <3>1
  <2>2. PICK n \in Nat : n = d * ONE_Q64 /\ (d = 0 => n = 0)
    <3>1. d * ONE_Q64 \in Nat
      BY MulNat, OneFacts
    <3>2. d = 0 => d * ONE_Q64 = 0
      BY OneFacts
    <3> QED BY <3>1, <3>2
  <2>3. n \div bb \in Nat /\ (n = 0 => n \div bb = 0)
    OBVIOUS
  <2> QED BY <2>1, <2>2, <2>3
<1>2. \A o \in Outcomes : shifted_exps(x, bb)[o] = exp_neg_q64(arg(o))
  BY DEF shifted_exps
<1> HIDE DEF arg
<1>3. \A o \in Outcomes : /\ exp_neg_q64(arg(o)) \in 0..ONE_Q64
                          /\ x[o] = MaxOf(x) => exp_neg_q64(arg(o)) = ONE_Q64
  BY <1>1, ExpBounds
<1>4. shifted_exps(x, bb) \in [Outcomes -> 0..ONE_Q64]
  <2>1. shifted_exps(x, bb) = [o \in Outcomes |-> shifted_exps(x, bb)[o]]
    BY DEF shifted_exps
  <2> QED BY <1>2, <1>3, <2>1
<1>5. \E o \in Outcomes : shifted_exps(x, bb)[o] = ONE_Q64
  BY <1>2, <1>3, MaxIs
<1>6. shifted_exp_sum(x, bb) = shifted_exps(x, bb)[0] + shifted_exps(x, bb)[1] + shifted_exps(x, bb)[2]
  BY DEF shifted_exp_sum
<1>7. PICK i \in 0..ONE_Q64, j \in 0..ONE_Q64, k \in 0..ONE_Q64 :
         /\ i = shifted_exps(x, bb)[0] /\ j = shifted_exps(x, bb)[1] /\ k = shifted_exps(x, bb)[2]
         /\ i = ONE_Q64 \/ j = ONE_Q64 \/ k = ONE_Q64
  BY <1>4, <1>5 DEF Outcomes
<1>8. i + j + k \in ONE_Q64..(3 * ONE_Q64)
  BY <1>7, OneFacts
<1> QED BY <1>4, <1>5, <1>6, <1>7, <1>8

\* Truncation never takes the cost below the largest quantity.
LEMMA CostFacts ==
  ASSUME NEW x \in Naturals3, NEW bb \in Nat \ {0}
  PROVE  /\ cost_q64(x, bb) \in Nat
         /\ cost_q64(x, bb) >= MaxOf(x) * ONE_Q64
         /\ \A o \in Outcomes : cost_q64(x, bb) >= x[o] * ONE_Q64
<1>1. PICK l \in Nat : l = ln_q64(shifted_exp_sum(x, bb))
  BY SumBounds, LnNat
<1>2. PICK n \in Nat : n = bb * l
  BY MulNat
<1>3. PICK top \in Nat : top = MaxOf(x) * ONE_Q64
  BY MaxIs, MulNat, OneFacts
<1>4. cost_q64(x, bb) = top + n
  BY <1>1, <1>2, <1>3 DEF cost_q64
<1>5. \A o \in Outcomes : x[o] * ONE_Q64 <= top
  <2> TAKE o \in Outcomes
  <2>1. x[o] \in Nat /\ MaxOf(x) \in Nat /\ x[o] <= MaxOf(x)
    BY MaxIs DEF Naturals3
  <2> QED BY <1>3, <2>1, MulMono, OneFacts
<1>6. \A o \in Outcomes : x[o] * ONE_Q64 \in Nat
  BY MulNat, OneFacts DEF Naturals3
<1> QED BY <1>3, <1>4, <1>5, <1>6

\* Each price is a share of the whole.
LEMMA PriceFacts ==
  ASSUME NEW x \in Naturals3, NEW bb \in Nat \ {0}
  PROVE  prices_bps(x, bb) \in [Outcomes -> 0..BPS_DENOM]
<1>1. PICK s \in Nat \ {0} : s = shifted_exp_sum(x, bb) /\ s >= ONE_Q64
  BY SumBounds, OneFacts
<1>2. prices_bps(x, bb) = [o \in Outcomes |-> (shifted_exps(x, bb)[o] * BPS_DENOM) \div s]
  BY <1>1 DEF prices_bps
<1>3. \A o \in Outcomes : (shifted_exps(x, bb)[o] * BPS_DENOM) \div s \in 0..BPS_DENOM
  <2> TAKE o \in Outcomes
  <2>1. PICK n \in Nat : n = shifted_exps(x, bb)[o] /\ n <= s
    BY <1>1, SumBounds, OneFacts
  <2>2. PICK d \in Nat : d = BPS_DENOM
    BY OneFacts
  <2>3. n * d \in Nat /\ n * d <= s * d /\ s * d \in Nat
    BY <2>1, MulNat, MulMono
  <2>4. (n * d) \div s <= (s * d) \div s
    BY <2>3, DivMono
  <2>5. (s * d) \div s = d
    OBVIOUS
  <2>6. (n * d) \div s \in Nat
    BY <2>3, DivBounds
  <2> QED BY <2>1, <2>2, <2>4, <2>5, <2>6
<1> QED BY <1>2, <1>3

\* An equal shift of the three quantities moves the largest with it, so every
\* exponential, the sum and the prices stay what they were.
LEMMA ShiftFacts ==
  ASSUME NEW x \in Naturals3, NEW y \in Naturals3, NEW d \in Nat, NEW bb \in Nat \ {0},
         \A o \in Outcomes : y[o] = x[o] + d
  PROVE  /\ cost_q64(y, bb) = cost_q64(x, bb) + d * ONE_Q64
         /\ prices_bps(y, bb) = prices_bps(x, bb)
<1>1. MaxOf(y) = MaxOf(x) + d
  <2>1. PICK i \in Outcomes : x[i] = MaxOf(x)
    BY MaxIs
  <2>2. PICK j \in Outcomes : y[j] = MaxOf(y)
    BY MaxIs
  <2>3. x[j] <= MaxOf(x) /\ y[i] <= MaxOf(y) /\ x[i] \in Nat /\ x[j] \in Nat
    BY MaxIs DEF Naturals3
  <2>4. MaxOf(x) \in Nat /\ MaxOf(y) \in Nat
    BY MaxIs
  <2> QED BY <2>1, <2>2, <2>3, <2>4
<1>2. \A o \in Outcomes : MaxOf(y) - y[o] = MaxOf(x) - x[o]
  <2> TAKE o \in Outcomes
  <2>1. x[o] \in Nat /\ y[o] = x[o] + d /\ MaxOf(x) \in Nat
    BY MaxIs DEF Naturals3
  <2> QED BY <1>1, <2>1
<1>3. shifted_exps(y, bb) = shifted_exps(x, bb)
  BY <1>2 DEF shifted_exps
<1>4. shifted_exp_sum(y, bb) = shifted_exp_sum(x, bb)
  BY <1>3 DEF shifted_exp_sum
<1>5. prices_bps(y, bb) = prices_bps(x, bb)
  BY <1>3, <1>4 DEF prices_bps
<1>6. PICK l \in Nat : l = bb * ln_q64(shifted_exp_sum(x, bb))
  BY SumBounds, LnNat, MulNat
<1>7. PICK m \in Nat, one \in Nat : m = MaxOf(x) /\ one = ONE_Q64
  BY MaxIs, OneFacts
<1>8. (m + d) * one = m * one + d * one /\ m * one \in Nat /\ d * one \in Nat
  BY MulNat, MulAdd
<1>9. cost_q64(x, bb) = m * one + l /\ cost_q64(y, bb) = (m + d) * one + l
  BY <1>1, <1>4, <1>6, <1>7 DEF cost_q64
<1> QED BY <1>5, <1>7, <1>8, <1>9

-----------------------------------------------------------------------------
(* The sweep: the tables of a liquidity and the walk over the vectors. *)

USE DEF Outcomes

TablesOf(bb) ==
  \A x \in Vectors : /\ CostTable[bb][x] = cost_q64(x, bb)
                     /\ PriceTable[bb][x] = prices_bps(x, bb)

LEMMA Tables ==
  ASSUME NEW bb \in Liquidities
  PROVE  TablesOf(bb) /\ bb \in Nat \ {0} /\ Vectors \subseteq Naturals3
<1>1. TablesOf(bb)
  BY DEF TablesOf, CostTable, PriceTable
<1>2. bb \in Nat \ {0}
  BY SweepConstants
<1>3. Vectors \subseteq Naturals3
  BY SweepConstants DEF Vectors, Naturals3
<1> QED BY <1>1, <1>2, <1>3

\* What Lmsr.tla assumes of a cost function and of prices, but for their
\* monotonicity: the kernel's have it, for every liquidity (lmsr.rs:24-31, 67-74).
THEOREM KernelMeetsCurve ==
  \A bb \in Liquidities :
    /\ CostTable[bb] \in [Vectors -> Nat]
    /\ PriceTable[bb] \in [Vectors -> [Outcomes -> 0..BPS_DENOM]]
    /\ \A x \in Vectors, o \in Outcomes : CostTable[bb][x] >= x[o] * ONE_Q64
    /\ \A x \in Vectors, y \in Vectors, d \in 0..Q_MAX :
         (\A o \in Outcomes : y[o] = x[o] + d) =>
           /\ CostTable[bb][y] = CostTable[bb][x] + d * ONE_Q64
           /\ PriceTable[bb][y] = PriceTable[bb][x]
<1> SUFFICES ASSUME NEW bb \in Liquidities
             PROVE  /\ CostTable[bb] \in [Vectors -> Nat]
                    /\ PriceTable[bb] \in [Vectors -> [Outcomes -> 0..BPS_DENOM]]
                    /\ \A x \in Vectors, o \in Outcomes : CostTable[bb][x] >= x[o] * ONE_Q64
                    /\ \A x \in Vectors, y \in Vectors, d \in 0..Q_MAX :
                         (\A o \in Outcomes : y[o] = x[o] + d) =>
                           /\ CostTable[bb][y] = CostTable[bb][x] + d * ONE_Q64
                           /\ PriceTable[bb][y] = PriceTable[bb][x]
  OBVIOUS
<1>1. CostTable[bb] = [x \in Vectors |-> cost_q64(x, bb)]
  BY DEF CostTable
<1>2. PriceTable[bb] = [x \in Vectors |-> prices_bps(x, bb)]
  BY DEF PriceTable
<1>3. \A x \in Vectors : x \in Naturals3 /\ cost_q64(x, bb) \in Nat
                       /\ prices_bps(x, bb) \in [Outcomes -> 0..BPS_DENOM]
  BY Tables, CostFacts, PriceFacts
<1>4. \A x \in Vectors, o \in Outcomes : CostTable[bb][x] >= x[o] * ONE_Q64
  BY <1>1, <1>3, Tables, CostFacts
<1>5. ASSUME NEW x \in Vectors, NEW y \in Vectors, NEW d \in 0..Q_MAX,
             \A o \in Outcomes : y[o] = x[o] + d
      PROVE  /\ CostTable[bb][y] = CostTable[bb][x] + d * ONE_Q64
             /\ PriceTable[bb][y] = PriceTable[bb][x]
  <2>1. d \in Nat /\ bb \in Nat \ {0} /\ x \in Naturals3 /\ y \in Naturals3
    BY <1>3, Tables, SweepConstants
  <2>2. cost_q64(y, bb) = cost_q64(x, bb) + d * ONE_Q64 /\ prices_bps(y, bb) = prices_bps(x, bb)
    BY <1>5, <2>1, ShiftFacts
  <2> QED BY <1>1, <1>2, <2>2
<1>6. CostTable[bb] \in [Vectors -> Nat] /\ PriceTable[bb] \in [Vectors -> [Outcomes -> 0..BPS_DENOM]]
  BY <1>1, <1>2, <1>3
<1> QED BY <1>4, <1>5, <1>6

\* The walk stays on the supported vectors, and the liquidity is the market's.
OnCurve == q \in Vectors /\ b \in Liquidities

LEMMA StaysOnCurve == Spec => []OnCurve
<1>1. Init => OnCurve
  BY SweepConstants DEF Init, OnCurve, Vectors
<1>2. OnCurve /\ [Next]_vars => OnCurve'
  <2> SUFFICES ASSUME OnCurve, [Next]_vars PROVE OnCurve'
    OBVIOUS
  <2>1. CASE OneSet
    BY <2>1, SweepConstants DEF OneSet, OnCurve, Vectors
  <2>2. ASSUME NEW o \in Outcomes, OneToken(o)
        PROVE  OnCurve'
    BY <2>2, SweepConstants DEF OneToken, OnCurve, Vectors
  <2>3. CASE UNCHANGED vars
    BY <2>3 DEF OnCurve, vars
  <2> QED BY <2>1, <2>2, <2>3 DEF Next
<1> QED BY <1>1, <1>2, PTL DEF Spec

\* A complete set always costs exactly its face value and moves no price, at
\* any liquidity and however coarse the fixed point is (lmsr.rs:24-31).
THEOREM SetsCostTheirFaceValue == Spec => SetsAtFaceValue
<1>1. OnCurve /\ [Next]_vars => (OneSet => C(q') = C(q) + ONE_Q64 /\ Price(q') = Price(q))
  <2> SUFFICES ASSUME OnCurve, OneSet
               PROVE  C(q') = C(q) + ONE_Q64 /\ Price(q') = Price(q)
    OBVIOUS
  <2>1. q \in Vectors /\ q' \in Vectors /\ \A o \in Outcomes : q'[o] = q[o] + 1
    BY SweepConstants DEF OneSet, OnCurve, Vectors
  <2>2. 1 \in 0..Q_MAX /\ b \in Liquidities
    BY SweepConstants DEF OnCurve
  <2>3. /\ CostTable[b][q'] = CostTable[b][q] + 1 * ONE_Q64
        /\ PriceTable[b][q'] = PriceTable[b][q]
    BY <2>1, <2>2, KernelMeetsCurve
  <2> QED BY <2>3, OneFacts DEF C, Price
<1> QED BY <1>1, StaysOnCurve, PTL DEF Spec, SetsAtFaceValue

-----------------------------------------------------------------------------
(* Trades, in units: what the roundings of a difference do. *)

BuyUnits(n) == IF Curve!CeilUnits(n) = 0 THEN 1 ELSE Curve!CeilUnits(n)

LEMMA CeilFacts ==
  ASSUME NEW n \in Nat
  PROVE  /\ Curve!CeilUnits(n) \in Nat
         /\ n <= Curve!CeilUnits(n) * ONE_Q64
         /\ Curve!CeilUnits(n) * ONE_Q64 < n + ONE_Q64
<1>1. PICK d \in Nat \ {0} : d = ONE_Q64
  BY OneFacts
<1>2. PICK a \in Nat : a = n + d - 1
  OBVIOUS
<1>3. PICK c \in Nat, e \in Nat : c = a \div d /\ e = c * d /\ e <= a /\ a < e + d
  BY DivBounds, MulNat
<1>4. Curve!CeilUnits(n) = c
  BY <1>1, <1>2, <1>3 DEF Curve!CeilUnits
<1> QED BY <1>1, <1>2, <1>3, <1>4

LEMMA FloorFacts ==
  ASSUME NEW n \in Nat
  PROVE  /\ Curve!FloorUnits(n) \in Nat
         /\ Curve!FloorUnits(n) * ONE_Q64 <= n
         /\ n < Curve!FloorUnits(n) * ONE_Q64 + ONE_Q64
  BY DivBounds, OneFacts DEF Curve!FloorUnits

\* A buy covers the difference, is never free, and grows with the difference.
LEMMA BuyFacts ==
  ASSUME NEW n \in Nat
  PROVE  /\ BuyUnits(n) \in Nat \ {0}
         /\ n <= BuyUnits(n) * ONE_Q64
         /\ \A m \in Nat : m <= n => BuyUnits(m) <= BuyUnits(n)
         /\ \A k \in Nat \ {0} : n <= k * ONE_Q64 => BuyUnits(n) <= k
<1>1. PICK d \in Nat \ {0} : d = ONE_Q64
  BY OneFacts
<1>2. \A k \in Nat \ {0}, m \in Nat : m <= k * d => BuyUnits(m) <= k
  <2> SUFFICES ASSUME NEW k \in Nat \ {0}, NEW m \in Nat, m <= k * d
               PROVE  BuyUnits(m) <= k
    OBVIOUS
  <2>1. PICK c \in Nat, e \in Nat, kd \in Nat :
           /\ c = Curve!CeilUnits(m) /\ e = c * d /\ e < m + d /\ kd = k * d
    BY <1>1, CeilFacts, MulNat
  <2>2. c <= k
    <3> SUFFICES ASSUME c >= k + 1 PROVE FALSE
      BY <2>1
    <3>1. (k + 1) * d <= c * d
      BY MulMono
    <3>2. (k + 1) * d = kd + d
      BY <2>1
    <3> QED BY <2>1, <3>1, <3>2
  <2> QED BY <2>1, <2>2 DEF BuyUnits
<1>3. \A m \in Nat : BuyUnits(m) \in Nat \ {0} /\ m <= BuyUnits(m) * d
  <2> TAKE m \in Nat
  <2>1. PICK c \in Nat : c = Curve!CeilUnits(m) /\ m <= c * d
    BY <1>1, CeilFacts
  <2>2. CASE c = 0
    <3>1. m = 0
      BY <2>1, <2>2
    <3> QED BY <2>1, <2>2, <3>1 DEF BuyUnits
  <2>3. CASE c # 0
    BY <2>1, <2>3 DEF BuyUnits
  <2> QED BY <2>2, <2>3
<1>4. \A m \in Nat : m <= n => BuyUnits(m) <= BuyUnits(n)
  <2> SUFFICES ASSUME NEW m \in Nat, m <= n PROVE BuyUnits(m) <= BuyUnits(n)
    OBVIOUS
  <2>1. PICK k \in Nat \ {0} : k = BuyUnits(n) /\ n <= k * d
    BY <1>3
  <2>2. k * d \in Nat
    BY MulNat
  <2>3. m <= k * d
    BY <2>1, <2>2
  <2> QED BY <1>2, <2>1, <2>3
<1> QED BY <1>1, <1>2, <1>3, <1>4

\* Two buys cost at least as much as one of the whole.
LEMMA BuySplits ==
  ASSUME NEW m \in Nat, NEW n \in Nat
  PROVE  BuyUnits(m + n) <= BuyUnits(m) + BuyUnits(n)
<1>1. PICK k \in Nat \ {0} : k = BuyUnits(m) /\ m <= k * ONE_Q64
  BY BuyFacts
<1>2. PICK l \in Nat \ {0} : l = BuyUnits(n) /\ n <= l * ONE_Q64
  BY BuyFacts
<1>3. PICK kd \in Nat, ld \in Nat : kd = k * ONE_Q64 /\ ld = l * ONE_Q64
  BY OneFacts, MulNat
<1>4. (k + l) * ONE_Q64 = kd + ld
  BY <1>3, OneFacts, MulAdd
<1>5. m + n <= (k + l) * ONE_Q64 /\ k + l \in Nat \ {0} /\ m + n \in Nat
  BY <1>1, <1>2, <1>3, <1>4
<1> QED BY <1>1, <1>2, <1>5, BuyFacts

\* A refund is covered by what the same difference costs, and two refunds
\* return no more than one of the whole.
LEMMA RefundFacts ==
  ASSUME NEW m \in Nat, NEW n \in Nat
  PROVE  /\ Curve!FloorUnits(n) <= BuyUnits(n)
         /\ Curve!FloorUnits(m) + Curve!FloorUnits(n) <= Curve!FloorUnits(m + n)
<1>1. PICK d \in Nat \ {0} : d = ONE_Q64
  BY OneFacts
<1>2. PICK k \in Nat, kd \in Nat : k = Curve!FloorUnits(m) /\ kd = k * d /\ kd <= m
  BY <1>1, FloorFacts, MulNat
<1>3. PICK l \in Nat, ld \in Nat : l = Curve!FloorUnits(n) /\ ld = l * d /\ ld <= n
  BY <1>1, FloorFacts, MulNat
<1>4. k + l <= (m + n) \div d
  <2>1. (k + l) * d = kd + ld
    BY <1>2, <1>3, MulAdd
  <2>2. (k + l) * d <= m + n
    BY <1>2, <1>3, <2>1
  <2> QED BY <2>2, DivLargest
<1>5. l <= BuyUnits(n)
  <2>1. PICK u \in Nat \ {0} : u = BuyUnits(n) /\ n <= u * d
    BY <1>1, BuyFacts
  <2>2. PICK ud \in Nat : ud = u * d
    BY MulNat
  <2>3. l * d <= u * d
    BY <1>3, <2>1, <2>2
  <2> QED BY <2>1, <2>3, MulCancel
<1> QED BY <1>1, <1>2, <1>3, <1>4, <1>5 DEF Curve!FloorUnits

-----------------------------------------------------------------------------
(* Trades along the curve. *)

\* One more token of an outcome never lowers the cost.  No series of truncated
\* terms promises this for every number of fractional bits: TLC checks it, on
\* every step of the sweep, as TokenStepsAreMonotone.
MonotoneCurves ==
  \A bb \in Liquidities, x \in Vectors, o \in Outcomes :
    x[o] < Q_MAX => CostTable[bb][x] <= CostTable[bb][[x EXCEPT ![o] = @ + 1]]

Rise(x, y) == Curve!SatSub(C(y), C(x))

\* The vector a trade leads to, and what the trade costs and its return pays.
LEMMA TradeFacts ==
  ASSUME b \in Liquidities, NEW x \in Vectors, NEW o \in Outcomes, NEW d \in Nat,
         x[o] + d <= Q_MAX,
         NEW y, y = Curve!Plus(x, o, d)
  PROVE  /\ y \in Vectors /\ y[o] = x[o] + d
         /\ \A p \in Outcomes : p # o => y[p] = x[p]
         /\ Curve!Minus(y, o, d) = x
         /\ C(x) \in Nat /\ C(y) \in Nat /\ Rise(x, y) \in Nat
         /\ Curve!buy_cost(x, o, d) = BuyUnits(Rise(x, y))
         /\ Curve!sell_refund(y, o, d) = Curve!FloorUnits(Rise(x, y))
<1>1. /\ y \in Vectors /\ y[o] = x[o] + d
      /\ \A p \in Outcomes : p # o => y[p] = x[p]
  BY SweepConstants DEF Vectors, Curve!Plus
<1>2. Curve!Minus(y, o, d) = x
  <2>1. \A p \in Outcomes : Curve!Minus(y, o, d)[p] = x[p]
    BY <1>1, SweepConstants DEF Vectors, Curve!Minus
  <2>2. DOMAIN Curve!Minus(y, o, d) = Outcomes /\ DOMAIN x = Outcomes
    BY <1>1 DEF Vectors, Curve!Minus
  <2>3. Curve!Minus(y, o, d) = [p \in Outcomes |-> Curve!Minus(y, o, d)[p]]
    BY <2>2 DEF Curve!Minus
  <2>4. x = [p \in Outcomes |-> x[p]]
    BY <2>2 DEF Vectors
  <2> HIDE DEF Curve!Minus
  <2> QED BY <2>1, <2>3, <2>4
<1>3. C(x) \in Nat /\ C(y) \in Nat
  <2>1. CostTable[b] \in [Vectors -> Nat]
    BY KernelMeetsCurve
  <2> QED BY <1>1, <2>1 DEF C
<1>4. Rise(x, y) \in Nat
  BY <1>3 DEF Rise, Curve!SatSub
<1>5. Curve!buy_cost(x, o, d) = BuyUnits(Rise(x, y))
  BY DEF Curve!buy_cost, BuyUnits, Rise, C
<1>6. Curve!sell_refund(y, o, d) = Curve!FloorUnits(Rise(x, y))
  BY <1>2 DEF Curve!sell_refund, Rise, C
<1> QED BY <1>1, <1>2, <1>3, <1>4, <1>5, <1>6

\* On a monotone curve the cost rises over any number of tokens.
LEMMA CostRises ==
  ASSUME MonotoneCurves, b \in Liquidities, NEW x \in Vectors, NEW o \in Outcomes
  PROVE  \A d \in Nat : x[o] + d <= Q_MAX => C(x) <= C(Curve!Plus(x, o, d))
<1> DEFINE Risen == {d \in Nat : x[o] + d <= Q_MAX => C(x) <= C(Curve!Plus(x, o, d))}
<1>1. x[o] \in Nat /\ x[o] <= Q_MAX
  BY SweepConstants DEF Vectors
<1>2. 0 \in Risen
  <2>1. Curve!Plus(x, o, 0) = x
    BY DEF Curve!Plus, Vectors
  <2>2. C(x) \in Nat
    BY <1>1, TradeFacts
  <2> QED BY <2>1, <2>2
<1>3. ASSUME NEW d \in Nat, d \in Risen
      PROVE  d + 1 \in Risen
  <2> SUFFICES ASSUME x[o] + (d + 1) <= Q_MAX
               PROVE  C(x) <= C(Curve!Plus(x, o, d + 1))
    OBVIOUS
  <2>1. PICK y : y = Curve!Plus(x, o, d)
    OBVIOUS
  <2>2. x[o] + d < Q_MAX
    BY <1>1, SweepConstants
  <2>3. y \in Vectors /\ y[o] = x[o] + d /\ C(x) \in Nat /\ C(y) \in Nat
    BY <2>1, <2>2, <1>1, TradeFacts, SweepConstants
  <2>4. [y EXCEPT ![o] = @ + 1] = Curve!Plus(x, o, d + 1)
    BY <1>1, <2>1 DEF Curve!Plus, Vectors
  <2>5. C(y) <= C(Curve!Plus(x, o, d + 1))
    <3>1. y[o] < Q_MAX => CostTable[b][y] <= CostTable[b][[y EXCEPT ![o] = @ + 1]]
      BY <2>3, Zenon DEF MonotoneCurves
    <3>2. CostTable[b][y] <= CostTable[b][Curve!Plus(x, o, d + 1)]
      BY <2>2, <2>3, <2>4, <3>1
    <3> QED BY <3>2 DEF C
  <2>6. C(x) <= C(y)
    <3>1. x[o] + d <= Q_MAX
      BY <1>1, <2>2, SweepConstants
    <3> QED BY <1>3, <2>1, <3>1
  <2>7. C(Curve!Plus(x, o, d + 1)) \in Nat
    BY TradeFacts
  <2> QED BY <2>3, <2>5, <2>6, <2>7
<1> HIDE DEF Risen
<1>4. \A d \in Nat : d \in Risen
  BY <1>2, <1>3, NatClosed
<1> QED BY <1>4 DEF Risen

\* Two trades in a row make one of the whole.
LEMMA TradesAdd ==
  ASSUME MonotoneCurves, b \in Liquidities, NEW x \in Vectors, NEW o \in Outcomes,
         NEW d \in Nat, NEW e \in Nat, x[o] + d + e <= Q_MAX,
         NEW y, y = Curve!Plus(x, o, d)
  PROVE  /\ Curve!Plus(y, o, e) = Curve!Plus(x, o, d + e)
         /\ Rise(x, Curve!Plus(x, o, d + e)) = Rise(x, y) + Rise(y, Curve!Plus(x, o, d + e))
         /\ Rise(x, y) \in Nat /\ Rise(y, Curve!Plus(x, o, d + e)) \in Nat
<1>1. x[o] \in Nat /\ x[o] + d <= Q_MAX
  BY SweepConstants DEF Vectors
<1>2. PICK z : z = Curve!Plus(x, o, d + e)
  OBVIOUS
<1>3. z = Curve!Plus(y, o, e)
  <2>1. y[o] = x[o] + d /\ \A p \in Outcomes : p # o => y[p] = x[p]
    BY <1>1, TradeFacts
  <2>2. DOMAIN x = Outcomes /\ DOMAIN y = Outcomes
    BY DEF Vectors, Curve!Plus
  <2>3. (x[o] + d) + e = x[o] + (d + e)
    BY <1>1
  <2>4. \A p \in Outcomes : z[p] = Curve!Plus(y, o, e)[p]
    BY <1>2, <2>1, <2>2, <2>3 DEF Curve!Plus
  <2>5. z = [p \in Outcomes |-> z[p]] /\ Curve!Plus(y, o, e) = [p \in Outcomes |-> Curve!Plus(y, o, e)[p]]
    BY <1>2, <2>2 DEF Curve!Plus
  <2> QED BY <2>4, <2>5
<1>4. y \in Vectors /\ y[o] = x[o] + d /\ C(x) \in Nat /\ C(y) \in Nat /\ C(x) <= C(y)
  BY <1>1, TradeFacts, CostRises
<1>5. C(z) \in Nat /\ C(y) <= C(z)
  BY <1>1, <1>3, <1>4, TradeFacts, CostRises
<1>6. Rise(x, z) = Rise(x, y) + Rise(y, z) /\ Rise(x, y) \in Nat /\ Rise(y, z) \in Nat
  BY <1>4, <1>5 DEF Rise, Curve!SatSub
<1> QED BY <1>2, <1>3, <1>6

\* No way of slicing a trade beats the curve: buy_cost rounds up and sell_refund
\* down, so on a monotone curve a round trip never profits, two buys cost at
\* least as much as one, and two sells return at most as much as one.
THEOREM NoSliceProfits ==
  ASSUME MonotoneCurves
  PROVE  Spec => []SlicingNeverProfits
<1>1. OnCurve => SlicingNeverProfits
  <2> SUFFICES ASSUME OnCurve, NEW o \in Outcomes, NEW d \in Room(q, o) \ {0},
                      NEW y, y = Curve!Plus(q, o, d)
               PROVE  /\ Curve!sell_refund(y, o, d) <= Curve!buy_cost(q, o, d)
                      /\ \A e \in 1..(d - 1) :
                           Curve!sell_refund(y, o, e) + Curve!sell_refund(Curve!Minus(y, o, e), o, d - e)
                             <= Curve!sell_refund(y, o, d)
                      /\ \A e \in Room(y, o) \ {0} :
                           Curve!buy_cost(q, o, d + e)
                             <= Curve!buy_cost(q, o, d) + Curve!buy_cost(y, o, e)
    BY DEF SlicingNeverProfits
  <2>1. /\ b \in Liquidities /\ q \in Vectors /\ q[o] \in Nat
        /\ d \in Nat \ {0} /\ q[o] + d <= Q_MAX
    BY SweepConstants DEF OnCurve, Room, Vectors
  <2>2. /\ y \in Vectors /\ y[o] = q[o] + d /\ Rise(q, y) \in Nat
        /\ Curve!buy_cost(q, o, d) = BuyUnits(Rise(q, y))
        /\ Curve!sell_refund(y, o, d) = Curve!FloorUnits(Rise(q, y))
    BY <2>1, TradeFacts
  <2>3. Curve!sell_refund(y, o, d) <= Curve!buy_cost(q, o, d)
    BY <2>2, RefundFacts
  <2>4. ASSUME NEW e \in 1..(d - 1)
        PROVE  Curve!sell_refund(y, o, e) + Curve!sell_refund(Curve!Minus(y, o, e), o, d - e)
                 <= Curve!sell_refund(y, o, d)
    <3>1. PICK f \in Nat : f = d - e
      BY <2>1
    <3>2. PICK m : m = Curve!Plus(q, o, f)
      OBVIOUS
    <3>3. e \in Nat /\ f + e = d /\ q[o] + f <= Q_MAX /\ q[o] + f + e <= Q_MAX
      BY <2>1, <2>4, <3>1, SweepConstants
    <3>3a. y = Curve!Plus(q, o, f + e)
      BY <3>3
    <3>4. /\ Curve!Plus(m, o, e) = y /\ Rise(q, y) = Rise(q, m) + Rise(m, y)
          /\ Rise(q, m) \in Nat /\ Rise(m, y) \in Nat
      BY <2>1, <3>2, <3>3, <3>3a, TradesAdd
    <3>5. m \in Vectors /\ m[o] = q[o] + f /\ Curve!sell_refund(m, o, f) = Curve!FloorUnits(Rise(q, m))
      BY <2>1, <3>2, <3>3, TradeFacts
    <3>6. Curve!Minus(y, o, e) = m /\ Curve!sell_refund(y, o, e) = Curve!FloorUnits(Rise(m, y))
      BY <2>1, <3>3, <3>4, <3>5, TradeFacts
    <3>7. Curve!FloorUnits(Rise(m, y)) + Curve!FloorUnits(Rise(q, m))
            <= Curve!FloorUnits(Rise(m, y) + Rise(q, m))
      BY <3>4, RefundFacts
    <3>8. Rise(m, y) + Rise(q, m) = Rise(q, y)
      BY <3>4
    <3> QED BY <2>2, <3>1, <3>5, <3>6, <3>7, <3>8
  <2>5. ASSUME NEW e \in Room(y, o) \ {0}
        PROVE  Curve!buy_cost(q, o, d + e) <= Curve!buy_cost(q, o, d) + Curve!buy_cost(y, o, e)
    <3>1. e \in Nat /\ q[o] + d + e <= Q_MAX /\ q[o] + (d + e) <= Q_MAX /\ d + e \in Nat /\ y[o] + e <= Q_MAX
      BY <2>1, <2>2, SweepConstants DEF Room
    <3>2. PICK z : z = Curve!Plus(q, o, d + e)
      OBVIOUS
    <3>3. /\ Curve!Plus(y, o, e) = z /\ Rise(q, z) = Rise(q, y) + Rise(y, z)
          /\ Rise(y, z) \in Nat
      BY <2>1, <3>1, <3>2, TradesAdd
    <3>4. Curve!buy_cost(q, o, d + e) = BuyUnits(Rise(q, z))
      BY <2>1, <3>1, <3>2, TradeFacts
    <3>5. Curve!buy_cost(y, o, e) = BuyUnits(Rise(y, z))
      BY <2>1, <2>2, <3>1, <3>3, TradeFacts
    <3> QED BY <2>2, <3>3, <3>4, <3>5, BuySplits
  <2> QED BY <2>3, <2>4, <2>5
<1> QED BY <1>1, StaysOnCurve, PTL

\* Complete sets at face value open no arbitrage: the three differences of buying
\* d of each outcome add up to exactly d units, whatever the order.
THEOREM NoArbitrageWithSets ==
  ASSUME MonotoneCurves
  PROVE  Spec => []NoSetArbitrage
<1>1. OnCurve => NoSetArbitrage
  <2> SUFFICES ASSUME OnCurve, NEW d \in 1..Q_MAX, \A o \in Outcomes : q[o] + d <= Q_MAX,
                      NEW q1, q1 = Curve!Plus(q, 0, d),
                      NEW q2, q2 = Curve!Plus(q1, 1, d),
                      NEW q3, q3 = Curve!Plus(q2, 2, d)
               PROVE  /\ Curve!buy_cost(q, 0, d) + Curve!buy_cost(q1, 1, d) + Curve!buy_cost(q2, 2, d) >= d
                      /\ Curve!sell_refund(q3, 2, d) + Curve!sell_refund(q2, 1, d)
                           + Curve!sell_refund(q1, 0, d) <= d
    BY DEF NoSetArbitrage
  <2>1. /\ b \in Liquidities /\ q \in Vectors /\ d \in Nat /\ d \in 0..Q_MAX
        /\ 0 \in Outcomes /\ 1 \in Outcomes /\ 2 \in Outcomes
        /\ q[0] + d <= Q_MAX /\ q[1] + d <= Q_MAX /\ q[2] + d <= Q_MAX
    BY SweepConstants DEF OnCurve
  <2>2. /\ q1 \in Vectors /\ q1[0] = q[0] + d /\ q1[1] = q[1] /\ q1[2] = q[2]
        /\ C(q) \in Nat /\ C(q1) \in Nat /\ C(q) <= C(q1)
        /\ Curve!buy_cost(q, 0, d) = BuyUnits(Rise(q, q1))
        /\ Curve!sell_refund(q1, 0, d) = Curve!FloorUnits(Rise(q, q1))
    BY <2>1, TradeFacts, CostRises
  <2>3. /\ q2 \in Vectors /\ q2[0] = q[0] + d /\ q2[1] = q[1] + d /\ q2[2] = q[2]
        /\ C(q2) \in Nat /\ C(q1) <= C(q2)
        /\ Curve!buy_cost(q1, 1, d) = BuyUnits(Rise(q1, q2))
        /\ Curve!sell_refund(q2, 1, d) = Curve!FloorUnits(Rise(q1, q2))
    BY <2>1, <2>2, TradeFacts, CostRises
  <2>4. /\ q3 \in Vectors /\ q3[0] = q[0] + d /\ q3[1] = q[1] + d /\ q3[2] = q[2] + d
        /\ C(q3) \in Nat /\ C(q2) <= C(q3)
        /\ Curve!buy_cost(q2, 2, d) = BuyUnits(Rise(q2, q3))
        /\ Curve!sell_refund(q3, 2, d) = Curve!FloorUnits(Rise(q2, q3))
    BY <2>1, <2>3, TradeFacts, CostRises
  <2>5. C(q3) = C(q) + d * ONE_Q64
    <3>1. \A o \in Outcomes : q3[o] = q[o] + d
      BY <2>4
    <3> QED BY <2>1, <2>4, <3>1, KernelMeetsCurve DEF C
  <2>6. PICK one \in Nat \ {0}, total \in Nat : one = ONE_Q64 /\ total = d * one
    BY <2>1, OneFacts, MulNat
  <2>7. PICK i \in Nat, j \in Nat, k \in Nat :
           /\ i = Rise(q, q1) /\ j = Rise(q1, q2) /\ k = Rise(q2, q3)
           /\ i + j + k = total
    BY <2>2, <2>3, <2>4, <2>5, <2>6 DEF Rise, Curve!SatSub
  <2>8. BuyUnits(i) + BuyUnits(j) + BuyUnits(k) >= d
    <3>1. PICK bi \in Nat \ {0}, bj \in Nat \ {0}, bk \in Nat \ {0} :
             /\ bi = BuyUnits(i) /\ bj = BuyUnits(j) /\ bk = BuyUnits(k)
             /\ i <= bi * one /\ j <= bj * one /\ k <= bk * one
      BY <2>6, BuyFacts
    <3>2. /\ bi * one \in Nat /\ bj * one \in Nat /\ bk * one \in Nat
          /\ (bi + bj + bk) * one = bi * one + bj * one + bk * one
      BY MulNat, MulAdd
    <3>3. d * one <= (bi + bj + bk) * one
      BY <2>6, <2>7, <3>1, <3>2
    <3>4. d <= bi + bj + bk
      BY <2>1, <3>3, MulCancel
    <3> QED BY <3>1, <3>4
  <2>9. Curve!FloorUnits(k) + Curve!FloorUnits(j) + Curve!FloorUnits(i) <= d
    <3>1. PICK fi \in Nat, fj \in Nat, fk \in Nat :
             /\ fi = Curve!FloorUnits(i) /\ fj = Curve!FloorUnits(j) /\ fk = Curve!FloorUnits(k)
             /\ fi * one <= i /\ fj * one <= j /\ fk * one <= k
      BY <2>6, FloorFacts
    <3>2. /\ fi * one \in Nat /\ fj * one \in Nat /\ fk * one \in Nat
          /\ (fk + fj + fi) * one = fk * one + fj * one + fi * one
      BY MulNat, MulAdd
    <3>3. (fk + fj + fi) * one <= d * one
      BY <2>6, <2>7, <3>1, <3>2
    <3>4. fk + fj + fi <= d
      BY <2>1, <3>3, MulCancel
    <3> QED BY <3>1, <3>4
  <2> QED BY <2>2, <2>3, <2>4, <2>7, <2>8, <2>9
<1> QED BY <1>1, StaysOnCurve, PTL

-----------------------------------------------------------------------------
(* The binary search. *)

Box(n) == (0..n) \X (0..n)
Mid(p) == p[1] + (p[2] - p[1]) \div 2

\* f searches [p[1], p[2]) for the last member of ok.
Searches(f, n, ok) ==
  /\ \A p \in Box(n) : p[2] - p[1] <= 1 => f[p] = p[1]
  /\ \A p \in Box(n) : p[2] - p[1] > 1 /\ Mid(p) \in ok => f[p] = f[<<Mid(p), p[2]>>]
  /\ \A p \in Box(n) : p[2] - p[1] > 1 /\ Mid(p) \notin ok => f[p] = f[<<p[1], Mid(p)>>]

\* The ends of a bracket are naturals, and its middle lies strictly between them.
LEMMA Ends ==
  ASSUME NEW n \in Nat, NEW p \in Box(n)
  PROVE  p[1] \in Nat /\ p[2] \in Nat /\ p[1] <= n /\ p[2] <= n
BY DEF Box

LEMMA MidFacts ==
  ASSUME NEW n \in Nat, NEW p \in Box(n), p[2] - p[1] > 1
  PROVE  /\ Mid(p) \in Nat /\ p[1] < Mid(p) /\ Mid(p) < p[2]
         /\ <<Mid(p), p[2]>> \in Box(n) /\ <<p[1], Mid(p)>> \in Box(n)
<1>1. PICK i \in Nat, j \in Nat, k \in Nat : i = p[1] /\ j = p[2] /\ k = j - i /\ k > 1 /\ j <= n
  BY Ends
<1>2. k \div 2 >= 1 /\ k \div 2 < k
  BY <1>1
<1>3. Mid(p) = i + k \div 2
  BY <1>1 DEF Mid
<1>4. Mid(p) \in Nat /\ p[1] < Mid(p) /\ Mid(p) < p[2]
  BY <1>1, <1>2, <1>3
<1> QED BY <1>1, <1>4 DEF Box

\* The search is well defined.
LEMMA SearchExists ==
  ASSUME NEW n \in Nat, NEW ok
  PROVE  \E f \in [Box(n) -> 0..n] : Searches(f, n, ok)
<1> DEFINE body(f, p) == IF p[2] - p[1] <= 1 THEN p[1]
                         ELSE IF Mid(p) \in ok THEN f[<<Mid(p), p[2]>>] ELSE f[<<p[1], Mid(p)>>]
           Solved == {m \in Nat : \E f \in [Box(n) -> 0..n] :
                                    \A p \in Box(n) : p[2] - p[1] <= m => f[p] = body(f, p)}
<1>1. \A f \in [Box(n) -> 0..n] : \A p \in Box(n) : body(f, p) \in 0..n
  <2> SUFFICES ASSUME NEW f \in [Box(n) -> 0..n], NEW p \in Box(n) PROVE body(f, p) \in 0..n
    OBVIOUS
  <2>1. CASE p[2] - p[1] <= 1
    BY <2>1, Ends, MidFacts
  <2>2. CASE p[2] - p[1] > 1
    BY <2>2, Ends, MidFacts
  <2>3. p[2] - p[1] <= 1 \/ p[2] - p[1] > 1
    BY Ends
  <2> QED BY <2>1, <2>2, <2>3
<1>2. 0 \in Solved
  <2> DEFINE f == [p \in Box(n) |-> p[1]]
  <2>1. f \in [Box(n) -> 0..n]
    BY Ends
  <2>2. \A p \in Box(n) : p[2] - p[1] <= 0 => f[p] = body(f, p)
    <3> SUFFICES ASSUME NEW p \in Box(n), p[2] - p[1] <= 0 PROVE f[p] = body(f, p)
      OBVIOUS
    <3>1. p[2] - p[1] <= 1
      BY Ends
    <3> QED BY <3>1
  <2> HIDE DEF f, body
  <2> QED BY <2>1, <2>2
<1>3. ASSUME NEW m \in Nat, m \in Solved
      PROVE  m + 1 \in Solved
  <2>1. PICK f \in [Box(n) -> 0..n] : \A p \in Box(n) : p[2] - p[1] <= m => f[p] = body(f, p)
    BY <1>3
  <2> DEFINE g == [p \in Box(n) |-> IF p[2] - p[1] <= m THEN f[p] ELSE body(f, p)]
  <2>2. g \in [Box(n) -> 0..n]
    <3> HIDE DEF body
    <3> QED BY <1>1, <2>1
  <2>3. ASSUME NEW p \in Box(n), p[2] - p[1] <= m + 1
        PROVE  g[p] = body(g, p)
    <3>1. g[p] = body(f, p)
      BY <2>1
    <3>2. \A r \in Box(n) : r[2] - r[1] <= m => g[r] = f[r]
      OBVIOUS
    <3> HIDE DEF g
    <3>3. CASE p[2] - p[1] <= 1
      BY <3>1, <3>3
    <3>4. CASE p[2] - p[1] > 1
      <4>1. PICK l \in Box(n), r \in Box(n) : /\ l = <<p[1], Mid(p)>> /\ r = <<Mid(p), p[2]>>
                                            /\ l[2] - l[1] <= m /\ r[2] - r[1] <= m
        <5>1. PICK l \in Box(n), r \in Box(n) : l = <<p[1], Mid(p)>> /\ r = <<Mid(p), p[2]>>
          BY <3>4, MidFacts
        <5>2. /\ l[1] = p[1] /\ l[2] = Mid(p) /\ r[1] = Mid(p) /\ r[2] = p[2]
              /\ p[1] < Mid(p) /\ Mid(p) < p[2] /\ Mid(p) \in Nat
          BY <3>4, <5>1, MidFacts
        <5> QED BY <2>3, <3>4, <5>1, <5>2, Ends
      <4>2. g[l] = f[l] /\ g[r] = f[r]
        BY <3>2, <4>1
      <4> QED BY <3>1, <4>1, <4>2
    <3>5. p[2] - p[1] <= 1 \/ p[2] - p[1] > 1
      BY Ends
    <3> QED BY <3>3, <3>4, <3>5
  <2> HIDE DEF g, body
  <2> QED BY <2>2, <2>3
<1>4. n \in Solved
  <2> HIDE DEF Solved
  <2> QED BY <1>2, <1>3, NatClosed
<1>5. PICK f \in [Box(n) -> 0..n] : \A p \in Box(n) : p[2] - p[1] <= n => f[p] = body(f, p)
  BY <1>4
<1>6. \A p \in Box(n) : f[p] = body(f, p)
  <2> TAKE p \in Box(n)
  <2>1. p[2] - p[1] <= n
    BY Ends
  <2> QED BY <1>5, <2>1
<1>7. \A p \in Box(n) : ~(p[2] - p[1] <= 1 /\ p[2] - p[1] > 1)
  BY Ends
<1>8. Searches(f, n, ok)
  BY <1>6, <1>7 DEF Searches
<1> QED BY <1>8

\* From a bracket whose upper end is not ok it finds a last ok one, or the lower end.
LEMMA SearchFinds ==
  ASSUME NEW n \in Nat, NEW ok, NEW f, Searches(f, n, ok)
  PROVE  \A p \in Box(n) : p[1] < p[2] /\ p[2] \notin ok =>
           /\ f[p] \in Nat /\ p[1] <= f[p] /\ f[p] < p[2]
           /\ f[p] = p[1] \/ f[p] \in ok
           /\ f[p] + 1 \notin ok
<1> DEFINE Found(p) == /\ f[p] \in Nat /\ p[1] <= f[p] /\ f[p] < p[2]
                       /\ f[p] = p[1] \/ f[p] \in ok
                       /\ f[p] + 1 \notin ok
           Good == {m \in Nat : \A p \in Box(n) :
                                   p[1] < p[2] /\ p[2] \notin ok /\ p[2] - p[1] <= m => Found(p)}
<1>1. 0 \in Good
  <2>1. \A p \in Box(n) : ~(p[1] < p[2] /\ p[2] - p[1] <= 0)
    BY Ends
  <2> HIDE DEF Found
  <2> QED BY <2>1
<1>2. ASSUME NEW m \in Nat, m \in Good
      PROVE  m + 1 \in Good
  <2>1. ASSUME NEW p \in Box(n), p[1] < p[2], p[2] \notin ok, p[2] - p[1] <= m + 1
        PROVE  Found(p)
    <3>1. CASE p[2] - p[1] <= 1
      <4>1. p[2] = p[1] + 1 /\ p[1] \in Nat
        BY <2>1, <3>1, Ends, MidFacts
      <4>2. f[p] = p[1]
        BY <3>1 DEF Searches
      <4> QED BY <2>1, <4>1, <4>2
    <3>2. CASE p[2] - p[1] > 1 /\ Mid(p) \in ok
      <4>1. PICK r \in Box(n) : /\ r = <<Mid(p), p[2]>> /\ r[1] < r[2] /\ r[2] - r[1] <= m
                               /\ p[1] < r[1] /\ r[2] = p[2] /\ r[1] \in ok
        <5>1. PICK r \in Box(n) : r = <<Mid(p), p[2]>>
          BY <3>2, MidFacts
        <5>2. r[1] = Mid(p) /\ r[2] = p[2] /\ p[1] < Mid(p) /\ Mid(p) < p[2] /\ Mid(p) \in Nat
          BY <3>2, <5>1, MidFacts
        <5> QED BY <2>1, <3>2, <5>1, <5>2, Ends
      <4>2. Found(r)
        <5> HIDE DEF Found
        <5> QED BY <1>2, <2>1, <4>1
      <4>3. f[p] = f[r]
        BY <3>2, <4>1 DEF Searches
      <4>4. p[1] \in Nat /\ r[1] \in Nat
        BY Ends
      <4> QED BY <4>1, <4>2, <4>3, <4>4
    <3>3. CASE p[2] - p[1] > 1 /\ Mid(p) \notin ok
      <4>1. PICK l \in Box(n) : /\ l = <<p[1], Mid(p)>> /\ l[1] < l[2] /\ l[2] - l[1] <= m
                               /\ l[1] = p[1] /\ l[2] < p[2] /\ l[2] \notin ok
        <5>1. PICK l \in Box(n) : l = <<p[1], Mid(p)>>
          BY <3>3, MidFacts
        <5>2. l[1] = p[1] /\ l[2] = Mid(p) /\ p[1] < Mid(p) /\ Mid(p) < p[2] /\ Mid(p) \in Nat
          BY <3>3, <5>1, MidFacts
        <5> QED BY <2>1, <3>3, <5>1, <5>2, Ends
      <4>2. Found(l)
        <5> HIDE DEF Found
        <5> QED BY <1>2, <4>1
      <4>3. f[p] = f[l]
        BY <3>3, <4>1 DEF Searches
      <4>4. p[1] \in Nat /\ l[2] \in Nat /\ p[2] \in Nat
        BY Ends
      <4> QED BY <4>1, <4>2, <4>3, <4>4
    <3>4. p[2] - p[1] <= 1 \/ p[2] - p[1] > 1
      BY Ends
    <3> QED BY <3>1, <3>2, <3>3, <3>4
  <2> HIDE DEF Found
  <2> QED BY <2>1
<1>3. n \in Good
  <2> HIDE DEF Good
  <2> QED BY <1>1, <1>2, NatClosed
<1>4. \A p \in Box(n) : p[2] - p[1] <= n
  BY Ends
<1> QED BY <1>3, <1>4

SearchFrom(f, x, o, budget, p) ==
  LET lo == p[1]
      hi == p[2]
      mid == lo + (hi - lo) \div 2
  IN IF hi - lo <= 1 THEN lo
     ELSE IF Curve!buy_cost(x, o, mid) <= budget THEN f[<<mid, hi>>]
          ELSE f[<<lo, mid>>]

Affordable(x, o, budget, n) == {d \in 0..n : Curve!buy_cost(x, o, d) <= budget}

\* The program's search is one for the last affordable quantity.
LEMMA SearchSolves ==
  ASSUME NEW n \in Nat, NEW x, NEW o, NEW budget,
         NEW f, f = CHOOSE g : g = [p \in Box(n) |-> SearchFrom(g, x, o, budget, p)]
  PROVE  Searches(f, n, Affordable(x, o, budget, n))
<1>1. PICK ok : ok = Affordable(x, o, budget, n)
  OBVIOUS
<1>2. \A g : (\A p \in Box(n) : g[p] = SearchFrom(g, x, o, budget, p)) <=> Searches(g, n, ok)
  <2>1. ASSUME NEW g, NEW p \in Box(n)
        PROVE  /\ p[2] - p[1] <= 1 => SearchFrom(g, x, o, budget, p) = p[1]
               /\ p[2] - p[1] > 1 /\ Mid(p) \in ok
                    => SearchFrom(g, x, o, budget, p) = g[<<Mid(p), p[2]>>]
               /\ p[2] - p[1] > 1 /\ Mid(p) \notin ok
                    => SearchFrom(g, x, o, budget, p) = g[<<p[1], Mid(p)>>]
               /\ p[2] - p[1] <= 1 \/ (p[2] - p[1] > 1 /\ ~(p[2] - p[1] <= 1))
    <3>1. p[2] - p[1] <= 1 \/ (p[2] - p[1] > 1 /\ ~(p[2] - p[1] <= 1))
      BY Ends
    <3>2. ASSUME p[2] - p[1] > 1
          PROVE  Mid(p) \in ok <=> Curve!buy_cost(x, o, Mid(p)) <= budget
      <4>1. Mid(p) \in 0..n
        <5>1. Mid(p) \in Nat /\ Mid(p) < p[2]
          BY <3>2, MidFacts
        <5> QED BY <5>1, Ends
      <4> QED BY <1>1, <4>1 DEF Affordable
    <3>3. p[2] - p[1] <= 1 => SearchFrom(g, x, o, budget, p) = p[1]
      BY DEF SearchFrom
    <3>4. ASSUME p[2] - p[1] > 1
          PROVE  SearchFrom(g, x, o, budget, p)
                   = IF Curve!buy_cost(x, o, Mid(p)) <= budget THEN g[<<Mid(p), p[2]>>]
                     ELSE g[<<p[1], Mid(p)>>]
      <4>1. ~(p[2] - p[1] <= 1)
        BY <3>4, Ends
      <4> QED BY <4>1 DEF SearchFrom, Mid
    <3> QED BY <3>1, <3>2, <3>3, <3>4
  <2>2. ASSUME NEW g, NEW p \in Box(n)
        PROVE  g[p] = SearchFrom(g, x, o, budget, p) <=>
                 /\ p[2] - p[1] <= 1 => g[p] = p[1]
                 /\ p[2] - p[1] > 1 /\ Mid(p) \in ok => g[p] = g[<<Mid(p), p[2]>>]
                 /\ p[2] - p[1] > 1 /\ Mid(p) \notin ok => g[p] = g[<<p[1], Mid(p)>>]
    BY <2>1, Zenon
  <2> QED BY <2>2, Zenon DEF Searches
<1>3. PICK g \in [Box(n) -> 0..n] : Searches(g, n, ok)
  BY SearchExists
<1>4. \A p \in Box(n) : g[p] = SearchFrom(g, x, o, budget, p)
  BY <1>2, <1>3, Zenon
<1>5. g = [p \in Box(n) |-> SearchFrom(g, x, o, budget, p)]
  <2>1. g = [p \in Box(n) |-> g[p]]
    OBVIOUS
  <2>2. [p \in Box(n) |-> g[p]] = [p \in Box(n) |-> SearchFrom(g, x, o, budget, p)]
    BY <1>4
  <2> QED BY <2>1, <2>2
<1>6. f = [p \in Box(n) |-> SearchFrom(f, x, o, budget, p)]
  BY <1>5, Zenon
<1>7. \A p \in Box(n) : f[p] = SearchFrom(f, x, o, budget, p)
  BY <1>6
<1>8. Searches(f, n, ok)
  BY <1>2, <1>7, Zenon
<1> QED BY <1>1, <1>8

\* More tokens of an outcome never cost less, and the cost of d of them exceeds d
\* by no more than what the curve already holds above the outcome's quantity.
LEMMA BuyGrows ==
  ASSUME MonotoneCurves, b \in Liquidities, NEW x \in Vectors, NEW o \in Outcomes,
         NEW d \in Nat, x[o] + d <= Q_MAX
  PROVE  /\ Curve!buy_cost(x, o, d) \in Nat \ {0}
         /\ \A e \in 0..d : Curve!buy_cost(x, o, e) <= Curve!buy_cost(x, o, d)
         /\ Curve!FloorUnits(C(x)) - x[o] \in Nat
         /\ d < Curve!buy_cost(x, o, d) + Curve!FloorUnits(C(x)) - x[o] + 1
<1>1. x[o] \in Nat
  BY SweepConstants DEF Vectors
<1>2. PICK y : y = Curve!Plus(x, o, d)
  OBVIOUS
<1>3. /\ y \in Vectors /\ y[o] = x[o] + d /\ C(x) \in Nat /\ C(y) \in Nat /\ C(x) <= C(y)
      /\ Rise(x, y) \in Nat /\ Curve!buy_cost(x, o, d) = BuyUnits(Rise(x, y))
  BY <1>2, TradeFacts, CostRises
<1>4. PICK one \in Nat \ {0} : one = ONE_Q64
  BY OneFacts
<1>5. PICK u \in Nat \ {0}, uu \in Nat : u = BuyUnits(Rise(x, y)) /\ uu = u * one /\ Rise(x, y) <= uu
  BY <1>3, <1>4, BuyFacts, MulNat
<1>6. ASSUME NEW e \in 0..d
      PROVE  Curve!buy_cost(x, o, e) <= Curve!buy_cost(x, o, d)
  <2>1. PICK f \in Nat : f = d - e /\ e \in Nat /\ e + f = d /\ x[o] + e <= Q_MAX /\ x[o] + e + f <= Q_MAX
    BY <1>1, SweepConstants
  <2>2. PICK m : m = Curve!Plus(x, o, e)
    OBVIOUS
  <2>3. Rise(x, m) \in Nat /\ Curve!buy_cost(x, o, e) = BuyUnits(Rise(x, m))
    BY <2>1, <2>2, TradeFacts
  <2>4. y = Curve!Plus(x, o, e + f)
    BY <1>2, <2>1
  <2>5. Rise(x, y) = Rise(x, m) + Rise(m, y) /\ Rise(m, y) \in Nat
    BY <2>1, <2>2, <2>4, TradesAdd
  <2>6. Rise(x, m) <= Rise(x, y)
    BY <2>3, <2>5
  <2> QED BY <1>3, <2>3, <2>6, BuyFacts
<1>7. PICK fl \in Nat, ff \in Nat : /\ fl = Curve!FloorUnits(C(x)) /\ ff = fl * one
                                  /\ C(x) < ff + one
  BY <1>3, <1>4, FloorFacts, MulNat
<1>8. PICK xo \in Nat, xx \in Nat : xo = x[o] /\ xx = xo * one /\ C(x) >= xx
  <2>1. CostTable[b][x] >= x[o] * ONE_Q64
    BY KernelMeetsCurve
  <2> QED BY <1>1, <1>4, <2>1, MulNat DEF C
<1>9. fl >= xo
  <2>1. xo * one <= C(x)
    BY <1>8
  <2>2. xo <= C(x) \div one
    BY <1>3, <2>1, DivLargest
  <2> QED BY <1>4, <1>7, <2>2 DEF Curve!FloorUnits
<1>10. d < u + fl - xo + 1
  <2>1. PICK dd \in Nat : dd = d * one
    BY MulNat
  <2>2. C(y) >= (xo + d) * one
    <3>1. CostTable[b][y] >= y[o] * ONE_Q64
      BY <1>3, KernelMeetsCurve
    <3> QED BY <1>3, <1>4, <1>8, <3>1 DEF C
  <2>3. (xo + d) * one = xx + dd
    BY <1>8, <2>1, MulAdd
  <2>4. Rise(x, y) = C(y) - C(x)
    BY <1>3 DEF Rise, Curve!SatSub
  <2>5. xx + dd < uu + ff + one
    BY <1>3, <1>5, <1>7, <2>2, <2>3, <2>4
  <2>6. (u + fl + 1) * one = uu + ff + one
    BY <1>5, <1>7, MulAdd
  <2>7. xo + d < u + fl + 1
    <3> SUFFICES ASSUME u + fl + 1 <= xo + d PROVE FALSE
      OBVIOUS
    <3>1. (u + fl + 1) * one <= (xo + d) * one
      BY MulMono
    <3> QED BY <2>3, <2>5, <2>6, <3>1
  <2> QED BY <2>7
<1> QED BY <1>3, <1>5, <1>6, <1>7, <1>8, <1>9, <1>10

\* The search the program runs, with its bracket.
LEMMA SolverResult ==
  ASSUME MonotoneCurves, b \in Liquidities, NEW x \in Vectors, NEW o \in Outcomes,
         NEW budget \in Nat,
         NEW delta, delta = Curve!buy_delta_for_cost(x, o, budget)
  PROVE  /\ delta \in 0..(Q_MAX - x[o])
         /\ delta # 0 => Curve!buy_cost(x, o, delta) <= budget
         /\ \A more \in (delta + 1)..(Q_MAX - x[o]) : Curve!buy_cost(x, o, more) > budget
<1> DEFINE slack == Curve!FloorUnits(CostTable[b][x]) - x[o] + 1
           cap == Q_MAX - x[o]
           top == IF budget + slack <= cap THEN budget + slack ELSE cap
           Search == CHOOSE g : g = [p \in (0..cap) \X (0..cap) |->
                       LET lo == p[1]
                           hi == p[2]
                           mid == lo + (hi - lo) \div 2
                       IN IF hi - lo <= 1 THEN lo
                          ELSE IF Curve!buy_cost(x, o, mid) <= budget THEN g[<<mid, hi>>]
                               ELSE g[<<lo, mid>>]]
<1>1. delta = IF budget = 0 \/ top = 0 THEN 0
              ELSE IF Curve!buy_cost(x, o, top) <= budget THEN top ELSE Search[<<0, top>>]
  BY Zenon DEF Curve!buy_delta_for_cost
<1>2. Search = CHOOSE g : g = [p \in Box(cap) |-> SearchFrom(g, x, o, budget, p)]
  BY Zenon DEF Box, SearchFrom
<1> HIDE DEF Search
<1>3. cap \in Nat /\ x[o] \in Nat /\ x[o] + cap = Q_MAX
  BY SweepConstants DEF Vectors
<1>4. slack \in Nat \ {0}
  <2>1. Curve!FloorUnits(C(x)) - x[o] \in Nat
    BY <1>3, BuyGrows
  <2> QED BY <2>1 DEF C
<1>5. top \in 0..cap /\ (top = cap \/ top = budget + slack)
  BY <1>3, <1>4
\* The bracket: beyond it nothing is affordable.
<1>6. \A more \in (top + 1)..cap : Curve!buy_cost(x, o, more) > budget
  <2> SUFFICES ASSUME NEW more \in (top + 1)..cap
               PROVE  Curve!buy_cost(x, o, more) > budget
    OBVIOUS
  <2>1. more \in Nat /\ x[o] + more <= Q_MAX /\ more > budget + slack
    BY <1>3, <1>4, <1>5
  <2>2. PICK cost \in Nat : /\ cost = Curve!buy_cost(x, o, more)
                           /\ more < cost + Curve!FloorUnits(C(x)) - x[o] + 1
    BY <2>1, BuyGrows
  <2>3. PICK held \in Nat : held = Curve!FloorUnits(C(x)) - x[o] /\ slack = held + 1
    <3>1. Curve!FloorUnits(C(x)) - x[o] \in Nat
      BY <1>3, BuyGrows
    <3> QED BY <3>1 DEF C
  <2>4. Curve!FloorUnits(C(x)) \in Nat
    <3>1. C(x) \in Nat
      BY <1>3, TradeFacts
    <3> QED BY <3>1, FloorFacts
  <2>5. more < cost + held + 1
    BY <1>3, <2>1, <2>2, <2>3, <2>4
  <2> QED BY <2>1, <2>2, <2>3, <2>5
<1>7. CASE budget = 0
  <2>1. delta = 0
    BY <1>1, <1>7
  <2>2. \A more \in 1..cap : Curve!buy_cost(x, o, more) > 0
    BY <1>3, BuyGrows
  <2> QED BY <1>3, <1>7, <2>1, <2>2
<1>8. CASE top = 0
  <2>1. delta = 0
    BY <1>1, <1>8
  <2> QED BY <1>3, <1>6, <1>8, <2>1
<1>9. CASE budget # 0 /\ top # 0 /\ Curve!buy_cost(x, o, top) <= budget
  <2>1. delta = top
    BY <1>1, <1>9
  <2> QED BY <1>5, <1>6, <1>9, <2>1
<1>10. CASE budget # 0 /\ top # 0 /\ ~(Curve!buy_cost(x, o, top) <= budget)
  <2>1. delta = Search[<<0, top>>]
    BY <1>1, <1>10
  <2>2. PICK ok : ok = Affordable(x, o, budget, cap) /\ Searches(Search, cap, ok)
    <3>1. cap \in Nat
      BY <1>3
    <3> HIDE DEF cap
    <3>2. Searches(Search, cap, Affordable(x, o, budget, cap))
      BY <1>2, <3>1, SearchSolves, Zenon
    <3> QED BY <3>2
  <2>3. <<0, top>> \in Box(cap) /\ 0 < top /\ top \notin ok
    BY <1>3, <1>5, <1>10, <2>2 DEF Box, Affordable
  <2>4. /\ delta \in Nat /\ delta < top
        /\ delta = 0 \/ delta \in ok
        /\ delta + 1 \notin ok
    BY <1>3, <2>1, <2>2, <2>3, SearchFinds
  <2>5. delta \in 0..cap /\ delta + 1 \in 0..cap
    BY <1>3, <1>5, <2>4
  <2>6. delta # 0 => Curve!buy_cost(x, o, delta) <= budget
    BY <2>2, <2>4 DEF Affordable
  <2>7. ~(Curve!buy_cost(x, o, delta + 1) <= budget)
    BY <2>2, <2>4, <2>5 DEF Affordable
  <2>8. ASSUME NEW more \in (delta + 1)..cap
        PROVE  Curve!buy_cost(x, o, more) > budget
    <3>1. more \in Nat /\ x[o] + more <= Q_MAX /\ delta + 1 \in 0..more /\ x[o] + (delta + 1) <= Q_MAX
      BY <1>3, <2>4
    <3>2. PICK u \in Nat, v \in Nat : u = Curve!buy_cost(x, o, delta + 1) /\ v = Curve!buy_cost(x, o, more)
      BY <2>4, <3>1, BuyGrows
    <3>3. u <= v
      BY <3>1, <3>2, BuyGrows
    <3> QED BY <2>7, <3>2, <3>3
  <2> QED BY <2>5, <2>6, <2>8
<1> QED BY <1>7, <1>8, <1>9, <1>10

\* The binary search returns the largest affordable quantity, for every budget: it
\* never charges more than the budget and never stops short of it (lmsr.rs:350-376).
THEOREM SolverReturnsTheLargest ==
  ASSUME MonotoneCurves
  PROVE  Spec => []SolverIsMaximal
<1>1. OnCurve => SolverIsMaximal
  <2> SUFFICES ASSUME OnCurve, NEW o \in Outcomes, NEW budget \in 0..Q_MAX,
                      NEW delta, delta = Curve!buy_delta_for_cost(q, o, budget)
               PROVE  IF delta = 0
                      THEN \A d \in Room(q, o) \ {0} : Curve!buy_cost(q, o, d) > budget
                      ELSE Curve!IsBuyDelta(q, o, budget, delta)
    BY DEF SolverIsMaximal
  <2>1. b \in Liquidities /\ q \in Vectors /\ budget \in Nat /\ q[o] \in Nat /\ q[o] <= Q_MAX /\ Q_MAX \in Nat
    BY SweepConstants DEF OnCurve, Vectors
  <2>2. /\ delta \in 0..(Q_MAX - q[o])
        /\ delta # 0 => Curve!buy_cost(q, o, delta) <= budget
        /\ \A more \in (delta + 1)..(Q_MAX - q[o]) : Curve!buy_cost(q, o, more) > budget
    BY <2>1, SolverResult
  <2>3. CASE delta = 0
    BY <2>1, <2>2, <2>3 DEF Room
  <2>4. CASE delta # 0
    BY <2>1, <2>2, <2>4 DEF Curve!IsBuyDelta
  <2> QED BY <2>3, <2>4
<1> QED BY <1>1, StaysOnCurve, PTL
=============================================================================
