-------------------------------- MODULE Lmsr --------------------------------
(***************************************************************************)
(* The trading half of programs/amm/src/lmsr.rs: what a buy costs, what a  *)
(* sell returns, how many tokens a budget buys and when a vault is         *)
(* solvent, all over a cost function C(q) in fixed point.                  *)
(*                                                                         *)
(* The cost function itself is a parameter here (one table per liquidity   *)
(* b): LmsrKernel computes it the way the program does, and the            *)
(* assumptions below are the facts about it that the program's comments    *)
(* claim and that everything built on the curve rests on.                  *)
(*                                                                         *)
(* A definition under a "Broken:" comment is a bug the code does not have: *)
(* substituted for the definition after it, it shows that a property of    *)
(* the runs can fail (README.md, mutants).                                 *)
(***************************************************************************)
EXTENDS Integers

CONSTANTS
  ONE_Q64,    \* the fixed-point one (2^64 in the program, a small power here)
  Q_MAX,      \* largest supported net quantity of an outcome
  CostQ,      \* cost_q64 of every supported q, at the market's b
  PriceBps,   \* prices_bps of every supported q, at the market's b
  BPS_DENOM   \* one, in basis points

Outcomes == 0..2                       \* Team1, Draw, Team2
Quantities == [Outcomes -> 0..Q_MAX]

\* q with d more tokens of outcome o, and with d more of every outcome.
Plus(q, o, d) == [q EXCEPT ![o] = @ + d]
Minus(q, o, d) == [q EXCEPT ![o] = @ - d]
Shift(q, d) == [o \in Outcomes |-> q[o] + d]

ASSUME LmsrConstants ==
  /\ ONE_Q64 \in Nat \ {0}
  /\ Q_MAX \in Nat \ {0}
  /\ BPS_DENOM \in Nat \ {0}
  /\ CostQ \in [Quantities -> Nat]
  /\ PriceBps \in [Quantities -> [Outcomes -> 0..BPS_DENOM]]

\* The structural lemma of lmsr.rs: C(q) >= max(q), exactly.
ASSUME CostDominates ==
  \A q \in Quantities, o \in Outcomes : CostQ[q] >= q[o] * ONE_Q64

\* Max-subtraction: an equal shift of all three quantities moves the cost by
\* exactly that many units and leaves the prices alone.
ASSUME CostShifts ==
  \A q \in Quantities, d \in 0..Q_MAX :
    Shift(q, d) \in Quantities =>
      /\ CostQ[Shift(q, d)] = CostQ[q] + d * ONE_Q64
      /\ PriceBps[Shift(q, d)] = PriceBps[q]

\* One more token of any outcome never lowers the cost.
ASSUME CostMonotone ==
  \A q \in Quantities, o \in Outcomes, d \in 0..Q_MAX :
    q[o] + d <= Q_MAX => CostQ[q] <= CostQ[Plus(q, o, d)]

-----------------------------------------------------------------------------

SatSub(x, y) == IF x >= y THEN x - y ELSE 0
CeilUnits(x) == (x + ONE_Q64 - 1) \div ONE_Q64
FloorUnits(x) == x \div ONE_Q64

\* cost: the liability of q in whole units, rounded up.
cost(q) == CeilUnits(CostQ[q])

\* Broken: rounded in the trader's favour.
buy_cost_floored(q, o, delta) ==
  LET units == FloorUnits(SatSub(CostQ[Plus(q, o, delta)], CostQ[q]))
  IN IF units = 0 THEN 1 ELSE units

\* buy_cost: rounded up and never free.
buy_cost(q, o, delta) ==
  LET units == CeilUnits(SatSub(CostQ[Plus(q, o, delta)], CostQ[q]))
  IN IF units = 0 THEN 1 ELSE units

\* Broken: rounded in the trader's favour.
sell_refund_ceiled(q, o, delta) ==
  CeilUnits(SatSub(CostQ[q], CostQ[Minus(q, o, delta)]))

\* sell_refund: rounded down.
sell_refund(q, o, delta) ==
  FloorUnits(SatSub(CostQ[q], CostQ[Minus(q, o, delta)]))

\* Broken: the search stops one step early.
buy_delta_early(q, o, budget) ==
  LET cap == Q_MAX - q[o]
      Search[p \in (0..cap) \X (0..cap)] ==
        LET lo == p[1]
            hi == p[2]
            mid == lo + (hi - lo) \div 2
        IN IF hi - lo <= 2 THEN lo
           ELSE IF buy_cost(q, o, mid) <= budget THEN Search[<<mid, hi>>]
                ELSE Search[<<lo, mid>>]
  IN IF budget = 0 \/ cap = 0 THEN 0
     ELSE IF buy_cost(q, o, cap) <= budget THEN cap ELSE Search[<<0, cap>>]

\* buy_delta_for_cost as the program computes it: a bracketed binary search
\* whose lower end is only ever a quantity it checked to be affordable.
buy_delta_for_cost(q, o, budget) ==
  LET slack == FloorUnits(CostQ[q]) - q[o] + 1
      cap == Q_MAX - q[o]
      top == IF budget + slack <= cap THEN budget + slack ELSE cap
      Search[p \in (0..cap) \X (0..cap)] ==
        LET lo == p[1]
            hi == p[2]
            mid == lo + (hi - lo) \div 2
        IN IF hi - lo <= 1 THEN lo
           ELSE IF buy_cost(q, o, mid) <= budget THEN Search[<<mid, hi>>]
                ELSE Search[<<lo, mid>>]
  IN IF budget = 0 \/ top = 0 THEN 0
     ELSE IF buy_cost(q, o, top) <= budget THEN top
          ELSE Search[<<0, top>>]

\* What that search promises: the largest affordable quantity.  The market
\* modules use this contract; MCLmsr checks that the search meets it.
IsBuyDelta(q, o, budget, delta) ==
  /\ delta \in 1..(Q_MAX - q[o])
  /\ buy_cost(q, o, delta) <= budget
  /\ \A more \in (delta + 1)..(Q_MAX - q[o]) : buy_cost(q, o, more) > budget

\* assert_solvent_multi: the vault covers the largest outstanding supply.
assert_solvent_multi(vault_usdt, supplies) ==
  \A o \in Outcomes : vault_usdt >= supplies[o]
=============================================================================
