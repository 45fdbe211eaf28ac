-------------------------- MODULE SpotMarketProofs --------------------------
(***************************************************************************)
(* What holds of SpotMarket for any number of traders, amounts, seeds,     *)
(* schedules and incarnations, any cost function with the properties named *)
(* in Lmsr and any fee configuration: types, the ledgers, the bounded loss *)
(* of the market maker, and that the market implements MarketEscrow and    *)
(* MarketLifecycle.                                                        *)
(***************************************************************************)
EXTENDS SpotMarket, SumTheorems, TLAPS

-----------------------------------------------------------------------------
(* The rounding directions of lmsr.rs. *)

\* cost and buy_cost round up: whole units cover the fixed-point amount.
LEMMA CeilCovers ==
  ASSUME NEW x \in Nat
  PROVE  CeilUnits(x) \in Nat /\ x <= CeilUnits(x) * ONE_Q64
  <1> DEFINE y == x + ONE_Q64 - 1
  <1>1. y \in Nat /\ ONE_Q64 \in Nat \ {0}
    BY LmsrConstants
  <1>2. y \div ONE_Q64 \in Nat /\ y < (y \div ONE_Q64) * ONE_Q64 + ONE_Q64
    BY <1>1, DivBounds
  <1>3. (y \div ONE_Q64) * ONE_Q64 \in Nat
    BY <1>1, <1>2, MulMono
  <1> QED BY <1>1, <1>2, <1>3 DEF CeilUnits

\* sell_refund rounds down: the units paid are covered by the curve.
LEMMA FloorCovered ==
  ASSUME NEW x \in Nat
  PROVE  FloorUnits(x) \in Nat /\ FloorUnits(x) * ONE_Q64 <= x
  BY DivBounds, LmsrConstants DEF FloorUnits

\* The shapes of the quantity vectors the instructions build.
LEMMA VectorTypes ==
  ASSUME NEW x \in Quantities, NEW o \in Outcomes, NEW d \in Nat
  PROVE  /\ x[o] + d <= Q_MAX => Plus(x, o, d) \in Quantities
         /\ d <= x[o] => Minus(x, o, d) \in Quantities
         /\ d <= x[o] => Plus(Minus(x, o, d), o, d) = x
         /\ (\A p \in Outcomes : x[p] + d <= Q_MAX) => Shift(x, d) \in Quantities
         /\ (\A p \in Outcomes : d <= x[p]) => Shift(x, -d) \in Quantities
         /\ (\A p \in Outcomes : d <= x[p]) => Shift(Shift(x, -d), d) = x
  <1> USE LmsrConstants DEF Quantities, Plus, Minus, Shift
  <1>1. x[o] + d <= Q_MAX => Plus(x, o, d) \in Quantities OBVIOUS
  <1>2. d <= x[o] => Minus(x, o, d) \in Quantities OBVIOUS
  <1>3. ASSUME d <= x[o]
        PROVE  Plus(Minus(x, o, d), o, d) = x
    <2> DEFINE y == Plus(Minus(x, o, d), o, d)
    <2>1. x = [p \in Outcomes |-> x[p]] /\ y = [p \in Outcomes |-> y[p]]
      OBVIOUS
    <2>2. ASSUME NEW p \in Outcomes PROVE y[p] = x[p]
      <3>1. x[p] \in Nat /\ x[o] \in Nat OBVIOUS
      <3> QED BY <3>1, x[o] - d + d = x[o]
    <2> HIDE DEF y
    <2> QED BY <2>1, <2>2 DEF y
  <1>4. ASSUME \A p \in Outcomes : x[p] + d <= Q_MAX
        PROVE  Shift(x, d) \in Quantities
    <2>1. ASSUME NEW p \in Outcomes PROVE x[p] + d \in 0..Q_MAX
      BY <1>4, x[p] \in 0..Q_MAX, x[p] + d <= Q_MAX
    <2> QED BY <2>1
  <1>5. (\A p \in Outcomes : d <= x[p]) => Shift(x, -d) \in Quantities OBVIOUS
  <1>6. (\A p \in Outcomes : d <= x[p]) => Shift(Shift(x, -d), d) = x OBVIOUS
  <1> QED BY <1>1, <1>2, <1>3, <1>4, <1>5, <1>6

\* A buy's net amount covers the curve's move.
LEMMA BuyPaysTheCurve ==
  ASSUME NEW x \in Quantities, NEW o \in Outcomes, NEW budget \in Nat,
         NEW delta \in Nat, IsBuyDelta(x, o, budget, delta)
  PROVE  /\ Plus(x, o, delta) \in Quantities
         /\ CostQ[Plus(x, o, delta)] <= CostQ[x] + budget * ONE_Q64
  <1> DEFINE y == Plus(x, o, delta)
             move == SatSub(CostQ[y], CostQ[x])
  <1>1. x[o] \in Nat /\ x[o] + delta <= Q_MAX /\ buy_cost(x, o, delta) <= budget
    BY LmsrConstants DEF IsBuyDelta, Quantities
  <1>2. y \in Quantities
    BY <1>1, VectorTypes
  <1>3. CostQ[x] \in Nat /\ CostQ[y] \in Nat
    BY <1>2, LmsrConstants
  <1>4. move \in Nat /\ CostQ[y] <= CostQ[x] + move
    BY <1>3 DEF SatSub
  <1>5. CeilUnits(move) \in Nat /\ move <= CeilUnits(move) * ONE_Q64
    BY <1>4, CeilCovers
  <1>6. CeilUnits(move) <= budget
    BY <1>1, <1>5 DEF buy_cost
  <1>7. move <= budget * ONE_Q64 /\ budget * ONE_Q64 \in Nat
    BY <1>4, <1>5, <1>6, MulMono, LmsrConstants
  <1> QED BY <1>2, <1>3, <1>4, <1>7

\* The curve's move covers a sell's refund.
LEMMA SellFreesTheCurve ==
  ASSUME NEW x \in Quantities, NEW o \in Outcomes, NEW d \in Nat, d <= x[o]
  PROVE  /\ Minus(x, o, d) \in Quantities
         /\ sell_refund(x, o, d) \in Nat
         /\ CostQ[Minus(x, o, d)] + sell_refund(x, o, d) * ONE_Q64 <= CostQ[x]
  <1> DEFINE y == Minus(x, o, d)
             move == SatSub(CostQ[x], CostQ[y])
  <1>1. y \in Quantities /\ Plus(y, o, d) = x /\ y[o] + d <= Q_MAX /\ d \in 0..Q_MAX
    <2>1. y \in Quantities /\ Plus(y, o, d) = x
      BY VectorTypes
    <2>2. x[o] \in 0..Q_MAX /\ y[o] = x[o] - d
      BY DEF Quantities, Minus
    <2> QED BY <2>1, <2>2, LmsrConstants
  <1>2. CostQ[y] <= CostQ[x]
    BY <1>1, CostMonotone
  <1>3. CostQ[x] \in Nat /\ CostQ[y] \in Nat
    BY <1>1, LmsrConstants
  <1>4. move \in Nat /\ CostQ[y] + move = CostQ[x]
    BY <1>2, <1>3 DEF SatSub
  <1>5. FloorUnits(move) \in Nat /\ FloorUnits(move) * ONE_Q64 <= move
    BY <1>4, FloorCovered
  <1>6. FloorUnits(move) * ONE_Q64 \in Nat
    BY <1>5, MulMono, LmsrConstants
  <1> QED BY <1>1, <1>3, <1>4, <1>5, <1>6 DEF sell_refund

\* The smallest component of a vector.
LEMMA MinOfBelow ==
  ASSUME NEW x \in Quantities
  PROVE  MinOf(x) \in Nat /\ \A o \in Outcomes : MinOf(x) <= x[o]
  <1>1. x[0] \in Nat /\ x[1] \in Nat /\ x[2] \in Nat
    BY LmsrConstants DEF Quantities, Outcomes
  <1>2. \E o \in Outcomes : \A p \in Outcomes : x[o] <= x[p]
    <2>1. CASE x[0] <= x[1] /\ x[0] <= x[2] BY <1>1, <2>1 DEF Outcomes
    <2>2. CASE x[1] <= x[0] /\ x[1] <= x[2] BY <1>1, <2>2 DEF Outcomes
    <2>3. CASE x[2] <= x[0] /\ x[2] <= x[1] BY <1>1, <2>3 DEF Outcomes
    <2> QED BY <1>1, <2>1, <2>2, <2>3
  <1>3. \E m \in {x[o] : o \in Outcomes} : \A o \in Outcomes : m <= x[o]
    BY <1>2
  <1>4. /\ MinOf(x) \in {x[o] : o \in Outcomes}
        /\ \A o \in Outcomes : MinOf(x) <= x[o]
    BY <1>3 DEF MinOf
  <1> QED BY <1>4, LmsrConstants DEF Quantities

-----------------------------------------------------------------------------
(* The fee engine stays in its ranges. *)

\* Decay never raises the accumulator, the fee stays within its configured
\* band and the accumulator within its cap.
LEMMA FeeRanges ==
  ASSUME NEW v \in 0..max_v_acc, NEW elapsed \in Nat
  PROVE  /\ decay_v_ref(v, elapsed) \in 0..v
         /\ fee_bps_from_v_ref(v) \in 0..max_fee_bps
  <1>1. (v * reduction_bps) \div REDUCTION_DENOM \in 0..v
    <2> DEFINE p == v * reduction_bps
    <2>1. p \in Nat /\ p <= v * REDUCTION_DENOM
      BY FeeConfig
    <2>2. p \div REDUCTION_DENOM \in Nat /\ (p \div REDUCTION_DENOM) * REDUCTION_DENOM <= p
      BY <2>1, DivBounds, FeeConfig
    <2>3. v * REDUCTION_DENOM \in Nat /\ (p \div REDUCTION_DENOM) * REDUCTION_DENOM \in Nat
      BY <2>2, FeeConfig
    <2>4. p \div REDUCTION_DENOM <= v
      BY <2>1, <2>2, <2>3, MulCancel, FeeConfig
    <2> QED BY <2>2, <2>4
  <1>2. decay_v_ref(v, elapsed) \in 0..v
    BY <1>1, FeeConfig DEF decay_v_ref
  <1>3. fee_bps_from_v_ref(v) \in 0..max_fee_bps
    <2> DEFINE denom == CONTROL_DENOM * SCALE * SCALE
               square == vfc_num * v * v
    <2>1. denom \in Nat \ {0} /\ square \in Nat
      BY FeeConfig
    <2>2. (square + denom - 1) \div denom \in Nat
      <3>1. square + denom - 1 \in Nat BY <2>1
      <3> QED BY <2>1, <3>1, DivBounds
    <2> HIDE DEF denom, square
    <2>3. base_fee_bps + (square + denom - 1) \div denom \in Nat
      BY <2>2, FeeConfig
    <2> QED BY <2>3, FeeConfig DEF fee_bps_from_v_ref, denom, square
  <1> QED BY <1>2, <1>3

\* A fee only ever takes from an amount.
LEMMA AfterFeeBound ==
  ASSUME NEW amount \in Nat, NEW bps \in 0..max_fee_bps
  PROVE  after_fee(amount, bps) \in 0..amount
  <1> DEFINE p == amount * (FEE_BPS_DENOM - bps)
  <1>1. FEE_BPS_DENOM - bps \in Nat /\ FEE_BPS_DENOM - bps <= FEE_BPS_DENOM
    BY FeeConfig
  <1>2. p \in Nat /\ p <= amount * FEE_BPS_DENOM
    BY <1>1, FeeConfig
  <1>3. p \div FEE_BPS_DENOM \in Nat /\ (p \div FEE_BPS_DENOM) * FEE_BPS_DENOM <= p
    BY <1>2, DivBounds, FeeConfig
  <1>4. amount * FEE_BPS_DENOM \in Nat /\ (p \div FEE_BPS_DENOM) * FEE_BPS_DENOM \in Nat
    BY <1>3, FeeConfig
  <1>5. p \div FEE_BPS_DENOM <= amount
    BY <1>2, <1>3, <1>4, MulCancel, FeeConfig
  <1> QED BY <1>3, <1>5 DEF after_fee

\* Arming keeps the accumulator within its cap and never below the part of it
\* carried over, nor below the move when that fits.
LEMMA NextAccRange ==
  ASSUME NEW v \in 0..max_v_acc, NEW old \in 0..BPS_DENOM, NEW new \in 0..BPS_DENOM
  PROVE  /\ next_v_acc(v, old, new) \in 0..max_v_acc
         /\ next_v_acc(v, old, new) =
              IF v + SCALE * Distance(old, new) <= max_v_acc
              THEN v + SCALE * Distance(old, new) ELSE max_v_acc
  <1> DEFINE d == Distance(old, new)
  <1>1. d \in Nat
    BY LmsrConstants DEF Distance
  <1>2. d * SCALE \in Nat /\ d * SCALE = SCALE * d
    BY <1>1, FeeConfig
  <1>3. next_v_acc(v, old, new) =
          IF v + d * SCALE <= max_v_acc THEN v + d * SCALE ELSE max_v_acc
    BY DEF next_v_acc, Distance
  <1> HIDE DEF d
  <1>4. next_v_acc(v, old, new) \in 0..max_v_acc
    BY <1>2, <1>3, FeeConfig
  <1> QED BY <1>2, <1>3, <1>4 DEF d

-----------------------------------------------------------------------------
(* The inductive invariant. *)

\* A resolved market names one of the three outcomes: Void is never reached.
ProperlyResolved == state = "Resolved" => outcome \in {"Team1", "Draw", "Team2"}

\* init_market's liquidity covers the cost of its seed.
SeedCovers == AccountExists => Cushion >= 0

\* Everything but the bounded loss, which follows from it until the result is
\* in and is carried by the redemptions after that.
LedgerInv == TypeOK /\ ProperlyResolved /\ LedgersAgree /\ SeedCovers /\ CurveBacked

IInv == LedgerInv /\ WorstCaseLoss

\* Quantities are naturals.
LEMMA QuantityNat ==
  ASSUME NEW x \in Quantities, NEW o \in Outcomes
  PROVE  x[o] \in Nat /\ CostQ[x] \in Nat
  BY LmsrConstants DEF Quantities

\* The all-zero vector.
LEMMA NothingType == Nothing \in Quantities /\ Nothing \in [Outcomes -> Nat]
  BY LmsrConstants DEF Nothing, Quantities

\* The fee a trade pays is within the configured band.
LEMMA FeeNow ==
  ASSUME TypeOK, now >= last_ts
  PROVE  /\ v_ref_now \in 0..max_v_acc
         /\ fee_bps_now \in 0..max_fee_bps
  <1>1. now - last_ts \in Nat /\ v_acc \in 0..max_v_acc
    BY DEF TypeOK
  <1>2. v_ref_now \in 0..v_acc
    BY <1>1, FeeRanges DEF v_ref_now
  <1>3. v_ref_now \in 0..max_v_acc
    BY <1>1, <1>2, FeeConfig
  <1> QED BY <1>1, <1>3, FeeRanges DEF fee_bps_now

\* The fee state a trade leaves is well typed.
LEMMA ArmFeeType ==
  ASSUME TypeOK, now >= last_ts, NEW o \in Outcomes, q' \in Quantities, ArmFee(o)
  PROVE  /\ last_price_bps' \in 0..BPS_DENOM /\ last_ts' \in Nat
         /\ v_acc' \in 0..max_v_acc /\ burst_price' \in 0..BPS_DENOM
  <1>1. PriceBps[q'][o] \in 0..BPS_DENOM
    BY LmsrConstants
  <1>2. last_price_bps \in 0..BPS_DENOM /\ now \in Nat /\ burst_price \in 0..BPS_DENOM
    BY DEF TypeOK
  <1>3. next_v_acc(v_ref_now, last_price_bps, PriceBps[q'][o]) \in 0..max_v_acc
    BY <1>1, <1>2, FeeNow, NextAccRange
  <1> QED BY <1>1, <1>2, <1>3 DEF ArmFee

\* The actions that leave the curve, the money and the positions alone.
LEMMA QuietSteps ==
  ASSUME LedgerInv,
         \/ Tick \/ PublishBatch \/ ActivateMarket \/ FreezeMarket
         \/ \E hint \in Outcomes : Resolve(hint)
         \/ UNCHANGED vars
  PROVE  LedgerInv'
  <1> USE DEF LedgerInv, TypeOK, ProperlyResolved, LedgersAgree, SeedCovers,
              CurveBacked, Unresolved, AccountExists, Cushion, cost, environment,
              feeState, schedule, positions, seedHistory, history
  <1>1. CASE Tick BY <1>1 DEF Tick
  <1>2. CASE PublishBatch BY <1>2 DEF PublishBatch
  <1>3. CASE ActivateMarket BY <1>3 DEF ActivateMarket, MarketState
  <1>4. CASE FreezeMarket BY <1>4 DEF FreezeMarket, MarketState
  <1>5. ASSUME NEW hint \in Outcomes, Resolve(hint) PROVE LedgerInv'
    <2>1. OutcomeName[hint] \in {"Team1", "Draw", "Team2"}
      BY DEF OutcomeName, Outcomes
    <2> QED BY <1>5, <2>1 DEF Resolve, MarketState, Outcome
  <1>6. CASE UNCHANGED vars BY <1>6 DEF vars
  <1> QED BY <1>1, <1>2, <1>3, <1>4, <1>5, <1>6

\* init_market: the liquidity it demands covers the cost of the seed.
LEMMA InitMarketStep ==
  ASSUME LedgerInv, NEW seed \in Seeds, NEW pair \in Schedules,
         NEW extra \in SurplusSeeds, InitMarket(seed, pair, extra)
  PROVE  LedgerInv'
  <1> DEFINE min_seed == cost(seed) - MinOf(seed)
             liquidity == min_seed + extra
  <1>1. seed \in Quantities /\ extra \in Nat /\ pair \in Nat \X Nat
    BY SpotConstants
  <1>2. pair[1] \in Nat /\ pair[2] \in Nat
    BY <1>1
  <1>3. CostQ[seed] \in Nat /\ cost(seed) \in Nat /\ MinOf(seed) \in Nat
    BY <1>1, LmsrConstants, CeilCovers, MinOfBelow DEF cost
  <1>4. min_seed \in Int /\ liquidity \in Nat /\ liquidity >= min_seed
    BY <1>1, <1>3 DEF InitMarket
  <1>5. PriceBps[seed][0] \in 0..BPS_DENOM
    BY <1>1, LmsrConstants DEF Outcomes
  <1>6. /\ state' = "Open" /\ outcome' = "Unset" /\ q' = seed /\ supply' = Nothing
        /\ vault' = liquidity /\ usdt_collateral' = liquidity
        /\ seed_q' = seed /\ seed_vault' = liquidity
    BY DEF InitMarket
  <1> HIDE DEF liquidity
  <1>7. TypeOK'
    BY <1>1, <1>2, <1>4, <1>5, <1>6, NothingType, FeeConfig
       DEF LedgerInv, TypeOK, InitMarket, MarketState, Outcome, environment,
           positions, schedule
  <1>8. ProperlyResolved'
    BY <1>6 DEF ProperlyResolved
  <1>9. LedgersAgree'
    <2>1. \A o \in Outcomes : seed[o] = seed[o] + Nothing[o]
      BY <1>1, QuantityNat DEF Nothing
    <2> QED BY <1>6, <2>1 DEF LedgersAgree
  <1>10. SeedCovers'
    <2>1. Cushion' = liquidity - min_seed
      BY <1>6 DEF Cushion
    <2> QED BY <1>3, <1>4, <2>1 DEF SeedCovers
  <1>11. CurveBacked'
    <2>1. ONE_Q64 \in Nat /\ liquidity \in Nat
      BY <1>4, LmsrConstants
    <2>2. liquidity * ONE_Q64 \in Nat
      BY <2>1, MulNat
    <2> QED BY <1>3, <1>6, <2>2 DEF CurveBacked
  <1> QED BY <1>7, <1>8, <1>9, <1>10, <1>11 DEF LedgerInv

\* close_market: everything is back to nothing.
LEMMA CloseMarketStep ==
  ASSUME LedgerInv, CloseMarket
  PROVE  LedgerInv'
  <1>1. TypeOK'
    BY NothingType, LmsrConstants, FeeConfig
       DEF LedgerInv, TypeOK, CloseMarket, MarketState, Outcome, environment,
           positions
  <1>2. state' = "Closed" /\ usdt_collateral' = vault'
    BY DEF CloseMarket
  <1> QED BY <1>1, <1>2 DEF LedgerInv, ProperlyResolved, LedgersAgree, SeedCovers,
                           CurveBacked, Unresolved, AccountExists

\* open_position touches no money.
LEMMA OpenPositionStep ==
  ASSUME LedgerInv, NEW u \in Users, OpenPosition(u)
  PROVE  LedgerInv'
  <1>1. TypeOK'
    BY NothingType DEF LedgerInv, TypeOK, OpenPosition, environment, feeState,
                       schedule, history, seedHistory
  <1> QED BY <1>1 DEF LedgerInv, OpenPosition, ProperlyResolved, LedgersAgree,
                      SeedCovers, CurveBacked, Unresolved, AccountExists, Cushion,
                      cost, environment, feeState, schedule, history, seedHistory

\* What the ledgers need of an instruction sent while the market trades: the
\* curve and the supplies move together, the vault and the program's count of
\* it too, and the money covers the curve's move.
LEMMA TradingStep ==
  ASSUME LedgerInv, TypeOK', state = "Trading", state' = "Trading",
         UNCHANGED seedHistory, usdt_collateral' = vault',
         \A o \in Outcomes : q'[o] - q[o] = supply'[o] - supply[o],
         vault' * ONE_Q64 + CostQ[q] >= vault * ONE_Q64 + CostQ[q']
  PROVE  LedgerInv'
  <1>1. ProperlyResolved' /\ SeedCovers'
    BY DEF LedgerInv, ProperlyResolved, SeedCovers, AccountExists, Cushion, cost,
           seedHistory
  <1>2. LedgersAgree'
    <2>1. ASSUME NEW o \in Outcomes PROVE q'[o] = seed_q'[o] + supply'[o]
      <3>1. q[o] \in Nat /\ q'[o] \in Nat /\ seed_q[o] \in Nat
        BY QuantityNat DEF LedgerInv, TypeOK
      <3>2. supply[o] \in Nat /\ supply'[o] \in Nat
        BY DEF LedgerInv, TypeOK
      <3>3. q[o] = seed_q[o] + supply[o] /\ seed_q' = seed_q
        BY DEF LedgerInv, LedgersAgree, Unresolved, seedHistory
      <3> QED BY <3>1, <3>2, <3>3
    <2> QED BY <2>1 DEF LedgersAgree
  <1>3. CurveBacked'
    <2>1. CostQ[q] \in Nat /\ CostQ[q'] \in Nat /\ CostQ[seed_q] \in Nat
      BY QuantityNat, LmsrConstants DEF LedgerInv, TypeOK
    <2>. /\ vault * ONE_Q64 \in Nat /\ vault' * ONE_Q64 \in Nat
         /\ seed_vault * ONE_Q64 \in Nat
      BY MulNat, LmsrConstants DEF LedgerInv, TypeOK
    <2>2. vault * ONE_Q64 + CostQ[seed_q] >= seed_vault * ONE_Q64 + CostQ[q]
      BY DEF LedgerInv, CurveBacked, Unresolved
    <2>3. vault' * ONE_Q64 + CostQ[seed_q] >= seed_vault * ONE_Q64 + CostQ[q']
      BY <2>1, <2>2
    <2> QED BY <2>3 DEF CurveBacked, seedHistory
  <1> QED BY <1>1, <1>2, <1>3 DEF LedgerInv

\* buy: the budget covers the curve's move, and the fee only adds to it.
LEMMA BuyStep ==
  ASSUME LedgerInv, NEW u \in Users, NEW o \in Outcomes, NEW usdt_in \in Amounts,
         Buy(u, o, usdt_in)
  PROVE  LedgerInv'
  <1> DEFINE net == after_fee(usdt_in, fee_bps_now)
  <1>1. TypeOK /\ usdt_in \in Nat /\ now >= last_ts
    BY SpotConstants DEF LedgerInv, Buy
  <1>2. net \in Nat /\ net <= usdt_in
    BY <1>1, FeeNow, AfterFeeBound
  <1>3. PICK delta \in 1..Q_MAX :
          /\ IsBuyDelta(q, o, net, delta)
          /\ q' = Plus(q, o, delta)
          /\ supply' = Plus(supply, o, delta)
          /\ tokens' = [tokens EXCEPT ![u] = Plus(@, o, delta)]
    BY DEF Buy, Issue
  <1>4. delta \in Nat /\ q \in Quantities /\ supply \in [Outcomes -> Nat]
        /\ tokens \in [Users -> [Outcomes -> Nat]] /\ vault \in Nat
    BY <1>1, LmsrConstants DEF TypeOK
  <1> HIDE DEF net
  <1>5. q' \in Quantities /\ CostQ[q'] <= CostQ[q] + net * ONE_Q64
    BY <1>2, <1>3, <1>4, BuyPaysTheCurve
  <1>6. supply' \in [Outcomes -> Nat] /\ tokens' \in [Users -> [Outcomes -> Nat]]
    BY <1>3, <1>4 DEF Plus
  <1>7. /\ basis' \in [Users -> Nat]
        /\ vault' = vault + usdt_in /\ vault' \in Nat /\ usdt_collateral' \in Nat
        /\ usdt_collateral' = vault' /\ purchases' \in Nat
    BY <1>1 DEF Buy, Deposit, Purchase, TypeOK, LedgerInv, LedgersAgree
  <1>8. /\ last_price_bps' \in 0..BPS_DENOM /\ last_ts' \in Nat
        /\ v_acc' \in 0..max_v_acc /\ burst_price' \in 0..BPS_DENOM
    BY <1>1, <1>5, ArmFeeType DEF Buy
  <1>9. TypeOK'
    BY <1>1, <1>5, <1>6, <1>7, <1>8
       DEF TypeOK, Buy, environment, schedule, seedHistory
  <1>10. \A p \in Outcomes : q'[p] - q[p] = supply'[p] - supply[p]
    BY <1>3, <1>4, QuantityNat DEF Plus, Quantities
  <1>11. vault' * ONE_Q64 + CostQ[q] >= vault * ONE_Q64 + CostQ[q']
    <2>1. ONE_Q64 \in Nat /\ CostQ[q] \in Nat /\ CostQ[q'] \in Nat
      BY <1>4, <1>5, LmsrConstants
    <2>2. /\ net * ONE_Q64 \in Nat /\ usdt_in * ONE_Q64 \in Nat
          /\ net * ONE_Q64 <= usdt_in * ONE_Q64
      BY <1>1, <1>2, <2>1, MulMono
    <2>3. vault' * ONE_Q64 = vault * ONE_Q64 + usdt_in * ONE_Q64
          /\ vault * ONE_Q64 \in Int
      BY <1>1, <1>4, <1>7, <2>1, MulAdd
    <2> QED BY <1>5, <2>1, <2>2, <2>3
  <1> QED BY <1>7, <1>9, <1>10, <1>11, TradingStep DEF Buy

\* sell: the refund is covered by the curve's move, and the fee stays behind.
LEMMA SellStep ==
  ASSUME LedgerInv, NEW u \in Users, NEW o \in Outcomes, NEW tokens_in \in Amounts,
         Sell(u, o, tokens_in)
  PROVE  LedgerInv'
  <1> DEFINE refund == sell_refund(q, o, tokens_in)
             usdt_out == after_fee(refund, fee_bps_now)
  <1>1. TypeOK /\ tokens_in \in Nat /\ now >= last_ts
    BY SpotConstants DEF LedgerInv, Sell
  <1>2. /\ q \in Quantities /\ supply \in [Outcomes -> Nat] /\ vault \in Nat
        /\ tokens \in [Users -> [Outcomes -> Nat]]
    BY <1>1 DEF TypeOK
  <1>3. /\ q' = Minus(q, o, tokens_in) /\ q[o] >= tokens_in
        /\ supply' = Minus(supply, o, tokens_in) /\ supply[o] >= tokens_in
        /\ tokens' = [tokens EXCEPT ![u] = Minus(@, o, tokens_in)]
        /\ tokens[u][o] >= tokens_in
        /\ vault' = vault - usdt_out /\ vault >= usdt_out
        /\ usdt_collateral' = usdt_collateral - usdt_out
        /\ basis' = [basis EXCEPT ![u] = SatSub(@, usdt_out)]
    BY DEF Sell, Retire, Withdraw
  <1>4. q' \in Quantities /\ refund \in Nat /\ CostQ[q'] + refund * ONE_Q64 <= CostQ[q]
    BY <1>1, <1>2, <1>3, QuantityNat, SellFreesTheCurve
  <1> HIDE DEF refund
  <1>5. usdt_out \in Nat /\ usdt_out <= refund
    BY <1>1, <1>4, FeeNow, AfterFeeBound
  <1> HIDE DEF usdt_out
  <1>6. supply' \in [Outcomes -> Nat] /\ tokens' \in [Users -> [Outcomes -> Nat]]
    BY <1>1, <1>2, <1>3 DEF Minus
  <1>7. /\ basis' \in [Users -> Nat] /\ vault' \in Nat /\ usdt_collateral' = vault'
    BY <1>1, <1>2, <1>3, <1>5 DEF TypeOK, SatSub, LedgerInv, LedgersAgree
  <1>8. /\ last_price_bps' \in 0..BPS_DENOM /\ last_ts' \in Nat
        /\ v_acc' \in 0..max_v_acc /\ burst_price' \in 0..BPS_DENOM
    BY <1>1, <1>4, ArmFeeType DEF Sell
  <1>9. TypeOK'
    BY <1>1, <1>4, <1>6, <1>7, <1>8
       DEF TypeOK, Sell, environment, schedule, seedHistory
  <1>10. \A p \in Outcomes : q'[p] - q[p] = supply'[p] - supply[p]
    BY <1>1, <1>2, <1>3, QuantityNat DEF Minus, Quantities
  <1>11. vault' * ONE_Q64 + CostQ[q] >= vault * ONE_Q64 + CostQ[q']
    <2>1. ONE_Q64 \in Nat /\ CostQ[q] \in Nat /\ CostQ[q'] \in Nat
      BY <1>2, <1>4, LmsrConstants
    <2>2. /\ usdt_out * ONE_Q64 \in Nat /\ refund * ONE_Q64 \in Nat
          /\ usdt_out * ONE_Q64 <= refund * ONE_Q64
      BY <1>4, <1>5, <2>1, MulMono
    <2>3. vault' * ONE_Q64 = vault * ONE_Q64 - usdt_out * ONE_Q64
          /\ vault * ONE_Q64 \in Int
      BY <1>2, <1>3, <1>5, <2>1, MulAdd
    <2> QED BY <1>4, <2>1, <2>2, <2>3
  <1> QED BY <1>7, <1>9, <1>10, <1>11, TradingStep DEF Sell

\* mint_set: the curve rises by exactly the face value paid.
LEMMA MintSetStep ==
  ASSUME LedgerInv, NEW u \in Users, NEW amount \in Amounts, MintSet(u, amount)
  PROVE  LedgerInv'
  <1>1. TypeOK /\ amount \in Nat
    BY SpotConstants DEF LedgerInv
  <1>2. /\ q \in Quantities /\ supply \in [Outcomes -> Nat] /\ vault \in Nat
        /\ tokens \in [Users -> [Outcomes -> Nat]]
    BY <1>1 DEF TypeOK
  <1>3. /\ q' = Shift(q, amount) /\ \A p \in Outcomes : q[p] + amount <= Q_MAX
        /\ supply' = Shift(supply, amount)
        /\ tokens' = [tokens EXCEPT ![u] = Shift(@, amount)]
        /\ vault' = vault + amount
    BY DEF MintSet, MoveSets, Deposit
  <1>4. q' \in Quantities
    BY <1>1, <1>2, <1>3, VectorTypes DEF Outcomes
  <1>5. CostQ[q'] = CostQ[q] + amount * ONE_Q64
    <2>1. amount \in 0..Q_MAX
      BY <1>1, <1>2, <1>3, QuantityNat, LmsrConstants, 0 \in Outcomes DEF Outcomes
    <2> QED BY <1>2, <1>3, <1>4, <2>1, CostShifts
  <1>6. supply' \in [Outcomes -> Nat] /\ tokens' \in [Users -> [Outcomes -> Nat]]
    BY <1>1, <1>2, <1>3 DEF Shift
  <1>7. /\ basis' \in [Users -> Nat] /\ vault' \in Nat /\ usdt_collateral' = vault'
        /\ purchases' \in Nat
    BY <1>1 DEF MintSet, Deposit, Purchase, TypeOK, LedgerInv, LedgersAgree
  <1>8. TypeOK'
    BY <1>1, <1>4, <1>6, <1>7
       DEF TypeOK, MintSet, environment, schedule, seedHistory, feeState
  <1>9. \A p \in Outcomes : q'[p] - q[p] = supply'[p] - supply[p]
    BY <1>1, <1>2, <1>3, QuantityNat DEF Shift
  <1>10. vault' * ONE_Q64 + CostQ[q] >= vault * ONE_Q64 + CostQ[q']
    <2>1. ONE_Q64 \in Nat /\ CostQ[q] \in Nat
      BY <1>2, LmsrConstants
    <2>2. vault' * ONE_Q64 = vault * ONE_Q64 + amount * ONE_Q64
          /\ vault * ONE_Q64 \in Int /\ amount * ONE_Q64 \in Int
      BY <1>1, <1>2, <1>3, <2>1, MulAdd
    <2> QED BY <1>5, <2>1, <2>2
  <1> QED BY <1>7, <1>8, <1>9, <1>10, TradingStep DEF MintSet

\* redeem_set: the curve falls by exactly the face value returned.
LEMMA RedeemSetStep ==
  ASSUME LedgerInv, NEW u \in Users, NEW amount \in Amounts, RedeemSet(u, amount)
  PROVE  LedgerInv'
  <1>1. TypeOK /\ amount \in Nat
    BY SpotConstants DEF LedgerInv
  <1>2. /\ q \in Quantities /\ supply \in [Outcomes -> Nat] /\ vault \in Nat
        /\ tokens \in [Users -> [Outcomes -> Nat]]
    BY <1>1 DEF TypeOK
  <1>3. /\ q' = Shift(q, -amount) /\ supply' = Shift(supply, -amount)
        /\ tokens' = [tokens EXCEPT ![u] = Shift(@, -amount)]
        /\ \A p \in Outcomes : /\ q[p] >= amount /\ supply[p] >= amount
                               /\ tokens[u][p] >= amount
        /\ vault' = vault - amount /\ vault >= amount
    BY DEF RedeemSet, MoveSets, Withdraw
  <1>4. q' \in Quantities /\ Shift(q', amount) = q
    BY <1>1, <1>2, <1>3, VectorTypes, 0 \in Outcomes DEF Outcomes
  <1>5. CostQ[q] = CostQ[q'] + amount * ONE_Q64
    <2>1. amount \in 0..Q_MAX
      <3>1. q[0] \in 0..Q_MAX /\ q[0] >= amount
        BY <1>2, <1>3 DEF Outcomes, Quantities
      <3> QED BY <1>1, <3>1, LmsrConstants
    <2> QED BY <1>2, <1>4, <2>1, CostShifts
  <1>6. supply' \in [Outcomes -> Nat] /\ tokens' \in [Users -> [Outcomes -> Nat]]
    BY <1>1, <1>2, <1>3 DEF Shift
  <1>7. basis' \in [Users -> Nat] /\ vault' \in Nat /\ usdt_collateral' = vault'
    BY <1>1, <1>2, <1>3 DEF RedeemSet, Withdraw, SatSub, TypeOK, LedgerInv, LedgersAgree
  <1>8. TypeOK'
    BY <1>1, <1>4, <1>6, <1>7
       DEF TypeOK, RedeemSet, environment, schedule, seedHistory, feeState, history
  <1>9. \A p \in Outcomes : q'[p] - q[p] = supply'[p] - supply[p]
    BY <1>1, <1>2, <1>3, QuantityNat DEF Shift
  <1>10. vault' * ONE_Q64 + CostQ[q] >= vault * ONE_Q64 + CostQ[q']
    <2>1. ONE_Q64 \in Nat /\ CostQ[q'] \in Nat
      BY <1>4, LmsrConstants
    <2>2. vault' * ONE_Q64 = vault * ONE_Q64 - amount * ONE_Q64
          /\ vault * ONE_Q64 \in Int /\ amount * ONE_Q64 \in Int
      BY <1>1, <1>2, <1>3, <2>1, MulAdd
    <2> QED BY <1>5, <2>1, <2>2
  <1> QED BY <1>7, <1>8, <1>9, <1>10, TradingStep DEF RedeemSet, history

\* redeem moves the vault and the program's count of it together.
LEMMA RedeemStep ==
  ASSUME LedgerInv, NEW u \in Users, Redeem(u)
  PROVE  /\ LedgerInv'
         /\ tokens[u][WinIndex(outcome)] \in Nat
         /\ Payout(u) = tokens[u][WinIndex(outcome)]
  <1>1. /\ TypeOK /\ state = "Resolved" /\ Payable(u)
        /\ vault' = vault - Payout(u) /\ usdt_collateral' = usdt_collateral - Payout(u)
        /\ supply' = [o \in Outcomes |-> supply[o] - tokens[u][o]]
    BY DEF Redeem, Burn, Withdraw, LedgerInv
  <1>2. outcome # "Void" /\ WinIndex(outcome) \in Outcomes
    BY <1>1 DEF LedgerInv, ProperlyResolved, WinIndex, Outcomes
  <1>3. /\ tokens \in [Users -> [Outcomes -> Nat]] /\ supply \in [Outcomes -> Nat]
        /\ vault \in Nat /\ usdt_collateral \in Nat
    BY <1>1 DEF TypeOK
  <1>4. Payout(u) = tokens[u][WinIndex(outcome)] /\ Payout(u) \in Nat
    BY <1>2, <1>3 DEF Payout
  <1>5. /\ supply' \in [Outcomes -> Nat] /\ vault' \in Nat /\ usdt_collateral' \in Nat
        /\ usdt_collateral' = vault'
    BY <1>1, <1>3, <1>4 DEF Payable, LedgerInv, LedgersAgree
  <1>6. tokens' \in [Users -> [Outcomes -> Nat]] /\ basis' \in [Users -> Nat]
        /\ redeemed' \in [Users -> BOOLEAN]
    BY <1>1, NothingType DEF Redeem, TypeOK
  <1>7. TypeOK'
    BY <1>1, <1>5, <1>6
       DEF TypeOK, Redeem, environment, feeState, schedule, history, seedHistory
  <1>8. (ProperlyResolved /\ LedgersAgree /\ SeedCovers /\ CurveBacked)'
    BY <1>1, <1>5
       DEF Redeem, LedgerInv, ProperlyResolved, LedgersAgree, SeedCovers, CurveBacked,
           Unresolved, AccountExists, Cushion, cost, history, seedHistory
  <1> QED BY <1>3, <1>4, <1>7, <1>8 DEF LedgerInv

\* Every step is one of the actions the lemmas above are about.
LEMMA EveryStep ==
  ASSUME [Next]_vars
  PROVE  \/ Tick \/ PublishBatch \/ ActivateMarket \/ FreezeMarket
         \/ \E hint \in Outcomes : Resolve(hint)
         \/ UNCHANGED vars
         \/ \E seed \in Seeds, pair \in Schedules, extra \in SurplusSeeds :
              InitMarket(seed, pair, extra)
         \/ CloseMarket
         \/ \E u \in Users : OpenPosition(u) \/ Redeem(u)
         \/ \E u \in Users, o \in Outcomes, amount \in Amounts :
              Buy(u, o, amount) \/ Sell(u, o, amount)
         \/ \E u \in Users, amount \in Amounts : MintSet(u, amount) \/ RedeemSet(u, amount)
  BY DEF Next, Lifecycle, Trading

\* The ledgers survive every step.
LEMMA LedgerStep ==
  ASSUME LedgerInv, [Next]_vars
  PROVE  LedgerInv'
  BY EveryStep, QuietSteps, InitMarketStep, CloseMarketStep, OpenPositionStep,
     BuyStep, SellStep, MintSetStep, RedeemSetStep, RedeemStep

\* The ledgers hold at the start.
LEMMA LedgerInit ==
  ASSUME Init
  PROVE  LedgerInv
  <1>1. TypeOK
    <2>1. 0 \in 0..BPS_DENOM /\ 0 \in 0..max_v_acc
      BY LmsrConstants, FeeConfig
    <2>2. SupplyZero \in [Users -> [Outcomes -> Nat]]
      BY NothingType DEF SupplyZero
    <2> QED BY <2>1, <2>2, NothingType DEF Init, TypeOK, MarketState, Outcome
  <1>2. state = "Uninitialized" /\ usdt_collateral = vault
    BY DEF Init
  <1> QED BY <1>1, <1>2 DEF LedgerInv, ProperlyResolved, LedgersAgree, SeedCovers,
                           CurveBacked, Unresolved, AccountExists

\* While the result is open the ledgers alone bound the loss: the telescoped
\* premiums, less the cost of the seed, still exceed every supply.
LEMMA LedgersBoundLoss ==
  LedgerInv /\ Unresolved => \A o \in Outcomes : vault >= supply[o] + Cushion
  <1> SUFFICES ASSUME LedgerInv, Unresolved, NEW o \in Outcomes
               PROVE  vault >= supply[o] + Cushion
    OBVIOUS
  <1> DEFINE s == CostQ[seed_q]
             c == cost(seed_q)
             m == MinOf(seed_q)
             n == supply[o]
  <1>1. /\ q \in Quantities /\ seed_q \in Quantities /\ n \in Nat
        /\ vault \in Nat /\ seed_vault \in Nat /\ ONE_Q64 \in Nat \ {0}
    BY LmsrConstants DEF LedgerInv, TypeOK
  <1>2. s \in Nat /\ c \in Nat /\ s <= c * ONE_Q64
    BY <1>1, QuantityNat, CeilCovers, LmsrConstants DEF cost
  <1>3. m \in Nat /\ m <= seed_q[o] /\ seed_q[o] \in Nat
    BY <1>1, MinOfBelow, QuantityNat
  <1>4. q[o] = seed_q[o] + n /\ q[o] \in Nat /\ CostQ[q] \in Nat
    BY <1>1, QuantityNat DEF LedgerInv, LedgersAgree
  <1>5. CostQ[q] >= q[o] * ONE_Q64 /\ vault * ONE_Q64 + s >= seed_vault * ONE_Q64 + CostQ[q]
    BY <1>1, CostDominates DEF LedgerInv, CurveBacked
  <1>6. Cushion = seed_vault - (c - m)
    BY DEF Cushion
  <1> HIDE DEF s, c, m, n
  <1>7. (m + n) * ONE_Q64 <= q[o] * ONE_Q64
    BY <1>1, <1>3, <1>4, MulMono
  <1>8. /\ c * ONE_Q64 \in Nat /\ vault * ONE_Q64 \in Nat
        /\ seed_vault * ONE_Q64 \in Nat /\ (m + n) * ONE_Q64 \in Nat
        /\ q[o] * ONE_Q64 \in Nat
    BY <1>1, <1>2, <1>3, <1>4, MulNat
  <1>9. vault * ONE_Q64 + c * ONE_Q64 >= seed_vault * ONE_Q64 + (m + n) * ONE_Q64
    BY <1>2, <1>4, <1>5, <1>7, <1>8
  <1>10. /\ (vault + c) * ONE_Q64 = vault * ONE_Q64 + c * ONE_Q64
         /\ (seed_vault + (m + n)) * ONE_Q64 = seed_vault * ONE_Q64 + (m + n) * ONE_Q64
    BY <1>1, <1>2, <1>3, MulAdd
  <1>11. seed_vault + (m + n) <= vault + c
    BY <1>1, <1>2, <1>3, <1>9, <1>10, MulCancel
  <1> QED BY <1>1, <1>2, <1>3, <1>6, <1>11 DEF n

-----------------------------------------------------------------------------
(* The theorems. *)

\* The ledgers of SpotMarket hold in every reachable state.
LEMMA LedgersInvariant == Spec => []LedgerInv
  <1>1. Init => LedgerInv BY LedgerInit
  <1>2. LedgerInv /\ [Next]_vars => LedgerInv' BY LedgerStep
  <1> QED BY <1>1, <1>2, PTL DEF Spec

\* Every variable keeps its type, the accumulator its cap and the curve its
\* supported range, whatever is traded.
THEOREM TypeCorrectness == Spec => []TypeOK
  <1>1. LedgerInv => TypeOK BY DEF LedgerInv
  <1> QED BY <1>1, LedgersInvariant, PTL

\* The program's own count of its money is the vault's balance, and the curve
\* state is the seed plus the outstanding supplies.
THEOREM LedgersAlwaysAgree == Spec => []LedgersAgree
  <1>1. LedgerInv => LedgersAgree BY DEF LedgerInv
  <1> QED BY <1>1, LedgersInvariant, PTL

\* No sequence of trades takes more out of the vault than the curve moved.
THEOREM CurveAlwaysBacked == Spec => []CurveBacked
  <1>1. LedgerInv => CurveBacked BY DEF LedgerInv
  <1> QED BY <1>1, LedgersInvariant, PTL

\* A market becomes resolved by resolve alone, and once resolved only redeem
\* moves its money or its claims until it is closed.
LEMMA SettledSteps ==
  ASSUME [Next]_vars, state' = "Resolved"
  PROVE  IF state = "Resolved"
         THEN \/ \E u \in Users : Redeem(u)
              \/ UNCHANGED <<outcome, supply, vault, seedHistory>>
         ELSE \E hint \in Outcomes : Resolve(hint)
  <1>1. ASSUME Tick \/ PublishBatch \/ UNCHANGED vars
        PROVE  UNCHANGED <<state, outcome, supply, vault, seedHistory>>
    BY <1>1 DEF Tick, PublishBatch, vars, history
  <1>2. ~(ActivateMarket \/ FreezeMarket \/ CloseMarket)
    BY DEF ActivateMarket, FreezeMarket, CloseMarket
  <1>3. ASSUME NEW hint \in Outcomes, Resolve(hint)
        PROVE  state # "Resolved"
    BY <1>3 DEF Resolve
  <1>4. ASSUME NEW seed \in Seeds, NEW pair \in Schedules, NEW extra \in SurplusSeeds
        PROVE  ~InitMarket(seed, pair, extra)
    BY DEF InitMarket
  <1>5. ASSUME NEW u \in Users, OpenPosition(u)
        PROVE  UNCHANGED <<state, outcome, supply, vault, seedHistory>>
    BY <1>5 DEF OpenPosition, history
  <1>6. ASSUME NEW u \in Users, Redeem(u)
        PROVE  state = "Resolved"
    BY <1>6 DEF Redeem
  <1>7. ASSUME NEW u \in Users, NEW o \in Outcomes, NEW amount \in Amounts
        PROVE  ~Buy(u, o, amount) /\ ~Sell(u, o, amount)
    BY DEF Buy, Sell
  <1>8. ASSUME NEW u \in Users, NEW amount \in Amounts
        PROVE  ~MintSet(u, amount) /\ ~RedeemSet(u, amount)
    BY DEF MintSet, RedeemSet
  <1> QED BY <1>1, <1>2, <1>3, <1>4, <1>5, <1>6, <1>7, <1>8, EveryStep

\* A step preserves the bound on the loss, given the ledgers before and after:
\* only resolve and redeem have anything to show.
LEMMA LossStep ==
  ASSUME LedgerInv, LedgerInv', WorstCaseLoss, [Next]_vars,
         (LedgerInv /\ Unresolved => \A o \in Outcomes : vault >= supply[o] + Cushion)'
  PROVE  WorstCaseLoss'
  <1>1. CASE state' # "Resolved"
    BY <1>1 DEF WorstCaseLoss
  <1>2. CASE state' = "Resolved" /\ state # "Resolved"
    <2>1. PICK hint \in Outcomes : Resolve(hint)
      BY <1>2, SettledSteps
    <2>2. WinIndex(outcome') \in Outcomes
      BY DEF WinIndex, Outcomes
    <2>3. vault >= supply[WinIndex(outcome')] + Cushion
      BY <2>1, <2>2 DEF Resolve, WorstCaseLoss, Unresolved
    <2>4. vault' = vault /\ supply' = supply /\ Cushion' = Cushion
      BY <2>1 DEF Resolve, Cushion, history, seedHistory
    <2> QED BY <1>2, <2>3, <2>4 DEF WorstCaseLoss, Unresolved
  <1>3. CASE state' = "Resolved" /\ state = "Resolved"
    <2>1. \/ \E u \in Users : Redeem(u)
          \/ UNCHANGED <<outcome, supply, vault, seedHistory>>
      BY <1>3, SettledSteps
    <2>2. CASE UNCHANGED <<outcome, supply, vault, seedHistory>>
      BY <1>3, <2>2 DEF WorstCaseLoss, Unresolved, Cushion, seedHistory
    <2>3. ASSUME NEW u \in Users, Redeem(u) PROVE WorstCaseLoss'
      <3> DEFINE w == WinIndex(outcome)
      <3>1. w \in Outcomes
        BY DEF WinIndex, Outcomes
      <3>2. /\ outcome' = outcome /\ Cushion' = Cushion
            /\ vault' = vault - Payout(u) /\ supply'[w] = supply[w] - tokens[u][w]
        BY <2>3, <3>1 DEF Redeem, Burn, Withdraw, Cushion, history, seedHistory
      <3>3. tokens[u][w] \in Nat /\ Payout(u) = tokens[u][w]
        BY <2>3, RedeemStep
      <3>4. vault >= supply[w] + Cushion
        BY <1>3 DEF WorstCaseLoss
      <3>5. vault \in Nat /\ supply[w] \in Nat /\ Cushion \in Int
        <4>1. CostQ[seed_q] \in Nat /\ seed_q \in Quantities
          BY LmsrConstants DEF LedgerInv, TypeOK
        <4>2. cost(seed_q) \in Nat /\ MinOf(seed_q) \in Nat
          BY <4>1, CeilCovers, MinOfBelow DEF cost
        <4> QED BY <3>1, <4>2 DEF LedgerInv, TypeOK, Cushion
      <3> HIDE DEF w
      <3>6. vault' >= supply'[w] + Cushion'
        BY <3>2, <3>3, <3>4, <3>5
      <3> QED BY <1>3, <3>2, <3>6 DEF WorstCaseLoss, Unresolved, w
    <2> QED BY <2>1, <2>2, <2>3
  <1> QED BY <1>1, <1>2, <1>3

\* The market maker loses at most the liquidity init_market demanded, whoever
\* trades and whoever wins.
THEOREM BoundedLoss == Spec => []WorstCaseLoss
  <1>1. Init => WorstCaseLoss
    BY DEF Init, WorstCaseLoss, Unresolved
  <1>2. LedgerInv /\ LedgerInv' /\ WorstCaseLoss /\ [Next]_vars
          /\ (LedgerInv /\ Unresolved =>
                \A o \in Outcomes : vault >= supply[o] + Cushion)'
        => WorstCaseLoss'
    BY LossStep
  <1> QED BY <1>1, <1>2, LedgersBoundLoss, LedgersInvariant, PTL DEF Spec

-----------------------------------------------------------------------------
(* Claims: what is owed and to whom. *)

\* Until its first market there are no positions, and a position that was
\* never opened is empty.
Fresh ==
  /\ incarnation = 0 => state = "Uninitialized"
  /\ state = "Uninitialized" => opened = {}
  /\ \A u \in Users \ opened : tokens[u] = Nothing

\* One trader's position and the supplies move by the same vector.
LEMMA ClaimsMove ==
  ASSUME TypeOK, TypeOK', NEW u \in Users, NEW x \in [Outcomes -> Nat],
         tokens' = [tokens EXCEPT ![u] = x],
         \A o \in Outcomes : supply'[o] - supply[o] = x[o] - tokens[u][o],
         \A o \in Outcomes : supply[o] = Held(o)
  PROVE  \A o \in Outcomes : supply'[o] = Held(o)'
  <1> SUFFICES ASSUME NEW o \in Outcomes PROVE supply'[o] = Held(o)'
    OBVIOUS
  <1> DEFINE w == [v \in Users |-> tokens[v][o]]
             z == [v \in Users |-> tokens'[v][o]]
  <1>1. \A v \in Users : w[v] \in Int /\ z[v] \in Int
    BY DEF TypeOK
  <1>2. /\ w[u] = tokens[u][o] /\ z[u] = x[o]
        /\ \A v \in Users : v # u => z[v] = w[v]
    BY DEF TypeOK
  <1>3. Held(o) = SumOver(w, Users) /\ Held(o)' = SumOver(z, Users)
    BY DEF Held
  <1> HIDE DEF w, z
  <1>4. SumOver(z, Users) = SumOver(w, Users) - w[u] + z[u]
    BY <1>1, <1>2, SumChange, SpotConstants
  <1>5. SumOver(w, Users) \in Int
    <2>1. \A v \in Users : w[v] \in Int
      BY <1>1
    <2> QED BY <2>1, SumInt, SpotConstants
  <1>6. supply[o] \in Nat /\ supply'[o] \in Nat /\ x[o] \in Nat /\ tokens[u][o] \in Nat
    BY DEF TypeOK
  <1>7. supply'[o] - supply[o] = x[o] - tokens[u][o] /\ supply[o] = Held(o)
    OBVIOUS
  <1> QED BY <1>2, <1>3, <1>4, <1>5, <1>6, <1>7

\* Fresh positions stay so: only their owner's instructions touch them, and
\* those need the account open.
LEMMA FreshStep ==
  ASSUME TypeOK, TypeOK', Fresh, [Next]_vars
  PROVE  Fresh'
  <1> USE DEF Fresh
  <1>1. CASE Tick \/ PublishBatch \/ UNCHANGED vars
    BY <1>1 DEF Tick, PublishBatch, vars, positions, history
  <1>2. CASE ActivateMarket \/ FreezeMarket \/ CloseMarket \/ \E hint \in Outcomes : Resolve(hint)
    BY <1>2 DEF ActivateMarket, FreezeMarket, CloseMarket, Sweepable, Resolve, positions, history
  <1>3. ASSUME NEW seed \in Seeds, NEW pair \in Schedules, NEW extra \in SurplusSeeds,
               InitMarket(seed, pair, extra)
        PROVE  Fresh'
    BY <1>3 DEF InitMarket, TypeOK, positions
  <1>4. ASSUME NEW u \in Users, OpenPosition(u) PROVE Fresh'
    BY <1>4 DEF OpenPosition, AccountExists, TypeOK, history
  <1>5. ASSUME NEW u \in Users, u \in opened, UNCHANGED <<opened, incarnation, state>>,
               NEW x, tokens' = [tokens EXCEPT ![u] = x]
        PROVE  Fresh'
    BY <1>5 DEF TypeOK
  <1>6. ASSUME NEW u \in Users, NEW o \in Outcomes, NEW amount \in Amounts,
               Buy(u, o, amount) \/ Sell(u, o, amount)
        PROVE  Fresh'
    BY <1>5, <1>6 DEF Buy, Sell, Issue, Retire
  <1>7. ASSUME NEW u \in Users, NEW amount \in Amounts,
               MintSet(u, amount) \/ RedeemSet(u, amount)
        PROVE  Fresh'
    BY <1>5, <1>7 DEF MintSet, RedeemSet, MoveSets, history
  <1>8. ASSUME NEW u \in Users, Redeem(u) PROVE Fresh'
    BY <1>5, <1>8 DEF Redeem, history
  <1> QED BY <1>1, <1>2, <1>3, <1>4, <1>6, <1>7, <1>8, EveryStep

\* A step keeps the supplies equal to what is held.
LEMMA OutstandingStep ==
  ASSUME TypeOK, TypeOK', Fresh, SupplyIsOutstanding, [Next]_vars
  PROVE  SupplyIsOutstanding'
  <1> SUFFICES ASSUME AccountExists', incarnation' = 1
               PROVE  \A o \in Outcomes : supply'[o] = Held(o)'
    BY DEF SupplyIsOutstanding
  <1>1. ASSUME AccountExists, UNCHANGED <<incarnation, supply, tokens>>
        PROVE  \A o \in Outcomes : supply'[o] = Held(o)'
    BY <1>1 DEF SupplyIsOutstanding, Held
  <1>2. ASSUME AccountExists, incarnation' = incarnation, NEW u \in Users,
               NEW x \in [Outcomes -> Nat], tokens' = [tokens EXCEPT ![u] = x],
               \A o \in Outcomes : supply'[o] - supply[o] = x[o] - tokens[u][o]
        PROVE  \A o \in Outcomes : supply'[o] = Held(o)'
    BY <1>2, ClaimsMove DEF SupplyIsOutstanding
  <1>3. CASE Tick \/ PublishBatch \/ UNCHANGED vars
    BY <1>1, <1>3 DEF Tick, PublishBatch, vars, positions, history, AccountExists
  <1>4. CASE ActivateMarket \/ FreezeMarket \/ \E hint \in Outcomes : Resolve(hint)
    BY <1>1, <1>4 DEF ActivateMarket, FreezeMarket, Resolve, positions, history, AccountExists
  <1>5. ~CloseMarket
    BY DEF CloseMarket, AccountExists
  <1>6. ASSUME NEW seed \in Seeds, NEW pair \in Schedules, NEW extra \in SurplusSeeds,
               InitMarket(seed, pair, extra)
        PROVE  \A o \in Outcomes : supply'[o] = Held(o)'
    <2>1. incarnation = 0 /\ supply' = Nothing /\ tokens' = tokens
      BY <1>6 DEF InitMarket, positions, TypeOK
    <2>2. \A u \in Users : tokens[u] = Nothing
      BY <2>1 DEF Fresh
    <2> SUFFICES ASSUME NEW o \in Outcomes PROVE supply'[o] = Held(o)'
      OBVIOUS
    <2> DEFINE w == [u \in Users |-> tokens'[u][o]]
    <2>3. \A u \in Users : w[u] = 0
      BY <2>1, <2>2 DEF Nothing
    <2>4. Held(o)' = SumOver(w, Users)
      BY DEF Held
    <2> HIDE DEF w
    <2>5. SumOver(w, Users) = 0
      BY <2>3, SumZero, SpotConstants
    <2> QED BY <2>1, <2>4, <2>5 DEF Nothing
  <1>7. ASSUME NEW u \in Users, OpenPosition(u)
        PROVE  \A o \in Outcomes : supply'[o] = Held(o)'
    <2>1. /\ AccountExists /\ incarnation' = incarnation /\ supply' = supply
          /\ tokens[u] = Nothing /\ tokens' = [tokens EXCEPT ![u] = Nothing]
      BY <1>7 DEF OpenPosition, Fresh, history
    <2> QED BY <1>1, <2>1 DEF TypeOK
  <1>8. ASSUME NEW u \in Users, NEW o \in Outcomes, NEW amount \in Amounts,
               Buy(u, o, amount)
        PROVE  \A p \in Outcomes : supply'[p] = Held(p)'
    <2>1. PICK d \in 1..Q_MAX :
            supply' = Plus(supply, o, d) /\ tokens' = [tokens EXCEPT ![u] = Plus(@, o, d)]
      BY <1>8 DEF Buy, Issue
    <2>2. d \in Nat /\ tokens[u] \in [Outcomes -> Nat] /\ supply \in [Outcomes -> Nat]
      BY LmsrConstants DEF TypeOK
    <2> DEFINE x == Plus(tokens[u], o, d)
    <2>3. /\ x \in [Outcomes -> Nat] /\ tokens' = [tokens EXCEPT ![u] = x]
          /\ \A p \in Outcomes : supply'[p] - supply[p] = x[p] - tokens[u][p]
      BY <2>1, <2>2 DEF Plus
    <2>4. AccountExists /\ incarnation' = incarnation
      BY <1>8 DEF Buy, AccountExists
    <2> QED BY <1>2, <2>3, <2>4
  <1>9. ASSUME NEW u \in Users, NEW o \in Outcomes, NEW amount \in Amounts,
               Sell(u, o, amount)
        PROVE  \A p \in Outcomes : supply'[p] = Held(p)'
    <2>1. /\ tokens[u][o] >= amount /\ amount \in Nat
          /\ supply' = Minus(supply, o, amount)
          /\ tokens' = [tokens EXCEPT ![u] = Minus(@, o, amount)]
      BY <1>9, SpotConstants DEF Sell, Retire
    <2>2. tokens[u] \in [Outcomes -> Nat] /\ supply \in [Outcomes -> Nat]
      BY DEF TypeOK
    <2> DEFINE x == Minus(tokens[u], o, amount)
    <2>3. /\ x \in [Outcomes -> Nat] /\ tokens' = [tokens EXCEPT ![u] = x]
          /\ \A p \in Outcomes : supply'[p] - supply[p] = x[p] - tokens[u][p]
      BY <2>1, <2>2 DEF Minus
    <2>4. AccountExists /\ incarnation' = incarnation
      BY <1>9 DEF Sell, AccountExists
    <2> QED BY <1>2, <2>3, <2>4
  <1>10. ASSUME NEW u \in Users, NEW d \in Int, MoveSets(u, d), state = "Trading",
                incarnation' = incarnation
         PROVE  \A p \in Outcomes : supply'[p] = Held(p)'
    <2>1. tokens[u] \in [Outcomes -> Nat] /\ supply \in [Outcomes -> Nat]
          /\ tokens'[u] \in [Outcomes -> Nat]
      BY DEF TypeOK
    <2> DEFINE x == Shift(tokens[u], d)
    <2>2. tokens' = [tokens EXCEPT ![u] = x] /\ supply' = Shift(supply, d)
      BY <1>10 DEF MoveSets
    <2>3. x \in [Outcomes -> Nat]
      BY <2>1, <2>2 DEF TypeOK
    <2>4. \A p \in Outcomes : supply'[p] - supply[p] = x[p] - tokens[u][p]
      BY <2>1, <2>2 DEF Shift
    <2> QED BY <1>2, <1>10, <2>2, <2>3, <2>4 DEF AccountExists
  <1>11. ASSUME NEW u \in Users, NEW amount \in Amounts,
                MintSet(u, amount) \/ RedeemSet(u, amount)
         PROVE  \A p \in Outcomes : supply'[p] = Held(p)'
    <2>1. amount \in Int /\ -amount \in Int
      BY SpotConstants
    <2> QED BY <1>10, <1>11, <2>1 DEF MintSet, RedeemSet, history
  <1>12. ASSUME NEW u \in Users, Redeem(u)
         PROVE  \A p \in Outcomes : supply'[p] = Held(p)'
    <2>1. tokens[u] \in [Outcomes -> Nat] /\ supply \in [Outcomes -> Nat]
      BY DEF TypeOK
    <2>2. /\ tokens' = [tokens EXCEPT ![u] = Nothing]
          /\ supply' = [o \in Outcomes |-> supply[o] - tokens[u][o]]
          /\ AccountExists /\ incarnation' = incarnation
      BY <1>12 DEF Redeem, Burn, history, AccountExists
    <2>3. /\ Nothing \in [Outcomes -> Nat]
          /\ \A p \in Outcomes : supply'[p] - supply[p] = Nothing[p] - tokens[u][p]
      BY <2>1, <2>2, NothingType DEF Nothing
    <2> QED BY <1>2, <2>2, <2>3
  <1> QED BY <1>3, <1>4, <1>5, <1>6, <1>7, <1>8, <1>9, <1>11, <1>12, EveryStep

\* Both hold in every reachable state.
LEMMA ClaimsInvariant == Spec => [](Fresh /\ SupplyIsOutstanding)
  <1>1. Init => Fresh /\ SupplyIsOutstanding
    BY DEF Init, Fresh, SupplyIsOutstanding, AccountExists, SupplyZero
  <1>2. LedgerInv /\ LedgerInv' /\ (Fresh /\ SupplyIsOutstanding) /\ [Next]_vars
          => (Fresh /\ SupplyIsOutstanding)'
    BY FreshStep, OutstandingStep DEF LedgerInv
  <1> QED BY <1>1, <1>2, LedgersInvariant, PTL DEF Spec

\* The recorded supplies are what the traders hold, however many there are.
THEOREM SupplyAlwaysOutstanding == Spec => []SupplyIsOutstanding
  <1>1. Fresh /\ SupplyIsOutstanding => SupplyIsOutstanding
    OBVIOUS
  <1> QED BY <1>1, ClaimsInvariant, PTL

\* Nobody's redemption can fail after resolution, in whatever order traders
\* come: a position is a part of the supplies, and the supplies are covered.
THEOREM RedeemersAreAlwaysPaid == Spec => []RedeemNeverFails
  <1>1. ASSUME LedgerInv, WorstCaseLoss, SupplyIsOutstanding
        PROVE  RedeemNeverFails
    <2> SUFFICES ASSUME state = "Resolved", incarnation = 1, NEW u \in opened
                 PROVE  Payable(u)
      BY DEF RedeemNeverFails
    <2>1. TypeOK /\ u \in Users /\ AccountExists
      BY <1>1 DEF LedgerInv, TypeOK, AccountExists
    <2>2. ASSUME NEW o \in Outcomes PROVE supply[o] >= tokens[u][o]
      <3> DEFINE w == [v \in Users |-> tokens[v][o]]
      <3>1. \A v \in Users : w[v] \in Nat
        BY <2>1 DEF TypeOK
      <3>2. w[u] = tokens[u][o] /\ supply[o] = SumOver(w, Users)
        BY <1>1, <2>1 DEF SupplyIsOutstanding, Held
      <3> HIDE DEF w
      <3>3. w[u] <= SumOver(w, Users) /\ SumOver(w, Users) \in Nat /\ w[u] \in Nat
        BY <2>1, <3>1, SumNat, SpotConstants
      <3> QED BY <3>2, <3>3
    <2> DEFINE o == WinIndex(outcome)
    <2>3. o \in Outcomes /\ outcome # "Void"
      BY <1>1 DEF LedgerInv, ProperlyResolved, WinIndex, Outcomes
    <2>4. Payout(u) = tokens[u][o]
      BY <2>3 DEF Payout
    <2>5. vault >= supply[o] + Cushion /\ Cushion >= 0 /\ usdt_collateral = vault
      BY <1>1, <2>1 DEF WorstCaseLoss, LedgerInv, SeedCovers, LedgersAgree
    <2>6. Cushion \in Int
      <3>1. CostQ[seed_q] \in Nat /\ seed_q \in Quantities /\ seed_vault \in Nat
        BY <2>1, LmsrConstants DEF TypeOK
      <3>2. cost(seed_q) \in Nat /\ MinOf(seed_q) \in Nat
        BY <3>1, CeilCovers, MinOfBelow DEF cost
      <3> QED BY <3>1, <3>2 DEF Cushion
    <2>7. supply[o] \in Nat /\ tokens[u][o] \in Nat /\ vault \in Nat
      BY <2>1, <2>3 DEF TypeOK
    <2>8. vault >= tokens[u][o]
      <3>1. supply[o] >= tokens[u][o]
        BY <2>2, <2>3
      <3> HIDE DEF o
      <3> QED BY <2>5, <2>6, <2>7, <3>1
    <2> QED BY <2>2, <2>4, <2>5, <2>8 DEF Payable
  <1>2. LedgerInv /\ WorstCaseLoss /\ (Fresh /\ SupplyIsOutstanding) => RedeemNeverFails
    BY <1>1
  <1> QED BY <1>2, LedgersInvariant, BoundedLoss, ClaimsInvariant, PTL

\* The proof resolve accepted was of the full-time score of the fixture, in a
\* batch already published, and the hint is its winner.
LEMMA AcceptedIsFullTime ==
  ASSUME LedgerInv, NEW hint \in Outcomes, Resolve(hint)
  PROVE  \E k \in DOMAIN match, a \in Terms, b \in Terms :
           /\ match[k] \in PublishedBatches /\ FullTime(match[k], a, b)
           /\ outcome' = Winner(a.value, b.value)
  <1>1. PICK proof \in Proofs : Pinned(proof) /\ validate_stat(proof, hint)
    BY DEF Resolve, AcceptedProofs
  <1>2. proof.a \in Terms /\ proof.b \in Terms /\ proof.day \in Days
    BY <1>1 DEF Proofs
  <1>3. PICK k \in DOMAIN match :
          /\ match[k] \in PublishedBatches /\ match[k].fixture = fixture_id
          /\ proof.a \in match[k].stats /\ proof.b \in match[k].stats
    BY <1>1, <1>2 DEF validate_stat, Included, Pinned, PublishedBatches
  <1>4. FullTime(match[k], proof.a, proof.b)
    BY <1>1, <1>3 DEF FullTime, Pinned
  <1>5. proof.a.value \in Int /\ proof.b.value \in Int /\ resolution_threshold \in Int
    BY <1>2, OracleConstants, SpotConstants
  <1>6. derive_predicate_for_outcome(hint, proof.a.value - proof.b.value)
    BY <1>1 DEF validate_stat, Combined, Pinned
  <1>7. outcome' = Winner(proof.a.value, proof.b.value)
    <2>1. outcome' = OutcomeName[hint] /\ (hint = 0 \/ hint = 1 \/ hint = 2)
      BY DEF Resolve, Outcomes
    <2> DEFINE diff == proof.a.value - proof.b.value
    <2>2. /\ hint = 0 => outcome' = "Team1" /\ diff > resolution_threshold
          /\ hint = 1 => outcome' = "Draw" /\ diff = resolution_threshold
          /\ hint = 2 => outcome' = "Team2" /\ diff < resolution_threshold
      BY <2>1, <1>6 DEF derive_predicate_for_outcome, OutcomeName, Outcomes
    <2>3. diff \in Int
      BY <1>5
    <2> QED BY <1>5, <2>1, <2>2, <2>3 DEF Winner
  <1> QED BY <1>2, <1>3, <1>4, <1>7

\* A step publishes batches or leaves the oracle alone; none is taken back.
LEMMA OracleStep ==
  ASSUME LedgerInv, [Next]_vars
  PROVE  match' = match /\ PublishedBatches \subseteq PublishedBatches'
  <1>1. match \in Seq(Batches) /\ published \in Nat
    BY OracleConstants DEF LedgerInv, TypeOK
  <1>2. DOMAIN match \subseteq Nat
    BY <1>1
  <1>3. CASE PublishBatch
    BY <1>1, <1>2, <1>3 DEF PublishBatch, PublishedBatches
  <1>4. (match' = match /\ published' = published) \/ PublishBatch
    BY EveryStep DEF Tick, ActivateMarket, FreezeMarket, Resolve, vars,
       InitMarket, CloseMarket, OpenPosition, Redeem, Buy, Sell, MintSet, RedeemSet,
       environment
  <1>5. CASE match' = match /\ published' = published
    BY <1>5 DEF PublishedBatches
  <1> QED BY <1>3, <1>4, <1>5

\* A market resolves to the winner by its fixture's full-time score and keeps
\* that outcome, whatever batches TxLINE publishes and in which order, whatever
\* the keeper sends as proof and whatever the threshold is.
THEOREM OutcomeAlwaysProven == Spec => []OutcomeProven
  <1>1. Init => OutcomeProven
    BY DEF Init, OutcomeProven
  <1>2. ASSUME LedgerInv, OutcomeProven, [Next]_vars PROVE OutcomeProven'
    <2> SUFFICES ASSUME state' = "Resolved"
                 PROVE  /\ \E batch \in PublishedBatches' : \E a, b \in Terms : FullTime(batch, a, b)
                        /\ \A k \in DOMAIN match : \A a, b \in Terms :
                             FullTime(match[k], a, b) => outcome' = Winner(a.value, b.value)
      BY <1>2, OracleStep DEF OutcomeProven
    <2>1. CASE state = "Resolved"
      <3>1. outcome' = outcome
        BY <1>2, <2>1, SettledSteps DEF Redeem
      <3> QED BY <1>2, <2>1, <3>1, OracleStep DEF OutcomeProven
    <2>2. CASE state # "Resolved"
      <3>1. PICK hint \in Outcomes : Resolve(hint)
        BY <1>2, <2>2, SettledSteps
      <3>2. PICK k \in DOMAIN match, a \in Terms, b \in Terms :
              /\ match[k] \in PublishedBatches /\ FullTime(match[k], a, b)
              /\ outcome' = Winner(a.value, b.value)
        BY <1>2, <3>1, AcceptedIsFullTime
      <3>3. ASSUME NEW j \in DOMAIN match, NEW c \in Terms, NEW d \in Terms,
                   FullTime(match[j], c, d)
            PROVE  outcome' = Winner(c.value, d.value)
        <4>1. match \in Matches
          BY <1>2 DEF LedgerInv, TypeOK
        <4>2. c = a /\ d = b
          BY <3>2, <3>3, <4>1, FinalScoreIsFinal
        <4> QED BY <3>2, <4>2
      <3> QED BY <1>2, <3>2, <3>3, OracleStep
    <2> QED BY <2>1, <2>2
  <1> QED BY <1>1, <1>2, LedgersInvariant, PTL DEF Spec

-----------------------------------------------------------------------------
(* The fee engine over a whole burst. *)

\* Distances between prices are naturals and obey the triangle inequality.
LEMMA Triangle ==
  ASSUME NEW x \in Nat, NEW y \in Nat, NEW z \in Nat
  PROVE  /\ Distance(x, y) \in Nat /\ Distance(y, x) = Distance(x, y)
         /\ Distance(x, z) <= Distance(x, y) + Distance(y, z)
         /\ Distance(x, x) = 0
  BY DEF Distance

\* A trade leaves the accumulator at or above the burst's whole move.
LEMMA ArmFeeRemembers ==
  ASSUME TypeOK, SurchargeRemembersBurst, now >= last_ts, NEW o \in Outcomes,
         q' \in Quantities, ArmFee(o)
  PROVE  SurchargeRemembersBurst'
  <1> DEFINE old == last_price_bps
             new == PriceBps[q'][o]
             first == burst_price
             step == SCALE * Distance(old, new)
  <1>1. /\ old \in 0..BPS_DENOM /\ new \in 0..BPS_DENOM /\ first \in 0..BPS_DENOM
        /\ SCALE \in Nat \ {0} /\ max_v_acc \in Nat
        /\ old \in Nat /\ new \in Nat /\ first \in Nat
    BY LmsrConstants, FeeConfig DEF TypeOK
  <1>2. /\ v_ref_now \in 0..max_v_acc /\ v_acc \in 0..max_v_acc
        /\ now - last_ts < filter_period => v_ref_now = v_acc
    <2>1. /\ v_ref_now \in 0..max_v_acc /\ v_acc \in 0..max_v_acc
          /\ now \in Nat /\ last_ts \in Nat
      BY FeeNow DEF TypeOK
    <2>2. ASSUME now - last_ts < filter_period PROVE v_ref_now = v_acc
      BY <2>1, <2>2, FeeConfig DEF v_ref_now, decay_v_ref
    <2> QED BY <2>1, <2>2
  <1>3. /\ last_price_bps' = new
        /\ v_acc' = IF v_ref_now + step <= max_v_acc THEN v_ref_now + step ELSE max_v_acc
        /\ burst_price' = IF now - last_ts < filter_period THEN first ELSE old
    BY <1>1, <1>2, NextAccRange DEF ArmFee
  <1>4. step \in Nat /\ SCALE * Distance(old, first) \in Nat
        /\ SCALE * Distance(new, first) \in Nat
    BY <1>1, Triangle, MulNat
  <1>5. SCALE * Distance(new, first) <= step + SCALE * Distance(old, first)
    <2>1. /\ Distance(old, new) \in Nat /\ Distance(old, first) \in Nat
          /\ Distance(new, first) \in Nat
          /\ Distance(new, first) <= Distance(old, new) + Distance(old, first)
      BY <1>1, Triangle
    <2> HIDE DEF old, new, first
    <2> QED BY <1>1, <2>1
  <1> HIDE DEF old, new, first, step
  <1>6. CASE now - last_ts < filter_period
    <2>1. v_acc >= IF SCALE * Distance(old, first) <= max_v_acc
                   THEN SCALE * Distance(old, first) ELSE max_v_acc
      BY DEF SurchargeRemembersBurst, old, first
    <2>2. v_acc' >= IF SCALE * Distance(new, first) <= max_v_acc
                    THEN SCALE * Distance(new, first) ELSE max_v_acc
      BY <1>1, <1>2, <1>3, <1>4, <1>5, <1>6, <2>1
    <2> QED BY <1>3, <1>6, <2>2 DEF SurchargeRemembersBurst
  <1>7. CASE ~(now - last_ts < filter_period)
    <2>1. SCALE * Distance(new, old) = step
      BY <1>1, Triangle DEF step, old, new
    <2>2. v_acc' >= IF SCALE * Distance(new, old) <= max_v_acc
                    THEN SCALE * Distance(new, old) ELSE max_v_acc
      BY <1>1, <1>2, <1>3, <1>4, <2>1
    <2> QED BY <1>3, <1>7, <2>2 DEF SurchargeRemembersBurst
  <1> QED BY <1>6, <1>7

\* An opening or an empty market has made no move yet.
LEMMA NoMoveYet ==
  ASSUME TypeOK', burst_price' = last_price_bps'
  PROVE  SurchargeRemembersBurst'
  <1>1. last_price_bps' \in Nat /\ v_acc' \in Nat
    BY LmsrConstants, FeeConfig DEF TypeOK
  <1>2. Distance(last_price_bps', burst_price') = 0
    BY <1>1, Triangle
  <1>3. SCALE * 0 = 0 /\ max_v_acc \in Nat
    BY FeeConfig
  <1> QED BY <1>1, <1>2, <1>3 DEF SurchargeRemembersBurst

\* Slicing a price move into a burst does not shed the surcharge.
THEOREM BurstsAreRemembered == Spec => []SurchargeRemembersBurst
  <1>1. Init => SurchargeRemembersBurst
    <2> SUFFICES ASSUME Init PROVE SurchargeRemembersBurst
      OBVIOUS
    <2>1. last_price_bps = 0 /\ burst_price = 0 /\ v_acc = 0 /\ Distance(0, 0) = 0
      BY Triangle DEF Init
    <2>2. SCALE * 0 = 0 /\ max_v_acc \in Nat
      BY FeeConfig
    <2> QED BY <2>1, <2>2 DEF SurchargeRemembersBurst
  <1>2. LedgerInv /\ LedgerInv' /\ SurchargeRemembersBurst /\ [Next]_vars
          => SurchargeRemembersBurst'
    <2> SUFFICES ASSUME LedgerInv, LedgerInv', SurchargeRemembersBurst, [Next]_vars
                 PROVE  SurchargeRemembersBurst'
      OBVIOUS
    <2> DEFINE Still == UNCHANGED <<last_price_bps, v_acc, burst_price>>
    <2>1. ASSUME Still PROVE SurchargeRemembersBurst'
      BY <2>1 DEF SurchargeRemembersBurst, Distance
    <2>2. CASE Tick \/ PublishBatch \/ ActivateMarket \/ FreezeMarket \/ UNCHANGED vars
      BY <2>1, <2>2 DEF Tick, PublishBatch, ActivateMarket, FreezeMarket, vars,
                        feeState, history
    <2>3. ASSUME NEW hint \in Outcomes, Resolve(hint) PROVE Still
      BY <2>3 DEF Resolve, feeState, history
    <2>4. ASSUME NEW seed \in Seeds, NEW pair \in Schedules, NEW extra \in SurplusSeeds,
                 InitMarket(seed, pair, extra)
          PROVE  SurchargeRemembersBurst'
      BY <2>4, NoMoveYet DEF InitMarket, LedgerInv
    <2>5. CASE CloseMarket
      BY <2>5, NoMoveYet DEF CloseMarket, LedgerInv
    <2>6. ASSUME NEW u \in Users, OpenPosition(u) \/ Redeem(u) PROVE Still
      BY <2>6 DEF OpenPosition, Redeem, feeState, history
    <2>7. ASSUME NEW u \in Users, NEW o \in Outcomes, NEW amount \in Amounts,
                 Buy(u, o, amount) \/ Sell(u, o, amount)
          PROVE  SurchargeRemembersBurst'
      <3>1. now >= last_ts /\ ArmFee(o) /\ TypeOK /\ q' \in Quantities
        BY <2>7 DEF Buy, Sell, LedgerInv, TypeOK
      <3> QED BY <3>1, ArmFeeRemembers
    <2>8. ASSUME NEW u \in Users, NEW amount \in Amounts,
                 MintSet(u, amount) \/ RedeemSet(u, amount)
          PROVE  Still
      BY <2>8 DEF MintSet, RedeemSet, feeState, history
    <2> HIDE DEF Still
    <2> QED BY <2>1, <2>2, <2>3, <2>4, <2>5, <2>6, <2>7, <2>8, EveryStep
  <1> QED BY <1>1, <1>2, LedgersInvariant, PTL DEF Spec

-----------------------------------------------------------------------------
(* Refinement. *)

\* An account appears by init_market and disappears by close_market alone.
LEMMA AccountSteps ==
  ASSUME TypeOK, [Next]_vars
  PROVE  /\ ~AccountExists =>
              \/ UNCHANGED <<state, supply, vault>>
              \/ \E seed \in Seeds, pair \in Schedules, extra \in SurplusSeeds :
                   InitMarket(seed, pair, extra)
         /\ AccountExists /\ ~AccountExists' => CloseMarket
  <1>1. ASSUME Tick \/ PublishBatch \/ UNCHANGED vars
        PROVE  UNCHANGED <<state, supply, vault>>
    BY <1>1 DEF Tick, PublishBatch, vars
  <1>2. ASSUME \/ ActivateMarket \/ FreezeMarket
               \/ \E hint \in Outcomes : Resolve(hint)
               \/ \E u \in Users : OpenPosition(u) \/ Redeem(u)
               \/ \E u \in Users, o \in Outcomes, amount \in Amounts :
                    Buy(u, o, amount) \/ Sell(u, o, amount)
               \/ \E u \in Users, amount \in Amounts :
                    MintSet(u, amount) \/ RedeemSet(u, amount)
        PROVE  AccountExists /\ AccountExists'
    <2>1. CASE ActivateMarket BY <2>1 DEF ActivateMarket, AccountExists
    <2>2. CASE FreezeMarket BY <2>2 DEF FreezeMarket, AccountExists
    <2>3. CASE \E hint \in Outcomes : Resolve(hint) BY <2>3 DEF Resolve, AccountExists
    <2>4. CASE \E u \in Users : OpenPosition(u) \/ Redeem(u)
      BY <2>4 DEF OpenPosition, Redeem, AccountExists
    <2>5. CASE \E u \in Users, o \in Outcomes, amount \in Amounts :
                 Buy(u, o, amount) \/ Sell(u, o, amount)
      BY <2>5 DEF Buy, Sell, AccountExists
    <2>6. CASE \E u \in Users, amount \in Amounts : MintSet(u, amount) \/ RedeemSet(u, amount)
      BY <2>6 DEF MintSet, RedeemSet, AccountExists
    <2> QED BY <1>2, <2>1, <2>2, <2>3, <2>4, <2>5, <2>6
  <1>3. ASSUME NEW seed \in Seeds, NEW pair \in Schedules, NEW extra \in SurplusSeeds,
               InitMarket(seed, pair, extra)
        PROVE  ~AccountExists
    BY <1>3 DEF InitMarket
  <1>4. ASSUME CloseMarket PROVE AccountExists
    BY <1>4 DEF CloseMarket, Sweepable, AccountExists
  <1>5. UNCHANGED <<state, supply, vault>> => (AccountExists <=> AccountExists')
    BY DEF AccountExists
  <1> QED BY <1>1, <1>2, <1>3, <1>4, <1>5, EveryStep

\* A settled market never reopens for trading without being closed first.
LEMMA SettledNeverReopens ==
  ASSUME [Next]_vars
  PROVE  ~(state = "Resolved" /\ Unresolved')
  <1> SUFFICES ASSUME state = "Resolved" PROVE ~Unresolved'
    OBVIOUS
  <1>1. ASSUME \/ Tick \/ PublishBatch \/ UNCHANGED vars
               \/ \E u \in Users : OpenPosition(u) \/ Redeem(u)
        PROVE  state' = state
    BY <1>1 DEF Tick, PublishBatch, vars, OpenPosition, Redeem
  <1>2. ~(ActivateMarket \/ FreezeMarket \/ \E hint \in Outcomes : Resolve(hint))
    BY DEF ActivateMarket, FreezeMarket, Resolve
  <1>3. CloseMarket => state' = "Closed"
    BY DEF CloseMarket
  <1>4. \A seed \in Seeds, pair \in Schedules, extra \in SurplusSeeds :
          ~InitMarket(seed, pair, extra)
    BY DEF InitMarket, AccountExists
  <1>5. \A u \in Users, amount \in Amounts :
          /\ ~MintSet(u, amount) /\ ~RedeemSet(u, amount)
          /\ \A o \in Outcomes : ~Buy(u, o, amount) /\ ~Sell(u, o, amount)
    BY DEF MintSet, RedeemSet, Buy, Sell
  <1> QED BY <1>1, <1>2, <1>3, <1>4, <1>5, EveryStep DEF Unresolved

\* A step of the market is a step of the escrow, or none of its business.
LEMMA EscrowStep ==
  ASSUME IInv, IInv', [Next]_vars,
         (LedgerInv /\ Unresolved => \A o \in Outcomes : vault >= supply[o] + Cushion)'
  PROVE  [Escrow!Next]_(Escrow!escrowVars)
  <1> USE DEF escrowPhase, escrowWinner
  <1>1. /\ TypeOK /\ TypeOK' /\ supply \in [Outcomes -> Nat] /\ vault \in Nat
        /\ supply' \in [Outcomes -> Nat] /\ vault' \in Nat
    BY DEF IInv, LedgerInv, TypeOK
  <1>2. /\ AccountExists <=> Unresolved \/ state = "Resolved"
        /\ AccountExists' <=> Unresolved' \/ state' = "Resolved"
        /\ ~(Unresolved /\ state = "Resolved") /\ ~(Unresolved' /\ state' = "Resolved")
    BY <1>1 DEF AccountExists, Unresolved, TypeOK, MarketState
  <1>3. AccountExists => Cushion \in Int /\ Cushion >= 0
    <2>1. CostQ[seed_q] \in Nat /\ seed_q \in Quantities /\ seed_vault \in Nat
      BY LmsrConstants DEF IInv, LedgerInv, TypeOK
    <2>2. cost(seed_q) \in Nat /\ MinOf(seed_q) \in Nat
      BY <2>1, CeilCovers, MinOfBelow DEF cost
    <2> QED BY <2>1, <2>2 DEF IInv, LedgerInv, SeedCovers, Cushion
  <1>4. AccountExists' => Cushion' \in Int /\ Cushion' >= 0
    <2>1. CostQ[seed_q'] \in Nat /\ seed_q' \in Quantities /\ seed_vault' \in Nat
      BY LmsrConstants DEF IInv, LedgerInv, TypeOK
    <2>2. cost(seed_q') \in Nat /\ MinOf(seed_q') \in Nat
      BY <2>1, CeilCovers, MinOfBelow DEF cost
    <2> QED BY <2>1, <2>2 DEF IInv, LedgerInv, SeedCovers, Cushion
  <1>5. CASE Unresolved /\ Unresolved'
    <2>1. \A o \in Outcomes : vault' >= supply'[o]
      BY <1>1, <1>2, <1>4, <1>5 DEF IInv
    <2> QED BY <1>1, <1>2, <1>5, <2>1 DEF Escrow!Next, Escrow!Trade
  <1>6. CASE Unresolved /\ state' = "Resolved"
    <2>1. PICK hint \in Outcomes : Resolve(hint)
      BY <1>2, <1>6, SettledSteps
    <2>2. vault' = vault /\ supply' = supply
      BY <2>1 DEF Resolve
    <2>3. WinIndex(outcome') \in Outcomes
      BY DEF WinIndex, Outcomes
    <2>4. vault >= supply[WinIndex(outcome')]
      BY <1>1, <1>2, <1>3, <1>6, <2>3 DEF IInv, WorstCaseLoss
    <2> QED BY <1>2, <1>6, <2>2, <2>3, <2>4 DEF Escrow!Next, Escrow!Settle
  <1>7. CASE state = "Resolved" /\ state' = "Resolved"
    <2>1. CASE UNCHANGED <<outcome, supply, vault, seedHistory>>
      BY <1>7, <2>1 DEF Unresolved, Escrow!escrowVars
    <2>2. ASSUME NEW u \in Users, Redeem(u)
          PROVE  Escrow!Next
      <3> DEFINE w == WinIndex(outcome)
      <3>1. w \in Outcomes /\ tokens \in [Users -> [Outcomes -> Nat]]
        BY <1>1 DEF WinIndex, Outcomes, TypeOK
      <3>2. /\ outcome' = outcome /\ vault' = vault - Payout(u)
            /\ supply' = [o \in Outcomes |-> supply[o] - tokens[u][o]]
        BY <2>2 DEF Redeem, Burn, Withdraw
      <3>3. Payout(u) = tokens[u][w] /\ tokens[u][w] \in Nat
        BY <2>2, RedeemStep DEF IInv
      <3>4. \A o \in Outcomes : supply'[o] <= supply[o]
        BY <1>1, <3>1, <3>2
      <3>5. vault' = vault - (supply[w] - supply'[w])
        BY <1>1, <3>1, <3>2, <3>3
      <3>6. vault' >= supply'[w]
        BY <1>1, <1>2, <1>4, <1>7, <3>1, <3>2 DEF IInv, WorstCaseLoss
      <3> QED BY <1>1, <1>2, <1>7, <3>1, <3>2, <3>4, <3>5, <3>6 DEF Escrow!Next, Escrow!Pay
    <2> QED BY <1>7, <2>1, <2>2, SettledSteps
  <1>8. CASE AccountExists /\ ~AccountExists'
    <2>1. CloseMarket
      BY <1>1, <1>8, AccountSteps
    <2> QED BY <1>2, <1>8, <2>1 DEF CloseMarket, Sweepable, Nothing, Escrow!Next, Escrow!Sweep,
                                    Escrow!NothingOwed, Escrow!NoWinner, Unresolved
  <1>9. CASE ~AccountExists
    <2>1. CASE UNCHANGED <<state, supply, vault>>
      BY <1>2, <1>9, <2>1 DEF Escrow!escrowVars, Unresolved
    <2>2. ASSUME NEW seed \in Seeds, NEW pair \in Schedules, NEW extra \in SurplusSeeds,
                 InitMarket(seed, pair, extra)
          PROVE  Escrow!Next
      <3>1. vault' \in Nat \ {0} /\ supply' = Nothing /\ state' = "Open"
        BY <1>1, <2>2 DEF InitMarket
      <3> QED BY <1>2, <1>9, <3>1 DEF Nothing, Unresolved, Escrow!Next, Escrow!Open,
                                      Escrow!NothingOwed, Escrow!NoWinner
    <2> QED BY <1>1, <1>9, <2>1, <2>2, AccountSteps
  <1>10. ~(state = "Resolved" /\ Unresolved')
    BY SettledNeverReopens
  <1> QED BY <1>2, <1>5, <1>6, <1>7, <1>8, <1>9, <1>10

\* The spot market implements the escrow.
THEOREM ImplementsEscrow == Spec => EscrowSpec
  <1>1. Init => Escrow!Init
    BY DEF Init, Escrow!Init, escrowPhase, escrowWinner, Unresolved, Nothing,
           Escrow!NothingOwed, Escrow!NoWinner
  <1>2. IInv /\ IInv' /\ [Next]_vars
          /\ (LedgerInv /\ Unresolved =>
                \A o \in Outcomes : vault >= supply[o] + Cushion)'
        => [Escrow!Next]_(Escrow!escrowVars)
    BY EscrowStep
  <1>3. LedgerInv /\ WorstCaseLoss => IInv
    BY DEF IInv
  <1> QED BY <1>1, <1>2, <1>3, LedgersBoundLoss, LedgersInvariant, BoundedLoss, PTL
          DEF Spec, EscrowSpec, Escrow!Spec

-----------------------------------------------------------------------------
(* The life cycle the leverage layer relies on. *)

\* Every step of the spot market is one of its life cycle, or leaves it alone.
LEMMA LifecycleStep ==
  ASSUME [Next]_vars
  PROVE  [Life!LifeNext]_(Life!lifeVars)
<1> USE DEF Life!lifeVars, environment, schedule
<1>1. ASSUME Tick PROVE Life!LifeNext
  BY <1>1 DEF Tick, Life!LifeNext, Life!Tick
<1>2. ASSUME NEW seed \in Seeds, NEW pair \in Schedules, NEW extra \in SurplusSeeds,
             InitMarket(seed, pair, extra)
      PROVE  Life!LifeNext
  <2>1. Life!InitMarket(pair)
    BY <1>2 DEF InitMarket, Life!InitMarket, AccountExists, Life!AccountExists
  <2> QED BY <2>1 DEF Life!LifeNext
<1>3. ASSUME ActivateMarket PROVE Life!LifeNext
  BY <1>3 DEF ActivateMarket, Life!LifeNext, Life!ActivateMarket, Life!Advance
<1>4. ASSUME FreezeMarket PROVE Life!LifeNext
  BY <1>4 DEF FreezeMarket, Life!LifeNext, Life!FreezeMarket, Life!Advance
<1>5. ASSUME CloseMarket PROVE Life!LifeNext
  BY <1>5 DEF CloseMarket, Sweepable, Life!LifeNext, Life!CloseMarket
<1>6. ASSUME NEW hint \in Outcomes, Resolve(hint) PROVE Life!LifeNext
  <2>1. Life!Resolve(hint)
    BY <1>6 DEF Resolve, Life!Resolve, OutcomeName, Life!OutcomeName
  <2> QED BY <2>1 DEF Life!LifeNext
<1>7. ASSUME PublishBatch \/ UNCHANGED vars PROVE UNCHANGED Life!lifeVars
  BY <1>7 DEF PublishBatch, vars
<1>8. ASSUME Trading PROVE UNCHANGED Life!lifeVars
  BY <1>8 DEF Trading, OpenPosition, Redeem, MintSet, RedeemSet, Buy, Sell
<1> QED BY <1>1, <1>2, <1>3, <1>4, <1>5, <1>6, <1>7, <1>8 DEF Next, Lifecycle

\* Every run of the spot market is a run of the life cycle LeveragePool is
\* built on: a market exists, trades, locks, resolves and closes in that
\* order and at the times its schedule and grace allow, whatever is traded.
THEOREM ImplementsLifecycle == Spec => LifecycleSpec
<1>1. Init => Life!LifeInit
  BY DEF Init, Life!LifeInit
<1>2. [Next]_vars => [Life!LifeNext]_(Life!lifeVars)
  BY LifecycleStep
<1> QED BY <1>1, <1>2, PTL DEF Spec, LifecycleSpec, Life!LifeSpec
=============================================================================
