------------------------- MODULE LeveragePoolProofs -------------------------
(***************************************************************************)
(* What holds of LeveragePool for any liquidity providers, traders,        *)
(* amounts, marks, parameters and schedules: the types, the bound on what  *)
(* a settlement pays, that time always costs a holder something, the exit  *)
(* delay, and that an LP coming or going dilutes nobody; and that what the *)
(* web client's leverage panel says is what the program does: the guards   *)
(* it mirrors, the profit it previews, a position's equity and fee-death.  *)
(***************************************************************************)
EXTENDS LevQuotes, SumTheorems, TLAPS

-----------------------------------------------------------------------------
(* The rounding directions of funding.rs. *)

\* Rounding up keeps a positive amount positive (idx_delta's ceil).
LEMMA CeilDiv ==
  ASSUME NEW a \in Nat, NEW d \in Nat \ {0}
  PROVE  ceil_div(a, d) \in Nat /\ (a > 0 => ceil_div(a, d) > 0)
<1> DEFINE b == a + d - 1
<1>1. b \in Nat
  OBVIOUS
<1>2. b \div d \in Nat
  BY <1>1, DivBounds
<1>3. ASSUME a > 0 PROVE b \div d >= 1
  <2>1. 1 * d <= b
    BY <1>3
  <2> QED BY <1>1, <2>1, DivLargest
<1> QED BY <1>2, <1>3 DEF ceil_div

\* A segment never lowers the index, and a real one at an interior mark
\* raises it.
LEMMA IndexGrows ==
  ASSUME NEW fee \in Nat, NEW p \in 0..(BPS_DENOM - 1), NEW elapsed \in Int,
         NEW left \in Int, NEW mult \in Nat
  PROVE  /\ idx_delta(fee, p, elapsed, left, mult) \in Nat
         /\ fee > 0 /\ p > 0 /\ elapsed > 0 => idx_delta(fee, p, elapsed, left, mult) > 0
<1> DEFINE t_rem == IF left >= MIN_T_REMAINING_SECS THEN left ELSE MIN_T_REMAINING_SECS
           num == fee * p * (BPS_DENOM - p) * INDEX_SCALE * elapsed
           den == BPS_DENOM * BPS_DENOM * t_rem
           delta == ceil_div(num, den)
<1>1. BPS_DENOM \in Nat \ {0} /\ t_rem \in Nat \ {0} /\ BPS_DENOM - p \in Nat \ {0}
      /\ INDEX_SCALE \in Nat \ {0} /\ p \in Nat
  BY FundingConstants
<1>2. den \in Nat \ {0}
  <2> HIDE DEF t_rem
  <2>1. BPS_DENOM * BPS_DENOM \in Nat \ {0}
    BY <1>1, MulPos
  <2> QED BY <1>1, <2>1, MulPos
<1>3. ASSUME elapsed > 0
      PROVE  num \in Nat /\ (fee > 0 /\ p > 0 => num > 0)
  <2>1. fee * p \in Nat /\ (fee > 0 /\ p > 0 => fee * p > 0)
    BY <1>1, MulNat, MulPos
  <2>2. fee * p * (BPS_DENOM - p) \in Nat
        /\ (fee * p > 0 => fee * p * (BPS_DENOM - p) > 0)
    BY <1>1, <2>1, MulNat, MulPos
  <2>3. fee * p * (BPS_DENOM - p) * INDEX_SCALE \in Nat
        /\ (fee * p * (BPS_DENOM - p) > 0 => fee * p * (BPS_DENOM - p) * INDEX_SCALE > 0)
    BY <1>1, <2>2, MulNat, MulPos
  <2>4. elapsed \in Nat \ {0}
    BY <1>3
  <2>5. num \in Nat /\ (fee * p * (BPS_DENOM - p) * INDEX_SCALE > 0 => num > 0)
    BY <2>3, <2>4, MulNat, MulPos
  <2> QED BY <2>1, <2>2, <2>3, <2>5
<1> HIDE DEF t_rem, num, den
<1>4. ASSUME elapsed > 0
      PROVE  delta \in Nat /\ (fee > 0 /\ p > 0 => delta > 0)
  BY <1>2, <1>3, <1>4, CeilDiv
<1> HIDE DEF delta
<1>5. ASSUME elapsed > 0
      PROVE  LET amplified == ceil_div(delta * mult, BPS_DENOM)
             IN  amplified \in Nat /\ (delta > 0 /\ mult > BPS_DENOM => amplified > 0)
  <2>1. delta * mult \in Nat /\ (delta > 0 /\ mult > 0 => delta * mult > 0)
    BY <1>4, <1>5, MulNat, MulPos
  <2> QED BY <1>1, <2>1, CeilDiv
<1>6. idx_delta(fee, p, elapsed, left, mult) =
        IF elapsed <= 0 THEN 0
        ELSE IF mult > BPS_DENOM THEN ceil_div(delta * mult, BPS_DENOM) ELSE delta
  BY DEF idx_delta, delta, num, den, t_rem
<1> QED BY <1>4, <1>5, <1>6

\* What a new position writes is well typed.
LEMMA Sizes ==
  ASSUME NEW c \in Nat, NEW l \in Nat, NEW entry \in Postable
  PROVE  /\ c * l \in Nat
         /\ units_for(c, l, entry) \in Nat
         /\ max_gain(units_for(c, l, entry), entry) \in Nat
<1>1. BPS_DENOM \in Nat /\ entry \in Nat \ {0} /\ BPS_DENOM - entry \in Nat
  BY FundingConstants DEF Postable
<1>2. c * l \in Nat
  BY MulNat
<1>3. c * l * BPS_DENOM \in Nat
  BY <1>1, <1>2, MulNat
<1>4. units_for(c, l, entry) \in Nat
  BY <1>1, <1>3, DivBounds DEF units_for
<1>5. units_for(c, l, entry) * (BPS_DENOM - entry) \in Nat
  BY <1>1, <1>4, MulNat
<1> QED BY <1>1, <1>2, <1>4, <1>5, DivBounds, FundingConstants DEF max_gain

\* A settlement pays between nothing and the collateral plus the liability,
\* at every price it can happen at.
LEMMA PayoutBounds ==
  ASSUME NEW p \in LevPosition, NEW price \in Settleable, NEW owed \in Nat
  PROVE  /\ Liability(p) \in Nat
         /\ settle_payout(p.collateral, pnl(p.units, p.entry_mark_bps, price), owed)
              \in 0..(p.collateral + Liability(p))
<1>1. /\ p.collateral \in Nat /\ p.units \in Nat /\ p.entry_mark_bps \in Nat
      /\ BPS_DENOM - p.entry_mark_bps \in Nat
      /\ BPS_DENOM \in Nat \ {0} /\ price \in Nat
      /\ price - p.entry_mark_bps <= BPS_DENOM - p.entry_mark_bps
  BY FundingConstants DEF LevPosition, Postable, Settleable
<1> DEFINE gap == BPS_DENOM - p.entry_mark_bps
           move == price - p.entry_mark_bps
<1>2. gap \in Nat /\ move \in Int /\ move <= gap
  BY <1>1
<1> HIDE DEF gap, move
<1>3. p.units * move \in Int /\ p.units * gap \in Nat /\ p.units * move <= p.units * gap
  BY <1>1, <1>2, IntMulMono, MulNat
<1>4. (p.units * move) \div BPS_DENOM <= (p.units * gap) \div BPS_DENOM
      /\ (p.units * move) \div BPS_DENOM \in Int
  BY <1>1, <1>3, DivMono
<1>5. (p.units * gap) \div BPS_DENOM \in Nat
  BY <1>1, <1>3, DivBounds
<1>6. Liability(p) = (p.units * gap) \div BPS_DENOM
      /\ pnl(p.units, p.entry_mark_bps, price) = (p.units * move) \div BPS_DENOM
  BY DEF Liability, max_gain, pnl, gap, move
<1> QED BY <1>1, <1>4, <1>5, <1>6 DEF settle_payout

\* Shares and their value are natural numbers.
LEMMA ShareTypes ==
  ASSUME NEW a \in Nat, NEW t \in Nat, NEW v \in Nat
  PROVE  /\ shares_for_deposit(a, t, v) \in Nat
         /\ t > 0 => value_for_shares(a, t, v) \in Nat
<1>1. a * t \in Nat /\ a * v \in Nat
  BY MulNat
<1> QED BY <1>1, DivBounds DEF shares_for_deposit, value_for_shares

-----------------------------------------------------------------------------
(* The inductive invariant. *)

\* A mark in force is one an instruction may trade at; the index is charged
\* up to the latest mark; no position was opened at a later index; and a
\* pending request unlocks the delay after the latest one.
MarksPosted == mark_ts > 0 => mark_bps \in [Outcomes -> Postable]
ChargedToMark == last_funding_ts = mark_ts
SnapsBehind ==
  \A t \in Live : pos[t].funding_index_snap <= cum_funding_index[pos[t].outcome_idx]
UnlockTracksRequest ==
  \A u \in LPs : pending_shares[u] > 0 =>
    unlock_ts[u] = requested_at[u] + LP_WITHDRAW_DELAY_SECS

IInv == TypeOK /\ MarksPosted /\ ChargedToMark /\ SnapsBehind /\ UnlockTracksRequest

\* The part of the invariant about positions only looks at them and the index.
LEMMA LivePositions ==
  ASSUME TypeOK, NEW t \in Live
  PROVE  t \in Traders /\ pos[t] \in LevPosition /\ pos[t].outcome_idx \in Outcomes
BY DEF TypeOK, Live, LevPosition

\* The funding a position owes is never negative: indices only grow.
LEMMA FundingOwedType ==
  ASSUME IInv, NEW t \in Live
  PROVE  FundingOwed(pos[t]) \in Nat
<1> DEFINE p == pos[t]
           gone == cum_funding_index[p.outcome_idx] - p.funding_index_snap
<1>1. p \in LevPosition /\ p.outcome_idx \in Outcomes
  BY LivePositions DEF IInv
<1>2. p.notional \in Nat /\ gone \in Nat
  BY <1>1 DEF IInv, TypeOK, SnapsBehind, LevPosition
<1>3. p.notional * gone \in Nat
  BY <1>2, MulNat
<1> QED BY <1>3, DivBounds, FundingConstants DEF FundingOwed, funding_accrued

\* A position settles at a mark or at the price of a known result.
LEMMA SettlePriceType ==
  ASSUME TypeOK, NEW t \in Live
  PROVE  SettlePrice(pos[t]) \in Settleable
<1>1. mark_bps[pos[t].outcome_idx] \in 0..(BPS_DENOM - 1)
  BY LivePositions DEF TypeOK
<1> QED BY <1>1, FundingConstants DEF SettlePrice, Settleable

\* A settlement pays a natural number.
LEMMA PayoutType ==
  ASSUME IInv, NEW t \in Live
  PROVE  SettlementPayout(pos[t]) \in Nat /\ Liability(pos[t]) \in Nat
<1>1. FundingOwed(pos[t]) \in Nat /\ SettlePrice(pos[t]) \in Settleable
  BY FundingOwedType, SettlePriceType DEF IInv
<1>2. pos[t] \in LevPosition
  BY LivePositions DEF IInv
<1> DEFINE paid == SettlementPayout(pos[t])
           most == pos[t].collateral + Liability(pos[t])
<1>3. Liability(pos[t]) \in Nat /\ paid \in 0..most
  BY <1>1, <1>2, PayoutBounds DEF SettlementPayout
<1>4. pos[t].collateral \in Nat
  BY <1>2 DEF LevPosition
<1> HIDE DEF paid, most
<1>5. paid \in Nat
  BY <1>3
<1> QED BY <1>3, <1>5 DEF paid

\* The invariant holds before the pool exists.
LEMMA InitIInv == Init => IInv
<1> SUFFICES ASSUME Init PROVE IInv
  OBVIOUS
<1>1. Live = {}
  BY DEF Init, Live
<1>2. TypeOK
  <2>1. params \in LeverageConfig
    BY LeverageConstants DEF Init
  <2>2. mark_bps \in [Outcomes -> 0..(BPS_DENOM - 1)]
    BY FundingConstants DEF Init
  <2>3. valve_multiplier_bps \in BPS_DENOM..VALVE_MAX_MULTIPLIER_BPS
    BY FundingConstants, LeverageConstants DEF Init
  <2>4. now \in Nat /\ state \in MarketState /\ freeze_ts \in Nat /\ kickoff_ts \in Nat
    BY LeverageConstants DEF Init, LifeInit, MarketState
  <2>5. pos \in [Traders -> LevPosition \cup {NoPosition}]
    BY DEF Init
  <2> QED BY <2>1, <2>2, <2>3, <2>4, <2>5 DEF Init, TypeOK
<1>3. MarksPosted /\ ChargedToMark /\ SnapsBehind /\ UnlockTracksRequest
  BY <1>1 DEF Init, MarksPosted, ChargedToMark, SnapsBehind, UnlockTracksRequest
<1> QED BY <1>2, <1>3 DEF IInv

\* The market's own steps leave every account of the layer alone.
LEMMA MarketKeeps == IInv /\ MarketStep => IInv'
<1> SUFFICES ASSUME IInv, MarketStep PROVE IInv'
  OBVIOUS
<1> USE DEF MarketStep, poolVars, shareBook, exposure, funding, valve
<1>1. now' \in Nat /\ state' \in MarketState /\ freeze_ts' \in Nat /\ kickoff_ts' \in Nat
  <2>1. CASE Tick
    BY <2>1 DEF Tick, IInv, TypeOK
  <2>2. ASSUME NEW pair \in Schedules, InitMarket(pair)
        PROVE  now' \in Nat /\ state' \in MarketState /\ freeze_ts' \in Nat /\ kickoff_ts' \in Nat
    BY <2>2, LeverageConstants DEF InitMarket, IInv, TypeOK, MarketState
  <2>3. CASE ActivateMarket \/ FreezeMarket
    BY <2>3 DEF ActivateMarket, FreezeMarket, Advance, IInv, TypeOK, MarketState
  <2>4. CASE CloseMarket
    BY <2>4 DEF CloseMarket, IInv, TypeOK, MarketState
  <2>5. CASE \E winner \in Outcomes : Resolve(winner)
    BY <2>5 DEF Resolve, IInv, TypeOK, MarketState
  <2> QED BY <2>1, <2>2, <2>3, <2>4, <2>5 DEF LifeNext
<1>2. TypeOK'
  BY <1>1 DEF IInv, TypeOK
<1> QED BY <1>2 DEF IInv, MarksPosted, ChargedToMark, SnapsBehind, Live, UnlockTracksRequest

\* update_leverage_params preserves the invariant.
LEMMA ParamsKeep ==
  ASSUME IInv, NEW p \in LeverageParams, UpdateLeverageParams(p)
  PROVE  IInv'
BY LeverageConstants
   DEF UpdateLeverageParams, IInv, TypeOK, MarksPosted, ChargedToMark, SnapsBehind, Live,
       UnlockTracksRequest, lifeVars, shareBook, exposure, funding, valve

\* init_leverage_pool preserves the invariant.
LEMMA PoolInitKeeps == IInv /\ InitLeveragePool => IInv'
BY DEF InitLeveragePool, IInv, TypeOK, MarksPosted, ChargedToMark, SnapsBehind, Live,
       UnlockTracksRequest, lifeVars, shareBook, exposure, funding, valve

\* set_risk_valve preserves the invariant.
LEMMA ValveKeeps ==
  ASSUME IInv, NEW v \in Valves, SetRiskValve(v[1], v[2], v[3])
  PROVE  IInv'
BY LeverageConstants
   DEF SetRiskValve, IInv, TypeOK, MarksPosted, ChargedToMark, SnapsBehind, Live,
       UnlockTracksRequest, lifeVars, shareBook, exposure, funding

\* What post_mark adds to the index of an outcome, by cases of IndexGrows.
LEMMA MarkCharges ==
  ASSUME IInv, NEW marks \in Marks, PostMark(marks), NEW o \in Outcomes
  PROVE  /\ cum_funding_index'[o] \in Nat
         /\ cum_funding_index'[o] >= cum_funding_index[o]
         /\ mark_ts > 0 /\ now > mark_ts /\ params.time_fee_num > 0 =>
              cum_funding_index'[o] > cum_funding_index[o]
<1> DEFINE mult == IF now < valve_until_ts THEN valve_multiplier_bps ELSE BPS_DENOM
           delta == idx_delta(params.time_fee_num, mark_bps[o], now - last_funding_ts,
                              freeze_ts - now, mult)
<1>1. cum_funding_index'[o] = cum_funding_index[o] + IF mark_ts = 0 THEN 0 ELSE delta
  BY DEF PostMark
<1>2. /\ params.time_fee_num \in Nat /\ mark_bps[o] \in 0..(BPS_DENOM - 1)
      /\ now - last_funding_ts \in Int /\ freeze_ts - now \in Int /\ mult \in Nat
      /\ cum_funding_index[o] \in Nat /\ mark_ts \in Nat /\ last_funding_ts = mark_ts
  BY FundingConstants, LeverageConstants DEF IInv, TypeOK, LeverageConfig, ChargedToMark
<1>3. mark_ts > 0 => mark_bps[o] > 0
  BY DEF IInv, MarksPosted, Postable
<1> HIDE DEF mult
<1>4. delta \in Nat /\ (params.time_fee_num > 0 /\ mark_bps[o] > 0 /\ now - last_funding_ts > 0
                          => delta > 0)
  BY <1>2, IndexGrows
<1> HIDE DEF delta
<1>5. now \in Nat
  BY DEF IInv, TypeOK
<1> QED BY <1>1, <1>2, <1>3, <1>4, <1>5

\* post_mark preserves the invariant.
LEMMA MarkKeeps ==
  ASSUME IInv, NEW marks \in Marks, PostMark(marks)
  PROVE  IInv'
<1> USE DEF PostMark, lifeVars, shareBook, exposure, valve
<1>1. cum_funding_index' \in [Outcomes -> Nat]
  <2>1. \A o \in Outcomes : cum_funding_index'[o] \in Nat
    BY MarkCharges
  <2> QED BY <2>1
<1>2. marks \in [Outcomes -> Postable]
  BY LeverageConstants
<1>3. mark_bps' \in [Outcomes -> 0..(BPS_DENOM - 1)] /\ MarksPosted'
  BY <1>2, FundingConstants DEF Postable, MarksPosted
<1>4. TypeOK'
  BY <1>1, <1>3 DEF IInv, TypeOK
<1>5. SnapsBehind'
  <2>1. SUFFICES ASSUME NEW t \in Live
                 PROVE  pos[t].funding_index_snap <= cum_funding_index'[pos[t].outcome_idx]
    BY DEF SnapsBehind, Live
  <2>2. pos[t] \in LevPosition /\ pos[t].outcome_idx \in Outcomes
    BY LivePositions DEF IInv
  <2>3. pos[t].funding_index_snap <= cum_funding_index[pos[t].outcome_idx]
    BY DEF IInv, SnapsBehind
  <2>4. cum_funding_index'[pos[t].outcome_idx] >= cum_funding_index[pos[t].outcome_idx]
    BY <2>2, MarkCharges
  <2>5. /\ pos[t].funding_index_snap \in Nat
        /\ cum_funding_index[pos[t].outcome_idx] \in Nat
        /\ cum_funding_index'[pos[t].outcome_idx] \in Nat
    BY <1>1, <2>2 DEF IInv, TypeOK, LevPosition
  <2> QED BY <2>3, <2>4, <2>5
<1>6. ChargedToMark' /\ UnlockTracksRequest'
  BY DEF IInv, ChargedToMark, UnlockTracksRequest
<1> QED BY <1>3, <1>4, <1>5, <1>6 DEF IInv

-----------------------------------------------------------------------------
(* Liquidity providers. *)

\* open_lp_account preserves the invariant.
LEMMA LpOpenKeeps ==
  ASSUME IInv, NEW u \in LPs, OpenLpAccount(u)
  PROVE  IInv'
BY DEF OpenLpAccount, IInv, TypeOK, MarksPosted, ChargedToMark, SnapsBehind, Live,
       UnlockTracksRequest, lifeVars, exposure, funding, valve

\* deposit_lp preserves the invariant.
LEMMA DepositKeeps ==
  ASSUME IInv, NEW u \in LPs, NEW amount \in LpAmounts, DepositLp(u, amount)
  PROVE  IInv'
<1> DEFINE minted == shares_for_deposit(amount, total_shares, vault)
<1>1. amount \in Nat /\ minted \in Nat
  BY LeverageConstants, ShareTypes DEF IInv, TypeOK
<1>2. /\ vault' = vault + amount /\ total_shares' = total_shares + minted
      /\ shares' = [shares EXCEPT ![u] = @ + minted]
      /\ entries' = entries + 1
      /\ UNCHANGED <<lifeVars, params, exists, pending_withdraw_shares, lps, pending_shares,
                     unlock_ts, requested_at, exposure, funding, valve, pos>>
  BY DEF DepositLp, Entry
<1> HIDE DEF minted
<1> QED BY <1>1, <1>2 DEF IInv, TypeOK, MarksPosted, ChargedToMark, SnapsBehind, Live,
               UnlockTracksRequest, lifeVars, exposure, funding, valve

\* request_withdraw preserves the invariant.
LEMMA RequestKeeps ==
  ASSUME IInv, NEW u \in LPs, NEW s \in Requests, RequestWithdraw(u, s)
  PROVE  IInv'
<1> USE DEF RequestWithdraw, lifeVars, exposure, funding, valve
<1>1. s \in Nat /\ now + LP_WITHDRAW_DELAY_SECS \in Nat
  BY LeverageConstants DEF IInv, TypeOK
<1>2. TypeOK'
  BY <1>1 DEF IInv, TypeOK, UnlockTime
<1>3. UnlockTracksRequest'
  BY DEF IInv, TypeOK, UnlockTracksRequest, UnlockTime
<1> QED BY <1>2, <1>3 DEF IInv, MarksPosted, ChargedToMark, SnapsBehind, Live

\* withdraw_lp preserves the invariant.
LEMMA WithdrawKeeps ==
  ASSUME IInv, NEW u \in LPs, WithdrawLp(u)
  PROVE  IInv'
<1> DEFINE value == value_for_shares(pending_shares[u], total_shares, vault)
<1>1. /\ pending_shares[u] \in Nat /\ total_shares \in Nat /\ total_shares > 0
      /\ shares[u] \in Nat /\ pending_withdraw_shares \in Nat /\ vault \in Nat
  BY DEF IInv, TypeOK, WithdrawLp
<1>2. value \in Nat
  BY <1>1, ShareTypes
<1>3. /\ total_shares >= pending_shares[u] /\ shares[u] >= pending_shares[u]
      /\ pending_withdraw_shares >= pending_shares[u]
      /\ total_shares' = total_shares - pending_shares[u]
      /\ shares' = [shares EXCEPT ![u] = @ - pending_shares[u]]
      /\ pending_shares' = [pending_shares EXCEPT ![u] = 0]
      /\ pending_withdraw_shares' = pending_withdraw_shares - pending_shares[u]
      /\ vault >= value /\ vault' = vault - value
      /\ UNCHANGED <<lifeVars, params, exists, lps, unlock_ts, requested_at, exposure,
                     funding, valve, pos, entries>>
  BY DEF WithdrawLp, BurnPending
<1> HIDE DEF value
<1> USE DEF lifeVars, exposure, funding, valve
<1>4. TypeOK'
  BY <1>1, <1>2, <1>3 DEF IInv, TypeOK
<1>5. UnlockTracksRequest'
  BY <1>3 DEF IInv, TypeOK, UnlockTracksRequest
<1> QED BY <1>3, <1>4, <1>5 DEF IInv, MarksPosted, ChargedToMark, SnapsBehind, Live

-----------------------------------------------------------------------------
(* Positions. *)

\* What open_leverage writes is a position.
LEMMA NewPositionType ==
  ASSUME IInv, NEW t \in Traders, NEW o \in Outcomes, NEW c \in Collaterals,
         NEW l \in Leverages, OpenLeverage(t, o, c, l)
  PROVE  /\ NewPosition(o, c, l) \in LevPosition
         /\ Liability(NewPosition(o, c, l)) \in Nat
         /\ NewPosition(o, c, l).notional \in Nat
<1> DEFINE p == NewPosition(o, c, l)
<1>1. c \in Nat /\ l \in Nat
  BY LeverageConstants
<1>2. mark_bps[o] \in Postable
  BY DEF OpenLeverage, MayOpen, MarkFresh, IInv, MarksPosted
<1>3. p \in LevPosition /\ Liability(p) \in Nat /\ p.notional \in Nat
  <2>1. cum_funding_index[o] \in Nat
    BY DEF IInv, TypeOK
  <2> QED BY <1>1, <1>2, <2>1, Sizes DEF NewPosition, LevPosition, Liability
<1> QED BY <1>3

\* open_leverage preserves the invariant.
LEMMA OpenKeeps ==
  ASSUME IInv, NEW t \in Traders, NEW o \in Outcomes, NEW c \in Collaterals,
         NEW l \in Leverages, OpenLeverage(t, o, c, l)
  PROVE  IInv'
<1> DEFINE p == NewPosition(o, c, l)
<1>3. p \in LevPosition /\ Liability(p) \in Nat /\ p.notional \in Nat
  BY NewPositionType
<1>4. p.outcome_idx = o /\ p.funding_index_snap = cum_funding_index[o]
  BY DEF NewPosition
<1>5. /\ vault' = vault + c /\ pos' = [pos EXCEPT ![t] = p]
      /\ open_interest' = open_interest + p.notional
      /\ total_max_payout' = total_max_payout + Liability(p)
      /\ entries' = entries + 1
      /\ UNCHANGED <<lifeVars, params, exists, shareBook, funding, valve>>
  BY DEF OpenLeverage, Entry
<1> HIDE DEF p
<1> USE DEF lifeVars, shareBook, funding, valve
<1>6. TypeOK'
  <2>1. c \in Nat
    BY LeverageConstants
  <2> QED BY <2>1, <1>3, <1>5 DEF IInv, TypeOK
<1>7. SnapsBehind'
  <2>1. SUFFICES ASSUME NEW v \in Live'
                 PROVE  pos'[v].funding_index_snap <= cum_funding_index[pos'[v].outcome_idx]
    BY <1>5 DEF SnapsBehind
  <2>2. v \in Traders
    BY DEF Live
  <2>3. CASE v = t
    <3>1. pos'[v] = p /\ cum_funding_index[o] \in Nat
      BY <1>5, <2>3 DEF IInv, TypeOK
    <3> QED BY <1>4, <3>1
  <2>4. CASE v # t
    <3>1. pos'[v] = pos[v]
      BY <1>5, <2>2, <2>4 DEF IInv, TypeOK
    <3>2. v \in Live
      BY <2>2, <3>1 DEF Live
    <3> QED BY <3>1, <3>2 DEF IInv, SnapsBehind
  <2> QED BY <2>3, <2>4
<1> QED BY <1>5, <1>6, <1>7 DEF IInv, MarksPosted, ChargedToMark, UnlockTracksRequest

\* close_leverage and expire_position preserve the invariant.
LEMMA SettleKeeps ==
  ASSUME IInv, NEW t \in Traders, Settle(t)
  PROVE  IInv'
<1> DEFINE p == pos[t]
           paid == SettlementPayout(p)
           owed == Liability(p)
<1>1. t \in Live
  BY DEF Settle
<1>2. paid \in Nat /\ owed \in Nat /\ p.notional \in Nat
  BY <1>1, PayoutType, LivePositions DEF IInv, LevPosition
<1>3. /\ vault >= paid /\ vault' = vault - paid
      /\ open_interest' = IF open_interest >= p.notional THEN open_interest - p.notional ELSE 0
      /\ total_max_payout' = IF total_max_payout >= owed THEN total_max_payout - owed ELSE 0
      /\ pos' = [pos EXCEPT ![t] = NoPosition]
      /\ UNCHANGED <<lifeVars, params, exists, shareBook, funding, valve, entries>>
  BY DEF Settle, Release
<1> HIDE DEF p, paid, owed
<1> USE DEF lifeVars, shareBook, funding, valve
<1>4. TypeOK'
  BY <1>2, <1>3 DEF IInv, TypeOK
<1>5. SnapsBehind'
  <2>1. SUFFICES ASSUME NEW v \in Live'
                 PROVE  pos'[v].funding_index_snap <= cum_funding_index[pos'[v].outcome_idx]
    BY <1>3 DEF SnapsBehind
  <2>2. v \in Traders /\ v # t
    BY <1>3 DEF Live, IInv, TypeOK
  <2>3. pos'[v] = pos[v] /\ v \in Live
    BY <1>3, <2>2 DEF IInv, TypeOK, Live
  <2> QED BY <2>3 DEF IInv, SnapsBehind
<1> QED BY <1>3, <1>4, <1>5 DEF IInv, MarksPosted, ChargedToMark, UnlockTracksRequest

-----------------------------------------------------------------------------
\* Every step preserves the invariant.
LEMMA StepKeeps == IInv /\ [Next]_vars => IInv'
<1> SUFFICES ASSUME IInv, [Next]_vars PROVE IInv'
  OBVIOUS
<1>1. CASE MarketStep
  BY <1>1, MarketKeeps
<1>2. CASE AdminOrKeeper
  BY <1>2, ParamsKeep, PoolInitKeeps, MarkKeeps, ValveKeeps DEF AdminOrKeeper
<1>3. CASE Provide
  BY <1>3, LpOpenKeeps, WithdrawKeeps, DepositKeeps, RequestKeeps DEF Provide
<1>4. CASE Leverage
  BY <1>4, SettleKeeps, OpenKeeps DEF Leverage, CloseLeverage, ExpirePosition
<1>5. CASE UNCHANGED vars
  BY <1>5 DEF vars, lifeVars, poolVars, shareBook, exposure, funding, valve, IInv, TypeOK,
              MarksPosted, ChargedToMark, SnapsBehind, Live, UnlockTracksRequest
<1> QED BY <1>1, <1>2, <1>3, <1>4, <1>5 DEF Next

\* The invariant holds in every reachable state.
LEMMA Invariance == Spec => []IInv
BY InitIInv, StepKeeps, PTL DEF Spec

\* Every account of the leverage layer keeps its type: no counter, balance,
\* index or share supply ever goes below zero, for any traders and any marks.
THEOREM TypeCorrectness == Spec => []TypeOK
<1>1. IInv => TypeOK
  BY DEF IInv
<1> QED BY <1>1, Invariance, PTL

\* A settlement pays at most the collateral and the liability booked at open,
\* whatever mark is posted, whoever wins and however long it was held: the
\* bound open_leverage's coverage check is computed from.
THEOREM LiabilityIsTheWorst == Spec => []LiabilityBoundsPayout
<1>1. ASSUME IInv PROVE LiabilityBoundsPayout
  <2>1. SUFFICES ASSUME NEW t \in Live, NEW price \in Settleable
                 PROVE  settle_payout(pos[t].collateral,
                          pnl(pos[t].units, pos[t].entry_mark_bps, price), FundingOwed(pos[t]))
                          \in 0..(pos[t].collateral + Liability(pos[t]))
    BY DEF LiabilityBoundsPayout
  <2> QED BY <1>1, FundingOwedType, LivePositions, PayoutBounds DEF IInv
<1> QED BY <1>1, Invariance, PTL

\* Every later mark raises every outcome's funding index while the config
\* charges for time, whatever valve and remaining time are in force.
THEOREM TimeAlwaysCosts == Spec => TimeIsNeverFree
<1>1. ASSUME IInv, [Next]_vars, mark_ts > 0, mark_ts' > mark_ts, params.time_fee_num > 0
      PROVE  \A o \in Outcomes : cum_funding_index'[o] > cum_funding_index[o]
  <2>1. mark_ts \in Nat
    BY <1>1 DEF IInv, TypeOK
  <2>2. mark_ts' # mark_ts
    BY <1>1, <2>1
  <2>3. PICK marks \in Marks : PostMark(marks)
    BY <1>1, <2>2
       DEF Next, MarketStep, poolVars, AdminOrKeeper, Provide, Leverage, funding, vars,
           UpdateLeverageParams, InitLeveragePool, SetRiskValve, OpenLpAccount, DepositLp,
           RequestWithdraw, WithdrawLp, OpenLeverage, CloseLeverage, ExpirePosition, Settle
  <2>4. mark_ts' = now
    BY <2>3 DEF PostMark
  <2> QED BY <1>1, <2>3, <2>4, MarkCharges
<1>2. IInv /\ [Next]_vars =>
        [mark_ts > 0 /\ mark_ts' > mark_ts /\ params.time_fee_num > 0 =>
           \A o \in Outcomes : cum_funding_index'[o] > cum_funding_index[o]]_vars
  BY <1>1
<1> QED BY <1>2, Invariance, PTL DEF Spec, TimeIsNeverFree

\* No share leaves the pool before the delay since the latest request it was
\* part of, however many requests were combined.
THEOREM DelayIsKept == Spec => NoEarlyExit
<1>1. IInv /\ [Next]_vars =>
        [\A u \in LPs : WithdrawLp(u) => now >= requested_at[u] + LP_WITHDRAW_DELAY_SECS]_vars
  BY DEF IInv, TypeOK, UnlockTracksRequest, WithdrawLp
<1> QED BY <1>1, Invariance, PTL DEF Spec, NoEarlyExit

-----------------------------------------------------------------------------
(* The pool's books. *)

\* Depositing, requesting and withdrawing move one LP's entry and the pool's
\* counter by the same amount; nothing else touches either.
LEMMA SharesStep ==
  ASSUME IInv, IInv', SharesAgree, [Next]_vars
  PROVE  SharesAgree'
<1> USE LeverageConstants
<1>1. /\ shares \in [LPs -> Nat] /\ pending_shares \in [LPs -> Nat]
      /\ shares' \in [LPs -> Nat] /\ pending_shares' \in [LPs -> Nat]
  BY DEF IInv, TypeOK
<1>2. ASSUME UNCHANGED <<shares, pending_shares, total_shares, pending_withdraw_shares>>
      PROVE  SharesAgree'
  BY <1>2 DEF SharesAgree
<1>3. CASE MarketStep \/ AdminOrKeeper \/ Leverage \/ UNCHANGED vars
  BY <1>2, <1>3 DEF MarketStep, AdminOrKeeper, Leverage, UpdateLeverageParams,
     InitLeveragePool, PostMark, SetRiskValve, OpenLeverage, CloseLeverage,
     ExpirePosition, Settle, vars, poolVars, shareBook
<1>4. ASSUME NEW u \in LPs, OpenLpAccount(u) PROVE SharesAgree'
  BY <1>2, <1>4 DEF OpenLpAccount
<1>5. ASSUME NEW u \in LPs, NEW amount \in LpAmounts, DepositLp(u, amount)
      PROVE  SharesAgree'
  <2> DEFINE minted == shares_for_deposit(amount, total_shares, vault)
  <2>1. /\ total_shares' = total_shares + minted /\ minted \in Nat
        /\ shares' = [shares EXCEPT ![u] = @ + minted]
        /\ UNCHANGED <<pending_shares, pending_withdraw_shares>>
    BY <1>5, ShareTypes DEF DepositLp, IInv, TypeOK
  <2> HIDE DEF minted
  <2>2. /\ shares'[u] = shares[u] + minted
        /\ \A v \in LPs : v # u => shares'[v] = shares[v]
    BY <1>1, <2>1
  <2>3. SumOver(shares', LPs) = SumOver(shares, LPs) - shares[u] + shares'[u]
    BY <1>1, <2>2, SumChange
  <2>4. SumOver(shares, LPs) \in Int
    BY <1>1, SumInt
  <2>5. total_shares' = SumOver(shares', LPs)
    BY <1>1, <2>1, <2>2, <2>3, <2>4 DEF SharesAgree
  <2>6. \A v \in LPs : pending_shares'[v] <= shares'[v]
    BY <1>1, <2>1, <2>2 DEF SharesAgree
  <2> QED BY <2>1, <2>5, <2>6 DEF SharesAgree
<1>6. ASSUME NEW u \in LPs, NEW s \in Requests, RequestWithdraw(u, s)
      PROVE  SharesAgree'
  <2>1. /\ s \in Nat /\ s <= shares[u] - pending_shares[u]
        /\ pending_shares' = [pending_shares EXCEPT ![u] = @ + s]
        /\ pending_withdraw_shares' = pending_withdraw_shares + s
        /\ UNCHANGED <<shares, total_shares>>
    BY <1>6 DEF RequestWithdraw
  <2>2. /\ pending_shares'[u] = pending_shares[u] + s
        /\ \A v \in LPs : v # u => pending_shares'[v] = pending_shares[v]
    BY <1>1, <2>1
  <2>3. SumOver(pending_shares', LPs)
          = SumOver(pending_shares, LPs) - pending_shares[u] + pending_shares'[u]
    BY <1>1, <2>2, SumChange
  <2>4. SumOver(pending_shares, LPs) \in Int
    BY <1>1, SumInt
  <2>5. pending_withdraw_shares' = SumOver(pending_shares', LPs)
    BY <1>1, <2>1, <2>2, <2>3, <2>4 DEF SharesAgree
  <2>6. \A v \in LPs : pending_shares'[v] <= shares'[v]
    BY <1>1, <2>1, <2>2 DEF SharesAgree
  <2> QED BY <2>1, <2>5, <2>6 DEF SharesAgree
<1>7. ASSUME NEW u \in LPs, WithdrawLp(u) PROVE SharesAgree'
  <2> DEFINE k == pending_shares[u]
  <2>1. /\ total_shares' = total_shares - k
        /\ shares' = [shares EXCEPT ![u] = @ - k]
        /\ pending_shares' = [pending_shares EXCEPT ![u] = 0]
        /\ pending_withdraw_shares' = pending_withdraw_shares - k
        /\ k \in Nat
    BY <1>1, <1>7 DEF WithdrawLp, BurnPending
  <2>2. /\ shares'[u] = shares[u] - k
        /\ \A v \in LPs : v # u => shares'[v] = shares[v]
        /\ pending_shares'[u] = 0
        /\ \A v \in LPs : v # u => pending_shares'[v] = pending_shares[v]
    BY <1>1, <2>1
  <2>3. /\ SumOver(shares', LPs) = SumOver(shares, LPs) - shares[u] + shares'[u]
        /\ SumOver(pending_shares', LPs)
             = SumOver(pending_shares, LPs) - pending_shares[u] + pending_shares'[u]
    BY <1>1, <2>2, SumChange
  <2>4. SumOver(shares, LPs) \in Int /\ SumOver(pending_shares, LPs) \in Int
    BY <1>1, SumInt
  <2>5. total_shares' = SumOver(shares', LPs)
    BY <1>1, <2>1, <2>2, <2>3, <2>4 DEF SharesAgree
  <2>6. pending_withdraw_shares' = SumOver(pending_shares', LPs)
    BY <1>1, <2>1, <2>2, <2>3, <2>4 DEF SharesAgree
  <2>7. \A v \in LPs : pending_shares'[v] <= shares'[v]
    BY <1>1, <2>2 DEF SharesAgree
  <2> QED BY <2>5, <2>6, <2>7 DEF SharesAgree
<1>8. CASE Provide
  BY <1>4, <1>5, <1>6, <1>7, <1>8 DEF Provide
<1> QED BY <1>3, <1>8 DEF Next

\* The share supply is the sum of what the LPs hold, the earmark the sum of
\* what they have asked to take out, and nobody has asked for more than they
\* hold, for any number of LPs.
THEOREM ShareBooksAgree == Spec => []SharesAgree
<1>1. Init => SharesAgree
  <2> SUFFICES ASSUME Init PROVE SharesAgree
    OBVIOUS
  <2>1. \A u \in LPs : shares[u] = 0 /\ pending_shares[u] = 0
    BY DEF Init
  <2>2. SumOver(shares, LPs) = 0 /\ SumOver(pending_shares, LPs) = 0
    BY <2>1, SumZero, LeverageConstants
  <2> QED BY <2>1, <2>2 DEF Init, SharesAgree
<1>2. IInv /\ IInv' /\ SharesAgree /\ [Next]_vars => SharesAgree'
  BY SharesStep
<1> QED BY <1>1, <1>2, Invariance, PTL DEF Spec

\* What one position adds to the two exposure counters.
NotionalOf == [t \in Live |-> pos[t].notional]
LiabilityOf == [t \in Live |-> Liability(pos[t])]

\* Both are natural numbers, and the live positions are finitely many.
LEMMA ExposureTypes ==
  ASSUME IInv
  PROVE  /\ IsFiniteSet(Live)
         /\ \A t \in Live : NotionalOf[t] \in Nat /\ LiabilityOf[t] \in Nat
<1>1. IsFiniteSet(Live)
  BY LeverageConstants, FS_Subset DEF Live
<1>2. ASSUME NEW t \in Live PROVE NotionalOf[t] \in Nat /\ LiabilityOf[t] \in Nat
  BY LivePositions, PayoutType DEF NotionalOf, LiabilityOf, IInv, LevPosition
<1> QED BY <1>1, <1>2

\* Where the positions are left alone, so are their sums.
LEMMA ExposureKept ==
  ASSUME ExposureIsPositions, UNCHANGED <<pos, open_interest, total_max_payout>>
  PROVE  ExposureIsPositions'
BY DEF ExposureIsPositions, Live

\* An open position joins both sums.
LEMMA OpenAdds ==
  ASSUME IInv, IInv', ExposureIsPositions, NEW t \in Traders, NEW o \in Outcomes,
         NEW c \in Collaterals, NEW l \in Leverages, OpenLeverage(t, o, c, l)
  PROVE  ExposureIsPositions'
<1> DEFINE p == NewPosition(o, c, l)
<1>1. /\ t \notin Live /\ pos' = [pos EXCEPT ![t] = p]
      /\ open_interest' = open_interest + p.notional
      /\ total_max_payout' = total_max_payout + Liability(p)
  BY DEF OpenLeverage
<1>2. pos'[t] = p /\ \A x \in Live : pos'[x] = pos[x]
  BY <1>1 DEF IInv, TypeOK, Live
<1>3. /\ p # NoPosition /\ p.notional \in Nat /\ Liability(p) \in Nat
  BY NewPositionType, LeverageConstants
<1>4. Live' = Live \cup {t}
  BY <1>1, <1>2, <1>3 DEF Live, IInv, TypeOK
<1> HIDE DEF p
<1>5. /\ \A x \in Live : NotionalOf'[x] = NotionalOf[x] /\ LiabilityOf'[x] = LiabilityOf[x]
      /\ NotionalOf'[t] = p.notional /\ LiabilityOf'[t] = Liability(p)
  BY <1>2, <1>4 DEF NotionalOf, LiabilityOf
<1>6. /\ IsFiniteSet(Live)
      /\ \A x \in Live \cup {t} : NotionalOf'[x] \in Int /\ LiabilityOf'[x] \in Int
  BY <1>3, <1>5, ExposureTypes
<1>7. /\ SumOver(NotionalOf', Live \cup {t}) = SumOver(NotionalOf', Live) + p.notional
      /\ SumOver(LiabilityOf', Live \cup {t}) = SumOver(LiabilityOf', Live) + Liability(p)
  <2>1. /\ \A x \in Live \cup {t} : NotionalOf'[x] \in Int
        /\ \A x \in Live \cup {t} : LiabilityOf'[x] \in Int
    BY <1>6
  <2>2. SumOver(NotionalOf', Live \cup {t}) = SumOver(NotionalOf', Live) + NotionalOf'[t]
    BY <1>1, <1>6, <2>1, SumAdd
  <2>3. SumOver(LiabilityOf', Live \cup {t}) = SumOver(LiabilityOf', Live) + LiabilityOf'[t]
    BY <1>1, <1>6, <2>1, SumAdd
  <2> QED BY <1>5, <2>2, <2>3
<1>8. /\ SumOver(NotionalOf', Live) = SumOver(NotionalOf, Live)
      /\ SumOver(LiabilityOf', Live) = SumOver(LiabilityOf, Live)
  BY <1>5, <1>6, SumSame
<1> QED BY <1>1, <1>4, <1>7, <1>8 DEF ExposureIsPositions, NotionalOf, LiabilityOf

\* A settled position leaves both, and the counters cover it: the saturating
\* subtractions of the code never saturate.
LEMMA SettleRemoves ==
  ASSUME IInv, ExposureIsPositions, NEW t \in Traders, Settle(t)
  PROVE  ExposureIsPositions'
<1>1. t \in Live /\ pos' = [pos EXCEPT ![t] = NoPosition] /\ Release(pos[t])
  BY DEF Settle
<1>2. Live' = Live \ {t} /\ \A x \in Live' : pos'[x] = pos[x]
  BY <1>1 DEF Live, IInv, TypeOK
<1>3. /\ IsFiniteSet(Live) /\ IsFiniteSet(Live')
      /\ \A x \in Live : NotionalOf[x] \in Nat /\ LiabilityOf[x] \in Nat
  BY <1>2, ExposureTypes, FS_RemoveElement
<1>4. /\ open_interest = SumOver(NotionalOf, Live)
      /\ total_max_payout = SumOver(LiabilityOf, Live)
  BY DEF ExposureIsPositions, NotionalOf, LiabilityOf
<1>5. /\ SumOver(NotionalOf, Live) = NotionalOf[t] + SumOver(NotionalOf, Live')
      /\ SumOver(LiabilityOf, Live) = LiabilityOf[t] + SumOver(LiabilityOf, Live')
  <2>1. /\ \A x \in Live : NotionalOf[x] \in Int
        /\ \A x \in Live : LiabilityOf[x] \in Int
    BY <1>3
  <2>2. SumOver(NotionalOf, Live) = NotionalOf[t] + SumOver(NotionalOf, Live \ {t})
    BY <1>1, <1>3, <2>1, SumRemove
  <2>3. SumOver(LiabilityOf, Live) = LiabilityOf[t] + SumOver(LiabilityOf, Live \ {t})
    BY <1>1, <1>3, <2>1, SumRemove
  <2> QED BY <1>2, <2>2, <2>3
<1>6. SumOver(NotionalOf, Live') \in Nat /\ SumOver(LiabilityOf, Live') \in Nat
  BY <1>2, <1>3, SumNat
<1>7. NotionalOf[t] = pos[t].notional /\ LiabilityOf[t] = Liability(pos[t])
  BY <1>1 DEF NotionalOf, LiabilityOf
<1>8. /\ open_interest' = SumOver(NotionalOf, Live')
      /\ total_max_payout' = SumOver(LiabilityOf, Live')
  <2>1. NotionalOf[t] \in Nat /\ LiabilityOf[t] \in Nat
    BY <1>1, <1>3
  <2> QED BY <1>1, <1>4, <1>5, <1>6, <1>7, <2>1 DEF Release
<1>9. \A x \in Live' : NotionalOf'[x] = NotionalOf[x] /\ LiabilityOf'[x] = LiabilityOf[x]
  BY <1>2 DEF NotionalOf, LiabilityOf
<1>10. /\ SumOver(NotionalOf', Live') = SumOver(NotionalOf, Live')
       /\ SumOver(LiabilityOf', Live') = SumOver(LiabilityOf, Live')
  BY <1>3, <1>9, SumSame
<1> QED BY <1>8, <1>10 DEF ExposureIsPositions, NotionalOf, LiabilityOf

\* Open interest and the liability total are the sums over the live positions,
\* for any number of traders: settling any of them never finds a counter
\* smaller than what it releases.
THEOREM ExposureAddsUp == Spec => []ExposureIsPositions
<1>1. Init => ExposureIsPositions
  <2> SUFFICES ASSUME Init PROVE ExposureIsPositions
    OBVIOUS
  <2>1. Live = {} /\ open_interest = 0 /\ total_max_payout = 0
    BY DEF Init, Live
  <2> QED BY <2>1, SumEmpty DEF ExposureIsPositions
<1>2. IInv /\ IInv' /\ ExposureIsPositions /\ [Next]_vars => ExposureIsPositions'
  <2> SUFFICES ASSUME IInv, IInv', ExposureIsPositions, [Next]_vars
               PROVE  ExposureIsPositions'
    OBVIOUS
  <2>1. CASE MarketStep \/ AdminOrKeeper \/ Provide \/ UNCHANGED vars
    BY <2>1, ExposureKept DEF MarketStep, AdminOrKeeper, Provide, UpdateLeverageParams,
       InitLeveragePool, PostMark, SetRiskValve, OpenLpAccount, DepositLp,
       RequestWithdraw, WithdrawLp, vars, poolVars, exposure
  <2>2. CASE Leverage
    BY <2>2, OpenAdds, SettleRemoves DEF Leverage, CloseLeverage, ExpirePosition
  <2> QED BY <2>1, <2>2 DEF Next
<1> QED BY <1>1, <1>2, Invariance, PTL DEF Spec

-----------------------------------------------------------------------------
(* The price of a share. *)

\* An LP who deposits or withdraws takes nothing from another: with the floors
\* of both, the other's shares are worth at least what they were, as long as
\* they are still part of the supply.
LEMMA NobodyIsDiluted ==
  ASSUME IInv, NEW u \in LPs, NEW other \in LPs \ {u},
         (\E amount \in LpAmounts : DepositLp(u, amount)) \/ WithdrawLp(u),
         shares[other] <= total_shares'
  PROVE  ShareValue(other)' >= ShareValue(other)
<1> DEFINE s == shares[other]
<1>1. /\ s \in Nat /\ total_shares \in Nat /\ vault \in Nat
      /\ total_shares' \in Nat /\ vault' \in Nat
  <2>1. IInv'
    BY DepositKeeps, WithdrawKeeps
  <2> QED BY <2>1 DEF IInv, TypeOK
<1>2. shares'[other] = s
  BY DEF DepositLp, WithdrawLp, BurnPending, IInv, TypeOK
<1>3. ASSUME NEW amount \in LpAmounts, DepositLp(u, amount), total_shares > 0
      PROVE  total_shares' > 0 /\ vault * total_shares' <= vault' * total_shares
  <2> DEFINE m == shares_for_deposit(amount, total_shares, vault)
  <2>1. amount \in Nat /\ m \in Nat /\ m > 0
        /\ vault' = vault + amount /\ total_shares' = total_shares + m
    BY <1>1, <1>3, LeverageConstants, ShareTypes DEF DepositLp
  <2>2. vault * m <= amount * total_shares
    <3>1. CASE vault = 0
      <4>1. amount * total_shares \in Nat
        BY <1>1, <2>1, MulNat
      <4> QED BY <2>1, <3>1, <4>1
    <3>2. CASE vault > 0
      <4>1. m = (amount * total_shares) \div vault
        BY <1>3, <3>2 DEF shares_for_deposit
      <4>2. amount * total_shares \in Nat
        BY <1>1, <2>1, MulNat
      <4> HIDE DEF m
      <4>3. m * vault <= amount * total_shares
        BY <1>1, <3>2, <4>1, <4>2, DivBounds
      <4>4. m * vault = vault * m
        BY <1>1, <2>1, MulComm
      <4> QED BY <4>3, <4>4
    <3> QED BY <1>1, <3>1, <3>2
  <2> HIDE DEF m
  <2>3. vault * (total_shares + m) = vault * total_shares + vault * m
        /\ (vault + amount) * total_shares = vault * total_shares + amount * total_shares
        /\ vault * total_shares \in Nat /\ vault * m \in Nat /\ amount * total_shares \in Nat
    BY <1>1, <2>1, MulNat
  <2> QED BY <1>1, <1>3, <2>1, <2>2, <2>3
<1>4. ASSUME WithdrawLp(u)
      PROVE  vault * total_shares' <= vault' * total_shares /\ total_shares > 0
  <2> DEFINE k == pending_shares[u]
             v == value_for_shares(k, total_shares, vault)
  <2>1. /\ k \in Nat /\ total_shares > 0
        /\ vault' = vault - v /\ total_shares' = total_shares - k
    <3>1. k \in Nat
      BY DEF IInv, TypeOK
    <3>2. pending_shares[u] > 0 /\ total_shares >= pending_shares[u]
          /\ vault' = vault - v /\ total_shares' = total_shares - k
      BY <1>4 DEF WithdrawLp, BurnPending
    <3> HIDE DEF v
    <3> QED BY <1>1, <3>1, <3>2
  <2> HIDE DEF k
  <2>6. v \in Nat
    BY <1>1, <2>1, ShareTypes
  <2>2. v = (k * vault) \div total_shares
    BY DEF value_for_shares
  <2> HIDE DEF v, k
  <2>3. k * vault \in Nat
    BY <1>1, <2>1, MulNat
  <2>4. v * total_shares <= k * vault
    BY <1>1, <2>1, <2>2, <2>3, <2>6, DivBounds
  <2>5. vault * (total_shares - k) = vault * total_shares - vault * k
        /\ (vault - v) * total_shares = vault * total_shares - v * total_shares
        /\ vault * k = k * vault
        /\ vault * total_shares \in Nat /\ v * total_shares \in Nat
    BY <1>1, <2>1, <2>6, MulNat, MulComm, MulDiff
  <2> QED BY <2>1, <2>3, <2>4, <2>5, <2>6
<1>5. CASE total_shares = 0
  <2>1. ShareValue(other) = 0
    BY <1>5 DEF ShareValue
  <2>2. total_shares' > 0 => value_for_shares(s, total_shares', vault') \in Nat
    BY <1>1, ShareTypes
  <2> QED BY <1>1, <1>2, <2>1, <2>2 DEF ShareValue, value_for_shares
<1>6. CASE total_shares > 0 /\ total_shares' > 0
  <2> DEFINE V == vault
             W == vault'
             T == total_shares
             R == total_shares'
  <2>1. V * R <= W * T
    BY <1>3, <1>4, <1>6
  <2>2. ShareValue(other) = (s * V) \div T /\ ShareValue(other)' = (s * W) \div R
    BY <1>2, <1>6 DEF ShareValue, value_for_shares
  <2>3. s \in Nat /\ V \in Nat /\ W \in Nat /\ T \in Nat \ {0} /\ R \in Nat \ {0}
    BY <1>1, <1>6
  <2> HIDE DEF s, V, W, T, R
  <2>4. (s * V) \div T <= (s * W) \div R
    BY <2>1, <2>3, ProRataMono
  <2> DEFINE x == s * V
             y == s * W
  <2>5. x \in Nat /\ y \in Nat
    BY <2>3, MulNat
  <2> HIDE DEF x, y
  <2>6. x \div T \in Nat /\ y \div R \in Nat
    BY <2>3, <2>5, DivBounds
  <2>7. (s * V) \div T = x \div T /\ (s * W) \div R = y \div R
    BY DEF x, y
  <2> QED BY <2>2, <2>4, <2>6, <2>7
<1>7. CASE total_shares > 0 /\ total_shares' = 0
  <2>1. s = 0
    BY <1>1, <1>7
  <2>2. s * vault = 0 /\ 0 \div total_shares = 0
    BY <1>1, <1>7, <2>1
  <2>3. ShareValue(other) = (s * vault) \div total_shares
    BY <1>7 DEF ShareValue, value_for_shares
  <2>4. ShareValue(other)' = 0
    BY <1>7 DEF ShareValue
  <2> QED BY <2>2, <2>3, <2>4
<1> QED BY <1>1, <1>5, <1>6, <1>7

\* No LP who comes or goes takes anything from the others, in any reachable
\* state: the others' shares are part of the supply, since the books agree.
THEOREM OthersKeepTheirValue == Spec => OthersNeverDiluted
<1>1. ASSUME IInv, IInv', SharesAgree', [Next]_vars,
             NEW u \in LPs, NEW other \in LPs \ {u},
             (\E amount \in LpAmounts : DepositLp(u, amount)) \/ WithdrawLp(u)
      PROVE  ShareValue(other)' >= ShareValue(other)
  <2>1. /\ \A v \in LPs : shares'[v] \in Nat
        /\ total_shares' = SumOver(shares', LPs)
    BY <1>1 DEF IInv, TypeOK, SharesAgree
  <2>2. shares'[other] <= total_shares'
    BY <2>1, SumNat, LeverageConstants
  <2>3. shares'[other] = shares[other]
    BY <1>1 DEF DepositLp, WithdrawLp, BurnPending, IInv, TypeOK
  <2> QED BY <1>1, <2>2, <2>3, NobodyIsDiluted
<1>2. IInv /\ IInv' /\ SharesAgree' /\ [Next]_vars =>
        [\A u \in LPs :
           (\E amount \in LpAmounts : DepositLp(u, amount)) \/ WithdrawLp(u)
             => \A other \in LPs \ {u} : ShareValue(other)' >= ShareValue(other)]_vars
  BY <1>1
<1> QED BY <1>2, Invariance, ShareBooksAgree, PTL DEF Spec, OthersNeverDiluted

-----------------------------------------------------------------------------
(* What the panel relies on of the program's state. *)

\* No mark is from the future, the config is one the program accepted, and no
\* proof resolves a market to Void.
ClockAhead == mark_ts <= now
ConfigAccepted == validate_leverage_params(params)
NeverVoid == outcome # "Void"

PanelInv == ClockAhead /\ ConfigAccepted /\ NeverVoid

LEMMA InitPanel == Init => PanelInv
BY LeverageConstants DEF Init, LifeInit, PanelInv, ClockAhead, ConfigAccepted, NeverVoid

LEMMA StepPanel == IInv /\ PanelInv /\ [Next]_vars => PanelInv'
<1> SUFFICES ASSUME IInv, PanelInv, [Next]_vars PROVE PanelInv'
  OBVIOUS
<1> USE DEF PanelInv, ClockAhead, ConfigAccepted, NeverVoid
<1>1. now \in Nat /\ mark_ts \in Nat
  BY DEF IInv, TypeOK
<1>2. CASE MarketStep
  <2>1. UNCHANGED <<params, mark_ts>>
    BY <1>2 DEF MarketStep, poolVars, funding
  <2>2. now' \in Nat /\ now' >= now /\ outcome' # "Void"
    BY <1>1, <1>2 DEF MarketStep, LifeNext, Tick, InitMarket, ActivateMarket, FreezeMarket,
                      Advance, CloseMarket, Resolve, OutcomeName
  <2> QED BY <1>1, <2>1, <2>2
<1>3. ASSUME NEW p \in LeverageParams, UpdateLeverageParams(p) PROVE PanelInv'
  BY <1>3 DEF UpdateLeverageParams, lifeVars, funding
<1>4. ASSUME NEW marks \in Marks, PostMark(marks) PROVE PanelInv'
  BY <1>1, <1>4 DEF PostMark, lifeVars
<1>5. ASSUME UNCHANGED <<lifeVars, params, funding>> PROVE PanelInv'
  BY <1>5 DEF lifeVars, funding
<1>6. CASE AdminOrKeeper
  <2>1. CASE InitLeveragePool
    BY <1>5, <2>1 DEF InitLeveragePool
  <2>2. ASSUME NEW v \in Valves, SetRiskValve(v[1], v[2], v[3]) PROVE PanelInv'
    BY <1>5, <2>2 DEF SetRiskValve
  <2> QED BY <1>3, <1>4, <1>6, <2>1, <2>2 DEF AdminOrKeeper
<1>7. CASE Provide
  BY <1>5, <1>7 DEF Provide, OpenLpAccount, WithdrawLp, DepositLp, RequestWithdraw
<1>8. CASE Leverage
  BY <1>5, <1>8 DEF Leverage, CloseLeverage, ExpirePosition, Settle, OpenLeverage
<1>9. CASE UNCHANGED vars
  BY <1>5, <1>9 DEF vars, poolVars
<1> QED BY <1>2, <1>6, <1>7, <1>8, <1>9 DEF Next

LEMMA PanelInvariance == Spec => [](IInv /\ PanelInv)
<1>1. Init => PanelInv
  BY InitPanel
<1>2. IInv /\ PanelInv /\ [Next]_vars => PanelInv'
  BY StepPanel
<1> QED BY <1>1, <1>2, Invariance, PTL DEF Spec

-----------------------------------------------------------------------------
(* The form. *)

\* The client's taper is the program's.
LEMMA SameTaper ==
  ASSUME NEW p \in 0..(BPS_DENOM - 1), NEW most \in Nat, most >= 2
  PROVE  maxLeverageForP(p, most) = max_leverage_for_p(p, most)
<1> DEFINE edge == Smaller(p, BPS_DENOM - p)
           cut == ((most - 1) * edge) \div TAPER_FULL_EDGE_BPS
<1>1. edge \in Nat /\ most - 1 \in Nat /\ TAPER_FULL_EDGE_BPS \in Nat \ {0}
  BY FundingConstants DEF Smaller
<1>2. edge = IF p <= BPS_DENOM - p THEN p ELSE BPS_DENOM - p
  BY DEF Smaller
<1> HIDE DEF edge
<1>3. cut \in Nat
  BY <1>1, MulNat, DivBounds
<1>4. maxLeverageForP(p, most) =
        IF edge >= TAPER_FULL_EDGE_BPS THEN most ELSE Larger(1, 1 + cut)
  BY DEF maxLeverageForP, edge
<1>5. max_leverage_for_p(p, most) =
        IF edge >= TAPER_FULL_EDGE_BPS THEN most ELSE 1 + cut
  BY <1>2 DEF max_leverage_for_p
<1> HIDE DEF cut
<1>6. Larger(1, 1 + cut) = 1 + cut
  BY <1>3 DEF Larger
<1> QED BY <1>4, <1>5, <1>6

LEMMA MirrorsProgram ==
  ASSUME IInv, PanelInv
  PROVE  FormMirrorsProgram
<1> SUFFICES ASSUME NEW o \in Outcomes, NEW leverage \in 2..UI_MAX_LEVERAGE, PanelShown,
                    now # freeze_ts - params.leverage_cutoff_secs
             PROVE  FormOffers(o, leverage) <=> MayOpen(o, leverage)
  BY DEF FormMirrorsProgram
<1>1. /\ now \in Nat /\ freeze_ts \in Nat /\ mark_ts \in Nat /\ valve_paused_until \in Nat
      /\ params.max_leverage \in Nat /\ params.leverage_cutoff_secs \in Nat
      /\ params.max_mark_age_secs \in Nat
      /\ mark_bps[o] \in 0..(BPS_DENOM - 1)
  BY DEF IInv, TypeOK, LeverageConfig
<1>2. leverage \in Nat /\ leverage >= 2 /\ leverage <= 5
  BY DEF UI_MAX_LEVERAGE
<1>3. params.max_leverage >= 2 /\ params.funding_epoch_secs > 0 /\ PoolLoads
  BY <1>1 DEF PanelShown, PanelInv, ConfigAccepted, validate_leverage_params, PoolLoads
<1> DEFINE cap == max_leverage_for_p(mark_bps[o], params.max_leverage)
<1>4. taperCap(o) = cap
  BY <1>1, <1>3, SameTaper DEF taperCap
<1>5. cap \in Int /\ cap <= params.max_leverage
  <2> DEFINE p == mark_bps[o]
             most == params.max_leverage
             edge == IF p <= BPS_DENOM - p THEN p ELSE BPS_DENOM - p
  <2>1. edge \in Nat /\ most - 1 \in Nat /\ TAPER_FULL_EDGE_BPS \in Nat \ {0} /\ most >= 1
    BY <1>1, <1>3, FundingConstants
  <2>2. cap = IF edge >= TAPER_FULL_EDGE_BPS THEN most
              ELSE 1 + ((most - 1) * edge) \div TAPER_FULL_EDGE_BPS
    BY <2>1 DEF max_leverage_for_p
  <2>3. ASSUME edge < TAPER_FULL_EDGE_BPS
        PROVE  /\ ((most - 1) * edge) \div TAPER_FULL_EDGE_BPS \in Nat
               /\ ((most - 1) * edge) \div TAPER_FULL_EDGE_BPS <= most - 1
    <3> HIDE DEF edge, most
    <3> DEFINE x == (most - 1) * edge
               d == TAPER_FULL_EDGE_BPS
    <3>1. x \in Nat /\ d \in Nat \ {0} /\ x <= (most - 1) * d
      BY <2>1, <2>3, MulNat, IntMulMono
    <3> HIDE DEF x, d
    <3>2. x \div d \in Nat /\ (x \div d) * d <= x
      BY <3>1, DivBounds
    <3>3. (x \div d) * d <= (most - 1) * d
      <4>1. (x \div d) * d \in Int /\ (most - 1) * d \in Int
        BY <2>1, <3>1, <3>2, MulNat
      <4> QED BY <3>1, <3>2, <4>1
    <3>4. x \div d <= most - 1
      BY <2>1, <3>1, <3>2, <3>3, MulCancel
    <3> QED BY <3>2, <3>4 DEF x, d
  <2> HIDE DEF edge, most, cap
  <2>4. most \in Nat
    BY <1>1 DEF most
  <2>5. cap \in Int /\ cap <= most
    BY <2>1, <2>2, <2>3, <2>4
  <2> QED BY <2>5 DEF most
<1> HIDE DEF cap
<1>6. FormOffers(o, leverage) <=>
        /\ leverage <= params.max_leverage
        /\ state = "Trading" /\ mark_ts # 0 /\ now - mark_ts <= params.max_mark_age_secs
        /\ now <= freeze_ts - params.leverage_cutoff_secs
        /\ now >= valve_paused_until /\ leverage <= cap
  BY <1>1, <1>2, <1>4, <1>5
     DEF FormOffers, levChoices, Smaller, UI_MAX_LEVERAGE, guardReason
<1>7. MayOpen(o, leverage) <=>
        /\ state = "Trading" /\ mark_ts > 0 /\ now - mark_ts <= params.max_mark_age_secs
        /\ now < freeze_ts - params.leverage_cutoff_secs
        /\ now >= valve_paused_until /\ leverage <= cap
  BY <1>1, <1>2, <1>3 DEF MayOpen, MarkFresh, cap
<1> QED BY <1>1, <1>2, <1>5, <1>6, <1>7
-----------------------------------------------------------------------------
(* The preview. *)

\* Rounded down twice, the units and then the gain, a quotient loses less than two.
LEMMA RoundedTwice ==
  ASSUME NEW n \in Nat, NEW e \in Nat \ {0}, NEW g \in Nat, NEW b \in Nat \ {0}, g < b
  PROVE  LET booked == ((n \div e) * g) \div b
         IN  booked * (e * b) <= n * g /\ n * g < (booked + 2) * (e * b)
<1> DEFINE u == n \div e
           k == (u * g) \div b
<1>1. u \in Nat /\ u * e <= n /\ n < u * e + e
  BY DivBounds
<1> HIDE DEF u
<1>2. u * g \in Nat
  BY <1>1, MulNat
<1>3. k \in Nat /\ k * b <= u * g /\ u * g < k * b + b
  BY <1>2, DivBounds
<1> HIDE DEF k
<1> DEFINE kb == k * b
           ug == u * g
<1>4. kb \in Nat /\ ug \in Nat /\ kb <= ug /\ ug + 1 <= kb + b
  BY <1>2, <1>3, MulNat
<1>5. k * (e * b) = kb * e /\ (k + 2) * (e * b) = kb * e + b * e + b * e
  BY <1>3
<1>6. (u * e) * g = ug * e /\ (u * e + e) * g = ug * e + e * g
  BY <1>1
<1>7. u * e \in Nat /\ (u * e) * g <= n * g /\ n * g <= (u * e + e) * g
  BY <1>1, MulNat, MulMono
<1> HIDE DEF kb, ug
<1>8. kb * e <= ug * e /\ ug * e + e <= kb * e + b * e
  <2>1. kb * e <= ug * e /\ (ug + 1) * e <= (kb + b) * e
    BY <1>4, MulMono
  <2>2. (ug + 1) * e = ug * e + e /\ (kb + b) * e = kb * e + b * e
    BY <1>4
  <2> QED BY <2>1, <2>2
<1>9. e * g <= b * e
  <2>1. g * e <= b * e
    BY MulMono
  <2>2. g * e = e * g
    BY MulComm
  <2> QED BY <2>1, <2>2
<1>10. /\ kb * e \in Nat /\ ug * e \in Nat /\ b * e \in Nat /\ e * g \in Nat /\ n * g \in Nat
  BY <1>4, MulNat
<1>11. k * (e * b) <= n * g /\ n * g < (k + 2) * (e * b)
  BY <1>5, <1>6, <1>7, <1>8, <1>9, <1>10
<1> QED BY <1>11 DEF k, u

LEMMA PreviewHolds ==
  ASSUME IInv
  PROVE  PreviewIsBooked
<1> SUFFICES ASSUME NEW o \in Outcomes, NEW c \in Collaterals, NEW leverage \in levChoices,
                    FormOffers(o, leverage)
             PROVE  LET shown == preview(o, c, leverage)
                        booked == Liability(NewPosition(o, c, leverage))
                        most == shown.maxProfit
                    IN  /\ shown.notional = NewPosition(o, c, leverage).notional
                        /\ booked * most[2] <= most[1] /\ most[1] < (booked + 2) * most[2]
  BY DEF PreviewIsBooked
<1> DEFINE e == mark_bps[o]
           n == c * leverage * BPS_DENOM
           g == BPS_DENOM - e
<1>1. mark_ts \in Nat /\ mark_ts # 0
  BY DEF IInv, TypeOK, FormOffers, guardReason
<1>2. e \in Postable
  BY <1>1 DEF IInv, MarksPosted
<1>3. e \in Nat \ {0} /\ BPS_DENOM \in Nat \ {0} /\ g \in Nat /\ g < BPS_DENOM
  BY <1>2, FundingConstants DEF Postable
<1>4. c \in Nat /\ leverage \in Nat
  BY LeverageConstants DEF levChoices
<1>5. n \in Nat
  <2>1. c * leverage \in Nat
    BY <1>4, MulNat
  <2> QED BY <1>3, <2>1, MulNat
<1>6. Liability(NewPosition(o, c, leverage)) = ((n \div e) * g) \div BPS_DENOM
  BY DEF Liability, NewPosition, max_gain, units_for
<1>7. preview(o, c, leverage).maxProfit = <<n * g, e * BPS_DENOM>>
  <2>1. ~(mark_bps[o] <= 0)
    BY <1>3
  <2> QED BY <2>1 DEF preview, maxGain, unitsFor
<1>8. preview(o, c, leverage).notional = NewPosition(o, c, leverage).notional
  BY DEF preview, NewPosition
<1> HIDE DEF e, n, g
<1> DEFINE booked == ((n \div e) * g) \div BPS_DENOM
           most == preview(o, c, leverage).maxProfit
<1>9. booked * (e * BPS_DENOM) <= n * g /\ n * g < (booked + 2) * (e * BPS_DENOM)
  BY <1>3, <1>5, RoundedTwice
<1>10. most[1] = n * g /\ most[2] = e * BPS_DENOM
  BY <1>7
<1>11. Liability(NewPosition(o, c, leverage)) = booked
  BY <1>6
<1> HIDE DEF booked, most
<1>12. booked * most[2] <= most[1] /\ most[1] < (booked + 2) * most[2]
  BY <1>9, <1>10
<1> QED BY <1>8, <1>11, <1>12 DEF most

-----------------------------------------------------------------------------
(* The equity of a position. *)

\* Whole units pass through a quotient.
LEMMA DivShift ==
  ASSUME NEW a \in Int, NEW x \in Int, NEW d \in Nat \ {0}
  PROVE  (a * d + x) \div d = a + x \div d
<1> DEFINE q == x \div d
           r == (a * d + x) \div d
<1>1. q \in Int /\ q * d <= x /\ x < q * d + d
  OBVIOUS
<1>2. a * d + x \in Int
  OBVIOUS
<1>3. r \in Int /\ r * d <= a * d + x /\ a * d + x < r * d + d
  OBVIOUS
<1> HIDE DEF q, r
<1>4. (a + q) * d = a * d + q * d /\ (r + 1) * d = r * d + d /\ (a + q + 1) * d = a * d + q * d + d
  BY <1>1, <1>3
<1>5. (a + q) * d < (r + 1) * d /\ r * d < (a + q + 1) * d
  BY <1>1, <1>2, <1>3, <1>4
<1>6. a + q < r + 1
  <2>1. (r + 1) * d > (a + q) * d
    BY <1>5
  <2> QED BY <1>1, <1>3, <2>1
<1>7. r < a + q + 1
  BY <1>1, <1>3, <1>5
<1> QED BY <1>1, <1>3, <1>6, <1>7 DEF q, r

\* The view accrues the funding the program charges.
LEMMA SameFunding ==
  ASSUME IInv, NEW t \in Live
  PROVE  FundingShown(pos[t]) = FundingOwed(pos[t])
<1> DEFINE p == pos[t]
           idx == cum_funding_index[p.outcome_idx]
           snap == p.funding_index_snap
<1>1. p \in LevPosition /\ snap <= idx
  BY LivePositions DEF IInv, SnapsBehind
<1>2. p.notional \in Nat /\ idx \in Nat /\ snap \in Nat /\ INDEX_SCALE \in Nat \ {0}
  BY <1>1, FundingConstants DEF IInv, TypeOK, LevPosition
<1> HIDE DEF p
<1>3. CASE idx <= snap
  <2>1. idx - snap = 0
    BY <1>1, <1>2, <1>3
  <2>2. p.notional * (idx - snap) = 0
    BY <1>2, <2>1
  <2>3. 0 \div INDEX_SCALE = 0
    BY <1>2
  <2> QED BY <1>3, <2>2, <2>3
          DEF FundingShown, fundingAccruedBase, FundingOwed, funding_accrued, p
<1>4. CASE ~(idx <= snap)
  BY <1>4 DEF FundingShown, fundingAccruedBase, FundingOwed, funding_accrued, p
<1> QED BY <1>3, <1>4

LEMMA EquityHolds ==
  ASSUME IInv, PanelInv, NEW t \in Live
  PROVE  EquityShownIsPaid(pos[t])
<1> SUFFICES ASSUME Settles
             PROVE  SettlementPayout(pos[t]) = EquityShown(pos[t]) \div BPS_DENOM
  BY DEF EquityShownIsPaid
<1> DEFINE p == pos[t]
           price == SettlePrice(p)
           x == p.units * (price - p.entry_mark_bps)
           owed == FundingOwed(p)
           whole == p.collateral - owed
           y == whole * BPS_DENOM + x
<1>1. p \in LevPosition /\ owed \in Nat /\ price \in Settleable /\ BPS_DENOM \in Nat \ {0}
  BY LivePositions, FundingOwedType, SettlePriceType, FundingConstants DEF IInv
<1>2. ~Voided /\ currentMarkBps(p) = price
  BY DEF PanelInv, NeverVoid, Voided, Concluded, Won, currentMarkBps, SettlePrice, Settles
<1>3. FundingShown(p) = owed
  BY SameFunding
<1>4. EquityShown(p) = Larger(0, y)
  BY <1>2, <1>3 DEF EquityShown, equityOf, pnlAt
<1>5. SettlementPayout(p) = settle_payout(p.collateral, x \div BPS_DENOM, owed)
  BY DEF SettlementPayout, pnl
<1>6. p.collateral \in Nat /\ x \in Int
  BY <1>1 DEF LevPosition, Settleable, Postable
<1> HIDE DEF p, price, x, owed
<1>7. whole \in Int
  BY <1>1, <1>6
<1> HIDE DEF whole
<1>8. y \div BPS_DENOM = whole + x \div BPS_DENOM /\ y \in Int
  <2>1. (whole * BPS_DENOM + x) \div BPS_DENOM = whole + x \div BPS_DENOM
    BY <1>1, <1>6, <1>7, DivShift
  <2>2. whole * BPS_DENOM \in Int
    BY <1>1, <1>7
  <2> QED BY <1>6, <2>1, <2>2
<1>9. x \div BPS_DENOM \in Int
  BY <1>1, <1>6
<1>10. SettlementPayout(p) = IF y \div BPS_DENOM <= 0 THEN 0 ELSE y \div BPS_DENOM
  BY <1>1, <1>5, <1>6, <1>8, <1>9 DEF settle_payout, whole
<1> HIDE DEF y
<1>11. 0 \div BPS_DENOM = 0
  BY <1>1
<1>12. CASE y <= 0
  <2>1. y \div BPS_DENOM <= 0 /\ y \div BPS_DENOM \in Int
    BY <1>1, <1>8, <1>11, <1>12, DivMono
  <2> QED BY <1>4, <1>8, <1>10, <1>11, <1>12, <2>1 DEF Larger, p
<1>13. CASE y > 0
  <2>1. y \div BPS_DENOM >= 0 /\ y \div BPS_DENOM \in Int
    BY <1>1, <1>8, <1>11, <1>13, DivMono
  <2> QED BY <1>4, <1>8, <1>10, <1>13, <2>1 DEF Larger, p
<1> QED BY <1>8, <1>12, <1>13

-----------------------------------------------------------------------------
(* The fee-death of a position. *)

\* Rounding up covers the ratio.
LEMMA CeilCovers ==
  ASSUME NEW a \in Nat, NEW d \in Nat \ {0}
  PROVE  ceil_div(a, d) \in Nat /\ a <= ceil_div(a, d) * d
<1> DEFINE b == a + d - 1
           q == b \div d
<1>1. b \in Nat
  OBVIOUS
<1>2. q \in Nat /\ b < q * d + d
  BY <1>1, DivBounds
<1>3. q * d \in Nat
  BY <1>2, MulNat
<1> HIDE DEF q
<1>4. a <= q * d
  BY <1>2, <1>3
<1> QED BY <1>2, <1>4 DEF q, ceil_div

\* The seconds the client computes are enough for a charge of k / d a second
\* to reach R.
LEMMA SecsCover ==
  ASSUME NEW R \in Nat \ {0}, NEW d \in Nat \ {0}, NEW k \in Nat \ {0}, NEW h \in Nat \ {0}
  PROVE  LET secs == ceil_div((R * d) * h, k * h)
         IN  secs \in Nat \ {0} /\ R * d <= secs * k
<1> DEFINE num == (R * d) * h
           den == k * h
           secs == ceil_div(num, den)
<1>1. R * d \in Nat \ {0}
  BY MulPos
<1>2. num \in Nat /\ num > 0 /\ den \in Nat \ {0}
  BY <1>1, MulPos
<1> HIDE DEF num, den
<1>3. secs \in Nat /\ num <= secs * den /\ secs > 0
  BY <1>2, CeilCovers, CeilDiv
<1> HIDE DEF secs
<1>4. (R * d) * h <= (secs * k) * h
  <2>1. secs * (k * h) = (secs * k) * h
    BY <1>3
  <2> QED BY <1>3, <2>1 DEF num, den
<1>5. secs * k \in Nat
  BY <1>3, MulNat
<1>6. R * d <= secs * k
  BY <1>1, <1>4, <1>5, MulCancel
<1> QED BY <1>3, <1>6 DEF secs, num, den

\* What a rate a charged for e seconds adds to the index of a position of size
\* n is worth R, when n a secs covers R d, e is no shorter than secs and the
\* divisor d2 of the charge no larger than d.
LEMMA ChargeCovers ==
  ASSUME NEW n \in Nat, NEW a \in Nat, NEW S \in Nat \ {0}, NEW R \in Nat,
         NEW d \in Nat \ {0}, NEW d2 \in Nat \ {0}, d2 <= d,
         NEW secs \in Nat, NEW e \in Nat, secs <= e,
         R * d <= secs * (n * a)
  PROVE  S * R <= n * ceil_div(a * S * e, d2)
<1> DEFINE num == a * S * e
           delta == ceil_div(num, d2)
<1>1. a * S \in Nat /\ num \in Nat /\ n * a \in Nat /\ R * d \in Nat
  <2>1. a * S \in Nat
    BY MulNat
  <2> QED BY <2>1, MulNat
<1>2. delta \in Nat /\ num <= delta * d2
  BY <1>1, CeilCovers
<1> HIDE DEF delta
<1>3. delta * d2 \in Nat /\ delta * d \in Nat /\ delta * d2 <= delta * d
  BY <1>2, IntMulMono, MulNat
<1>4. num <= delta * d
  BY <1>1, <1>2, <1>3
<1>5. n * num \in Nat /\ n * (delta * d) \in Nat /\ n * num <= n * (delta * d)
  BY <1>1, <1>3, <1>4, IntMulMono, MulNat
<1>6. secs * (n * a) <= e * (n * a) /\ secs * (n * a) \in Nat /\ e * (n * a) \in Nat
  BY <1>1, MulMono
<1>7. R * d <= e * (n * a)
  BY <1>1, <1>6
<1>8. (R * d) * S <= (e * (n * a)) * S
  BY <1>1, <1>6, <1>7, MulMono
<1>9. (R * d) * S = (S * R) * d /\ (e * (n * a)) * S = n * num /\ n * (delta * d) = (n * delta) * d
  BY <1>2
<1> HIDE DEF num
<1>10. (S * R) * d <= (n * delta) * d
  <2>1. (S * R) * d <= n * num
    BY <1>8, <1>9
  <2>2. (S * R) * d \in Int
    OBVIOUS
  <2> QED BY <1>5, <1>9, <2>1, <2>2
<1>11. S * R \in Nat /\ n * delta \in Nat
  BY <1>2, MulNat
<1>12. S * R <= n * delta
  BY <1>10, <1>11, MulCancel
<1> QED BY <1>12 DEF delta, num

LEMMA FeeDeathHolds ==
  ASSUME IInv, PanelInv, NEW t \in Live
  PROVE  FeeDeathIsDue(pos[t])
<1> DEFINE p == pos[t]
           m == mark_bps[p.outcome_idx]
           idx == cum_funding_index[p.outcome_idx]
           snap == p.funding_index_snap
           fee == params.time_fee_num
           F == FundingOwed(p)
           R == p.collateral - F
           T == Larger(freeze_ts - now, MIN_T_REMAINING_SECS)
           a == fee * m * (BPS_DENOM - m)
           k == p.notional * fee * m * (BPS_DENOM - m)
           num == R * (BPS_DENOM * BPS_DENOM * T * BPS_DENOM) * 3600
           den == k * 3600 * BPS_DENOM
           secs == ceil_div(num, den)
           at == now + secs
           e == at - last_funding_ts
           left == freeze_ts - at
           T2 == IF left >= MIN_T_REMAINING_SECS THEN left ELSE MIN_T_REMAINING_SECS
           d == BPS_DENOM * BPS_DENOM * T
           d2 == BPS_DENOM * BPS_DENOM * T2
           delta == ceil_div(a * INDEX_SCALE * e, d2)
<1>1. p \in LevPosition /\ snap <= idx /\ F \in Nat
  BY LivePositions, FundingOwedType DEF IInv, SnapsBehind
<1>2. /\ p.notional \in Nat /\ p.collateral \in Nat /\ idx \in Nat /\ snap \in Nat
      /\ m \in Nat /\ m <= BPS_DENOM - 1 /\ fee \in Nat
      /\ now \in Nat /\ freeze_ts \in Nat /\ last_funding_ts \in Nat /\ last_funding_ts <= now
  <2>1. m \in 0..(BPS_DENOM - 1)
    BY <1>1 DEF IInv, TypeOK, LevPosition
  <2> QED BY <1>1, <2>1, FundingConstants
          DEF IInv, TypeOK, LevPosition, LeverageConfig, ChargedToMark, PanelInv, ClockAhead
<1>3. /\ BPS_DENOM \in Nat \ {0} /\ INDEX_SCALE \in Nat \ {0}
      /\ MIN_T_REMAINING_SECS \in Nat \ {0} /\ BPS_DENOM - m \in Nat
  BY <1>2, FundingConstants
<1>4. T \in Nat \ {0} /\ freeze_ts - now <= T /\ MIN_T_REMAINING_SECS <= T
  BY <1>2, <1>3 DEF Larger
<1>5. SUFFICES ASSUME DeathShown(p) # NoEstimate, activeValveMultiplier = BPS_DENOM
               PROVE  LET death == DeathShown(p)
                          after == now + ceil_div(death[1], death[2])
                          then == idx + idx_delta(fee, m, after - last_funding_ts,
                                                  freeze_ts - after, BPS_DENOM)
                      IN  funding_accrued(p.notional, then, snap) >= p.collateral
  BY DEF FeeDeathIsDue
<1>6. ~Concluded /\ R > 0 /\ den > 0 /\ DeathShown(p) = <<num, den>>
  <2>1. ~Concluded
    BY <1>5 DEF DeathShown
  <2>2. currentMarkBps(p) = m /\ FundingShown(p) = F
    BY <2>1, SameFunding DEF currentMarkBps
  <2>3. DeathShown(p) =
          feeDeathSecs(p.collateral, F, <<den, BPS_DENOM * BPS_DENOM * T * BPS_DENOM>>)
    BY <1>5, <2>1, <2>2 DEF DeathShown, fundingPerHour
  <2>4. DeathShown(p) = IF R <= 0 \/ den <= 0 THEN NoEstimate ELSE <<num, den>>
    BY <2>3 DEF feeDeathSecs
  <2>5. R \in Int /\ den \in Int
    BY <1>1, <1>2, <1>3
  <2> HIDE DEF R, den, num
  <2> QED BY <1>5, <2>1, <2>4, <2>5
<1>7. k = p.notional * a /\ a \in Nat /\ k \in Nat
  <2> HIDE DEF p, m, fee
  <2>1. fee * m \in Nat
    BY <1>2, MulNat
  <2>2. a \in Nat
    BY <1>3, <2>1, MulNat
  <2>3. k = p.notional * a
    BY <1>2, <1>3
  <2> QED BY <1>2, <2>2, <2>3, MulNat
<1>8. R \in Nat \ {0} /\ k \in Nat \ {0}
  <2>1. R \in Int
    BY <1>1, <1>2
  <2>2. k # 0
    <3> HIDE DEF k
    <3>1. ASSUME k = 0 PROVE FALSE
      <4>1. den = 0
        BY <1>3, <3>1
      <4> QED BY <1>6, <4>1
    <3> QED BY <3>1
  <2> HIDE DEF R, k
  <2> QED BY <1>6, <1>7, <2>1, <2>2
<1>9. secs \in Nat \ {0} /\ R * d <= secs * k
  <2> DEFINE h == 3600 * BPS_DENOM
  <2>1. num = (R * d) * h /\ den = k * h
    <3> HIDE DEF R, k, T
    <3> QED BY <1>3, <1>4, <1>8
  <2>2. d \in Nat \ {0} /\ h \in Nat \ {0}
    <3> HIDE DEF T
    <3>1. BPS_DENOM * BPS_DENOM \in Nat \ {0}
      BY <1>3, MulPos
    <3> QED BY <1>3, <1>4, <3>1, MulPos
  <2> HIDE DEF R, k, num, den, d, h
  <2>3. LET s == ceil_div((R * d) * h, k * h) IN s \in Nat \ {0} /\ R * d <= s * k
    BY <1>8, <2>2, SecsCover
  <2> QED BY <2>1, <2>3
<1> HIDE DEF secs
<1>10. e \in Nat /\ e > 0 /\ secs <= e /\ left \in Int /\ left <= freeze_ts - now
  BY <1>2, <1>9
<1> HIDE DEF at
<1>11. T2 \in Nat \ {0} /\ T2 <= T
  <2> HIDE DEF T, left
  <2> QED BY <1>2, <1>3, <1>4, <1>10
<1> HIDE DEF T, T2
<1>12. d \in Nat \ {0} /\ d2 \in Nat \ {0} /\ d2 <= d
  <2>1. BPS_DENOM * BPS_DENOM \in Nat \ {0}
    BY <1>3, MulPos
  <2>2. d \in Nat \ {0} /\ d2 \in Nat \ {0}
    BY <1>4, <1>11, <2>1, MulPos
  <2>3. BPS_DENOM * BPS_DENOM * T2 <= BPS_DENOM * BPS_DENOM * T
    BY <1>4, <1>11, <2>1, IntMulMono
  <2> QED BY <2>2, <2>3
<1> HIDE DEF d, d2, e, R, k, a
<1>13. INDEX_SCALE * R <= p.notional * delta
  <2>1. R * d <= secs * (p.notional * a)
    BY <1>7, <1>9
  <2>2. /\ p.notional \in Nat /\ a \in Nat /\ INDEX_SCALE \in Nat \ {0} /\ R \in Nat
        /\ d \in Nat \ {0} /\ d2 \in Nat \ {0} /\ d2 <= d
        /\ secs \in Nat /\ e \in Nat /\ secs <= e
    BY <1>2, <1>3, <1>7, <1>8, <1>9, <1>10, <1>12
  <2> QED BY <2>1, <2>2, ChargeCovers
<1>14. idx_delta(fee, m, e, left, BPS_DENOM) = delta
  BY <1>3, <1>10 DEF idx_delta, a, d2, T2
<1>15. delta \in Nat
  <2>1. a * INDEX_SCALE * e \in Nat
    <3>1. a * INDEX_SCALE \in Nat
      BY <1>3, <1>7, MulNat
    <3> QED BY <1>10, <3>1, MulNat
  <2> QED BY <1>12, <2>1, CeilCovers
<1> HIDE DEF delta
<1>16. funding_accrued(p.notional, idx + delta, snap) >= p.collateral
  <2> DEFINE n == p.notional
             gone == idx - snap
             C == p.collateral
  <2>1. n \in Nat /\ gone \in Nat /\ C \in Nat /\ F = (n * gone) \div INDEX_SCALE
    BY <1>1, <1>2 DEF FundingOwed, funding_accrued
  <2>2. C = F + R
    BY <1>1, <2>1 DEF R
  <2>3. (idx + delta) - snap = gone + delta
    BY <1>2, <1>15
  <2> HIDE DEF gone, idx, snap
  <2>4. funding_accrued(n, idx + delta, snap) = (n * (gone + delta)) \div INDEX_SCALE
    <3>1. funding_accrued(n, idx + delta, snap) = (n * ((idx + delta) - snap)) \div INDEX_SCALE
      BY DEF funding_accrued
    <3> QED BY <2>3, <3>1
  <2> HIDE DEF n, C, F, p
  <2>5. n * gone \in Nat
    BY <2>1, MulNat
  <2>6. F \in Nat /\ F * INDEX_SCALE <= n * gone
    BY <1>3, <2>1, <2>5, DivBounds
  <2>7. n * (gone + delta) = n * gone + n * delta
    BY <1>15, <2>1
  <2>8. C * INDEX_SCALE = F * INDEX_SCALE + INDEX_SCALE * R
    BY <1>3, <1>8, <2>2, <2>6
  <2>9. INDEX_SCALE * R <= n * delta
    BY <1>13 DEF n
  <2>10. n * delta \in Nat /\ F * INDEX_SCALE \in Nat /\ INDEX_SCALE * R \in Nat
    BY <1>3, <1>8, <1>15, <2>1, <2>6, MulNat
  <2>11. C * INDEX_SCALE <= n * (gone + delta)
    BY <2>5, <2>6, <2>7, <2>8, <2>9, <2>10
  <2>12. n * (gone + delta) \in Int
    BY <2>5, <2>7, <2>10
  <2>13. C <= (n * (gone + delta)) \div INDEX_SCALE
    BY <1>3, <2>1, <2>11, <2>12, DivLargest
  <2>14. (n * (gone + delta)) \div INDEX_SCALE \in Int
    BY <1>3, <2>12
  <2> QED BY <2>1, <2>4, <2>13, <2>14 DEF n, C
<1>17. DeathShown(p)[1] = num /\ DeathShown(p)[2] = den
  BY <1>6
<1> HIDE DEF num, den
<1>18. idx_delta(fee, m, at - last_funding_ts, freeze_ts - at, BPS_DENOM) = delta
  BY <1>14 DEF e
<1> HIDE DEF idx, snap, m, fee
<1>19. LET then == idx + idx_delta(fee, m, at - last_funding_ts, freeze_ts - at, BPS_DENOM)
       IN  funding_accrued(p.notional, then, snap) >= p.collateral
  BY <1>16, <1>18
<1>20. now + ceil_div(DeathShown(p)[1], DeathShown(p)[2]) = at
  BY <1>17 DEF at, secs
<1> QED BY <1>19, <1>20

-----------------------------------------------------------------------------
(* The theorem. *)

\* Whatever the marks, the parameters and the schedules, the panel offers what
\* the program takes, previews what it books, and shows of a position what
\* settling pays and when its funding has eaten it: leverage.ts mirrors funding.rs.
THEOREM PanelAlwaysTruthful == Spec => []PanelTellsTruth
<1>1. IInv /\ PanelInv => PanelTellsTruth
  BY MirrorsProgram, PreviewHolds, EquityHolds, FeeDeathHolds DEF PanelTellsTruth
<1> QED BY <1>1, PanelInvariance, PTL
=============================================================================
