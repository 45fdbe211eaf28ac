------------------------------ MODULE Funding -------------------------------
(***************************************************************************)
(* The arithmetic of the leverage layer, programs/amm/src/funding.rs: the  *)
(* size of a position, its gain at a mark, the funding it owes, the payout *)
(* of a settlement, the leverage taper, the coverage guard and the price   *)
(* of LP shares.  Every rounding is the code's.                            *)
(*                                                                         *)
(* A definition under a "Broken:" comment is a bug the code does not have: *)
(* substituted for the definition after it, it shows that a property of    *)
(* the runs can fail (README.md, mutants).                                 *)
(***************************************************************************)
EXTENDS Integers

CONSTANTS
  BPS_DENOM,                \* one, in basis points
  INDEX_SCALE,              \* fixed point of the funding index
  MIN_T_REMAINING_SECS,
  TAPER_FULL_EDGE_BPS       \* distance from 0 and 1 where full leverage starts

ASSUME FundingConstants ==
  /\ BPS_DENOM \in Nat \ {0, 1} /\ INDEX_SCALE \in Nat \ {0}
  /\ MIN_T_REMAINING_SECS \in Nat \ {0}
  /\ TAPER_FULL_EDGE_BPS \in Nat \ {0}

Postable == 1..(BPS_DENOM - 1)      \* marks post_mark accepts
Settleable == 0..BPS_DENOM          \* marks, and the prices of a known result

ceil_div(num, den) == (num + den - 1) \div den

units_for(collateral, leverage, entry) ==
  (collateral * leverage * BPS_DENOM) \div entry

\* The most the pool pays on top of the collateral.
max_gain(units, entry) == (units * (BPS_DENOM - entry)) \div BPS_DENOM

\* Rounded toward minus infinity, as \div does.
pnl(units, entry, mark) == (units * (mark - entry)) \div BPS_DENOM

funding_accrued(notional, idx_now, idx_snap) ==
  (notional * (idx_now - idx_snap)) \div INDEX_SCALE

\* Broken: rounded down.
idx_delta_floored(time_fee_num, p_prev, elapsed, t_remaining, multiplier) ==
  LET t_rem == IF t_remaining >= MIN_T_REMAINING_SECS THEN t_remaining
               ELSE MIN_T_REMAINING_SECS
      num == time_fee_num * p_prev * (BPS_DENOM - p_prev) * INDEX_SCALE * elapsed
  IN IF elapsed <= 0 THEN 0 ELSE num \div (BPS_DENOM * BPS_DENOM * t_rem)

\* What an elapsed segment at one mark adds to the index; the valve only
\* amplifies.
idx_delta(time_fee_num, p_prev, elapsed, t_remaining, multiplier) ==
  LET t_rem == IF t_remaining >= MIN_T_REMAINING_SECS THEN t_remaining
               ELSE MIN_T_REMAINING_SECS
      num == time_fee_num * p_prev * (BPS_DENOM - p_prev) * INDEX_SCALE * elapsed
      delta == ceil_div(num, BPS_DENOM * BPS_DENOM * t_rem)
  IN IF elapsed <= 0 THEN 0
     ELSE IF multiplier > BPS_DENOM THEN ceil_div(delta * multiplier, BPS_DENOM)
     ELSE delta

\* Broken: a loss beyond the collateral is not stopped at zero.
settle_unclamped(collateral, gain, funding) == collateral + gain - funding

\* A trader never owes more than the collateral.
settle_payout(collateral, gain, funding) ==
  LET equity == collateral + gain - funding
  IN IF equity <= 0 THEN 0 ELSE equity

max_leverage_for_p(p, max_leverage) ==
  LET edge == IF p <= BPS_DENOM - p THEN p ELSE BPS_DENOM - p
      span == IF max_leverage >= 1 THEN max_leverage - 1 ELSE 0
  IN IF edge >= TAPER_FULL_EDGE_BPS THEN max_leverage
     ELSE 1 + (span * edge) \div TAPER_FULL_EDGE_BPS

coverage_ok(vault_balance, min_coverage_bps, total_max_payout, new_max_payout) ==
  vault_balance * BPS_DENOM >= min_coverage_bps * (total_max_payout + new_max_payout)

shares_for_deposit(amount, total_shares, vault_balance) ==
  IF total_shares = 0 \/ vault_balance = 0 THEN amount
  ELSE (amount * total_shares) \div vault_balance

\* Broken: rounded up.
value_ceiled(shares, total_shares, vault_balance) ==
  ceil_div(shares * vault_balance, total_shares)

\* Defined for total_shares > 0; the code refuses the call otherwise.
value_for_shares(shares, total_shares, vault_balance) ==
  (shares * vault_balance) \div total_shares
=============================================================================
