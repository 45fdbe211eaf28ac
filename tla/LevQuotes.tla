----------------------------- MODULE LevQuotes ------------------------------
(***************************************************************************)
(* What the web client's leverage panel computes from the accounts it      *)
(* reads: whether its form offers an open, what the preview and the view   *)
(* of a position say.  The client mirrors the program in floating point;   *)
(* here its numbers are exact: a ratio is <<numerator, denominator>>, and  *)
(* an amount in a position's view is in parts of 1 / BPS_DENOM of a base   *)
(* unit.  The panel is taken with its reads up to date; WebClient models   *)
(* how they come to be.                                                    *)
(***************************************************************************)
EXTENDS LeveragePool

\* The form's chips stop there, whatever the config allows.
UI_MAX_LEVERAGE == 5
NoEstimate == <<>>

Larger(x, y) == IF x >= y THEN x ELSE y
Smaller(x, y) == IF x <= y THEN x ELSE y

-----------------------------------------------------------------------------
(* lib/leverage.ts *)

unitsFor(collateral, leverage, entry) ==
  IF entry <= 0 THEN <<0, 1>> ELSE <<collateral * leverage * BPS_DENOM, entry>>
maxGain(units, entry) == <<units[1] * (BPS_DENOM - entry), units[2] * BPS_DENOM>>
pnlAt(units, entry, mark) == units * (mark - entry)

\* Broken: a position under water is shown with a negative equity.
equityUnclamped(collateral, gain, owed) == (collateral - owed) * BPS_DENOM + gain
equityOf(collateral, gain, owed) == Larger(0, (collateral - owed) * BPS_DENOM + gain)

fundingAccruedBase(notional, idxNow, idxSnap) ==
  IF idxNow <= idxSnap THEN 0 ELSE (notional * (idxNow - idxSnap)) \div INDEX_SCALE

fundingPerHour(timeFeeNum, p, tRemaining, notional, multiplier) ==
  <<notional * timeFeeNum * p * (BPS_DENOM - p) * 3600 * multiplier,
    BPS_DENOM * BPS_DENOM * Larger(tRemaining, MIN_T_REMAINING_SECS) * BPS_DENOM>>

maxLeverageForP(p, maxLeverage) ==
  LET edge == Smaller(p, BPS_DENOM - p)
  IN  IF edge >= TAPER_FULL_EDGE_BPS THEN maxLeverage
      ELSE Larger(1, 1 + ((maxLeverage - 1) * edge) \div TAPER_FULL_EDGE_BPS)

feeDeathSecs(collateral, fundingSoFar, burnPerHour) ==
  LET remaining == collateral - fundingSoFar
  IN  IF remaining <= 0 \/ burnPerHour[1] <= 0 THEN NoEstimate
      ELSE <<remaining * burnPerHour[2] * 3600, burnPerHour[1]>>

-----------------------------------------------------------------------------
(* The form. *)

activeValveMultiplier == IF now < valve_until_ts THEN valve_multiplier_bps ELSE BPS_DENOM

\* Nothing is rendered without a pool, or with leverage off in the config.
PanelShown == AccountExists /\ exists /\ params.max_leverage >= 2

levChoices == 2..Smaller(params.max_leverage, UI_MAX_LEVERAGE)
taperCap(o) == maxLeverageForP(mark_bps[o], params.max_leverage)

guardReason(o, leverage) ==
  \/ state # "Trading"
  \/ mark_ts = 0
  \/ now - mark_ts > params.max_mark_age_secs
  \/ now > freeze_ts - params.leverage_cutoff_secs
  \/ now < valve_paused_until
  \/ leverage > taperCap(o)

\* The chip and the button are both enabled.
FormOffers(o, leverage) ==
  PanelShown /\ leverage \in levChoices /\ ~guardReason(o, leverage)

preview(o, collateral, leverage) ==
  [notional |-> collateral * leverage,
   maxProfit |-> maxGain(unitsFor(collateral, leverage, mark_bps[o]), mark_bps[o])]

-----------------------------------------------------------------------------
(* The view of a position. *)

Concluded == state = "Resolved"
Voided == Concluded /\ outcome = "Void"       \* no step makes it so
Won(p) == Concluded /\ ~Voided /\ outcome = OutcomeName[p.outcome_idx]

currentMarkBps(p) ==
  IF Concluded THEN (IF Won(p) THEN BPS_DENOM ELSE 0) ELSE mark_bps[p.outcome_idx]

FundingShown(p) ==
  fundingAccruedBase(p.notional, cum_funding_index[p.outcome_idx], p.funding_index_snap)

EquityShown(p) ==
  equityOf(p.collateral,
           IF Voided THEN 0 ELSE pnlAt(p.units, p.entry_mark_bps, currentMarkBps(p)),
           FundingShown(p))

DeathShown(p) ==
  IF Concluded THEN NoEstimate
  ELSE feeDeathSecs(p.collateral, FundingShown(p),
         fundingPerHour(params.time_fee_num, currentMarkBps(p), freeze_ts - now,
                        p.notional, activeValveMultiplier))

-----------------------------------------------------------------------------
(* What the panel says is what the program does. *)

\* The form offers exactly the opens whose market, mark, valve and leverage the
\* program accepts; open interest and coverage it leaves to the simulation.
\* The last second before the cutoff is the form's alone.
FormMirrorsProgram ==
  \A o \in Outcomes, leverage \in 2..UI_MAX_LEVERAGE :
    PanelShown /\ now # freeze_ts - params.leverage_cutoff_secs =>
      (FormOffers(o, leverage) <=> MayOpen(o, leverage))

\* The largest profit the preview names exceeds what the pool books for it by
\* the two roundings of the program at most.
PreviewIsBooked ==
  \A o \in Outcomes, c \in Collaterals, leverage \in levChoices :
    FormOffers(o, leverage) =>
      LET shown == preview(o, c, leverage)
          booked == Liability(NewPosition(o, c, leverage))
          most == shown.maxProfit
      IN  /\ shown.notional = NewPosition(o, c, leverage).notional
          /\ booked * most[2] <= most[1] /\ most[1] < (booked + 2) * most[2]

\* Settling a position pays what its view shows, rounded down.
EquityShownIsPaid(p) == Settles => SettlementPayout(p) = EquityShown(p) \div BPS_DENOM

\* With no valve open, a position nobody touches can be expired by the time
\* shown, once the keeper posts a mark then.
FeeDeathIsDue(p) ==
  LET death == DeathShown(p)
      at == now + ceil_div(death[1], death[2])
      then == cum_funding_index[p.outcome_idx]
                + idx_delta(params.time_fee_num, mark_bps[p.outcome_idx], at - last_funding_ts,
                            freeze_ts - at, BPS_DENOM)
  IN  death # NoEstimate /\ activeValveMultiplier = BPS_DENOM =>
        funding_accrued(p.notional, then, p.funding_index_snap) >= p.collateral

\* The leverage panel tells the truth: what it offers the program takes, what it
\* previews the program books, and what it shows of a position is what settling
\* pays and when its funding has eaten it.  leverage.ts:1-8, leverage-panel.tsx:264-267.
PanelTellsTruth ==
  /\ FormMirrorsProgram /\ PreviewIsBooked
  /\ PanelShown => \A t \in Live : EquityShownIsPaid(pos[t]) /\ FeeDeathIsDue(pos[t])
=============================================================================
