---------------------------- MODULE LeveragePool ----------------------------
(***************************************************************************)
(* The leverage layer of one market (programs/amm): the LeveragePool       *)
(* account and its vault, the LP accounts, the leveraged positions and the *)
(* leverage fields of the MarketConfig, through every instruction that     *)
(* touches them, while the market goes through its life cycle.             *)
(*                                                                         *)
(* As in SpotMarket an instruction is one action and a check is a guard.   *)
(* Every instruction here loads the Market account, so none runs before    *)
(* init_market or after close_market; the pool, the LP accounts and the    *)
(* positions outlive both, keyed by the market's address.                  *)
(*                                                                         *)
(* A definition under a "Broken:" comment is a bug the code does not have: *)
(* substituted for the definition after it, it shows that a property of    *)
(* the runs can fail (README.md, mutants).                                 *)
(***************************************************************************)
EXTENDS MarketLifecycle, Funding, FiniteSetsExt, Sums

CONSTANTS
  LPs, Traders,
  NoPosition,               \* the LevPosition account does not exist
  LpAmounts, Requests, Collaterals, Leverages,   \* what instructions carry
  Marks,                    \* mark vectors the keeper may post
  Valves,                   \* <<pause_secs, multiplier_bps, window_secs>>
  LeverageParams,           \* what the admin may set the leverage fields to
  LP_WITHDRAW_DELAY_SECS, VALVE_MAX_MULTIPLIER_BPS, VALVE_MAX_DURATION_SECS,
  MaxEntries                \* bound on deposits and opens: money is finite

VARIABLES
  params,                                          \* MarketConfig, leverage fields
  exists, vault, total_shares, pending_withdraw_shares,     \* LeveragePool
  open_interest, total_max_payout, mark_bps, mark_ts, last_funding_ts,
  cum_funding_index, valve_paused_until, valve_multiplier_bps, valve_until_ts,
  lps, shares, pending_shares, unlock_ts,          \* LpAccounts
  pos,                                             \* LevPositions
  requested_at,                                    \* history: see below
  entries

(* requested_at is the time of each LP's latest request, and entries counts *)
(* the deposits and opens.  No guard but the bound reads them.              *)

exposure == <<open_interest, total_max_payout>>
funding == <<mark_bps, mark_ts, last_funding_ts, cum_funding_index>>
valve == <<valve_paused_until, valve_multiplier_bps, valve_until_ts>>
shareBook == <<total_shares, pending_withdraw_shares, lps, shares, pending_shares,
               unlock_ts, requested_at>>
poolVars == <<params, exists, vault, shareBook, exposure, funding, valve, pos, entries>>
vars == <<lifeVars, poolVars>>

LeverageConfig ==
  [max_open_interest : Nat, time_fee_num : Nat, funding_epoch_secs : Nat,
   max_mark_age_secs : Nat, leverage_cutoff_secs : Nat, max_leverage : Nat,
   min_coverage_bps : Nat]
LevPosition ==
  [outcome_idx : Outcomes, collateral : Nat, notional : Nat, units : Nat,
   entry_mark_bps : Postable, funding_index_snap : Nat]

ASSUME LeverageConstants ==
  /\ IsFiniteSet(LPs) /\ IsFiniteSet(Traders)
  /\ LpAmounts \subseteq Nat \ {0} /\ Collaterals \subseteq Nat \ {0}
  /\ Requests \subseteq Nat \ {0}
  /\ Leverages \subseteq Nat
  /\ Marks \subseteq [Outcomes -> Postable]
  /\ Valves \subseteq Nat \X Nat \X Nat
  /\ LeverageParams \subseteq LeverageConfig
  /\ LP_WITHDRAW_DELAY_SECS \in Nat /\ MaxEntries \in Nat
  /\ VALVE_MAX_MULTIPLIER_BPS \in Nat /\ VALVE_MAX_MULTIPLIER_BPS >= BPS_DENOM
  /\ VALVE_MAX_DURATION_SECS \in Nat
  /\ NoPosition \notin LevPosition
  /\ resolution_grace_secs \in Nat /\ Schedules \subseteq Nat \X Nat
  /\ StartTime \in Nat \ {0}        \* a zero mark_ts means "never posted"

\* The rules create_market_config and update_leverage_params share.
validate_leverage_params(p) ==
  p.max_leverage > 0 =>
    /\ p.funding_epoch_secs > 0 /\ p.max_mark_age_secs > 0
    /\ p.min_coverage_bps >= BPS_DENOM /\ p.time_fee_num > 0

Live == {t \in Traders : pos[t] # NoPosition}

Init ==
  /\ LifeInit
  /\ params \in {p \in LeverageParams : validate_leverage_params(p)}
  /\ exists = FALSE /\ vault = 0
  /\ total_shares = 0 /\ pending_withdraw_shares = 0
  /\ open_interest = 0 /\ total_max_payout = 0
  /\ mark_bps = [o \in Outcomes |-> 0] /\ mark_ts = 0 /\ last_funding_ts = 0
  /\ cum_funding_index = [o \in Outcomes |-> 0]
  /\ valve_paused_until = 0 /\ valve_multiplier_bps = BPS_DENOM /\ valve_until_ts = 0
  /\ lps = {} /\ shares = [u \in LPs |-> 0] /\ pending_shares = [u \in LPs |-> 0]
  /\ unlock_ts = [u \in LPs |-> 0] /\ requested_at = [u \in LPs |-> 0]
  /\ pos = [t \in Traders |-> NoPosition]
  /\ entries = 0

-----------------------------------------------------------------------------
(* The admin and the keeper. *)

\* The config account outlives every market; its fields are read live.
UpdateLeverageParams(p) ==
  /\ validate_leverage_params(p)
  /\ params' = p
  /\ UNCHANGED <<lifeVars, exists, vault, shareBook, exposure, funding, valve, pos, entries>>

\* The pool account is created once; what Init gives its fields is what the
\* instruction writes.
InitLeveragePool ==
  /\ AccountExists /\ ~exists
  /\ params.max_leverage > 0
  /\ exists' = TRUE
  /\ UNCHANGED <<lifeVars, params, vault, shareBook, exposure, funding, valve, pos, entries>>

PoolLoads == AccountExists /\ exists

\* The elapsed segment is charged at the marks in force until now, at the
\* valve's multiplier while its window lasts.
PostMark(marks) ==
  LET multiplier == IF now < valve_until_ts THEN valve_multiplier_bps ELSE BPS_DENOM
      accrued(o) == IF mark_ts = 0 THEN 0
                    ELSE idx_delta(params.time_fee_num, mark_bps[o], now - last_funding_ts,
                                   freeze_ts - now, multiplier)
  IN /\ PoolLoads
     /\ mark_ts > 0 => now >= last_funding_ts
     /\ cum_funding_index' = [o \in Outcomes |-> cum_funding_index[o] + accrued(o)]
     /\ mark_bps' = marks /\ mark_ts' = now /\ last_funding_ts' = now
     /\ UNCHANGED <<lifeVars, params, exists, vault, shareBook, exposure, valve, pos, entries>>

SetRiskValve(pause_secs, multiplier_bps, window_secs) ==
  /\ PoolLoads
  /\ multiplier_bps \in BPS_DENOM..VALVE_MAX_MULTIPLIER_BPS
  /\ pause_secs \in 0..VALVE_MAX_DURATION_SECS
  /\ window_secs \in 0..VALVE_MAX_DURATION_SECS
  /\ valve_paused_until' = now + pause_secs
  /\ valve_multiplier_bps' = multiplier_bps
  /\ valve_until_ts' = now + window_secs
  /\ UNCHANGED <<lifeVars, params, exists, vault, shareBook, exposure, funding, pos, entries>>

-----------------------------------------------------------------------------
(* Liquidity providers. *)

OpenLpAccount(u) ==
  /\ AccountExists
  /\ u \notin lps
  /\ lps' = lps \cup {u}
  /\ UNCHANGED <<lifeVars, params, exists, vault, total_shares, pending_withdraw_shares,
                 shares, pending_shares, unlock_ts, requested_at, exposure, funding,
                 valve, pos, entries>>

Entry ==
  /\ entries < MaxEntries
  /\ entries' = entries + 1

\* Shares are priced on the vault before the deposit, traders' collateral
\* included.
DepositLp(u, amount) ==
  LET minted == shares_for_deposit(amount, total_shares, vault)
  IN /\ PoolLoads
     /\ u \in lps
     /\ minted > 0
     /\ vault' = vault + amount
     /\ total_shares' = total_shares + minted
     /\ shares' = [shares EXCEPT ![u] = @ + minted]
     /\ Entry
     /\ UNCHANGED <<lifeVars, params, exists, pending_withdraw_shares, lps, pending_shares,
                    unlock_ts, requested_at, exposure, funding, valve, pos>>

\* Broken: a request joins the one pending without restarting its clock.
UnlockOfFirst(u) ==
  IF pending_shares[u] > 0 THEN unlock_ts[u] ELSE now + LP_WITHDRAW_DELAY_SECS

UnlockTime(u) == now + LP_WITHDRAW_DELAY_SECS

RequestWithdraw(u, s) ==
  /\ PoolLoads
  /\ u \in lps
  /\ s <= shares[u] - pending_shares[u]
  /\ total_shares > 0 /\ vault >= value_for_shares(s, total_shares, vault)
  /\ coverage_ok(vault - value_for_shares(s, total_shares, vault),
                 params.min_coverage_bps, total_max_payout, 0)
  /\ pending_shares' = [pending_shares EXCEPT ![u] = @ + s]
  /\ unlock_ts' = [unlock_ts EXCEPT ![u] = UnlockTime(u)]
  /\ pending_withdraw_shares' = pending_withdraw_shares + s
  /\ requested_at' = [requested_at EXCEPT ![u] = now]
  /\ UNCHANGED <<lifeVars, params, exists, vault, total_shares, lps, shares, exposure,
                 funding, valve, pos, entries>>

\* Broken: the pool's count of pending shares is left as it was.
BurnUnbooked(u) ==
  /\ total_shares' = total_shares - pending_shares[u]
  /\ shares' = [shares EXCEPT ![u] = @ - pending_shares[u]]
  /\ pending_shares' = [pending_shares EXCEPT ![u] = 0]
  /\ UNCHANGED pending_withdraw_shares

BurnPending(u) ==
  /\ total_shares' = total_shares - pending_shares[u]
  /\ shares' = [shares EXCEPT ![u] = @ - pending_shares[u]]
  /\ pending_shares' = [pending_shares EXCEPT ![u] = 0]
  /\ pending_withdraw_shares' = pending_withdraw_shares - pending_shares[u]

\* Paid at the share price of now; coverage is not looked at again.
WithdrawLp(u) ==
  LET value == value_for_shares(pending_shares[u], total_shares, vault)
  IN /\ PoolLoads
     /\ u \in lps
     /\ pending_shares[u] > 0
     /\ now >= unlock_ts[u]
     /\ total_shares >= pending_shares[u] /\ shares[u] >= pending_shares[u]
     /\ pending_withdraw_shares >= pending_shares[u]
     /\ BurnPending(u)
     /\ vault >= value
     /\ vault' = vault - value
     /\ UNCHANGED <<lifeVars, params, exists, lps, unlock_ts, requested_at, exposure,
                    funding, valve, pos, entries>>

-----------------------------------------------------------------------------
(* Leveraged positions. *)

MarkFresh == mark_ts > 0 /\ now - mark_ts <= params.max_mark_age_secs

\* A position as open_leverage writes it, at the mark of now.
NewPosition(o, collateral, leverage) ==
  [outcome_idx |-> o, collateral |-> collateral, notional |-> collateral * leverage,
   units |-> units_for(collateral, leverage, mark_bps[o]),
   entry_mark_bps |-> mark_bps[o], funding_index_snap |-> cum_funding_index[o]]

Liability(p) == max_gain(p.units, p.entry_mark_bps)

\* What open_leverage asks of the market, the mark, the valve and the leverage.
MayOpen(o, leverage) ==
  /\ PoolLoads
  /\ params.max_leverage > 0 /\ params.funding_epoch_secs > 0
  /\ state = "Trading"
  /\ now < freeze_ts - params.leverage_cutoff_secs
  /\ MarkFresh
  /\ now >= valve_paused_until
  /\ leverage >= 2 /\ leverage <= max_leverage_for_p(mark_bps[o], params.max_leverage)

\* Guards in the handler's order; coverage reads the vault before the
\* collateral is in.  init fails while the trader's position account exists.
OpenLeverage(t, o, collateral, leverage) ==
  LET p == NewPosition(o, collateral, leverage)
  IN /\ t \notin Live
     /\ MayOpen(o, leverage)
     /\ open_interest + p.notional <= params.max_open_interest
     /\ coverage_ok(vault, params.min_coverage_bps, total_max_payout, Liability(p))
     /\ vault' = vault + collateral
     /\ pos' = [pos EXCEPT ![t] = p]
     /\ open_interest' = open_interest + p.notional
     /\ total_max_payout' = total_max_payout + Liability(p)
     /\ Entry
     /\ UNCHANGED <<lifeVars, params, exists, shareBook, funding, valve>>

\* The price a position settles at: the mark while the market is live, and
\* the result afterwards.
SettlePrice(p) ==
  IF state \in {"Trading", "Locked"} THEN mark_bps[p.outcome_idx]
  ELSE IF outcome = OutcomeName[p.outcome_idx] THEN BPS_DENOM ELSE 0

\* Settlement is possible at all: a fresh mark while live, a result after.
Settles == (state \in {"Trading", "Locked"} /\ MarkFresh) \/ state = "Resolved"

FundingOwed(p) ==
  funding_accrued(p.notional, cum_funding_index[p.outcome_idx], p.funding_index_snap)

SettlementPayout(p) ==
  settle_payout(p.collateral, pnl(p.units, p.entry_mark_bps, SettlePrice(p)), FundingOwed(p))

\* Broken: the liability of the position stays booked.
ReleaseInterestOnly(p) ==
  /\ open_interest' = IF open_interest >= p.notional THEN open_interest - p.notional ELSE 0
  /\ UNCHANGED total_max_payout

Release(p) ==
  /\ open_interest' = IF open_interest >= p.notional THEN open_interest - p.notional ELSE 0
  /\ total_max_payout' =
       IF total_max_payout >= Liability(p) THEN total_max_payout - Liability(p) ELSE 0

\* Both settling instructions; the transfer fails if the vault is short.
Settle(t) ==
  /\ PoolLoads
  /\ t \in Live
  /\ Settles
  /\ vault >= SettlementPayout(pos[t])
  /\ vault' = vault - SettlementPayout(pos[t])
  /\ Release(pos[t])
  /\ pos' = [pos EXCEPT ![t] = NoPosition]
  /\ UNCHANGED <<lifeVars, params, exists, shareBook, funding, valve, entries>>

CloseLeverage(t) == Settle(t)

\* Anyone may settle a position whose funding has eaten its collateral.
ExpirePosition(t) ==
  /\ t \in Live /\ FundingOwed(pos[t]) >= pos[t].collateral
  /\ Settle(t)

-----------------------------------------------------------------------------
MarketStep == LifeNext /\ UNCHANGED poolVars

AdminOrKeeper ==
  \/ \E p \in LeverageParams : UpdateLeverageParams(p)
  \/ InitLeveragePool
  \/ \E marks \in Marks : PostMark(marks)
  \/ \E v \in Valves : SetRiskValve(v[1], v[2], v[3])

Provide ==
  \E u \in LPs :
    \/ OpenLpAccount(u) \/ WithdrawLp(u)
    \/ \E amount \in LpAmounts : DepositLp(u, amount)
    \/ \E s \in Requests : RequestWithdraw(u, s)

Leverage ==
  \E t \in Traders :
    \/ CloseLeverage(t) \/ ExpirePosition(t)
    \/ \E o \in Outcomes, c \in Collaterals, l \in Leverages : OpenLeverage(t, o, c, l)

Next == MarketStep \/ AdminOrKeeper \/ Provide \/ Leverage

Spec == Init /\ [][Next]_vars
-----------------------------------------------------------------------------
(* Properties. *)

TypeOK ==
  /\ now \in Nat /\ state \in MarketState /\ freeze_ts \in Nat /\ kickoff_ts \in Nat
  /\ params \in LeverageConfig
  /\ exists \in BOOLEAN /\ vault \in Nat
  /\ total_shares \in Nat /\ pending_withdraw_shares \in Nat
  /\ open_interest \in Nat /\ total_max_payout \in Nat
  /\ mark_bps \in [Outcomes -> 0..(BPS_DENOM - 1)]
  /\ mark_ts \in Nat /\ last_funding_ts \in Nat
  /\ cum_funding_index \in [Outcomes -> Nat]
  /\ valve_paused_until \in Nat /\ valve_until_ts \in Nat
  /\ valve_multiplier_bps \in BPS_DENOM..VALVE_MAX_MULTIPLIER_BPS
  /\ lps \subseteq LPs /\ shares \in [LPs -> Nat] /\ pending_shares \in [LPs -> Nat]
  /\ unlock_ts \in [LPs -> Nat] /\ requested_at \in [LPs -> Nat]
  /\ pos \in [Traders -> LevPosition \cup {NoPosition}]
  /\ entries \in Nat

\* The pool's two exposure counters are the sums over the live positions:
\* no saturating subtraction ever hides a mismatch.  state.rs:332-335.
ExposureIsPositions ==
  /\ open_interest = SumOver([t \in Live |-> pos[t].notional], Live)
  /\ total_max_payout = SumOver([t \in Live |-> Liability(pos[t])], Live)

\* The share supply is what the LPs hold, the earmark what they have asked to
\* take out, and nobody has asked for more than they hold.
SharesAgree ==
  /\ total_shares = SumOver(shares, LPs)
  /\ pending_withdraw_shares = SumOver(pending_shares, LPs)
  /\ \A u \in LPs : pending_shares[u] <= shares[u]

\* Whatever mark is posted, whichever result comes and however long a position
\* is held, settling it pays at most its collateral and the liability booked
\* when it was opened.  funding.rs:134-136.
LiabilityBoundsPayout ==
  \A t \in Live, price \in Settleable :
    LET p == pos[t]
    IN settle_payout(p.collateral, pnl(p.units, p.entry_mark_bps, price), FundingOwed(p))
         \in 0..(p.collateral + Liability(p))

\* Holding a position over time is never free: every mark posted later than
\* the one before raises the funding index of every outcome, however short
\* the segment, while the config charges for time at all.  funding.rs:39-41.
TimeIsNeverFree ==
  [][mark_ts > 0 /\ mark_ts' > mark_ts /\ params.time_fee_num > 0 =>
       \A o \in Outcomes : cum_funding_index'[o] > cum_funding_index[o]]_vars

ShareValue(u) == IF total_shares = 0 THEN 0 ELSE value_for_shares(shares[u], total_shares, vault)

\* An LP coming or going takes nothing from the others: with the floors of
\* deposit and withdrawal, no other LP's shares lose value.  funding.rs:49-50.
OthersNeverDiluted ==
  [][\A u \in LPs :
       (\E amount \in LpAmounts : DepositLp(u, amount)) \/ WithdrawLp(u)
         => \A other \in LPs \ {u} : ShareValue(other)' >= ShareValue(other)]_vars

\* Every share paid out was asked for at least the delay before, also when
\* several requests were pending together.  request_withdraw.rs:11-13.
NoEarlyExit ==
  [][\A u \in LPs : WithdrawLp(u) => now >= requested_at[u] + LP_WITHDRAW_DELAY_SECS]_vars

\* Said by close_leverage.rs:183-185: coverage makes every settlement payable.
EverySettlementIsCovered ==
  PoolLoads => \A t \in Live : Settles => vault >= SettlementPayout(pos[t])
=============================================================================
