--------------------------- MODULE MCLeveragePool ---------------------------
(***************************************************************************)
(* Small instances of LeveragePool, and of the panel that shows it, for    *)
(* TLC.  Each behaviour is about the positions of several traders in one   *)
(* LP's pool, or about the shares of several LPs around one position.      *)
(***************************************************************************)
EXTENDS LevQuotes, TLC

CONSTANTS lp1, lp2, t1, t2

MCOutcomes == {0, 1, 2}
MCSchedules == {<<2, 4>>}
MCShortSchedules == {<<2, 3>>}
MCEven == [o \in MCOutcomes |-> 5]
MCRising == [o \in MCOutcomes |-> IF o = 0 THEN 8 ELSE 1]
MCMarks == {MCEven, MCRising}
MCValves == {<<1, 30, 2>>}

Params(time_fee, max_lev) ==
  [max_open_interest |-> 16, time_fee_num |-> time_fee, funding_epoch_secs |-> 1,
   max_mark_age_secs |-> 1, leverage_cutoff_secs |-> 0, max_leverage |-> max_lev,
   min_coverage_bps |-> 12]
MCParamChanges == {Params(1, 3), Params(0, 0)}

VARIABLE sharing

\* What a behaviour about shares, or about positions, leaves out.
OneTrader ==
  /\ Cardinality(Live) <= 1
  /\ valve_until_ts = 0 /\ params.max_leverage > 0 /\ mark_bps # MCRising
OneProvider == Cardinality(lps) <= 1 /\ pending_withdraw_shares = 0

MCInit == Init /\ sharing \in BOOLEAN /\ (sharing => OneTrader)

MCNext ==
  /\ UNCHANGED sharing
  /\ Next /\ IF sharing THEN OneTrader' ELSE OneProvider'

MCSpec == MCInit /\ [][MCNext]_<<vars, sharing>>

MCSymmetry == Permutations(LPs) \cup Permutations(Traders)
=============================================================================
