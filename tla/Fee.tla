-------------------------------- MODULE Fee ---------------------------------
(***************************************************************************)
(* The dynamic volatility fee, programs/amm/src/fee.rs: a price move arms  *)
(* an accumulator, time decays it in three zones, and the next trade is    *)
(* charged a quadratic of what is left.  The constants are the fee fields  *)
(* of a MarketConfig, with the relations create_market_config enforces.    *)
(*                                                                         *)
(* A definition under a "Broken:" comment is a bug the code does not have: *)
(* substituted for the definition after it, it shows that a property of    *)
(* the runs can fail (README.md, mutants).                                 *)
(***************************************************************************)
EXTENDS Integers

CONSTANTS
  base_fee_bps, max_fee_bps, vfc_num, filter_period, decay_period,
  reduction_bps, max_v_acc,
  SCALE,                            \* VOLATILITY_ACCUMULATOR_SCALE
  CONTROL_DENOM, REDUCTION_DENOM,   \* denominators of the slope and of R
  FEE_BPS_DENOM                     \* one, in basis points

ASSUME FeeConfig ==
  /\ base_fee_bps \in Nat /\ max_fee_bps \in Nat /\ reduction_bps \in Nat
  /\ filter_period \in Nat /\ decay_period \in Nat
  /\ vfc_num \in Nat \ {0} /\ max_v_acc \in Nat \ {0}
  /\ SCALE \in Nat \ {0} /\ CONTROL_DENOM \in Nat \ {0}
  /\ REDUCTION_DENOM \in Nat \ {0} /\ FEE_BPS_DENOM \in Nat \ {0}
  /\ base_fee_bps <= max_fee_bps
  /\ max_fee_bps < FEE_BPS_DENOM    \* MAX_FEE_BPS_CAP = 9_900
  /\ reduction_bps <= REDUCTION_DENOM
  /\ filter_period <= decay_period

\* Broken: a burst decays like the middle zone.
decay_without_filter(v_acc, elapsed) ==
  IF elapsed < decay_period THEN (v_acc * reduction_bps) \div REDUCTION_DENOM ELSE 0

\* Step A: no decay in a burst, one reduction in the middle zone, then reset.
decay_v_ref(v_acc, elapsed) ==
  CASE elapsed < filter_period -> v_acc
    [] elapsed >= filter_period /\ elapsed < decay_period ->
         (v_acc * reduction_bps) \div REDUCTION_DENOM
    [] OTHER -> 0

\* Step B: base plus the quadratic variable part, rounded up and capped.
fee_bps_from_v_ref(v_ref) ==
  LET denom == CONTROL_DENOM * SCALE * SCALE
      fee == base_fee_bps + (vfc_num * v_ref * v_ref + denom - 1) \div denom
  IN IF fee <= max_fee_bps THEN fee ELSE max_fee_bps

\* Step C: what this trade's price move leaves for the next one.
next_v_acc(v_ref, old_price, new_price) ==
  LET delta == IF old_price >= new_price THEN old_price - new_price
               ELSE new_price - old_price
      candidate == v_ref + delta * SCALE
  IN IF candidate <= max_v_acc THEN candidate ELSE max_v_acc

\* The part of an amount left once the fee is taken, rounded down.
after_fee(amount, fee_bps) ==
  (amount * (FEE_BPS_DENOM - fee_bps)) \div FEE_BPS_DENOM
=============================================================================
