SPECIFICATION Spec
CONSTANTS
  ONE_Q64 = 1024
  BPS_DENOM = 1000
  Q_MAX = 4
  B = 3
  CostQ <- MCCostQ
  PriceBps <- MCPriceBps
  base_fee_bps = 10
  max_fee_bps = 500
  vfc_num = 1
  filter_period = 2
  decay_period = 3
  reduction_bps = 5
  max_v_acc = 300
  SCALE = 1
  CONTROL_DENOM = 400
  REDUCTION_DENOM = 10
  FEE_BPS_DENOM = 1000
  Users = {u1}
  Amounts = {2}
  Seeds <- MCSeeds
  SurplusSeeds = {0}
  Schedules <- MCSchedules
  resolution_grace_secs = 0
  resolution_threshold = 0
  fixture_id = 1
  stat_key_a = 1
  stat_key_b = 2
  resolution_period = 100
  Matches <- MCMatches
  MaxTime = 4
  MaxIncarnations = 1
  MaxPurchases = 2
INVARIANTS
  OutcomeProven
  SurchargeRemembersBurst
CHECK_DEADLOCK FALSE
