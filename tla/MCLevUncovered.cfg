CONSTANTS
  lp1 = lp1  lp2 = lp2  t1 = t1  t2 = t2
  LPs = {lp1}
  Traders = {t1, t2}
  NoPosition = NoPosition
  Outcomes <- MCOutcomes
  Schedules <- MCShortSchedules
  resolution_grace_secs = 1
  StartTime = 1
  MaxTime = 4
  BPS_DENOM = 10
  INDEX_SCALE = 4
  MIN_T_REMAINING_SECS = 1
  TAPER_FULL_EDGE_BPS = 2
  LpAmounts = {3}
  Requests = {}
  Collaterals = {4}
  Leverages = {2}
  Marks <- MCMarks
  Valves <- MCValves
  LeverageParams <- MCParamChanges
  LP_WITHDRAW_DELAY_SECS = 1
  VALVE_MAX_MULTIPLIER_BPS = 50
  VALVE_MAX_DURATION_SECS = 2
  MaxEntries = 3
SPECIFICATION MCSpec
SYMMETRY MCSymmetry
INVARIANT EverySettlementIsCovered
