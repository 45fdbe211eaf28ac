SPECIFICATION Spec
CONSTANTS
  FracBits = 12
  ONE_Q64 = 4096
  LN2_Q64 = 2839
  EXP_MAX_PAIRS = 20
  LN_MAX_TERMS = 40
  BPS_DENOM = 10000
  Q_MAX = 8
  Liquidities = {3, 8}
INVARIANTS
  SubsidyBounds
  SolverIsMaximal
  SlicingNeverProfits
  NoSetArbitrage
PROPERTIES
  StepsFollowCurve
CHECK_DEADLOCK FALSE
