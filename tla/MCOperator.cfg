SPECIFICATION Spec
CONSTANTS
  Fixtures = 3
  OddsRows <- MCOddsRows
  MAX_SEED = 2
  SEED_CAP = 3
  SEED_KEEPER = 200
  SEED_SCRIPT = 60
  Reserve = 1
  Funds = {70, 430}
  Grant = 100
  MaxClaims = 1
  MaxScripts = 1
  MaxSeedMisses = 1
  Scripts = {"devnet-init", "enable-leverage", "full-circle", "leverage-circle", "close-market", "fund-usdt", "txline-token"}
  Purse = {0, 130}
  GRANT = 100
  SEED = 200
  BUY = 5
  SUBSIDY = 110
  LEV_SEED = 18
  LP = 45
  COLLATERAL = 8
  TARGET = 220
  MaxFailures = 2
INVARIANTS
  ScriptCanPay
  DepositsOnce
  DoneMeansReady
PROPERTIES
  SeederSeeds
  RerunsFinish
CHECK_DEADLOCK FALSE
