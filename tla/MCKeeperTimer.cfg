CONSTANTS
  k1 = k1  k2 = k2  s1 = s1
  Ticks = {k1, k2}
  Streams = {}
  NoFixture = NoFixture
  Idle = Idle
  Outcomes <- MCOutcomes
  Schedules <- MCSchedules
  resolution_grace_secs = 0
  StartTime = 0
  MaxTime = 2
  Results = {1}
  Guesses = {0, 1}
  ENABLE_SCORE_STREAM = FALSE
  MAX_RESOLVE_ATTEMPTS = 2
  maxAttempts = 2
  maxProofRefetches = 1
  ClockLead = 1
  FaultyCalls = {"activate", "freeze"}
  MaxFaults = 2
  MaxCrashes = 1
SPECIFICATION Spec
INVARIANTS
  TrackerBehindChain
  EndedMeansFrozen
PROPERTY
  MarketGetsResolved
CHECK_DEADLOCK FALSE
