CONSTANTS
  k1 = k1  k2 = k2  s1 = s1
  Ticks = {k1}
  Streams = {s1}
  NoFixture = NoFixture
  Idle = Idle
  Outcomes <- MCOutcomes
  Schedules <- MCSchedules
  resolution_grace_secs = 0
  StartTime = 0
  MaxTime = 2
  Results = {1}
  Guesses = {0, 1}
  ENABLE_SCORE_STREAM = TRUE
  MAX_RESOLVE_ATTEMPTS = 2
  maxAttempts = 2
  maxProofRefetches = 1
  ClockLead = 0
  FaultyCalls = {"activate", "freeze", "resolve", "history", "proof"}
  MaxFaults = 2
  MaxCrashes = 1
SPECIFICATION Spec
PROPERTY
  KeeperConcludes
CHECK_DEADLOCK FALSE
