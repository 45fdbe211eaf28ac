SPECIFICATION WebSpec
CONSTANTS
  Pages <- MCPages
  Results = {"Team1", "Team2", "Void"}
  Outcomes = {"Team1"}
  Multiples = {2}
  FAUCET = 2
  MaxAsks = 2
  MaxTxs = 1
  MaxSwitches = 2
  MaxErrors = 1
INVARIANT
  ClaimOffered
PROPERTIES
  PageSettles
  FlowEnds
CHECK_DEADLOCK FALSE
