-------------------------- MODULE MarketLifecycle ---------------------------
(***************************************************************************)
(* The life cycle of a fixture's market as everything around the spot      *)
(* program sees it: when it exists, which state it is in, when it may move *)
(* on and how it was resolved.  SpotMarket is shown to implement this      *)
(* module, and LeveragePool is built on it: the leverage instructions read *)
(* nothing else of a Market account.                                       *)
(***************************************************************************)
EXTENDS Integers

CONSTANTS
  Outcomes,                \* winning outcome indices
  Schedules,               \* <<kickoff_ts, freeze_ts>> pairs
  resolution_grace_secs,
  StartTime,               \* the clock when the system is deployed
  MaxTime                  \* bound on the clock

VARIABLES now, state, outcome, kickoff_ts, freeze_ts

lifeVars == <<now, state, outcome, kickoff_ts, freeze_ts>>

MarketState == {"Uninitialized", "Open", "Trading", "Locked", "Resolved", "Closed"}
AccountExists == state \notin {"Uninitialized", "Closed"}
OutcomeName == [o \in Outcomes |->
                  IF o = 0 THEN "Team1" ELSE IF o = 1 THEN "Draw" ELSE "Team2"]

LifeInit ==
  /\ now = StartTime /\ state = "Uninitialized" /\ outcome = "Unset"
  /\ kickoff_ts = 0 /\ freeze_ts = 0

Tick ==
  /\ now < MaxTime
  /\ now' = now + 1
  /\ UNCHANGED <<state, outcome, kickoff_ts, freeze_ts>>

InitMarket(pair) ==
  /\ ~AccountExists
  /\ now < pair[1] /\ pair[1] < pair[2]
  /\ kickoff_ts' = pair[1] /\ freeze_ts' = pair[2]
  /\ state' = "Open" /\ outcome' = "Unset"
  /\ UNCHANGED now

Advance(from, to, due) ==
  /\ state = from /\ now >= due
  /\ state' = to
  /\ UNCHANGED <<now, outcome, kickoff_ts, freeze_ts>>

ActivateMarket == Advance("Open", "Trading", kickoff_ts)
FreezeMarket == Advance("Trading", "Locked", freeze_ts)

Resolve(winner) ==
  /\ state = "Locked"
  /\ state' = "Resolved" /\ outcome' = OutcomeName[winner]
  /\ UNCHANGED <<now, kickoff_ts, freeze_ts>>

CloseMarket ==
  /\ state = "Resolved" /\ now >= freeze_ts + resolution_grace_secs
  /\ state' = "Closed" /\ outcome' = "Unset"
  /\ kickoff_ts' = 0 /\ freeze_ts' = 0
  /\ UNCHANGED now

LifeNext ==
  \/ Tick
  \/ \E pair \in Schedules : InitMarket(pair)
  \/ ActivateMarket \/ FreezeMarket \/ CloseMarket
  \/ \E winner \in Outcomes : Resolve(winner)

LifeSpec == LifeInit /\ [][LifeNext]_lifeVars
=============================================================================
