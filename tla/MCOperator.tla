------------------------------ MODULE MCOperator ------------------------------
(***************************************************************************)
(* What the operator's wallet is used for: the seeding of markets, by the  *)
(* keeper and by hand, and the provisioning scripts.  Each behaviour       *)
(* exercises one of the two.                                               *)
(***************************************************************************)
EXTENDS Seeder, OperatorScripts

\* A favourite; no complete quote; odds that only the keeper's deposit covers.
MCOddsRows ==
  <<<<[ts |-> 1, pct |-> <<40, 30, 30>>], [ts |-> 2, pct |-> <<88, 9, 3>>]>>,
    <<[ts |-> 1, pct |-> <<60, 0, 40>>]>>,
    <<[ts |-> 2, pct |-> <<45, 30, 25>>], [ts |-> 1, pct |-> <<95, 4, 1>>]>>>>

VARIABLE seeding

vars == <<seederVars, scriptVars, seeding>>

Init ==
  /\ seeding \in BOOLEAN
  /\ IF seeding THEN script = "none" /\ SeederInit
     ELSE SeederInit /\ dry /\ authorized /\ configured /\ wallet = Min(Funds)
  /\ IF seeding
     THEN /\ exec = Idle /\ chain = Begun({}, "Absent", 0) /\ flying = {}
          /\ deposits = 0 /\ failures = 0 /\ wallets = 0
     ELSE ScriptsInit

Next ==
  /\ UNCHANGED seeding
  /\ IF seeding THEN SeederNext /\ UNCHANGED scriptVars
     ELSE ScriptsNext /\ UNCHANGED seederVars

\* The fairness of either, for the behaviours that exercise it.
Fairness ==
  /\ WF_seederVars(seeding /\ StartRun("keeper"))
  /\ WF_seederVars(seeding /\ SeederStep("keeper"))
  /\ WF_scriptVars(~seeding /\ Start)
  /\ WF_scriptVars(~seeding /\ RunStep)
  /\ WF_scriptVars(~seeding /\ Landing)
  /\ WF_scriptVars(~seeding /\ Kickoff)
  /\ WF_scriptVars(~seeding /\ GraceElapses)
  /\ SF_scriptVars(~seeding /\ Passes("claimed"))

Spec == Init /\ [][Next]_vars /\ Fairness

\* The seeder is asked for markets where it runs.
SeederSeeds == seeding => UpcomingAppear
===============================================================================
