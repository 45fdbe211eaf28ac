---------------------------- MODULE MarketEscrow ----------------------------
(***************************************************************************)
(* What a market promises its traders, with no curve, fee, clock or        *)
(* position in sight: an escrow that is opened with some money, always     *)
(* covers every single outcome while the result is open, and once a winner *)
(* is named pays out exactly the winning claims it retires.                *)
(***************************************************************************)
EXTENDS Integers

CONSTANT Outcomes

VARIABLES
  phase,    \* "absent", "open" or "settled"
  escrow,   \* money held
  owed,     \* claims outstanding on each outcome
  winner    \* the settled outcome, NoWinner before

escrowVars == <<phase, escrow, owed, winner>>
NoWinner == -1
NothingOwed == [o \in Outcomes |-> 0]

Init ==
  /\ phase = "absent" /\ escrow = 0 /\ owed = NothingOwed /\ winner = NoWinner

Open ==
  /\ phase = "absent" /\ phase' = "open"
  /\ escrow' \in Nat \ {0}
  /\ owed' = NothingOwed
  /\ winner' = NoWinner

\* Claims and money move in any way that leaves every outcome covered.
Trade ==
  /\ phase = "open" /\ phase' = "open"
  /\ owed' \in [Outcomes -> Nat]
  /\ escrow' \in Nat
  /\ \A o \in Outcomes : escrow' >= owed'[o]
  /\ UNCHANGED winner

Settle ==
  /\ phase = "open" /\ phase' = "settled"
  /\ winner' \in Outcomes
  /\ escrow >= owed[winner']
  /\ UNCHANGED <<escrow, owed>>

\* Retire some claims: each winning one is paid one unit, the others nothing,
\* and what is left still covers the remaining winning claims.
Pay ==
  /\ phase = "settled"
  /\ owed' \in [Outcomes -> Nat]
  /\ \A o \in Outcomes : owed'[o] <= owed[o]
  /\ escrow' = escrow - (owed[winner] - owed'[winner])
  /\ escrow' >= owed'[winner]
  /\ UNCHANGED <<phase, winner>>

Sweep ==
  /\ phase = "settled" /\ phase' = "absent"
  /\ escrow' = 0 /\ owed' = NothingOwed /\ winner' = NoWinner

Next == Open \/ Trade \/ Settle \/ Pay \/ Sweep

Spec == Init /\ [][Next]_escrowVars
=============================================================================
