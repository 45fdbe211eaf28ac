----------------------------- MODULE SpotMarket -----------------------------
(***************************************************************************)
(* One fixture's spot market in the on-chain program (programs/amm): the   *)
(* Market account, its USDT vault and the traders' Position accounts,      *)
(* through every instruction that touches them, from init_market to        *)
(* close_market and a later init_market at the same address.               *)
(*                                                                         *)
(* Solana runs the instructions that write one Market account one at a     *)
(* time and atomically, so an instruction is one action; a failed check    *)
(* reverts it, so a check is a guard.  Whoever may sign an instruction may *)
(* send it at any time the guards allow, with any arguments: the keeper    *)
(* and the admin too, since when they send theirs is their own business    *)
(* (see Keeper).                                                           *)
(*                                                                         *)
(* A definition under a "Broken:" comment is a bug the code does not have: *)
(* substituted for the definition after it, it shows that a property of    *)
(* the runs can fail (README.md, mutants).                                 *)
(*                                                                         *)
(* External: the clock, and the TxLINE oracle.  TxLINE publishes batches   *)
(* of score statistics while fixtures are played, each batch under the     *)
(* roots of its day, and proves of any of them, for ever, the predicates   *)
(* that are true of its statistics: a batch of the first half as readily   *)
(* as the final one, and another fixture's as readily as this one's.       *)
(***************************************************************************)
EXTENDS Lmsr, Fee, FiniteSets, Sequences, Sums

CONSTANTS
  Users,
  Amounts,                 \* the USDT and token amounts instructions carry
  Seeds,                   \* seed_q vectors the admin may open a market with
  SurplusSeeds,            \* what the admin adds to the least legal liquidity
  Schedules,               \* <<kickoff_ts, freeze_ts>> pairs
  resolution_grace_secs,
  resolution_threshold,    \* MarketConfig.resolution_threshold
  fixture_id,              \* Market.fixture_id
  stat_key_a, stat_key_b,  \* MarketConfig: the two goal counts to subtract
  resolution_period,       \* MarketConfig: the period of the full-time statistics
  Matches,                 \* sequences of batches TxLINE may publish
  MaxTime,                 \* bound on the clock
  MaxIncarnations,         \* bound on init_market at this fixture's address
  MaxPurchases             \* bound on the buys and mints: traders' money is finite

VARIABLES
  now, match, published,                           \* environment
  state, outcome, q, supply, usdt_collateral,      \* Market
  last_price_bps, last_ts, v_acc,
  kickoff_ts, freeze_ts,
  vault,                                           \* the vault's balance
  opened, tokens, basis, redeemed,                 \* Positions
  seed_q, seed_vault, burst_price,                 \* history: see below
  incarnation, purchases

(* seed_q and seed_vault record what init_market was given and burst_price  *)
(* the price before the first trade of the current burst; the program keeps *)
(* none of them.  incarnation counts init_market calls, purchases the buys  *)
(* and mints.  No guard but the two bounds reads them.                      *)

environment == <<now, match, published>>
feeState == <<last_price_bps, last_ts, v_acc>>
schedule == <<kickoff_ts, freeze_ts>>
positions == <<opened, tokens, basis, redeemed>>
seedHistory == <<seed_q, seed_vault>>
history == <<seedHistory, burst_price, incarnation, purchases>>
vars == <<environment, state, outcome, q, supply, usdt_collateral, feeState,
          schedule, vault, positions, history>>

MarketState == {"Uninitialized", "Open", "Trading", "Locked", "Resolved", "Closed"}
Outcome == {"Unset", "Team1", "Draw", "Team2", "Void"}
OutcomeName == [o \in Outcomes |->
                  IF o = 0 THEN "Team1" ELSE IF o = 1 THEN "Draw" ELSE "Team2"]
WinIndex(name) == IF name = "Team1" THEN 0 ELSE IF name = "Draw" THEN 1 ELSE 2
Nothing == [o \in Outcomes |-> 0]
MinOf(x) == CHOOSE m \in {x[o] : o \in Outcomes} : \A o \in Outcomes : m <= x[o]

(* A statistic [key, value, period] and a batch [fixture, day, stats].      *)
Batches == UNION {{m[k] : k \in DOMAIN m} : m \in Matches}
Terms == UNION {batch.stats : batch \in Batches}
Days == {batch.day : batch \in Batches}
Fixtures == {fixture_id} \cup {batch.fixture : batch \in Batches}

\* The batch holds the full-time statistics a and b of this market's fixture.
FullTime(batch, a, b) ==
  /\ batch.fixture = fixture_id /\ a \in batch.stats /\ b \in batch.stats
  /\ a.key = stat_key_a /\ b.key = stat_key_b
  /\ a.period = resolution_period /\ b.period = resolution_period

\* What is trusted of TxLINE: every batch that carries a full-time score of the
\* fixture carries the same one.
ASSUME FinalScoreIsFinal ==
  \A m \in Matches : \A j, k \in DOMAIN m :
    \A a, b, c, d \in Terms :
      FullTime(m[j], a, b) /\ FullTime(m[k], c, d) => a = c /\ b = d

ASSUME OracleConstants ==
  /\ Matches \subseteq Seq(Batches)
  /\ \A term \in Terms : term.value \in Int
  /\ Days \subseteq Nat

ASSUME SpotConstants ==
  /\ IsFiniteSet(Users)
  /\ Amounts \subseteq Nat \ {0}
  /\ Seeds \subseteq Quantities
  /\ SurplusSeeds \subseteq Nat
  /\ Schedules \subseteq Nat \X Nat
  /\ resolution_grace_secs \in Nat
  /\ resolution_threshold \in Int
  /\ MaxTime \in Nat
  /\ MaxIncarnations \in Nat /\ MaxPurchases \in Nat
  /\ FEE_BPS_DENOM = BPS_DENOM

AccountExists == state \notin {"Uninitialized", "Closed"}
SupplyZero == [u \in Users |-> Nothing]

Init ==
  /\ now = 0 /\ match \in Matches /\ published = 0
  /\ state = "Uninitialized" /\ outcome = "Unset"
  /\ q = Nothing /\ supply = Nothing /\ usdt_collateral = 0
  /\ last_price_bps = 0 /\ last_ts = 0 /\ v_acc = 0
  /\ kickoff_ts = 0 /\ freeze_ts = 0
  /\ vault = 0
  /\ opened = {} /\ tokens = SupplyZero
  /\ basis = [u \in Users |-> 0] /\ redeemed = [u \in Users |-> FALSE]
  /\ seed_q = Nothing /\ seed_vault = 0 /\ burst_price = 0
  /\ incarnation = 0 /\ purchases = 0

-----------------------------------------------------------------------------
(* The environment. *)

Tick ==
  /\ now < MaxTime
  /\ now' = now + 1
  /\ UNCHANGED <<match, published, state, outcome, q, supply, usdt_collateral,
                 feeState, schedule, vault, positions, history>>

\* TxLINE publishes its next batch under the roots of the batch's day.
PublishBatch ==
  /\ published < Len(match)
  /\ published' = published + 1
  /\ UNCHANGED <<now, match, state, outcome, q, supply, usdt_collateral,
                 feeState, schedule, vault, positions, history>>

-----------------------------------------------------------------------------
(* Lifecycle. *)

\* init_market: the seed must cover C(seed_q) - min(seed_q).  The account is
\* created by this instruction, so it must not exist.
InitMarket(seed, schedulePair, surplus) ==
  LET min_seed == cost(seed) - MinOf(seed)
      liquidity == min_seed + surplus
  IN /\ ~AccountExists
     /\ incarnation < MaxIncarnations
     /\ schedulePair[1] < schedulePair[2]
     /\ schedulePair[1] > now
     /\ liquidity > 0
     /\ state' = "Open" /\ outcome' = "Unset"
     /\ q' = seed /\ supply' = Nothing
     /\ kickoff_ts' = schedulePair[1] /\ freeze_ts' = schedulePair[2]
     /\ last_price_bps' = PriceBps[seed][0] /\ last_ts' = now /\ v_acc' = 0
     /\ vault' = liquidity /\ usdt_collateral' = liquidity
     /\ seed_q' = seed /\ seed_vault' = liquidity
     /\ burst_price' = last_price_bps'
     /\ incarnation' = incarnation + 1
     /\ UNCHANGED <<environment, positions, purchases>>

ActivateMarket ==
  /\ state = "Open"
  /\ now >= kickoff_ts
  /\ state' = "Trading"
  /\ last_ts' = now
  /\ UNCHANGED <<environment, outcome, q, supply, usdt_collateral,
                 last_price_bps, v_acc, schedule, vault, positions, history>>

FreezeMarket ==
  /\ state = "Trading"
  /\ now >= freeze_ts
  /\ state' = "Locked"
  /\ UNCHANGED <<environment, outcome, q, supply, usdt_collateral, feeState,
                 schedule, vault, positions, history>>

\* Broken: a draw is proven by "at least the threshold".
AtLeastPredicate(hint, diff) ==
  CASE hint = 0 -> diff > resolution_threshold
    [] hint = 1 -> diff >= resolution_threshold
    [] OTHER -> diff < resolution_threshold

\* The predicate derived on chain for a hint.
derive_predicate_for_outcome(hint, diff) ==
  CASE hint = 0 -> diff > resolution_threshold
    [] hint = 1 -> diff = resolution_threshold
    [] OTHER -> diff < resolution_threshold

\* What a keeper passes to resolve: the summary of a batch, of which the
\* program reads the fixture; a time, of which it reads the day; the account it
\* says holds the roots of that day, whose owner and address are what they are
\* ("at" is the day whose roots address it has, -1 when it has none); the two
\* statistics to prove and how to combine them.  (A call without the second
\* statistic is rejected.)
Proofs ==
  [fixture : Fixtures, day : Days, owner : {"txline", "other"}, at : Days \cup {-1},
   a : Terms, b : Terms, op : {"None", "Add", "Subtract"}]

\* Broken: the period of the statistics is not compared.
PinnedButPeriod(proof) ==
  /\ proof.fixture = fixture_id
  /\ proof.owner = "txline" /\ proof.at = proof.day
  /\ proof.a.key = stat_key_a /\ proof.b.key = stat_key_b /\ proof.op = "Subtract"

\* Broken: the batch may be any fixture's.
PinnedButFixture(proof) ==
  /\ proof.owner = "txline" /\ proof.at = proof.day
  /\ proof.a.key = stat_key_a /\ proof.b.key = stat_key_b /\ proof.op = "Subtract"
  /\ proof.a.period = resolution_period /\ proof.b.period = resolution_period

\* Broken: the roots account is not checked.
PinnedButRoots(proof) ==
  /\ proof.fixture = fixture_id
  /\ proof.a.key = stat_key_a /\ proof.b.key = stat_key_b /\ proof.op = "Subtract"
  /\ proof.a.period = resolution_period /\ proof.b.period = resolution_period

\* The checks resolve makes of its arguments before it asks the oracle.
Pinned(proof) ==
  /\ proof.fixture = fixture_id
  /\ proof.owner = "txline" /\ proof.at = proof.day
  /\ proof.a.key = stat_key_a /\ proof.b.key = stat_key_b /\ proof.op = "Subtract"
  /\ proof.a.period = resolution_period /\ proof.b.period = resolution_period

AcceptedProofs == {proof \in Proofs : Pinned(proof)}

PublishedBatches == {match[k] : k \in {i \in DOMAIN match : i <= published}}

\* The statistics are in the tree of the account: in a published batch, when the
\* account is TxLINE's own for some day.  What any other account holds is up
\* to whoever wrote it.
Included(proof) ==
  proof.owner = "txline" /\ proof.at \in Days =>
    \E batch \in PublishedBatches :
      /\ batch.day = proof.at /\ batch.fixture = proof.fixture
      /\ proof.a \in batch.stats /\ proof.b \in batch.stats

\* The left-hand side of the predicate.
Combined(proof) ==
  CASE proof.op = "Subtract" -> proof.a.value - proof.b.value
    [] proof.op = "Add" -> proof.a.value + proof.b.value
    [] OTHER -> proof.a.value

\* The oracle's validate_stat: inclusion and predicate.
validate_stat(proof, hint) ==
  Included(proof) /\ derive_predicate_for_outcome(hint, Combined(proof))

Resolve(hint) ==
  /\ state = "Locked"
  /\ \E proof \in AcceptedProofs : validate_stat(proof, hint)
  /\ outcome' = OutcomeName[hint]
  /\ state' = "Resolved"
  /\ UNCHANGED <<environment, q, supply, usdt_collateral, feeState, schedule,
                 vault, positions, history>>

\* Broken: the sweep does not wait for the result.
SweepableOnceLocked ==
  state \in {"Locked", "Resolved"} /\ now >= freeze_ts + resolution_grace_secs

Sweepable == state = "Resolved" /\ now >= freeze_ts + resolution_grace_secs

\* close_market: sweep whatever the vault holds to the admin, close the vault
\* and zero the Market account.  Position accounts stay as they are.
CloseMarket ==
  /\ Sweepable
  /\ state' = "Closed" /\ outcome' = "Unset"
  /\ q' = Nothing /\ supply' = Nothing
  /\ usdt_collateral' = 0 /\ vault' = 0
  /\ last_price_bps' = 0 /\ last_ts' = 0 /\ v_acc' = 0
  /\ kickoff_ts' = 0 /\ freeze_ts' = 0
  /\ seed_q' = Nothing /\ seed_vault' = 0 /\ burst_price' = 0
  /\ UNCHANGED <<environment, positions, incarnation, purchases>>

-----------------------------------------------------------------------------
(* Trading. *)

\* open_position: once per trader and market address, in any market state.
OpenPosition(u) ==
  /\ AccountExists
  /\ u \notin opened
  /\ opened' = opened \cup {u}
  /\ tokens' = [tokens EXCEPT ![u] = Nothing]
  /\ basis' = [basis EXCEPT ![u] = 0]
  /\ redeemed' = [redeemed EXCEPT ![u] = FALSE]
  /\ UNCHANGED <<environment, state, outcome, q, supply, usdt_collateral,
                 feeState, schedule, vault, history>>

\* The fee a trade pays now, from the state the previous trade left.
v_ref_now == decay_v_ref(v_acc, now - last_ts)
fee_bps_now == fee_bps_from_v_ref(v_ref_now)

\* What a buy or sell of outcome o leaves in the fee state.  A trade made
\* filter_period or more after the previous one starts a new burst.
ArmFee(o) ==
  /\ last_price_bps' = PriceBps[q'][o]
  /\ v_acc' = next_v_acc(v_ref_now, last_price_bps, PriceBps[q'][o])
  /\ last_ts' = now
  /\ burst_price' = IF now - last_ts < filter_period THEN burst_price ELSE last_price_bps

\* The bound on the buys and mints.
Purchase ==
  /\ purchases < MaxPurchases
  /\ purchases' = purchases + 1

\* USDT into and out of the vault, and the program's own count of it.
Deposit(amount) ==
  /\ vault' = vault + amount
  /\ usdt_collateral' = usdt_collateral + amount

\* Broken: the program's count of its money is not updated.
WithdrawUnbooked(amount) ==
  /\ usdt_collateral >= amount /\ vault >= amount
  /\ vault' = vault - amount
  /\ UNCHANGED usdt_collateral

Withdraw(amount) ==
  /\ usdt_collateral >= amount /\ vault >= amount
  /\ vault' = vault - amount
  /\ usdt_collateral' = usdt_collateral - amount

\* d new tokens of outcome o for u, d of them back, and d complete sets (a
\* negative d takes them back): curve, supply and position move together.
Issue(u, o, d) ==
  /\ q' = Plus(q, o, d) /\ supply' = Plus(supply, o, d)
  /\ tokens' = [tokens EXCEPT ![u] = Plus(@, o, d)]

Retire(u, o, d) ==
  /\ tokens[u][o] >= d /\ q[o] >= d /\ supply[o] >= d
  /\ q' = Minus(q, o, d) /\ supply' = Minus(supply, o, d)
  /\ tokens' = [tokens EXCEPT ![u] = Minus(@, o, d)]

\* Broken: the sets are not recorded in the supplies.
MoveSetsUnrecorded(u, d) ==
  /\ q' = Shift(q, d) /\ UNCHANGED supply
  /\ tokens' = [tokens EXCEPT ![u] = Shift(@, d)]

MoveSets(u, d) ==
  /\ q' = Shift(q, d) /\ supply' = Shift(supply, d)
  /\ tokens' = [tokens EXCEPT ![u] = Shift(@, d)]

\* The min_tokens_out and min_usdt_out arguments only ever reject a trade, so
\* the trades that pass some bound are those that pass the bound 0 taken here.
Buy(u, o, usdt_in) ==
  LET net == after_fee(usdt_in, fee_bps_now)
  IN /\ state = "Trading"
     /\ u \in opened
     /\ now >= last_ts
     /\ net > 0
     /\ \E delta \in 1..Q_MAX : IsBuyDelta(q, o, net, delta) /\ Issue(u, o, delta)
     /\ basis' = [basis EXCEPT ![u] = @ + usdt_in]
     /\ ArmFee(o)
     /\ Deposit(usdt_in)
     /\ assert_solvent_multi(vault', supply')
     /\ Purchase
     /\ UNCHANGED <<environment, state, outcome, schedule, opened, redeemed,
                    seedHistory, incarnation>>

Sell(u, o, tokens_in) ==
  LET usdt_out == after_fee(sell_refund(q, o, tokens_in), fee_bps_now)
  IN /\ state = "Trading"
     /\ u \in opened
     /\ now >= last_ts
     /\ Retire(u, o, tokens_in)
     /\ basis' = [basis EXCEPT ![u] = SatSub(@, usdt_out)]
     /\ ArmFee(o)
     /\ Withdraw(usdt_out)
     /\ assert_solvent_multi(vault', supply')
     /\ UNCHANGED <<environment, state, outcome, schedule, opened, redeemed,
                    seedHistory, incarnation, purchases>>

\* mint_set: one of every outcome at face value, no fee, no price move.
MintSet(u, amount) ==
  /\ state = "Trading"
  /\ u \in opened
  /\ \A o \in Outcomes : q[o] + amount <= Q_MAX
  /\ MoveSets(u, amount)
  /\ basis' = [basis EXCEPT ![u] = @ + amount]
  /\ Deposit(amount)
  /\ assert_solvent_multi(vault', supply')
  /\ Purchase
  /\ UNCHANGED <<environment, state, outcome, feeState, schedule, opened,
                 redeemed, seedHistory, burst_price, incarnation>>

RedeemSet(u, amount) ==
  /\ state = "Trading"
  /\ u \in opened
  /\ \A o \in Outcomes : /\ tokens[u][o] >= amount
                         /\ q[o] >= amount /\ supply[o] >= amount
  /\ MoveSets(u, -amount)
  /\ basis' = [basis EXCEPT ![u] = SatSub(@, amount)]
  /\ Withdraw(amount)
  /\ assert_solvent_multi(vault', supply')
  /\ UNCHANGED <<environment, state, outcome, feeState, schedule, opened,
                 redeemed, history>>

\* Broken: the losing tokens are paid too.
PayoutOfAll(u) == tokens[u][0] + tokens[u][1] + tokens[u][2]

\* What redeem owes u: the winning tokens, or the stake when the market is
\* void (which no instruction makes it).
Payout(u) ==
  IF outcome = "Void"
  THEN IF basis[u] <= usdt_collateral THEN basis[u] ELSE usdt_collateral
  ELSE tokens[u][WinIndex(outcome)]

\* The arithmetic and the transfer of redeem succeed for u.
Payable(u) ==
  /\ \A o \in Outcomes : supply[o] >= tokens[u][o]
  /\ usdt_collateral >= Payout(u) /\ vault >= Payout(u)

\* Broken: only the winning tokens leave the supplies.
BurnWinners(u) ==
  supply' = [supply EXCEPT ![WinIndex(outcome)] = @ - tokens[u][WinIndex(outcome)]]

\* The redeemed tokens, losing ones too, leave the supplies.
Burn(u) == supply' = [o \in Outcomes |-> supply[o] - tokens[u][o]]

\* redeem does not call assert_solvent_multi.
Redeem(u) ==
  /\ state = "Resolved"
  /\ u \in opened
  /\ ~redeemed[u]
  /\ Payable(u)
  /\ Burn(u)
  /\ tokens' = [tokens EXCEPT ![u] = Nothing]
  /\ basis' = [basis EXCEPT ![u] = 0]
  /\ redeemed' = [redeemed EXCEPT ![u] = TRUE]
  /\ Withdraw(Payout(u))
  /\ UNCHANGED <<environment, state, outcome, q, feeState, schedule, opened, history>>

-----------------------------------------------------------------------------
Lifecycle ==
  \/ \E seed \in Seeds, pair \in Schedules, extra \in SurplusSeeds :
       InitMarket(seed, pair, extra)
  \/ ActivateMarket \/ FreezeMarket \/ CloseMarket
  \/ \E hint \in Outcomes : Resolve(hint)

Trading ==
  \E u \in Users :
    \/ OpenPosition(u)
    \/ Redeem(u)
    \/ \E amount \in Amounts : MintSet(u, amount) \/ RedeemSet(u, amount)
    \/ \E amount \in Amounts, o \in Outcomes : Buy(u, o, amount) \/ Sell(u, o, amount)

Next == Tick \/ PublishBatch \/ Lifecycle \/ Trading

Spec == Init /\ [][Next]_vars
-----------------------------------------------------------------------------
(* Properties. *)

TypeOK ==
  /\ now \in Nat
  /\ match \in Matches /\ published \in Nat
  /\ state \in MarketState /\ outcome \in Outcome
  /\ q \in Quantities /\ supply \in [Outcomes -> Nat]
  /\ usdt_collateral \in Nat /\ vault \in Nat
  /\ last_price_bps \in 0..BPS_DENOM /\ last_ts \in Nat /\ v_acc \in 0..max_v_acc
  /\ kickoff_ts \in Nat /\ freeze_ts \in Nat
  /\ opened \subseteq Users
  /\ tokens \in [Users -> [Outcomes -> Nat]]
  /\ basis \in [Users -> Nat] /\ redeemed \in [Users -> BOOLEAN]
  /\ seed_q \in Quantities /\ seed_vault \in Nat /\ burst_price \in 0..BPS_DENOM
  /\ incarnation \in Nat /\ purchases \in Nat

Unresolved == state \in {"Open", "Trading", "Locked"}

\* The curve state is the admin's seed plus what traders hold, and the
\* program's own ledger of its money is the vault's balance.  SPEC.md:133,
\* state.rs:165.
LedgersAgree ==
  /\ usdt_collateral = vault
  /\ Unresolved => \A o \in Outcomes : q[o] = seed_q[o] + supply[o]

\* Premiums collected always cover the cost of the curve's move since the
\* seed: no sequence of trades, by anyone, takes more out than the curve
\* moved.  This is the telescoping argument of init_market.rs:16-24.
CurveBacked ==
  Unresolved => vault * ONE_Q64 + CostQ[seed_q] >= seed_vault * ONE_Q64 + CostQ[q]

\* The least the vault must keep over its largest liability.
Cushion == seed_vault - (cost(seed_q) - MinOf(seed_q))

\* The market maker's loss is bounded by the liquidity init_market demands,
\* whoever trades and whoever wins; in particular every winning token is
\* covered, before the result and until the last one is redeemed.
WorstCaseLoss ==
  /\ Unresolved => \A o \in Outcomes : vault >= supply[o] + Cushion
  /\ state = "Resolved" => vault >= supply[WinIndex(outcome)] + Cushion

\* What the traders hold of outcome o.
Held(o) == SumOver([u \in Users |-> tokens[u][o]], Users)

\* The recorded supply of each outcome is exactly what traders hold: no
\* instruction creates or loses a claim.  It is said of the first market at
\* its address, since positions outlive it and a second one inherits them.
\* state.rs:167.
SupplyIsOutstanding ==
  AccountExists /\ incarnation = 1 => \A o \in Outcomes : supply[o] = Held(o)

\* After resolution nobody's redeem can fail, whatever order traders come in:
\* the supplies and the vault always cover every position not yet redeemed.
\* It is said of the first market at its address, too.
RedeemNeverFails ==
  state = "Resolved" /\ incarnation = 1 => \A u \in opened : ~redeemed[u] => Payable(u)

\* The winner by a full-time score.
Winner(home, away) ==
  IF home - away > resolution_threshold THEN "Team1"
  ELSE IF home - away < resolution_threshold THEN "Team2" ELSE "Draw"

\* A market resolves to the winner by its own fixture's full-time score, once
\* TxLINE has published it: not by the score of an earlier batch, of another
\* fixture, of other statistics or of an account TxLINE does not own, whatever
\* the keeper sends and whenever.  resolve.rs:15-20, SPEC.md O-1x2-1.
OutcomeProven ==
  state = "Resolved" =>
    /\ \E batch \in PublishedBatches : \E a, b \in Terms : FullTime(batch, a, b)
    /\ \A k \in DOMAIN match : \A a, b \in Terms :
         FullTime(match[k], a, b) => outcome = Winner(a.value, b.value)

\* Slicing a price move into a burst of trades does not shed the surcharge:
\* the accumulator is never below the whole move since the burst began, up to
\* its cap, however the moves in between went up and down.  fee.rs:43-45.
Distance(x, y) == IF x >= y THEN x - y ELSE y - x
SurchargeRemembersBurst ==
  LET move == SCALE * Distance(last_price_bps, burst_price)
  IN v_acc >= IF move <= max_v_acc THEN move ELSE max_v_acc

-----------------------------------------------------------------------------
(* The market as an escrow (MarketEscrow). *)

escrowPhase ==
  IF Unresolved THEN "open" ELSE IF state = "Resolved" THEN "settled" ELSE "absent"
escrowWinner == IF state = "Resolved" THEN WinIndex(outcome) ELSE -1

Escrow == INSTANCE MarketEscrow
            WITH phase <- escrowPhase, escrow <- vault, owed <- supply,
                 winner <- escrowWinner
EscrowSpec == Escrow!Spec

-----------------------------------------------------------------------------
(* The market's life cycle, as the leverage layer and the keeper see it     *)
(* (MarketLifecycle).                                                       *)

Life == INSTANCE MarketLifecycle WITH StartTime <- 0
LifecycleSpec == Life!LifeSpec
=============================================================================
