# A formal model of the football prediction market

TLA+ modules, TLC configurations and TLAPS proofs for the repository: the
on-chain program (`programs/amm`), the keeper (`apps/keeper`), the indexer
(`apps/indexer`), the web client (`apps/web`) and the operator's `scripts`. Paths
below are relative to the repository; module names are in `this style`.

Contents: [the system](#the-system), [modules](#modules-and-what-they-stand-for),
[runs](#runs), [findings](#where-code-and-documents-disagree),
[fairness](#fairness), [proofs](#proofs), [what is left out](#what-is-left-out),
[plan](#plan).

## The system

A market asks who wins a football match: Team1, Draw or Team2. Traders buy and
sell outcome tokens for USDT against an LMSR automated market maker; after the
match the result is proven on chain with a Merkle proof of the TxLINE oracle and
winning tokens are redeemed at one USDT each. A second layer lets traders take
leveraged positions against a pool that liquidity providers (LPs) fund. A keeper
process moves every market through its life; an indexer records what happened
for the web client.

| Component | State | Operations | How it meets the others |
|---|---|---|---|
| Spot market program (`instructions/*.rs`) | `Market`, its USDT vault, one `Position` per trader | init_market, activate, freeze, resolve, close, open_position, buy, sell, mint_set, redeem_set, redeem | transactions of traders, keeper and admin; CPI to the oracle in resolve |
| LMSR pricing (`lmsr.rs`) | none | cost, prices, buy cost, sell refund, tokens for a budget | called by the trading instructions |
| Dynamic fee (`fee.rs`) | last price, its time and the accumulator, in `Market` | decay, accumulate, fee | called by buy and sell |
| Leverage pool (`*_leverage.rs`, `*_lp.rs`, post_mark, set_risk_valve, ...) | `LeveragePool`, its vault, `LpAccount`s, `LevPosition`s, leverage fields of `MarketConfig` | open, close, expire; deposit, request and execute a withdrawal; post a mark; valve; parameters | reads the state, times and result of `Market` |
| Leverage arithmetic (`funding.rs`) | none | sizing, gain, funding index, settlement, taper, coverage, share price | called by the leverage pool |
| Keeper (`apps/keeper`): scheduler | a tracker per fixture and ticks and callbacks under way, all in memory | activate, freeze, resolve with retries | reads accounts and sends transactions over RPC; HTTP from TxLINE; the stream's callback |
| Mark poster (`markPoster.ts`) | a tick under way, a cache of configs | post a mark for every trading market with a pool | TxLINE odds or the curve's prices in, post_mark out |
| Score stream (`scoreStream.ts`, `sse.ts`) | a connection, a parser's buffer, a backoff | connect, parse, reconnect, stop | SSE from TxLINE in, match events to the scheduler out |
| Seeder (`seeder.ts`, `seed-markets.ts`) | none but a flag | create markets for upcoming fixtures | TxLINE's snapshot and odds in, init_market out, from the operator's wallet |
| Indexer ingest (`apps/indexer/src/ingest`) | a Postgres database with a cursor | backfill, live tail, decode, persist, refresh rows | logs and accounts over RPC in; the API serves the tables |
| Indexer enrichment (`fixtures.service.ts`, persister) | names, scores and odds of the rows; a guest token; caches | passes after every refresh | TxLINE in, rows out |
| Web client (`apps/web`) | what a page shows, the flow of each panel, the wallets | poll, review, confirm, claim, faucet | chain over RPC, the indexer's API, the wallet |
| Operator scripts (`scripts`) | none but the chain and a token file | provision, drive one market through its life, fund, close | the operator's wallet and throwaway ones |

What is hard about it:

* **Money by rounding.** Every price is fixed point with truncation in `exp`,
  `ln` and the cost. The market maker's loss is bounded only if no rounding, in
  no order of trades, goes to the trader; set operations at face value sit next
  to the curve.
* **One fact in several records.** `q`, `supply`, positions and the vault are
  updated by hand in every instruction; so are the pool's exposure counters
  (with saturating subtraction) and its share books.
* **Order.** Traders redeem in any order after the result; LPs leave around
  positions being opened; marks come before, during and after the times they
  depend on; a closed market can be created again at the same address.
* **Unreliable services.** The keeper's timers start ticks that overlap, its
  stream calls back at any moment, calls fail, transactions land late or twice,
  processes restart and forget everything but the chain or the database.
* **Two writers.** The boot and the timer of the indexer write the same rows;
  the keeper's seeder and the operator's script spend from the same wallet.
* **Stale answers.** A page shows whatever answer comes last, for the wallet it
  was asked for; a review may be older than its inputs; a cursor may be ahead of
  a replica.

What makes each component correct is what the properties below say; each hazard
is listed with its source line in `PROJECT.json`.

## Modules and what they stand for

| Module | Stands for | Notes |
|---|---|---|
| `LmsrKernel` | `lmsr.rs`: `exp_neg_q64`, `ln_q64`, `cost_q64`, prices | Q64.64 becomes a fixed point with `FracBits` fractional bits; every truncation is kept |
| `Lmsr` | `lmsr.rs`: cost, buy cost, sell refund, token solver | over a cost function that is a parameter (`CostQ`), see below |
| `Fee` | `fee.rs` | decay, accumulator, fee |
| `MarketEscrow` | abstract | what the market promises about money: an escrow opened, traded with, settled on one winner, paid out, swept |
| `MarketLifecycle` | `Market.state` and the instructions that move it | abstract for the spot market; the layer on which the leverage pool and the keeper stand |
| `SpotMarket` | the spot instructions, with the oracle that resolve asks | one action per instruction; implements both abstract modules |
| `Funding` | `funding.rs` | |
| `LeveragePool` | the leverage instructions | one action per instruction, on `MarketLifecycle` |
| `LevQuotes` | `leverage.ts`, what `leverage-panel.tsx` computes with it | what the form offers, its previews and what it shows of a position, over the state of `LeveragePool`; exact ratios for the floats, and reads that are up to date |
| `Keeper` | scheduler, tracker, activate/freeze/resolve actions, transaction sender, the stream's callback | one action per stretch between two awaits |
| `MarkPoster` | `markPoster.ts`, the odds client, `readMarket`/`readPool` | one action per await of the walk over the fixtures |
| `ScoreStream` | `scoreStream.ts`, `sse.ts`, normalisation of a frame | the wire as a sequence of pieces; a chunk is any prefix |
| `ProgramLog` | the program's history | external: transactions, their log lines, the accounts after them; one operator per instruction for what it needs and changes |
| `Indexer` | `backfill`, `tail`, `persister`, `decoder`, account refresh | one action per call to the RPC or write to the database |
| `EventLedger` | abstract | what the ingest promises: every entry booked once, in the chain's order |
| `Enrichment` | the enrichment half of `persister.service.ts`, `fixtures.service.ts` | two passes, ages instead of times |
| `Seeder` | `seeder.ts`, `seed-markets.ts` | the two differ in cap, deposit, wallet check and flag |
| `OperatorScripts` | the other scripts | a script is a plan, a sequence of steps over facts of the chain; one interpreter with the sender's loop |
| `WebClient` | `tx.ts`, the polling hooks, the panels, the wallet providers | one set of panels per behaviour |
| `Sums` | - | the sum of a function over a finite set, as a fold |
| `SumTheorems` | - | lemmas on floors and products, on sums, and on folds over two elements |
| `LmsrProofs`, `SpotMarketProofs`, `LeveragePoolProofs`, `KeeperProofs`, `IndexerProofs`, `OperatorProofs`, `WebProofs` | - | the theorems |
| `MCLmsr`, `MCSpotMarket`, `MCLeveragePool`, `MCKeeper`, `MCServices`, `MCOperator`, `MCWeb` | - | instances for TLC |

**On chain, an instruction is one action.** Solana serialises transactions that
write the same account and reverts a failing one, so checks are guards, and any
signer may try anything at any time. The interleaving is that of instructions.

**The cost function.** `Lmsr`, and so `SpotMarket`, is written over a constant
`CostQ` (cost of a quantity vector) with the assumptions `CostDominates` (the
cost is at least every quantity), `CostShifts` (adding a set shifts it exactly)
and `CostMonotone`. `LmsrKernel` computes the code's cost. That it dominates and
shifts is proved of it for every liquidity, range and precision
(`KernelMeetsCurve`); that it is monotone is checked by the run `lmsr_kernel` on
every vector of its instance (`TokenStepsAreMonotone`). TLC evaluates the
assumptions themselves for the table the spot runs use, which `MCSpotMarket`
takes from a scaled-down curve.

**The oracle.** TxLINE publishes batches of score statistics (`match`,
`published`), also of other fixtures and of a match half played, and proves of any
of them, for ever, what is true of its numbers. `Resolve` takes any argument the
program accepts (`AcceptedProofs`, the checks of resolve.rs:92-151: the fixture,
owner, address and epoch day of the roots account, the keys of the two
statistics, their operator and the period pin of O-1x2-1) that the oracle proves
(`validate_stat`); an account TxLINE does not own holds whatever its writer
wants. Which batch is proven, and when, is the keeper's choice. Trusted of TxLINE is
only that batches carrying a full-time score of one fixture carry the same one
(`FinalScoreIsFinal`).

**In the keeper, a task runs alone from await to await.** `Ticks` and `Streams`
are the ticks and callbacks that may be under way at once; `task` records where
each awaits. `NextAction` is the rest of a tick after each of its awaits,
`Proceed` enters it. Sending is two steps in a resolve (simulate, submit),
because another resolve may land in between. A failed send leaves the
transaction in `inflight`, from which it may land later (`Land`). `Crash` clears
everything but the chain and `inflight`. The tracker's counter stops at the
largest value the code compares it with.

**Beside the life cycle.** `Indexer`, `Enrichment`, `MarkPoster` and
`ScoreStream` share nothing but the chain and the feed, so `MCServices` chooses one
at the start of a behaviour instead of multiplying their states; `MCOperator`
does so with `Seeder` and `OperatorScripts`, which share the operator's wallet
only by name: what one leaves in it is any of `Funds`, or `Purse`, for the other.

* *Indexer.* The chain is `log`, and a position in it stands for a signature.
  `replay` is the one `tailOnceInner` under way that boot and tick share
  (`inFlight`), `task` where each of the two is. Every write is a step, so that a
  `Crash` may come between any two; a thrown error ends the replay for both.
  Which lines of a transaction are the program's own is decided as in the code,
  with the stack of invocations.
* *Enrichment and marks.* Times are ages, counted up to the point from which the
  code no longer tells the difference; a call takes at most `Delay` or
  `PostDelay`.
* *Seeder.* The script creates the config when there is none and claims from the
  faucet while it is short; the balance its run acts on is the one it last read,
  not the one it has.
* *Scripts.* What a transaction does is a list of instructions over `chain`; the
  sender's loop (rebuild with a new blockhash when the first expires) leaves
  earlier versions in `flying`, from which they land late or expire. The scripts
  have three styles of sending, which differ in what a transaction that is not
  confirmed means. Reads may fail too, and the steps that only look (probes of an
  account, the verification at the end) are steps of the plan. A step that waits
  for the kickoff has read the market's stage before (`waiting`), and sends on what
  it read. A script may find the LP account of an operator who has withdrawn
  everything (`Emptied`), into which it deposits without opening it.
* *Web client.* `asks` are requests in flight, answered in any order with the
  state at the time of asking or of answering; `flow` is a panel's button, busy
  while it prepares, while a connected wallet's prompt is open (`Prompted`) and
  while it sends and confirms. The portfolio reads the positions of the markets
  the indexer lists, which are the fifty updated last less those without team
  names: whether the market is among them is `listed`, and changes (`ListMoves`). A
  review turns an order into the instructions of its transaction, and decides
  then, by what it reads, whether a position or a token account is created in
  it; what a confirmation says was received is the simulation's amount. A token
  costs two units of USDT and sells for one.
* *Leverage panel.* `LevQuotes` extends `LeveragePool` by the client's own copy of
  its arithmetic, a second implementation that mirrors it in floating point and
  never talks to it. Its definitions are state functions; the run of the pool
  evaluates them in every state.

**Bounds** are constants with a comment: `MaxTime`, `MaxPurchases`,
`MaxEntries`, `MaxIncarnations`, `MaxFaults`, `MaxCrashes`, `MaxTx`, `MaxLag`,
`MaxFeed`, `MaxMisses`, `MaxUpdates`, `MaxPostMisses`, `MaxFrames`, `MaxBreaks`,
`MaxEnds`, `MaxClaims`, `MaxScripts`, `MaxSeedMisses`, `MaxFailures`, `MaxAsks`,
`MaxTxs`, `MaxSwitches` (changes of wallet and of the list), `MaxErrors`. They are in guards of the environment or of
what costs money, never of what the program does.

**History variables** (`seed_q`, `seed_vault`, `burst_price`, `requested_at`)
are read by properties only.

**Mutants.** A definition under a comment `Broken:` is a bug the code does not
have; it comes right before the definition it would replace. `PROJECT.json`
pairs every property of a passing run with one: replacing the definition makes
TLC find that property violated, so the property does say something about it.

## Runs

All use two workers and finish within four minutes.

| Run (cfg) | What it checks |
|---|---|
| `lmsr_kernel` (MCLmsr) | every vector of quantities up to 8, two liquidities, 12 fractional bits, walked one token at a time: `SubsidyBounds` bounds the cost, `SolverIsMaximal` says the solver finds the largest affordable quantity, `SlicingNeverProfits` and `NoSetArbitrage` that neither slicing a trade nor going through sets pays, `StepsFollowCurve` that a token (`TokenStepsAreMonotone`) and a set (`SetsAtFaceValue`) move cost and prices the way the curve assumptions need |
| `spot_two_traders` (MCSpotMarket) | two traders, all instructions from init to close, fee zero: `LedgersAgree`, `CurveBacked`, `WorstCaseLoss`, `RedeemNeverFails` in any order, `SupplyIsOutstanding`, and the refinements `EscrowSpec` and `LifecycleSpec` |
| `spot_fees_and_results` (MCSpotFees) | one trader, five instants and real fee parameters; three matches whose half-time batch, or another fixture's, would give another result, every proof and hint: `OutcomeProven`, `SurchargeRemembersBurst` |
| `lev_pool` (MCLeveragePool) | either two traders and an LP, marks, valve, changed parameters, a market from creation to closure: `ExposureIsPositions`, `LiabilityBoundsPayout`, `TimeIsNeverFree`, and `PanelTellsTruth`, that what the web client computes of the pool is what the program then does; or two LPs around one position: `SharesAgree`, `OthersNeverDiluted`, `NoEarlyExit` |
| `keeper_timer` (MCKeeperTimer) | the timer alone: two overlapping ticks, a keeper clock one second ahead, two failures of activate or freeze with late landings, one restart: `TrackerBehindChain`, `EndedMeansFrozen` and, under fairness, `MarketGetsResolved` |
| `keeper_stream` (MCKeeperStream) | a tick and a callback, two failures of any call, one restart: `KeeperConcludes`, that the keeper resolves or gives up and never just stops |
| `services` (MCServices) | the ingest with one failing call and one crash over a market's whole life in three transactions: `CursorVouches`, `TablesAgree`, the refinement `ImplementsLedger`, `EverythingIndexed`; the enrichment with two passes at once, an expiring token and one failing call: `LiveScoreFollows`; the mark poster over two pools while leverage is switched: `MarksStayUsable`; the score stream in every way to cut it, with breaks, ends and stops: `ChunkingIrrelevant` |
| `operator` (MCOperator) | keeper and script seeding three fixtures from one wallet, `ScriptCanPay`, `SeederSeeds`; every script, run again after failures, with two failing calls, late or lost transactions or kills: `DepositsOnce`, `DoneMeansReady`, `RerunsFinish` |
| `web` (MCWeb) | each panel, preparing, simulating and sending its instructions, with two requests in flight, a transaction, two changes of wallet or of the list, prompts never answered and a failing call: `ClaimOffered`, `PageSettles`, `FlowEnds` |
| `lev_settlement_coverage`, `keeper_stuck`, `services_lag` | violations, see below |

Why the instances are large enough. The kernel run covers every vector in reach
of its bounds, including saturation of `exp` (quantities up to eight times the
smaller liquidity over three). The spot run has three purchases between two
traders, so positions, sets and curve trades mix and a winner, a loser and a
holder of sets can all meet the redemption; its fee is zero because fees only
move money to the treasury, and the second run has them. One outcome wins in the
first run (the bounds are symmetric in the outcomes), all three in the second,
whose matches hold a stale batch for each way to take one for the other.
The leverage runs use prices in tenths, where every division rounds, and long
enough schedules for a mark before, in and after the cutoff. A behaviour of `lev_pool`
has one LP (`OneProvider`), or several and one trader at a time, whose results
move what they own (`OneTrader`). The keeper's limits
are two attempts instead of ten and twenty and one refetch instead of three:
every branch of its nested loops is taken, which the coverage of the actions
confirms. `MaxTime` is the freeze time: no later instant changes what the keeper
does with the market. The ingest's page is two signatures, so that a history of
three needs a second page, and its transactions hold several events, so that a
crash falls inside one. The seeder's cap is two of three fixtures, one without
odds and one whose odds only the keeper's deposit covers; the wallet holds
enough for one script's market or for all. A page has one transaction and two
switches, which suffice for an answer of the wallet before the last to come late.
The violation runs use the bounds of their component, or smaller ones.

Deadlock is not checked where the system rightly stops: a closed market with no
incarnation left, a resolved one for the keeper, a script that has ended, a page
on which nobody clicks.

## Where code and documents disagree

Each of the three violation runs shows one, as a counterexample.

* **`lev_settlement_coverage`.** Coverage compares the vault, which contains
  the traders' collateral, with gains alone; several winners can be owed more
  than the vault holds (`EverySettlementIsCovered`).
* **`keeper_stuck`.** The stream's end of match moves the tracker to Ended,
  from which the freeze is never sent; if that happens before the freeze time
  (two hours after kick-off), the market stays in Trading, every resolve fails
  and the fixture is given up until the process restarts
  (`MarketGetsResolved`). `EndedMeansFrozen`, which holds with the timer alone,
  is what fails first.
* **`services_lag`.** `withRetry` falls back to another endpoint, which may be
  behind the one that listed a signature. Its `getTransaction` answers null, that
  counts as a transaction without events (backfill.service.ts:186), and the cursor
  passes it: a trade is never booked (`EachReplayed`, one half of `CursorVouches`).

Seen while modelling, without a run of their own.

Program:

* `close_market` frees the address of the market (close_market.rs:64), and
  positions, keyed by it, outlive it. After another `init_market` of the fixture
  the supply is zero while old tokens exist (state.rs:167), so
  `SupplyIsOutstanding` and `RedeemNeverFails` speak of the first incarnation of
  a market only. Leveraged positions can no longer be settled.
* `buy` gives the fee the last price of whichever outcome was traded last
  (buy.rs:119), where buy.rs:5-6 speaks of the traded outcome's.
* `open_leverage` ignores liquidity already earmarked for withdrawal
  (open_leverage.rs:124; plans/SPEC.md:96).
* `redeem` re-checks no solvency although SPEC.md:16 says every instruction does
  (what holds is `WorstCaseLoss`); `LpAccount.shares` includes pending shares
  although state.rs:428 says it excludes them.

Keeper:

* `resolveAttempts` counts deferred attempts too, although scheduler.ts:122
  speaks of consecutive failures. An activation that throws ends the tick for
  the fixtures after it (scheduler.ts:61).
* The mark poster caches a config for ever (markPoster.ts:80): a market whose
  config gets leverage later has no marks posted until a restart. Its three
  marks may sum to one basis point more than the whole.
* The seeder's deposit covers opening odds down to a least price of about 13.5%,
  the script's down to about 30%; fixtures beyond that fail on every run and
  keep their place under the cap. A failed read of the odds opens the market at
  a third each.
* A `\r\n` cut by a chunk is not recognised as a line end (sse.ts:32-37); with
  `Crlf = TRUE`, `ChunkingIrrelevant` fails. A stream that ends cleanly is
  connected again at once, without backoff; events in between are not replayed.

Indexer:

* A refresh that throws after the cursor moved, or a slower refresh of the boot
  over a newer one, leaves a row stale until the next transaction. Rows of
  closed markets are not removed by it.
* Two set operations of one amount in one slot are taken for one
  (persister.service.ts:403). A market row that exists is not reset when the
  market is created again. A non-final score, once taken in Locked, is kept.

Web client:

* A review whose simulation answers after its inputs or the wallet changed is
  shown all the same, though trade-panel.tsx:156 says any change invalidates it.
* A transaction given up after 45 s may still land; reviewing again trades twice.
* Answers for the wallet before, or an older one, are shown until the next poll;
  a failed read of the balance shows zero; a failed answer of the indexer makes
  a position vanish.
* The portfolio's positions are said to be those "across all indexer markets"
  (use-live.ts:109), and its filter to be "a presentation filter, not a data one"
  (data.ts:71-72); they are those of the fifty markets updated last
  (libs/shared/src/dto/index.ts:91) that have team names (data.ts:73). Any other
  position never shows, and no claim for it: `PageSettles` promises a portfolio
  what `PositionOf` gives of the listed markets.
* The market page remembers that a claim was made and not by which wallet
  (resolution-panel.tsx:27): the next wallet connected sees its winning tokens and
  no button until the page is reloaded. `ClaimOffered` ends with the mark.
* On a void market the page offers a claim to holders of tokens
  (resolution-panel.tsx:61), where its comment says "Void refunds net basis" (:58)
  and the program pays the basis (redeem.rs:71-77), which a trader who has sold
  out at a loss still has: `ClaimOffered` speaks of holders. The portfolio does not
  offer refunds of a void market at all. No instruction sets `Void` yet.
* While a connected wallet's prompt is open, its panel spins; the prompt is awaited
  without a limit (tx.ts:333-348), so a prompt that is lost leaves the panel busy
  until the page is reloaded.
* The leverage form's cutoff test (leverage-panel.tsx:264) allows the very second
  `freeze_ts - open_cutoff_secs` at which the program refuses; the panel also
  keeps the config it read first, whatever is changed later. `PanelTellsTruth`
  is stated outside that second and for a config read now.
* Disconnecting deletes the demo wallet's key even when another one is connected.

Scripts:

* A transaction rebuilt with a new blockhash may land twice: devnet-init and
  full-circle may buy twice (`DepositsOnce` holds because the first deposit_lp
  opens its account in the same transaction). Into an account that exists without
  shares the deposit goes alone (enable-leverage.ts:360-364,
  leverage-circle.ts:353-358); given up after thirty seconds as expired (:179)
  and built again, both may land, although enable-leverage.ts:12 calls every step
  idempotent. `DepositsOnce` excepts that account.
* devnet-init waits for the kickoff on the stage it read before; when the keeper
  activates the market in the meantime, its own activation is refused, the script
  ends, and the next run skips the step.
* leverage-circle, run again when its first run's marks are too old, posts none
  before it opens a position, although leverage-circle.ts:15 calls it safe to
  re-run; it is outside `RerunsFinish`, like full-circle, whose shrunk seed can
  fall below what init_market takes.
* close-market gives up when its first transaction landed without being
  confirmed; running it again finds the market gone.

## Fairness

On chain nothing ever has to happen; the processes around it promise progress.
Fairness is weak everywhere but in one place, and always of the program's own
steps: a timer's next firing (a `setInterval` that never stops) and the step of a
task that awaits, since an awaited call returns or throws (clients have
timeouts, and JavaScript's event loop runs every ready continuation). Failures,
late landings, crashes and whatever a person or the feed does are never fair, and
failures are bounded: with failures for ever nothing could be promised.

* `Keeper`: the clock; the match and its publication (external);
  `RefreshFixtures` (the cache expires every 30 seconds); each `StartTick`; the
  `Step` of each task. The module has one fixture: that its turn comes in every
  tick is an assumption, which an activation of an earlier fixture that throws
  on every tick would break (scheduler.ts:61). `keeper_timer` lets only activate
  and freeze fail, because failures of resolve are counted and lead to giving up
  by design; with those, `KeeperConcludes` in `keeper_stream` is what can be
  promised.
* `Indexer`: the tail's timer and the steps of boot, tick and replay.
  `Enrichment`: time and the steps of both passes; the tail's timer starts them.
* `Seeder`: the keeper's timer and its run. The script is started by nobody.
* `OperatorScripts`: the operator starts a script that failed again, and it runs;
  a transaction sent and not expired lands; kick-off and the grace period come.
  Strong fairness of the end of the faucet's cooldown: the operator comes back at
  times when it is over, however often before.
* `WebClient`: the polls, their answers and the steps of a flow that are the
  program's. Nobody has to click or to answer a wallet's prompt, and no transaction
  has to land. So `FlowEnds` says that a panel is never preparing, sending or
  confirming for ever; a panel may be busy for ever only with a prompt open.

## Proofs

TLAPS checks all theorems for every value of the constants, from the named
`ASSUME`s of the modules (types of constants, `CostDominates`, `CostShifts`,
`CostMonotone`, `FinalScoreIsFinal`), which TLC evaluates in the runs. A few theorems have a
hypothesis of their own; the paragraphs below name each of them, and the runs'
instances satisfy it.

**`LmsrProofs`.** The kernel's arithmetic as it is computed, truncations and all,
for any liquidities, any range of quantities and any number of fractional bits.
The loops of `exp_neg_q64` and `ln_q64` are recursive functions from the
iteration and the term that is carried on; `LoopExists` shows by induction from
the last iteration backwards that such a function exists, `LoopNat` that its
values are naturals (`PairsSolve`, `TermsSolve`). So the exponential lies between
zero and one and is one at zero (`ExpBounds`), the sum of the exponentials between
one and three (`SumBounds`), the range in which the search for the binary exponent of
`ln_q64` ends (`LnNat`). From that, `KernelMeetsCurve` gives two of the three
assumptions that `SpotMarketProofs` makes of a cost function: the cost is at
least every quantity, and an equal shift of all quantities moves it by exactly
as much and no price. `SetsCostTheirFaceValue` says so of the steps of the run.

The third assumption, that a token never lowers the cost, is a numerical fact: a
truncated series may break it at some precision, so nobody can prove it for every
number of bits. The remaining theorems assume it, as `MonotoneCurves`: one constant
formula about the cost table, whose every instance in the run is a step that
`TokenStepsAreMonotone` checks. `CostRises` and `TradesAdd` make trades add up along the
curve, `BuyFacts`, `BuySplits` and `RefundFacts` say what rounding up, rounding down
and the minimal price of one unit do to a sum, and hence `NoSliceProfits` and
`NoArbitrageWithSets`. `SolverReturnsTheLargest` is about the bisection of
`buy_delta_for_cost`: its bracket ends where nothing is affordable any more, or
at the cap; as long as it runs, the lower end is affordable (or zero), the upper
end is not, and the distance shrinks.

**`SpotMarketProofs`.** The invariant is `LedgerInv == TypeOK /\
ProperlyResolved /\ LedgersAgree /\ SeedCovers /\ CurveBacked`. `CurveBacked`
is the telescoping argument of init_market.rs in an inductive form: vault plus
the cost of the seed is at least the initial vault plus the cost of now. A buy
pays the rounded-up move of the curve (`BuyPaysTheCurve`), a sale gets back less
(`SellFreesTheCurve`), sets shift it exactly. Since the cost is at least every
quantity, the vault covers every supply with the cushion of the seed
(`LedgersBoundLoss`); after the result, redemption lowers the vault and the
winning supply together (`LossStep`).

`OutcomeAlwaysProven`, about the result, holds for any sequence of batches and any
arguments the keeper may send. A proof that `Resolve` accepts is of two
statistics in one published batch of this fixture, and the checks of key,
operator and period make them its full-time score (`AcceptedIsFullTime`). That
every other batch agrees is `FinalScoreIsFinal`; afterwards the outcome stays, and
batches are only added (`OracleStep`).

The other theorems: `TypeCorrectness`,
`LedgersAlwaysAgree`, `CurveAlwaysBacked`, `BoundedLoss`,
`BurstsAreRemembered` (the triangle inequality over a burst),
`ImplementsEscrow`, `ImplementsLifecycle` (the refinements: initial states and steps map to those of the abstract modules,
under the mappings in `SpotMarket`). `SupplyAlwaysOutstanding` is about a sum
over any set of traders: an instruction changes one trader's position, and
`SumTheorems!SumChange` says what that does to the sum. `RedeemersAreAlwaysPaid`
puts it together with the bounded loss: what one winner holds is at most the
supply, which the vault covers.

**`LeveragePoolProofs`.** The invariant adds to `TypeOK` that a posted mark is a
price, that charging follows the marks, that no position's index is ahead of the
pool's, and that an unlock time is the latest request plus the delay. Lemmas on
the arithmetic say what rounding up guarantees (`IndexGrows`), what the clamp of
a settlement leaves (`PayoutBounds`) and, with `SumTheorems!ProRataMono`, that
two floored divisions never favour the one who moves. Theorems:
`TypeCorrectness`, `LiabilityIsTheWorst`, `TimeAlwaysCosts`, `DelayIsKept`,
`OthersKeepTheirValue` (an action property of every step), and two about sums,
`ShareBooksAgree` over any set of LPs and `ExposureAddsUp` over any set of
traders. The last one shows that the saturating subtractions of close and expire
never saturate: the sum contains the position that is taken out.

The same module proves that the panel tells the truth: for every pool, mark,
curve and position the program can reach, `PanelTellsTruth` says that the form
offers exactly the leverage that the program's checks of market, mark, valve
and leverage let through (`FormMirrorsProgram`), that the largest profit previewed
exceeds what the pool books for it by two roundings at most (`PreviewIsBooked`),
that settling a position pays the equity shown, rounded down, and that a position
nobody touches can be expired by the time shown once a mark is posted then. The
invariant `PanelInv` says what the arguments need of the state: no mark is from the future, the fields of the
config are ones the program accepted, and no market resolves to Void (the client
would show a refund, the program pays a settlement). Then `SameTaper` and
`MirrorsProgram` compare the two tapers, `RoundedTwice` and `PreviewHolds` the
sizes, `SameFunding` and `DivShift` the two ways of charging (`EquityHolds`),
`CeilCovers`, `SecsCover` and `ChargeCovers` the two roundings of the seconds
left (`FeeDeathHolds`). Theorem: `PanelAlwaysTruthful`.

**`Sums`, `SumTheorems`.** Induction over a finite set is induction over its
cardinality. The library's induction theorems take a predicate as a parameter,
which no backend can instantiate; `NatClosed` says the same of a set that contains
zero and every successor, and is proved from the well-foundedness of the
naturals. From it come `SumRemove` (any element can be taken out of a sum),
`SumChange` (one element's weight changes), `SumSame` and the like. The same
device carries the proofs about sequences in `IndexerProofs`.

**`KeeperProofs`.** For any number of overlapping ticks and callbacks.
Type correctness is proved here and no longer a question of the runs.
`TypeInv` adds to the types that a market to be driven has the schedule it was
given. `NextEarned`: every step moves the market forward or not at all, and
moves the tracker to Live or Resolved only where the market is past Open or
Resolved; from it `TrackerStaysBehind`. `TimerEndsFrozen` needs to know of the
tasks: one that resolves runs only once the market is frozen
(`ResolvesFrozen`), because it got there from a tracker that said Ended; that is
exactly what the stream's callback breaks, so the theorem assumes it off.

The module also has the mark poster's theorems, for any set of fixtures, any odds,
delays and failing calls. The promise is one of time, and so is the invariant
`PosterInv`: for the i-th pool of the walk, the age of its mark, plus the time
until the poster will have dealt with it from where it stands now (`ToPost`: the
rest of this walk, the wait for the timer, the walk up to the pool), plus a
round for every failure still to come, is within `Budget` (`InTime`). The budget
is one epoch less a tick of the clock, because a younger mark is left alone,
plus a call and the rounds. `Budget <= MAX_MARK_AGE` is the hypothesis of both
theorems; it says what the program's limit has to leave room for, and the run
meets it with equality. `MarksStayUsableUnlessOff` holds however often leverage
is switched, except while the poster has memoized it as off: then it never posts
again until it restarts (markPoster.ts:80). `MarksAlwaysUsable` is the property
of the run; that one switch is not enough to memoize "off" with a pool there is
`SwitchInv`.

**`IndexerProofs`.** For any history the program can produce, any page size and
any number of crashes and failing calls. The invariant has four parts.
`HistoryInv`: a failed transaction has no events, and every event comes after
one that created its market. `ReplayInv`: the signatures
left to replay are those from the cursor on, descending and without a gap (page by
page while they are fetched); the transaction at hand is the one after the
cursor; the events are those of that transaction. `NotBeyond`: nothing is booked
that the replay has not come to. `BookInv`: everything behind the cursor, and of
the transaction at hand everything before the index, is booked. It needs
`EventsDecode`, a statement about the decoder alone: for every sequence of events
the stack of invocations, run over the log lines of the transaction, gives back
exactly these events.

`CursorAlwaysVouches` and the refinement `IndexerImplementsLedger` assume
`MaxLag = 0`, as the run `services` has it, because they are false otherwise, as
`services_lag` shows. `TablesAlwaysAgree` and `OnlyEventsAreBooked` need no
such assumption: an event missed is missing in every table. The invariant of the
former (`TablesInv`) relates the row's volume to the sum of its points and the
trades booked to their points, through the steps between the writes.

**`OperatorProofs`.** For any fixtures, deposits, caps and funds, the seeding
script can pay for what it has planned (`ScriptAlwaysCanPay`). The invariant
`PayInv` follows the money from the balance read to the plan: while the script
claims and cuts, the wallet holds what it has read; once it sends, it holds a
deposit for every market still planned. A cut to `n` leaves at most `n`
(`CutShortens`), as many deposits as the balance holds it can pay (`Affordable`),
and each market created takes one deposit off both sides (`ScriptTurn`). A market
the keeper creates in between clears `alone`, and with it the promise.

`DepositedOnce` says that no rerun, late landing or rebuilt transaction deposits
liquidity twice, unless the account was there before, emptied, where it may (see above). The invariant `DepositInv` says that whatever is
on its way consists of other instructions or is the account with its first
deposit, that an account has its shares, and that a deposit has left its
account. Where the account was emptied before (`Withdrawn`), it says only that a
deposit may also be on its way alone; what that one does (`AloneRun`) is all that
`DoneIsReady` needs. No step of any plan breaks it (`PlanSafe`, one lemma per script): a
step that would deposit by itself needs an account without shares. A transaction is a fold over its
instructions, of which there are two at most, so that the fold has a solution one can write down (`FoldOfTwo`); what the pair does is `BundleRun`: it lands only
where there was no account.

`DoneIsReady` says that a script that ends has brought about what it was run
for, whatever fails, lands late or lands twice. Four invariants carry it.
`DepositInv` is the one above. `ReadyInv` gives every step of a plan its goal
(`Goal`): each step behind the run's position has its goal on the chain, what is
sent is the step's own transaction, and one that was confirmed has brought the
goal about. A step passes only with its goal (`StepMeans`, one lemma per
script), and no instruction takes a goal back (`LandOnward`) except those in
`Banned`, none of which is on its way. For most scripts no step sends one; for
leverage-circle it is `open_leverage`, which an earlier attempt may have left
behind. It cannot reopen the position after the close: the script waits for two
segments before it closes, and although the first, counted from the last mark on
chain, may be over already, the second is longer than a blockhash lives
(`Settled`). The
two others are about fund-usdt. `PaidInv`: the claims counted are at most the
wallets, up to the last one finished, that have claimed; a wallet that fails
half-way is passed over uncounted. `CleanInv`: as long as no call has failed, no
transaction is refused, and the balance plus the grants still owed reaches the
target.

**`WebProofs`.** `ClaimAlwaysOffered`: whatever is polled, answered late or lost,
signed, sent, dropped or claimed, and whichever wallet is connected, a market
page says that a claim was made only after one has landed, and until it says so
offers its claim, where it agrees with the chain, to whoever is owed something
and holds tokens. (To another wallet afterwards, or to one with a basis and no
tokens, it does not; see above.) The page looks for
a claim in the position it was served, so the proof needs that tokens are held
only where there is a position (`Held`). No instruction breaks it
(`ExecutedGood`), hence no transaction, a fold over its instructions (`RunGood`); and
what is sent are bundles of instructions the panels build, through review,
simulation and signature (`WebInv`, one lemma per action). For what the page says,
`ClaimInv` follows the market page's own panel: all it prepares, has signed and
sends are redemptions (`PanelClaims`), one that has landed has redeemed
(`Redeemed`), and nothing the chain does undoes that (`Onward`). The property speaks of a page that
agrees with the chain; that it comes to agree is `PageSettles`, which is
liveness and left to TLC.

Only model-checked: `ChunkingIrrelevant` (a recursion over the pieces of a stream);
the upper bound of `SubsidyBounds` and `TokenStepsAreMonotone`, numerical facts
about truncated series at a given precision (the lower bound follows from
`KernelMeetsCurve`); and all liveness, reruns of a script included
(`RerunsFinish`), which is out of the prover's reach.

## What is left out

* Of the spot program: slippage limits are taken as zero (they only forbid);
  direct transfers of USDT into a vault; `Void` as the result of a market, which
  no instruction sets; overflow of u64 and u128, whose magnitudes TLC's integers do not reach.
  `initialize_config` and `create_market_config` run once; what they write is
  the constants.
* Of `resolve`: the hashes of a Merkle proof and the walk up the tree, which are
  TxLINE's (`Included` says what they establish: the statistics are in a batch
  published under that account); how a day's number is computed from a
  timestamp and laid out in the address (a day is a value, and the account of a
  day is that value); who signs, and the compute budget.
* Of the leverage layer: the `settled` flag (a settled position is gone from
  `pos`), and fields no instruction reads. The runs do not create a market
  twice; after `close_market` no leverage instruction can run, so positions not
  settled by then are stranded.
* Of the keeper's scheduler: other fixtures of a tick, priority fees, the refresh
  of the clients' tokens. `markEnded`'s sequence number is left out because every
  resolve from a tick asks the history anyway.
* Of the indexer: the read-only API, the layout of events (an event is what its
  decoder delivers). In the run `services`, endpoints agree (`MaxLag = 0`), so
  what a lagging one does is left to `services_lag` and to the theorems that do
  not assume it; a page of accounts holds one market.
* Of the web client: the markets of the portfolio's list other than the one at
  hand (whether that one is among the fifty is `listed`, and changes at any
  time); amounts and slippage limits of an order, rendering, and the
  linear quotes of a trade shown before a review (`quote.ts`), which hold no
  state and which the simulation's own result replaces. `LevQuotes` computes
  exactly where `leverage.ts` computes with floats, so it shows that the formulas
  agree, not that doubles carry them.
* Of the scripts: amounts other than those that decide whether a step passes;
  enable-leverage is modelled for one live market; full-circle's check of the
  resolved outcome. An account that a script finds emptied has no marks on its
  market yet. That the seeding script can pay (`ScriptCanPay`) is promised, and
  proved, only until the keeper spends from the wallet as well.
* Not modelled: process wiring and smoke scripts, the generated client and
  shared types, the mock oracle and tests, infrastructure. `PROJECT.json` lists
  each with its reason.

## Plan

Done: the spot market with its proofs; the life cycle, refined by it; the
leverage pool and the keeper with their proofs; the indexer with its abstract
ledger; enrichment, mark poster and score stream; seeder and scripts; the web
client, with the claim it offers; its copy of the leverage arithmetic, proved to
mirror the program; the arithmetic of the cost function; the mark poster's
bound in time; what a script that ends has done.

Next: two fixtures in one tick of the keeper.

