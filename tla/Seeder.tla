-------------------------------- MODULE Seeder --------------------------------
(***************************************************************************)
(* Markets for the upcoming fixtures of the TxLINE snapshot: the keeper's  *)
(* MarketSeeder, which runs on a timer, and the operator's seed-markets    *)
(* script, both with the same wallet.  A run reads the snapshot, keeps the *)
(* fixtures that are far enough away, in the order of their kickoffs,      *)
(* drops those that have a market, cuts the rest to a cap and sends one    *)
(* init_market after the other.  The script makes sure of the market       *)
(* config first, and of the money in the end.                              *)
(***************************************************************************)
EXTENDS Integers, Sequences, SequencesExt, FiniteSetsExt

CONSTANTS
  Fixtures,        \* how many fixtures the snapshot has, numbered by kickoff
  OddsRows,        \* per fixture, the rows of its odds feed [ts, pct: of home, draw,
                   \* away, 0 where there is none]
  MAX_SEED,        \* maxSeedPerRun, the keeper's cap
  SEED_CAP,        \* the script's cap
  SEED_KEEPER, SEED_SCRIPT,  \* SEED_LIQUIDITY of either
  Reserve,         \* what the script leaves in the wallet
  Funds,           \* the USDT the wallet may hold at first
  Grant,           \* one faucet claim
  MaxClaims,       \* bound on faucet claims
  MaxScripts,      \* bound on runs of the script
  MaxSeedMisses    \* bound on failing calls

Matches == 1..Fixtures
Seeders == {"keeper", "script"}
Deposit == [keeper |-> SEED_KEEPER, script |-> SEED_SCRIPT]

ASSUME SeederConstants ==
  /\ DOMAIN OddsRows = Matches
  /\ {MAX_SEED, SEED_CAP, SEED_KEEPER, SEED_SCRIPT} \subseteq Nat \ {0}
  /\ {Fixtures, Reserve, Grant, MaxClaims, MaxScripts, MaxSeedMisses} \cup Funds \subseteq Nat

VARIABLES
  imminent,     \* how many fixtures start within KICKOFF_BUFFER_SECS
  kicked,       \* how many fixtures have started
  configured,   \* MarketConfig#2 is on chain
  created,      \* the fixtures with a market
  wallet,
  claims, scripts, seedMisses,
  dry,          \* autoSeedDryRun
  authorized,   \* the keeper's signer is GlobalConfig.authority
  run           \* per seeder [at, left: to look up, todo: to seed, bal: the balance
                \* it has read, alone: nobody else has spent from the wallet]

seederVars == <<imminent, kicked, configured, created, wallet, claims, scripts, seedMisses, dry, authorized, run>>

NotRunning == [at |-> "off", left |-> <<>>, todo |-> <<>>, bal |-> 0, alone |-> TRUE]

SeederInit ==
  /\ imminent = 0 /\ kicked = 0 /\ created = {} /\ configured \in BOOLEAN
  /\ wallet \in Funds /\ claims = 0 /\ scripts = 0 /\ seedMisses = 0
  /\ dry \in BOOLEAN /\ authorized \in BOOLEAN
  /\ run = [k \in Seeders |-> NotRunning]

\* The latest row that quotes all three ways.
fetchImplied1x2(m) ==
  LET rows == OddsRows[m]
      full == {i \in DOMAIN rows : \A o \in 1..3 : rows[i].pct[o] \in 1..99}
      later(i, j) == rows[i].ts > rows[j].ts \/ (rows[i].ts = rows[j].ts /\ i <= j)
  IN  IF full = {} THEN <<>> ELSE rows[CHOOSE i \in full : \A j \in full : later(i, j)].pct

\* seed_q opens the market at the clamped and normalised odds, or at a third each.
\* The least opening price, in basis points.
LeastPrice ==
  LET MIN_PROB == 2
      clamped(pct) == [o \in 1..3 |-> Max({MIN_PROB, pct[o]})]
      Least(c) == (10000 * Min({c[o] : o \in 1..3})) \div (c[1] + c[2] + c[3])
  IN  [m \in Matches |-> LET pct == fetchImplied1x2(m)
                         IN  IF pct = <<>> THEN 3333 ELSE Least(clamped(pct))]

\* SEED_LIQUIDITY pays for b * ln(1 / p) down to this least price p: b is 100 and
\* 50 USDT, SEED_LIQUIDITY 200 and 60.
Shallowest == [keeper |-> 1354, script |-> 3012]
Covered(k, m) == LeastPrice[m] >= Shallowest[k]

Kicked(m) == m <= kicked
Soon(m) == m <= imminent

\* A call that has failed on every attempt.
SeedMiss == seedMisses < MaxSeedMisses /\ seedMisses' = seedMisses + 1

\* What becomes of a transaction: one that has landed may be reported as failed,
\* when its confirmation was not seen in time.
sendTx == {tx \in [landed : BOOLEAN, reported : BOOLEAN] : tx.reported => tx.landed}

\* Time: a fixture comes within the buffer, and kicks off.
FixtureNears ==
  /\ imminent < Fixtures /\ imminent' = imminent + 1
  /\ UNCHANGED <<kicked, configured, created, wallet, claims, scripts, seedMisses, dry, authorized, run>>

FixtureStarts ==
  /\ kicked < imminent /\ kicked' = kicked + 1
  /\ UNCHANGED <<imminent, configured, created, wallet, claims, scripts, seedMisses, dry, authorized, run>>

-----------------------------------------------------------------------------
\* One run, up to the list of fixtures to seed.

\* The timer finds no run in flight, and the precheck finds the keeper entitled;
\* the script is started by hand.
StartRun(k) ==
  /\ run[k].at = "off"
  /\ IF k = "script" THEN scripts < MaxScripts /\ scripts' = scripts + 1 ELSE UNCHANGED scripts
  /\ run' = IF k = "keeper" /\ ~authorized THEN run
            ELSE [run EXCEPT ![k] =
                    [NotRunning EXCEPT !.at = IF k = "script" THEN "config" ELSE "snapshot"]]
  /\ UNCHANGED <<imminent, kicked, configured, created, wallet, claims, seedMisses, dry, authorized>>

\* Broken: a run that fails early stays in flight.
InFlight == [NotRunning EXCEPT !.at = "hung"]
\* The run's finally block.
Released == NotRunning

\* The script goes no further without a TxLINE token, and creates the market
\* config when there is none.
EnsureConfig ==
  /\ run["script"].at = "config"
  /\ \/ /\ configured' = TRUE /\ run' = [run EXCEPT !["script"].at = "snapshot"]
        /\ UNCHANGED seedMisses
     \/ /\ SeedMiss /\ configured' \in {configured, TRUE}
        /\ run' = [run EXCEPT !["script"] = Released]
  /\ UNCHANGED <<imminent, kicked, created, wallet, claims, scripts, dry, authorized>>

\* The snapshot lists the fixtures in any order; a body that is not a list
\* leaves a run with nothing to do, as a failing call does.
fetchSnapshot == SetToSeqs(Matches)

\* .sort((a, b) => a.startTime - b.startTime)
ByKickoff(s) == SortSeq(s, LAMBDA m, n : m < n)

ListFuture(k) ==
  /\ run[k].at = "snapshot"
  /\ \/ \E listed \in fetchSnapshot :
          LET future == SelectSeq(ByKickoff(listed), LAMBDA m : ~Soon(m))
          IN  run' = [run EXCEPT ![k] = [@ EXCEPT !.at = "dedup", !.left = future]]
        /\ UNCHANGED seedMisses
     \/ SeedMiss /\ run' = [run EXCEPT ![k] = Released]
  /\ UNCHANGED <<imminent, kicked, configured, created, wallet, claims, scripts, dry, authorized>>

\* fetchMaybeMarket per fixture.  A call that fails ends the script, and costs
\* the keeper one fixture.
Dedup(k) ==
  /\ run[k].at = "dedup" /\ run[k].left # <<>>
  /\ LET m == Head(run[k].left)
         rest == [run[k] EXCEPT !.left = Tail(@)]
     IN  \/ /\ run' = [run EXCEPT ![k] =
                 IF m \in created THEN rest ELSE [rest EXCEPT !.todo = Append(@, m)]]
            /\ UNCHANGED seedMisses
         \/ /\ SeedMiss
            /\ run' = [run EXCEPT ![k] = IF k = "keeper" THEN rest ELSE Released]
  /\ UNCHANGED <<imminent, kicked, configured, created, wallet, claims, scripts, dry, authorized>>

\* The first n fixtures; the others are deferred to a later run.
Cut(r, n, at) == [r EXCEPT !.at = at, !.todo = SubSeq(@, 1, Min({n, Len(@)}))]

Cap(k) ==
  /\ run[k].at = "dedup" /\ run[k].left = <<>>
  /\ run' = [run EXCEPT ![k] =
       IF k = "keeper" THEN Cut(@, MAX_SEED, "send")
       ELSE Cut(@, SEED_CAP, IF run[k].todo # <<>> THEN "fund" ELSE "send")]
  /\ UNCHANGED <<imminent, kicked, configured, created, wallet, claims, scripts, seedMisses, dry, authorized>>

-----------------------------------------------------------------------------
\* The script's funding: the balance is read, then a faucet claim is sent and the
\* balance read again while it is short, until a claim fails; then only as many
\* markets as it has read the money for, or none at all.

Needed == Len(run["script"].todo) * Deposit["script"] + Reserve

ReadBalance ==
  /\ run["script"].at = "fund"
  /\ \/ /\ run' = [run EXCEPT !["script"].at = "claim", !["script"].bal = wallet]
        /\ UNCHANGED seedMisses
     \/ SeedMiss /\ run' = [run EXCEPT !["script"] = Released]
  /\ UNCHANGED <<imminent, kicked, configured, created, wallet, claims, scripts, dry, authorized>>

Short == run["script"].bal < Needed
request_devnet_faucet == claims' = claims + 1 /\ wallet' = wallet + Grant

\* A claim in its cooldown is refused.
Claim ==
  /\ run["script"].at = "claim" /\ Short
  /\ \E tx \in sendTx :
       /\ IF tx.landed THEN claims < MaxClaims /\ request_devnet_faucet
          ELSE UNCHANGED <<claims, wallet>>
       /\ IF tx.reported \/ claims >= MaxClaims THEN UNCHANGED seedMisses ELSE SeedMiss
       /\ run' = [run EXCEPT !["script"].at = IF tx.reported THEN "fund" ELSE "afford"]
  /\ UNCHANGED <<imminent, kicked, configured, created, scripts, dry, authorized>>

InBudget == run["script"].at = "afford" \/ (run["script"].at = "claim" /\ ~Short)

\* Broken: every fixture below the cap is tried, whatever the wallet holds.
SpendAnyway ==
  /\ InBudget
  /\ run' = [run EXCEPT !["script"].at = "send"]
  /\ UNCHANGED <<imminent, kicked, configured, created, wallet, claims, scripts, seedMisses, dry, authorized>>

Afford ==
  /\ InBudget
  /\ LET affordable == (run["script"].bal - Reserve) \div Deposit["script"]
     IN  run' = [run EXCEPT !["script"] =
           IF affordable <= 0 THEN Released ELSE Cut(@, affordable, "send")]
  /\ UNCHANGED <<imminent, kicked, configured, created, wallet, claims, scripts, seedMisses, dry, authorized>>

-----------------------------------------------------------------------------
\* init_market on chain, and the end of a run.

\* quoted: the odds were read, the market otherwise opens at a third each.
Accepts(k, m, quoted) ==
  /\ ~Kicked(m) /\ (k = "keeper" => authorized) /\ configured /\ m \notin created
  /\ quoted => Covered(k, m)
  /\ wallet >= Deposit[k]

InTurn(k) == run[k].at = "send" /\ run[k].todo # <<>>

\* The next fixture is passed over.
Skip(k) ==
  /\ run' = [run EXCEPT ![k].todo = Tail(@)]
  /\ UNCHANGED <<imminent, kicked, configured, created, wallet, claims, scripts, seedMisses, dry, authorized>>

\* Odds that cannot be read are passed over; what the program refuses fails,
\* and the run goes on.
init_market(k) ==
  /\ LET m == Head(run[k].todo)
     IN  \E quoted \in BOOLEAN, tx \in sendTx :
           /\ tx.landed => Accepts(k, m, quoted)
           /\ IF quoted /\ (tx.reported \/ ~Accepts(k, m, quoted)) THEN UNCHANGED seedMisses ELSE SeedMiss
           /\ created' = IF tx.landed THEN created \cup {m} ELSE created
           /\ wallet' = IF tx.landed THEN wallet - Deposit[k] ELSE wallet
           /\ run' = [j \in Seeders |->
                IF j # k THEN [run[j] EXCEPT !.alone = @ /\ ~tx.landed]
                ELSE [run[k] EXCEPT !.todo = Tail(@)]]
  /\ UNCHANGED <<imminent, kicked, configured, claims, scripts, dry, authorized>>

\* A dry run sends nothing.
KeeperSeeds == InTurn("keeper") /\ IF dry THEN Skip("keeper") ELSE init_market("keeper")

\* The script looks at the clock again.
ScriptSeeds ==
  /\ InTurn("script")
  /\ IF Kicked(Head(run["script"].todo)) THEN Skip("script") ELSE init_market("script")

EndRun(k) ==
  /\ run[k].at = "send" /\ run[k].todo = <<>>
  /\ run' = [run EXCEPT ![k] = Released]
  /\ UNCHANGED <<imminent, kicked, configured, created, wallet, claims, scripts, seedMisses, dry, authorized>>

SeederStep(k) ==
  \/ ListFuture(k) \/ Dedup(k) \/ Cap(k) \/ EndRun(k)
  \/ IF k = "keeper" THEN KeeperSeeds ELSE ScriptSeeds

SeederNext ==
  \/ FixtureNears \/ FixtureStarts \/ EnsureConfig \/ ReadBalance \/ Claim \/ Afford
  \/ \E k \in Seeders : StartRun(k) \/ SeederStep(k)

\* The keeper's timer and its calls; nobody has to start the script.
SeederFairness == WF_seederVars(StartRun("keeper")) /\ WF_seederVars(SeederStep("keeper"))

SeederSpec == SeederInit /\ [][SeederNext]_seederVars /\ SeederFairness
-----------------------------------------------------------------------------
\* The script can pay for all it still means to seed, unless the keeper has
\* spent from the same wallet since the balance was read.
ScriptCanPay ==
  LET r == run["script"]
  IN  r.at = "send" /\ r.alone => wallet >= Len(r.todo) * Deposit["script"]

\* Every upcoming fixture that the deposit covers gets its market before its kickoff is close, as long
\* as the wallet can pay, however many runs fail in between ("matches self-appear").
UpcomingAppear ==
  ~dry /\ authorized /\ configured =>
    <>(\A m \in Matches : Covered("keeper", m) =>
         m \in created \/ Soon(m) \/ wallet < Deposit["keeper"])
=============================================================================
