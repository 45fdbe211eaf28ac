--------------------------- MODULE OperatorScripts ---------------------------
(***************************************************************************)
(* The operator's scripts: devnet-init, enable-leverage, full-circle,      *)
(* leverage-circle, close-market, fund-usdt and txline-token.  Each walks  *)
(* through steps that look at the chain and then skip, wait, give up or    *)
(* send a transaction; what is sent may land late, twice or never, and the *)
(* operator runs the script again after a failure.  The chain is a set of  *)
(* facts (accounts and flags: <<fact, w>> of the throwaway wallet w, or of *)
(* the operator when w = 0), the market's stage and the operator's USDT.   *)
(***************************************************************************)
EXTENDS Integers, Sequences, SequencesExt, FiniteSets

CONSTANTS
  Scripts,          \* the scripts the operator may run
  Purse,            \* the USDT the operator may have at first
  GRANT,            \* one faucet claim
  SEED, BUY,        \* SEED_LIQUIDITY and BUY_USDT_IN of devnet-init and full-circle
  SUBSIDY,          \* the least seed init_market takes for them
  LEV_SEED, LP, COLLATERAL,  \* SEED_LIQUIDITY, LP_DEPOSIT, COLLATERAL of leverage-circle
  TARGET,           \* TARGET_USDT of fund-usdt
  MaxFailures       \* bound on failing calls, late transactions and crashes

ASSUME ScriptConstants ==
  /\ {GRANT, SEED, BUY, SUBSIDY, LEV_SEED, LP, COLLATERAL, TARGET} \subseteq Nat \ {0}
  /\ Purse \subseteq Nat /\ MaxFailures \in Nat

VARIABLES
  script,       \* the script that is run
  exec,         \* its run: [at, pc, attempt, have: a value it keeps, paid: claims
                \* it counts, tx: what it sent last, result]
  chain,        \* [made, stage, usdt]
  flying,       \* transactions sent, neither landed nor expired
  deposits,     \* how often deposit_lp took effect, up to 2
  failures,
  wallets       \* throwaway wallets generated so far

scriptVars == <<script, exec, chain, flying, deposits, failures, wallets>>

NoTx == [ixs |-> <<>>, w |-> 0, seed |-> 0, id |-> 0]
Idle == [at |-> "off", pc |-> 1, attempt |-> 1, have |-> 0, paid |-> 0, tx |-> NoTx, result |-> "none"]

AtMost(a, b) == IF a < b THEN a ELSE b
Facts(names) == {<<f, 0>> : f \in names}
Has(fact) == <<fact, 0>> \in chain.made
-----------------------------------------------------------------------------
\* The instructions, as what they need and refuse, and what they do.

Op(needs, absent, stages, makes, drops, to, pays) ==
  [needs |-> needs, absent |-> absent, stages |-> stages, makes |-> makes,
   drops |-> drops, to |-> to, pays |-> pays]

Stages == {"Absent", "Open", "Trading", "Frozen", "Resolved"}
Existing == Stages \ {"Absent"}

\* An instruction that creates an account refuses to do so twice.
Creates(fact, needs, stages, pays) == Op(needs, {fact}, stages, {fact}, {}, "same", pays)
initialize_config == Creates("config", {}, Stages, 0)
create_market_config ==
  [Creates("market_config", {"config"}, Stages, 0) EXCEPT
     !.makes = @ \cup IF script = "leverage-circle" THEN {"leverage"} ELSE {}]
open_position == Creates("position", {}, Existing, 0)
init_leverage_pool == Creates("pool", {"leverage"}, Existing, 0)
open_lp_account == Creates("lp_account", {}, Existing, 0)
open_leverage == Creates("lev_position", {"pool", "lp_shares", "fresh"}, {"Trading"}, COLLATERAL)

init_market_ix(seed) ==
  Op({"config", "market_config"}, {},
     IF script = "leverage-circle" \/ seed >= SUBSIDY THEN {"Absent"} ELSE {}, {}, {}, "Open", seed)
activate_market == Op({"kicked"}, {}, {"Open"}, {}, {}, "Trading", 0)
buy == Op({"position"}, {}, {"Trading"}, {"tokens"}, {}, "same", BUY)
redeem == Op({"position"}, {"redeemed"}, {"Resolved"}, {"redeemed"}, {"tokens"}, "same", 0 - BUY)
close_market == Op({"grace"}, {}, {"Resolved"}, {}, {}, "Absent", 0)
update_leverage_params == Op({"market_config"}, {}, Stages, {"leverage"}, {}, "same", 0)
deposit_lp == Op({"pool", "lp_account"}, {}, Existing, {"lp_shares"}, {}, "same", LP)
post_mark == Op({"pool"}, {}, Existing, {"marks", "fresh"}, {}, "same", 0)
close_leverage ==
  Op({"lev_position", "fresh"}, {}, {"Trading", "Frozen"}, {}, {"lev_position"}, "same", 0 - COLLATERAL)
faucet == Op({}, {"claimed"}, Stages, {"claimed"}, {}, "same", 0 - GRANT)
subscribe == Op({}, {}, Stages, {}, {}, "same", 0)
fund_temp == Op({}, {}, Stages, {"sol"}, {}, "same", 0)
\* Faucet, transfer_checked and close_account, in one transaction.
farm == [faucet EXCEPT !.needs = {"sol"}]
sweep == Op({"sol"}, {}, Stages, {}, {"sol"}, "same", 0)

Instruction(ix, seed) ==
  CASE ix = "initialize_config" -> initialize_config
    [] ix = "create_market_config" -> create_market_config
    [] ix = "open_position" -> open_position
    [] ix = "init_leverage_pool" -> init_leverage_pool
    [] ix = "open_lp_account" -> open_lp_account
    [] ix = "open_leverage" -> open_leverage
    [] ix = "init_market" -> init_market_ix(seed)
    [] ix = "activate_market" -> activate_market
    [] ix = "buy" -> buy
    [] ix = "redeem" -> redeem
    [] ix = "close_market" -> close_market
    [] ix = "update_leverage_params" -> update_leverage_params
    [] ix = "deposit_lp" -> deposit_lp
    [] ix = "post_mark" -> post_mark
    [] ix = "close_leverage" -> close_leverage
    [] ix = "faucet" -> faucet
    [] ix = "subscribe" -> subscribe
    [] ix = "fund_temp" -> fund_temp
    [] ix = "farm" -> farm
    [] ix = "sweep" -> sweep

\* One instruction after the other: [ok, made, stage, usdt].
Run(c, ix, w, seed) ==
  LET i == Instruction(ix, seed)
      Of(facts) == {<<f, w>> : f \in facts}
  IN  IF /\ c.ok /\ Of(i.needs) \subseteq c.made /\ Of(i.absent) \cap c.made = {}
         /\ c.stage \in i.stages /\ c.usdt >= i.pays
      THEN [c EXCEPT !.made = (@ \cup Of(i.makes)) \ Of(i.drops), !.usdt = @ - i.pays,
                     !.stage = IF i.to = "same" THEN @ ELSE i.to]
      ELSE [c EXCEPT !.ok = FALSE]

\* A transaction: all of its instructions take effect, or none.
Outcome(tx) ==
  FoldLeft(LAMBDA c, ix : Run(c, ix, tx.w, tx.seed),
           [ok |-> TRUE, made |-> chain.made, stage |-> chain.stage, usdt |-> chain.usdt], tx.ixs)
\* What a simulation answers, on the chain as it is.
Simulated(tx) == Outcome(tx).ok
-----------------------------------------------------------------------------
\* What a step makes of the chain it finds.

Do(what, ixs) == [do |-> what, ixs |-> ixs, seed |-> SEED]
Proceed == Do("skip", <<>>)
Wait == Do("wait", <<>>)
Throw == Do("throw", <<>>)
Http == Do("http", <<>>)
Send(ix) == Do("send", <<ix>>)
Unless(done, ix) == IF done THEN Proceed ELSE Send(ix)

Exists == chain.stage # "Absent"
Enough == SEED + BUY
usdtBalance == chain.usdt
\* The clock of the chain has reached the kickoff of the market.
chainNow == Has("kicked")

\* devnet-init.
InitConfig == Unless(Has("config"), "initialize_config")
InitMarketConfig == Unless(Has("market_config"), "create_market_config")
InitFaucet == Unless(usdtBalance >= Enough \/ Exists, "faucet")
InitMarket == IF ~Exists /\ exec.have < Enough THEN Throw ELSE Unless(Exists, "init_market")
InitPosition == Unless(Has("position"), "open_position")
InitActivate == Unless(chain.stage # "Open", "activate_market")
\* Broken: the market is bought from in whatever state it is.
BuyAnyway == Unless(Has("tokens"), "buy")
InitBuy == Unless(chain.stage # "Trading" \/ Has("tokens"), "buy")
InitVerify == IF Has("config") /\ Has("market_config") THEN Proceed ELSE Throw

\* enable-leverage, for one live market.
EnableParams == IF ~Has("market_config") THEN Throw ELSE Unless(Has("leverage"), "update_leverage_params")
EnableLive == Do(IF chain.stage \in {"Open", "Trading"} THEN "skip" ELSE "finish", <<>>)
EnableBudget == Unless(usdtBalance >= LP, "faucet")
EnablePool == Unless(Has("pool"), "init_leverage_pool")
\* Broken: the account is opened in a transaction of its own.
Unbundled == Unless(Has("lp_shares"), IF Has("lp_account") THEN "deposit_lp" ELSE "open_lp_account")
\* A first deposit opens the account in the same transaction.
EnableDeposit ==
  IF usdtBalance < LP \/ Has("lp_shares") THEN Proceed
  ELSE IF Has("lp_account") THEN Send("deposit_lp")
  ELSE Do("send", <<"open_lp_account", "deposit_lp">>)
EnableMark == Unless(~Has("pool") \/ Has("marks"), "post_mark")

\* full-circle: the seed shrinks to what the wallet can cover.
CircleFunding == Unless(Exists \/ usdtBalance >= Enough + 1, "faucet")
Spendable == exec.have - BUY - 1
CircleShrink == IF ~Exists /\ exec.have < Enough + 1 /\ Spendable < 5 THEN Throw ELSE Proceed
CircleMarket == [Unless(Exists, "init_market") EXCEPT !.seed = IF exec.have > Enough THEN SEED ELSE Spendable]
CircleBuy ==
  IF Has("tokens") THEN Proceed
  ELSE IF chain.stage = "Open" THEN Wait
  ELSE IF chain.stage = "Trading" THEN Send("buy") ELSE Throw
CircleResolved == IF chain.stage = "Resolved" THEN Proceed ELSE IF Exists THEN Wait ELSE Throw
CircleRedeem ==
  IF ~Has("position") THEN Throw
  ELSE IF Has("redeemed") THEN Proceed ELSE IF Has("tokens") THEN Send("redeem") ELSE Throw
\* The transactions on the market are listed, which changes nothing.
CircleArtifacts == Proceed
CircleVerify == IF Exists THEN Proceed ELSE Throw

\* leverage-circle.
LevConfig ==
  IF Has("market_config") /\ ~Has("leverage") THEN Throw
  ELSE Unless(Has("market_config"), "create_market_config")
LevMarket == [Unless(Exists, "init_market") EXCEPT !.seed = LEV_SEED]
LevActivate == Unless(chain.stage = "Trading", "activate_market")
LevDeposit ==
  IF Has("lp_shares") THEN Proceed
  ELSE Do("send", IF Has("lp_account") THEN <<"deposit_lp">> ELSE <<"open_lp_account", "deposit_lp">>)
LevFirstMark == Unless(Has("marks"), "post_mark")
LevOpen == Unless(Has("lev_position"), "open_leverage")
\* SEGMENT_WAIT_SECS from the last mark on chain: nothing to wait for when that one
\* is old; after the mark of the first segment, longer than a blockhash lasts.
LevSegment ==
  IF ~Has("pool") THEN Throw ELSE IF exec.pc = 9 /\ flying # {} THEN Wait ELSE Send("post_mark")
LevClose == Unless(~Has("lev_position"), "close_leverage")

\* close-market: simulated first, sent only when the simulation is clean.
CloseMarket == IF Simulated([NoTx EXCEPT !.ixs = <<"close_market">>]) THEN Send("close_market") ELSE Throw

\* fund-usdt: exec.have counts the wallets still to farm.
Claims == LET deficit == TARGET - usdtBalance IN IF deficit <= 0 THEN 0 ELSE (deficit + GRANT - 1) \div GRANT
FundPlan == Do(IF Claims = 0 THEN "finish" ELSE "skip", <<>>)
FundSweep == Unless(<<"sol", wallets>> \notin chain.made, "sweep")

\* txline-token: exec.have is 1 once there is a token that works.
TokenGuest == Http
TokenProbe == IF Has("token") THEN Http ELSE Proceed
TokenSubscribe == Unless(exec.have = 1, "subscribe")
TokenActivate == IF exec.have = 1 THEN Proceed ELSE Http
TokenVerify == Http

Plan ==
  CASE script = "devnet-init" ->
         <<InitConfig, InitMarketConfig, InitFaucet, InitMarket, InitPosition, InitActivate,
           InitBuy, InitVerify>>
    [] script = "enable-leverage" ->
         <<EnableParams, EnableLive, EnableBudget, EnablePool, EnableDeposit, EnableMark>>
    [] script = "full-circle" ->
         <<CircleFunding, CircleShrink, CircleMarket, InitPosition, CircleBuy, CircleResolved, CircleRedeem,
           CircleArtifacts, CircleVerify>>
    [] script = "leverage-circle" ->
         <<LevConfig, LevMarket, LevActivate, EnablePool, LevDeposit, LevFirstMark, LevOpen,
           LevSegment, LevSegment, LevClose>>
    [] script = "close-market" -> <<CloseMarket>>
    [] script = "fund-usdt" -> <<FundPlan, Send("fund_temp"), Send("farm"), FundSweep>>
    [] script = "txline-token" -> 
         <<TokenGuest, TokenProbe, TokenSubscribe, TokenActivate, TokenVerify, Do("write", <<>>)>>
-----------------------------------------------------------------------------
\* A run of a script.

Begun(names, stage, usdt) == [made |-> Facts(names), stage |-> stage, usdt |-> usdt]
Configs == {"config", "market_config"}
\* The pool of a market from which the operator has withdrawn its liquidity.
Emptied == Configs \cup {"leverage", "pool", "lp_account", "emptied"}

\* What a script may find when it is run for the first time.
ScriptsInit ==
  /\ script \in Scripts
  /\ \E usdt \in Purse :
       \/ script \in {"devnet-init", "fund-usdt", "txline-token"} /\ chain = Begun({}, "Absent", usdt)
       \/ script = "txline-token" /\ chain = Begun({"token", "valid"}, "Absent", usdt)
       \/ script = "leverage-circle" /\ chain = Begun({"config"}, "Absent", usdt)
       \/ script = "full-circle" /\ chain = Begun(Configs, "Absent", usdt)
       \/ script = "close-market" /\ chain = Begun(Configs, "Resolved", usdt)
       \/ /\ script = "enable-leverage"
          /\ \E stage \in {"Open", "Trading", "Frozen"}, names \in {Configs, Emptied} :
               chain = Begun(names, stage, usdt)
       \/ script = "leverage-circle" /\ chain = Begun(Emptied \cup {"kicked"}, "Trading", usdt)
  /\ exec = Idle /\ flying = {} /\ deposits = 0
  /\ failures = 0 /\ wallets = 0

Failure == failures < MaxFailures /\ failures' = failures + 1

\* The operator runs the script, again after it has failed.
Start ==
  /\ exec.at = "off"
  /\ exec' = [Idle EXCEPT !.at = "look"]
  /\ UNCHANGED <<script, chain, flying, deposits, failures, wallets>>

Done(e) == [Idle EXCEPT !.at = "done", !.paid = e.paid]
At(e, pc) == [e EXCEPT !.at = "look", !.pc = pc, !.attempt = 1, !.tx = NoTx, !.result = "none"]
\* The next step; fund-usdt goes on to the next throwaway wallet.
Advance(e) ==
  IF e.pc < Len(Plan) THEN At(e, e.pc + 1)
  ELSE IF script = "fund-usdt" /\ e.have > 1 THEN [At(e, 2) EXCEPT !.have = @ - 1]
  ELSE Done(e)

Farming == script = "fund-usdt" /\ exec.pc > 1
\* Broken: a step that fails is reported and the next one tried.
Forgiven == TRUE
\* The catch around the faucet, when the script can go on without it; the balance
\* is first read outside of it.
Tolerated ==
  /\ exec.at # "look"
  /\ (script = "enable-leverage" /\ exec.pc = 3) \/ (script = "full-circle" /\ exec.pc = 1)
\* A step has thrown.
Thrown(e) ==
  IF Farming THEN Advance([e EXCEPT !.pc = Len(Plan)]) ELSE IF Tolerated THEN Advance(e) ELSE Idle

\* The balance, or the number of claims, that a script keeps from a look.
Kept ==
  IF <<script, exec.pc>> \in {<<"devnet-init", 3>>, <<"full-circle", 1>>} THEN usdtBalance
  ELSE IF <<script, exec.pc>> = <<"fund-usdt", 1>> THEN Claims
  ELSE exec.have

Wallet == IF Farming THEN wallets' ELSE 0

Look ==
  /\ exec.at = "look"
  /\ wallets' = IF Farming /\ exec.pc = 2 THEN wallets + 1 ELSE wallets
  /\ LET d == Plan[exec.pc]
         e == [exec EXCEPT !.have = Kept]
     IN  \/ d.do = "skip" /\ exec' = Advance(e)
         \/ d.do = "finish" /\ exec' = Done(e)
         \/ d.do = "throw" /\ exec' = Thrown(e)
         \/ /\ d.do = "send"
            /\ exec' = [e EXCEPT !.at = "send",
                                 !.tx = [ixs |-> d.ixs, w |-> Wallet, seed |-> d.seed, id |-> failures]]
  /\ UNCHANGED <<script, chain, flying, deposits, failures>>

\* The stage is read, and then the kickoff waited for.
waiting == exec.at = "send" /\ exec.tx.ixs = <<"activate_market">> /\ ~chainNow

\* A bounded wait is over before what it waits for has come: devnet-init then sends
\* activate_market all the same, and is refused; leverage-circle waits on.
TireOfWaiting ==
  /\ \/ exec.at = "look" /\ Plan[exec.pc].do = "wait"
     \/ waiting /\ script = "devnet-init"
  /\ Failure /\ exec' = Thrown(exec)
  /\ UNCHANGED <<script, chain, flying, deposits, wallets>>

\* txline-token's calls.  One that gets no answer ends the run.  An error status
\* does so for the guest token and the activation, makes the token of .env a stale
\* one, and passes in the verification.
CallApi ==
  /\ exec.at = "look" /\ Plan[exec.pc].do = "http"
  /\ LET With(have) == [Advance(exec) EXCEPT !.have = have]
     IN  \/ /\ exec' = With(CASE exec.pc = 2 -> IF Has("valid") THEN 1 ELSE 0
                              [] exec.pc = 4 -> 1
                              [] OTHER -> exec.have)
            /\ UNCHANGED failures
         \/ Failure /\ (exec' = Idle \/ (exec.pc = 2 /\ exec' = With(0)))
  /\ UNCHANGED <<script, chain, flying, deposits, wallets>>

\* The token gets into .env, whatever the verification was answered.
persistEnv ==
  /\ exec.at = "look" /\ Plan[exec.pc].do = "write"
  /\ chain' = [chain EXCEPT !.made = @ \cup Facts({"token", "valid"})]
  /\ exec' = Done(exec)
  /\ UNCHANGED <<script, flying, deposits, failures, wallets>>

\* withRpc: six tries of a call have failed.
RpcFails ==
  /\ exec.at \in {"look", "send", "poll"} /\ Failure
  /\ exec.at = "look" => Plan[exec.pc].do \notin {"http", "write"}
  /\ exec' = Thrown(exec)
  /\ UNCHANGED <<script, chain, flying, deposits, wallets>>
-----------------------------------------------------------------------------
\* sendTx: up to three transactions, each with a blockhash of its own.

Again == IF exec.attempt < 3 THEN [exec EXCEPT !.at = "send", !.attempt = @ + 1] ELSE Thrown(exec)

\* Two of the scripts simulate the transaction themselves and send it unchecked;
\* they give up when it cannot be sent.
Unchecked == script \in {"enable-leverage", "leverage-circle"}

Attempt == [exec.tx EXCEPT !.id = failures]

\* The simulation, the script's or the node's, is clean.
Accepted ==
  /\ Simulated(Attempt)
  /\ flying' = flying \cup {Attempt} /\ exec' = [exec EXCEPT !.at = "poll", !.tx = Attempt]
  /\ UNCHANGED failures

\* A program error of the simulation is for good.
Refused == ~Simulated(Attempt) /\ exec' = Thrown(exec) /\ UNCHANGED <<flying, failures>>

\* The call fails, and the transaction may have got through all the same.
Unsent ==
  /\ Failure
  /\ \E delivered \in BOOLEAN : flying' = IF delivered THEN flying \cup {Attempt} ELSE flying
  /\ exec' = IF Unchecked THEN Thrown(exec) ELSE Again

Submit ==
  /\ exec.at = "send" /\ ~waiting
  /\ Accepted \/ Refused \/ Unsent
  /\ UNCHANGED <<script, chain, deposits, wallets>>

\* A transaction lands, whoever still waits for it; or its blockhash expires.
Land(tx) ==
  /\ flying' = flying \ {tx}
  /\ LET after == Outcome(tx)
     IN  /\ chain' = IF after.ok THEN [made |-> after.made, stage |-> after.stage, usdt |-> after.usdt]
                     ELSE chain
         /\ deposits' = IF after.ok /\ "deposit_lp" \in ToSet(tx.ixs)
                        THEN AtMost(deposits + 1, 2) ELSE deposits
         /\ exec' = IF exec.at = "poll" /\ exec.tx = tx
                    THEN [exec EXCEPT !.result = IF after.ok THEN "ok" ELSE "err"] ELSE exec
  /\ UNCHANGED <<script, failures, wallets>>

Expire(tx) ==
  /\ Failure /\ flying' = flying \ {tx}
  /\ UNCHANGED <<script, exec, chain, deposits, wallets>>

Paid == IF Farming /\ exec.pc = 3 THEN 1 ELSE 0

Confirm ==
  /\ exec.at = "poll" /\ exec.result # "none"
  /\ exec' = IF exec.result = "ok" THEN Advance([exec EXCEPT !.have = Kept, !.paid = @ + Paid])
             ELSE Thrown(exec)
  /\ UNCHANGED <<script, chain, flying, deposits, failures, wallets>>

\* The polls are over, and the transaction may be gone or still on its way.
Timeout ==
  /\ exec.at = "poll" /\ exec.result = "none"
  /\ IF exec.tx \in flying THEN Failure ELSE UNCHANGED failures
  /\ exec' = Again
  /\ UNCHANGED <<script, chain, flying, deposits, wallets>>

Crash ==
  /\ exec.at \notin {"off", "done"} /\ Failure /\ exec' = Idle
  /\ UNCHANGED <<script, chain, flying, deposits, wallets>>
-----------------------------------------------------------------------------
\* Time, and the keeper.

Becomes(made, stage) ==
  /\ chain' = [chain EXCEPT !.made = made, !.stage = stage]
  /\ UNCHANGED <<script, exec, flying, deposits, failures, wallets>>

Kickoff == chain.stage = "Open" /\ ~Has("kicked") /\ Becomes(chain.made \cup Facts({"kicked"}), "Open")

\* The keeper drives the markets of real fixtures.
KeeperMoves ==
  /\ script \in {"devnet-init", "full-circle"}
  /\ \/ chain.stage = "Open" /\ Has("kicked") /\ Becomes(chain.made, "Trading")
     \/ chain.stage = "Trading" /\ Becomes(chain.made, "Frozen")
     \/ chain.stage = "Frozen" /\ Becomes(chain.made, "Resolved")

GraceElapses ==
  /\ script = "close-market" /\ chain.stage = "Resolved" /\ ~Has("grace")
  /\ Becomes(chain.made \cup Facts({"grace"}), chain.stage)

\* What passes between two runs: the faucet's cooldown, the age of the marks,
\* the term of the subscription.
Passes(fact) == exec.at = "off" /\ Has(fact) /\ Becomes(chain.made \ Facts({fact}), chain.stage)

RunStep == Look \/ CallApi \/ persistEnv \/ Submit \/ Confirm \/ Timeout
Landing == \E tx \in flying : Land(tx)

ScriptsNext ==
  \/ Start \/ RunStep \/ TireOfWaiting \/ RpcFails \/ Crash
  \/ Landing \/ \E tx \in flying : Expire(tx)
  \/ Kickoff \/ KeeperMoves \/ GraceElapses
  \/ \E fact \in {"claimed", "fresh", "valid"} : Passes(fact)

\* The operator runs a script that failed again, at times after the cooldown.
ScriptsFairness ==
  /\ WF_scriptVars(Start) /\ WF_scriptVars(RunStep) /\ WF_scriptVars(Landing)
  /\ WF_scriptVars(Kickoff) /\ WF_scriptVars(GraceElapses) /\ SF_scriptVars(Passes("claimed"))

ScriptsSpec == ScriptsInit /\ [][ScriptsNext]_scriptVars /\ ScriptsFairness
-----------------------------------------------------------------------------
\* However often a transaction is rebuilt and a script run again, the liquidity
\* is deposited once (the account is opened in the same transaction), except into
\* an account from which it was withdrawn before.
DepositsOnce == Has("emptied") \/ deposits <= 1

\* A script that ends has brought about what it was run for; fund-usdt counts no
\* claim that has not reached the operator, and meets its target when no call fails.
DoneMeansReady ==
  exec.at = "done" =>
    CASE script = "devnet-init" ->
           chain.stage \notin {"Absent", "Open"} /\ Facts(Configs \cup {"position"}) \subseteq chain.made
      [] script = "enable-leverage" ->
           chain.stage = "Frozen" \/ Facts({"leverage", "pool", "marks"}) \subseteq chain.made
      [] script = "full-circle" -> Has("redeemed")
      [] script = "leverage-circle" -> Has("lp_shares") /\ ~Has("lev_position")
      [] script = "close-market" -> ~Exists
      [] script = "txline-token" -> Has("token") /\ Has("valid")
      [] script = "fund-usdt" ->
           /\ exec.paid <= Cardinality({w \in 1..wallets : <<"claimed", w>> \in chain.made})
           /\ failures = 0 => chain.usdt >= TARGET

\* A script that is run again and again after failures comes to its end.
RerunsFinish ==
  script \in {"devnet-init", "enable-leverage", "fund-usdt", "txline-token", "close-market"} =>
    <>(exec.at = "done" \/ (script = "close-market" /\ ~Exists))
=============================================================================
