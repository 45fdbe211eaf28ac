------------------------------- MODULE WebClient -------------------------------
(***************************************************************************)
(* The web client's transactions on one market: what a page shows, polled  *)
(* from the chain and the indexer with answers in any order; the panels'   *)
(* flows, each an order that is simulated, signed (by the demo wallet at   *)
(* once, by a connected one when its user answers the prompt, if ever),    *)
(* sent and confirmed for a bounded time; and the wallets, which may       *)
(* change under both.                                                      *)
(*                                                                         *)
(* A token costs two units of USDT and sells for one.  A panel belongs to  *)
(* the page of the market or to the portfolio, and one behaviour uses the  *)
(* panels of one element of Pages.                                         *)
(***************************************************************************)
EXTENDS Integers, Sequences, FiniteSets, SequencesExt

CONSTANTS
  Pages,         \* the sets of panels that are used together
  Results,       \* what the market may resolve to
  Outcomes,      \* the outcomes orders are on, and tokens are held of
  Multiples,     \* the leverage the form offers
  FAUCET,         \* one claim from the faucet
  MaxAsks,       \* bound on requests in flight, but one of each kind always may be
  MaxTxs,        \* bound on transactions sent
  MaxSwitches,   \* bound on changes of wallet and of the list
  MaxErrors      \* bound on calls that fail

Accounts == {"demo", "wallet"}
Nobody == "nobody"
Tickets == {"trade", "lev"}
AllPanels == {"trade", "lev", "faucet", "resolution", "portfolio"}
AllKinds == {"market", "usdt", "pos", "lev"}

ASSUME WebConstants ==
  /\ \A panels \in Pages : panels \subseteq AllPanels
  /\ "Team1" \in Outcomes /\ Multiples # {}
  /\ {FAUCET, MaxAsks, MaxTxs, MaxSwitches, MaxErrors} \subseteq Nat

VARIABLES
  phase,     \* of the market: "Trading", "Cutoff", "Locked", "Resolved"
  outcome,   \* of the market
  acct,      \* per account on chain, see Blank
  listed,    \* the market is among those GET /markets gives the portfolio
  session,   \* a Wallet-Standard session is connected
  seed,      \* the demo wallet's seed is in localStorage
  page,      \* what the page shows [phase, usdt, pos, lev]
  asks,      \* per kind, the answers on their way
  flow,      \* per panel [order, prepared, busy, asked, tx, claimed]; busy is
             \* "no", "prepare", "sign" (a prompt is open) or "send"
  txs,       \* the transactions sent [order, ixs, by, status]
  switches, errors

chainVars == <<phase, outcome, acct, listed>>
walletVars == <<session, seed, switches>>
webVars == <<phase, outcome, acct, listed, session, seed, page, asks, flow, txs, switches, errors>>

None == [none |-> TRUE]
address == IF session THEN "wallet" ELSE IF seed THEN "demo" ELSE Nobody
Panels == DOMAIN flow

Order(op, o) == [op |-> op, on |-> o]
Orders(p) ==
  CASE p = "trade" -> {Order(op, o) : op \in {"buy", "sell"}, o \in Outcomes}
    [] p = "lev" -> IF page.lev THEN {Order("close", "all")} ELSE {Order("open", l) : l \in Multiples}
    [] p = "faucet" -> {Order("faucet", "all")}
    [] OTHER -> {Order("redeem", "all")}

\* The leverage form as it mounts, and any panel.
Form == CHOOSE o \in {Order("open", l) : l \in Multiples} : TRUE
Mounted(o) == [order |-> o, prepared |-> None, busy |-> "no", asked |-> None, tx |-> 0,
               claimed |-> FALSE]
Unread == [phase |-> "Trading", usdt |-> -1, pos |-> None, lev |-> FALSE]

\* opened and ata: the position's and the USDT account exist.
Blank == [usdt |-> 0, ata |-> FALSE, sol |-> 0, opened |-> FALSE, tok |-> [o \in Outcomes |-> 0],
          basis |-> 0, redeemed |-> FALSE, lev |-> FALSE, granted |-> FALSE]
Holding(o) == [Blank EXCEPT !.usdt = 2, !.ata = TRUE, !.sol = 1, !.opened = TRUE, !.tok[o] = 1,
                            !.basis = 2, !.granted = TRUE]

WebInit ==
  /\ phase = "Trading" /\ outcome = "Unset"
  /\ session = FALSE /\ seed \in BOOLEAN
  /\ acct = [demo |-> IF seed THEN Holding("Team1") ELSE Blank, wallet |-> Holding("Team1")]
  /\ page = Unread /\ asks = [what \in AllKinds |-> {}]
  /\ \E panels \in Pages :
       flow = [p \in panels |-> Mounted(
                 CASE p = "trade" -> Order("buy", "Team1") [] p = "lev" -> Form
                   [] p = "faucet" -> Order("faucet", "all") [] OTHER -> Order("redeem", "all"))]
  /\ listed \in BOOLEAN /\ ("portfolio" \in Panels \/ listed)
  /\ txs = <<>> /\ switches = 0 /\ errors = 0

-----------------------------------------------------------------------------
\* The chain.

\* Time and the keeper move the market on.
MarketMoves ==
  /\ \/ phase = "Trading" /\ phase' = "Cutoff" /\ UNCHANGED outcome
     \/ phase = "Cutoff" /\ phase' = "Locked" /\ UNCHANGED outcome
     \/ phase = "Locked" /\ phase' = "Resolved" /\ outcome' \in Results
  /\ UNCHANGED <<acct, listed, walletVars, page, asks, flow, txs, errors>>

\* The list holds the fifty rows updated last, less those whose teams are not
\* known: other markets' updates push this one out, its own or its names let it in.
ListMoves ==
  /\ "portfolio" \in Panels
  /\ switches < MaxSwitches /\ switches' = switches + 1
  /\ listed' = ~listed
  /\ UNCHANGED <<phase, outcome, acct, session, seed, page, asks, flow, txs, errors>>

\* What the programs make of an instruction of an account's.
Allowed(ix, on, a) ==
  /\ a.sol > 0
  /\ CASE ix = "open_position" -> ~a.opened
       [] ix = "buy" -> phase \in {"Trading", "Cutoff"} /\ a.opened /\ a.usdt >= 2
       [] ix = "sell" -> phase \in {"Trading", "Cutoff"} /\ a.opened /\ a.tok[on] > 0
       [] ix = "open" -> phase = "Trading" /\ ~a.lev /\ a.usdt >= 1
       [] ix = "close" -> phase # "Locked" /\ a.lev
       [] ix = "redeem" -> phase = "Resolved" /\ a.opened /\ ~a.redeemed /\ a.ata
       [] ix = "create_ata" -> TRUE
       [] ix = "faucet" -> a.ata /\ ~a.granted

Winners(tok, result) == IF result \in Outcomes THEN tok[result] ELSE 0
Payout(a) == IF outcome = "Void" THEN a.basis ELSE Winners(a.tok, outcome)
Positive(n) == IF n > 0 THEN n ELSE 0

Executed(ix, on, a) ==
  CASE ix = "open_position" -> [a EXCEPT !.opened = TRUE]
    [] ix = "buy" -> [a EXCEPT !.usdt = @ - 2, !.tok[on] = @ + 1, !.basis = @ + 2]
    [] ix = "sell" -> [a EXCEPT !.usdt = @ + 1, !.tok[on] = @ - 1, !.basis = Positive(@ - 1)]
    [] ix = "open" -> [a EXCEPT !.usdt = @ - 1, !.lev = TRUE]
    [] ix = "close" -> [a EXCEPT !.usdt = @ + 1, !.lev = FALSE]
    [] ix = "redeem" -> [a EXCEPT !.usdt = @ + Payout(a), !.basis = 0, !.redeemed = TRUE,
                                  !.tok = [o \in Outcomes |-> 0]]
    [] ix = "create_ata" -> [a EXCEPT !.ata = TRUE]
    [] ix = "faucet" -> [a EXCEPT !.usdt = @ + FAUCET, !.granted = TRUE]

\* A transaction's instructions in turn, all of them or none.
Run(ixs, on, a) ==
  FoldLeft(LAMBDA so, ix : IF so # None /\ Allowed(ix, on, so) THEN Executed(ix, on, so) ELSE None,
           a, ixs)

\* A transaction in flight is executed, fails (also at its slippage limit), or
\* its blockhash expires.
TxLands(n) ==
  /\ txs[n].status = "flying"
  /\ LET t == txs[n]
         after == Run(t.ixs, t.order.on, acct[t.by])
     IN  \/ /\ after # None
            /\ acct' = [acct EXCEPT ![t.by] = after]
            /\ txs' = [txs EXCEPT ![n].status = "ok"]
         \/ /\ after = None \/ t.order.op \in {"buy", "sell"}
            /\ txs' = [txs EXCEPT ![n].status = "failed"] /\ UNCHANGED acct
         \/ txs' = [txs EXCEPT ![n].status = "expired"] /\ UNCHANGED acct
  /\ UNCHANGED <<phase, outcome, listed, walletVars, page, asks, flow, errors>>

-----------------------------------------------------------------------------
\* The wallets.  A change of address resets what is shown of the old one,
\* except the portfolio's positions; the flows know nothing of it.

Rewire ==
  page' = [page EXCEPT !.usdt = -1, !.lev = FALSE,
                       !.pos = IF "portfolio" \in Panels THEN @ ELSE None]

\* The form and the position's view of the leverage panel are components of their own.
Remount(shown) ==
  IF "lev" \in Panels /\ shown # page.lev
  THEN [flow EXCEPT !["lev"] = Mounted(IF shown THEN Order("close", "all") ELSE Form)]
  ELSE flow

Connect ==
  /\ ~session /\ switches < MaxSwitches /\ switches' = switches + 1
  /\ session' = TRUE /\ UNCHANGED seed
  /\ Rewire /\ flow' = Remount(FALSE)
  /\ UNCHANGED <<chainVars, asks, txs, errors>>

\* The demo wallet is made anew only where none is stored; a deleted one is gone.
ProvisionDemo ==
  /\ address = Nobody /\ acct["demo"] = Blank
  /\ switches < MaxSwitches /\ switches' = switches + 1
  /\ seed' = TRUE /\ UNCHANGED session
  /\ Rewire /\ flow' = Remount(FALSE)
  /\ UNCHANGED <<chainVars, asks, txs, errors>>

\* The chip's Disconnect ends the session and deletes the demo wallet's seed.
Disconnect ==
  /\ address # Nobody /\ switches < MaxSwitches /\ switches' = switches + 1
  /\ session' = FALSE /\ seed' = FALSE
  /\ Rewire /\ flow' = Remount(FALSE)
  /\ UNCHANGED <<chainVars, asks, txs, errors>>

-----------------------------------------------------------------------------
\* Polling.

Kinds ==
  (IF {"trade", "lev", "resolution"} \cap Panels # {} THEN {"market"} ELSE {})
  \cup (IF "faucet" \in Panels THEN {"usdt"} ELSE {})
  \cup (IF {"resolution", "portfolio"} \cap Panels # {} THEN {"pos"} ELSE {})
  \cup (IF "lev" \in Panels THEN {"lev"} ELSE {})

\* The market's state in the indexer's row.  The row lags behind the chain the
\* way an answer does: both are as old as the value that was read.
Served == IF phase = "Cutoff" THEN "Trading" ELSE phase

\* The position's account, if there is one, with its market's row.  The market's
\* page asks for its own market, the portfolio for those of the list alone.
PositionOf(a) ==
  IF ~acct[a].opened \/ ~(listed \/ "resolution" \in Panels) THEN None
  ELSE [phase |-> Served, outcome |-> outcome, tok |-> acct[a].tok, redeemed |-> acct[a].redeemed]

Read(what, a) ==
  CASE what = "market" -> Served [] what = "usdt" -> acct[a].usdt
    [] what = "pos" -> PositionOf(a) [] what = "lev" -> acct[a].lev

\* Broken: a task runs when its hook mounts, and no interval is set.
Once == page = Unread
\* The timers fire again and again, whatever is still unanswered.
Due == TRUE

Unanswered == Cardinality(UNION {{what} \X asks[what] : what \in Kinds})

Poll(what) ==
  /\ what \in Kinds /\ (address # Nobody \/ what = "market")
  /\ Due /\ (asks[what] = {} \/ Unanswered < MaxAsks)
  /\ asks' = [asks EXCEPT ![what] = @ \cup {Read(what, address)}]
  /\ UNCHANGED <<chainVars, walletVars, page, flow, txs, errors>>

\* An answer is shown whenever it comes, also after a newer one and after the
\* wallet it was asked for is gone.
Answer(what) ==
  \E val \in asks[what] :
    /\ asks' = [asks EXCEPT ![what] = @ \ {val}]
    /\ page' = [page EXCEPT ![IF what = "market" THEN "phase" ELSE what] = val]
    /\ flow' = IF what = "lev" THEN Remount(val) ELSE flow
    /\ UNCHANGED <<chainVars, walletVars, txs, errors>>

\* A call that fails and changes what is shown: the balance reads as zero, a
\* position vanishes when the indexer is to blame.
AnswerLost ==
  /\ errors < MaxErrors /\ errors' = errors + 1
  /\ \E what \in Kinds \cap {"usdt", "pos"} : \E val \in asks[what] :
       /\ asks' = [asks EXCEPT ![what] = @ \ {val}]
       /\ page' = IF what = "usdt" THEN [page EXCEPT !.usdt = 0] ELSE [page EXCEPT !.pos = None]
  /\ UNCHANGED <<chainVars, walletVars, flow, txs>>

-----------------------------------------------------------------------------
\* What the panels offer.

Total(pos) == \E o \in Outcomes : pos.tok[o] > 0
winningTokens(pos) ==
  IF pos.phase # "Resolved" \/ pos.outcome = "Void" THEN 0 ELSE Winners(pos.tok, pos.outcome)

\* Broken: the market page, like the portfolio, looks for a winning outcome only.
WinnersOnly(pos) == winningTokens(pos) > 0
\* What the market page takes for claimable: anything held of a void market.
claimable(pos) == IF outcome = "Void" THEN Total(pos) ELSE winningTokens(pos) > 0

\* The leverage form mirrors open_leverage's guards with the page's own clock.
guardReason == page.phase # "Trading" \/ phase # "Trading"

\* The ticket: the row's word, not the chain's.
tradable == page.phase = "Trading"
\* The market page's claim.
ResolutionPanel ==
  /\ page.phase = "Resolved" /\ page.pos # None
  /\ claimable(page.pos) /\ ~page.pos.redeemed /\ ~flow["resolution"].claimed
\* The portfolio's claims.
Claims == page.pos # None /\ winningTokens(page.pos) > 0 /\ ~page.pos.redeemed

\* The panel's button is there, and enabled unless the panel is busy.
Offered(p) ==
  CASE p = "trade" -> tradable
    [] p = "lev" -> page.lev \/ ~guardReason
    [] p = "faucet" -> TRUE
    [] p = "resolution" -> ResolutionPanel
    [] p = "portfolio" -> Claims

inReview(p) == flow[p].prepared # None /\ flow[p].prepared.ok

-----------------------------------------------------------------------------
\* The flow of a panel.

\* An input changes, at any time: the pending review is dropped.
resetReview(p) ==
  \E o \in Orders(p) :
    o # flow[p].order /\ flow' = [flow EXCEPT ![p].order = o, ![p].prepared = None]

\* The ticket's inputs, and the form's.
ChangeTicket == "trade" \in Panels /\ resetReview("trade")
ChangeForm == "lev" \in Panels /\ resetReview("lev")
Change ==
  /\ ChangeTicket \/ ChangeForm
  /\ UNCHANGED <<chainVars, walletVars, page, asks, txs, errors>>

\* review, claim and run: the order and the signer are those of the click.
review(p) ==
  /\ flow[p].busy = "no" /\ Offered(p) /\ address # Nobody /\ ~inReview(p)
  /\ flow' = [flow EXCEPT ![p].busy = "prepare",
                          ![p].asked = [order |-> flow[p].order, by |-> address]]
  /\ UNCHANGED <<chainVars, walletVars, page, asks, txs, errors>>

\* The end of a flow that fails.
Given(p) == [flow[p] EXCEPT !.busy = "no", !.asked = None, !.prepared = None]

\* What an order becomes: the instructions, and the balance to look for the
\* outcome in.  A first buy opens the position, as far as the chain shows now.
prepareTrade(order, a) ==
  IF order.op = "buy"
  THEN [ixs |-> (IF a.opened THEN <<>> ELSE <<"open_position">>) \o <<"buy">>, probe |-> "tok"]
  ELSE [ixs |-> <<"sell">>, probe |-> "usdt"]
prepareClaim == [ixs |-> <<"redeem">>, probe |-> "usdt"]
prepareOpenLeverage == [ixs |-> <<"open">>, probe |-> "none"]
prepareCloseLeverage == [ixs |-> <<"close">>, probe |-> "usdt"]
prepareFaucet == [ixs |-> <<"create_ata", "faucet">>, probe |-> "usdt"]

Built(order, a) ==
  CASE order.op \in {"buy", "sell"} -> prepareTrade(order, a)
    [] order.op = "redeem" -> prepareClaim
    [] order.op = "open" -> prepareOpenLeverage
    [] order.op = "close" -> prepareCloseLeverage
    [] order.op = "faucet" -> prepareFaucet

Probed(probe, on, a) ==
  CASE probe = "tok" -> a.tok[on] [] probe = "usdt" -> a.usdt [] probe = "none" -> 0

\* The transaction built and simulated: whether it would do, and what it would bring.
simulate(asked) ==
  LET a == acct[asked.by]
      tx == Built(asked.order, a)
      on == asked.order.on
      after == Run(tx.ixs, on, a)
  IN  [order |-> asked.order, by |-> asked.by, ixs |-> tx.ixs, ok |-> after # None,
       outBase |-> IF after = None THEN 0
                   ELSE Probed(tx.probe, on, after) - Probed(tx.probe, on, a)]

\* send's own check of the simulation.
Sendable(sim) == sim.ok

\* Handed to the node, or refused by it.
Submit(p, sim) ==
  \/ /\ Len(txs) < MaxTxs
     /\ txs' = Append(txs, [order |-> sim.order, ixs |-> sim.ixs, by |-> sim.by, status |-> "flying"])
     /\ flow' = [flow EXCEPT ![p] = [@ EXCEPT !.busy = "send", !.asked = None, !.tx = Len(txs) + 1]]
     /\ UNCHANGED errors
  \/ /\ Len(txs) = MaxTxs
     /\ flow' = [flow EXCEPT ![p] = Given(p)] /\ UNCHANGED <<txs, errors>>
  \/ /\ errors < MaxErrors /\ errors' = errors + 1
     /\ flow' = [flow EXCEPT ![p] = Given(p)] /\ UNCHANGED txs

\* send: refused, signed with the demo wallet's key and submitted, or put before
\* the user of the connected wallet, whose answer it awaits.
SignAndSend(p, sim) ==
  \/ ~Sendable(sim) /\ flow' = [flow EXCEPT ![p] = Given(p)] /\ UNCHANGED <<txs, errors>>
  \/ Sendable(sim) /\ sim.by = "demo" /\ Submit(p, sim)
  \/ /\ Sendable(sim) /\ sim.by = "wallet"
     /\ flow' = [flow EXCEPT ![p] = [@ EXCEPT !.busy = "sign", !.asked = sim]]
     /\ UNCHANGED <<txs, errors>>

\* The user of the connected wallet approves or declines, whenever it pleases.
Prompted(p) ==
  /\ flow[p].busy = "sign"
  /\ \/ Submit(p, flow[p].asked)
     \/ flow' = [flow EXCEPT ![p] = Given(p)] /\ UNCHANGED <<txs, errors>>
  /\ UNCHANGED <<chainVars, walletVars, page, asks>>

\* A ticket shows its simulation and waits for the user.
Reviewed(p) ==
  /\ p \in Tickets
  /\ flow' = [flow EXCEPT ![p] = [@ EXCEPT !.busy = "no", !.asked = None,
                                          !.prepared = simulate(flow[p].asked)]]
  /\ UNCHANGED <<txs, errors>>

\* A claim, on the market page and in the portfolio, and the faucet send at once.
ClaimOnPage(p) == p = "resolution" /\ SignAndSend(p, simulate(flow[p].asked))
ClaimInList(p) == p = "portfolio" /\ SignAndSend(p, simulate(flow[p].asked))
HasGas(by) == acct[by].sol > 0
RunFaucet(p) ==
  p = "faucet" /\ HasGas(flow[p].asked.by) /\ SignAndSend(p, simulate(flow[p].asked))

Prepare(p) ==
  /\ flow[p].busy = "prepare"
  /\ Reviewed(p) \/ ClaimOnPage(p) \/ ClaimInList(p) \/ RunFaucet(p)
  /\ UNCHANGED <<chainVars, walletVars, page, asks>>

PrepareFails(p) ==
  /\ flow[p].busy = "prepare" /\ errors < MaxErrors /\ errors' = errors + 1
  /\ flow' = [flow EXCEPT ![p].busy = "no", ![p].asked = None]
  /\ UNCHANGED <<chainVars, walletVars, page, asks, txs>>

\* A wallet without gas gets an airdrop first, unless that faucet is dry.
Airdrop(p) ==
  /\ p = "faucet" /\ flow[p].busy = "prepare"
  /\ LET by == flow[p].asked.by
     IN  /\ ~HasGas(by)
         /\ \/ acct' = [acct EXCEPT ![by].sol = 1] /\ UNCHANGED flow
            \/ flow' = [flow EXCEPT ![p] = Given(p)] /\ UNCHANGED acct
  /\ UNCHANGED <<phase, outcome, listed, walletVars, page, asks, txs, errors>>

\* The user confirms what was prepared.
confirm(p) ==
  /\ p \in Tickets /\ flow[p].busy = "no" /\ Offered(p) /\ inReview(p)
  /\ SignAndSend(p, flow[p].prepared)
  /\ UNCHANGED <<chainVars, walletVars, page, asks>>

\* Confirmed, and without an error on chain.
Confirmed(status) == status = "ok"

\* Broken: the poll has no bound.
Patient(status) == status = "failed"
\* The poll ends with an error of the transaction's, or after 45 s.
GivesUp(status) == status # "ok"

\* Broken: a claim that was given up is marked as made.
MarkedAnyway(p) ==
  /\ flow[p].busy = "send"
  /\ GivesUp(txs[flow[p].tx].status) \/ Confirmed(txs[flow[p].tx].status)
  /\ flow' = [flow EXCEPT ![p] = [Given(p) EXCEPT !.claimed = p = "resolution"]]
  /\ UNCHANGED <<chainVars, walletVars, page, asks, txs, errors>>

\* confirmSignature, and what follows: a trade closes its ticket, a claim on the
\* market page marks the panel.
Confirmation(p) ==
  /\ flow[p].busy = "send"
  /\ LET status == txs[flow[p].tx].status
     IN  \/ /\ Confirmed(status)
            /\ flow' = [flow EXCEPT ![p] =
                          CASE p = "trade" -> Mounted(Order("buy", "Team1"))
                            [] p = "resolution" -> [Given(p) EXCEPT !.claimed = TRUE]
                            [] OTHER -> Given(p)]
         \/ GivesUp(status) /\ flow' = [flow EXCEPT ![p] = Given(p)]
  /\ UNCHANGED <<chainVars, walletVars, page, asks, txs, errors>>

-----------------------------------------------------------------------------
FlowStep(p) == Prepare(p) \/ Airdrop(p) \/ Confirmation(p)

WebNext ==
  \/ MarketMoves \/ ListMoves \/ \E n \in 1..Len(txs) : TxLands(n)
  \/ Connect \/ ProvisionDemo \/ Disconnect
  \/ AnswerLost
  \/ \E what \in Kinds : Poll(what) \/ Answer(what)
  \/ Change
  \/ \E p \in Panels : review(p) \/ PrepareFails(p) \/ confirm(p) \/ Prompted(p) \/ FlowStep(p)

\* The timers fire, calls are answered or fail; nobody has to click or to answer
\* a wallet's prompt, and no transaction has to land.
WebFairness ==
  /\ \A what \in AllKinds : WF_webVars(Poll(what)) /\ WF_webVars(Answer(what))
  /\ \A p \in AllPanels : WF_webVars(p \in Panels /\ FlowStep(p))

WebSpec == WebInit /\ [][WebNext]_webVars /\ WebFairness
-----------------------------------------------------------------------------
\* Whatever is in flight or failed, and whichever wallet is connected, the page
\* ends up showing the market, the balance and the position as its reads give
\* them: the portfolio's those of the listed markets alone.  use-live.ts:35-44.
Agrees ==
  /\ "market" \in Kinds => page.phase = Served
  /\ address # Nobody =>
       /\ "usdt" \in Kinds => page.usdt = acct[address].usdt
       /\ "pos" \in Kinds => page.pos = PositionOf(address)
       /\ "lev" \in Kinds => page.lev = acct[address].lev
PageSettles == <>[]Agrees

\* No panel prepares or confirms for ever, whatever becomes of the transaction:
\* a spinner that never ends is one whose user has a prompt to answer.
\* tx.ts:359-378.
Working == \E p \in Panels : flow[p].busy \in {"prepare", "send"}
FlowEnds == []<>~Working

\* What redeem would pay account a, now.
Owed(a) == phase = "Resolved" /\ ~acct[a].redeemed /\ Payout(acct[a]) > 0

\* A page that shows the chain's state, to one who is owed something.
Waits == Agrees /\ address # Nobody /\ Owed(address)

\* The market page says that a claim was made only where one has landed, and until
\* it says so offers its claim to everyone who is owed something and still holds
\* tokens.  resolution-panel.tsx:60-63, 76-77.
ClaimOffered ==
  "resolution" \in Panels =>
    /\ flow["resolution"].claimed => \E a \in Accounts : acct[a].redeemed
    /\ Waits /\ Total(acct[address]) /\ ~flow["resolution"].claimed => Offered("resolution")
=============================================================================
