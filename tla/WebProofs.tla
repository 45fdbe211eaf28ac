------------------------------ MODULE WebProofs ------------------------------
(***************************************************************************)
(* That the web client offers what it owes: whatever answers are in        *)
(* flight, transactions under way and wallets exchanged, a market page     *)
(* that shows the chain's state offers its claim to every holder of        *)
(* winning tokens, until a claim has landed and it says so.                *)
(***************************************************************************)
EXTENDS WebClient, SumTheorems, TLAPS

-----------------------------------------------------------------------------
(* Accounts.  Tokens are held in a position, so an account without one holds *)
(* none: the polling hook shows a position exactly where there may be a      *)
(* claim.                                                                    *)

AccountSet ==
  [usdt : Int, ata : BOOLEAN, sol : Int, opened : BOOLEAN, tok : [Outcomes -> Int],
   basis : Int, redeemed : BOOLEAN, lev : BOOLEAN, granted : BOOLEAN]
Held(a) == a.opened \/ \A o \in Outcomes : ~(a.tok[o] > 0)
GoodAccounts == {a \in AccountSet : Held(a)}

Instructions == {"open_position", "buy", "sell", "open", "close", "redeem", "create_ata", "faucet"}

\* An account with a position is fine whatever it holds, and one without as long as
\* its tokens do not change.
LEMMA ChangeGood ==
  ASSUME NEW a \in GoodAccounts, NEW r \in AccountSet,
         r.opened \/ (r.tok = a.tok /\ ~a.opened)
  PROVE  r \in GoodAccounts
BY DEF GoodAccounts, Held

LEMMA TokensTyped ==
  ASSUME NEW f \in [Outcomes -> Int], NEW on, NEW n, on \in Outcomes => n \in Int
  PROVE  [f EXCEPT ![on] = n] \in [Outcomes -> Int]
<1>1. PICK g : g = [f EXCEPT ![on] = n]
  OBVIOUS
<1>2. DOMAIN g = Outcomes /\ g = [o \in Outcomes |-> g[o]]
  BY <1>1
<1>3. \A o \in Outcomes : g[o] \in Int
  BY <1>1
<1> QED BY <1>1, <1>2, <1>3

LEMMA AmountsTyped ==
  ASSUME NEW a \in AccountSet, NEW u \in Int, NEW v \in Int, NEW t \in [Outcomes -> Int]
  PROVE  [a EXCEPT !.usdt = u, !.tok = t, !.basis = v] \in AccountSet
BY DEF AccountSet

LEMMA BlankGood ==
  /\ Blank \in GoodAccounts
  /\ \A o \in Outcomes : Holding(o) \in GoodAccounts
<1>1. Blank \in AccountSet /\ Held(Blank)
  BY DEF Blank, AccountSet, Held
<1>2. ASSUME NEW o \in Outcomes
      PROVE  Holding(o) \in AccountSet /\ Holding(o).opened
  <2>1. PICK z \in AccountSet : z = Blank
    BY <1>1
  <2>2. PICK t : t = [z.tok EXCEPT ![o] = 1] /\ t \in [Outcomes -> Int]
    <3>1. z.tok \in [Outcomes -> Int]
      BY <2>1 DEF AccountSet
    <3>2. [z.tok EXCEPT ![o] = 1] \in [Outcomes -> Int]
      BY <3>1, TokensTyped
    <3> QED BY <3>2
  <2>3. PICK y : y = [z EXCEPT !.usdt = 2, !.tok = t, !.basis = 2] /\ y \in AccountSet
    <3>1. 2 \in Int
      OBVIOUS
    <3>2. [z EXCEPT !.usdt = 2, !.tok = t, !.basis = 2] \in AccountSet
      BY <2>1, <2>2, <3>1, AmountsTyped, Zenon
    <3> QED BY <3>2
  <2>4. Holding(o) = [y EXCEPT !.ata = TRUE, !.sol = 1, !.opened = TRUE, !.granted = TRUE]
    BY <2>1, <2>2, <2>3 DEF Holding, AccountSet
  <2>5. PICK n \in Int : n = 1
    OBVIOUS
  <2>6. Holding(o) = [y EXCEPT !.ata = TRUE, !.sol = n, !.opened = TRUE, !.granted = TRUE]
    BY <2>4, <2>5
  <2> QED BY <2>3, <2>5, <2>6 DEF AccountSet
<1> QED BY <1>1, <1>2 DEF GoodAccounts, Held

\* No instruction leaves tokens where there is no position.
LEMMA ExecutedGood ==
  ASSUME NEW ix \in Instructions, NEW on, NEW a \in GoodAccounts, Allowed(ix, on, a)
  PROVE  Executed(ix, on, a) \in GoodAccounts
<1>1. /\ a \in AccountSet /\ a.opened \in BOOLEAN
      /\ a.usdt \in Int /\ a.basis \in Int /\ a.tok \in [Outcomes -> Int]
  BY DEF GoodAccounts, AccountSet
<1>2. PICK r : r = Executed(ix, on, a)
  OBVIOUS
<1>3. CASE ix = "open_position"
  <2>1. r = [a EXCEPT !.opened = TRUE]
    BY <1>2, <1>3 DEF Executed
  <2>2. r \in AccountSet /\ r.opened
    BY <1>1, <2>1 DEF AccountSet
  <2> QED BY <1>2, <2>2, ChangeGood
<1>4. CASE ix = "buy"
  <2>1. PICK u, v, t : /\ u = a.usdt - 2 /\ v = a.basis + 2 /\ t = [a.tok EXCEPT ![on] = @ + 1]
                       /\ u \in Int /\ v \in Int /\ t \in [Outcomes -> Int]
    <3>1. a.usdt - 2 \in Int /\ a.basis + 2 \in Int
      BY <1>1
    <3>2. [a.tok EXCEPT ![on] = a.tok[on] + 1] \in [Outcomes -> Int]
      BY <1>1, TokensTyped
    <3> QED BY <3>1, <3>2
  <2>2. r = [a EXCEPT !.usdt = u, !.tok = t, !.basis = v] /\ a.opened
    BY <1>1, <1>2, <1>4, <2>1 DEF Executed, Allowed, AccountSet
  <2>3. r \in AccountSet /\ r.opened
    BY <1>1, <2>1, <2>2 DEF AccountSet
  <2> QED BY <1>2, <2>3, ChangeGood
<1>5. CASE ix = "sell"
  <2>1. PICK u, v, t : /\ u = a.usdt + 1 /\ v = Positive(a.basis - 1) /\ t = [a.tok EXCEPT ![on] = @ - 1]
                       /\ u \in Int /\ v \in Int /\ t \in [Outcomes -> Int]
    <3>1. a.usdt + 1 \in Int /\ Positive(a.basis - 1) \in Int
      BY <1>1 DEF Positive
    <3>2. [a.tok EXCEPT ![on] = a.tok[on] - 1] \in [Outcomes -> Int]
      BY <1>1, TokensTyped
    <3> QED BY <3>1, <3>2
  <2>2. r = [a EXCEPT !.usdt = u, !.tok = t, !.basis = v] /\ a.opened
    BY <1>1, <1>2, <1>5, <2>1 DEF Executed, Allowed, AccountSet
  <2>3. r \in AccountSet /\ r.opened
    BY <1>1, <2>1, <2>2 DEF AccountSet
  <2> QED BY <1>2, <2>3, ChangeGood
<1>6. CASE ix = "redeem"
  <2>1. PICK u, t : /\ u = a.usdt + Payout(a) /\ t = [o \in Outcomes |-> 0]
                    /\ u \in Int /\ t \in [Outcomes -> Int]
    <3>1. Payout(a) \in Int
      BY <1>1 DEF Payout, Winners
    <3>2. a.usdt + Payout(a) \in Int
      BY <1>1, <3>1
    <3>3. [o \in Outcomes |-> 0] \in [Outcomes -> Int]
      OBVIOUS
    <3> QED BY <3>2, <3>3
  <2>2. PICK y : y = [a EXCEPT !.usdt = u, !.tok = t, !.basis = 0] /\ y \in AccountSet
    <3>1. 0 \in Int
      OBVIOUS
    <3>2. [a EXCEPT !.usdt = u, !.tok = t, !.basis = 0] \in AccountSet
      BY <1>1, <2>1, <3>1, AmountsTyped, Zenon
    <3> QED BY <3>2
  <2>3. y.opened = a.opened /\ a.opened
    BY <1>1, <1>6, <2>2 DEF AccountSet, Allowed
  <2>4. r = [y EXCEPT !.redeemed = TRUE]
    BY <1>1, <1>2, <1>6, <2>1, <2>2 DEF Executed, AccountSet
  <2>5. r \in AccountSet /\ r.opened
    BY <2>2, <2>3, <2>4 DEF AccountSet
  <2> QED BY <1>2, <2>5, ChangeGood
<1>7. ASSUME r \in AccountSet, r.tok = a.tok, r.opened = a.opened
      PROVE  Executed(ix, on, a) \in GoodAccounts
  BY <1>1, <1>2, <1>7, ChangeGood
<1>8. CASE ix = "open"
  <2>1. PICK u \in Int : u = a.usdt - 1
    BY <1>1
  <2>2. r = [a EXCEPT !.usdt = u, !.lev = TRUE]
    BY <1>1, <1>2, <1>8, <2>1 DEF Executed, AccountSet
  <2> QED BY <1>1, <1>7, <2>2 DEF AccountSet
<1>9. CASE ix = "close"
  <2>1. PICK u \in Int : u = a.usdt + 1
    BY <1>1
  <2>2. r = [a EXCEPT !.usdt = u, !.lev = FALSE]
    BY <1>1, <1>2, <1>9, <2>1 DEF Executed, AccountSet
  <2> QED BY <1>1, <1>7, <2>2 DEF AccountSet
<1>10. CASE ix = "create_ata"
  <2>1. r = [a EXCEPT !.ata = TRUE]
    BY <1>2, <1>10 DEF Executed
  <2> QED BY <1>1, <1>7, <2>1 DEF AccountSet
<1>11. CASE ix = "faucet"
  <2>1. PICK u \in Int : u = a.usdt + FAUCET
    BY <1>1, WebConstants
  <2>2. r = [a EXCEPT !.usdt = u, !.granted = TRUE]
    BY <1>1, <1>2, <1>11, <2>1 DEF Executed, AccountSet
  <2> QED BY <1>1, <1>7, <2>2 DEF AccountSet
<1> QED BY <1>3, <1>4, <1>5, <1>6, <1>8, <1>9, <1>10, <1>11 DEF Instructions

\* No instruction takes a redemption back, and redeem makes one.
LEMMA ExecutedKeeps ==
  ASSUME NEW ix \in Instructions, NEW on, NEW a \in AccountSet, a.redeemed \/ ix = "redeem"
  PROVE  Executed(ix, on, a).redeemed
<1>1. CASE ix = "redeem"
  BY <1>1 DEF Executed, AccountSet
<1>2. CASE ix # "redeem"
  BY <1>2 DEF Executed, AccountSet, Instructions
<1> QED BY <1>1, <1>2

\* What an account may become.
Later(a) == {b \in GoodAccounts : a.redeemed => b.redeemed}

-----------------------------------------------------------------------------
(* What a transaction does: the fold over its instructions, of which there   *)
(* are two at most.                                                          *)

Bundles == {<<ix>> : ix \in Instructions} \cup {<<ix, iy>> : ix \in Instructions, iy \in Instructions}

Turned(on, so, ix) == IF so # None /\ Allowed(ix, on, so) THEN Executed(ix, on, so) ELSE None
FoldedRun(ixs, on, a, g, s) == IF s = {} THEN a ELSE Turned(on, g[s \ {Max(s)}], ixs[Max(s)])

LEMMA RunIsFold ==
  ASSUME NEW ixs, NEW on, NEW a
  PROVE  Run(ixs, on, a)
           = (CHOOSE g : g = [s \in SUBSET DOMAIN ixs |-> FoldedRun(ixs, on, a, g, s)])[DOMAIN ixs]
BY Zenon DEF Run, FoldLeft, MapThenFoldSet, FoldedRun, Turned

\* Whatever the instructions, what the transaction leaves, if anything, is fine, and
\* redeemed where it was or where the transaction is a claim.
LEMMA RunGood ==
  ASSUME NEW ixs \in Bundles, NEW on, NEW a \in GoodAccounts, Run(ixs, on, a) # None
  PROVE  /\ Run(ixs, on, a) \in Later(a)
         /\ ixs = <<"redeem">> => Run(ixs, on, a).redeemed
<1> DEFINE D == DOMAIN ixs
           h == [s \in SUBSET D |->
                   IF s = {} THEN a
                   ELSE IF s \ {Max(s)} = {} THEN Turned(on, a, ixs[Max(s)])
                   ELSE Turned(on, Turned(on, a, ixs[1]), ixs[Max(s)])]
           iter == CHOOSE g : g = [s \in SUBSET D |-> FoldedRun(ixs, on, a, g, s)]
<1>1. D \subseteq {1, 2} /\ \A i \in D : ixs[i] \in Instructions
  BY DEF Bundles
<1>2. ASSUME NEW s \in SUBSET D PROVE h[s] = FoldedRun(ixs, on, a, h, s)
  <2>1. CASE s = {}
    BY <2>1 DEF FoldedRun
  <2>2. CASE s # {}
    <3> DEFINE r == s \ {Max(s)}
    <3>1. r \in SUBSET D /\ r \in {{}, {1}} /\ Max({1}) = 1
      BY <1>1, <2>2, MaxAmongTwo
    <3>2. h[r] = IF r = {} THEN a ELSE Turned(on, a, ixs[1])
      BY <3>1
    <3>3. h[s] = Turned(on, IF r = {} THEN a ELSE Turned(on, a, ixs[1]), ixs[Max(s)])
      BY <2>2
    <3> HIDE DEF h
    <3> QED BY <2>2, <3>2, <3>3 DEF FoldedRun
  <2> QED BY <2>1, <2>2
<1>3. h = [s \in SUBSET D |-> FoldedRun(ixs, on, a, h, s)]
  <2>1. h = [s \in SUBSET D |-> h[s]]
    OBVIOUS
  <2> HIDE DEF h
  <2> QED BY <1>2, <2>1
<1> HIDE DEF h
<1>4. iter = [s \in SUBSET D |-> FoldedRun(ixs, on, a, iter, s)]
  BY <1>3
<1>5. Run(ixs, on, a) = iter[D]
  BY RunIsFold
<1> HIDE DEF iter
<1>6. \A s \in SUBSET D : iter[s] = FoldedRun(ixs, on, a, iter, s)
  BY <1>4
<1>7. ASSUME NEW so \in Later(a) \cup {None}, NEW ix \in Instructions
      PROVE  Turned(on, so, ix) \in Later(a) \cup {None}
  BY ExecutedGood, ExecutedKeeps DEF Turned, Later, GoodAccounts
<1>8. iter[{}] = a /\ a \in Later(a)
  BY <1>6 DEF FoldedRun, Later
<1>9. ASSUME NEW s \in SUBSET D, s # {}, iter[s \ {Max(s)}] \in Later(a) \cup {None}
      PROVE  iter[s] \in Later(a) \cup {None}
  <2>1. Max(s) \in D
    BY <1>1, <1>9, MaxAmongTwo
  <2>2. iter[s] = Turned(on, iter[s \ {Max(s)}], ixs[Max(s)])
    BY <1>6, <1>9 DEF FoldedRun
  <2> QED BY <1>1, <1>7, <1>9, <2>1, <2>2
<1>10. 1 \in D => iter[{1}] \in Later(a) \cup {None}
  <2> SUFFICES ASSUME 1 \in D PROVE iter[{1}] \in Later(a) \cup {None}
    OBVIOUS
  <2>1. Max({1}) = 1 /\ {1} \ {1} = {} /\ {1} # {}
    BY MaxAmongTwo
  <2> QED BY <1>8, <1>9, <2>1
<1>11. iter[D] \in Later(a) \cup {None}
  <2>1. CASE D = {}
    BY <1>8, <2>1
  <2>2. CASE D # {}
    <3>1. D \ {Max(D)} \in {{}, {1}} /\ D \ {Max(D)} \subseteq D
      BY <1>1, <2>2, MaxAmongTwo
    <3> QED BY <1>8, <1>9, <1>10, <2>2, <3>1
  <2> QED BY <2>1, <2>2
<1>12. ASSUME ixs = <<"redeem">> PROVE iter[D].redeemed
  <2>1. D = {1} /\ ixs[1] = "redeem" /\ Max({1}) = 1 /\ {1} \ {1} = {} /\ {1} # {}
    BY <1>12, MaxAmongTwo
  <2>2. iter[{1}] = Turned(on, iter[{}], ixs[1])
    BY <1>6, <2>1 DEF FoldedRun
  <2>3. iter[D] = Turned(on, a, "redeem") /\ iter[D] # None
    BY <1>5, <1>8, <2>1, <2>2
  <2> QED BY <2>3, ExecutedKeeps DEF Turned, GoodAccounts, Instructions
<1> QED BY <1>5, <1>11, <1>12

-----------------------------------------------------------------------------
(* The invariant: accounts stay fine, and whatever a panel asks for, prepares *)
(* and sends are bundles of instructions the client builds.                   *)

Operations == {"buy", "sell", "redeem", "open", "close", "faucet"}
OrderSet == [op : Operations, on : Outcomes \cup Multiples \cup {"all"}]
Askings == [order : OrderSet, by : Accounts]
Txs == [order : OrderSet, ixs : Bundles, by : Accounts, status : {"flying", "ok", "failed", "expired"}]

\* A simulation: what is known of the transaction it will become.
SimGood(sim) == sim.order \in OrderSet /\ sim.ixs \in Bundles /\ sim.by \in Accounts

FlowRecord(f) == [order |-> f.order, prepared |-> f.prepared, busy |-> f.busy, asked |-> f.asked,
                  tx |-> f.tx, claimed |-> f.claimed]
FlowGood(f) ==
  /\ f = FlowRecord(f)
  /\ f.order \in OrderSet
  /\ f.prepared # None => SimGood(f.prepared)
  /\ f.busy = "prepare" => f.asked \in Askings
  /\ f.busy = "sign" => SimGood(f.asked)

AccountsGood == acct \in [Accounts -> GoodAccounts]
TxsGood == txs \in Seq(Txs)
FlowsGood == flow = [p \in Panels |-> flow[p]] /\ \A p \in Panels : p \in AllPanels /\ FlowGood(flow[p])
WebInv == AccountsGood /\ TxsGood /\ FlowsGood

\* Orders, and panels as they mount.
LEMMA OrdersGood ==
  /\ \A p \in AllPanels : Orders(p) \subseteq OrderSet
  /\ Form \in OrderSet
  /\ \A o \in OrderSet : FlowGood(Mounted(o))
<1>1. \A op \in Operations, on \in Outcomes \cup Multiples \cup {"all"} : Order(op, on) \in OrderSet
  BY DEF Order, OrderSet
<1>2. \A p \in AllPanels : Orders(p) \subseteq OrderSet
  BY <1>1 DEF Orders, Operations, AllPanels
<1>3. Form \in OrderSet
  <2>1. {Order("open", l) : l \in Multiples} # {}
    BY WebConstants
  <2>2. Form \in {Order("open", l) : l \in Multiples}
    BY <2>1 DEF Form
  <2> QED BY <1>1, <2>2 DEF Operations
<1>4. ASSUME NEW o \in OrderSet PROVE FlowGood(Mounted(o))
  BY DEF Mounted, FlowGood, FlowRecord
<1> QED BY <1>2, <1>3, <1>4

LEMMA InitWeb == WebInit => WebInv
<1> SUFFICES ASSUME WebInit PROVE WebInv
  OBVIOUS
<1>1. AccountsGood
  <2>1. "Team1" \in Outcomes
    BY WebConstants
  <2> QED BY <2>1, BlankGood DEF WebInit, AccountsGood, Accounts
<1>2. TxsGood
  BY DEF WebInit, TxsGood
<1>3. FlowsGood
  <2>1. PICK panels \in Pages :
          flow = [p \in panels |-> Mounted(
                    CASE p = "trade" -> Order("buy", "Team1") [] p = "lev" -> Form
                      [] p = "faucet" -> Order("faucet", "all") [] OTHER -> Order("redeem", "all"))]
    BY DEF WebInit
  <2>2. panels \subseteq AllPanels /\ "Team1" \in Outcomes
    BY WebConstants
  <2>3. /\ Order("buy", "Team1") \in OrderSet /\ Order("faucet", "all") \in OrderSet
        /\ Order("redeem", "all") \in OrderSet
    BY <2>2 DEF Order, OrderSet, Operations
  <2>4. \A p \in panels : FlowGood(flow[p])
    BY <2>1, <2>3, OrdersGood
  <2>5. Panels = panels
    BY <2>1 DEF Panels
  <2>6. flow = [p \in panels |-> flow[p]]
    BY <2>1
  <2> QED BY <2>2, <2>4, <2>5, <2>6 DEF FlowsGood
<1> QED BY <1>1, <1>2, <1>3 DEF WebInv

\* One panel's flow changes.
LEMMA FlowChange ==
  ASSUME FlowsGood, NEW p \in Panels, NEW f, FlowGood(f), flow' = [flow EXCEPT ![p] = f]
  PROVE  FlowsGood'
<1>1. Panels' = Panels
  BY DEF Panels, FlowsGood
<1>2. flow' = [r \in Panels |-> flow'[r]]
  BY DEF Panels, FlowsGood
<1>3. \A r \in Panels : FlowGood(flow'[r])
  BY DEF Panels, FlowsGood
<1>4. \A r \in Panels : FlowGood(flow[r])'
  BY <1>3 DEF FlowGood, FlowRecord
<1> QED BY <1>1, <1>2, <1>4 DEF FlowsGood

\* The leverage panel's component changes with the position it shows.
LEMMA RemountGood ==
  ASSUME FlowsGood, NEW shown, flow' = Remount(shown)
  PROVE  FlowsGood'
<1>1. CASE "lev" \in Panels /\ shown # page.lev
  <2>1. Order("close", "all") \in OrderSet
    BY DEF Order, OrderSet, Operations
  <2>2. PICK f : f = Mounted(IF shown THEN Order("close", "all") ELSE Form)
    OBVIOUS
  <2>3. FlowGood(f)
    BY <2>1, <2>2, OrdersGood
  <2>4. flow' = [flow EXCEPT !["lev"] = f]
    BY <1>1, <2>2 DEF Remount
  <2> QED BY <1>1, <2>3, <2>4, FlowChange
<1>2. CASE ~("lev" \in Panels /\ shown # page.lev)
  <2>1. flow' = flow
    BY <1>2 DEF Remount
  <2> QED BY <2>1 DEF FlowsGood, FlowGood, FlowRecord, Panels
<1> QED BY <1>1, <1>2

\* What is left alone stays fine.
LEMMA KeptGood ==
  ASSUME WebInv
  PROVE  /\ UNCHANGED acct => AccountsGood'
         /\ UNCHANGED txs => TxsGood'
         /\ UNCHANGED flow => FlowsGood'
BY DEF WebInv, AccountsGood, TxsGood, FlowsGood, FlowGood, FlowRecord, Panels

\* A flow that fails.
LEMMA GivenGood ==
  ASSUME FlowsGood, NEW p \in Panels
  PROVE  FlowGood(Given(p)) /\ FlowGood([Given(p) EXCEPT !.claimed = TRUE])
<1>1. PICK f : f = flow[p] /\ FlowGood(f)
  BY DEF FlowsGood
<1>2. Given(p) = [f EXCEPT !.busy = "no", !.asked = None, !.prepared = None]
  BY <1>1 DEF Given
<1>3. PICK g : g = [f EXCEPT !.busy = "no", !.asked = None, !.prepared = None]
  OBVIOUS
<1>4. FlowGood(g)
  BY <1>1, <1>3 DEF FlowGood, FlowRecord
<1>5. PICK h : h = [g EXCEPT !.claimed = TRUE]
  OBVIOUS
<1>6. FlowGood(h)
  BY <1>4, <1>5 DEF FlowGood, FlowRecord
<1> QED BY <1>2, <1>3, <1>4, <1>5, <1>6

\* What an order becomes, and what is known of it once it is simulated.
LEMMA BuiltGood ==
  ASSUME NEW order \in OrderSet, NEW a
  PROVE  Built(order, a).ixs \in Bundles
<1>1. /\ \A ix \in Instructions : <<ix>> \in Bundles
      /\ \A ix \in Instructions, iy \in Instructions : <<ix, iy>> \in Bundles
  BY DEF Bundles
<1>2. /\ <<"buy">> \in Bundles /\ <<"sell">> \in Bundles /\ <<"redeem">> \in Bundles
      /\ <<"open">> \in Bundles /\ <<"close">> \in Bundles
      /\ <<"open_position", "buy">> \in Bundles /\ <<"create_ata", "faucet">> \in Bundles
  BY <1>1 DEF Instructions
<1>3. CASE order.op = "buy"
  <2>1. <<>> \o <<"buy">> = <<"buy">> /\ <<"open_position">> \o <<"buy">> = <<"open_position", "buy">>
    <3>1. <<"buy">> \in Seq(Instructions) /\ <<"open_position">> \in Seq(Instructions)
      BY DEF Instructions
    <3>2. <<>> \o <<"buy">> = <<"buy">>
      BY <3>1
    <3>3. PICK s : s = <<"open_position">> \o <<"buy">>
      OBVIOUS
    <3>4. s \in Seq(Instructions) /\ Len(s) = 2 /\ s[1] = "open_position" /\ s[2] = "buy"
      BY <3>1, <3>3
    <3>5. s = <<"open_position", "buy">>
      BY <3>4
    <3> QED BY <3>2, <3>3, <3>5
  <2> QED BY <1>2, <1>3, <2>1 DEF Built, prepareTrade
<1>4. CASE order.op # "buy"
  BY <1>2, <1>4 DEF Built, OrderSet, Operations, prepareTrade, prepareClaim, prepareOpenLeverage,
                    prepareCloseLeverage, prepareFaucet
<1> QED BY <1>3, <1>4

LEMMA SimulateGood ==
  ASSUME NEW asked \in Askings
  PROVE  SimGood(simulate(asked)) /\ simulate(asked) # None
<1>1. asked.order \in OrderSet /\ asked.by \in Accounts
  BY DEF Askings
<1>2. PICK ixs \in Bundles : ixs = Built(asked.order, acct[asked.by]).ixs
  BY <1>1, BuiltGood
<1>3. /\ simulate(asked).order = asked.order /\ simulate(asked).by = asked.by
      /\ simulate(asked).ixs = ixs
  BY <1>2 DEF simulate
<1>4. "order" \in DOMAIN simulate(asked) /\ "order" \notin DOMAIN None
  BY DEF simulate, None
<1> QED BY <1>1, <1>2, <1>3, <1>4 DEF SimGood

\* Submitting, or failing to.
LEMMA SubmitGood ==
  ASSUME WebInv, NEW p \in Panels, NEW sim, SimGood(sim), Submit(p, sim)
  PROVE  TxsGood' /\ FlowsGood'
<1>1. FlowsGood /\ TxsGood
  BY DEF WebInv
<1>2. CASE UNCHANGED txs /\ flow' = [flow EXCEPT ![p] = Given(p)]
  BY <1>1, <1>2, GivenGood, FlowChange, KeptGood
<1>3. CASE /\ txs' = Append(txs, [order |-> sim.order, ixs |-> sim.ixs, by |-> sim.by,
                                  status |-> "flying"])
           /\ flow' = [flow EXCEPT ![p] = [@ EXCEPT !.busy = "send", !.asked = None,
                                                    !.tx = Len(txs) + 1]]
  <2>1. [order |-> sim.order, ixs |-> sim.ixs, by |-> sim.by, status |-> "flying"] \in Txs
    BY DEF SimGood, Txs
  <2>2. TxsGood'
    BY <1>1, <1>3, <2>1 DEF TxsGood
  <2>3. PICK f : f = flow[p] /\ FlowGood(f)
    BY <1>1 DEF FlowsGood
  <2>4. PICK g : g = [f EXCEPT !.busy = "send", !.asked = None, !.tx = Len(txs) + 1]
    OBVIOUS
  <2>5. FlowGood(g)
    BY <2>3, <2>4 DEF FlowGood, FlowRecord
  <2>6. flow' = [flow EXCEPT ![p] = g]
    BY <1>3, <2>3, <2>4
  <2> QED BY <1>1, <2>2, <2>5, <2>6, FlowChange
<1> QED BY <1>2, <1>3 DEF Submit

\* Sending: at once, or with the wallet's user asked first.
LEMMA SendGood ==
  ASSUME WebInv, NEW p \in Panels, NEW sim, SimGood(sim), SignAndSend(p, sim)
  PROVE  TxsGood' /\ FlowsGood'
<1>1. FlowsGood /\ TxsGood
  BY DEF WebInv
<1>2. CASE UNCHANGED txs /\ flow' = [flow EXCEPT ![p] = Given(p)]
  BY <1>1, <1>2, GivenGood, FlowChange, KeptGood
<1>3. CASE Submit(p, sim)
  BY <1>3, SubmitGood
<1>4. CASE UNCHANGED txs /\ flow' = [flow EXCEPT ![p] = [@ EXCEPT !.busy = "sign", !.asked = sim]]
  <2>1. PICK f : f = flow[p] /\ FlowGood(f)
    BY <1>1 DEF FlowsGood
  <2>2. PICK g : g = [f EXCEPT !.busy = "sign", !.asked = sim]
    OBVIOUS
  <2>3. FlowGood(g)
    BY <2>1, <2>2 DEF FlowGood, FlowRecord
  <2>4. flow' = [flow EXCEPT ![p] = g]
    BY <1>4, <2>1, <2>2
  <2> QED BY <1>1, <1>4, <2>3, <2>4, FlowChange, KeptGood
<1> QED BY <1>2, <1>3, <1>4 DEF SignAndSend

\* A transaction lands on an account of those that send.
LEMMA LandsGood ==
  ASSUME WebInv, NEW n \in 1..Len(txs), TxLands(n)
  PROVE  WebInv'
<1>1. txs \in Seq(Txs) /\ txs[n] \in Txs /\ n \in DOMAIN txs
  BY DEF WebInv, TxsGood
<1>2. PICK tx \in Txs : tx = txs[n]
  BY <1>1
<1>3. ASSUME NEW st \in {"ok", "failed", "expired"}, txs' = [txs EXCEPT ![n].status = st]
      PROVE  TxsGood'
  <2>1. PICK ty : ty = [tx EXCEPT !.status = st] /\ ty \in Txs
    BY <1>2, <1>3 DEF Txs
  <2>2. txs' = [txs EXCEPT ![n] = ty]
    BY <1>2, <1>3, <2>1
  <2> QED BY <1>1, <2>1, <2>2 DEF TxsGood
<1>4. TxsGood'
  BY <1>3 DEF TxLands
<1>5. AccountsGood'
  <2>1. CASE UNCHANGED acct
    BY <2>1, KeptGood
  <2>2. CASE acct' # acct
    <3>1. PICK after : /\ after = Run(tx.ixs, tx.order.on, acct[tx.by]) /\ after # None
                       /\ acct' = [acct EXCEPT ![tx.by] = after]
      BY <1>2, <2>2 DEF TxLands
    <3>2. acct \in [Accounts -> GoodAccounts] /\ tx.by \in Accounts /\ tx.ixs \in Bundles
      BY <1>2 DEF WebInv, AccountsGood, Txs
    <3>3. after \in GoodAccounts
      BY <3>1, <3>2, RunGood DEF Later
    <3> QED BY <3>1, <3>2, <3>3 DEF AccountsGood
  <2> QED BY <2>1, <2>2
<1>6. FlowsGood'
  BY KeptGood DEF TxLands
<1> QED BY <1>4, <1>5, <1>6 DEF WebInv

\* An input changes.
LEMMA ChangeStep ==
  ASSUME WebInv, Change
  PROVE  WebInv'
<1>1. UNCHANGED <<acct, txs>> /\ FlowsGood
  BY DEF Change, chainVars, WebInv
<1>2. PICK p \in Panels : resetReview(p)
  BY DEF Change, ChangeTicket, ChangeForm
<1>3. PICK o \in Orders(p) : flow' = [flow EXCEPT ![p].order = o, ![p].prepared = None]
  BY <1>2 DEF resetReview
<1>4. p \in AllPanels /\ o \in OrderSet
  BY <1>1, <1>3, OrdersGood DEF FlowsGood
<1>5. PICK f : f = flow[p] /\ FlowGood(f)
  BY <1>1 DEF FlowsGood
<1>6. PICK g : g = [f EXCEPT !.order = o, !.prepared = None]
  OBVIOUS
<1>7. FlowGood(g)
  BY <1>4, <1>5, <1>6 DEF FlowGood, FlowRecord
<1>8. flow' = [flow EXCEPT ![p] = g]
  BY <1>3, <1>5, <1>6
<1>9. FlowsGood'
  BY <1>1, <1>7, <1>8, FlowChange
<1> QED BY <1>1, <1>9, KeptGood DEF WebInv

\* A click on a panel.
LEMMA ReviewStep ==
  ASSUME WebInv, NEW p \in Panels, review(p)
  PROVE  WebInv'
<1>1. UNCHANGED <<acct, txs>> /\ FlowsGood
  BY DEF review, chainVars, WebInv
<1>2. address \in Accounts
  BY DEF review, address, Accounts, Nobody
<1>3. PICK f : f = flow[p] /\ FlowGood(f)
  BY <1>1 DEF FlowsGood
<1>4. PICK q \in Askings : q = [order |-> f.order, by |-> address]
  BY <1>2, <1>3 DEF Askings, FlowGood
<1>5. PICK g : g = [f EXCEPT !.busy = "prepare", !.asked = q]
  OBVIOUS
<1>6. FlowGood(g)
  BY <1>3, <1>5 DEF FlowGood, FlowRecord
<1>7. flow' = [flow EXCEPT ![p] = g]
  BY <1>3, <1>4, <1>5 DEF review
<1>8. FlowsGood'
  BY <1>1, <1>6, <1>7, FlowChange
<1> QED BY <1>1, <1>8, KeptGood DEF WebInv

\* The transaction is built and simulated, and shown or sent.
LEMMA PrepareStep ==
  ASSUME WebInv, NEW p \in Panels, Prepare(p)
  PROVE  WebInv'
<1>1. UNCHANGED acct /\ FlowsGood
  BY DEF Prepare, chainVars, WebInv
<1>2. PICK f : f = flow[p] /\ FlowGood(f) /\ f.asked \in Askings
  BY <1>1 DEF FlowsGood, FlowGood, Prepare
<1>3. PICK sim : sim = simulate(flow[p].asked) /\ SimGood(sim)
  BY <1>2, SimulateGood
<1>4. CASE Reviewed(p)
  <2>1. PICK g : g = [f EXCEPT !.busy = "no", !.asked = None, !.prepared = sim]
    OBVIOUS
  <2>2. FlowGood(g)
    BY <1>2, <1>3, <2>1 DEF FlowGood, FlowRecord
  <2>3. flow' = [flow EXCEPT ![p] = g] /\ UNCHANGED txs
    BY <1>2, <1>3, <1>4, <2>1 DEF Reviewed
  <2>4. FlowsGood'
    BY <1>1, <2>2, <2>3, FlowChange
  <2> QED BY <1>1, <2>3, <2>4, KeptGood DEF WebInv
<1>5. CASE SignAndSend(p, sim)
  BY <1>1, <1>3, <1>5, SendGood, KeptGood DEF WebInv
<1> QED BY <1>3, <1>4, <1>5 DEF Prepare, ClaimOnPage, ClaimInList, RunFaucet

LEMMA PrepareFailsStep ==
  ASSUME WebInv, NEW p \in Panels, PrepareFails(p)
  PROVE  WebInv'
<1>1. UNCHANGED <<acct, txs>> /\ FlowsGood
  BY DEF PrepareFails, chainVars, WebInv
<1>2. PICK f : f = flow[p] /\ FlowGood(f)
  BY <1>1 DEF FlowsGood
<1>3. PICK g : g = [f EXCEPT !.busy = "no", !.asked = None]
  OBVIOUS
<1>4. FlowGood(g)
  BY <1>2, <1>3 DEF FlowGood, FlowRecord
<1>5. flow' = [flow EXCEPT ![p] = g]
  BY <1>2, <1>3 DEF PrepareFails
<1>6. FlowsGood'
  BY <1>1, <1>4, <1>5, FlowChange
<1> QED BY <1>1, <1>6, KeptGood DEF WebInv

\* The faucet's airdrop.
LEMMA AirdropStep ==
  ASSUME WebInv, NEW p \in Panels, Airdrop(p)
  PROVE  WebInv'
<1>1. UNCHANGED txs /\ FlowsGood /\ acct \in [Accounts -> GoodAccounts]
  BY DEF Airdrop, WebInv, AccountsGood
<1>2. CASE UNCHANGED acct /\ flow' = [flow EXCEPT ![p] = Given(p)]
  <2>1. FlowsGood'
    BY <1>1, <1>2, GivenGood, FlowChange
  <2> QED BY <1>1, <1>2, <2>1, KeptGood DEF WebInv
<1>3. CASE UNCHANGED flow /\ acct' = [acct EXCEPT ![flow[p].asked.by].sol = 1]
  <2>1. PICK by \in Accounts : by = flow[p].asked.by
    BY <1>1 DEF FlowsGood, FlowGood, Airdrop, Askings
  <2>2. PICK a \in GoodAccounts : a = acct[by]
    BY <1>1
  <2>3. PICK n \in Int : n = 1
    OBVIOUS
  <2>4. PICK b : b = [a EXCEPT !.sol = n]
    OBVIOUS
  <2>5. b \in AccountSet /\ b.opened = a.opened /\ b.tok = a.tok /\ a.opened \in BOOLEAN
    BY <2>4 DEF GoodAccounts, AccountSet
  <2>6. b \in GoodAccounts
    BY <2>5, ChangeGood
  <2>7. acct' = [acct EXCEPT ![by] = b]
    BY <1>3, <2>1, <2>2, <2>3, <2>4
  <2>8. AccountsGood'
    BY <1>1, <2>6, <2>7 DEF AccountsGood
  <2> QED BY <1>1, <1>3, <2>8, KeptGood DEF WebInv
<1> QED BY <1>2, <1>3 DEF Airdrop

\* The signature under a review.
LEMMA ConfirmStep ==
  ASSUME WebInv, NEW p \in Panels, confirm(p)
  PROVE  WebInv'
<1>1. UNCHANGED acct /\ FlowsGood
  BY DEF confirm, chainVars, WebInv
<1>2. SimGood(flow[p].prepared) /\ SignAndSend(p, flow[p].prepared)
  BY <1>1 DEF FlowsGood, FlowGood, confirm, inReview
<1>3. TxsGood' /\ FlowsGood'
  BY <1>2, SendGood
<1> QED BY <1>1, <1>3, KeptGood DEF WebInv

\* The wallet's user answers.
LEMMA PromptedStep ==
  ASSUME WebInv, NEW p \in Panels, Prompted(p)
  PROVE  WebInv'
<1>1. UNCHANGED acct /\ FlowsGood
  BY DEF Prompted, chainVars, WebInv
<1>2. SimGood(flow[p].asked)
  BY <1>1 DEF FlowsGood, FlowGood, Prompted
<1>3. CASE Submit(p, flow[p].asked)
  BY <1>1, <1>2, <1>3, SubmitGood, KeptGood DEF WebInv
<1>4. CASE UNCHANGED txs /\ flow' = [flow EXCEPT ![p] = Given(p)]
  BY <1>1, <1>4, GivenGood, FlowChange, KeptGood DEF WebInv
<1> QED BY <1>3, <1>4 DEF Prompted

LEMMA ConfirmationStep ==
  ASSUME WebInv, NEW p \in Panels, Confirmation(p)
  PROVE  WebInv'
<1>1. UNCHANGED <<acct, txs>> /\ FlowsGood
  BY DEF Confirmation, chainVars, WebInv
<1>2. Order("buy", "Team1") \in OrderSet
  BY WebConstants DEF Order, OrderSet, Operations
<1>3. PICK f : f = Mounted(Order("buy", "Team1")) /\ FlowGood(f)
  BY <1>2, OrdersGood
<1>4. PICK g : g = [Given(p) EXCEPT !.claimed = TRUE] /\ FlowGood(g)
  BY <1>1, GivenGood
<1>5. PICK h : h = Given(p) /\ FlowGood(h)
  BY <1>1, GivenGood
<1>6. \/ flow' = [flow EXCEPT ![p] = f]
      \/ flow' = [flow EXCEPT ![p] = g]
      \/ flow' = [flow EXCEPT ![p] = h]
  BY <1>3, <1>4, <1>5 DEF Confirmation
<1>7. FlowsGood'
  BY <1>1, <1>3, <1>4, <1>5, <1>6, FlowChange
<1> QED BY <1>1, <1>7, KeptGood DEF WebInv

LEMMA WebStep == WebInv /\ [WebNext]_webVars => WebInv'
<1> SUFFICES ASSUME WebInv, [WebNext]_webVars PROVE WebInv'
  OBVIOUS
<1>1. FlowsGood
  BY DEF WebInv
<1>2. CASE UNCHANGED webVars \/ MarketMoves \/ ListMoves \/ AnswerLost
  <2>1. UNCHANGED <<acct, txs, flow>>
    BY <1>2 DEF webVars, MarketMoves, ListMoves, AnswerLost, chainVars
  <2> QED BY <2>1, KeptGood DEF WebInv
<1>3. CASE \E n \in 1..Len(txs) : TxLands(n)
  BY <1>3, LandsGood
<1>4. CASE Connect \/ ProvisionDemo \/ Disconnect
  <2>1. UNCHANGED <<acct, txs>> /\ flow' = Remount(FALSE)
    BY <1>4 DEF Connect, ProvisionDemo, Disconnect, chainVars
  <2>2. FlowsGood'
    BY <1>1, <2>1, RemountGood
  <2> QED BY <2>1, <2>2, KeptGood DEF WebInv
<1>5. CASE \E what \in Kinds : Poll(what)
  <2>1. UNCHANGED <<acct, txs, flow>>
    BY <1>5 DEF Poll, chainVars
  <2> QED BY <2>1, KeptGood DEF WebInv
<1>6. CASE \E what \in Kinds : Answer(what)
  <2>1. UNCHANGED <<acct, txs>> /\ (UNCHANGED flow \/ \E val : flow' = Remount(val))
    BY <1>6 DEF Answer, chainVars
  <2>2. FlowsGood'
    BY <1>1, <2>1, RemountGood, KeptGood
  <2> QED BY <2>1, <2>2, KeptGood DEF WebInv
<1>7. CASE Change
  BY <1>7, ChangeStep
<1>8. ASSUME NEW p \in Panels,
             review(p) \/ PrepareFails(p) \/ confirm(p) \/ Prompted(p) \/ FlowStep(p)
      PROVE  WebInv'
  BY <1>8, ReviewStep, PrepareFailsStep, ConfirmStep, PromptedStep, PrepareStep, AirdropStep,
     ConfirmationStep DEF FlowStep
<1> QED BY <1>2, <1>3, <1>4, <1>5, <1>6, <1>7, <1>8 DEF WebNext

-----------------------------------------------------------------------------
(* What the market page's panel sends are claims, and it says that a claim was  *)
(* made only after one of its own has landed.                                   *)

ClaimGood(f, sent, accounts) ==
  /\ f.order.op = "redeem"
  /\ f.busy = "prepare" => f.asked.order.op = "redeem"
  /\ f.busy = "sign" => f.asked.ixs = <<"redeem">>
  /\ f.busy = "send" => f.tx \in 1..Len(sent) /\ sent[f.tx].ixs = <<"redeem">>
  /\ f.claimed => \E a \in Accounts : accounts[a].redeemed

PanelClaims == "resolution" \in Panels => ClaimGood(flow["resolution"], txs, acct)
Redeemed ==
  \A n \in 1..Len(txs) :
    txs[n].status = "ok" /\ txs[n].ixs = <<"redeem">> => acct[txs[n].by].redeemed
ClaimInv == PanelClaims /\ Redeemed

\* What later states keep of the chain: the transactions and the redemptions.
Onward ==
  /\ Len(txs) <= Len(txs')
  /\ \A n \in 1..Len(txs) : txs'[n].ixs = txs[n].ixs
  /\ \A a \in Accounts : acct[a].redeemed => acct'[a].redeemed

LEMMA InitClaims == WebInit => ClaimInv
<1> SUFFICES ASSUME WebInit PROVE ClaimInv
  OBVIOUS
<1>1. Redeemed
  BY DEF WebInit, Redeemed
<1>2. ASSUME "resolution" \in Panels PROVE ClaimGood(flow["resolution"], txs, acct)
  <2>1. flow["resolution"] = Mounted(Order("redeem", "all"))
    BY <1>2 DEF WebInit, Panels
  <2> QED BY <2>1 DEF ClaimGood, Mounted, Order
<1> QED BY <1>1, <1>2 DEF ClaimInv, PanelClaims

\* A transaction lands: a claim's leaves its account redeemed.
LEMMA LandsClaims ==
  ASSUME WebInv, ClaimInv, NEW n \in 1..Len(txs), TxLands(n)
  PROVE  Onward /\ Redeemed'
<1>1. txs \in Seq(Txs) /\ txs[n] \in Txs /\ n \in DOMAIN txs /\ acct \in [Accounts -> GoodAccounts]
  BY DEF WebInv, TxsGood, AccountsGood
<1>2. PICK tx \in Txs : tx = txs[n]
  BY <1>1
<1>3. tx.by \in Accounts /\ tx.ixs \in Bundles
  BY DEF Txs
<1>4. PICK st \in {"ok", "failed", "expired"} :
        /\ txs' = [txs EXCEPT ![n].status = st]
        /\ \/ UNCHANGED acct /\ st # "ok"
           \/ LET after == Run(tx.ixs, tx.order.on, acct[tx.by])
              IN  after # None /\ acct' = [acct EXCEPT ![tx.by] = after]
  BY <1>2 DEF TxLands
<1>5. PICK ty : ty = [tx EXCEPT !.status = st]
  OBVIOUS
<1>6. ty \in Txs /\ ty.ixs = tx.ixs /\ ty.by = tx.by /\ ty.status = st
  BY <1>4, <1>5 DEF Txs
<1>7. txs' = [txs EXCEPT ![n] = ty]
  BY <1>2, <1>4, <1>5
<1>8. /\ Len(txs') = Len(txs) /\ txs'[n] = ty
      /\ \A i \in 1..Len(txs) : i # n => txs'[i] = txs[i]
  BY <1>1, <1>6, <1>7
<1>9. \A i \in 1..Len(txs) : txs[i].by \in Accounts
  <2>1. \A i \in 1..Len(txs) : txs[i] \in Txs
    BY <1>1
  <2> QED BY <2>1 DEF Txs
<1>10. CASE UNCHANGED acct /\ st # "ok"
  <2>1. Onward
    BY <1>1, <1>2, <1>6, <1>8, <1>10 DEF Onward
  <2>2. Redeemed'
    BY <1>6, <1>8, <1>10 DEF ClaimInv, Redeemed
  <2> QED BY <2>1, <2>2
<1>11. CASE acct' # acct \/ st = "ok"
  <2>1. PICK a \in GoodAccounts : a = acct[tx.by]
    BY <1>1, <1>3
  <2>2. PICK after : /\ after = Run(tx.ixs, tx.order.on, a) /\ after # None
                     /\ acct' = [acct EXCEPT ![tx.by] = after]
    BY <1>4, <1>11, <2>1
  <2>3. (a.redeemed => after.redeemed) /\ (tx.ixs = <<"redeem">> => after.redeemed)
    BY <1>3, <2>2, RunGood DEF Later
  <2>4. acct'[tx.by] = after /\ \A b \in Accounts : b # tx.by => acct'[b] = acct[b]
    BY <1>1, <1>3, <2>2
  <2>5. Onward
    BY <1>1, <1>2, <1>6, <1>8, <2>1, <2>3, <2>4 DEF Onward
  <2>6. ASSUME NEW i \in 1..Len(txs'), txs'[i].status = "ok", txs'[i].ixs = <<"redeem">>
        PROVE  acct'[txs'[i].by].redeemed
    <3>1. CASE i = n
      BY <1>2, <1>6, <1>8, <2>3, <2>4, <2>6, <3>1
    <3>2. CASE i # n
      <4>1. txs'[i] = txs[i] /\ i \in 1..Len(txs) /\ txs[i].by \in Accounts
        BY <1>8, <1>9, <3>2
      <4>2. acct[txs[i].by].redeemed
        BY <2>6, <4>1 DEF ClaimInv, Redeemed
      <4> QED BY <2>5, <4>1, <4>2 DEF Onward
    <3> QED BY <3>1, <3>2
  <2> QED BY <2>5, <2>6 DEF Redeemed
<1> QED BY <1>10, <1>11

\* A transaction is submitted: it is in flight.
LEMMA SubmitClaims ==
  ASSUME WebInv, ClaimInv, NEW p \in Panels, NEW sim, SimGood(sim), UNCHANGED acct,
         UNCHANGED txs \/ Submit(p, sim)
  PROVE  Onward /\ Redeemed'
<1>1. txs \in Seq(Txs)
  BY DEF WebInv, TxsGood
<1>2. CASE UNCHANGED txs
  <2>1. Onward
    BY <1>1, <1>2 DEF Onward
  <2> QED BY <1>2, <2>1 DEF ClaimInv, Redeemed
<1>3. CASE txs' # txs
  <2>1. PICK t : /\ t = [order |-> sim.order, ixs |-> sim.ixs, by |-> sim.by, status |-> "flying"]
                 /\ txs' = Append(txs, t)
    BY <1>3 DEF Submit
  <2>2. t \in Txs /\ t.status = "flying"
    BY <2>1 DEF SimGood, Txs
  <2>3. Len(txs) \in Nat /\ Len(txs') = Len(txs) + 1 /\ txs'[Len(txs) + 1] = t
    BY <1>1, <2>1, <2>2
  <2>4. \A i \in 1..Len(txs) : txs'[i] = txs[i]
    BY <1>1, <2>1, <2>2
  <2>5. Onward
    BY <1>3, <2>3, <2>4 DEF Onward
  <2>6. \A i \in 1..Len(txs') : i \in 1..Len(txs) \/ i = Len(txs) + 1
    BY <2>3
  <2>7. Redeemed'
    BY <2>2, <2>3, <2>4, <2>6 DEF ClaimInv, Redeemed
  <2> QED BY <2>5, <2>7
<1> QED BY <1>2, <1>3

\* Every step keeps what has happened on chain.
LEMMA ChainStep == WebInv /\ ClaimInv /\ [WebNext]_webVars => Onward /\ Redeemed'
<1> SUFFICES ASSUME WebInv, ClaimInv, [WebNext]_webVars PROVE Onward /\ Redeemed'
  OBVIOUS
<1>1. CASE UNCHANGED <<acct, txs>>
  BY <1>1 DEF Onward, ClaimInv, Redeemed, WebInv, TxsGood
<1>2. CASE \E n \in 1..Len(txs) : TxLands(n)
  BY <1>2, LandsClaims
<1>3. ASSUME NEW p \in Panels, Prompted(p) PROVE Onward /\ Redeemed'
  <2>1. SimGood(flow[p].asked) /\ UNCHANGED acct
    BY <1>3 DEF Prompted, chainVars, WebInv, FlowsGood, FlowGood
  <2>2. UNCHANGED txs \/ Submit(p, flow[p].asked)
    BY <1>3 DEF Prompted
  <2> QED BY <2>1, <2>2, SubmitClaims
<1>4. ASSUME NEW p \in Panels, confirm(p) PROVE Onward /\ Redeemed'
  <2>1. SimGood(flow[p].prepared) /\ UNCHANGED acct
    BY <1>4 DEF confirm, inReview, chainVars, WebInv, FlowsGood, FlowGood
  <2>2. UNCHANGED txs \/ Submit(p, flow[p].prepared)
    BY <1>4 DEF confirm, SignAndSend
  <2> QED BY <2>1, <2>2, SubmitClaims
<1>5. ASSUME NEW p \in Panels, Prepare(p) PROVE Onward /\ Redeemed'
  <2>1. flow[p].asked \in Askings /\ UNCHANGED acct
    BY <1>5 DEF Prepare, chainVars, WebInv, FlowsGood, FlowGood
  <2>2. SimGood(simulate(flow[p].asked))
    BY <2>1, SimulateGood
  <2>3. UNCHANGED txs \/ Submit(p, simulate(flow[p].asked))
    BY <1>5 DEF Prepare, Reviewed, ClaimOnPage, ClaimInList, RunFaucet, SignAndSend
  <2> QED BY <2>1, <2>2, <2>3, SubmitClaims
<1>6. ASSUME NEW p \in Panels, Airdrop(p), acct' # acct PROVE Onward /\ Redeemed'
  <2>1. UNCHANGED txs /\ txs \in Seq(Txs) /\ acct \in [Accounts -> GoodAccounts]
    BY <1>6 DEF Airdrop, WebInv, TxsGood, AccountsGood
  <2>2. PICK by : acct' = [acct EXCEPT ![by].sol = 1]
    BY <1>6 DEF Airdrop
  <2>3. \A a \in Accounts : acct'[a].redeemed = acct[a].redeemed
    BY <2>1, <2>2 DEF GoodAccounts, AccountSet
  <2>4. Onward
    BY <2>1, <2>3 DEF Onward
  <2>5. \A n \in 1..Len(txs) : txs[n].by \in Accounts
    <3>1. \A n \in 1..Len(txs) : txs[n] \in Txs
      BY <2>1
    <3> QED BY <3>1 DEF Txs
  <2> QED BY <2>1, <2>3, <2>4, <2>5 DEF ClaimInv, Redeemed
<1>7. CASE \E p \in Panels : review(p) \/ PrepareFails(p) \/ Confirmation(p)
  BY <1>1, <1>7 DEF review, PrepareFails, Confirmation, chainVars
<1>8. CASE MarketMoves \/ ListMoves \/ Connect \/ ProvisionDemo \/ Disconnect \/ AnswerLost \/ Change
  BY <1>1, <1>8 DEF MarketMoves, ListMoves, Connect, ProvisionDemo, Disconnect, AnswerLost, Change,
                    chainVars
<1>9. CASE \E what \in Kinds : Poll(what) \/ Answer(what)
  BY <1>1, <1>9 DEF Poll, Answer, chainVars
<1>10. CASE UNCHANGED webVars
  BY <1>1, <1>10 DEF webVars
<1>11. ASSUME NEW p \in Panels, Airdrop(p) PROVE Onward /\ Redeemed'
  BY <1>1, <1>6, <1>11 DEF Airdrop
<1> QED BY <1>2, <1>3, <1>4, <1>5, <1>7, <1>8, <1>9, <1>10, <1>11 DEF WebNext, FlowStep

\* What is true of a panel stays true, as the chain goes on.
LEMMA ClaimKept ==
  ASSUME WebInv, Onward, NEW f, ClaimGood(f, txs, acct)
  PROVE  ClaimGood(f, txs', acct')
<1>2. f.busy = "send" => f.tx \in 1..Len(txs') /\ txs'[f.tx].ixs = <<"redeem">>
  <2> SUFFICES ASSUME f.busy = "send" PROVE f.tx \in 1..Len(txs') /\ txs'[f.tx].ixs = <<"redeem">>
    OBVIOUS
  <2>1. f.tx \in 1..Len(txs) /\ txs[f.tx].ixs = <<"redeem">> /\ Len(txs) <= Len(txs')
    BY DEF ClaimGood, Onward
  <2>2. Len(txs) \in Nat
    BY DEF WebInv, TxsGood
  <2> QED BY <2>1, <2>2 DEF Onward
<1>3. f.claimed => \E a \in Accounts : acct'[a].redeemed
  BY DEF ClaimGood, Onward
<1> QED BY <1>2, <1>3 DEF ClaimGood

\* One panel's flow changes.
LEMMA PanelChange ==
  ASSUME WebInv, PanelClaims, Onward, NEW p \in Panels, NEW g, flow' = [flow EXCEPT ![p] = g],
         p = "resolution" => ClaimGood(g, txs', acct')
  PROVE  PanelClaims'
<1> SUFFICES ASSUME "resolution" \in Panels' PROVE ClaimGood(flow'["resolution"], txs', acct')
  BY DEF PanelClaims
<1>1. "resolution" \in Panels
  BY DEF Panels
<1>2. CASE p = "resolution"
  BY <1>1, <1>2 DEF Panels
<1>3. CASE p # "resolution"
  <2>1. flow'["resolution"] = flow["resolution"]
    BY <1>1, <1>3 DEF Panels
  <2> QED BY <1>1, <2>1, ClaimKept DEF PanelClaims
<1> QED BY <1>2, <1>3

LEMMA PanelsKept ==
  ASSUME WebInv, PanelClaims, Onward, UNCHANGED flow \/ \E shown : flow' = Remount(shown)
  PROVE  PanelClaims'
<1>1. CASE UNCHANGED flow
  BY <1>1, ClaimKept DEF PanelClaims, Panels
<1>2. CASE flow' # flow
  <2>1. PICK g : flow' = [flow EXCEPT !["lev"] = g] /\ "lev" \in Panels
    BY <1>2 DEF Remount
  <2> QED BY <2>1, PanelChange
<1> QED BY <1>1, <1>2

\* The market page's panel fails, or submits a claim.
LEMMA ClaimSubmitted ==
  ASSUME WebInv, PanelClaims, Onward, "resolution" \in Panels, NEW sim, sim.ixs = <<"redeem">>,
         SimGood(sim),
         \/ flow' = [flow EXCEPT !["resolution"] = Given("resolution")]
         \/ Submit("resolution", sim)
  PROVE  PanelClaims'
<1>1. PICK f : f = flow["resolution"] /\ f = FlowRecord(f) /\ ClaimGood(f, txs, acct)
  BY DEF PanelClaims, WebInv, FlowsGood, FlowGood
<1>2. ClaimGood(f, txs', acct')
  BY <1>1, ClaimKept
<1>3. CASE flow' = [flow EXCEPT !["resolution"] = Given("resolution")]
  <2>1. PICK g : g = [f EXCEPT !.busy = "no", !.asked = None, !.prepared = None]
    OBVIOUS
  <2>2. ClaimGood(g, txs', acct')
    BY <1>1, <1>2, <2>1 DEF ClaimGood, FlowRecord
  <2>3. flow' = [flow EXCEPT !["resolution"] = g]
    BY <1>1, <1>3, <2>1 DEF Given
  <2> QED BY <2>2, <2>3, PanelChange
<1>4. CASE /\ txs' = Append(txs, [order |-> sim.order, ixs |-> sim.ixs, by |-> sim.by,
                                  status |-> "flying"])
           /\ flow' = [flow EXCEPT !["resolution"] = [@ EXCEPT !.busy = "send", !.asked = None,
                                                               !.tx = Len(txs) + 1]]
  <2>1. PICK g : g = [f EXCEPT !.busy = "send", !.asked = None, !.tx = Len(txs) + 1]
    OBVIOUS
  <2>2. PICK t : t = [order |-> sim.order, ixs |-> sim.ixs, by |-> sim.by, status |-> "flying"]
    OBVIOUS
  <2>3. t \in Txs /\ t.ixs = <<"redeem">> /\ txs \in Seq(Txs)
    BY <2>2 DEF SimGood, Txs, WebInv, TxsGood
  <2>4. Len(txs) + 1 \in 1..Len(txs') /\ txs'[Len(txs) + 1] = t
    BY <1>4, <2>2, <2>3
  <2>5. /\ g.tx = Len(txs) + 1 /\ g.busy = "send" /\ g.order = f.order /\ g.claimed = f.claimed
    BY <1>1, <2>1 DEF FlowRecord
  <2>6. ClaimGood(g, txs', acct')
    BY <1>2, <2>3, <2>4, <2>5 DEF ClaimGood
  <2>7. flow' = [flow EXCEPT !["resolution"] = g]
    BY <1>1, <1>4, <2>1
  <2> QED BY <2>6, <2>7, PanelChange
<1> QED BY <1>3, <1>4 DEF Submit

LEMMA ClaimPrepared ==
  ASSUME WebInv, PanelClaims, Onward, "resolution" \in Panels, Prepare("resolution")
  PROVE  PanelClaims'
<1>1. PICK f : f = flow["resolution"] /\ f = FlowRecord(f) /\ ClaimGood(f, txs, acct)
  BY DEF PanelClaims, WebInv, FlowsGood, FlowGood
<1>2. f.asked \in Askings /\ f.asked.order.op = "redeem"
  BY <1>1 DEF Prepare, ClaimGood, WebInv, FlowsGood, FlowGood
<1>3. PICK sim : sim = simulate(f.asked)
  OBVIOUS
<1>4. SimGood(sim) /\ sim.ixs = <<"redeem">>
  BY <1>2, <1>3, SimulateGood DEF simulate, Built, prepareClaim
<1>5. SignAndSend("resolution", sim)
  BY <1>1, <1>3 DEF Prepare, Reviewed, Tickets, ClaimOnPage, ClaimInList, RunFaucet
<1>6. CASE flow' = [flow EXCEPT !["resolution"] = [@ EXCEPT !.busy = "sign", !.asked = sim]]
  <2>1. PICK g : g = [f EXCEPT !.busy = "sign", !.asked = sim]
    OBVIOUS
  <2>2. ClaimGood(f, txs', acct')
    BY <1>1, ClaimKept
  <2>3. ClaimGood(g, txs', acct')
    BY <1>1, <1>4, <2>1, <2>2 DEF ClaimGood, FlowRecord
  <2>4. flow' = [flow EXCEPT !["resolution"] = g]
    BY <1>1, <1>6, <2>1
  <2> QED BY <2>3, <2>4, PanelChange
<1> QED BY <1>4, <1>5, <1>6, ClaimSubmitted DEF SignAndSend

\* A landed claim is what makes the panel say so.
LEMMA ClaimConfirmed ==
  ASSUME WebInv, ClaimInv, Onward, "resolution" \in Panels, Confirmation("resolution")
  PROVE  PanelClaims'
<1>1. PICK f : f = flow["resolution"] /\ f = FlowRecord(f) /\ ClaimGood(f, txs, acct)
  BY DEF ClaimInv, PanelClaims, WebInv, FlowsGood, FlowGood
<1>2. PICK g : g = [f EXCEPT !.busy = "no", !.asked = None, !.prepared = None]
  OBVIOUS
<1>3. Given("resolution") = g
  BY <1>1, <1>2 DEF Given
<1>4. ClaimGood(g, txs', acct')
  <2>1. ClaimGood(f, txs', acct')
    BY <1>1, ClaimKept DEF ClaimInv
  <2> QED BY <1>1, <1>2, <2>1 DEF ClaimGood, FlowRecord
<1>5. CASE flow' = [flow EXCEPT !["resolution"] = g]
  BY <1>4, <1>5, PanelChange DEF ClaimInv
<1>6. CASE /\ Confirmed(txs[f.tx].status)
           /\ flow' = [flow EXCEPT !["resolution"] = [g EXCEPT !.claimed = TRUE]]
  <2>1. f.tx \in 1..Len(txs) /\ txs[f.tx].ixs = <<"redeem">>
    BY <1>1 DEF Confirmation, ClaimGood
  <2>2. txs[f.tx].by \in Accounts
    <3>1. txs \in Seq(Txs)
      BY DEF WebInv, TxsGood
    <3>2. txs[f.tx] \in Txs
      BY <2>1, <3>1
    <3> QED BY <3>2 DEF Txs
  <2>3. acct[txs[f.tx].by].redeemed
    BY <1>6, <2>1 DEF Confirmed, ClaimInv, Redeemed
  <2>4. \E a \in Accounts : acct'[a].redeemed
    BY <2>2, <2>3 DEF Onward
  <2>5. PICK h : h = [g EXCEPT !.claimed = TRUE]
    OBVIOUS
  <2>6. ClaimGood(h, txs', acct')
    BY <1>1, <1>2, <1>4, <2>4, <2>5 DEF ClaimGood, FlowRecord
  <2> QED BY <1>6, <2>5, <2>6, PanelChange DEF ClaimInv
<1> QED BY <1>1, <1>3, <1>5, <1>6 DEF Confirmation

LEMMA ClaimStep == WebInv /\ ClaimInv /\ [WebNext]_webVars => ClaimInv'
<1> SUFFICES ASSUME WebInv, ClaimInv, [WebNext]_webVars PROVE ClaimInv'
  OBVIOUS
<1>1. Onward /\ Redeemed' /\ PanelClaims
  BY ChainStep DEF ClaimInv
<1>2. CASE UNCHANGED webVars \/ MarketMoves \/ ListMoves \/ AnswerLost
  BY <1>1, <1>2, PanelsKept DEF ClaimInv, webVars, MarketMoves, ListMoves, AnswerLost
<1>3. CASE \E n \in 1..Len(txs) : TxLands(n)
  BY <1>1, <1>3, PanelsKept DEF ClaimInv, TxLands
<1>4. CASE Connect \/ ProvisionDemo \/ Disconnect
  <2>1. flow' = Remount(FALSE)
    BY <1>4 DEF Connect, ProvisionDemo, Disconnect
  <2> QED BY <1>1, <2>1, PanelsKept DEF ClaimInv
<1>5. CASE \E what \in Kinds : Poll(what) \/ Answer(what)
  <2>1. UNCHANGED flow \/ \E val : flow' = Remount(val)
    BY <1>5 DEF Poll, Answer
  <2> QED BY <1>1, <2>1, PanelsKept DEF ClaimInv
<1>6. CASE Change
  <2>1. PICK p \in Panels : p \in {"trade", "lev"} /\ resetReview(p)
    BY <1>6 DEF Change, ChangeTicket, ChangeForm
  <2>2. PICK o : flow' = [flow EXCEPT ![p].order = o, ![p].prepared = None]
    BY <2>1 DEF resetReview
  <2>3. PICK g : g = [flow[p] EXCEPT !.order = o, !.prepared = None]
    OBVIOUS
  <2>4. flow' = [flow EXCEPT ![p] = g]
    BY <2>2, <2>3
  <2> QED BY <1>1, <2>1, <2>4, PanelChange DEF ClaimInv
<1>7. ASSUME NEW p \in Panels, p # "resolution",
             review(p) \/ PrepareFails(p) \/ confirm(p) \/ Prompted(p) \/ FlowStep(p)
      PROVE  ClaimInv'
  <2>1. UNCHANGED flow \/ \E g : flow' = [flow EXCEPT ![p] = g]
    <3>1. CASE review(p)
      <4>1. PICK g : g = [flow[p] EXCEPT !.busy = "prepare",
                                         !.asked = [order |-> flow[p].order, by |-> address]]
        OBVIOUS
      <4> QED BY <3>1, <4>1 DEF review
    <3>2. CASE PrepareFails(p)
      <4>1. PICK g : g = [flow[p] EXCEPT !.busy = "no", !.asked = None]
        OBVIOUS
      <4> QED BY <3>2, <4>1 DEF PrepareFails
    <3>3. ASSUME NEW sim, SignAndSend(p, sim) \/ Submit(p, sim)
          PROVE  \E g : flow' = [flow EXCEPT ![p] = g]
      <4>1. PICK g : g = [flow[p] EXCEPT !.busy = "send", !.asked = None, !.tx = Len(txs) + 1]
        OBVIOUS
      <4>2. PICK h : h = [flow[p] EXCEPT !.busy = "sign", !.asked = sim]
        OBVIOUS
      <4>3. \/ flow' = [flow EXCEPT ![p] = g]
            \/ flow' = [flow EXCEPT ![p] = h]
            \/ flow' = [flow EXCEPT ![p] = Given(p)]
        BY <3>3, <4>1, <4>2 DEF SignAndSend, Submit
      <4> QED BY <4>3
    <3>4. CASE confirm(p) \/ Prompted(p)
      BY <3>3, <3>4 DEF confirm, Prompted
    <3>5. CASE Prepare(p)
      <4>1. PICK g : g = [flow[p] EXCEPT !.busy = "no", !.asked = None,
                                         !.prepared = simulate(flow[p].asked)]
        OBVIOUS
      <4>2. Reviewed(p) => flow' = [flow EXCEPT ![p] = g]
        BY <4>1 DEF Reviewed
      <4> QED BY <3>3, <3>5, <4>2 DEF Prepare, ClaimOnPage, ClaimInList, RunFaucet
    <3>6. CASE Airdrop(p)
      BY <3>6 DEF Airdrop
    <3>7. CASE Confirmation(p)
      BY <3>7 DEF Confirmation
    <3> QED BY <1>7, <3>1, <3>2, <3>4, <3>5, <3>6, <3>7 DEF FlowStep
  <2> QED BY <1>1, <1>7, <2>1, PanelsKept, PanelChange DEF ClaimInv
<1>8. ASSUME "resolution" \in Panels, NEW p, p = "resolution",
             review(p) \/ PrepareFails(p) \/ confirm(p) \/ Prompted(p) \/ FlowStep(p)
      PROVE  ClaimInv'
  <2>1. PICK f : f = flow["resolution"] /\ f = FlowRecord(f) /\ ClaimGood(f, txs', acct')
    BY <1>1, <1>8, ClaimKept DEF PanelClaims, WebInv, FlowsGood, FlowGood
  <2>2. CASE review(p)
    <3>1. PICK g : g = [f EXCEPT !.busy = "prepare", !.asked = [order |-> f.order, by |-> address]]
      OBVIOUS
    <3>2. ClaimGood(g, txs', acct')
      BY <2>1, <3>1 DEF ClaimGood, FlowRecord
    <3>3. flow' = [flow EXCEPT !["resolution"] = g]
      BY <1>8, <2>1, <2>2, <3>1 DEF review
    <3> QED BY <1>1, <1>8, <3>2, <3>3, PanelChange DEF ClaimInv
  <2>3. CASE PrepareFails(p)
    <3>1. PICK g : g = [f EXCEPT !.busy = "no", !.asked = None]
      OBVIOUS
    <3>2. ClaimGood(g, txs', acct')
      BY <2>1, <3>1 DEF ClaimGood, FlowRecord
    <3>3. flow' = [flow EXCEPT !["resolution"] = g]
      BY <1>8, <2>1, <2>3, <3>1 DEF PrepareFails
    <3> QED BY <1>1, <1>8, <3>2, <3>3, PanelChange DEF ClaimInv
  <2>4. CASE Prompted(p)
    <3>1. PICK sim : sim = f.asked /\ sim.ixs = <<"redeem">> /\ SimGood(sim)
      BY <1>1, <1>8, <2>1, <2>4 DEF Prompted, PanelClaims, ClaimGood, WebInv, FlowsGood, FlowGood
    <3> QED BY <1>1, <1>8, <2>1, <2>4, <3>1, ClaimSubmitted DEF Prompted, ClaimInv
  <2>5. CASE Prepare(p)
    BY <1>1, <1>8, <2>5, ClaimPrepared DEF ClaimInv
  <2>6. CASE Confirmation(p)
    BY <1>1, <1>8, <2>6, ClaimConfirmed DEF ClaimInv
  <2> QED BY <1>8, <2>2, <2>3, <2>4, <2>5, <2>6 DEF FlowStep, Airdrop, confirm, Tickets
<1> QED BY <1>2, <1>3, <1>4, <1>5, <1>6, <1>7, <1>8 DEF WebNext

-----------------------------------------------------------------------------
(* The claim.                                                                *)

\* A market page whose polls agree with the chain offers its claim: the holder of
\* tokens has a position, so the page shows one.
LEMMA ClaimShown == WebInv /\ ClaimInv => ClaimOffered
<1> SUFFICES ASSUME WebInv, ClaimInv, "resolution" \in Panels PROVE ClaimOffered
  BY DEF ClaimOffered
<1>1. flow["resolution"].claimed => \E a \in Accounts : acct[a].redeemed
  BY DEF ClaimInv, PanelClaims, ClaimGood
<1>2. ASSUME Waits, Total(acct[address]), ~flow["resolution"].claimed
      PROVE  Offered("resolution")
  <2>1. "market" \in Kinds /\ "pos" \in Kinds
    BY DEF Kinds
  <2>2. PICK a \in GoodAccounts : a = acct[address]
    <3>1. address \in Accounts
      BY <1>2 DEF Waits, address, Accounts, Nobody
    <3> QED BY <3>1 DEF WebInv, AccountsGood
  <2>3. page.phase = Served /\ page.pos = PositionOf(address)
    BY <1>2, <2>1 DEF Agrees, Waits
  <2>4. /\ phase = "Resolved" /\ ~a.redeemed /\ Total(a)
        /\ outcome # "Void" => Winners(a.tok, outcome) > 0
    BY <1>2, <2>2 DEF Waits, Owed, Payout
  <2>5. a.opened
    BY <2>4 DEF GoodAccounts, Held, Total
  <2>6. PICK pos : pos = [phase |-> Served, outcome |-> outcome, tok |-> a.tok, redeemed |-> a.redeemed]
    OBVIOUS
  <2>7. page.pos = pos
    BY <2>2, <2>3, <2>5, <2>6 DEF PositionOf
  <2>8. pos # None
    <3>1. "redeemed" \in DOMAIN pos /\ "redeemed" \notin DOMAIN None
      BY <2>6 DEF None
    <3> QED BY <3>1
  <2>9. Served = "Resolved" /\ page.phase = "Resolved"
    BY <2>3, <2>4 DEF Served
  <2>10. claimable(pos)
    BY <2>4, <2>6, <2>9 DEF claimable, Total, winningTokens
  <2>11. ResolutionPanel
    BY <1>2, <2>4, <2>6, <2>7, <2>8, <2>9, <2>10 DEF ResolutionPanel
  <2> QED BY <2>11 DEF Offered
<1> QED BY <1>1, <1>2 DEF ClaimOffered

\* Whatever is polled, answered late, lost, sent, dropped or claimed, and whichever
\* wallet is connected: the market page says that a claim was made only after one has
\* landed, and until then, where it agrees with the chain, offers the claim to whoever
\* is owed something and still holds tokens.
THEOREM ClaimAlwaysOffered == WebSpec => []ClaimOffered
<1>1. WebInit => WebInv /\ ClaimInv
  BY InitWeb, InitClaims
<1>2. WebInv /\ ClaimInv /\ [WebNext]_webVars => WebInv' /\ ClaimInv'
  BY WebStep, ClaimStep
<1>3. WebInv /\ ClaimInv => ClaimOffered
  BY ClaimShown
<1> QED BY <1>1, <1>2, <1>3, PTL DEF WebSpec
=============================================================================
