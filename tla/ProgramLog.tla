----------------------------- MODULE ProgramLog -----------------------------
(***************************************************************************)
(* The chain as the indexer meets it: the history of the program's         *)
(* transactions, the log lines each of them left, and the Market accounts  *)
(* as they were after it.  Prices are represented by the number of trades  *)
(* they result from (moves).                                               *)
(***************************************************************************)
EXTENDS Integers, Sequences, SequencesExt

CONSTANTS
  Markets,
  Outcomes,
  Transactions,   \* sequences of events that one transaction may emit
  SlotSteps,      \* slots from one transaction to the next
  MaxTx           \* bound on the history

EventKinds == {"created", "activate", "trade", "setMint", "freeze", "resolve", "redeem", "close"}
EmittedEvent == [kind : EventKinds, market : Markets, outcome : Outcomes, amount : Nat]

ASSUME LogConstants ==
  /\ Transactions \subseteq Seq(EmittedEvent)
  /\ SlotSteps \subseteq Nat /\ MaxTx \in Nat

VARIABLE log      \* Seq of [slot, err, events, after]

Self == "amm"     \* AMM_PROGRAM_ID
Inner == "token"  \* a program it calls, which may log data of its own
NoAccount == [state |-> "None", supply |-> 0, moves |-> 0]

\* What the program's instructions ask of a market and leave of it.  A sell is
\* logged as the trade it is, like a buy, and a set's redemption like its minting.
init_market(a) == [when |-> a.state = "None", next |-> [NoAccount EXCEPT !.state = "Open"]]
activate_market(a) == [when |-> a.state = "Open", next |-> [a EXCEPT !.state = "Trading"]]
buy(a, n) == [when |-> a.state = "Trading", next |-> [a EXCEPT !.supply = @ + n, !.moves = @ + 1]]
mint_set(a, n) == [when |-> a.state = "Trading", next |-> [a EXCEPT !.supply = @ + n]]
freeze_market(a) == [when |-> a.state = "Trading", next |-> [a EXCEPT !.state = "Locked"]]
resolve(a) == [when |-> a.state = "Locked", next |-> [a EXCEPT !.state = "Resolved"]]
redeem(a, n) ==
  [when |-> a.state = "Resolved" /\ n <= a.supply, next |-> [a EXCEPT !.supply = @ - n]]
close_market(a) == [when |-> a.state = "Resolved", next |-> NoAccount]

\* The instruction that emits an event.
Instruction(account, ev) ==
  CASE ev.kind = "created"  -> init_market(account)
    [] ev.kind = "activate" -> activate_market(account)
    [] ev.kind = "trade"    -> buy(account, ev.amount)
    [] ev.kind = "setMint"  -> mint_set(account, ev.amount)
    [] ev.kind = "freeze"   -> freeze_market(account)
    [] ev.kind = "resolve"  -> resolve(account)
    [] ev.kind = "redeem"   -> redeem(account, ev.amount)
    [] ev.kind = "close"    -> close_market(account)

Legal(account, ev) == Instruction(account, ev).when
Effect(account, ev) == Instruction(account, ev).next

Accounts(n) == IF n = 0 THEN [m \in Markets |-> NoAccount] ELSE log[n].after
Account(n, m) == Accounts(n)[m]
AfterEvents(accounts, events) ==
  LET after[i \in 0..Len(events)] ==
        IF i = 0 THEN accounts
        ELSE LET acc == after[i - 1]
             IN  [acc EXCEPT ![events[i].market] = Effect(acc[events[i].market], events[i])]
  IN  after[Len(events)]
AllLegal(events) ==
  \A i \in 1..Len(events) :
     Legal(AfterEvents(Accounts(Len(log)), SubSeq(events, 1, i - 1))[events[i].market], events[i])

\* The event with the price its trade leads to.
Priced(events) ==
  [i \in 1..Len(events) |->
     [kind |-> events[i].kind, market |-> events[i].market,
      outcome |-> events[i].outcome, amount |-> events[i].amount,
      moves |-> AfterEvents(Accounts(Len(log)), SubSeq(events, 1, i))[events[i].market].moves]]

\* Every instruction runs in a frame of its own and calls the token program
\* before it emits its event; leverage events are lines nobody decodes.
LineOf(ev, j) ==
  CASE j = 0 -> [is |-> "invoke", program |-> Self]
    [] j = 1 -> [is |-> "invoke", program |-> Inner]
    [] j = 2 -> [is |-> "data", event |-> [kind |-> "foreign"]]
    [] j = 4 -> [is |-> "data", event |-> [kind |-> "leverage"]]
    [] j = 5 -> [is |-> "data", event |-> ev]
    [] OTHER -> [is |-> "exit"]
Lines(events) ==
  [i \in 1..7 * Len(events) |-> LineOf(events[((i - 1) \div 7) + 1], (i - 1) % 7)]

LogInit == log = <<>>

Slot(n) == IF n = 0 THEN 1 ELSE log[n].slot

\* A transaction lands, alone in its slot or with the one before it; one that
\* fails leaves an entry in the history and nothing else.
Submit ==
  /\ Len(log) < MaxTx
  /\ \E events \in Transactions, step \in SlotSteps :
       /\ AllLegal(events)
       /\ \E err \in BOOLEAN :
            log' = Append(log,
              [slot |-> Slot(Len(log)) + step, err |-> err,
               events |-> IF err THEN <<>> ELSE Priced(events),
               after |-> IF err THEN Accounts(Len(log))
                         ELSE AfterEvents(Accounts(Len(log)), events)])
=============================================================================
