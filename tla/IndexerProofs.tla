--------------------------- MODULE IndexerProofs ----------------------------
(***************************************************************************)
(* What the ingest guarantees for any history, any page size, any number   *)
(* of failing calls and crashes, and any interleaving of boot and tick.    *)
(***************************************************************************)
EXTENDS Indexer, SumTheorems, SequenceTheorems, TLAPS

-----------------------------------------------------------------------------
(* The invariant. *)

AccountType == [state : {"None", "Open", "Trading", "Locked", "Resolved"}, supply : Int, moves : Int]
AccountsType == [Markets -> AccountType]
IndexedEvent ==
  [kind : EventKinds, market : Markets, outcome : Outcomes, amount : Nat, moves : Int]
EntryType == [slot : Nat, err : BOOLEAN, events : Seq(IndexedEvent), after : AccountsType]

\* Nothing happens to a market before it was created.
Creates(c, m) == EventAt(c).kind = "created" /\ EventAt(c).market = m
HistoryInv ==
  /\ log \in Seq(EntryType)
  /\ \A i \in 1..Len(log) : log[i].err => log[i].events = <<>>
  /\ \A i \in 1..Len(log), m \in Markets :
       log[i].after[m].state # "None" => \E c \in Positions : c[1] <= i /\ Creates(c, m)
  /\ \A e \in Positions :
       EventAt(e).kind # "created" =>
         \E c \in Positions : Creates(c, EventAt(e).market) /\ Ledger!Before(c, e)

\* What is left of a replay is the history from the cursor on, newest first.
Descending(s) == \A i \in 1..Len(s) : s[i] = s[1] + 1 - i
AtEvent == replay.at \in {"persist", "opening", "write"}
ReplayRecord ==
  replay = [at |-> replay.at, until |-> replay.until, sigs |-> replay.sigs,
            events |-> replay.events, ix |-> replay.ix, held |-> replay.held,
            processed |-> replay.processed]
ReplayInv ==
  /\ ReplayRecord
  /\ cursor \in 0..Len(log)
  /\ replay.at \in {"off", "page", "fetch", "persist", "opening", "write", "advance"}
  /\ replay.sigs \in Seq(1..Len(log)) /\ Descending(replay.sigs)
  /\ At("page") => /\ replay.until = cursor
                   /\ replay.sigs # <<>> => Entry > cursor
  /\ AtEvent \/ At("fetch") \/ At("advance") => replay.sigs # <<>> /\ Entry = cursor + 1
  /\ AtEvent => replay.events = log[Entry].events /\ replay.ix \in 1..Len(replay.events)
  /\ At("opening") => Event.kind = "created"
  /\ At("write") => Event.kind = "trade"

\* Nothing is booked that is not due, nor beyond the transaction at the cursor.
NotBeyond ==
  \A e \in trades \union redemptions :
    /\ e \in Positions /\ e[1] <= cursor + 1
    /\ EventAt(e).kind = IF e \in trades THEN "trade" ELSE "redeem"

\* What the replay has passed is booked.
Passed(e) ==
  \/ e[1] <= cursor
  \/ e[1] = cursor + 1 /\ (At("advance") \/ (AtEvent /\ e[2] < replay.ix))
BookInv ==
  /\ \A e \in Positions : Passed(e) =>
       /\ EventAt(e).kind = "created" => EventAt(e).market \in DOMAIN rows
       /\ e \in Due => e \in trades \union redemptions
  /\ At("opening") => Market \in DOMAIN rows

PointType == [market : Markets, slot : Nat]
VolumeType == [market : Markets, slot : Nat, volume : Nat]
RowShape(r) ==
  /\ r = [state |-> r.state, supply |-> r.supply, prices |-> r.prices, volume |-> r.volume]
  /\ r.volume \in Nat
TablesType ==
  /\ DOMAIN rows \subseteq Markets /\ \A m \in DOMAIN rows : RowShape(rows[m])
  /\ pricePoints \in Seq(PointType) /\ volumePoints \in Seq(VolumeType)

\* The creations of a market whose slot has a price point.
Opened(m) == {c \in CreationsOf(m) : \E i \in DOMAIN pricePoints :
                pricePoints[i] = [market |-> m, slot |-> log[c[1]].slot]}
VolumeSum(m) == SumOver(VolumeAt, PointsOf(volumePoints, m))
TradeSum(m) == SumOver(AmountAt, TradesOf(m))
TradeCount(m) == Cardinality(TradesOf(m))
PointCount(m) == Cardinality(PointsOf(pricePoints, m))
OpenCount(m) == Cardinality(Opened(m))
Untouched(m) == VolumeSum(m) = 0 /\ TradeSum(m) = 0 /\ PointCount(m) = 0 /\ TradeCount(m) = 0
Agrees(m) ==
  /\ rows[m].volume = VolumeSum(m) /\ VolumeSum(m) >= TradeSum(m)
  /\ PointCount(m) >= TradeCount(m) /\ PointCount(m) - TradeCount(m) <= OpenCount(m)
TablesInv ==
  /\ TablesType
  /\ At("opening") \/ At("write") => Market \in DOMAIN rows
  /\ \A m \in Markets : IF m \in DOMAIN rows THEN Agrees(m) ELSE Untouched(m)

-----------------------------------------------------------------------------
(* Recursion over positions: a function defined from its value at the        *)
(* position before exists, and its values stay in the set the step keeps.    *)

Steps(F, n, V) == F \in [1..n -> [V -> V]]
Iterated(g, n, V, a, F) ==
  g \in [0..n -> V] /\ \A i \in 0..n : g[i] = IF i = 0 THEN a ELSE F[i][g[i - 1]]

\* Whatever a finite sequence of functions does to a start value, a function of the
\* step numbers records it: how the folds of the model are unfolded below.
LEMMA Iterates ==
  ASSUME NEW V, NEW a \in V, NEW n \in Nat, NEW F, Steps(F, n, V)
  PROVE  \E g : Iterated(g, n, V, a, F)
<1> DEFINE Value(g, i) == IF i = 0 THEN a ELSE F[i][g[i - 1]]
           Upto(g, m) == \A i \in 0..n : i <= m => g[i] = Value(g, i)
           N == {m \in Nat : \E g \in [0..n -> V] : Upto(g, m)}
<1>1. 0 \in N
  <2> DEFINE g == [i \in 0..n |-> a]
  <2>1. g \in [0..n -> V]
    OBVIOUS
  <2>2. \A i \in 0..n : i <= 0 => g[i] = Value(g, i)
    OBVIOUS
  <2> HIDE DEF g, Value
  <2> QED BY <2>1, <2>2
<1>2. ASSUME NEW m \in Nat, m \in N PROVE m + 1 \in N
  <2>1. PICK g \in [0..n -> V] : Upto(g, m)
    BY <1>2
  <2> DEFINE h == [i \in 0..n |-> IF i = m + 1 THEN F[m + 1][g[m]] ELSE g[i]]
  <2>2. h \in [0..n -> V]
    <3>1. ASSUME m + 1 \in 0..n PROVE F[m + 1][g[m]] \in V
      <4>1. m + 1 \in 1..n /\ m \in 0..n
        BY <3>1
      <4>2. F[m + 1] \in [V -> V] /\ g[m] \in V
        BY <4>1 DEF Steps
      <4> QED BY <4>2
    <3> QED BY <3>1
  <2>3. ASSUME NEW i \in 0..n, i <= m + 1
        PROVE  h[i] = Value(h, i)
    <3>1. CASE i = m + 1
      BY <3>1
    <3>2. CASE i # m + 1
      <4>1. i <= m /\ g[i] = Value(g, i)
        BY <2>1, <2>3, <3>2
      <4>2. i # 0 => h[i - 1] = g[i - 1]
        BY <3>2, <4>1
      <4> QED BY <3>2, <4>1, <4>2
    <3> QED BY <3>1, <3>2
  <2> HIDE DEF h, Value
  <2>4. Upto(h, m + 1)
    BY <2>3
  <2> HIDE DEF Upto
  <2> QED BY <2>2, <2>4
<1>3. n \in N
  <2> HIDE DEF N
  <2> QED BY <1>1, <1>2, NatClosed
<1>4. PICK g \in [0..n -> V] : Upto(g, n)
  BY <1>3
<1>5. \A i \in 0..n : g[i] = Value(g, i)
  <2> HIDE DEF Value
  <2> QED BY <1>4
<1> QED BY <1>5 DEF Iterated

-----------------------------------------------------------------------------
(* Accounts after the events of a transaction. *)

\* An event leaves an account an account.
LEMMA EffectType ==
  ASSUME NEW acc \in AccountType, NEW ev, ev.kind \in EventKinds, ev.amount \in Nat
  PROVE  Effect(acc, ev) \in AccountType
<1>1. NoAccount \in AccountType
  BY DEF NoAccount, AccountType
<1>2. CASE ev.kind \in {"created", "close"}
  BY <1>1, <1>2 DEF Effect, Instruction, init_market, close_market, AccountType
<1>3. CASE ev.kind \in {"activate", "freeze", "resolve"}
  BY <1>3 DEF Effect, Instruction, activate_market, freeze_market, resolve, AccountType
<1>4. CASE ev.kind = "trade"
  <2>1. Effect(acc, ev) = [acc EXCEPT !.supply = @ + ev.amount, !.moves = @ + 1]
    BY <1>4 DEF Effect, Instruction, buy
  <2>2. acc.supply + ev.amount \in Int /\ acc.moves + 1 \in Int
    BY DEF AccountType
  <2>3. Effect(acc, ev)
          = [state |-> acc.state, supply |-> acc.supply + ev.amount, moves |-> acc.moves + 1]
    BY <2>1 DEF AccountType
  <2> QED BY <2>2, <2>3 DEF AccountType
<1>5. CASE ev.kind = "setMint"
  <2>1. Effect(acc, ev) = [acc EXCEPT !.supply = @ + ev.amount]
    BY <1>5 DEF Effect, Instruction, mint_set
  <2> QED BY <2>1 DEF AccountType
<1>6. CASE ev.kind = "redeem"
  <2>1. Effect(acc, ev) = [acc EXCEPT !.supply = @ - ev.amount]
    BY <1>6 DEF Effect, Instruction, redeem
  <2> QED BY <2>1 DEF AccountType
<1> QED BY <1>2, <1>3, <1>4, <1>5, <1>6 DEF EventKinds

\* The accounts after each of the events, as the recursion computes them.
StepOf(acc, ev) == [acc EXCEPT ![ev.market] = Effect(acc[ev.market], ev)]
Runs(g, accounts, events) ==
  \A i \in 0..Len(events) : g[i] = IF i = 0 THEN accounts ELSE StepOf(g[i - 1], events[i])

\* An event leaves the accounts of all markets accounts.
LEMMA StepType ==
  ASSUME NEW acc \in AccountsType, NEW ev \in EmittedEvent
  PROVE  StepOf(acc, ev) \in AccountsType
<1>1. acc[ev.market] \in AccountType /\ ev.kind \in EventKinds /\ ev.amount \in Nat
  BY DEF AccountsType, EmittedEvent
<1>2. Effect(acc[ev.market], ev) \in AccountType
  BY <1>1, EffectType
<1> QED BY <1>2 DEF StepOf, AccountsType

\* The accounts after a transaction are reached event by event.
LEMMA AfterRuns ==
  ASSUME NEW accounts \in AccountsType, NEW events \in Seq(EmittedEvent)
  PROVE  \E g \in [0..Len(events) -> AccountsType] :
           Runs(g, accounts, events) /\ AfterEvents(accounts, events) = g[Len(events)]
<1> DEFINE n == Len(events)
           F == [i \in 1..n |-> [acc \in AccountsType |-> StepOf(acc, events[i])]]
           after == CHOOSE g : g = [i \in 0..n |-> IF i = 0 THEN accounts
                                                   ELSE StepOf(g[i - 1], events[i])]
<1>1. AfterEvents(accounts, events) = after[n]
  BY DEF AfterEvents, StepOf
<1>2. F \in [1..n -> [AccountsType -> AccountsType]]
  BY StepType
<1>3. PICK g : Iterated(g, n, AccountsType, accounts, F)
  <2>1. n \in Nat /\ Steps(F, n, AccountsType)
    BY <1>2 DEF Steps
  <2> HIDE DEF F, n
  <2> QED BY <1>2, <2>1, Iterates
<1>4. ASSUME NEW i \in 0..n
      PROVE  g[i] = IF i = 0 THEN accounts ELSE StepOf(g[i - 1], events[i])
  <2>1. i # 0 => F[i][g[i - 1]] = StepOf(g[i - 1], events[i])
    BY <1>3 DEF Iterated
  <2> HIDE DEF F
  <2> QED BY <1>3, <2>1 DEF Iterated
<1>5. g = [i \in 0..n |-> IF i = 0 THEN accounts ELSE StepOf(g[i - 1], events[i])]
  <2>1. g = [i \in 0..n |-> g[i]]
    BY <1>3 DEF Iterated
  <2> DEFINE Value(i) == IF i = 0 THEN accounts ELSE StepOf(g[i - 1], events[i])
  <2>2. \A i \in 0..n : g[i] = Value(i)
    BY <1>4
  <2>3. [i \in 0..n |-> g[i]] = [i \in 0..n |-> Value(i)]
    <3> HIDE DEF Value
    <3> QED BY <2>2
  <2> QED BY <2>1, <2>3
<1>6. after = [i \in 0..n |-> IF i = 0 THEN accounts ELSE StepOf(after[i - 1], events[i])]
  BY <1>5
<1>7. Runs(after, accounts, events)
  <2> HIDE DEF after
  <2> QED BY <1>6 DEF Runs
<1>8. after \in [0..n -> AccountsType]
  <2> HIDE DEF after
  <2> DEFINE N == {m \in Nat : m <= n => after[m] \in AccountsType}
  <2>1. 0 \in N
    BY <1>6
  <2>2. ASSUME NEW m \in Nat, m \in N PROVE m + 1 \in N
    <3>1. ASSUME m + 1 <= n PROVE after[m + 1] \in AccountsType
      <4>1. after[m + 1] = StepOf(after[m], events[m + 1])
        BY <1>6, <3>1
      <4>2. events[m + 1] \in EmittedEvent /\ after[m] \in AccountsType
        BY <2>2, <3>1
      <4> QED BY <4>1, <4>2, StepType
    <3> QED BY <3>1
  <2>3. Nat \subseteq N
    <3> HIDE DEF N
    <3> QED BY <2>1, <2>2, NatClosed
  <2> QED BY <1>6, <2>3
<1> HIDE DEF after
<1> QED BY <1>1, <1>7, <1>8

\* One event at a time.
LEMMA AfterEach ==
  ASSUME NEW accounts \in AccountsType, NEW events \in Seq(EmittedEvent)
  PROVE  /\ AfterEvents(accounts, <<>>) = accounts
         /\ AfterEvents(accounts, events) \in AccountsType
         /\ \A ev \in EmittedEvent :
              AfterEvents(accounts, Append(events, ev))
                = StepOf(AfterEvents(accounts, events), ev)
<1> DEFINE n == Len(events)
<1>1. PICK g \in [0..n -> AccountsType] :
        Runs(g, accounts, events) /\ AfterEvents(accounts, events) = g[n]
  BY AfterRuns
<1>2. AfterEvents(accounts, <<>>) = accounts
  <2>1. <<>> \in Seq(EmittedEvent) /\ Len(<<>>) = 0
    OBVIOUS
  <2>2. PICK h \in [0..Len(<<>>) -> AccountsType] :
          Runs(h, accounts, <<>>) /\ AfterEvents(accounts, <<>>) = h[Len(<<>>)]
    BY <2>1, AfterRuns
  <2> QED BY <2>1, <2>2 DEF Runs
<1>3. ASSUME NEW ev \in EmittedEvent
      PROVE  AfterEvents(accounts, Append(events, ev))
               = StepOf(AfterEvents(accounts, events), ev)
  <2> DEFINE longer == Append(events, ev)
  <2>1. /\ longer \in Seq(EmittedEvent) /\ Len(longer) = n + 1 /\ n \in Nat
        /\ longer[n + 1] = ev /\ \A i \in 1..n : longer[i] = events[i]
    OBVIOUS
  <2> HIDE DEF longer
  <2>2. PICK h \in [0..Len(longer) -> AccountsType] :
          Runs(h, accounts, longer) /\ AfterEvents(accounts, longer) = h[Len(longer)]
    BY <2>1, AfterRuns
  <2> DEFINE N == {m \in Nat : m <= n => h[m] = g[m]}
  <2>3. 0 \in N
    BY <1>1, <2>1, <2>2 DEF Runs
  <2>4. ASSUME NEW m \in Nat, m \in N PROVE m + 1 \in N
    <3>1. ASSUME m + 1 <= n PROVE h[m + 1] = g[m + 1]
      <4>1. h[m + 1] = StepOf(h[m], longer[m + 1])
        BY <2>1, <2>2, <3>1 DEF Runs
      <4>2. g[m + 1] = StepOf(g[m], events[m + 1])
        BY <1>1, <2>1, <3>1 DEF Runs
      <4>3. h[m] = g[m] /\ longer[m + 1] = events[m + 1]
        BY <2>1, <2>4, <3>1
      <4> QED BY <4>1, <4>2, <4>3
    <3> QED BY <3>1
  <2>5. n \in N
    <3> HIDE DEF N
    <3> QED BY <2>1, <2>3, <2>4, NatClosed
  <2>6. h[n + 1] = StepOf(h[n], longer[n + 1])
    BY <2>1, <2>2 DEF Runs
  <2> QED BY <1>1, <2>1, <2>2, <2>5, <2>6 DEF longer
<1> QED BY <1>1, <1>2, <1>3

-----------------------------------------------------------------------------
(* The history. *)

\* A market that has an account after some events had one before them or was
\* created by one of them.
LEMMA AccountsAreCreated ==
  ASSUME NEW A \in AccountsType, NEW events \in Seq(EmittedEvent),
         \A i \in 1..Len(events) :
           Legal(AfterEvents(A, SubSeq(events, 1, i - 1))[events[i].market], events[i])
  PROVE  \A k \in 0..Len(events), m \in Markets :
           AfterEvents(A, SubSeq(events, 1, k))[m].state # "None" =>
             \/ A[m].state # "None"
             \/ \E j \in 1..k : events[j].kind = "created" /\ events[j].market = m
<1> DEFINE n == Len(events)
           Acc(k) == AfterEvents(A, SubSeq(events, 1, k))
           Born(k, m) == \/ A[m].state # "None"
                         \/ \E j \in 1..k : events[j].kind = "created" /\ events[j].market = m
           N == {k \in Nat : k <= n => \A m \in Markets : Acc(k)[m].state # "None" => Born(k, m)}
<1>1. 0 \in N
  <2>1. SubSeq(events, 1, 0) = <<>>
    OBVIOUS
  <2>2. Acc(0) = A
    BY <2>1, AfterEach
  <2> HIDE DEF Acc
  <2> QED BY <2>2
<1>2. ASSUME NEW k \in Nat, k \in N PROVE k + 1 \in N
  <2> SUFFICES ASSUME k + 1 <= n, NEW m \in Markets, Acc(k + 1)[m].state # "None"
               PROVE  Born(k + 1, m)
    OBVIOUS
  <2> DEFINE ev == events[k + 1]
             prefix == SubSeq(events, 1, k)
  <2>1. ev \in EmittedEvent /\ prefix \in Seq(EmittedEvent)
        /\ SubSeq(events, 1, k + 1) = Append(prefix, ev)
    OBVIOUS
  <2>2. Acc(k) \in AccountsType /\ Acc(k + 1) = StepOf(Acc(k), ev)
    <3> HIDE DEF prefix, ev
    <3>1. /\ AfterEvents(A, prefix) \in AccountsType
          /\ AfterEvents(A, Append(prefix, ev)) = StepOf(AfterEvents(A, prefix), ev)
      BY <2>1, AfterEach
    <3> QED BY <2>1, <3>1 DEF prefix
  <2>3. Legal(Acc(k)[ev.market], ev)
    <3>1. k + 1 \in 1..Len(events) /\ (k + 1) - 1 = k
      OBVIOUS
    <3> QED BY <3>1
  <2>4. ev.market \in Markets /\ ev.kind \in EventKinds
    BY <2>1 DEF EmittedEvent
  <2> HIDE DEF Acc
  <2>5. ev.kind # "created" => Acc(k)[ev.market].state # "None"
    BY <2>3, <2>4 DEF Legal, Instruction, activate_market, buy, mint_set, freeze_market,
       resolve, redeem, close_market, EventKinds
  <2>6. CASE m # ev.market
    <3>1. Acc(k + 1)[m] = Acc(k)[m]
      BY <2>2, <2>4, <2>6 DEF StepOf, AccountsType
    <3>2. Born(k, m)
      BY <1>2, <3>1
    <3> QED BY <3>2
  <2>7. CASE m = ev.market
    <3>1. CASE ev.kind = "created"
      <4>1. k + 1 \in 1..(k + 1)
        OBVIOUS
      <4> QED BY <2>7, <3>1, <4>1
    <3>2. CASE ev.kind # "created"
      <4>1. Born(k, m)
        BY <1>2, <2>5, <2>7, <3>2
      <4> QED BY <4>1
    <3> QED BY <3>1, <3>2
  <2> QED BY <2>6, <2>7
<1>3. Nat \subseteq N
  <2> HIDE DEF N
  <2> QED BY <1>1, <1>2, NatClosed
<1> QED BY <1>3

\* An event of a market that no event before it in the transaction created is about a
\* market that existed before the transaction.
LEMMA EventsNeedAccounts ==
  ASSUME NEW A \in AccountsType, NEW events \in Seq(EmittedEvent),
         \A i \in 1..Len(events) :
           Legal(AfterEvents(A, SubSeq(events, 1, i - 1))[events[i].market], events[i])
  PROVE  \A k \in 1..Len(events) : events[k].kind # "created" =>
           \/ A[events[k].market].state # "None"
           \/ \E j \in 1..(k - 1) : /\ events[j].kind = "created"
                                     /\ events[j].market = events[k].market
<1> TAKE k \in 1..Len(events)
<1> HAVE events[k].kind # "created"
<1> DEFINE m == events[k].market
<1>1. m \in Markets /\ events[k].kind \in EventKinds
  <2>1. events[k] \in EmittedEvent
    OBVIOUS
  <2> QED BY <2>1 DEF EmittedEvent
<1>2. AfterEvents(A, SubSeq(events, 1, k - 1))[m].state # "None"
  <2>1. Legal(AfterEvents(A, SubSeq(events, 1, k - 1))[m], events[k])
    OBVIOUS
  <2> QED BY <1>1, <2>1 DEF Legal, Instruction, activate_market, buy, mint_set, freeze_market,
       resolve, redeem, close_market, EventKinds
<1>3. k - 1 \in 0..Len(events)
  OBVIOUS
<1> HIDE DEF m
<1>4. AfterEvents(A, SubSeq(events, 1, k - 1))[m].state # "None" =>
        \/ A[m].state # "None"
        \/ \E j \in 1..(k - 1) : events[j].kind = "created" /\ events[j].market = m
  BY <1>1, <1>3, AccountsAreCreated
<1> QED BY <1>2, <1>4 DEF m

\* What the program logs of a transaction are its events, in their order.
LEMMA PricedEvents ==
  ASSUME NEW events \in Seq(EmittedEvent), Accounts(Len(log)) \in AccountsType
  PROVE  /\ Priced(events) \in Seq(IndexedEvent) /\ Len(Priced(events)) = Len(events)
         /\ \A k \in 1..Len(events) : /\ Priced(events)[k].kind = events[k].kind
                                      /\ Priced(events)[k].market = events[k].market
<1>1. ASSUME NEW k \in 1..Len(events)
      PROVE  Priced(events)[k] \in IndexedEvent
  <2> DEFINE acc == AfterEvents(Accounts(Len(log)), SubSeq(events, 1, k))
  <2>1. SubSeq(events, 1, k) \in Seq(EmittedEvent) /\ events[k] \in EmittedEvent
    OBVIOUS
  <2>2. acc \in AccountsType
    BY <2>1, AfterEach
  <2> HIDE DEF acc
  <2>3. acc[events[k].market].moves \in Int
    BY <2>1, <2>2 DEF EmittedEvent, AccountsType, AccountType
  <2> QED BY <2>1, <2>3 DEF Priced, acc, IndexedEvent, EmittedEvent
<1>2. DOMAIN Priced(events) = 1..Len(events)
  BY DEF Priced
<1>3. Priced(events) = [k \in 1..Len(events) |-> Priced(events)[k]]
  BY DEF Priced
<1>4. Priced(events) \in [1..Len(events) -> IndexedEvent]
  <2> DEFINE p == Priced(events)
  <2> HIDE DEF p
  <2>1. p = [k \in 1..Len(events) |-> p[k]] /\ \A k \in 1..Len(events) : p[k] \in IndexedEvent
    BY <1>1, <1>3 DEF p
  <2> QED BY <2>1 DEF p
<1>5. Priced(events) \in Seq(IndexedEvent) /\ Len(Priced(events)) = Len(events)
  <2> DEFINE p == Priced(events)
  <2> HIDE DEF p
  <2>1. p \in [1..Len(events) -> IndexedEvent] /\ Len(events) \in Nat
    BY <1>4 DEF p
  <2> QED BY <2>1 DEF p
<1> QED BY <1>5 DEF Priced

\* Positions are pairs of a transaction and an index in it.
LEMMA PositionIs ==
  ASSUME NEW e
  PROVE  e \in Positions <=>
           \E i \in 1..Len(log) : \E k \in 1..Len(log[i].events) : e = <<i, k>>
BY DEF Positions

\* A position names an entry and an event of it.
LEMMA EventTypes ==
  ASSUME log \in Seq(EntryType), NEW e \in Positions
  PROVE  /\ e[1] \in 1..Len(log) /\ e[2] \in 1..Len(log[e[1]].events) /\ e = <<e[1], e[2]>>
         /\ log[e[1]] \in EntryType /\ EventAt(e) \in IndexedEvent
<1>1. PICK i \in 1..Len(log), k \in Int : k \in 1..Len(log[i].events) /\ e = <<i, k>>
  BY PositionIs
<1>2. log[i] \in EntryType
  OBVIOUS
<1>3. log[i].events \in Seq(IndexedEvent)
  BY <1>2 DEF EntryType
<1>4. log[i].events[k] \in IndexedEvent
  BY <1>1, <1>3
<1> QED BY <1>1, <1>2, <1>4 DEF EventAt

\* The history only gets longer.
Grows ==
  /\ Len(log) \in Nat /\ Len(log') \in Nat /\ Len(log) <= Len(log')
  /\ \A i \in 1..Len(log) : log'[i] = log[i]

\* When the log grows, no event that was there moves or changes.
LEMMA OldStays ==
  ASSUME Grows
  PROVE  /\ \A e \in Positions : e \in Positions' /\ EventAt(e)' = EventAt(e)
         /\ \A e \in Positions' : e \in Positions \/ e[1] > Len(log)
<1>1. ASSUME NEW e \in Positions PROVE e \in Positions' /\ EventAt(e)' = EventAt(e)
  <2>1. PICK i \in 1..Len(log), k \in Int : k \in 1..Len(log[i].events) /\ e = <<i, k>>
    BY PositionIs
  <2>2. i \in 1..Len(log') /\ log'[i] = log[i]
    BY DEF Grows
  <2> QED BY <2>1, <2>2 DEF Positions, EventAt
<1>2. ASSUME NEW e \in Positions' PROVE e \in Positions \/ e[1] > Len(log)
  <2>1. PICK i \in 1..Len(log'), k \in Int : k \in 1..Len(log'[i].events) /\ e = <<i, k>>
    BY DEF Positions
  <2>2. CASE i \in 1..Len(log)
    <3>1. log'[i] = log[i]
      BY <2>2 DEF Grows
    <3> QED BY <2>1, <2>2, <3>1, PositionIs
  <2>3. CASE i \notin 1..Len(log)
    BY <2>1, <2>3 DEF Grows
  <2> QED BY <2>2, <2>3
<1> QED BY <1>1, <1>2

\* A transaction that lands: the accounts after it are those its events lead
\* to, and each of its events is about a market created before.
LEMMA SubmitKeeps ==
  ASSUME HistoryInv, Submit
  PROVE  Grows /\ HistoryInv'
<1>1. PICK events \in Transactions, step \in SlotSteps, err \in BOOLEAN :
        /\ AllLegal(events)
        /\ log' = Append(log,
              [slot |-> Slot(Len(log)) + step, err |-> err,
               events |-> IF err THEN <<>> ELSE Priced(events),
               after |-> IF err THEN Accounts(Len(log))
                         ELSE AfterEvents(Accounts(Len(log)), events)])
  BY DEF Submit
<1>2. log \in Seq(EntryType)
  BY DEF HistoryInv
<1>0. PICK n \in Nat : n = Len(log)
  BY <1>2
<1> DEFINE A == Accounts(n)
           new == [slot |-> Slot(n) + step, err |-> err,
                   events |-> IF err THEN <<>> ELSE Priced(events),
                   after |-> IF err THEN A ELSE AfterEvents(A, events)]
<1>3. events \in Seq(EmittedEvent) /\ step \in Nat
  BY LogConstants
<1>4. A \in AccountsType /\ Slot(n) \in Nat
  <2>1. CASE n = 0
    BY <2>1 DEF Accounts, Slot, NoAccount, AccountsType, AccountType
  <2>2. CASE n # 0
    <3>1. log[n] \in EntryType
      BY <1>0, <1>2, <2>2
    <3> QED BY <2>2, <3>1 DEF Accounts, Slot, EntryType
  <2> QED BY <2>1, <2>2
<1>5. /\ Priced(events) \in Seq(IndexedEvent) /\ Len(Priced(events)) = Len(events)
      /\ \A k \in 1..Len(events) : /\ Priced(events)[k].kind = events[k].kind
                                   /\ Priced(events)[k].market = events[k].market
  BY <1>0, <1>3, <1>4, PricedEvents
<1>6. new \in EntryType
  <2>1. AfterEvents(A, events) \in AccountsType
    BY <1>3, <1>4, AfterEach
  <2>2. Slot(n) + step \in Nat /\ <<>> \in Seq(IndexedEvent)
    BY <1>3, <1>4
  <2> HIDE DEF A
  <2> QED BY <1>4, <1>5, <2>1, <2>2 DEF EntryType
<1>7. log' = Append(log, new)
  BY <1>0, <1>1
<1> HIDE DEF new
<1>8. /\ log' \in Seq(EntryType) /\ Len(log') = n + 1 /\ log'[n + 1] = new
      /\ \A i \in 1..n : log'[i] = log[i]
  BY <1>0, <1>2, <1>6, <1>7
<1>9. Grows
  BY <1>0, <1>2, <1>8 DEF Grows
<1>10. \A i \in 1..Len(log') : log'[i].err => log'[i].events = <<>>
  <2>1. new.err => new.events = <<>>
    BY DEF new
  <2>2. \A i \in 1..n : log[i].err => log[i].events = <<>>
    BY <1>0 DEF HistoryInv
  <2> QED BY <1>0, <1>2, <1>8, <2>1, <2>2
<1>11. \A c \in Positions : c \in Positions' /\ EventAt(c)' = EventAt(c) /\ c[1] <= n
  BY <1>0, <1>2, <1>9, OldStays, EventTypes
<1>12. \A m \in Markets : A[m].state # "None" => \E c \in Positions : c[1] <= n /\ Creates(c, m)
  <2>1. CASE n = 0
    BY <2>1 DEF Accounts, NoAccount
  <2>2. CASE n # 0
    BY <1>0, <1>2, <2>2 DEF HistoryInv, Accounts
  <2> QED BY <2>1, <2>2
<1>13. \A i \in 1..Len(events) :
         Legal(AfterEvents(A, SubSeq(events, 1, i - 1))[events[i].market], events[i])
  BY <1>0, <1>1 DEF AllLegal
\* The new positions.
<1>14. \A k : ~err /\ k \in 1..Len(events) =>
         /\ <<n + 1, k>> \in Positions'
         /\ EventAt(<<n + 1, k>>)'.kind = events[k].kind
         /\ EventAt(<<n + 1, k>>)'.market = events[k].market
  <2> SUFFICES ASSUME ~err, NEW k \in 1..Len(events)
               PROVE  /\ <<n + 1, k>> \in Positions'
                      /\ EventAt(<<n + 1, k>>)'.kind = events[k].kind
                      /\ EventAt(<<n + 1, k>>)'.market = events[k].market
    OBVIOUS
  <2>1. log'[n + 1].events = Priced(events) /\ n + 1 \in 1..Len(log')
    BY <1>0, <1>2, <1>8 DEF new
  <2>2. k \in 1..Len(log'[n + 1].events)
    BY <1>5, <2>1
  <2> DEFINE e == <<n + 1, k>>
  <2>3. e \in {n + 1} \X (1..Len(log'[n + 1].events)) /\ e[1] = n + 1 /\ e[2] = k
    BY <2>2
  <2> HIDE DEF e
  <2>4. e \in Positions'
    BY <2>1, <2>3 DEF Positions
  <2>5. EventAt(e)' = Priced(events)[k]
    BY <2>1, <2>3 DEF EventAt
  <2> QED BY <1>5, <2>4, <2>5 DEF e
<1>15. \A e \in Positions' : e \in Positions
          \/ (~err /\ \E k \in 1..Len(events) : e = <<n + 1, k>>)
  <2> SUFFICES ASSUME NEW e \in Positions', e \notin Positions
               PROVE  ~err /\ \E k \in 1..Len(events) : e = <<n + 1, k>>
    OBVIOUS
  <2>1. e[1] > n
    BY <1>0, <1>9, OldStays
  <2>2. PICK i \in 1..Len(log'), k \in Int : k \in 1..Len(log'[i].events) /\ e = <<i, k>>
    BY DEF Positions
  <2>3. i = n + 1
    BY <1>0, <1>2, <1>8, <2>1, <2>2
  <2>4. log'[i].events = IF err THEN <<>> ELSE Priced(events)
    BY <1>8, <2>3 DEF new
  <2>5. ~err /\ k \in 1..Len(events)
    BY <1>5, <2>2, <2>4
  <2> QED BY <2>2, <2>3, <2>5
<1> DEFINE Made(c, m) == EventAt(c)'.kind = "created" /\ EventAt(c)'.market = m
<1>16. ASSUME NEW m \in Markets, A[m].state # "None"
       PROVE  \E c \in Positions' : c[1] \in Nat /\ c[1] <= n /\ Made(c, m)
  BY <1>0, <1>2, <1>11, <1>12, <1>16, EventTypes DEF Creates
<1>17. ASSUME NEW i \in 1..Len(log'), NEW m \in Markets, log'[i].after[m].state # "None"
       PROVE  \E c \in Positions' : c[1] <= i /\ Made(c, m)
  <2>1. CASE i \in 1..n
    <3>1. \E c \in Positions : c[1] <= i /\ Creates(c, m)
      BY <1>0, <1>8, <1>17, <2>1 DEF HistoryInv
    <3> QED BY <1>11, <3>1 DEF Creates
  <2>2. CASE i = n + 1
    <3>1. CASE A[m].state # "None"
      <4>1. PICK c \in Positions' : c[1] \in Nat /\ c[1] <= n /\ Made(c, m)
        BY <1>16, <3>1
      <4>2. c[1] <= i
        <5> QED BY <1>0, <1>2, <2>2, <4>1
      <4> QED BY <4>1, <4>2
    <3>2. CASE A[m].state = "None"
      <4>1. ~err /\ AfterEvents(A, events)[m].state # "None"
        BY <1>8, <1>17, <2>2, <3>2 DEF new
      <4>2. SubSeq(events, 1, Len(events)) = events /\ Len(events) \in 0..Len(events)
        BY <1>3
      <4>3. PICK j \in 1..Len(events) : events[j].kind = "created" /\ events[j].market = m
        <5>1. AfterEvents(A, SubSeq(events, 1, Len(events)))[m].state # "None" =>
                \/ A[m].state # "None"
                \/ \E j \in 1..Len(events) : events[j].kind = "created" /\ events[j].market = m
          <6> HIDE DEF A
          <6> QED BY <1>3, <1>4, <1>13, <4>2, AccountsAreCreated
        <5> QED BY <3>2, <4>1, <4>2, <5>1
      <4>4. <<n + 1, j>> \in Positions' /\ Made(<<n + 1, j>>, m)
        BY <1>14, <4>1, <4>3
      <4>5. <<n + 1, j>>[1] <= i
        BY <1>0, <1>2, <2>2
      <4> HIDE DEF Made
      <4> QED BY <4>4, <4>5
    <3> QED BY <3>1, <3>2
  <2> QED BY <1>0, <1>2, <1>8, <2>1, <2>2
<1>18. ASSUME NEW e \in Positions', EventAt(e)'.kind # "created"
       PROVE  \E c \in Positions' : Made(c, EventAt(e)'.market) /\ Ledger!Before(c, e)
  <2>1. CASE e \in Positions
    <3>1. PICK c \in Positions : Creates(c, EventAt(e).market) /\ Ledger!Before(c, e)
      BY <1>11, <1>18, <2>1 DEF HistoryInv
    <3> QED BY <1>11, <2>1, <3>1 DEF Creates
  <2>2. CASE e \notin Positions
    <3>1. PICK k \in 1..Len(events) : ~err /\ e = <<n + 1, k>>
      BY <1>15, <2>2
    <3> DEFINE m == events[k].market
    <3>2. EventAt(e)'.kind = events[k].kind /\ EventAt(e)'.market = m
      BY <1>14, <3>1 DEF EventAt
    <3>3. m \in Markets /\ k \in Nat
      <4>1. events[k] \in EmittedEvent
        BY <1>3
      <4> QED BY <4>1 DEF EmittedEvent
    <3>4. A[m].state # "None" \/ \E j \in 1..(k - 1) : events[j].kind = "created" /\ events[j].market = m
      <4> HIDE DEF A
      <4> QED BY <1>3, <1>4, <1>13, <1>18, <3>2, EventsNeedAccounts
    <3> HIDE DEF m
    <3>5. CASE A[m].state # "None"
      <4>1. PICK c \in Positions : c[1] <= n /\ Creates(c, m)
        BY <1>12, <3>3, <3>5
      <4>2. c \in Positions' /\ Made(c, m)
        BY <1>11, <4>1 DEF Creates
      <4>3. Ledger!Before(c, e)
        <5>1. c[1] \in Int
          BY <1>0, <1>2, EventTypes
        <5> QED BY <1>0, <1>2, <3>1, <4>1, <5>1 DEF Ledger!Before
      <4> QED BY <3>2, <4>2, <4>3
    <3>6. CASE \E j \in 1..(k - 1) : events[j].kind = "created" /\ events[j].market = m
      <4>1. PICK j \in 1..(k - 1) : events[j].kind = "created" /\ events[j].market = m
        BY <3>6
      <4>2. j \in 1..Len(events) /\ j < k
        BY <3>3
      <4>3. <<n + 1, j>> \in Positions' /\ Made(<<n + 1, j>>, m)
        BY <1>14, <3>1, <4>1, <4>2
      <4>4. Ledger!Before(<<n + 1, j>>, e)
        BY <3>1, <4>2 DEF Ledger!Before
      <4> HIDE DEF Made
      <4> QED BY <3>2, <4>3, <4>4
    <3> QED BY <3>4, <3>5, <3>6
  <2> QED BY <2>1, <2>2
<1> HIDE DEF A
<1> QED BY <1>8, <1>9, <1>10, <1>17, <1>18 DEF HistoryInv, Creates

-----------------------------------------------------------------------------
(* Decoding the lines of a transaction gives back its events. *)

\* The lines of a transaction are seven for each event, and which is which.
LEMMA LineAt ==
  ASSUME NEW events \in Seq(IndexedEvent)
  PROVE  /\ Lines(events) \in Seq({Lines(events)[i] : i \in 1..7 * Len(events)})
         /\ Len(Lines(events)) = 7 * Len(events)
         /\ \A k \in 0..(Len(events) - 1), j \in 0..6 :
              /\ 7 * k + j + 1 \in 1..7 * Len(events)
              /\ Lines(events)[7 * k + j + 1] = LineOf(events[k + 1], j)
         /\ \A i \in 1..7 * Len(events) :
              \E k \in 0..(Len(events) - 1), j \in 0..6 : i = 7 * k + j + 1
<1> DEFINE n == Len(events)
<1>1. n \in Nat
  OBVIOUS
<1>2. ASSUME NEW k \in 0..(n - 1), NEW j \in 0..6
      PROVE  7 * k + j + 1 \in 1..7 * n /\ Lines(events)[7 * k + j + 1] = LineOf(events[k + 1], j)
  <2> HIDE DEF n
  <2>1. 7 * k + j + 1 \in 1..7 * n
    BY <1>1
  <2>2. ((7 * k + j + 1) - 1) \div 7 = k /\ ((7 * k + j + 1) - 1) % 7 = j
    BY <1>1
  <2> QED BY <2>1, <2>2 DEF Lines, n
<1>3. ASSUME NEW i \in 1..7 * n
      PROVE  \E k \in 0..(n - 1), j \in 0..6 : i = 7 * k + j + 1
  <2> HIDE DEF n
  <2> DEFINE k == (i - 1) \div 7
             j == (i - 1) % 7
  <2>1. k \in 0..(n - 1) /\ j \in 0..6 /\ i = 7 * k + j + 1
    BY <1>1
  <2> QED BY <2>1
<1>4. Lines(events) \in Seq({Lines(events)[i] : i \in 1..7 * n}) /\ Len(Lines(events)) = 7 * n
  <2> DEFINE L == Lines(events)
  <2>1. L = [i \in 1..7 * n |-> L[i]]
    BY DEF Lines
  <2> HIDE DEF L, n
  <2>2. L \in [1..7 * n -> {L[i] : i \in 1..7 * n}]
    BY <2>1
  <2>3. 7 * n \in Nat
    BY <1>1
  <2>4. L \in Seq({L[i] : i \in 1..7 * n}) /\ Len(L) = 7 * n
    BY <2>2, <2>3
  <2> QED BY <2>4 DEF L
<1> QED BY <1>2, <1>3, <1>4

\* What the stack of frames does at a line.
Framed(frames, line) ==
  CASE line.is = "invoke" -> Append(frames, line.program)
    [] line.is = "exit" -> Front(frames)
    [] OTHER -> frames

\* The stack of frames the decoder keeps is what it was before the line, changed by the line.
LEMMA FramesRun ==
  ASSUME NEW events \in Seq(IndexedEvent)
  PROVE  \A i \in 0..7 * Len(events) :
           Frames(Lines(events))[i] = IF i = 0 THEN <<>>
                                      ELSE Framed(Frames(Lines(events))[i - 1], Lines(events)[i])
<1> DEFINE L == Lines(events)
           V == Seq({Self, Inner})
<1>1. PICK n \in Nat : n = 7 * Len(events)
  OBVIOUS
<1>2. Len(L) = n /\ \A i \in 1..n : \E ev : \E j \in 0..6 : L[i] = LineOf(ev, j)
  <2> SUFFICES ASSUME NEW i \in 1..n PROVE \E ev : \E j \in 0..6 : L[i] = LineOf(ev, j)
    BY <1>1, LineAt
  <2>1. PICK k \in 0..(Len(events) - 1), j \in 0..6 : i = 7 * k + j + 1
    BY <1>1, LineAt
  <2>2. L[i] = LineOf(events[k + 1], j)
    BY <2>1, LineAt
  <2> QED BY <2>2
<1> HIDE DEF L
<1> DEFINE F == [i \in 1..n |-> [s \in V |-> Framed(s, L[i])]]
           stack == CHOOSE g : g = [i \in 0..n |-> IF i = 0 THEN <<>> ELSE Framed(g[i - 1], L[i])]
<1>3. Frames(L) = stack
  BY <1>2 DEF Frames, Framed
<1>4. ASSUME NEW i \in 1..n, NEW s \in V PROVE Framed(s, L[i]) \in V
  <2>1. PICK ev, j : j \in 0..6 /\ L[i] = LineOf(ev, j)
    BY <1>2
  <2>2. CASE j \in {0, 1}
    BY <2>1, <2>2 DEF LineOf, Framed
  <2>3. CASE j \in {3, 6}
    <3>1. Framed(s, L[i]) = Front(s)
      BY <2>1, <2>3 DEF LineOf, Framed
    <3>2. SubSeq(s, 1, Len(s) - 1) \in V
      OBVIOUS
    <3> QED BY <3>1, <3>2 DEF Front
  <2>4. CASE j \in {2, 4, 5}
    BY <2>1, <2>4 DEF LineOf, Framed
  <2> QED BY <2>1, <2>2, <2>3, <2>4
<1>5. PICK g : Iterated(g, n, V, <<>>, F)
  <2>1. <<>> \in V
    OBVIOUS
  <2>2. Steps(F, n, V)
    <3> HIDE DEF V
    <3>1. \A i \in 1..n : F[i] \in [V -> V]
      BY <1>4
    <3> QED BY <3>1 DEF Steps
  <2> HIDE DEF F, V
  <2> QED BY <2>1, <2>2, Iterates
<1> DEFINE Value(i) == IF i = 0 THEN <<>> ELSE Framed(g[i - 1], L[i])
<1>6. \A i \in 0..n : g[i] = Value(i)
  <2> SUFFICES ASSUME NEW i \in 0..n PROVE g[i] = Value(i)
    OBVIOUS
  <2>1. i # 0 => F[i][g[i - 1]] = Framed(g[i - 1], L[i])
    BY <1>5 DEF Iterated
  <2> HIDE DEF F
  <2> QED BY <1>5, <2>1 DEF Iterated
<1>7. g = [i \in 0..n |-> Value(i)]
  <2>1. g = [i \in 0..n |-> g[i]]
    BY <1>5 DEF Iterated
  <2> HIDE DEF Value
  <2>2. [i \in 0..n |-> g[i]] = [i \in 0..n |-> Value(i)]
    BY <1>6
  <2> QED BY <2>1, <2>2
<1>8. stack = [i \in 0..n |-> IF i = 0 THEN <<>> ELSE Framed(stack[i - 1], L[i])]
  BY <1>7
<1> HIDE DEF stack
<1> QED BY <1>1, <1>3, <1>8 DEF L

\* The stacks of one and two frames, as sequences.
LEMMA ShortSequences ==
  /\ Append(<<>>, Self) = <<Self>> /\ Append(<<Self>>, Inner) = <<Self, Inner>>
  /\ SubSeq(<<Self>>, 1, 0) = <<>> /\ SubSeq(<<Self, Inner>>, 1, 1) = <<Self>>
<1> DEFINE s == <<Self, Inner>>
           one == SubSeq(s, 1, 1)
           two == Append(<<Self>>, Inner)
<1>1. s \in Seq({Self, Inner}) /\ Len(s) = 2 /\ s[1] = Self /\ s[2] = Inner /\ <<Self>> \in Seq({Self, Inner})
      /\ Len(<<Self>>) = 1 /\ <<Self>>[1] = Self
  OBVIOUS
<1>2. two \in Seq({Self, Inner}) /\ Len(two) = 2 /\ two[1] = Self /\ two[2] = Inner
  BY <1>1
<1> HIDE DEF s
<1>3. one \in Seq({Self, Inner}) /\ Len(one) = 1 /\ one[1] = Self
  BY <1>1
<1> HIDE DEF one, two
<1>4. \A r \in Seq({Self, Inner}) : Len(r) = 1 /\ r[1] = Self => r = <<Self>>
  OBVIOUS
<1>5. \A r \in Seq({Self, Inner}) : Len(r) = 2 /\ r[1] = Self /\ r[2] = Inner => r = <<Self, Inner>>
  OBVIOUS
<1>6. one = <<Self>> /\ two = <<Self, Inner>>
  BY <1>2, <1>3, <1>4, <1>5
<1> QED BY <1>6 DEF one, two, s

\* Around the data line of every event the stack is the program's own frame, with
\* another program's on top only before that.
LEMMA FramesAt ==
  ASSUME NEW events \in Seq(IndexedEvent), NEW k \in 0..(Len(events) - 1)
  PROVE  /\ Frames(Lines(events))[7 * k + 3] = <<Self, Inner>>
         /\ Frames(Lines(events))[7 * k + 5] = <<Self>>
         /\ Frames(Lines(events))[7 * k + 6] = <<Self>>
<1> DEFINE f == Frames(Lines(events))
<1>1. PICK n \in Nat : n = Len(events)
  OBVIOUS
<1>2. ASSUME NEW m \in 0..(n - 1), NEW j \in 0..6
      PROVE  f[7 * m + j + 1] = Framed(f[7 * m + j], LineOf(events[m + 1], j))
  <2>1. 7 * m + j + 1 \in 1..7 * n /\ Lines(events)[7 * m + j + 1] = LineOf(events[m + 1], j)
    BY <1>1, <1>2, LineAt
  <2>2. 7 * m + j + 1 # 0 /\ (7 * m + j + 1) - 1 = 7 * m + j
    OBVIOUS
  <2>3. f[7 * m + j + 1] = Framed(f[(7 * m + j + 1) - 1], Lines(events)[7 * m + j + 1])
    BY <1>1, <2>1, <2>2, FramesRun
  <2> QED BY <2>1, <2>2, <2>3
<1> HIDE DEF f
<1>3. ASSUME NEW m \in 0..(n - 1), f[7 * m] = <<>>
      PROVE  /\ f[7 * m + 3] = <<Self, Inner>> /\ f[7 * m + 5] = <<Self>>
             /\ f[7 * m + 6] = <<Self>> /\ f[7 * (m + 1)] = <<>>
  <2>1. f[7 * m + 1] = <<Self>>
    <3>1. f[7 * m + 0 + 1] = Framed(f[7 * m + 0], LineOf(events[m + 1], 0))
      BY <1>2
    <3>2. 7 * m + 0 = 7 * m
      OBVIOUS
    <3>3. Framed(<<>>, LineOf(events[m + 1], 0)) = <<Self>>
      BY ShortSequences DEF Framed, LineOf
    <3> QED BY <1>3, <3>1, <3>2, <3>3
  <2>2. f[7 * m + 2] = <<Self, Inner>>
    <3>1. f[7 * m + 1 + 1] = Framed(f[7 * m + 1], LineOf(events[m + 1], 1))
      BY <1>2
    <3>2. 7 * m + 1 + 1 = 7 * m + 2
      OBVIOUS
    <3>3. Framed(<<Self>>, LineOf(events[m + 1], 1)) = <<Self, Inner>>
      BY ShortSequences DEF Framed, LineOf
    <3> QED BY <2>1, <3>1, <3>2, <3>3
  <2>3. f[7 * m + 3] = <<Self, Inner>>
    <3>1. f[7 * m + 2 + 1] = Framed(f[7 * m + 2], LineOf(events[m + 1], 2))
      BY <1>2
    <3>2. 7 * m + 2 + 1 = 7 * m + 3
      OBVIOUS
    <3> QED BY <2>2, <3>1, <3>2 DEF Framed, LineOf
  <2>4. f[7 * m + 4] = <<Self>>
    <3>1. f[7 * m + 3 + 1] = Framed(f[7 * m + 3], LineOf(events[m + 1], 3))
      BY <1>2
    <3>2. 7 * m + 3 + 1 = 7 * m + 4
      OBVIOUS
    <3>3. Framed(<<Self, Inner>>, LineOf(events[m + 1], 3)) = <<Self>>
      <4>1. Front(<<Self, Inner>>) = <<Self>>
        BY ShortSequences DEF Front
      <4> QED BY <4>1 DEF Framed, LineOf
    <3> QED BY <2>3, <3>1, <3>2, <3>3
  <2>5. f[7 * m + 5] = <<Self>>
    <3>1. f[7 * m + 4 + 1] = Framed(f[7 * m + 4], LineOf(events[m + 1], 4))
      BY <1>2
    <3>2. 7 * m + 4 + 1 = 7 * m + 5
      OBVIOUS
    <3> QED BY <2>4, <3>1, <3>2 DEF Framed, LineOf
  <2>6. f[7 * m + 6] = <<Self>>
    <3>1. f[7 * m + 5 + 1] = Framed(f[7 * m + 5], LineOf(events[m + 1], 5))
      BY <1>2
    <3>2. 7 * m + 5 + 1 = 7 * m + 6
      OBVIOUS
    <3> QED BY <2>5, <3>1, <3>2 DEF Framed, LineOf
  <2>7. f[7 * (m + 1)] = <<>>
    <3>1. f[7 * m + 6 + 1] = Framed(f[7 * m + 6], LineOf(events[m + 1], 6))
      BY <1>2
    <3>2. 7 * m + 6 + 1 = 7 * (m + 1)
      OBVIOUS
    <3>3. Framed(<<Self>>, LineOf(events[m + 1], 6)) = <<>>
      <4>1. Front(<<Self>>) = <<>>
        BY ShortSequences DEF Front
      <4> QED BY <4>1 DEF Framed, LineOf
    <3> QED BY <2>6, <3>1, <3>2, <3>3
  <2> QED BY <2>3, <2>5, <2>6, <2>7
<1> DEFINE N == {m \in Nat : m <= n => f[7 * m] = <<>>}
<1>4. 0 \in N
  <2>1. 0 \in 0..7 * Len(events)
    BY <1>1
  <2>2. f[0] = <<>>
    BY <2>1, FramesRun DEF f
  <2> QED BY <2>2
<1>5. \A m \in Nat : m \in N => m + 1 \in N
  <2> SUFFICES ASSUME NEW m \in Nat, m \in N, m + 1 <= n PROVE f[7 * (m + 1)] = <<>>
    OBVIOUS
  <2>1. m \in 0..(n - 1) /\ f[7 * m] = <<>>
    OBVIOUS
  <2> QED BY <1>3, <2>1
<1>6. k \in N
  <2> HIDE DEF N
  <2>1. k \in Nat
    BY <1>1
  <2> QED BY <1>4, <1>5, <2>1, NatClosed
<1>7. f[7 * k] = <<>> /\ k \in 0..(n - 1)
  BY <1>1, <1>6
<1> QED BY <1>3, <1>7 DEF f

THEOREM EventsDecode ==
  ASSUME NEW events \in Seq(IndexedEvent)
  PROVE  decodeAmmEventsFromLogs(Lines(events)) = events
<1> DEFINE L == Lines(events)
           V == Seq(IndexedEvent)
           Decodes(i) == L[i].is = "data" /\ Known(L[i].event)
           Next(s, i) == IF Decodes(i) /\ OwnPayload(L, i) THEN Append(s, L[i].event) ELSE s
<1>1. PICK n \in Nat : n = Len(events)
  OBVIOUS
<1>2. PICK w \in Nat : w = 7 * n
  BY <1>1
<1>3. Len(L) = w
  BY <1>1, <1>2, LineAt
\* Only the sixth line of each instruction counts.
<1>4. ASSUME NEW k \in 0..(n - 1), NEW j \in 0..6, NEW s
      PROVE  /\ 7 * k + j + 1 \in 1..w
             /\ Next(s, 7 * k + j + 1) = IF j = 5 THEN Append(s, events[k + 1]) ELSE s
  <2> DEFINE i == 7 * k + j + 1
  <2>1. i \in 1..w /\ L[i] = LineOf(events[k + 1], j)
    BY <1>1, <1>2, LineAt
  <2>2. events[k + 1] \in IndexedEvent
    BY <1>1
  <2>3. CASE j = 5
    <3>1. i = 7 * k + 6
      BY <2>3
    <3>2. Frames(L)[i] = <<Self>>
      BY <1>1, <3>1, FramesAt
    <3> HIDE DEF i, L
    <3>3. L[i].is = "data" /\ L[i].event = events[k + 1]
      BY <2>1, <2>3 DEF LineOf
    <3>4. <<Self>> # <<>> /\ Last(<<Self>>) = Self
      BY DEF Last
    <3>5. OwnPayload(L, i)
      BY <3>2, <3>3, <3>4 DEF OwnPayload
    <3>6. Known(L[i].event)
      BY <2>2, <3>3 DEF Known, IndexedEvent
    <3> QED BY <2>1, <2>3, <3>3, <3>5, <3>6 DEF i
  <2>4. CASE j # 5
    <3> HIDE DEF i, L
    <3>1. ~Decodes(i)
      BY <2>1, <2>4 DEF LineOf, Known, EventKinds
    <3> QED BY <2>1, <2>4, <3>1 DEF i
  <2> QED BY <2>3, <2>4
<1>5. ASSUME NEW i \in 1..w
      PROVE  \E k \in 0..(n - 1) : \E j \in 0..6 : i = 7 * k + j + 1
  BY <1>1, <1>2, LineAt
<1> DEFINE F == [i \in 1..w |-> [s \in V |-> Next(s, i)]]
           result == CHOOSE g : g = [i \in 0..w |-> IF i = 0 THEN <<>> ELSE Next(g[i - 1], i)]
<1>6. decodeAmmEventsFromLogs(L) = result[w]
  <2> HIDE DEF L
  <2> QED BY <1>3 DEF decodeAmmEventsFromLogs
<1> HIDE DEF L, Next
<1>7. ASSUME NEW i \in 1..w, NEW s \in V PROVE Next(s, i) \in V
  <2>1. PICK k \in 0..(n - 1), j \in 0..6 : i = 7 * k + j + 1
    BY <1>5
  <2>2. Next(s, i) = IF j = 5 THEN Append(s, events[k + 1]) ELSE s
    BY <1>4, <2>1
  <2>3. events[k + 1] \in IndexedEvent
    BY <1>1
  <2> QED BY <2>2, <2>3
<1>8. PICK g : Iterated(g, w, V, <<>>, F)
  <2>1. <<>> \in V
    OBVIOUS
  <2>2. Steps(F, w, V)
    <3> HIDE DEF V
    <3>1. \A i \in 1..w : F[i] \in [V -> V]
      BY <1>7
    <3> QED BY <3>1 DEF Steps
  <2> HIDE DEF F, V
  <2> QED BY <2>1, <2>2, Iterates
<1> DEFINE Value(i) == IF i = 0 THEN <<>> ELSE Next(g[i - 1], i)
<1>9. \A i \in 0..w : g[i] = Value(i)
  <2> SUFFICES ASSUME NEW i \in 0..w PROVE g[i] = Value(i)
    OBVIOUS
  <2>1. i # 0 => F[i][g[i - 1]] = Next(g[i - 1], i)
    BY <1>8 DEF Iterated
  <2> HIDE DEF F
  <2> QED BY <1>8, <2>1 DEF Iterated
<1>10. g = [i \in 0..w |-> Value(i)]
  <2>1. g = [i \in 0..w |-> g[i]]
    BY <1>8 DEF Iterated
  <2> HIDE DEF Value
  <2>2. [i \in 0..w |-> g[i]] = [i \in 0..w |-> Value(i)]
    BY <1>9
  <2> QED BY <2>1, <2>2
<1>11. result = [i \in 0..w |-> IF i = 0 THEN <<>> ELSE Next(result[i - 1], i)]
  BY <1>10
<1> HIDE DEF result
<1>12. ASSUME NEW k \in 0..(n - 1), NEW j \in 0..6
       PROVE  result[7 * k + j + 1]
                = IF j = 5 THEN Append(result[7 * k + j], events[k + 1]) ELSE result[7 * k + j]
  <2>1. 7 * k + j + 1 \in 1..w
    BY <1>4
  <2>2. result[7 * k + j + 1] = Next(result[(7 * k + j + 1) - 1], 7 * k + j + 1)
    BY <1>11, <2>1
  <2>3. (7 * k + j + 1) - 1 = 7 * k + j
    OBVIOUS
  <2> DEFINE s == result[7 * k + j]
  <2> HIDE DEF s
  <2>4. Next(s, 7 * k + j + 1) = IF j = 5 THEN Append(s, events[k + 1]) ELSE s
    BY <1>4, ZenonT(40)
  <2> QED BY <2>2, <2>3, <2>4 DEF s
<1>13. ASSUME NEW k \in 0..(n - 1)
       PROVE  result[7 * (k + 1)] = Append(result[7 * k], events[k + 1])
  <2>1. result[7 * k + 0 + 1] = result[7 * k + 0]
    BY <1>12
  <2>2. result[7 * k + 1 + 1] = result[7 * k + 1]
    BY <1>12
  <2>3. result[7 * k + 2 + 1] = result[7 * k + 2]
    BY <1>12
  <2>4. result[7 * k + 3 + 1] = result[7 * k + 3]
    BY <1>12
  <2>5. result[7 * k + 4 + 1] = result[7 * k + 4]
    BY <1>12
  <2>6. result[7 * k + 5 + 1] = Append(result[7 * k + 5], events[k + 1])
    BY <1>12
  <2>7. result[7 * k + 6 + 1] = result[7 * k + 6]
    BY <1>12
  <2>8. /\ 7 * k + 0 = 7 * k /\ 7 * k + 0 + 1 = 7 * k + 1 /\ 7 * k + 1 + 1 = 7 * k + 2
        /\ 7 * k + 2 + 1 = 7 * k + 3 /\ 7 * k + 3 + 1 = 7 * k + 4
        /\ 7 * k + 4 + 1 = 7 * k + 5 /\ 7 * k + 5 + 1 = 7 * k + 6
        /\ 7 * k + 6 + 1 = 7 * (k + 1)
    OBVIOUS
  <2> QED BY <2>1, <2>2, <2>3, <2>4, <2>5, <2>6, <2>7, <2>8
<1> DEFINE N == {m \in Nat : m <= n => result[7 * m] = SubSeq(events, 1, m)}
<1>14. 0 \in N
  <2>1. result[0] = <<>>
    BY <1>11
  <2>2. SubSeq(events, 1, 0) = <<>> /\ 7 * 0 = 0
    OBVIOUS
  <2> QED BY <2>1, <2>2
<1>15. \A m \in Nat : m \in N => m + 1 \in N
  <2> SUFFICES ASSUME NEW m \in Nat, m \in N, m + 1 <= n
               PROVE  result[7 * (m + 1)] = SubSeq(events, 1, m + 1)
    OBVIOUS
  <2>1. m \in 0..(n - 1) /\ result[7 * m] = SubSeq(events, 1, m)
    OBVIOUS
  <2>2. SubSeq(events, 1, m + 1) = Append(SubSeq(events, 1, m), events[m + 1])
    BY <1>1, <2>1
  <2> QED BY <1>13, <2>1, <2>2
<1>16. n \in N
  <2> HIDE DEF N
  <2> QED BY <1>14, <1>15, NatClosed
<1>17. SubSeq(events, 1, n) = events
  BY <1>1
<1> QED BY <1>2, <1>6, <1>16, <1>17 DEF L

-----------------------------------------------------------------------------
(* The replay stays at the transaction after the cursor. *)

\* The event the replay is at is the one its key names, in the entry after the cursor.
LEMMA KeyIs ==
  ASSUME HistoryInv, ReplayInv, AtEvent
  PROVE  /\ Key \in Positions /\ EventAt(Key) = Event /\ Event \in IndexedEvent
         /\ Entry = cursor + 1 /\ Key[1] = cursor + 1 /\ Key[2] = replay.ix
         /\ replay.ix \in 1..Len(replay.events) /\ Len(replay.events) \in Nat
         /\ Entry \in 1..Len(log) /\ replay.sigs # <<>> /\ cursor \in Nat
<1>1. replay.sigs \in Seq(1..Len(log)) /\ replay.sigs # <<>> /\ Entry = cursor + 1
  BY DEF ReplayInv
<1>2. Entry \in 1..Len(log)
  BY <1>1 DEF Entry, Last
<1>3. replay.events = log[Entry].events /\ replay.ix \in 1..Len(replay.events)
  BY DEF ReplayInv
<1>4. Key \in Positions
  BY <1>2, <1>3, PositionIs DEF Key
<1>5. EventAt(Key) = Event
  BY <1>3 DEF EventAt, Key, Event
<1>6. Event \in IndexedEvent /\ log[Entry] \in EntryType
  BY <1>2, <1>4, <1>5, EventTypes DEF HistoryInv
<1>7. Len(replay.events) \in Nat /\ cursor \in Nat
  BY <1>3, <1>6 DEF EntryType, ReplayInv
<1> QED BY <1>1, <1>2, <1>3, <1>4, <1>5, <1>6, <1>7 DEF Key

\* The replay is over.
LEMMA ReplayEnds ==
  ASSUME cursor' \in 0..Len(log'), replay' = NoReplay, Len(log') \in Nat
  PROVE  ReplayInv'
<1>1. /\ replay'.at = "off" /\ replay'.until = 0 /\ replay'.sigs = <<>>
      /\ replay'.events = <<>> /\ replay'.ix = 0 /\ replay'.held = <<>>
      /\ replay'.processed = 0 /\ ReplayRecord'
  BY DEF NoReplay, ReplayRecord
<1>2. ~At("page")' /\ ~AtEvent' /\ ~At("fetch")' /\ ~At("advance")' /\ ~At("opening")'
      /\ ~At("write")'
  BY <1>1 DEF At, AtEvent
<1>3. replay'.sigs \in Seq(1..Len(log')) /\ Descending(replay'.sigs)
  BY <1>1 DEF Descending
<1> QED BY <1>1, <1>2, <1>3 DEF ReplayInv

\* It stays at its transaction, at a step of one of its events or past them.
LEMMA ReplayStays ==
  ASSUME HistoryInv, ReplayInv, UNCHANGED <<log, cursor>>, ReplayRecord',
         replay.sigs # <<>>, Entry = cursor + 1, replay'.sigs = replay.sigs,
         \/ replay'.at = "advance"
         \/ /\ replay'.at \in {"persist", "opening", "write"}
            /\ replay'.events = log[Entry].events /\ replay'.ix \in 1..Len(replay'.events)
            /\ replay'.at = "opening" => Event'.kind = "created"
            /\ replay'.at = "write" => Event'.kind = "trade"
  PROVE  ReplayInv'
<1>1. Entry' = Entry /\ log'[Entry'] = log[Entry]
  BY DEF Entry
<1>2. cursor' \in 0..Len(log') /\ replay'.sigs \in Seq(1..Len(log')) /\ Descending(replay'.sigs)
  BY DEF ReplayInv
<1>3. ~At("page")' /\ ~At("fetch")' /\ (At("opening")' <=> replay'.at = "opening")
      /\ (At("write")' <=> replay'.at = "write")
  BY DEF At
<1>4. AtEvent' => replay'.at # "advance"
  BY DEF AtEvent
<1> QED BY <1>1, <1>2, <1>3, <1>4 DEF ReplayInv

\* After a write the replay is at the next event of the entry, or about to move the cursor.
LEMMA BookedMoves ==
  ASSUME HistoryInv, ReplayInv, AtEvent, Booked, UNCHANGED <<log, cursor>>
  PROVE  /\ ReplayInv' /\ replay'.sigs = replay.sigs
         /\ \/ replay.ix < Len(replay.events) /\ replay'.at = "persist" /\ replay'.ix = replay.ix + 1
            \/ replay.ix = Len(replay.events) /\ replay'.at = "advance"
<1>1. ReplayRecord
  BY DEF ReplayInv
<1>2. /\ replay.ix \in 1..Len(replay.events) /\ Len(replay.events) \in Nat
      /\ replay.sigs # <<>> /\ Entry = cursor + 1 /\ replay.events = log[Entry].events
  BY KeyIs DEF ReplayInv
<1>3. CASE replay.ix < Len(replay.events)
  <2>1. replay' = [replay EXCEPT !.at = "persist", !.ix = @ + 1, !.held = <<>>]
    BY <1>3 DEF Booked
  <2>2. /\ ReplayRecord' /\ replay'.at = "persist" /\ replay'.ix = replay.ix + 1
        /\ replay'.sigs = replay.sigs /\ replay'.events = replay.events
    BY <1>1, <2>1 DEF ReplayRecord
  <2>3. replay'.ix \in 1..Len(replay'.events)
    BY <1>2, <1>3, <2>2
  <2>4. ReplayInv'
    BY <1>2, <2>2, <2>3, ReplayStays
  <2> QED BY <1>3, <2>2, <2>4
<1>4. CASE ~(replay.ix < Len(replay.events))
  <2>1. replay' = [replay EXCEPT !.at = "advance", !.held = <<>>]
    BY <1>4 DEF Booked
  <2>2. ReplayRecord' /\ replay'.at = "advance" /\ replay'.sigs = replay.sigs
    BY <1>1, <2>1 DEF ReplayRecord
  <2>3. ReplayInv'
    BY <1>2, <2>2, ReplayStays
  <2> QED BY <1>2, <1>4, <2>2, <2>3
<1> QED BY <1>3, <1>4

\* A step of an event's booking.
LEMMA PersistReplay ==
  ASSUME HistoryInv, ReplayInv, Persist
  PROVE  /\ AtEvent /\ ReplayInv' /\ UNCHANGED <<log, cursor>>
         /\ \/ Booked
            \/ replay' = NoReplay /\ At("persist") /\ Event.kind = "redeem" /\ Market \notin DOMAIN rows
            \/ /\ At("persist") /\ replay'.at \in {"opening", "write"}
               /\ replay'.ix = replay.ix /\ replay'.sigs = replay.sigs
<1>0. ReplayRecord /\ cursor \in 0..Len(log) /\ Len(log) \in Nat
  BY DEF ReplayInv, HistoryInv
<1>1. AtEvent /\ UNCHANGED <<log, cursor>>
  BY DEF Persist, persistCreated, openingPoint, lookUpTrade, persistTrade, persistRedeem,
         persistSet, persistLifecycle, AtEvent, At, dbVars
<1>2. /\ replay.ix \in 1..Len(replay.events) /\ replay.sigs # <<>> /\ Entry = cursor + 1
      /\ replay.events = log[Entry].events
  BY <1>1, KeyIs DEF ReplayInv
<1>3. CASE Booked
  BY <1>1, <1>3, BookedMoves
<1>4. CASE persistCreated
  <2>1. replay' = [replay EXCEPT !.at = "opening"] /\ Event.kind = "created" /\ At("persist")
    BY <1>4 DEF persistCreated, Goto
  <2>2. /\ ReplayRecord' /\ replay'.at = "opening" /\ replay'.ix = replay.ix
        /\ replay'.sigs = replay.sigs /\ replay'.events = replay.events
    BY <1>0, <2>1 DEF ReplayRecord
  <2>3. Event' = Event
    BY <2>2 DEF Event
  <2>4. ReplayInv'
    BY <1>1, <1>2, <2>1, <2>2, <2>3, ReplayStays
  <2> QED BY <1>1, <2>1, <2>2, <2>4
<1>5. CASE lookUpTrade /\ ~Booked
  <2>1. /\ replay' = [replay EXCEPT !.at = "write", !.held = rows[Market].prices]
        /\ Event.kind = "trade" /\ At("persist")
    BY <1>5 DEF lookUpTrade
  <2>2. /\ ReplayRecord' /\ replay'.at = "write" /\ replay'.ix = replay.ix
        /\ replay'.sigs = replay.sigs /\ replay'.events = replay.events
    BY <1>0, <2>1 DEF ReplayRecord
  <2>3. Event' = Event
    BY <2>2 DEF Event
  <2>4. ReplayInv'
    BY <1>1, <1>2, <2>1, <2>2, <2>3, ReplayStays
  <2> QED BY <1>1, <2>1, <2>2, <2>4
<1>6. CASE persistRedeem /\ ~Booked
  <2>1. replay' = NoReplay /\ At("persist") /\ Event.kind = "redeem" /\ Market \notin DOMAIN rows
    BY <1>6 DEF persistRedeem
  <2>2. ReplayInv'
    BY <1>0, <1>1, <2>1, ReplayEnds
  <2> QED BY <1>1, <2>1, <2>2
<1>7. CASE openingPoint \/ persistTrade \/ persistSet \/ persistLifecycle
  BY <1>3, <1>7 DEF openingPoint, persistTrade, persistSet, persistLifecycle
<1> QED BY <1>3, <1>4, <1>5, <1>6, <1>7 DEF Persist

\* Parts of a descent.
LEMMA DescentFront ==
  ASSUME NEW n \in Nat, NEW s \in Seq(1..n), s # <<>>, Descending(s)
  PROVE  /\ Last(s) \in 1..n /\ Front(s) \in Seq(1..n) /\ Descending(Front(s))
         /\ Front(s) # <<>> => Last(Front(s)) = Last(s) + 1
<1>1. Len(s) \in Nat \ {0} /\ Len(s) \in 1..Len(s) /\ \A i \in 1..Len(s) : s[i] \in 1..n
  OBVIOUS
<1>2. s[Len(s)] \in 1..n /\ s[1] \in 1..n /\ s[Len(s)] = s[1] + 1 - Len(s)
  <2>1. s[Len(s)] = s[1] + 1 - Len(s)
    BY <1>1 DEF Descending
  <2> QED BY <1>1, <2>1
<1> DEFINE rest == SubSeq(s, 1, Len(s) - 1)
<1>3. /\ rest \in Seq(1..n) /\ Len(rest) = Len(s) - 1
      /\ \A i \in 1..(Len(s) - 1) : rest[i] = s[i]
  <2>1. \A i \in 1..(Len(s) - 1) : s[i] \in 1..n
    BY <1>1
  <2>2. Len(s) - 1 \in Int /\ (1 <= Len(s) - 1 \/ Len(s) - 1 = 0)
    <3>1. PICK k \in Nat \ {0} : k = Len(s)
      BY <1>1
    <3>2. k - 1 \in Int /\ (1 <= k - 1 \/ k - 1 = 0)
      OBVIOUS
    <3> QED BY <3>1, <3>2
  <2>3. /\ rest \in Seq(1..n) /\ Len(rest) = IF 1 <= Len(s) - 1 THEN Len(s) - 1 - 1 + 1 ELSE 0
        /\ \A i \in 1..(Len(s) - 1 - 1 + 1) : rest[i] = s[1 + i - 1]
    BY <2>1, <2>2, SubSeqProperties
  <2> HIDE DEF rest
  <2>4. \A i \in 1..(Len(s) - 1) : rest[i] = s[i]
    <3> TAKE i \in 1..(Len(s) - 1)
    <3>1. i \in 1..(Len(s) - 1 - 1 + 1) /\ 1 + i - 1 = i
      BY <2>2
    <3> QED BY <3>1, <2>3
  <2> QED BY <2>2, <2>3, <2>4
<1> HIDE DEF rest
<1>4. \A i \in 1..Len(rest) : rest[i] = s[1] + 1 - i /\ rest[1] = s[1]
  BY <1>1, <1>3, SMTT(30) DEF Descending
<1>5. Descending(rest)
  BY <1>4 DEF Descending
<1>6. rest # <<>> => rest[Len(rest)] = s[1] + 1 - Len(rest)
  <2>1. rest # <<>> => Len(rest) \in 1..Len(rest)
    BY <1>3
  <2> QED BY <1>4, <2>1
<1>7. Last(s) = s[Len(s)] /\ Front(s) = rest /\ Last(rest) = rest[Len(rest)]
  BY DEF Last, Front, rest
<1>8. rest # <<>> => rest[Len(rest)] = s[Len(s)] + 1
  <2>1. PICK k \in Nat, a \in Int : k = Len(s) /\ a = s[1] /\ s[Len(s)] = a + 1 - k
    BY <1>1, <1>2
  <2>2. rest # <<>> => rest[Len(rest)] = a + 1 - (k - 1)
    BY <1>3, <1>6, <2>1
  <2> QED BY <2>1, <2>2
<1> QED BY <1>2, <1>3, <1>5, <1>7, <1>8

\* A page goes on below the ones before it, and a short page ends at the cursor.
LeftAbove(s, c, n) ==
  s \in Seq(1..n) /\ Descending(s) /\ (s # <<>> => Last(s) > c)
NextPage(page, s, c, n, top, size) ==
  /\ top \in 0..n /\ (s # <<>> => top = Last(s) - 1)
  /\ size \in Int /\ size <= top - c /\ size <= PAGE /\ (size # PAGE => size = top - c)
  /\ page \in Seq(1..n) /\ Len(page) = IF size <= 0 THEN 0 ELSE size
  /\ \A i \in 1..Len(page) : page[i] = top + 1 - i

\* One more page keeps the signatures fetched in descending order and without a gap.
LEMMA DescentGoesOn ==
  ASSUME NEW n \in Nat, NEW c \in 0..n, NEW s, NEW page, NEW top, NEW size,
         LeftAbove(s, c, n), NextPage(page, s, c, n, top, size)
  PROVE  /\ s \o page \in Seq(1..n) /\ Descending(s \o page)
         /\ s \o page # <<>> => /\ Last(s \o page) > c
                                /\ Len(page) # PAGE => Last(s \o page) = c + 1
<1> SUFFICES
      ASSUME s \in Seq(1..n), Descending(s), s # <<>> => Last(s) > c,
             top \in 0..n, s # <<>> => top = Last(s) - 1,
             size \in Int, size <= top - c, size <= PAGE, size # PAGE => size = top - c,
             page \in Seq(1..n), Len(page) = IF size <= 0 THEN 0 ELSE size,
             \A i \in 1..Len(page) : page[i] = top + 1 - i
      PROVE  /\ s \o page \in Seq(1..n) /\ Descending(s \o page)
             /\ s \o page # <<>> => /\ Last(s \o page) > c
                                    /\ Len(page) # PAGE => Last(s \o page) = c + 1
  BY Zenon DEF LeftAbove, NextPage
<1> DEFINE all == s \o page
<1>1. PAGE \in Nat \ {0} /\ Len(s) \in Nat /\ Len(page) \in Nat /\ c \in Nat /\ top \in Nat
  BY IndexerConstants
<1>2. s # <<>> => /\ Len(s) \in 1..Len(s) /\ top >= c /\ top = s[Len(s)] - 1
                  /\ s[Len(s)] = s[1] + 1 - Len(s) /\ s[Len(s)] \in Int /\ s[1] \in Int
  <2> SUFFICES ASSUME s # <<>>
               PROVE  /\ Len(s) \in 1..Len(s) /\ top >= c /\ top = s[Len(s)] - 1
                      /\ s[Len(s)] = s[1] + 1 - Len(s) /\ s[Len(s)] \in Int /\ s[1] \in Int
    OBVIOUS
  <2>1. Len(s) \in 1..Len(s) /\ Last(s) = s[Len(s)]
    BY DEF Last
  <2>2. s[Len(s)] \in 1..n /\ s[1] \in 1..n
    BY <2>1, SMTT(30)
  <2>3. s[Len(s)] = s[1] + 1 - Len(s)
    BY <2>1 DEF Descending
  <2> QED BY <1>1, <2>1, <2>2, <2>3
<1>3. /\ all \in Seq(1..n) /\ Len(all) = Len(s) + Len(page)
      /\ \A i \in 1..Len(s) + Len(page) : all[i] = IF i <= Len(s) THEN s[i] ELSE page[i - Len(s)]
  BY ConcatProperties
<1> HIDE DEF all
<1>4. ASSUME NEW i \in 1..Len(all) PROVE all[i] = all[1] + 1 - i
  <2>1. CASE s = <<>>
    <3>1. Len(s) = 0
      BY <2>1
    <3>2. 1 \in 1..Len(page) /\ i \in 1..Len(page) /\ i - 0 = i /\ 1 - 0 = 1
      BY <1>1, <1>3, <1>4, <3>1
    <3>3. all[i] = page[i] /\ all[1] = page[1]
      BY <1>1, <1>3, <3>1, <3>2
    <3>4. page[i] = top + 1 - i /\ page[1] = top + 1 - 1
      BY <3>2
    <3> QED BY <1>1, <1>4, <3>3, <3>4
  <2>2. CASE s # <<>>
    <3>1. all[1] = s[1]
      BY <1>1, <1>2, <1>3, <2>2
    <3>2. CASE i <= Len(s)
      <4>1. s[i] = s[1] + 1 - i
        BY <1>1, <1>4, <3>2 DEF Descending
      <4> QED BY <1>3, <1>4, <3>1, <3>2, <4>1
    <3>3. CASE ~(i <= Len(s))
      <4>1. i - Len(s) \in 1..Len(page) /\ all[i] = page[i - Len(s)]
        BY <1>1, <1>3, <1>4, <3>3
      <4>2. page[i - Len(s)] = top + 1 - (i - Len(s))
        BY <4>1
      <4>3. PICK k \in Nat, a \in Int : k = Len(s) /\ a = s[1] /\ top = (a + 1 - k) - 1
        BY <1>1, <1>2, <2>2
      <4>4. all[i] = top + 1 - (i - k) /\ all[1] = a /\ i \in Int
        BY <1>4, <3>1, <4>1, <4>2, <4>3
      <4>5. top + 1 - (i - k) = a + 1 - i
        <5>1. \A j, p, x, y \in Int : p = (x + 1 - y) - 1 => p + 1 - (j - y) = x + 1 - j
          OBVIOUS
        <5>2. i \in Int /\ top \in Int /\ a \in Int /\ k \in Int
          BY <4>4
        <5>3. top = (a + 1 - k) - 1
          BY <4>3
        <5> QED BY <5>1, <5>2, <5>3
      <4> QED BY <4>4, <4>5
    <3> QED BY <3>2, <3>3
  <2> QED BY <2>1, <2>2
<1>5. ASSUME all # <<>>
      PROVE  Last(all) > c /\ (Len(page) # PAGE => Last(all) = c + 1)
  <2>1. Len(all) \in 1..Len(all) /\ Last(all) = all[Len(all)]
    BY <1>3, <1>5 DEF Last
  <2>2. CASE size <= 0
    <3>1. Len(page) = 0 /\ Len(all) = Len(s)
      BY <1>1, <1>3, <2>2
    <3>2. s # <<>>
      BY <1>1, <2>1, <3>1
    <3>3. Last(all) = s[Len(s)]
      BY <1>1, <1>2, <1>3, <2>1, <3>1, <3>2, SMTT(30)
    <3> QED BY <1>1, <1>2, <2>2, <3>1, <3>2, <3>3
  <2>3. CASE size > 0
    <3>1. Len(page) = size /\ Len(page) \in 1..Len(page)
      BY <2>3
    <3>2. Len(all) - Len(s) = Len(page) /\ ~(Len(all) <= Len(s))
      BY <1>1, <1>3, <2>3, <3>1
    <3>3. Last(all) = page[Len(page)]
      BY <1>1, <1>3, <2>1, <3>1, <3>2
    <3>4. Last(all) = top + 1 - size
      BY <3>1, <3>3
    <3> QED BY <1>1, <3>1, <3>4
  <2> QED BY <2>2, <2>3
<1> QED BY <1>3, <1>4, <1>5 DEF Descending, all

\* A page continues the descent and stops above the cursor.
LEMMA PageReplay ==
  ASSUME HistoryInv, ReplayInv, fetchSignaturesSince
  PROVE  ReplayInv' /\ ~AtEvent' /\ ~At("advance")' /\ UNCHANGED <<log, cursor>>
<1>1. PICK n \in Nat : n = Len(log) /\ Len(log') = n /\ log' = log
  BY DEF fetchSignaturesSince, HistoryInv
<1>2. /\ ReplayRecord /\ replay.until = cursor /\ cursor \in 0..n /\ cursor' = cursor
      /\ replay.sigs \in Seq(1..n) /\ Descending(replay.sigs)
      /\ replay.sigs # <<>> => Last(replay.sigs) > cursor
  BY <1>1 DEF fetchSignaturesSince, ReplayInv, dbVars, Entry
<1>3. PICK view \in Views :
        LET top == IF replay.sigs = <<>> THEN view ELSE Last(replay.sigs) - 1
            size == IF top - replay.until < PAGE THEN top - replay.until ELSE PAGE
            page == IF size <= 0 THEN <<>> ELSE [i \in 1..size |-> top + 1 - i]
            all == replay.sigs \o page
        IN  IF Len(page) = PAGE THEN replay' = [replay EXCEPT !.sigs = all] /\ UNCHANGED task
            ELSE IF all = <<>> THEN replay' = NoReplay /\ task' = Returned(0)
            ELSE /\ replay' = [replay EXCEPT !.sigs = all, !.at = "fetch"]
                 /\ UNCHANGED task
  BY DEF fetchSignaturesSince
<1>4. PICK top : top = IF replay.sigs = <<>> THEN view ELSE Last(replay.sigs) - 1
  OBVIOUS
<1>5. PICK size : size = IF top - cursor < PAGE THEN top - cursor ELSE PAGE
  OBVIOUS
<1>6. PICK page : page = IF size <= 0 THEN <<>> ELSE [i \in 1..size |-> top + 1 - i]
  OBVIOUS
<1>7. PICK all : all = replay.sigs \o page
  OBVIOUS
<1>8. \/ Len(page) = PAGE /\ replay' = [replay EXCEPT !.sigs = all]
      \/ Len(page) # PAGE /\ all = <<>> /\ replay' = NoReplay
      \/ Len(page) # PAGE /\ all # <<>> /\ replay' = [replay EXCEPT !.sigs = all, !.at = "fetch"]
  <2> DEFINE T(u) == IF replay.sigs = <<>> THEN view ELSE Last(replay.sigs) - 1
             S(u) == IF T(u) - u < PAGE THEN T(u) - u ELSE PAGE
             P(u) == IF S(u) <= 0 THEN <<>> ELSE [i \in 1..S(u) |-> T(u) + 1 - i]
             A(u) == replay.sigs \o P(u)
  <2>1. \/ Len(P(replay.until)) = PAGE /\ replay' = [replay EXCEPT !.sigs = A(replay.until)]
        \/ /\ Len(P(replay.until)) # PAGE /\ A(replay.until) = <<>> /\ replay' = NoReplay
        \/ /\ Len(P(replay.until)) # PAGE /\ A(replay.until) # <<>>
           /\ replay' = [replay EXCEPT !.sigs = A(replay.until), !.at = "fetch"]
    BY <1>3, Zenon
  <2>2. T(cursor) = top
    BY <1>4
  <2>3. S(cursor) = size
    BY <1>5, <2>2
  <2>4. P(cursor) = page
    BY <1>6, <2>2, <2>3
  <2>5. A(cursor) = all
    BY <1>7, <2>4
  <2> HIDE DEF P, A
  <2> QED BY <1>2, <2>1, <2>4, <2>5
<1>9. /\ all \in Seq(1..n) /\ Descending(all)
      /\ all # <<>> => /\ Last(all) > cursor
                       /\ Len(page) # PAGE => Last(all) = cursor + 1
  <2>1. view \in 0..n /\ PAGE \in Nat \ {0}
    BY <1>1, IndexerConstants DEF Views
  <2>2. replay.sigs # <<>> => Last(replay.sigs) \in 1..n
    BY <1>2, DescentFront
  <2>3. top \in 0..n /\ (replay.sigs # <<>> => top = Last(replay.sigs) - 1)
    BY <1>4, <2>1, <2>2
  <2>4. /\ size \in Int /\ size <= top - cursor /\ size <= PAGE
        /\ size # PAGE => size = top - cursor
    BY <1>2, <1>5, <2>1, <2>3
  <2>5. /\ page \in Seq(1..n) /\ Len(page) = IF size <= 0 THEN 0 ELSE size
        /\ \A i \in 1..Len(page) : page[i] = top + 1 - i
    <3>1. CASE size <= 0
      BY <1>6, <3>1
    <3>2. CASE size > 0
      <4>1. page = [i \in 1..size |-> top + 1 - i]
        BY <1>6, <2>4, <3>2
      <4>2. \A i \in 1..size : top + 1 - i \in 1..n
        BY <1>2, <2>3, <2>4
      <4>3. page \in [1..size -> 1..n] /\ size \in Nat
        BY <2>4, <3>2, <4>1, <4>2
      <4> QED BY <2>4, <3>2, <4>1, <4>3
    <3> QED BY <2>4, <3>1, <3>2
  <2>6. LeftAbove(replay.sigs, cursor, n)
    BY <1>2 DEF LeftAbove
  <2>7. NextPage(page, replay.sigs, cursor, n, top, size)
    BY <2>3, <2>4, <2>5, Zenon DEF NextPage
  <2>8. /\ replay.sigs \o page \in Seq(1..n) /\ Descending(replay.sigs \o page)
        /\ replay.sigs \o page # <<>> =>
             /\ Last(replay.sigs \o page) > cursor
             /\ Len(page) # PAGE => Last(replay.sigs \o page) = cursor + 1
    BY <1>2, <2>6, <2>7, DescentGoesOn
  <2> QED BY <1>7, <2>8
<1>10. At("page")
  BY DEF fetchSignaturesSince
<1>11. CASE Len(page) = PAGE /\ replay' = [replay EXCEPT !.sigs = all]
  <2>1. ReplayRecord' /\ replay'.sigs = all /\ replay'.at = "page" /\ replay'.until = cursor
    BY <1>2, <1>10, <1>11 DEF ReplayRecord, At
  <2>2. ~AtEvent' /\ ~At("fetch")' /\ ~At("advance")' /\ ~At("opening")' /\ ~At("write")'
    BY <2>1 DEF At, AtEvent
  <2>3. Entry' = Last(all)
    BY <2>1 DEF Entry
  <2>4. replay'.sigs \in Seq(1..Len(log')) /\ Descending(replay'.sigs) /\ cursor' \in 0..Len(log')
    BY <1>1, <1>2, <1>9, <2>1
  <2>5. replay'.until = cursor' /\ (replay'.sigs # <<>> => Entry' > cursor')
    BY <1>2, <1>9, <2>1, <2>3
  <2> QED BY <1>1, <1>2, <2>1, <2>2, <2>4, <2>5 DEF ReplayInv
<1>12. CASE replay' = NoReplay
  <2>1. ReplayInv'
    BY <1>1, <1>2, <1>12, ReplayEnds
  <2> QED BY <1>1, <1>2, <1>12, <2>1 DEF NoReplay, At, AtEvent
<1>13. CASE Len(page) # PAGE /\ all # <<>> /\ replay' = [replay EXCEPT !.sigs = all, !.at = "fetch"]
  <2>1. ReplayRecord' /\ replay'.sigs = all /\ replay'.at = "fetch"
    BY <1>2, <1>13 DEF ReplayRecord
  <2>2. ~AtEvent' /\ ~At("page")' /\ ~At("advance")' /\ ~At("opening")' /\ ~At("write")'
    BY <2>1 DEF At, AtEvent
  <2>3. Entry' = Last(all)
    BY <2>1 DEF Entry
  <2>4. replay'.sigs \in Seq(1..Len(log')) /\ Descending(replay'.sigs) /\ cursor' \in 0..Len(log')
    BY <1>1, <1>2, <1>9, <2>1
  <2>5. replay'.sigs # <<>> /\ Entry' = cursor' + 1
    BY <1>2, <1>9, <1>13, <2>1, <2>3
  <2> QED BY <1>1, <1>2, <2>1, <2>2, <2>4, <2>5 DEF ReplayInv
<1> QED BY <1>8, <1>11, <1>12, <1>13

\* What is fetched is what the chain holds, or nothing where the endpoint is
\* behind.
LEMMA FetchReplay ==
  ASSUME HistoryInv, ReplayInv, replayTransaction
  PROVE  /\ ReplayInv'
         /\ \/ replay'.at = "advance" /\ (MaxLag = 0 => log[Entry].events = <<>>)
            \/ replay'.at = "persist" /\ replay'.ix = 1
<1>1. /\ ReplayRecord /\ replay.sigs \in Seq(1..Len(log)) /\ replay.sigs # <<>>
      /\ Entry = cursor + 1 /\ UNCHANGED <<log, cursor>>
  BY DEF ReplayInv, replayTransaction, At, dbVars
<1>2. Entry \in 1..Len(log) /\ Len(log) \in Nat
  BY <1>1 DEF Entry, Last, HistoryInv
<1> DEFINE due == log[Entry].events
<1>3. due \in Seq(IndexedEvent) /\ (log[Entry].err => due = <<>>)
  <2>1. log[Entry] \in EntryType
    BY <1>2 DEF HistoryInv
  <2> QED BY <1>2, <2>1 DEF HistoryInv, EntryType
<1>4. CASE log[Entry].err
  <2>1. replay' = [replay EXCEPT !.at = "advance"]
    BY <1>4 DEF replayTransaction, Goto
  <2>2. ReplayRecord' /\ replay'.at = "advance" /\ replay'.sigs = replay.sigs
    BY <1>1, <2>1 DEF ReplayRecord
  <2>3. ReplayInv'
    BY <1>1, <2>2, ReplayStays
  <2> QED BY <1>3, <1>4, <2>2, <2>3
<1>5. CASE ~log[Entry].err
  <2>1. PICK view \in Views :
          LET events == IF Entry <= view THEN decodeAmmEventsFromLogs(Lines(due)) ELSE <<>>
          IN  replay' = [replay EXCEPT !.at = IF events = <<>> THEN "advance" ELSE "persist",
                                       !.events = events, !.ix = 1]
    BY <1>5 DEF replayTransaction
  <2>2. decodeAmmEventsFromLogs(Lines(due)) = due
    BY <1>3, EventsDecode
  <2> DEFINE events == IF Entry <= view THEN due ELSE <<>>
  <2>3. replay' = [replay EXCEPT !.at = IF events = <<>> THEN "advance" ELSE "persist",
                                 !.events = events, !.ix = 1]
    BY <2>1, <2>2
  <2> HIDE DEF events, due
  <2>4. /\ ReplayRecord' /\ replay'.sigs = replay.sigs /\ replay'.events = events
        /\ replay'.ix = 1 /\ replay'.at = IF events = <<>> THEN "advance" ELSE "persist"
    BY <1>1, <2>3 DEF ReplayRecord
  <2>5. CASE events = <<>>
    <3>1. ReplayInv' /\ replay'.at = "advance"
      BY <1>1, <2>4, <2>5, ReplayStays
    <3>2. MaxLag = 0 => due = <<>>
      <4>1. MaxLag = 0 => view = Len(log)
        BY <1>2 DEF Views
      <4> QED BY <1>2, <2>5, <4>1 DEF events
    <3> QED BY <3>1, <3>2 DEF due
  <2>6. CASE events # <<>>
    <3>1. events = due /\ replay'.at = "persist"
      BY <2>4, <2>6 DEF events
    <3>2. replay'.ix \in 1..Len(replay'.events)
      BY <1>3, <2>4, <2>6, <3>1
    <3>3. ReplayInv'
      BY <1>1, <2>4, <3>1, <3>2, ReplayStays DEF due
    <3> QED BY <2>4, <3>1, <3>3
  <2> QED BY <2>5, <2>6
<1> QED BY <1>4, <1>5

\* The cursor moves to the transaction booked, and the one after it is next.
LEMMA AdvanceReplay ==
  ASSUME HistoryInv, ReplayInv, setCursor
  PROVE  /\ ReplayInv' /\ log' = log /\ cursor' = cursor + 1 /\ At("advance")
         /\ ~AtEvent' /\ ~At("advance")'
<1>1. PICK n \in Nat : n = Len(log) /\ Len(log') = n /\ log' = log
  BY DEF setCursor, HistoryInv
<1>2. /\ ReplayRecord /\ replay.sigs \in Seq(1..n) /\ replay.sigs # <<>>
      /\ Descending(replay.sigs) /\ At("advance")
      /\ Last(replay.sigs) = cursor + 1 /\ cursor \in Nat /\ cursor' = cursor + 1
  BY <1>1 DEF ReplayInv, setCursor, At, Entry
<1>3. PICK rest : rest = Front(replay.sigs)
  OBVIOUS
<1>4. /\ Last(replay.sigs) \in 1..n /\ rest \in Seq(1..n) /\ Descending(rest)
      /\ rest # <<>> => Last(rest) = cursor' + 1
  BY <1>2, <1>3, DescentFront
<1>5. cursor' \in 0..n
  BY <1>2, <1>4
<1>6. CASE rest = <<>>
  <2>1. replay' = NoReplay
    BY <1>3, <1>6 DEF setCursor
  <2>2. ReplayInv'
    BY <1>1, <1>5, <2>1, ReplayEnds
  <2> QED BY <1>1, <1>2, <2>1, <2>2 DEF NoReplay, At, AtEvent
<1>7. CASE rest # <<>>
  <2>1. replay' = [replay EXCEPT !.at = "fetch", !.sigs = rest, !.events = <<>>, !.ix = 0,
                                 !.processed = replay.processed + 1]
    BY <1>3, <1>7 DEF setCursor
  <2>2. ReplayRecord' /\ replay'.sigs = rest /\ replay'.at = "fetch"
    BY <1>2, <2>1 DEF ReplayRecord
  <2>3. ~AtEvent' /\ ~At("page")' /\ ~At("advance")' /\ ~At("opening")' /\ ~At("write")'
    BY <2>2 DEF At, AtEvent
  <2>4. Entry' = Last(rest)
    BY <2>2 DEF Entry
  <2>5. replay'.sigs \in Seq(1..Len(log')) /\ Descending(replay'.sigs) /\ cursor' \in 0..Len(log')
    BY <1>1, <1>4, <1>5, <2>2
  <2>6. replay'.sigs # <<>> /\ Entry' = cursor' + 1
    BY <1>4, <1>7, <2>2, <2>4
  <2> QED BY <1>1, <1>2, <2>2, <2>3, <2>5, <2>6 DEF ReplayInv
<1> QED BY <1>6, <1>7

\* The history keeps its invariant when it does not change.
LEMMA HistoryStays ==
  ASSUME HistoryInv, log' = log
  PROVE  HistoryInv'
<1>1. Positions' = Positions /\ \A e : EventAt(e)' = EventAt(e)
  BY DEF Positions, EventAt
<1>2. \A c, m : Creates(c, m)' <=> Creates(c, m)
  BY <1>1 DEF Creates
<1> QED BY <1>1, <1>2 DEF HistoryInv

\* What the other steps have in common: they leave the tables but for the state,
\* supply and prices of a row, and no event is passed.
Elsewhere ==
  /\ UNCHANGED <<log, cursor, trades, redemptions, pricePoints, volumePoints>>
  /\ UNCHANGED rows \/ \E t \in Tasks : updateRow(t)
  /\ UNCHANGED replay \/ (~AtEvent' /\ ~At("advance")')

\* A step of the indexer, as the invariants see it.
LEMMA StepKinds ==
  ASSUME HistoryInv, ReplayInv, [IngestNext]_ingestVars
  PROVE  /\ HistoryInv' /\ ReplayInv'
         /\ \/ Submit /\ Grows /\ UNCHANGED <<dbVars, replay>>
            \/ Persist \/ setCursor \/ replayTransaction \/ Elsewhere
<1>1. CASE ChainMoves
  <2>1. Submit /\ Grows /\ HistoryInv' /\ UNCHANGED <<dbVars, replay>>
    BY <1>1, SubmitKeeps DEF ChainMoves
  <2>2. /\ cursor \in 0..Len(log) /\ Len(log) \in Nat /\ Len(log') \in Nat /\ Len(log) <= Len(log')
        /\ replay.sigs \in Seq(1..Len(log)) /\ cursor' = cursor /\ replay' = replay
    BY <2>1 DEF ReplayInv, Grows, dbVars
  <2>3. cursor \in 0..Len(log') /\ replay.sigs \in Seq(1..Len(log'))
    <3>1. PICK n \in Nat, n_1 \in Nat : n = Len(log) /\ n_1 = Len(log') /\ n <= n_1
      BY <2>2
    <3>2. cursor \in 0..n_1 /\ 1..n \subseteq 1..n_1
      BY <2>2, <3>1
    <3>3. Seq(1..n) \subseteq Seq(1..n_1)
      BY <3>2
    <3> QED BY <2>2, <3>1, <3>2, <3>3
  <2>4. AtEvent => log'[Entry] = log[Entry]
    BY <2>1, KeyIs DEF Grows
  <2>5. ReplayInv'
    BY <2>2, <2>3, <2>4 DEF ReplayInv, ReplayRecord, At, AtEvent, Entry, Event
  <2> QED BY <2>1, <2>5
<1>2. CASE fetchSignaturesSince
  <2>1. ReplayInv' /\ ~AtEvent' /\ ~At("advance")' /\ UNCHANGED <<log, dbVars>>
    BY <1>2, PageReplay DEF fetchSignaturesSince
  <2> QED BY <2>1, HistoryStays DEF Elsewhere, dbVars
<1>3. CASE replayTransaction
  <2>1. ReplayInv' /\ log' = log
    BY <1>3, FetchReplay DEF replayTransaction
  <2> QED BY <1>3, <2>1, HistoryStays
<1>4. CASE Persist
  BY <1>4, PersistReplay, HistoryStays
<1>5. CASE setCursor
  BY <1>5, AdvanceReplay, HistoryStays
<1>6. CASE ReplayThrows \/ Crash
  <2>1. replay' = NoReplay /\ UNCHANGED <<log, dbVars>>
    BY <1>6 DEF ReplayThrows, Crash
  <2>2. cursor' \in 0..Len(log') /\ Len(log') \in Nat
    BY <2>1 DEF ReplayInv, HistoryInv, dbVars
  <2>3. ReplayInv' /\ ~AtEvent' /\ ~At("advance")'
    BY <2>1, <2>2, ReplayEnds DEF NoReplay, AtEvent, At
  <2> QED BY <2>1, <2>3, HistoryStays DEF Elsewhere, dbVars
<1>7. ASSUME UNCHANGED <<log, cursor, replay, trades, redemptions, pricePoints, volumePoints>>,
             UNCHANGED rows \/ \E t \in Tasks : updateRow(t)
      PROVE  HistoryInv' /\ ReplayInv' /\ Elsewhere
  <2>1. ReplayInv'
    BY <1>7 DEF ReplayInv, ReplayRecord, At, AtEvent, Entry, Event
  <2> QED BY <1>7, <2>1, HistoryStays DEF Elsewhere
<1>8. ASSUME NEW t \in Tasks, tailOnce(t) PROVE HistoryInv' /\ ReplayInv' /\ Elsewhere
  <2>1. UNCHANGED <<log, dbVars>>
    BY <1>8 DEF tailOnce
  <2>2. CASE ~At("off")
    BY <1>7, <1>8, <2>1, <2>2 DEF tailOnce, dbVars
  <2>3. CASE At("off")
    <3>1. replay' = [NoReplay EXCEPT !.at = "page", !.until = cursor]
      BY <1>8, <2>3 DEF tailOnce
    <3>2. ReplayRecord' /\ replay'.at = "page" /\ replay'.until = cursor /\ replay'.sigs = <<>>
      BY <3>1 DEF NoReplay, ReplayRecord
    <3>3. ~AtEvent' /\ ~At("advance")' /\ ~At("fetch")' /\ ~At("opening")' /\ ~At("write")'
      BY <3>2 DEF AtEvent, At
    <3>4. replay'.sigs \in Seq(1..Len(log')) /\ Descending(replay'.sigs)
      BY <3>2 DEF Descending
    <3>5. cursor' \in 0..Len(log') /\ cursor' = cursor
      BY <2>1 DEF ReplayInv, dbVars
    <3>6. ReplayInv'
      BY <3>2, <3>3, <3>4, <3>5 DEF ReplayInv
    <3> QED BY <2>1, <3>3, <3>6, HistoryStays DEF Elsewhere, dbVars
  <2> QED BY <2>2, <2>3
<1>9. ASSUME NEW t \in Tasks, fetchAccounts(t) \/ updateRow(t) \/ RefreshThrows(t)
      PROVE  HistoryInv' /\ ReplayInv' /\ Elsewhere
  BY <1>7, <1>9 DEF fetchAccounts, updateRow, RefreshThrows, dbVars
<1>10. CASE StartTick \/ UNCHANGED ingestVars
  BY <1>7, <1>10 DEF StartTick, ingestVars, dbVars
<1> QED BY <1>1, <1>2, <1>3, <1>4, <1>5, <1>6, <1>8, <1>9, <1>10
        DEF IngestNext, ReplayStep, TaskStep

-----------------------------------------------------------------------------
(* The bookings. *)

\* A database just created satisfies the whole invariant.
LEMMA AtTheStart ==
  ASSUME IngestInit
  PROVE  /\ HistoryInv /\ ReplayInv /\ NotBeyond /\ BookInv
         /\ Due = {} /\ trades \union redemptions = {}
<1>1. /\ log = <<>> /\ log \in Seq(EntryType) /\ Len(log) = 0
      /\ cursor = 0 /\ trades = {} /\ redemptions = {} /\ replay = NoReplay
  BY DEF IngestInit, LogInit
<1>2. Positions = {}
  BY <1>1 DEF Positions
<1>3. /\ ReplayRecord /\ replay.at = "off" /\ replay.sigs = <<>> /\ ~At("page") /\ ~AtEvent
      /\ ~At("fetch") /\ ~At("advance") /\ ~At("opening") /\ ~At("write")
  BY <1>1 DEF NoReplay, ReplayRecord, At, AtEvent
<1>4. replay.sigs \in Seq(1..Len(log)) /\ Descending(replay.sigs)
  BY <1>3 DEF Descending
<1>5. HistoryInv
  BY <1>1, <1>2 DEF HistoryInv
<1>6. ReplayInv
  BY <1>1, <1>3, <1>4 DEF ReplayInv
<1> QED BY <1>1, <1>2, <1>3, <1>5, <1>6 DEF NotBeyond, BookInv, Due

\* Tables only grow, and rows stay.
LEMMA BookedStays ==
  ASSUME HistoryInv, ReplayInv, [IngestNext]_ingestVars
  PROVE  /\ DOMAIN rows \subseteq DOMAIN rows'
         /\ trades \subseteq trades' /\ redemptions \subseteq redemptions'
         /\ \A e \in Positions : e \in Positions' /\ EventAt(e)' = EventAt(e)
<1>1. log' = log => \A e \in Positions : e \in Positions' /\ EventAt(e)' = EventAt(e)
  BY DEF Positions, EventAt
<1>2. CASE Submit /\ Grows /\ UNCHANGED <<dbVars, replay>>
  BY <1>2, OldStays DEF dbVars
<1>3. CASE Persist
  BY <1>1, <1>3 DEF Persist, persistCreated, openingPoint, lookUpTrade, persistTrade,
     persistRedeem, persistSet, persistLifecycle, dbVars
<1>4. CASE setCursor \/ replayTransaction
  BY <1>1, <1>4 DEF setCursor, replayTransaction, dbVars
<1>5. CASE Elsewhere
  BY <1>1, <1>5 DEF Elsewhere, updateRow
<1> QED BY <1>2, <1>3, <1>4, <1>5, StepKinds

\* A booking is of the event at hand, in its table.
Books(e) ==
  /\ AtEvent /\ e = Key /\ UNCHANGED <<log, cursor>>
  /\ \/ /\ EventAt(e).kind = "trade" /\ e \notin trades
        /\ trades' = trades \union {e} /\ UNCHANGED redemptions
     \/ /\ EventAt(e).kind = "redeem" /\ UNCHANGED trades
        /\ redemptions' = redemptions \union {e}

\* A step books nothing, or one event, the one that is due.
LEMMA BookingSteps ==
  ASSUME HistoryInv, ReplayInv, [IngestNext]_ingestVars
  PROVE  UNCHANGED <<trades, redemptions>> \/ \E e \in Due : Books(e)
<1>1. ASSUME Persist PROVE UNCHANGED <<trades, redemptions>> \/ \E e \in Due : Books(e)
  <2>1. AtEvent /\ UNCHANGED <<log, cursor>> /\ Key \in Positions /\ EventAt(Key) = Event
    BY <1>1, PersistReplay, KeyIs
  <2>2. CASE persistTrade
    <3>1. Event.kind = "trade"
      BY <2>2 DEF persistTrade, ReplayInv
    <3>2. Key \in Due /\ Books(Key)
      BY <2>1, <2>2, <3>1 DEF persistTrade, Books, Due
    <3> QED BY <3>2
  <2>3. CASE persistRedeem
    <3>1. Event.kind = "redeem" /\ UNCHANGED trades
      BY <2>3 DEF persistRedeem
    <3>2. UNCHANGED redemptions \/ redemptions' = redemptions \union {Key}
      BY <2>3 DEF persistRedeem
    <3>3. Key \in Due
      BY <2>1, <3>1 DEF Due
    <3>4. redemptions' = redemptions \union {Key} => Books(Key)
      BY <2>1, <3>1 DEF Books
    <3> QED BY <3>1, <3>2, <3>3, <3>4
  <2> QED BY <1>1, <2>2, <2>3 DEF Persist, persistCreated, openingPoint, lookUpTrade,
             persistSet, persistLifecycle, dbVars
<1> QED BY <1>1, StepKinds DEF setCursor, replayTransaction, Elsewhere, dbVars

\* No step books an event the cursor has not come to.
LEMMA NotBeyondStep ==
  ASSUME HistoryInv, ReplayInv, NotBeyond, [IngestNext]_ingestVars
  PROVE  NotBeyond'
<1>1. cursor \in Nat /\ cursor' \in Nat /\ cursor <= cursor'
  <2>1. cursor \in Nat /\ (cursor' = cursor \/ cursor' = cursor + 1)
    <3>1. cursor \in Nat
      BY DEF ReplayInv
    <3>2. cursor' = cursor \/ cursor' = cursor + 1
      BY StepKinds, PersistReplay, AdvanceReplay DEF replayTransaction, Elsewhere, dbVars
    <3> QED BY <3>1, <3>2
  <2> QED BY <2>1
<1>2. ASSUME NEW e \in trades \union redemptions
      PROVE  /\ e \in Positions' /\ e[1] <= cursor' + 1
             /\ EventAt(e)'.kind = IF e \in trades THEN "trade" ELSE "redeem"
  <2>1. e \in Positions /\ e[1] <= cursor + 1 /\ e[1] \in Int
    BY EventTypes DEF NotBeyond, HistoryInv
  <2> QED BY <1>1, <2>1, BookedStays DEF NotBeyond
<1>3. CASE UNCHANGED <<trades, redemptions>>
  BY <1>2, <1>3 DEF NotBeyond
<1>4. ASSUME NEW b \in Due, Books(b) PROVE NotBeyond'
  <2>1. b \in Positions' /\ EventAt(b)' = EventAt(b) /\ b[1] = cursor + 1 /\ cursor' = cursor
    BY <1>4, KeyIs, BookedStays DEF Books, Due
  <2>2. ASSUME NEW e \in trades' \union redemptions'
        PROVE  /\ e \in Positions' /\ e[1] <= cursor' + 1
               /\ EventAt(e)'.kind = IF e \in trades' THEN "trade" ELSE "redeem"
    <3>1. CASE e = b
      <4>1. b \in trades => EventAt(b).kind = "trade"
        BY DEF NotBeyond
      <4> QED BY <1>1, <1>4, <2>1, <3>1, <4>1 DEF Books
    <3>2. CASE e # b
      <4>1. e \in trades \union redemptions /\ (e \in trades' <=> e \in trades)
        BY <1>4, <2>2, <3>2 DEF Books
      <4> QED BY <1>2, <4>1
    <3> QED BY <3>1, <3>2
  <2> QED BY <2>2 DEF NotBeyond
<1> QED BY <1>3, <1>4, BookingSteps

\* With no endpoint behind, an event is passed when it is booked and not before.
LEMMA PassedSteps ==
  ASSUME MaxLag = 0, HistoryInv, ReplayInv, [IngestNext]_ingestVars,
         NEW e \in Positions', Passed(e)'
  PROVE  \/ e \in Positions /\ Passed(e)
         \/ Persist /\ Booked /\ e = Key /\ UNCHANGED <<log, cursor>>
<1>0. /\ cursor \in Nat /\ Len(log) \in Nat /\ cursor <= Len(log)
      /\ HistoryInv' /\ ReplayInv' /\ log' \in Seq(EntryType) /\ e[1] \in Int /\ e[2] \in Int
  <2>1. HistoryInv' /\ ReplayInv' /\ log' \in Seq(EntryType)
    BY StepKinds DEF HistoryInv
  <2>2. e \in Positions' => e[1] \in 1..Len(log') /\ e[2] \in 1..Len(log'[e[1]].events)
    BY DEF Positions
  <2> QED BY <2>1, <2>2 DEF ReplayInv, HistoryInv
<1>1. log' = log => e \in Positions
  BY DEF Positions
<1>2. CASE Submit /\ Grows /\ UNCHANGED <<dbVars, replay>>
  <2>1. Passed(e)
    BY <1>2 DEF Passed, At, AtEvent, dbVars
  <2>2. e[1] <= Len(log)
    <3>1. AtEvent \/ At("advance") => replay.sigs # <<>> /\ Entry = cursor + 1
      BY DEF ReplayInv
    <3>2. replay.sigs # <<>> => Entry \in 1..Len(log)
      BY DescentFront DEF ReplayInv, Entry, HistoryInv
    <3> QED BY <1>0, <2>1, <3>1, <3>2 DEF Passed
  <2> QED BY <1>0, <1>2, <2>1, <2>2, OldStays
<1>3. CASE Persist
  <2>1. AtEvent /\ UNCHANGED <<log, cursor>> /\ Entry = cursor + 1 /\ e \in Positions
    BY <1>1, <1>3, PersistReplay, KeyIs
  <2>2. /\ replay.ix \in 1..Len(replay.events) /\ Len(replay.events) \in Nat
        /\ replay.events = log[Entry].events /\ e = <<e[1], e[2]>>
        /\ e[1] = Entry => e[2] \in 1..Len(replay.events)
    BY <2>1, KeyIs, EventTypes DEF ReplayInv, HistoryInv
  <2>3. CASE Booked
    <3>1. \/ replay.ix < Len(replay.events) /\ replay'.at = "persist" /\ replay'.ix = replay.ix + 1
          \/ replay.ix = Len(replay.events) /\ replay'.at = "advance"
      BY <2>1, <2>3, BookedMoves
    <3>2. e[1] <= cursor \/ (e[1] = cursor + 1 /\ e[2] <= replay.ix)
      BY <1>0, <2>1, <2>2, <3>1 DEF Passed, At, AtEvent
    <3>3. e[2] = replay.ix \/ e[2] < replay.ix \/ e[2] > replay.ix
      BY <1>0, <2>2
    <3>4. e[1] = cursor + 1 /\ e[2] = replay.ix => e = Key
      BY <2>1, <2>2 DEF Key
    <3> QED BY <1>0, <1>3, <2>1, <2>2, <2>3, <3>2, <3>3, <3>4 DEF Passed
  <2>4. CASE replay' = NoReplay
    BY <2>1, <2>4 DEF Passed, NoReplay, At, AtEvent
  <2>5. CASE replay'.at \in {"opening", "write"} /\ replay'.ix = replay.ix
    BY <2>1, <2>5 DEF Passed, At, AtEvent
  <2> QED BY <1>3, <2>3, <2>4, <2>5, PersistReplay
<1>4. CASE setCursor
  <2>1. log' = log /\ cursor' = cursor + 1 /\ At("advance") /\ ~AtEvent' /\ ~At("advance")'
    BY <1>4, AdvanceReplay
  <2> QED BY <1>0, <1>1, <2>1 DEF Passed
<1>5. CASE replayTransaction
  <2>1. UNCHANGED <<log, cursor>> /\ e \in Positions /\ e[2] \in 1..Len(log[e[1]].events)
    BY <1>1, <1>5, EventTypes DEF replayTransaction, dbVars, HistoryInv
  <2>2. Entry = cursor + 1
    BY <1>5 DEF replayTransaction, ReplayInv
  <2>3. CASE replay'.at = "advance" /\ log[Entry].events = <<>>
    <3>1. e[1] # cursor + 1
      BY <2>1, <2>2, <2>3
    <3> QED BY <2>1, <3>1 DEF Passed
  <2>4. CASE replay'.at = "persist" /\ replay'.ix = 1
    BY <2>1, <2>4 DEF Passed, At
  <2> QED BY <1>5, <2>3, <2>4, FetchReplay
<1>6. CASE Elsewhere
  BY <1>1, <1>6 DEF Elsewhere, Passed, At, AtEvent
<1> QED BY <1>2, <1>3, <1>4, <1>5, <1>6, StepKinds

\* At an event, what comes before it is passed.
LEMMA EarlierIsPassed ==
  ASSUME HistoryInv, ReplayInv, AtEvent, NEW c \in Positions, Ledger!Before(c, Key)
  PROVE  Passed(c)
<1>1. c[1] \in Int /\ Key[1] = cursor + 1 /\ Key[2] = replay.ix /\ cursor \in Nat
  BY KeyIs, EventTypes DEF HistoryInv
<1> QED BY <1>1 DEF Passed, Ledger!Before

\* By the time an event is replayed, the row of its market exists: the event that
\* created the market comes before it in the chain's order.
LEMMA MarketIsThere ==
  ASSUME HistoryInv, ReplayInv, BookInv, AtEvent, Event.kind # "created"
  PROVE  Market \in DOMAIN rows
<1>1. PICK c \in Positions : Creates(c, Market) /\ Ledger!Before(c, Key)
  BY KeyIs DEF HistoryInv, Market
<1>2. Passed(c)
  BY <1>1, EarlierIsPassed
<1> QED BY <1>1, <1>2 DEF BookInv, Creates

\* Which steps end the booking of an event.
LEMMA BookedKinds ==
  ASSUME HistoryInv, ReplayInv, Persist, Booked
  PROVE  \/ Event.kind = "created" /\ openingPoint /\ At("opening")
         \/ Event.kind = "trade" /\ lookUpTrade /\ (Key \in trades \/ Market \notin DOMAIN rows)
         \/ Event.kind = "trade" /\ persistTrade /\ At("write")
         \/ Event.kind = "redeem" /\ persistRedeem /\ Market \in DOMAIN rows
         \/ Event.kind = "setMint" /\ persistSet
         \/ Event.kind \in {"activate", "freeze", "resolve", "close"} /\ persistLifecycle
<1>1. replay'.at \in {"persist", "advance"} /\ ReplayRecord
  BY PersistReplay, BookedMoves DEF ReplayInv
<1>2. ~persistCreated
  <2> SUFFICES ASSUME persistCreated PROVE FALSE
    OBVIOUS
  <2>1. replay' = [replay EXCEPT !.at = "opening"]
    BY DEF persistCreated, Goto
  <2> QED BY <1>1, <2>1 DEF ReplayRecord
<1>3. CASE openingPoint
  BY <1>3 DEF openingPoint, ReplayInv
<1>4. CASE lookUpTrade
  <2>1. CASE ~(Key \in trades \/ Market \notin DOMAIN rows)
    <3>1. replay' = [replay EXCEPT !.at = "write", !.held = rows[Market].prices]
      BY <1>4, <2>1 DEF lookUpTrade
    <3> QED BY <1>1, <3>1 DEF ReplayRecord
  <2> QED BY <1>4, <2>1 DEF lookUpTrade
<1>5. CASE persistTrade
  BY <1>5 DEF persistTrade, ReplayInv
<1>6. CASE persistRedeem
  <2>1. CASE Market \notin DOMAIN rows
    <3>1. replay' = NoReplay
      BY <1>6, <2>1 DEF persistRedeem
    <3> QED BY <1>1, <3>1 DEF NoReplay
  <2> QED BY <1>6, <2>1 DEF persistRedeem
<1>7. CASE persistSet \/ persistLifecycle
  BY <1>7 DEF persistSet, persistLifecycle
<1> QED BY <1>2, <1>3, <1>4, <1>5, <1>6, <1>7 DEF Persist

\* Every event behind the cursor stays booked, when no endpoint is behind.
LEMMA BookStep ==
  ASSUME MaxLag = 0, HistoryInv, ReplayInv, NotBeyond, BookInv, [IngestNext]_ingestVars
  PROVE  BookInv'
<1>1. ASSUME NEW e \in Positions', Passed(e)'
      PROVE  /\ EventAt(e)'.kind = "created" => EventAt(e)'.market \in DOMAIN rows'
             /\ e \in Due' => e \in trades' \union redemptions'
  <2>1. CASE e \in Positions /\ Passed(e)
    BY <2>1, BookedStays DEF BookInv, Due
  <2>2. CASE Persist /\ Booked /\ e = Key /\ UNCHANGED <<log, cursor>>
    <3>1. /\ AtEvent /\ e \in Positions /\ EventAt(e) = Event /\ EventAt(e)' = Event
          /\ Event \in IndexedEvent
      BY <2>2, PersistReplay, KeyIs DEF EventAt
    <3>2. Event.kind = "created" => Market \in DOMAIN rows
      BY <2>2, BookedKinds DEF BookInv
    <3>3. Event.kind \in {"trade", "redeem"} => Market \in DOMAIN rows
      BY <3>1, MarketIsThere
    <3>4. Event.kind \in {"trade", "redeem"} => Key \in trades' \union redemptions'
      BY <2>2, <3>3, BookedKinds DEF lookUpTrade, persistTrade, persistRedeem, dbVars
    <3> QED BY <2>2, <3>1, <3>2, <3>4, BookedStays DEF Due, Market
  <2> QED BY <1>1, <2>1, <2>2, PassedSteps
<1>2. ASSUME At("opening")' PROVE Market' \in DOMAIN rows'
  <2>1. CASE UNCHANGED replay
    BY <1>2, <2>1, BookedStays DEF BookInv, At, Market, Event
  <2>2. CASE Persist
    <3>1. replay'.at = "opening" /\ ~Booked /\ At("persist")
      BY <1>2, <2>2, PersistReplay, BookedMoves DEF At, NoReplay
    <3>2. persistCreated
      <4>1. ~openingPoint /\ ~persistTrade /\ ~persistSet /\ ~persistLifecycle
        BY <3>1 DEF openingPoint, persistTrade, persistSet, persistLifecycle
      <4>2. ~lookUpTrade
        <5>1. lookUpTrade => Booked \/ replay' = [replay EXCEPT !.at = "write", !.held = rows[Market].prices]
          BY DEF lookUpTrade
        <5>2. replay' = [replay EXCEPT !.at = "write", !.held = rows[Market].prices]
                => replay'.at = "write"
          BY DEF ReplayInv, ReplayRecord
        <5> QED BY <3>1, <5>1, <5>2
      <4>3. ~persistRedeem
        BY <3>1 DEF persistRedeem, NoReplay
      <4> QED BY <2>2, <4>1, <4>2, <4>3 DEF Persist
    <3>3. Market' = Market
      BY <3>2 DEF persistCreated, Goto, Market, Event, ReplayInv, ReplayRecord
    <3> QED BY <3>2, <3>3 DEF persistCreated
  <2>3. CASE replayTransaction \/ setCursor \/ (~AtEvent' /\ ~At("advance")')
    BY <1>2, <2>3, FetchReplay, AdvanceReplay DEF At, AtEvent
  <2> QED BY <2>1, <2>2, <2>3, StepKinds DEF Elsewhere
<1> QED BY <1>1, <1>2 DEF BookInv

-----------------------------------------------------------------------------
(* The tables: what a step adds to the sums and counts of a market.          *)

\* At any time there are finitely many events.
LEMMA FinitePositions ==
  ASSUME HistoryInv
  PROVE  IsFiniteSet(Positions)
<1>1. PICK n \in Nat : n = Len(log)
  BY DEF HistoryInv
<1> DEFINE Upto(m) == {e \in Positions : e[1] <= m}
           N == {m \in Nat : m <= n => IsFiniteSet(Upto(m))}
<1>2. \A e \in Positions : e[1] \in 1..n /\ e[2] \in 1..Len(log[e[1]].events) /\ e = <<e[1], e[2]>>
  BY <1>1, EventTypes DEF HistoryInv
<1>3. 0 \in N
  <2>1. Upto(0) = {}
    BY <1>2
  <2> QED BY <2>1, FS_EmptySet
<1>4. ASSUME NEW m \in Nat, m \in N PROVE m + 1 \in N
  <2> SUFFICES ASSUME m + 1 <= n PROVE IsFiniteSet(Upto(m + 1))
    OBVIOUS
  <2>1. IsFiniteSet(Upto(m))
    BY <1>4
  <2>2. PICK k \in Nat : k = Len(log[m + 1].events)
    <3>1. log[m + 1] \in EntryType
      BY <1>1 DEF HistoryInv
    <3> QED BY <3>1 DEF EntryType
  <2>3. IsFiniteSet({m + 1}) /\ IsFiniteSet(1..k)
    <3>1. IsFiniteSet({m + 1})
      BY FS_Singleton, Zenon
    <3>2. 1 \in Int /\ k \in Int
      OBVIOUS
    <3>3. IsFiniteSet(1..k)
      BY <3>2, FS_Interval
    <3> QED BY <3>1, <3>3
  <2>4. IsFiniteSet({m + 1} \X (1..k))
    BY <2>3, FS_Product
  <2>5. Upto(m + 1) \subseteq Upto(m) \cup ({m + 1} \X (1..k))
    <3>1. ASSUME NEW e \in Upto(m + 1), e \notin Upto(m) PROVE e \in {m + 1} \X (1..k)
      <4>1. e[1] = m + 1
        BY <1>2, <3>1
      <4> QED BY <1>2, <2>2, <3>1, <4>1
    <3> QED BY <3>1
  <2>6. IsFiniteSet(Upto(m) \cup ({m + 1} \X (1..k)))
    BY <2>1, <2>4, FS_Union
  <2> HIDE DEF Upto
  <2> QED BY <2>5, <2>6, FS_Subset
<1>5. n \in N
  <2> HIDE DEF N
  <2> QED BY <1>1, <1>3, <1>4, NatClosed
<1>6. Upto(n) = Positions
  BY <1>2
<1> QED BY <1>5, <1>6

\* The points of one market in a table, before and after one is appended.
LEMMA PointsAre ==
  ASSUME NEW P, NEW points \in Seq(P), NEW m
  PROVE  /\ IsFiniteSet(PointsOf(points, m)) /\ Len(points) \in Nat
         /\ Len(points) + 1 \notin PointsOf(points, m)
         /\ \A i \in PointsOf(points, m) : i \in 1..Len(points)
         /\ \A p \in P : PointsOf(Append(points, p), m)
              = IF p.market = m THEN PointsOf(points, m) \cup {Len(points) + 1}
                ELSE PointsOf(points, m)
<1>1. Len(points) \in Nat /\ DOMAIN points = 1..Len(points)
  OBVIOUS
<1>2. IsFiniteSet(1..Len(points)) /\ PointsOf(points, m) \subseteq 1..Len(points)
  BY <1>1, FS_Interval DEF PointsOf
<1>3. IsFiniteSet(PointsOf(points, m))
  BY <1>2, FS_Subset
<1>4. ASSUME NEW p \in P
      PROVE  PointsOf(Append(points, p), m)
               = IF p.market = m THEN PointsOf(points, m) \cup {Len(points) + 1}
                 ELSE PointsOf(points, m)
  <2>1. /\ DOMAIN Append(points, p) = 1..(Len(points) + 1)
        /\ Append(points, p)[Len(points) + 1] = p
        /\ \A i \in 1..Len(points) : Append(points, p)[i] = points[i]
    OBVIOUS
  <2>2. 1..(Len(points) + 1) = (1..Len(points)) \cup {Len(points) + 1}
    BY <1>1
  <2> QED BY <1>1, <2>1, <2>2 DEF PointsOf
<1> QED BY <1>1, <1>2, <1>3, <1>4

\* An appended point adds its volume to the sum of its market and to no other.
LEMMA VolumeAdded ==
  ASSUME volumePoints \in Seq(VolumeType), NEW p \in VolumeType,
         volumePoints' = Append(volumePoints, p), NEW m
  PROVE  VolumeSum(m)' = VolumeSum(m) + IF p.market = m THEN p.volume ELSE 0
<1> DEFINE S == PointsOf(volumePoints, m)
           w == VolumeAt
           v == VolumeAt'
<1>1. PICK n \in Nat : n = Len(volumePoints)
  OBVIOUS
<1>2. /\ IsFiniteSet(S) /\ n + 1 \notin S /\ \A i \in S : i \in 1..n
      /\ PointsOf(volumePoints', m) = IF p.market = m THEN S \cup {n + 1} ELSE S
  BY <1>1, PointsAre
<1>3. \A i \in 1..n : w[i] = v[i] /\ w[i] \in Int /\ v[i] \in Int
  <2>1. \A i \in 1..n : /\ i \in DOMAIN volumePoints /\ i \in DOMAIN volumePoints'
                       /\ volumePoints'[i] = volumePoints[i] /\ volumePoints[i] \in VolumeType
    BY <1>1
  <2> QED BY <2>1 DEF VolumeAt, VolumeType
<1>4. v[n + 1] = p.volume /\ p.volume \in Int
  BY <1>1 DEF VolumeAt, VolumeType
<1> HIDE DEF S, w, v
<1>5. SumOver(w, S) = SumOver(v, S)
  BY <1>2, <1>3, SumSame
<1>6. SumOver(v, S) \in Int
  BY <1>2, <1>3, SumInt
<1>7. SumOver(v, S \cup {n + 1}) = SumOver(v, S) + v[n + 1]
  <2>1. \A i \in S \cup {n + 1} : v[i] \in Int
    BY <1>2, <1>3, <1>4
  <2> QED BY <1>2, <2>1, SumAdd
<1>8. VolumeSum(m) = SumOver(w, S) /\ VolumeSum(m)' = SumOver(v, PointsOf(volumePoints', m))
  BY DEF VolumeSum, PointsOf, S, w, v
<1> QED BY <1>2, <1>4, <1>5, <1>6, <1>7, <1>8

\* An appended point adds one to the count of its market and to no other.
LEMMA PointAdded ==
  ASSUME pricePoints \in Seq(PointType), NEW p \in PointType,
         pricePoints' = Append(pricePoints, p), NEW m
  PROVE  /\ PointCount(m) \in Nat
         /\ PointCount(m)' = PointCount(m) + IF p.market = m THEN 1 ELSE 0
<1>1. /\ IsFiniteSet(PointsOf(pricePoints, m))
      /\ Len(pricePoints) + 1 \notin PointsOf(pricePoints, m)
      /\ PointsOf(pricePoints', m) = IF p.market = m
           THEN PointsOf(pricePoints, m) \cup {Len(pricePoints) + 1} ELSE PointsOf(pricePoints, m)
  BY PointsAre
<1>2. PointCount(m)' = Cardinality(PointsOf(pricePoints', m))
  BY DEF PointCount, PointsOf
<1> DEFINE S == PointsOf(pricePoints, m)
<1> HIDE DEF S
<1>3. IsFiniteSet(S) /\ Len(pricePoints) + 1 \notin S
  BY <1>1 DEF S
<1>4. Cardinality(S) \in Nat /\ Cardinality(S \cup {Len(pricePoints) + 1}) = Cardinality(S) + 1
  BY <1>3, FS_AddElement, FS_CardinalityType
<1> QED BY <1>1, <1>2, <1>4 DEF PointCount, S

\* The sums and counts the tables are compared by are sums and counts of finite sets.
LEMMA NumbersAre ==
  ASSUME HistoryInv, NotBeyond, TablesType, NEW m
  PROVE  /\ TradesOf(m) \in SUBSET Positions /\ IsFiniteSet(TradesOf(m))
         /\ \A e \in Positions : AmountAt[e] = EventAt(e).amount /\ AmountAt[e] \in Nat
         /\ TradeSum(m) \in Int /\ VolumeSum(m) \in Int
         /\ TradeCount(m) \in Nat /\ PointCount(m) \in Nat
         /\ IsFiniteSet(Opened(m)) /\ OpenCount(m) \in Nat
<1>1. TradesOf(m) \in SUBSET Positions /\ Opened(m) \in SUBSET Positions
  BY DEF TradesOf, NotBeyond, Opened, CreationsOf
<1>2. IsFiniteSet(TradesOf(m)) /\ IsFiniteSet(Opened(m))
  BY <1>1, FinitePositions, FS_Subset
<1>3. \A e \in Positions : AmountAt[e] = EventAt(e).amount /\ AmountAt[e] \in Nat
  BY EventTypes DEF AmountAt, HistoryInv, IndexedEvent
<1>4. TradeSum(m) \in Int
  <2>1. \A e \in TradesOf(m) : AmountAt[e] \in Int
    BY <1>1, <1>3
  <2> QED BY <1>2, <2>1, SumInt DEF TradeSum
<1>5. VolumeSum(m) \in Int
  <2>1. volumePoints \in Seq(VolumeType)
    BY DEF TablesType
  <2>2. /\ IsFiniteSet(PointsOf(volumePoints, m))
        /\ \A i \in PointsOf(volumePoints, m) : i \in 1..Len(volumePoints)
    BY <2>1, PointsAre
  <2>3. \A i \in PointsOf(volumePoints, m) : VolumeAt[i] \in Int
    <3>1. \A i \in 1..Len(volumePoints) : i \in DOMAIN volumePoints /\ volumePoints[i] \in VolumeType
      BY <2>1
    <3>2. \A i \in 1..Len(volumePoints) : VolumeAt[i] \in Int
      BY <3>1 DEF VolumeAt, VolumeType
    <3> QED BY <2>2, <3>2
  <2> QED BY <2>2, <2>3, SumInt DEF VolumeSum
<1>6. PointCount(m) \in Nat
  <2>1. IsFiniteSet(PointsOf(pricePoints, m))
    BY PointsAre DEF TablesType
  <2> QED BY <2>1, FS_CardinalityType DEF PointCount
<1> QED BY <1>1, <1>2, <1>3, <1>4, <1>5, <1>6, FS_CardinalityType DEF TradeCount, OpenCount

\* A longer log changes no sum over the trades booked before.
LEMMA TradesSame ==
  ASSUME HistoryInv, NotBeyond, TablesType, Grows, trades' = trades, NEW m
  PROVE  TradeSum(m)' = TradeSum(m) /\ TradeCount(m)' = TradeCount(m)
<1>1. \A e \in trades : e \in Positions /\ e \in Positions' /\ EventAt(e)' = EventAt(e)
  BY OldStays DEF NotBeyond
<1>2. TradesOf(m)' = TradesOf(m)
  BY <1>1 DEF TradesOf
<1> DEFINE w == AmountAt
           v == AmountAt'
<1>3. \A e \in TradesOf(m) : w[e] = v[e]
  BY <1>1 DEF AmountAt, TradesOf
<1> HIDE DEF w, v
<1>4. SumOver(w, TradesOf(m)) = SumOver(v, TradesOf(m))
  BY <1>3, NumbersAre, SumSame
<1> QED BY <1>2, <1>4 DEF TradeSum, TradeCount, w, v

\* A trade booked adds its amount to the sum of its market and to no other.
LEMMA TradeAdded ==
  ASSUME HistoryInv, NotBeyond, TablesType, log' = log, NEW e \in Positions, e \notin trades,
         trades' = trades \union {e}, NEW m
  PROVE  /\ TradeSum(m)' = TradeSum(m) + IF EventAt(e).market = m THEN EventAt(e).amount ELSE 0
         /\ TradeCount(m)' = TradeCount(m) + IF EventAt(e).market = m THEN 1 ELSE 0
<1>1. \A c : EventAt(c)' = EventAt(c)
  BY DEF EventAt
<1>2. AmountAt' = AmountAt
  BY DEF AmountAt, Positions, EventAt
<1>3. TradesOf(m)' = IF EventAt(e).market = m THEN TradesOf(m) \cup {e} ELSE TradesOf(m)
  BY <1>1 DEF TradesOf
<1>4. e \notin TradesOf(m)
  BY DEF TradesOf
<1>5. IsFiniteSet(TradesOf(m)) /\ \A c \in TradesOf(m) \cup {e} : AmountAt[c] \in Int
  BY NumbersAre
<1> DEFINE w == AmountAt
           S == TradesOf(m)
<1>6. AmountAt[e] = EventAt(e).amount /\ TradeSum(m) \in Int /\ TradeCount(m) \in Nat
  BY NumbersAre
<1>7. SumOver(w, S \cup {e}) = SumOver(w, S) + w[e]
  <2> HIDE DEF w, S
  <2> QED BY <1>4, <1>5, SumAdd DEF w, S
<1>8. Cardinality(S \cup {e}) = Cardinality(S) + 1
  BY <1>4, <1>5, FS_AddElement
<1> QED BY <1>2, <1>3, <1>6, <1>7, <1>8 DEF TradeSum, TradeCount

FinitelyMany == IsFiniteSet(Positions)
\* The same holds after every step.
LEMMA FiniteThen == HistoryInv' => FinitelyMany'
<1>1. HistoryInv => FinitelyMany
  BY FinitePositions DEF FinitelyMany
<1> QED BY <1>1, PTL

LEMMA OpensStay ==
  ASSUME HistoryInv, HistoryInv', Grows, pricePoints \in Seq(PointType),
         \/ pricePoints' = pricePoints
         \/ \E p \in PointType : pricePoints' = Append(pricePoints, p),
         NEW m
  PROVE  Opened(m) \subseteq Opened(m)' /\ OpenCount(m) <= OpenCount(m)'
<1>1. \A i \in DOMAIN pricePoints : i \in DOMAIN pricePoints' /\ pricePoints'[i] = pricePoints[i]
  OBVIOUS
<1>2. \A c \in Positions : /\ c \in Positions' /\ EventAt(c)' = EventAt(c)
                          /\ log'[c[1]].slot = log[c[1]].slot
  BY OldStays, EventTypes DEF Grows, HistoryInv
<1>3. Opened(m) \subseteq Opened(m)'
  BY <1>1, <1>2 DEF Opened, CreationsOf
<1>4. Opened(m)' \subseteq Positions' /\ IsFiniteSet(Positions')
  BY FiniteThen DEF Opened, CreationsOf, FinitelyMany
<1>5. IsFiniteSet(Opened(m)')
  BY <1>4, FS_Subset
<1>6. Cardinality(Opened(m)) <= Cardinality(Opened(m)')
  BY <1>3, <1>5, FS_Subset
<1> QED BY <1>3, <1>6 DEF OpenCount

\* The steps after which the tables of every market agree as before.
LEMMA RowsKept ==
  ASSUME HistoryInv, HistoryInv', NotBeyond, TablesInv, Grows,
         UNCHANGED <<trades, pricePoints, volumePoints>>,
         DOMAIN rows' = DOMAIN rows,
         \A m \in DOMAIN rows : RowShape(rows'[m]) /\ rows'[m].volume = rows[m].volume
  PROVE  /\ TablesType'
         /\ \A m \in Markets : IF m \in DOMAIN rows' THEN Agrees(m)' ELSE Untouched(m)'
<1>1. TablesType /\ pricePoints \in Seq(PointType)
  BY DEF TablesInv, TablesType
<1>2. TablesType'
  BY <1>1 DEF TablesType
<1>3. ASSUME NEW m \in Markets
      PROVE  IF m \in DOMAIN rows' THEN Agrees(m)' ELSE Untouched(m)'
  <2>1. /\ TradeSum(m)' = TradeSum(m) /\ TradeCount(m)' = TradeCount(m)
        /\ TradeCount(m) \in Nat /\ PointCount(m) \in Nat /\ OpenCount(m) \in Nat
    BY <1>1, TradesSame, NumbersAre
  <2>2. VolumeSum(m)' = VolumeSum(m) /\ PointCount(m)' = PointCount(m)
    BY DEF VolumeSum, PointCount, PointsOf, VolumeAt
  <2>3. OpenCount(m) <= OpenCount(m)' /\ OpenCount(m)' \in Nat
    <3>1. Opened(m)' \subseteq Positions' /\ IsFiniteSet(Positions')
      BY FiniteThen DEF Opened, CreationsOf, FinitelyMany
    <3>2. IsFiniteSet(Opened(m)')
      BY <3>1, FS_Subset
    <3>3. OpenCount(m)' \in Nat
      BY <3>2, FS_CardinalityType DEF OpenCount
    <3> QED BY <1>1, <3>3, OpensStay
  <2>4. CASE m \in DOMAIN rows
    <3>1. Agrees(m)
      BY <2>4 DEF TablesInv
    <3> QED BY <2>1, <2>2, <2>3, <2>4, <3>1 DEF Agrees
  <2>5. CASE m \notin DOMAIN rows
    <3>1. Untouched(m)
      BY <2>5 DEF TablesInv
    <3> QED BY <2>1, <2>2, <2>5, <3>1 DEF Untouched
  <2> QED BY <2>4, <2>5
<1> QED BY <1>2, <1>3

\* A row is there from its market's creation on.
LEMMA RowIsThere ==
  ASSUME HistoryInv, HistoryInv', ReplayInv, ReplayInv', NotBeyond, TablesInv, [IngestNext]_ingestVars
  PROVE  At("opening")' \/ At("write")' => Market' \in DOMAIN rows'
<1> SUFFICES ASSUME At("opening")' \/ At("write")' PROVE Market' \in DOMAIN rows'
  OBVIOUS
<1>1. CASE UNCHANGED replay
  BY <1>1, BookedStays DEF TablesInv, At, Market, Event
<1>2. CASE Persist
  <2>1. replay'.at \in {"opening", "write"} /\ ~Booked /\ At("persist") /\ replay' # NoReplay
    BY <1>2, PersistReplay, BookedMoves DEF At, NoReplay
  <2>2. ~openingPoint /\ ~persistTrade /\ ~persistSet /\ ~persistLifecycle /\ ~persistRedeem
    BY <2>1 DEF openingPoint, persistTrade, persistSet, persistLifecycle, persistRedeem
  <2>3. CASE persistCreated
    <3>1. Market' = Market
      BY <2>3 DEF persistCreated, Goto, Market, Event, ReplayInv, ReplayRecord
    <3> QED BY <2>3, <3>1 DEF persistCreated
  <2>4. CASE lookUpTrade
    <3>1. /\ Market \in DOMAIN rows /\ rows' = rows
          /\ replay' = [replay EXCEPT !.at = "write", !.held = rows[Market].prices]
      BY <2>1, <2>4 DEF lookUpTrade, dbVars
    <3>2. Market' = Market
      BY <3>1 DEF Market, Event, ReplayInv, ReplayRecord
    <3> QED BY <3>1, <3>2
  <2> QED BY <1>2, <2>2, <2>3, <2>4 DEF Persist
<1>3. CASE replayTransaction \/ setCursor \/ (~AtEvent' /\ ~At("advance")')
  BY <1>3, FetchReplay, AdvanceReplay DEF At, AtEvent
<1> QED BY <1>1, <1>2, <1>3, StepKinds DEF Elsewhere

Told ==
  TablesType /\ \A m \in Markets : IF m \in DOMAIN rows THEN Agrees(m) ELSE Untouched(m)

\* A log that stays the same has grown, by nothing.
LEMMA SameLog ==
  ASSUME HistoryInv, log' = log
  PROVE  Grows
BY DEF HistoryInv, Grows

\* The new row of a market starts with nothing, and so do its tables.
LEMMA CreatedTold ==
  ASSUME HistoryInv, HistoryInv', ReplayInv, NotBeyond, TablesInv, persistCreated
  PROVE  Told'
<1>1. /\ AtEvent /\ log' = log /\ UNCHANGED <<trades, pricePoints, volumePoints>>
      /\ rows' = IF Market \in DOMAIN rows THEN rows
                 ELSE [m \in DOMAIN rows \union {Market} |->
                         IF m = Market THEN NewRow(Event) ELSE rows[m]]
  BY DEF persistCreated, At, AtEvent
<1>2. Market \in Markets
  BY <1>1, KeyIs DEF Market, IndexedEvent
<1>3. TablesType /\ pricePoints \in Seq(PointType)
  BY DEF TablesInv, TablesType
<1>4. CASE Market \in DOMAIN rows
  BY <1>1, <1>3, <1>4, RowsKept, SameLog DEF Told, TablesType
<1>5. CASE Market \notin DOMAIN rows
  <2>1. /\ DOMAIN rows' = DOMAIN rows \union {Market} /\ rows'[Market] = NewRow(Event)
        /\ \A m \in DOMAIN rows : rows'[m] = rows[m]
    BY <1>1, <1>5
  <2>2. RowShape(NewRow(Event)) /\ NewRow(Event).volume = 0
    BY DEF RowShape, NewRow
  <2>3. TablesType'
    BY <1>1, <1>2, <1>3, <2>1, <2>2 DEF TablesType, RowShape
  <2>4. ASSUME NEW m \in Markets
        PROVE  IF m \in DOMAIN rows' THEN Agrees(m)' ELSE Untouched(m)'
    <3>1. /\ TradeSum(m)' = TradeSum(m) /\ TradeCount(m)' = TradeCount(m)
          /\ TradeCount(m) \in Nat /\ PointCount(m) \in Nat /\ OpenCount(m) \in Nat
      BY <1>1, <1>3, TradesSame, NumbersAre, SameLog
    <3>2. /\ VolumeSum(m)' = VolumeSum(m) /\ PointCount(m)' = PointCount(m)
          /\ OpenCount(m)' = OpenCount(m)
      BY <1>1 DEF VolumeSum, PointCount, PointsOf, VolumeAt, OpenCount, Opened, CreationsOf,
                  Positions, EventAt
    <3>3. CASE m \in DOMAIN rows
      <4>1. Agrees(m)
        BY <3>3 DEF TablesInv
      <4> QED BY <2>1, <3>1, <3>2, <3>3, <4>1 DEF Agrees
    <3>4. CASE m \notin DOMAIN rows
      <4>1. Untouched(m)
        BY <3>4 DEF TablesInv
      <4>2. CASE m = Market
        BY <2>1, <2>2, <3>1, <3>2, <4>1, <4>2 DEF Untouched, Agrees
      <4>3. CASE m # Market
        BY <2>1, <3>1, <3>2, <3>4, <4>1, <4>3 DEF Untouched
      <4> QED BY <4>2, <4>3
    <3> QED BY <3>3, <3>4
  <2> QED BY <2>3, <2>4 DEF Told
<1> QED BY <1>4, <1>5

\* The opening point is the first of its slot, so that one more creation has one.
LEMMA OpeningTold ==
  ASSUME HistoryInv, HistoryInv', ReplayInv, NotBeyond, TablesInv, openingPoint
  PROVE  Told'
<1>1. /\ AtEvent /\ At("opening") /\ log' = log /\ UNCHANGED <<rows, trades, volumePoints>>
      /\ Event.kind = "created" /\ Market \in DOMAIN rows
  BY DEF openingPoint, At, AtEvent, ReplayInv, TablesInv
<1>2. PICK mk \in Markets, e \in Positions :
        mk = Market /\ e = Key /\ EventAt(e) = Event /\ e[1] = Entry
  BY <1>1, KeyIs DEF Market, IndexedEvent, Key
<1>3. TablesType /\ pricePoints \in Seq(PointType)
  BY DEF TablesInv, TablesType
<1> DEFINE point == [market |-> mk, slot |-> log[e[1]].slot]
<1>4. CASE \E i \in DOMAIN pricePoints : pricePoints[i] = point
  <2>1. pricePoints' = pricePoints
    BY <1>2, <1>4 DEF openingPoint
  <2> QED BY <1>1, <1>3, <2>1, RowsKept, SameLog DEF Told, TablesType
<1>5. CASE ~\E i \in DOMAIN pricePoints : pricePoints[i] = point
  <2>1. pricePoints' = Append(pricePoints, point)
    BY <1>2, <1>5 DEF openingPoint
  <2>2. point \in PointType
    <3>1. log[e[1]] \in EntryType
      BY EventTypes DEF HistoryInv
    <3> QED BY <3>1 DEF PointType, EntryType
  <2>3. e \in CreationsOf(mk) /\ e \in CreationsOf(mk)'
    BY <1>1, <1>2 DEF CreationsOf, Market, Positions, EventAt
  <2>4. e \notin Opened(mk)
    BY <1>5 DEF Opened
  <2>5. e \in Opened(mk)'
    <3>1. /\ Len(pricePoints) + 1 \in DOMAIN pricePoints'
          /\ pricePoints'[Len(pricePoints) + 1] = point
      BY <1>3, <2>1
    <3> QED BY <1>1, <2>3, <3>1 DEF Opened
  <2>6. TablesType'
    BY <1>1, <1>3, <2>1, <2>2 DEF TablesType
  <2>7. ASSUME NEW m \in Markets
        PROVE  IF m \in DOMAIN rows' THEN Agrees(m)' ELSE Untouched(m)'
    <3>1. /\ TradeSum(m)' = TradeSum(m) /\ TradeCount(m)' = TradeCount(m)
          /\ TradeCount(m) \in Nat /\ OpenCount(m) \in Nat /\ OpenCount(m)' \in Nat
      <4>1. IsFiniteSet(Opened(m)')
        BY FiniteThen, FS_Subset DEF Opened, CreationsOf, FinitelyMany
      <4> QED BY <1>1, <1>3, <4>1, TradesSame, NumbersAre, SameLog, FS_CardinalityType
              DEF OpenCount
    <3>2. VolumeSum(m)' = VolumeSum(m)
      BY <1>1 DEF VolumeSum, PointsOf, VolumeAt
    <3>3. PointCount(m) \in Nat /\ PointCount(m)' = PointCount(m) + IF mk = m THEN 1 ELSE 0
      BY <1>3, <2>1, <2>2, PointAdded
    <3>4. Opened(m) \subseteq Opened(m)' /\ OpenCount(m) <= OpenCount(m)'
      BY <1>1, <1>3, <2>1, <2>2, OpensStay, SameLog
    <3>5. m = mk => OpenCount(m) + 1 <= OpenCount(m)'
      <4>1. IsFiniteSet(Opened(mk)) /\ IsFiniteSet(Opened(mk)')
        BY <1>3, NumbersAre, FiniteThen, FS_Subset DEF Opened, CreationsOf, FinitelyMany
      <4> SUFFICES ASSUME m = mk PROVE OpenCount(m) + 1 <= OpenCount(m)'
        OBVIOUS
      <4> DEFINE S == Opened(mk)
                 T == Opened(mk)'
      <4>2. S \cup {e} \subseteq T /\ e \notin S
        BY <2>4, <2>5, <3>4
      <4> HIDE DEF S, T
      <4>3. Cardinality(S \cup {e}) = Cardinality(S) + 1 /\ Cardinality(S \cup {e}) <= Cardinality(T)
        BY <4>1, <4>2, FS_AddElement, FS_Subset DEF S, T
      <4> QED BY <4>3 DEF OpenCount, S, T
    <3>6. CASE m \in DOMAIN rows
      <4>1. Agrees(m)
        BY <3>6 DEF TablesInv
      <4> QED BY <1>1, <3>1, <3>2, <3>3, <3>4, <3>5, <3>6, <4>1 DEF Agrees
    <3>7. CASE m \notin DOMAIN rows
      <4>1. Untouched(m) /\ m # mk
        BY <1>1, <1>2, <3>7 DEF TablesInv
      <4> QED BY <1>1, <3>1, <3>2, <3>3, <3>7, <4>1 DEF Untouched
    <3> QED BY <3>6, <3>7
  <2> QED BY <2>6, <2>7 DEF Told
<1> QED BY <1>4, <1>5

\* A row whose volume grows by an amount, and no other row.
GrowsBy(mk, amount) ==
  /\ DOMAIN rows' = DOMAIN rows
  /\ \A m \in DOMAIN rows : /\ RowShape(rows'[m])
       /\ rows'[m].volume = rows[m].volume + IF m = mk THEN amount ELSE 0

\* A trade is one more trade, one more point of each kind, and its amount.
LEMMA TradeTold ==
  ASSUME HistoryInv, HistoryInv', ReplayInv, NotBeyond, TablesInv, persistTrade
  PROVE  Told'
<1>1. /\ AtEvent /\ At("write") /\ log' = log /\ Market \in DOMAIN rows
      /\ Key \notin trades /\ trades' = trades \union {Key}
  BY DEF persistTrade, At, AtEvent, TablesInv
<1>2. PICK mk \in Markets, e \in Positions :
        mk = Market /\ e = Key /\ EventAt(e) = Event /\ e[1] = Entry
  BY <1>1, KeyIs DEF Market, IndexedEvent, Key
<1>3. /\ TablesType /\ pricePoints \in Seq(PointType) /\ volumePoints \in Seq(VolumeType)
      /\ RowShape(rows[mk]) /\ mk \in DOMAIN rows
  BY <1>1, <1>2 DEF TablesInv, TablesType
<1>4. /\ EventAt(e).market = mk /\ EventAt(e).amount \in Nat
      /\ log[e[1]].slot \in Nat
  BY <1>2, EventTypes DEF Market, HistoryInv, IndexedEvent, EntryType
<1> DEFINE amount == EventAt(e).amount
           point == [market |-> mk, slot |-> log[e[1]].slot]
           bought == [market |-> mk, slot |-> log[e[1]].slot, volume |-> amount]
<1>5. /\ pricePoints' = Append(pricePoints, point) /\ point \in PointType
      /\ volumePoints' = Append(volumePoints, bought) /\ bought \in VolumeType
  BY <1>2, <1>4 DEF persistTrade, PointType, VolumeType
<1>6. GrowsBy(mk, amount)
  <2> DEFINE prices == [replay.held EXCEPT ![Event.outcome] = Event.moves]
  <2>1. rows' = [rows EXCEPT ![mk].prices = prices, ![mk].volume = @ + amount]
    BY <1>2 DEF persistTrade
  <2> HIDE DEF prices, amount
  <2>2. /\ DOMAIN rows' = DOMAIN rows /\ \A m \in DOMAIN rows : m # mk => rows'[m] = rows[m]
        /\ rows'[mk] = [rows[mk] EXCEPT !.prices = prices, !.volume = @ + amount]
    BY <1>3, <2>1
  <2>3. rows'[mk] = [state |-> rows[mk].state, supply |-> rows[mk].supply, prices |-> prices,
                     volume |-> rows[mk].volume + amount]
    BY <1>3, <2>2 DEF RowShape
  <2>4. RowShape(rows'[mk]) /\ rows'[mk].volume = rows[mk].volume + amount
    BY <1>3, <1>4, <2>3 DEF RowShape, amount
  <2>5. \A m \in DOMAIN rows : RowShape(rows[m])
    BY <1>3 DEF TablesType
  <2> QED BY <2>2, <2>4, <2>5 DEF GrowsBy, RowShape
<1>7. TablesType'
  BY <1>3, <1>5, <1>6 DEF TablesType, GrowsBy
<1>8. ASSUME NEW m \in Markets
      PROVE  IF m \in DOMAIN rows' THEN Agrees(m)' ELSE Untouched(m)'
  <2>1. /\ TradeSum(m)' = TradeSum(m) + IF mk = m THEN amount ELSE 0
        /\ TradeCount(m)' = TradeCount(m) + IF mk = m THEN 1 ELSE 0
    BY <1>1, <1>2, <1>3, <1>4, TradeAdded
  <2>2. VolumeSum(m)' = VolumeSum(m) + IF mk = m THEN amount ELSE 0
    <3>1. VolumeSum(m)' = VolumeSum(m) + IF bought.market = m THEN bought.volume ELSE 0
      <4> HIDE DEF bought
      <4> QED BY <1>3, <1>5, VolumeAdded
    <3> QED BY <3>1
  <2>3. PointCount(m)' = PointCount(m) + IF mk = m THEN 1 ELSE 0
    BY <1>3, <1>5, PointAdded
  <2>4. OpenCount(m) <= OpenCount(m)' /\ OpenCount(m)' \in Nat
    <3>1. IsFiniteSet(Opened(m)')
      BY FiniteThen, FS_Subset DEF Opened, CreationsOf, FinitelyMany
    <3>2. OpenCount(m)' \in Nat
      BY <3>1, FS_CardinalityType DEF OpenCount
    <3> QED BY <1>1, <1>3, <1>5, <3>2, OpensStay, SameLog
  <2>5. /\ TradeSum(m) \in Int /\ VolumeSum(m) \in Int /\ TradeCount(m) \in Nat
        /\ PointCount(m) \in Nat /\ OpenCount(m) \in Nat /\ amount \in Nat
    BY <1>3, <1>4, NumbersAre
  <2> HIDE DEF amount
  <2>6. CASE m \in DOMAIN rows
    <3>1. Agrees(m) /\ m \in DOMAIN rows'
          /\ rows'[m].volume = rows[m].volume + IF mk = m THEN amount ELSE 0
      BY <1>6, <2>6 DEF TablesInv, GrowsBy
    <3>2. CASE mk = m
      BY <2>1, <2>2, <2>3, <2>4, <2>5, <3>1, <3>2 DEF Agrees
    <3>3. CASE mk # m
      BY <2>1, <2>2, <2>3, <2>4, <2>5, <3>1, <3>3 DEF Agrees
    <3> QED BY <3>2, <3>3
  <2>7. CASE m \notin DOMAIN rows
    <3>1. Untouched(m) /\ m # mk /\ m \notin DOMAIN rows'
      BY <1>3, <1>6, <2>7 DEF TablesInv, GrowsBy
    <3> QED BY <2>1, <2>2, <2>3, <2>5, <3>1 DEF Untouched
  <2> QED BY <2>6, <2>7
<1> QED BY <1>7, <1>8 DEF Told

\* A set's amount goes to the row and to a point, or to neither.
LEMMA SetTold ==
  ASSUME HistoryInv, HistoryInv', ReplayInv, NotBeyond, TablesInv, persistSet
  PROVE  Told'
<1>1. /\ AtEvent /\ log' = log /\ UNCHANGED <<trades, pricePoints>>
  BY DEF persistSet, At, AtEvent
<1>2. PICK mk \in Markets, e \in Positions :
        mk = Market /\ e = Key /\ EventAt(e) = Event /\ e[1] = Entry
  BY <1>1, KeyIs DEF Market, IndexedEvent, Key
<1>3. /\ TablesType /\ pricePoints \in Seq(PointType) /\ volumePoints \in Seq(VolumeType)
  BY DEF TablesInv, TablesType
<1>4. EventAt(e).amount \in Nat /\ log[e[1]].slot \in Nat
  BY EventTypes DEF HistoryInv, IndexedEvent, EntryType
<1> DEFINE amount == EventAt(e).amount
           bought == [market |-> mk, slot |-> log[e[1]].slot, volume |-> amount]
<1>5. CASE UNCHANGED <<volumePoints, rows>>
  BY <1>1, <1>3, <1>5, RowsKept, SameLog DEF Told, TablesType
<1>6. CASE ~UNCHANGED <<volumePoints, rows>>
  <2>1. /\ mk \in DOMAIN rows /\ volumePoints' = Append(volumePoints, bought)
        /\ rows' = [rows EXCEPT ![mk].volume = @ + amount]
    BY <1>2, <1>6 DEF persistSet
  <2>2. bought \in VolumeType
    BY <1>4 DEF VolumeType
  <2>3. GrowsBy(mk, amount)
    <3>1. RowShape(rows[mk]) /\ \A m \in DOMAIN rows : RowShape(rows[m])
      BY <1>3, <2>1 DEF TablesType
    <3> HIDE DEF amount
    <3>2. /\ DOMAIN rows' = DOMAIN rows /\ \A m \in DOMAIN rows : m # mk => rows'[m] = rows[m]
          /\ rows'[mk] = [rows[mk] EXCEPT !.volume = @ + amount]
      BY <2>1
    <3>3. rows'[mk] = [state |-> rows[mk].state, supply |-> rows[mk].supply,
                       prices |-> rows[mk].prices, volume |-> rows[mk].volume + amount]
      BY <3>1, <3>2 DEF RowShape
    <3>4. RowShape(rows'[mk]) /\ rows'[mk].volume = rows[mk].volume + amount
      BY <1>4, <3>1, <3>3 DEF RowShape, amount
    <3> QED BY <3>1, <3>2, <3>4 DEF GrowsBy, RowShape
  <2>4. TablesType'
    <3>1. volumePoints' \in Seq(VolumeType)
      <4> HIDE DEF bought
      <4> QED BY <1>3, <2>1, <2>2
    <3>2. pricePoints' = pricePoints /\ DOMAIN rows \subseteq Markets
      BY <1>1, <1>3 DEF TablesType
    <3> QED BY <1>3, <2>3, <3>1, <3>2 DEF TablesType, GrowsBy
  <2>5. ASSUME NEW m \in Markets
        PROVE  IF m \in DOMAIN rows' THEN Agrees(m)' ELSE Untouched(m)'
    <3>1. TradeSum(m)' = TradeSum(m) /\ TradeCount(m)' = TradeCount(m)
      BY <1>1, <1>3, TradesSame, SameLog
    <3>2. VolumeSum(m)' = VolumeSum(m) + IF mk = m THEN amount ELSE 0
      <4>1. VolumeSum(m)' = VolumeSum(m) + IF bought.market = m THEN bought.volume ELSE 0
        <5> HIDE DEF bought
        <5> QED BY <1>3, <2>1, <2>2, VolumeAdded
      <4> QED BY <4>1
    <3>3. PointCount(m)' = PointCount(m) /\ OpenCount(m)' = OpenCount(m)
      BY <1>1 DEF PointCount, PointsOf, OpenCount, Opened, CreationsOf, Positions, EventAt
    <3>4. TradeSum(m) \in Int /\ VolumeSum(m) \in Int /\ amount \in Nat
      BY <1>3, <1>4, NumbersAre
    <3> HIDE DEF amount
    <3>5. CASE m \in DOMAIN rows
      <4>1. Agrees(m) /\ m \in DOMAIN rows'
            /\ rows'[m].volume = rows[m].volume + IF mk = m THEN amount ELSE 0
        BY <2>3, <3>5 DEF TablesInv, GrowsBy
      <4> QED BY <3>1, <3>2, <3>3, <3>4, <4>1 DEF Agrees
    <3>6. CASE m \notin DOMAIN rows
      <4>1. Untouched(m) /\ m # mk /\ m \notin DOMAIN rows'
        BY <2>1, <2>3, <3>6 DEF TablesInv, GrowsBy
      <4> QED BY <3>1, <3>2, <3>3, <3>4, <4>1 DEF Untouched
    <3> QED BY <3>5, <3>6
  <2> QED BY <2>4, <2>5 DEF Told
<1> QED BY <1>5, <1>6

\* What refreshes a row or follows its life cycle leaves its volume.
LEMMA ShapeKept ==
  ASSUME NEW r, RowShape(r), NEW v
  PROVE  /\ RowShape([r EXCEPT !.state = v]) /\ [r EXCEPT !.state = v].volume = r.volume
         /\ RowShape([r EXCEPT !.supply = v]) /\ [r EXCEPT !.supply = v].volume = r.volume
         /\ RowShape([r EXCEPT !.prices = v]) /\ [r EXCEPT !.prices = v].volume = r.volume
<1> DEFINE x == [r EXCEPT !.state = v]
           y == [r EXCEPT !.supply = v]
           z == [r EXCEPT !.prices = v]
<1>1. x = [state |-> v, supply |-> r.supply, prices |-> r.prices, volume |-> r.volume]
  BY DEF RowShape
<1>2. y = [state |-> r.state, supply |-> v, prices |-> r.prices, volume |-> r.volume]
  BY DEF RowShape
<1>3. z = [state |-> r.state, supply |-> r.supply, prices |-> v, volume |-> r.volume]
  BY DEF RowShape
<1> HIDE DEF x, y, z
<1>4. RowShape(x) /\ x.volume = r.volume
  BY <1>1 DEF RowShape
<1>5. RowShape(y) /\ y.volume = r.volume
  BY <1>2 DEF RowShape
<1>6. RowShape(z) /\ z.volume = r.volume
  BY <1>3 DEF RowShape
<1> QED BY <1>4, <1>5, <1>6 DEF x, y, z

\* A change of state, and a refresh, leave the tables in agreement with the rows.
LEMMA OtherRowsTold ==
  ASSUME HistoryInv, HistoryInv', ReplayInv, NotBeyond, TablesInv,
         persistLifecycle \/ \E t \in Tasks : updateRow(t)
  PROVE  Told'
<1>1. log' = log /\ UNCHANGED <<trades, pricePoints, volumePoints>> /\ TablesType
  BY DEF persistLifecycle, updateRow, TablesInv
<1>2. \A m \in DOMAIN rows : RowShape(rows[m])
  BY <1>1 DEF TablesType
<1>3. /\ DOMAIN rows' = DOMAIN rows
      /\ \A m \in DOMAIN rows : RowShape(rows'[m]) /\ rows'[m].volume = rows[m].volume
  <2>1. CASE rows' = rows
    BY <1>2, <2>1
  <2>2. CASE persistLifecycle /\ rows' # rows
    <3>1. PICK k, s : k = Market /\ s = StateOf(Event.kind)
      OBVIOUS
    <3>2. rows' = [rows EXCEPT ![k].state = s]
      BY <2>2, <3>1 DEF persistLifecycle
    <3>3. /\ DOMAIN rows' = DOMAIN rows
          /\ \A m \in DOMAIN rows :
               rows'[m] = IF m = k THEN [rows[m] EXCEPT !.state = s] ELSE rows[m]
      BY <3>2
    <3>4. \A m \in DOMAIN rows : /\ RowShape([rows[m] EXCEPT !.state = s])
                               /\ [rows[m] EXCEPT !.state = s].volume = rows[m].volume
      BY <1>2, ShapeKept
    <3> QED BY <1>2, <3>3, <3>4
  <2>3. ASSUME NEW t \in Tasks, updateRow(t)
        PROVE  /\ DOMAIN rows' = DOMAIN rows
               /\ \A m \in DOMAIN rows : RowShape(rows'[m]) /\ rows'[m].volume = rows[m].volume
    <3>1. PICK k \in task[t].todo :
            rows' = [rows EXCEPT ![k].state = task[t].snap[k].state,
                                 ![k].supply = task[t].snap[k].supply,
                                 ![k].prices = [o \in Outcomes |-> task[t].snap[k].moves]]
      BY <2>3 DEF updateRow
    <3>2. PICK s, q, p : /\ s = task[t].snap[k].state /\ q = task[t].snap[k].supply
                         /\ p = [o \in Outcomes |-> task[t].snap[k].moves]
      OBVIOUS
    <3>3. rows' = [rows EXCEPT ![k].state = s, ![k].supply = q, ![k].prices = p]
      BY <3>1, <3>2
    <3>4. /\ DOMAIN rows' = DOMAIN rows
          /\ \A m \in DOMAIN rows :
               rows'[m] = IF m = k THEN [rows[m] EXCEPT !.state = s, !.supply = q, !.prices = p]
                          ELSE rows[m]
      BY <3>3
    <3>5. \A m \in DOMAIN rows :
            /\ RowShape([rows[m] EXCEPT !.state = s, !.supply = q, !.prices = p])
            /\ [rows[m] EXCEPT !.state = s, !.supply = q, !.prices = p].volume = rows[m].volume
      <4> TAKE m \in DOMAIN rows
      <4>1. PICK r : r = rows[m] /\ RowShape(r)
        BY <1>2
      <4>2. PICK x, y, z : /\ x = [r EXCEPT !.state = s] /\ y = [x EXCEPT !.supply = q]
                           /\ z = [y EXCEPT !.prices = p]
        OBVIOUS
      <4>3. RowShape(x) /\ x.volume = r.volume
        BY <4>1, <4>2, ShapeKept
      <4>4. RowShape(y) /\ y.volume = r.volume
        <5>1. /\ RowShape([x EXCEPT !.supply = q])
              /\ [x EXCEPT !.supply = q].volume = x.volume
          BY <4>3, ShapeKept, Zenon
        <5> QED BY <4>2, <4>3, <5>1
      <4>5. RowShape(z) /\ z.volume = r.volume
        <5>1. /\ RowShape([y EXCEPT !.prices = p])
              /\ [y EXCEPT !.prices = p].volume = y.volume
          BY <4>4, ShapeKept, Zenon
        <5> QED BY <4>2, <4>4, <5>1
      <4>6. z = [r EXCEPT !.state = s, !.supply = q, !.prices = p]
        BY <4>2
      <4> QED BY <4>1, <4>5, <4>6
    <3> QED BY <1>2, <3>4, <3>5
  <2> QED BY <2>1, <2>2, <2>3
<1> QED BY <1>1, <1>3, RowsKept, SameLog DEF Told

\* Every step keeps the tables in agreement.
LEMMA TablesStep ==
  ASSUME HistoryInv, ReplayInv, NotBeyond, TablesInv, [IngestNext]_ingestVars
  PROVE  TablesInv'
<1>1. HistoryInv' /\ ReplayInv'
  BY StepKinds
<1>2. ASSUME Grows, UNCHANGED <<rows, trades, pricePoints, volumePoints>> PROVE Told'
  <2>1. \A m \in DOMAIN rows : RowShape(rows'[m])
    BY <1>2 DEF TablesInv, TablesType
  <2> QED BY <1>1, <1>2, <2>1, RowsKept DEF Told
<1>3. Told'
  <2>1. CASE Submit /\ Grows /\ UNCHANGED <<dbVars, replay>>
    BY <1>2, <2>1 DEF dbVars
  <2>2. CASE Persist
    BY <1>1, <1>2, <2>2, CreatedTold, OpeningTold, TradeTold, SetTold, OtherRowsTold, SameLog
       DEF Persist, lookUpTrade, persistRedeem, dbVars
  <2>3. CASE setCursor \/ replayTransaction
    BY <1>2, <2>3, SameLog DEF setCursor, replayTransaction, dbVars
  <2>4. CASE Elsewhere
    BY <1>1, <1>2, <2>4, OtherRowsTold, SameLog DEF Elsewhere
  <2> QED BY <2>1, <2>2, <2>3, <2>4, StepKinds
<1> QED BY <1>1, <1>3, RowIsThere DEF TablesInv, Told

-----------------------------------------------------------------------------
(* Theorems. *)

IngestInv == HistoryInv /\ ReplayInv /\ NotBeyond

\* What holds whatever the endpoints return.
LEMMA IngestInvariant == IngestSpec => []IngestInv
<1>1. IngestInit => IngestInv
  BY AtTheStart DEF IngestInv
<1>2. IngestInv /\ [IngestNext]_ingestVars => IngestInv'
  BY StepKinds, NotBeyondStep DEF IngestInv
<1> QED BY <1>1, <1>2, PTL DEF IngestSpec

\* What holds when no endpoint is behind another.
LEMMA BookInvariant == ASSUME MaxLag = 0 PROVE IngestSpec => [](IngestInv /\ BookInv)
<1>1. IngestInit => IngestInv /\ BookInv
  BY AtTheStart DEF IngestInv
<1>2. IngestInv /\ BookInv /\ [IngestNext]_ingestVars => (IngestInv /\ BookInv)'
  BY StepKinds, NotBeyondStep, BookStep DEF IngestInv
<1> QED BY <1>1, <1>2, PTL DEF IngestSpec

\* Where every endpoint is at the head of the chain, the cursor vouches for the
\* history up to it and nothing is booked more than one transaction ahead of it,
\* whatever calls fail and wherever the process crashes between two writes.
THEOREM CursorAlwaysVouches == ASSUME MaxLag = 0 PROVE IngestSpec => []CursorVouches
<1>1. IngestInv /\ BookInv => CursorVouches
  <2>1. ASSUME IngestInv, BookInv, NEW e \in Due, e[1] <= cursor
        PROVE  e \in trades \union redemptions
    BY <2>1 DEF BookInv, Passed, Due
  <2> QED BY <2>1 DEF IngestInv, NotBeyond, CursorVouches, EachReplayed
<1> QED BY <1>1, BookInvariant, PTL

\* A step of the indexer produces, books the next entry, or changes nothing of
\* the ledger.
LEMMA LedgerStep ==
  ASSUME MaxLag = 0, IngestInv, BookInv, [IngestNext]_ingestVars
  PROVE  [Ledger!LedgerNext]_<<Due, trades \union redemptions>>
<1>1. HistoryInv /\ ReplayInv /\ NotBeyond
  BY DEF IngestInv
<1>2. ASSUME NEW b \in Due, Books(b)
      PROVE  [Ledger!LedgerNext]_<<Due, trades \union redemptions>>
  <2>1. Due' = Due /\ AtEvent /\ b = Key
    BY <1>2 DEF Books, Due, Positions, EventAt
  <2>2. (trades \union redemptions)' = (trades \union redemptions) \union {b}
    BY <1>2 DEF Books
  <2>3. CASE b \in trades \union redemptions
    BY <2>1, <2>2, <2>3
  <2>4. CASE b \notin trades \union redemptions
    <3>1. ASSUME NEW c \in Due, Ledger!Before(c, b) PROVE c \in trades \union redemptions
      <4>1. c \in Positions /\ Passed(c)
        BY <1>1, <2>1, <3>1, EarlierIsPassed DEF Due
      <4> QED BY <4>1 DEF BookInv
    <3> QED BY <2>1, <2>2, <2>4, <3>1 DEF Ledger!LedgerNext, Ledger!Book
  <2> QED BY <2>3, <2>4
<1>3. CASE UNCHANGED <<trades, redemptions>>
  <2>1. CASE log' = log
    BY <1>3, <2>1 DEF Due, Positions, EventAt
  <2>2. CASE Submit /\ Grows
    <3>1. Due \subseteq Due'
      BY <2>2, OldStays DEF Due
    <3>2. ASSUME NEW a \in Due, NEW b \in Due' \ Due PROVE Ledger!Before(a, b)
      <4>1. b \notin Positions
        BY <2>2, <3>2, OldStays DEF Due
      <4>2. b[1] > Len(log) /\ b[1] \in Int
        <5>1. b \in Positions' /\ log' \in Seq(EntryType)
          BY <1>1, <3>2, StepKinds DEF Due, HistoryInv
        <5> QED BY <2>2, <4>1, <5>1, OldStays DEF Positions
      <4>3. a[1] \in 1..Len(log) /\ Len(log) \in Nat
        BY <1>1, EventTypes DEF Due, HistoryInv
      <4> QED BY <4>2, <4>3 DEF Ledger!Before
    <3> QED BY <1>3, <3>1, <3>2 DEF Ledger!LedgerNext, Ledger!Produce
  <2> QED BY <1>1, <2>1, <2>2, StepKinds, PersistReplay, AdvanceReplay
          DEF replayTransaction, Elsewhere
<1> QED BY <1>1, <1>2, <1>3, BookingSteps

\* The indexer implements the ledger: whatever the interleaving of boot, tick,
\* failures and crashes, every trade and every redemption is booked once, in
\* the order of the chain, none skipped.
THEOREM IndexerImplementsLedger == ASSUME MaxLag = 0 PROVE IngestSpec => ImplementsLedger
<1>1. IngestInit => Ledger!LedgerInit
  BY AtTheStart DEF Ledger!LedgerInit
<1>2. IngestInv /\ BookInv /\ [IngestNext]_ingestVars
        => [Ledger!LedgerNext]_<<Due, trades \union redemptions>>
  BY LedgerStep
<1>3. [Ledger!LedgerNext]_<<Due, trades \union redemptions>> <=> [Ledger!LedgerNext]_(Ledger!ledgerVars)
  BY DEF Ledger!ledgerVars
<1> QED BY <1>1, <1>2, <1>3, BookInvariant, PTL DEF IngestSpec, ImplementsLedger, Ledger!LedgerSpec

\* Empty tables agree.
LEMMA TablesStart ==
  ASSUME IngestInit
  PROVE  TablesInv
<1>1. /\ rows = <<>> /\ trades = {} /\ pricePoints = <<>> /\ volumePoints = <<>>
      /\ replay = NoReplay
  BY DEF IngestInit
<1>2. TablesType
  BY <1>1 DEF TablesType
<1>3. ~At("opening") /\ ~At("write")
  BY <1>1 DEF NoReplay, At
<1>4. ASSUME NEW m PROVE Untouched(m)
  <2>1. PointsOf(volumePoints, m) = {} /\ PointsOf(pricePoints, m) = {} /\ TradesOf(m) = {}
    BY <1>1 DEF PointsOf, TradesOf
  <2> QED BY <2>1, SumEmpty, FS_EmptySet DEF Untouched, VolumeSum, TradeSum, PointCount, TradeCount
<1> QED BY <1>1, <1>2, <1>3, <1>4 DEF TablesInv

\* The tables of a market tell one story however often a transaction was
\* replayed, also where endpoints are behind: the volume of a row is the sum of
\* its points, and a chart has a point per trade and at most one per creation.
THEOREM TablesAlwaysAgree == IngestSpec => []TablesAgree
<1>1. IngestInit => IngestInv /\ TablesInv
  BY AtTheStart, TablesStart DEF IngestInv
<1>2. IngestInv /\ TablesInv /\ [IngestNext]_ingestVars => (IngestInv /\ TablesInv)'
  BY StepKinds, NotBeyondStep, TablesStep DEF IngestInv
<1>3. IngestInv /\ TablesInv => TablesAgree
  <2> SUFFICES ASSUME IngestInv, TablesInv, NEW m \in DOMAIN rows
               PROVE  /\ rows[m].volume = SumOver(VolumeAt, PointsOf(volumePoints, m))
                      /\ rows[m].volume >= SumOver(AmountAt, TradesOf(m))
                      /\ Cardinality(PointsOf(pricePoints, m)) - Cardinality(TradesOf(m))
                           \in 0..Cardinality(CreationsOf(m))
    BY DEF TablesAgree
  <2>1. HistoryInv /\ NotBeyond /\ TablesType /\ m \in Markets
    BY DEF IngestInv, TablesInv, TablesType
  <2>2. Agrees(m)
    BY <2>1 DEF TablesInv
  <2>3. PointCount(m) \in Nat /\ TradeCount(m) \in Nat /\ OpenCount(m) \in Nat
    BY <2>1, NumbersAre
  <2>4. OpenCount(m) <= Cardinality(CreationsOf(m)) /\ Cardinality(CreationsOf(m)) \in Nat
    <3>1. IsFiniteSet(CreationsOf(m))
      BY <2>1, FinitePositions, FS_Subset DEF CreationsOf
    <3>2. Opened(m) \subseteq CreationsOf(m)
      BY DEF Opened
    <3> QED BY <3>1, <3>2, FS_Subset, FS_CardinalityType DEF OpenCount
  <2>5. PointCount(m) - TradeCount(m) \in 0..Cardinality(CreationsOf(m))
    BY <2>2, <2>3, <2>4 DEF Agrees
  <2> QED BY <2>2, <2>5 DEF Agrees, VolumeSum, TradeSum, PointCount, TradeCount
<1> QED BY <1>1, <1>2, <1>3, PTL DEF IngestSpec

\* Nothing is booked that is not on the chain, nothing in the wrong table, and
\* nothing beyond the transaction after the cursor, endpoints behind or not.
THEOREM OnlyEventsAreBooked == IngestSpec => []NotBeyond
<1>1. IngestInv => NotBeyond
  BY DEF IngestInv
<1> QED BY <1>1, IngestInvariant, PTL
=============================================================================
