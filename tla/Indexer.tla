------------------------------ MODULE Indexer -------------------------------
(***************************************************************************)
(* The ingest of the indexer: the boot backfill and the polling tail share *)
(* one replay of the program's history, which books events in the database *)
(* and moves a cursor, and each of them may then refresh the market rows   *)
(* from the accounts.  A task runs alone from await to await; calls to the *)
(* RPC endpoints and to the database may fail, and the process may crash.  *)
(***************************************************************************)
EXTENDS ProgramLog, FiniteSets, Sums

CONSTANTS
  PAGE,           \* signatures per call (limit: 1000)
  MAX_ACCOUNTS,   \* accounts per getMultipleAccounts call (100, the RPC's limit)
  MaxLag,         \* transactions a fallback endpoint may be behind
  MaxFaults,      \* bound on failing calls
  MaxCrashes      \* bound on restarts

ASSUME IndexerConstants ==
  /\ Markets # {} /\ Outcomes # {}
  /\ PAGE \in Nat \ {0} /\ MAX_ACCOUNTS \in Nat \ {0}
  /\ MaxLag \in Nat /\ MaxFaults \in Nat /\ MaxCrashes \in Nat

VARIABLES
  cursor,        \* IndexerCursor.lastIndexedSignature, as a position; 0 is null
  rows,          \* markets table: market -> row, for the rows there are
  trades, redemptions,           \* tables keyed by (signature, eventIndex)
  pricePoints, volumePoints,     \* append-only tables
  replay,        \* the run of tailOnceInner under way (inFlight)
  task,          \* "boot" (run) and "tick" (TailService.tick)
  faults, crashes

dbVars == <<cursor, rows, trades, redemptions, pricePoints, volumePoints>>
ingestVars == <<log, dbVars, replay, task, faults, crashes>>

Tasks == {"boot", "tick"}
NoReplay == [at |-> "off", until |-> 0, sigs |-> <<>>, events |-> <<>>, ix |-> 0,
             held |-> <<>>, processed |-> 0]
Idle == [at |-> "idle", snap |-> <<>>, todo |-> {}]
Booting == [t \in Tasks |-> IF t = "boot" THEN [Idle EXCEPT !.at = "tail"] ELSE Idle]

IngestInit ==
  /\ LogInit
  /\ cursor = 0 /\ rows = <<>> /\ trades = {} /\ redemptions = {}
  /\ pricePoints = <<>> /\ volumePoints = <<>>
  /\ replay = NoReplay /\ task = Booting
  /\ faults = 0 /\ crashes = 0

-----------------------------------------------------------------------------
\* Parsing of a transaction's lines.

\* The programs running after each line, innermost last.
Frames(lines) ==
  LET stack[i \in 0..Len(lines)] ==
        IF i = 0 THEN <<>>
        ELSE CASE lines[i].is = "invoke" -> Append(stack[i - 1], lines[i].program)
               [] lines[i].is = "exit" -> Front(stack[i - 1])
               [] OTHER -> stack[i - 1]
  IN  stack

\* Only data written in the program's own frames count.
OwnPayload(lines, i) ==
  LET frames == Frames(lines)[i]
  IN  lines[i].is = "data" /\ frames # <<>> /\ Last(frames) = Self

Known(ev) == ev.kind \in EventKinds

\* The payloads of other instructions decode to nothing and are passed over.
decodeAmmEventsFromLogs(lines) ==
  LET Decodes(i) == lines[i].is = "data" /\ Known(lines[i].event)
      events[i \in 0..Len(lines)] ==
        IF i = 0 THEN <<>>
        ELSE IF Decodes(i) /\ OwnPayload(lines, i)
             THEN Append(events[i - 1], lines[i].event) ELSE events[i - 1]
  IN  events[Len(lines)]

-----------------------------------------------------------------------------
\* Calls.  withRetry asks the first endpoint, then the fallbacks, which may be
\* behind; it gives up when all of them fail.

Fail == faults < MaxFaults /\ faults' = faults + 1

Answer(view) == IF view = Len(log) THEN UNCHANGED faults ELSE Fail

Views == {view \in 0..Len(log) : Len(log) - view <= MaxLag}

At(step) == replay.at = step
Goto(step) == replay' = [replay EXCEPT !.at = step]
\* Broken: newest first.
Newest == Head(replay.sigs)
Entry == Last(replay.sigs)             \* oldest first
Event == replay.events[replay.ix]
Key == <<Entry, replay.ix>>
Market == Event.market

\* The tasks waiting for the replay go on when it returns: the boot refreshes
\* in any case, the tick only when something was processed.
Returned(processed) ==
  [t \in Tasks |->
     IF task[t].at # "await" THEN task[t]
     ELSE IF t = "boot" \/ processed > 0 THEN [Idle EXCEPT !.at = "refresh"] ELSE Idle]
\* Broken: the tick's flag is not reset when the replay throws.
Hang == task
\* Both swallow what it throws.
Threw == [t \in Tasks |-> IF task[t].at = "await" THEN Idle ELSE task[t]]

\* The timer: a tick is skipped while the last one is under way.
StartTick ==
  /\ task["tick"] = Idle
  /\ task' = [task EXCEPT !["tick"].at = "tail"]
  /\ UNCHANGED <<log, dbVars, replay, faults, crashes>>

\* One replay at a time; a second caller waits for the one under way.
tailOnce(t) ==
  /\ task[t].at = "tail"
  /\ task' = [task EXCEPT ![t].at = "await"]
  /\ replay' = IF At("off") THEN [NoReplay EXCEPT !.at = "page", !.until = cursor]
               ELSE replay
  /\ UNCHANGED <<log, dbVars, faults, crashes>>

\* One page of signatures newer than the cursor, newest first, below the last
\* one of the page before.
fetchSignaturesSince ==
  /\ At("page")
  /\ \E view \in Views :
       /\ Answer(view)
       /\ LET top == IF replay.sigs = <<>> THEN view ELSE Last(replay.sigs) - 1
              size == IF top - replay.until < PAGE THEN top - replay.until ELSE PAGE
              page == IF size <= 0 THEN <<>> ELSE [i \in 1..size |-> top + 1 - i]
              all == replay.sigs \o page
          IN  IF Len(page) = PAGE THEN replay' = [replay EXCEPT !.sigs = all] /\ UNCHANGED task
              ELSE IF all = <<>> THEN replay' = NoReplay /\ task' = Returned(0)
              ELSE /\ replay' = [replay EXCEPT !.sigs = all, !.at = "fetch"]
                   /\ UNCHANGED task
  /\ UNCHANGED <<log, dbVars, crashes>>

\* Broken: the cursor moves before the events are persisted.
CursorFirst ==
  /\ At("fetch")
  /\ LET events == IF log[Entry].err THEN <<>> ELSE decodeAmmEventsFromLogs(Lines(log[Entry].events))
     IN  replay' = [replay EXCEPT !.at = IF events = <<>> THEN "advance" ELSE "persist",
                                  !.events = events, !.ix = 1]
  /\ cursor' = Entry
  /\ UNCHANGED <<log, rows, trades, redemptions, pricePoints, volumePoints, task, faults, crashes>>

\* A failed transaction is passed over, and so is one the endpoint does not
\* know (yet): getTransaction answers null.
replayTransaction ==
  /\ At("fetch")
  /\ IF log[Entry].err THEN Goto("advance") /\ UNCHANGED faults
     ELSE \E view \in Views :
            /\ Answer(view)
            /\ LET events == IF Entry <= view
                             THEN decodeAmmEventsFromLogs(Lines(log[Entry].events)) ELSE <<>>
               IN  replay' = [replay EXCEPT !.at = IF events = <<>> THEN "advance" ELSE "persist",
                                            !.events = events, !.ix = 1]
  /\ UNCHANGED <<log, dbVars, task, crashes>>

-----------------------------------------------------------------------------
\* EventPersister.persist, event by event.

Booked ==
  replay' = IF replay.ix < Len(replay.events)
            THEN [replay EXCEPT !.at = "persist", !.ix = @ + 1, !.held = <<>>]
            ELSE [replay EXCEPT !.at = "advance", !.held = <<>>]

NewRow(ev) == [state |-> "Open", supply |-> 0, prices |-> [o \in Outcomes |-> 0], volume |-> 0]

\* The row is bootstrapped unless there is one; then, in a call of its own, the
\* opening price point unless there is one of this slot.
persistCreated ==
  /\ At("persist") /\ Event.kind = "created"
  /\ rows' = IF Market \in DOMAIN rows THEN rows
             ELSE [m \in DOMAIN rows \union {Market} |->
                     IF m = Market THEN NewRow(Event) ELSE rows[m]]
  /\ Goto("opening")
  /\ UNCHANGED <<log, cursor, trades, redemptions, pricePoints, volumePoints, task, faults, crashes>>

\* Broken: the opening point is not looked up.
AlwaysOpen ==
  /\ At("opening")
  /\ pricePoints' = Append(pricePoints, [market |-> Market, slot |-> log[Entry].slot])
  /\ Booked
  /\ UNCHANGED <<log, cursor, rows, trades, redemptions, volumePoints, task, faults, crashes>>

openingPoint ==
  /\ At("opening")
  /\ LET point == [market |-> Market, slot |-> log[Entry].slot]
     IN  pricePoints' = IF \E i \in DOMAIN pricePoints : pricePoints[i] = point
                        THEN pricePoints ELSE Append(pricePoints, point)
  /\ Booked
  /\ UNCHANGED <<log, cursor, rows, trades, redemptions, volumePoints, task, faults, crashes>>

\* Reads first: a trade that is there is left, the market's prices are held.
lookUpTrade ==
  /\ At("persist") /\ Event.kind = "trade"
  /\ IF Key \in trades \/ Market \notin DOMAIN rows THEN Booked
     ELSE replay' = [replay EXCEPT !.at = "write", !.held = rows[Market].prices]
  /\ UNCHANGED <<log, dbVars, task, faults, crashes>>

\* One database transaction; the untraded outcomes get the prices held.
persistTrade ==
  /\ At("write") /\ Key \notin trades
  /\ trades' = trades \union {Key}
  /\ pricePoints' = Append(pricePoints, [market |-> Market, slot |-> log[Entry].slot])
  /\ volumePoints' = Append(volumePoints, [market |-> Market, slot |-> log[Entry].slot,
                                           volume |-> Event.amount])
  /\ rows' = [rows EXCEPT
       ![Market].prices = [replay.held EXCEPT ![Event.outcome] = Event.moves],
       ![Market].volume = @ + Event.amount]
  /\ Booked
  /\ UNCHANGED <<log, cursor, redemptions, task, faults, crashes>>

\* The foreign key refuses a redemption of an unknown market.
persistRedeem ==
  /\ At("persist") /\ Event.kind = "redeem"
  /\ IF Market \in DOMAIN rows
     THEN redemptions' = redemptions \union {Key} /\ Booked /\ UNCHANGED task
     ELSE replay' = NoReplay /\ task' = Threw /\ UNCHANGED redemptions
  /\ UNCHANGED <<log, cursor, rows, trades, pricePoints, volumePoints, faults, crashes>>

\* The guard against a replay compares market, slot and amount.
persistSet ==
  /\ At("persist") /\ Event.kind = "setMint"
  /\ LET point == [market |-> Market, slot |-> log[Entry].slot, volume |-> Event.amount]
     IN  IF Market \notin DOMAIN rows \/ \E i \in DOMAIN volumePoints : volumePoints[i] = point
         THEN UNCHANGED <<volumePoints, rows>>
         ELSE /\ volumePoints' = Append(volumePoints, point)
              /\ rows' = [rows EXCEPT ![Market].volume = @ + Event.amount]
  /\ Booked
  /\ UNCHANGED <<log, cursor, trades, redemptions, pricePoints, task, faults, crashes>>

StateOf(kind) == CASE kind = "activate" -> "Trading" [] kind = "freeze" -> "Locked"
                   [] kind = "resolve" -> "Resolved" [] kind = "close" -> "Closed"

\* Whatever the update throws is taken for an unknown market and swallowed.
persistLifecycle ==
  /\ At("persist") /\ Event.kind \in {"activate", "freeze", "resolve", "close"}
  /\ \/ /\ rows' = IF Market \in DOMAIN rows
                   THEN [rows EXCEPT ![Market].state = StateOf(Event.kind)] ELSE rows
        /\ UNCHANGED faults
     \/ Fail /\ UNCHANGED rows
  /\ Booked
  /\ UNCHANGED <<log, cursor, trades, redemptions, pricePoints, volumePoints, task, crashes>>

\* After all events of a transaction.
setCursor ==
  /\ At("advance")
  /\ cursor' = Entry
  /\ LET rest == Front(replay.sigs)
         done == replay.processed + 1
     IN  IF rest = <<>> THEN replay' = NoReplay /\ task' = Returned(done)
         ELSE /\ replay' = [replay EXCEPT !.at = "fetch", !.sigs = rest, !.events = <<>>,
                                          !.ix = 0, !.processed = done]
              /\ UNCHANGED task
  /\ UNCHANGED <<log, rows, trades, redemptions, pricePoints, volumePoints, faults, crashes>>

\* Any call but a life cycle update may fail for good and end the replay.
ReplayThrows ==
  /\ ~At("off")
  /\ Fail
  /\ replay' = NoReplay /\ task' = Threw
  /\ UNCHANGED <<log, dbVars, crashes>>

-----------------------------------------------------------------------------
\* refreshMarkets: rows, then accounts, then a write per account.

fetchAccounts(t) ==
  /\ task[t].at = "refresh"
  /\ \E view \in Views :
       /\ Answer(view)
       /\ LET there == {m \in DOMAIN rows : Account(view, m).state # "None"}
              refused == Cardinality(DOMAIN rows) > MAX_ACCOUNTS
          IN  task' = [task EXCEPT ![t] =
                IF refused \/ there = {} THEN Idle
                ELSE [at |-> "update", snap |-> Accounts(view), todo |-> there]]
  /\ UNCHANGED <<log, dbVars, replay, crashes>>

updateRow(t) ==
  /\ task[t].at = "update"
  /\ \E m \in task[t].todo :
       /\ rows' = [rows EXCEPT ![m].state = task[t].snap[m].state,
                               ![m].supply = task[t].snap[m].supply,
                               ![m].prices = [o \in Outcomes |-> task[t].snap[m].moves]]
       /\ task' = [task EXCEPT ![t] = IF @.todo = {m} THEN Idle
                                      ELSE [@ EXCEPT !.todo = @ \ {m}]]
  /\ UNCHANGED <<log, cursor, trades, redemptions, pricePoints, volumePoints, replay, faults, crashes>>

RefreshThrows(t) ==
  /\ task[t].at \in {"refresh", "update"}
  /\ Fail
  /\ task' = [task EXCEPT ![t] = Idle]
  /\ UNCHANGED <<log, dbVars, replay, crashes>>

\* What was in memory is gone; the boot starts over on the same database.
Crash ==
  /\ crashes < MaxCrashes
  /\ crashes' = crashes + 1
  /\ replay' = NoReplay /\ task' = Booting
  /\ UNCHANGED <<log, dbVars, faults>>

ChainMoves == Submit /\ UNCHANGED <<dbVars, replay, task, faults, crashes>>

Persist == \/ persistCreated \/ openingPoint \/ lookUpTrade \/ persistTrade
           \/ persistRedeem \/ persistSet \/ persistLifecycle
ReplayStep == fetchSignaturesSince \/ replayTransaction \/ Persist \/ setCursor
TaskStep(t) == tailOnce(t) \/ fetchAccounts(t) \/ updateRow(t)

IngestNext ==
  \/ ChainMoves \/ StartTick \/ ReplayStep \/ ReplayThrows \/ Crash
  \/ \E t \in Tasks : TaskStep(t) \/ RefreshThrows(t)

\* The interval fires again and again, and an awaited call returns or throws.
IngestFairness ==
  /\ WF_ingestVars(StartTick) /\ WF_ingestVars(ReplayStep)
  /\ \A t \in Tasks : WF_ingestVars(TaskStep(t))

IngestSpec == IngestInit /\ [][IngestNext]_ingestVars /\ IngestFairness

-----------------------------------------------------------------------------
\* What is to be booked, in the words of the ledger.
Positions == UNION {{i} \X (1..Len(log[i].events)) : i \in 1..Len(log)}
EventAt(e) == log[e[1]].events[e[2]]
Due == {e \in Positions : EventAt(e).kind \in {"trade", "redeem"}}

Ledger == INSTANCE EventLedger WITH due <- Due, booked <- trades \union redemptions

\* Every trade and redemption of the chain is booked once, in the order of the
\* chain, none skipped, through crashes between any two writes, repeated
\* replays and failing calls (persister: "a replay of an already-indexed tx is
\* a no-op").
ImplementsLedger == Ledger!LedgerSpec

\* Every transaction the cursor has passed was replayed, whichever endpoint was
\* asked for it.  backfill.service.ts:41-44: "walk getSignaturesForAddress ... back to
\* the persisted cursor ..., replay each tx via getTransaction, decode Anchor events
\* from the logs, persist idempotently".
EachReplayed == \A e \in Due : e[1] <= cursor => e \in trades \union redemptions

\* The cursor vouches for everything up to it, and nothing is booked beyond the
\* transaction after it (setCursor runs after the events are persisted).
CursorVouches ==
  /\ EachReplayed
  /\ \A e \in trades \union redemptions : e[1] <= cursor + 1

PointsOf(points, m) == {i \in DOMAIN points : points[i].market = m}
TradesOf(m) == {e \in trades : EventAt(e).market = m}
CreationsOf(m) == {e \in Positions : EventAt(e).kind = "created" /\ EventAt(e).market = m}
VolumeAt == [i \in DOMAIN volumePoints |-> volumePoints[i].volume]
AmountAt == [e \in Positions |-> EventAt(e).amount]

\* The tables of a market tell one story however often a transaction was
\* replayed: the volume of its row is the sum of its volume points and covers
\* its trades, and its chart has a point per trade and at most one more for
\* each time the market was created.
TablesAgree ==
  \A m \in DOMAIN rows :
    /\ rows[m].volume = SumOver(VolumeAt, PointsOf(volumePoints, m))
    /\ rows[m].volume >= SumOver(AmountAt, TradesOf(m))
    /\ Cardinality(PointsOf(pricePoints, m)) - Cardinality(TradesOf(m))
         \in 0..Cardinality(CreationsOf(m))

\* Everything that happens on chain is indexed in the end, although calls fail
\* and the process restarts now and then (the history is bounded by MaxTx).
EverythingIndexed == <>[](cursor = Len(log))
=============================================================================
