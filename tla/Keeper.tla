------------------------------- MODULE Keeper -------------------------------
(***************************************************************************)
(* The keeper (apps/keeper) driving one fixture's market: the scheduler's  *)
(* ticks, the score stream's callback and the tracker they share, on top   *)
(* of the market's life cycle on chain.                                    *)
(*                                                                         *)
(* A tick and a callback are asynchronous functions: between two awaits    *)
(* one runs alone, at an await any other may run.  Ticks are started by a  *)
(* timer that does not wait for the previous one, so several are under way *)
(* at once (Ticks), and so are callbacks (Streams).  One step of a task    *)
(* here is what it does from one await to the next.                        *)
(*                                                                         *)
(* External: the clock, the match and its publication by TxLINE (score     *)
(* stream, history, proofs, root on chain), the RPC endpoints.  A call of  *)
(* FaultyCalls may fail, MaxFaults times in all; a transaction whose       *)
(* sending failed may still land later.                                    *)
(*                                                                         *)
(* A definition under a "Broken:" comment is a bug the code does not have: *)
(* substituted for the definition after it, it shows that a property of    *)
(* the runs can fail (README.md, mutants).                                 *)
(***************************************************************************)
EXTENDS MarketLifecycle, FiniteSets

CONSTANTS
  Ticks, Streams,
  NoFixture, Idle,
  Results,                  \* winners the match may have
  Guesses,                  \* winners the score the keeper sees may point to
  ENABLE_SCORE_STREAM,
  MAX_RESOLVE_ATTEMPTS,     \* of a tracker, before it is Failed
  maxAttempts, maxProofRefetches,   \* of one resolveMarket call
  ClockLead,                \* how far the keeper's clock is ahead of the chain's
  FaultyCalls, MaxFaults,
  MaxCrashes                \* bound on restarts of the process

VARIABLES
  match, result,                        \* the match, as TxLINE publishes it
  fixtures,                             \* the cached fixture list
  phase, resolveAttempts,               \* the tracker (MatchTracker)
  task,                                 \* ticks and callbacks under way
  inflight,                             \* transactions that may still land
  faults, crashes

tracker == <<phase, resolveAttempts>>
network == <<inflight, faults>>
vars == <<lifeVars, match, result, fixtures, tracker, task, network, crashes>>

ASSUME KeeperConstants ==
  /\ Schedules \subseteq Nat \X Nat
  /\ Results \subseteq Outcomes /\ Guesses \subseteq Outcomes
  /\ ENABLE_SCORE_STREAM \in BOOLEAN
  /\ MAX_RESOLVE_ATTEMPTS \in Nat \ {0}
  /\ maxAttempts \in Nat \ {0} /\ maxProofRefetches \in Nat
  /\ ClockLead \in Nat /\ MaxFaults \in Nat /\ MaxCrashes \in Nat
  /\ StartTime \in Nat /\ resolution_grace_secs \in Nat
  /\ Ticks \cap Streams = {}

\* playing, ended (the stream may say so), final (history and proofs serve the
\* final score), rooted (the daily root is on chain).
Stages == <<"playing", "ended", "final", "rooted">>
Published == match \in {"final", "rooted"}

\* A task where it awaits: its place, the fixture and time of a tick, the
\* winner a resolve goes for, how far it is and whether its proof is sound.
Task ==
  [pc : {"activate", "send activate", "freeze", "send freeze",
         "recover", "read", "fetch", "hint", "submit", "reread"},
   f : Schedules \cup {NoFixture}, at : Nat, guess : Outcomes, attempt : 1..maxAttempts,
   refetches : 0..maxProofRefetches, rung : 0..2, proof : {"sound", "unsound"}]

ASSUME TaskShape == 0 \in Outcomes /\ Idle \notin Task

NewTask(pc) ==
  [pc |-> pc, f |-> NoFixture, at |-> 0, guess |-> 0, attempt |-> 1,
   refetches |-> 0, rung |-> 0, proof |-> "sound"]

Becomes(k, t) == task' = [task EXCEPT ![k] = t]
Returns(k) == Becomes(k, Idle)
At(k, pc) == task[k] # Idle /\ task[k].pc = pc
Sending(call) == IF call = "activate" THEN "send activate" ELSE "send freeze"

\* init_market has run; it is not the keeper's to send.
Init ==
  /\ now = StartTime /\ state = "Open" /\ outcome = "Unset"
  /\ \E pair \in Schedules : kickoff_ts = pair[1] /\ freeze_ts = pair[2]
  /\ match = "playing" /\ result \in Results
  /\ fixtures = NoFixture
  /\ phase = "Scheduled" /\ resolveAttempts = 0
  /\ task = [k \in Ticks \cup Streams |-> Idle]
  /\ inflight = {} /\ faults = 0 /\ crashes = 0

-----------------------------------------------------------------------------
(* The environment. *)

ClockTick == Tick /\ UNCHANGED <<match, result, fixtures, tracker, task, network, crashes>>

MatchProgress ==
  /\ match = "playing" => now >= kickoff_ts
  /\ \E i \in 1..3 : match = Stages[i] /\ match' = Stages[i + 1]
  /\ UNCHANGED <<lifeVars, result, fixtures, tracker, task, network, crashes>>

AdminCloses ==
  /\ CloseMarket
  /\ UNCHANGED <<match, result, fixtures, tracker, task, network, crashes>>

Fault(call) ==
  /\ call \in FaultyCalls /\ faults < MaxFaults
  /\ faults' = faults + 1

\* The program's answer to a transaction, now: what simulation tests, and what
\* execution does.  A hint is accepted if the posted root proves it.
Accepted(tx) ==
  \/ tx[1] = "activate" /\ state = "Open" /\ now >= kickoff_ts
  \/ tx[1] = "freeze" /\ state = "Trading" /\ now >= freeze_ts
  \/ tx[1] = "resolve" /\ state = "Locked" /\ match = "rooted" /\ tx[2] = result

Executes(tx) ==
  /\ Accepted(tx)
  /\ \/ tx[1] = "activate" /\ ActivateMarket
     \/ tx[1] = "freeze" /\ FreezeMarket
     \/ tx[1] = "resolve" /\ Resolve(tx[2])

\* A transaction given up on lands after all, or its blockhash expires.
Land(tx) ==
  /\ tx \in inflight
  /\ inflight' = inflight \ {tx}
  /\ Executes(tx) \/ UNCHANGED lifeVars
  /\ UNCHANGED <<match, result, fixtures, tracker, task, faults, crashes>>

\* A restart forgets the tracker, the tasks and the fixture list.
Crash ==
  /\ crashes < MaxCrashes
  /\ crashes' = crashes + 1
  /\ fixtures' = NoFixture
  /\ phase' = "Scheduled" /\ resolveAttempts' = 0
  /\ task' = [k \in Ticks \cup Streams |-> Idle]
  /\ UNCHANGED <<lifeVars, match, result, network>>

-----------------------------------------------------------------------------
(* The tracker.  markEnded also keeps the finalising Seq; every resolve from *)
(* a tick asks the history for it again, so nothing depends on it here.      *)

markLive(ph) == IF ph = "Scheduled" THEN "Live" ELSE ph
markEnded(ph) == IF ph \in {"Scheduled", "Live"} THEN "Ended" ELSE ph

\* The counter stops at the largest value anything compares it with.
Counted(n) == IF n < MAX_RESOLVE_ATTEMPTS THEN n + 1 ELSE n

-----------------------------------------------------------------------------
(* Scheduler.tick. *)

\* The list is re-read from chain when its cache has expired and keeps the
\* markets still to be driven.
RefreshFixtures ==
  LET listed == IF state \in {"Open", "Trading", "Locked"}
                THEN <<kickoff_ts, freeze_ts>> ELSE NoFixture
  IN /\ fixtures # listed
     /\ fixtures' = listed
     /\ UNCHANGED <<lifeVars, match, result, tracker, task, network, crashes>>

\* What the three tests of a tick lead to, from the one after "done" on.
NextAction(done, ph, f, at) ==
  IF done = "nothing" /\ ph = "Scheduled" /\ at >= f[1] THEN "activate"
  ELSE IF done \in {"nothing", "activate"} /\ ph = "Live" /\ at >= f[2] THEN "freeze"
  ELSE IF ph = "Ended" /\ at >= f[2] THEN "recover"
  ELSE "return"

\* Going on to tryResolve counts the attempt before its first await.
Proceed(k, done, ph, f, at) ==
  LET next == NextAction(done, ph, f, at)
  IN /\ Becomes(k, IF next = "return" THEN Idle ELSE [NewTask(next) EXCEPT !.f = f, !.at = at])
     /\ resolveAttempts' = IF next = "recover" THEN Counted(resolveAttempts)
                           ELSE resolveAttempts

StartTick(k) ==
  /\ task[k] = Idle
  /\ fixtures # NoFixture
  /\ NextAction("nothing", phase, fixtures, now + ClockLead) # "return"
  /\ Proceed(k, "nothing", phase, fixtures, now + ClockLead)
  /\ UNCHANGED <<lifeVars, match, result, fixtures, phase, network, crashes>>

\* An exception ends the tick; the timer starts the next one.
Throw(k) == Returns(k) /\ UNCHANGED tracker

\* The first half of activateMarket and freezeMarket: the market is read, and
\* one past the transition counts as done.
ReadThenSend(k, call, pending, marked) ==
  /\ At(k, call)
  /\ \/ /\ state \in pending
        /\ Becomes(k, [task[k] EXCEPT !.pc = Sending(call)])
        /\ UNCHANGED <<tracker, faults>>
     \/ /\ state \notin pending
        /\ phase' = marked
        /\ Proceed(k, call, marked, task[k].f, task[k].at)
        /\ UNCHANGED faults
     \/ Fault(call) /\ Throw(k)
  /\ UNCHANGED <<lifeVars, match, result, fixtures, inflight, crashes>>

\* Broken: the tracker moves on once the transaction is sent, confirmed or not.
SendAndMark(k, call, marked) ==
  /\ At(k, Sending(call))
  /\ phase' = marked
  /\ Proceed(k, call, marked, task[k].f, task[k].at)
  /\ \/ Executes(<<call>>) /\ UNCHANGED network
     \/ ~Accepted(<<call>>) /\ UNCHANGED <<lifeVars, network>>
     \/ Fault(call) /\ inflight' = inflight \cup {<<call>>} /\ UNCHANGED lifeVars
  /\ UNCHANGED <<match, result, fixtures, crashes>>

\* The second half: simulate, send, confirm; mark only once confirmed.
SendThenMark(k, call, marked) ==
  /\ At(k, Sending(call))
  /\ \/ /\ Executes(<<call>>)
        /\ phase' = marked
        /\ Proceed(k, call, marked, task[k].f, task[k].at)
        /\ UNCHANGED network
     \/ ~Accepted(<<call>>) /\ Throw(k) /\ UNCHANGED <<lifeVars, network>>
     \/ /\ Accepted(<<call>>) /\ Fault(call) /\ Throw(k)
        /\ inflight' = inflight \cup {<<call>>}
        /\ UNCHANGED lifeVars
  /\ UNCHANGED <<match, result, fixtures, crashes>>

\* Broken: activate's test, under which a trading market counts as frozen.
OnlyOpen == {"Open"}

\* Broken: the freeze is sent whatever the market's state.
AnyState == {"Open", "Trading", "Locked", "Resolved", "Closed"}

ToFreeze == {"Open", "Trading"}

activateMarket(k) ==
  ReadThenSend(k, "activate", {"Open"}, markLive(phase))
    \/ SendThenMark(k, "activate", markLive(phase))
freezeMarket(k) ==
  ReadThenSend(k, "freeze", ToFreeze, markEnded(phase))
    \/ SendThenMark(k, "freeze", markEnded(phase))

-----------------------------------------------------------------------------
(* Scheduler.tryResolve and resolveMarket. *)

\* Broken: a failed attempt is retried for ever.
TryForEver(k) ==
  Returns(k) /\ UNCHANGED <<phase, resolveAttempts>>

\* The catch of tryResolve.
FailAttempt(k) ==
  /\ Returns(k)
  /\ phase' = IF resolveAttempts >= MAX_RESOLVE_ATTEMPTS THEN "Failed" ELSE phase
  /\ UNCHANGED resolveAttempts

\* recoverEnd: the winner is read off the history's final score; without one
\* the attempt is put off.
Recover(k) ==
  /\ At(k, "recover")
  /\ \/ /\ Published
        /\ \E g \in Guesses : Becomes(k, [task[k] EXCEPT !.pc = "read", !.guess = g])
        /\ phase' = markEnded(phase)
        /\ UNCHANGED <<resolveAttempts, faults>>
     \/ ~Published /\ Returns(k) /\ UNCHANGED <<tracker, faults>>
     \/ Fault("history") /\ FailAttempt(k)
  /\ UNCHANGED <<lifeVars, match, result, fixtures, inflight, crashes>>

ReadForResolve(k) ==
  /\ At(k, "read")
  /\ \/ /\ state \in {"Resolved", "Closed"}
        /\ Returns(k) /\ UNCHANGED <<tracker, faults>>
     \/ /\ state \notin {"Resolved", "Closed"}
        /\ Becomes(k, [task[k] EXCEPT !.pc = "fetch"]) /\ UNCHANGED <<tracker, faults>>
     \/ Fault("resolve") /\ FailAttempt(k)
  /\ UNCHANGED <<lifeVars, match, result, fixtures, inflight, crashes>>

\* An unsound proof is one the oracle does not accept under its root.
FetchProof(k) ==
  LET With(proof) == Becomes(k, [task[k] EXCEPT !.pc = "hint", !.rung = 0, !.proof = proof])
  IN /\ At(k, "fetch")
     /\ \/ Published /\ With("sound") /\ UNCHANGED <<tracker, faults>>
        \/ Published /\ Fault("proof") /\ With("unsound") /\ UNCHANGED tracker
        \/ ~Published /\ FailAttempt(k) /\ UNCHANGED faults
        \/ Fault("proof") /\ FailAttempt(k)
     /\ UNCHANGED <<lifeVars, match, result, fixtures, inflight, crashes>>

\* orderedHints: the winner of the score first, then the others in order.
Hint(t) ==
  LET others == Outcomes \ {t.guess}
  IN IF t.rung = 0 THEN t.guess
     ELSE CHOOSE h \in others : Cardinality({x \in others : x < h}) = t.rung - 1

\* Back off and start the next attempt at pc; after the last one give up,
\* which resolveMarket reports like a market already resolved.
Backoff(k, pc, refetches) ==
  /\ Becomes(k, IF task[k].attempt < maxAttempts
                THEN [task[k] EXCEPT !.pc = pc, !.attempt = @ + 1, !.rung = 0,
                                     !.refetches = refetches]
                ELSE Idle)
  /\ UNCHANGED tracker

RefetchOrFail(k) ==
  IF task[k].refetches < maxProofRefetches
  THEN Backoff(k, "fetch", task[k].refetches + 1)
  ELSE FailAttempt(k)

LastRung(k) == task[k].rung = 2

\* A hint that simulation refuses, by the first check that fails.
HintRefused(k) ==
  /\ \/ state = "Closed" /\ FailAttempt(k)
     \/ /\ state \notin {"Locked", "Closed"}
        /\ Becomes(k, [task[k] EXCEPT !.pc = "reread"]) /\ UNCHANGED tracker
     \/ state = "Locked" /\ match # "rooted" /\ Backoff(k, "hint", task[k].refetches)
     \/ state = "Locked" /\ match = "rooted" /\ task[k].proof = "unsound" /\ RefetchOrFail(k)
     \/ /\ state = "Locked" /\ match = "rooted" /\ task[k].proof = "sound" /\ Hint(task[k]) # result
        /\ IF LastRung(k) THEN RefetchOrFail(k)
           ELSE Becomes(k, [task[k] EXCEPT !.rung = @ + 1]) /\ UNCHANGED tracker
  /\ UNCHANGED <<lifeVars, network>>

\* An error of a transaction either looks transient or does not.
FailedToSend(k) == FailAttempt(k) \/ Backoff(k, "hint", task[k].refetches)

\* One rung of the ladder, up to the simulation, which itself may fail.
TryHint(k) ==
  /\ At(k, "hint")
  /\ \/ HintRefused(k)
     \/ Fault("resolve") /\ FailedToSend(k) /\ UNCHANGED <<lifeVars, inflight>>
     \/ /\ task[k].proof = "sound" /\ Accepted(<<"resolve", Hint(task[k])>>)
        /\ Becomes(k, [task[k] EXCEPT !.pc = "submit"])
        /\ UNCHANGED <<lifeVars, tracker, network>>
  /\ UNCHANGED <<match, result, fixtures, crashes>>

\* The rest of sendAndConfirm after the simulation.  A transaction that lands
\* and is confirmed ends the resolution.  One that fails, because the market
\* was resolved in between or at the endpoints, throws.
Submit(k) ==
  LET tx == <<"resolve", Hint(task[k])>>
  IN /\ At(k, "submit")
     /\ \/ /\ Executes(tx)
           /\ phase' = "Resolved" /\ Returns(k)
           /\ UNCHANGED <<resolveAttempts, network>>
        \/ ~Accepted(tx) /\ FailedToSend(k) /\ UNCHANGED <<lifeVars, network>>
        \/ /\ Accepted(tx) /\ Fault("resolve") /\ FailedToSend(k)
           /\ inflight' = inflight \cup {tx}
           /\ UNCHANGED lifeVars
     /\ UNCHANGED <<match, result, fixtures, crashes>>

\* InvalidMarketState: someone else may have resolved the market.
Reread(k) ==
  /\ At(k, "reread")
  /\ \/ state = "Resolved" /\ Returns(k) /\ UNCHANGED <<tracker, faults>>
     \/ state # "Resolved" /\ FailAttempt(k) /\ UNCHANGED faults
     \/ Fault("resolve") /\ FailAttempt(k)
  /\ UNCHANGED <<lifeVars, match, result, fixtures, inflight, crashes>>

tryResolve(k) ==
  Recover(k) \/ ReadForResolve(k) \/ FetchProof(k)
    \/ TryHint(k) \/ Submit(k) \/ Reread(k)

\* The stream's "ended" callback, as often as the stream repeats the event,
\* with a score on the event or without.
StreamEnded(k) ==
  /\ ENABLE_SCORE_STREAM /\ match # "playing"
  /\ task[k] = Idle
  /\ phase' = markEnded(phase)
  /\ IF phase = "Resolved"
     THEN UNCHANGED <<task, resolveAttempts>>
     ELSE /\ resolveAttempts' = Counted(resolveAttempts)
          /\ \/ Becomes(k, NewTask("recover"))
             \/ \E g \in Guesses : Becomes(k, [NewTask("read") EXCEPT !.guess = g])
  /\ UNCHANGED <<lifeVars, match, result, fixtures, network, crashes>>

-----------------------------------------------------------------------------
Step(k) == activateMarket(k) \/ freezeMarket(k) \/ tryResolve(k)

Next ==
  \/ ClockTick \/ MatchProgress \/ AdminCloses \/ Crash
  \/ \E tx \in inflight : Land(tx)
  \/ RefreshFixtures
  \/ \E k \in Ticks : StartTick(k)
  \/ \E k \in Streams : StreamEnded(k)
  \/ \E k \in Ticks \cup Streams : Step(k)

\* The timer keeps firing, the cache expires, awaited calls return, time
\* passes, and the match and its publication run their course.  Neither the
\* stream's event nor a failure ever has to come.
Fairness ==
  /\ WF_vars(ClockTick) /\ WF_vars(MatchProgress) /\ WF_vars(RefreshFixtures)
  /\ \A k \in Ticks : WF_vars(StartTick(k))
  /\ \A k \in Ticks \cup Streams : WF_vars(Step(k))

Spec == Init /\ [][Next]_vars /\ Fairness
-----------------------------------------------------------------------------
(* Properties. *)

TypeOK ==
  /\ now \in Nat /\ state \in MarketState
  /\ match \in {"playing", "ended", "final", "rooted"} /\ result \in Outcomes
  /\ fixtures \in Schedules \cup {NoFixture}
  /\ phase \in {"Scheduled", "Live", "Ended", "Resolved", "Failed"}
  /\ resolveAttempts \in 0..MAX_RESOLVE_ATTEMPTS
  /\ task \in [Ticks \cup Streams -> Task \cup {Idle}]
  /\ faults \in 0..MaxFaults /\ crashes \in 0..MaxCrashes

\* The tracker is a hint that never runs ahead of the chain, whatever tasks
\* overlap, fail or land late: Live means activated, Resolved means resolved.
\* stateMachine.ts:7-8.
TrackerBehindChain ==
  /\ phase = "Live" => state # "Open"
  /\ phase = "Resolved" => state \in {"Resolved", "Closed"}

\* An ended match is a frozen market.  stateMachine.ts:4.
EndedMeansFrozen == phase = "Ended" => state \notin {"Open", "Trading"}

\* The keeper never just stops: it gets the market resolved or gives it up.
KeeperConcludes == <>(state \in {"Resolved", "Closed"} \/ phase = "Failed")

\* Said by index.ts:5-6 and scheduler.ts:13-16: stream and timer both lead to
\* the resolution, and missed ticks and restarts heal themselves.
MarketGetsResolved == <>(state \in {"Resolved", "Closed"})
=============================================================================
