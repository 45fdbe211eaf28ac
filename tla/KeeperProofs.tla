---------------------------- MODULE KeeperProofs ----------------------------
(***************************************************************************)
(* Proofs about the keeper: its life cycle tasks, for any number of        *)
(* overlapping ticks and callbacks, any schedule and any failures and      *)
(* restarts; and its mark poster, for any number of markets, any odds and  *)
(* any failures, by a bound on how long it may take to get to a pool.      *)
(***************************************************************************)
EXTENDS Keeper, MarkPoster, SequenceTheorems, SumTheorems, TLAPS

Tasks == Ticks \cup Streams

-----------------------------------------------------------------------------
(* The market on chain only moves forward, whoever moves it. *)

Frozen(s) == s \notin {"Open", "Trading"}
Over(s) == s \in {"Resolved", "Closed"}

Forward ==
  /\ state # "Open" => state' # "Open"
  /\ Frozen(state) => Frozen(state')
  /\ Over(state) => Over(state')

\* The schedule of a market still to be driven is the one it was given.
ScheduleKept == state \in {"Open", "Trading", "Locked"} => <<kickoff_ts, freeze_ts>> \in Schedules

MarketOK == now \in Nat /\ state \in MarketState /\ ScheduleKept

LEMMA ExecutesForward ==
  ASSUME NEW tx, Executes(tx), MarketOK
  PROVE  /\ Forward /\ MarketOK'
         /\ tx[1] = "activate" => state' # "Open"
         /\ tx[1] = "freeze" => Frozen(state')
         /\ tx[1] = "resolve" => Over(state')
BY DEF Executes, Accepted, Forward, Frozen, Over, ActivateMarket, FreezeMarket,
       Advance, Resolve, MarketOK, ScheduleKept, MarketState

LEMMA StandsStill == ASSUME MarketOK, UNCHANGED lifeVars PROVE Forward /\ MarketOK'
BY DEF lifeVars, Forward, Frozen, Over, MarketOK, ScheduleKept

-----------------------------------------------------------------------------
(* Where a task can be next. *)

LEMMA TaskMoves ==
  ASSUME NEW k \in Tasks, NEW t \in Task \cup {Idle}, TypeOK, Becomes(k, t)
  PROVE  task' \in [Tasks -> Task \cup {Idle}]
BY DEF TypeOK, Becomes, Tasks

LEMMA AtTask ==
  ASSUME NEW k \in Tasks, NEW pc, TypeOK, At(k, pc)
  PROVE  task[k] \in Task /\ task[k].pc = pc
BY DEF TypeOK, At, Tasks

LEMMA NewTaskType ==
  ASSUME NEW pc \in {"activate", "freeze", "recover", "read"}
  PROVE  NewTask(pc) \in Task
<1>1. 0 \in Outcomes
  BY TaskShape
<1>2. 1 \in 1..maxAttempts /\ 0 \in 0..maxProofRefetches
  BY KeeperConstants
<1>3. NoFixture \in Schedules \cup {NoFixture} /\ 0 \in Nat /\ 0 \in 0..2 /\ "sound" \in {"sound", "unsound"}
  OBVIOUS
<1>4. pc \in {"activate", "send activate", "freeze", "send freeze",
               "recover", "read", "fetch", "hint", "submit", "reread"}
  OBVIOUS
<1> QED BY <1>1, <1>2, <1>3, <1>4, Zenon DEF NewTask, Task

LEMMA CountedType ==
  ASSUME NEW n \in 0..MAX_RESOLVE_ATTEMPTS
  PROVE  Counted(n) \in 0..MAX_RESOLVE_ATTEMPTS
BY KeeperConstants DEF Counted

LEMMA ProceedType ==
  ASSUME TypeOK, NEW k \in Tasks, NEW done, NEW ph, NEW at \in Nat,
         NEW f \in Schedules \cup {NoFixture}, Proceed(k, done, ph, f, at)
  PROVE  /\ task' \in [Tasks -> Task \cup {Idle}]
         /\ resolveAttempts' \in 0..MAX_RESOLVE_ATTEMPTS
<1> DEFINE next == NextAction(done, ph, f, at)
           t == IF next = "return" THEN Idle ELSE [NewTask(next) EXCEPT !.f = f, !.at = at]
<1>1. t \in Task \cup {Idle}
  <2>1. CASE next = "return"
    BY <2>1
  <2>2. CASE next # "return"
    <3>1. next \in {"activate", "freeze", "recover", "read"}
      BY <2>2 DEF NextAction
    <3>2. NewTask(next) \in Task
      BY <3>1, NewTaskType
    <3> HIDE DEF next
    <3> QED BY <2>2, <3>2 DEF Task
  <2> QED BY <2>1, <2>2
<1>2. Becomes(k, t)
  BY DEF Proceed
<1>3. resolveAttempts' \in 0..MAX_RESOLVE_ATTEMPTS
  BY CountedType DEF Proceed, TypeOK
<1> QED BY <1>1, <1>2, <1>3, TaskMoves
-----------------------------------------------------------------------------
(* Every step keeps the types and the market's schedule. *)

TypeInv == TypeOK /\ ScheduleKept

\* What a step must be shown to do.
Typed ==
  /\ match' \in {"playing", "ended", "final", "rooted"} /\ result' \in Outcomes
  /\ fixtures' \in Schedules \cup {NoFixture}
  /\ phase' \in {"Scheduled", "Live", "Ended", "Resolved", "Failed"}
  /\ resolveAttempts' \in 0..MAX_RESOLVE_ATTEMPTS
  /\ task' \in [Tasks -> Task \cup {Idle}]
  /\ faults' \in 0..MaxFaults /\ crashes' \in 0..MaxCrashes

LEMMA TypedKeeps == ASSUME Typed, MarketOK' PROVE TypeInv'
BY DEF Typed, MarketOK, TypeInv, TypeOK, Tasks

LEMMA TypeInvMarket == ASSUME TypeInv PROVE MarketOK
BY DEF TypeInv, TypeOK, MarketOK

LEMMA FaultType == ASSUME TypeOK, NEW call, Fault(call) PROVE faults' \in 0..MaxFaults
BY KeeperConstants DEF TypeOK, Fault

LEMMA EnvironmentTyped ==
  ASSUME TypeInv,
         \/ ClockTick \/ MatchProgress \/ AdminCloses \/ Crash
         \/ RefreshFixtures \/ \E tx \in inflight : Land(tx)
  PROVE  TypeInv'
<1>0. MarketOK
  BY TypeInvMarket
<1>1. CASE ClockTick
  BY <1>0, <1>1, TypedKeeps
  DEF ClockTick, Tick, tracker, network, TypeInv, TypeOK, Typed, MarketOK, ScheduleKept, Tasks
<1>2. CASE MatchProgress
  <2>1. match' \in {"playing", "ended", "final", "rooted"}
    BY <1>2 DEF MatchProgress, Stages
  <2> QED BY <1>0, <1>2, <2>1, StandsStill, TypedKeeps
          DEF MatchProgress, tracker, network, TypeInv, TypeOK, Typed, Tasks
<1>3. CASE AdminCloses
  BY <1>0, <1>3, TypedKeeps
  DEF AdminCloses, CloseMarket, tracker, network, TypeInv, TypeOK, Typed, MarketOK,
      MarketState, ScheduleKept, Tasks
<1>4. CASE Crash
  <2>1. task' \in [Tasks -> Task \cup {Idle}]
    BY <1>4 DEF Crash, Tasks
  <2>2. resolveAttempts' \in 0..MAX_RESOLVE_ATTEMPTS /\ crashes' \in 0..MaxCrashes
    BY <1>4, KeeperConstants DEF Crash, TypeInv, TypeOK
  <2> QED BY <1>0, <1>4, <2>1, <2>2, StandsStill, TypedKeeps
          DEF Crash, network, TypeInv, TypeOK, Typed
<1>5. CASE RefreshFixtures
  <2>1. fixtures' \in Schedules \cup {NoFixture}
    BY <1>5 DEF RefreshFixtures, TypeInv, ScheduleKept
  <2> QED BY <1>0, <1>5, <2>1, StandsStill, TypedKeeps
          DEF RefreshFixtures, tracker, network, TypeInv, TypeOK, Typed, Tasks
<1>6. CASE \E tx \in inflight : Land(tx)
  <2>1. PICK tx \in inflight : Land(tx)
    BY <1>6
  <2>2. MarketOK'
    BY <1>0, <2>1, ExecutesForward, StandsStill DEF Land
  <2> QED BY <2>1, <2>2, TypedKeeps DEF Land, tracker, TypeInv, TypeOK, Typed, Tasks
<1> QED BY <1>1, <1>2, <1>3, <1>4, <1>5, <1>6

\* The lines of a record a task carries, changed one at a time.
LEMMA FieldTypes ==
  ASSUME NEW t \in Task
  PROVE  /\ \A pc \in {"send activate", "send freeze", "fetch", "submit", "reread"} :
              [t EXCEPT !.pc = pc] \in Task
         /\ \A g \in Guesses : [t EXCEPT !.pc = "read", !.guess = g] \in Task
         /\ \A b \in {"sound", "unsound"} : [t EXCEPT !.pc = "hint", !.rung = 0, !.proof = b] \in Task
         /\ t.rung # 2 => [t EXCEPT !.rung = @ + 1] \in Task
         /\ \A pc \in {"hint", "fetch"}, r \in 0..maxProofRefetches :
              t.attempt < maxAttempts =>
                [t EXCEPT !.pc = pc, !.attempt = @ + 1, !.rung = 0, !.refetches = r] \in Task
<1>0. t.rung \in 0..2 /\ t.attempt \in 1..maxAttempts
  BY DEF Task
<1>1. Guesses \subseteq Outcomes /\ maxAttempts \in Nat
  BY KeeperConstants
<1>2. \A g \in Guesses : [t EXCEPT !.pc = "read", !.guess = g] \in Task
  BY <1>1 DEF Task
<1>3. ASSUME t.rung # 2
      PROVE  [t EXCEPT !.rung = @ + 1] \in Task
  <2>1. t.rung + 1 \in 0..2
    BY <1>0, <1>3
  <2>2. \A n \in 0..2 : [t EXCEPT !.rung = n] \in Task
    BY DEF Task
  <2>3. [t EXCEPT !.rung = t.rung + 1] \in Task
    BY <2>1, <2>2
  <2> QED BY <2>3
<1>4. ASSUME NEW pc \in {"hint", "fetch"}, NEW r \in 0..maxProofRefetches,
             t.attempt < maxAttempts
      PROVE  [t EXCEPT !.pc = pc, !.attempt = @ + 1, !.rung = 0, !.refetches = r] \in Task
  <2>1. t.attempt + 1 \in 1..maxAttempts /\ 0 \in 0..2
    BY <1>0, <1>1, <1>4
  <2>2. \A n \in 1..maxAttempts, g \in 0..2 :
          [t EXCEPT !.pc = pc, !.attempt = n, !.rung = g, !.refetches = r] \in Task
    BY DEF Task
  <2>3. [t EXCEPT !.pc = pc, !.attempt = t.attempt + 1, !.rung = 0, !.refetches = r] \in Task
    BY <2>1, <2>2
  <2> QED BY <2>3
<1>5. ASSUME NEW pc \in {"send activate", "send freeze", "fetch", "submit", "reread"}
      PROVE  [t EXCEPT !.pc = pc] \in Task
  BY DEF Task
<1>6. ASSUME NEW b \in {"sound", "unsound"}
      PROVE  [t EXCEPT !.pc = "hint", !.rung = 0, !.proof = b] \in Task
  <2>1. 0 \in 0..2
    OBVIOUS
  <2>2. \A g \in 0..2 : [t EXCEPT !.pc = "hint", !.rung = g, !.proof = b] \in Task
    BY DEF Task
  <2> QED BY <2>1, <2>2
<1> QED BY <1>2, <1>3, <1>4, <1>5, <1>6

TrackerTyped ==
  /\ phase' \in {"Scheduled", "Live", "Ended", "Resolved", "Failed"}
  /\ resolveAttempts' \in 0..MAX_RESOLVE_ATTEMPTS
  /\ task' \in [Tasks -> Task \cup {Idle}]

LEMMA KeepsTracker ==
  ASSUME TypeOK, NEW k \in Tasks, NEW t \in Task \cup {Idle}, Becomes(k, t), UNCHANGED tracker
  PROVE  TrackerTyped
BY TaskMoves DEF tracker, TypeOK, TrackerTyped

LEMMA FailAttemptTyped ==
  ASSUME TypeOK, NEW k \in Tasks, FailAttempt(k) PROVE TrackerTyped
<1>1. task' \in [Tasks -> Task \cup {Idle}]
  BY TaskMoves DEF FailAttempt, Returns
<1> QED BY <1>1 DEF FailAttempt, TypeOK, TrackerTyped

LEMMA BackoffTyped ==
  ASSUME TypeOK, NEW k \in Tasks, task[k] \in Task, NEW pc \in {"hint", "fetch"},
         NEW r \in 0..maxProofRefetches, Backoff(k, pc, r)
  PROVE  TrackerTyped
<1> DEFINE t == IF task[k].attempt < maxAttempts
                THEN [task[k] EXCEPT !.pc = pc, !.attempt = @ + 1, !.rung = 0, !.refetches = r]
                ELSE Idle
<1>1. t \in Task \cup {Idle}
  BY FieldTypes
<1>2. Becomes(k, t) /\ UNCHANGED tracker
  BY DEF Backoff
<1> QED BY <1>1, <1>2, KeepsTracker

LEMMA RefetchTyped ==
  ASSUME TypeOK, NEW k \in Tasks, task[k] \in Task, RefetchOrFail(k)
  PROVE  TrackerTyped
<1>1. task[k].refetches \in 0..maxProofRefetches /\ maxProofRefetches \in Nat
  BY KeeperConstants DEF Task
<1>2. CASE task[k].refetches < maxProofRefetches
  <2>1. task[k].refetches + 1 \in 0..maxProofRefetches
    BY <1>1, <1>2
  <2> QED BY <1>2, <2>1, BackoffTyped DEF RefetchOrFail
<1>3. CASE ~(task[k].refetches < maxProofRefetches)
  BY <1>3, FailAttemptTyped DEF RefetchOrFail
<1> QED BY <1>2, <1>3

LEMMA FailedToSendTyped ==
  ASSUME TypeOK, NEW k \in Tasks, task[k] \in Task, FailedToSend(k)
  PROVE  TrackerTyped
<1>1. task[k].refetches \in 0..maxProofRefetches
  BY DEF Task
<1> QED BY <1>1, FailAttemptTyped, BackoffTyped DEF FailedToSend

\* What is left of a task's step once its tracker is typed.
LEMMA TaskStepTyped ==
  ASSUME TypeInv, TrackerTyped, MarketOK', UNCHANGED <<match, result, fixtures, crashes>>,
         UNCHANGED faults \/ \E call : Fault(call)
  PROVE  TypeInv'
<1>1. faults' \in 0..MaxFaults
  BY FaultType DEF TypeInv, TypeOK
<1> QED BY <1>1, TypedKeeps DEF TrackerTyped, Typed, TypeInv, TypeOK

LEMMA ReadTyped ==
  ASSUME TypeInv, NEW k \in Tasks, NEW call \in {"activate", "freeze"}, NEW pending,
         NEW marked \in {"Scheduled", "Live", "Ended", "Resolved", "Failed"},
         ReadThenSend(k, call, pending, marked)
  PROVE  TypeInv'
<1>1. TypeOK /\ MarketOK /\ task[k] \in Task
  BY AtTask, TypeInvMarket DEF ReadThenSend, TypeInv
<1>2. task[k].f \in Schedules \cup {NoFixture} /\ task[k].at \in Nat
  BY <1>1 DEF Task
<1>3. TrackerTyped
  <2>1. CASE state \in pending /\ Becomes(k, [task[k] EXCEPT !.pc = Sending(call)]) /\ UNCHANGED tracker
    <3>1. Sending(call) \in {"send activate", "send freeze"}
      BY DEF Sending
    <3>2. [task[k] EXCEPT !.pc = Sending(call)] \in Task
      BY <1>1, <3>1, FieldTypes
    <3> QED BY <1>1, <2>1, <3>2, KeepsTracker
  <2>2. CASE phase' = marked /\ Proceed(k, call, marked, task[k].f, task[k].at)
    BY <1>1, <1>2, <2>2, ProceedType DEF TrackerTyped
  <2>3. CASE Throw(k)
    BY <1>1, <2>3, KeepsTracker DEF Throw, Returns
  <2> QED BY <2>1, <2>2, <2>3 DEF ReadThenSend
<1> QED BY <1>1, <1>3, StandsStill, TaskStepTyped DEF ReadThenSend

LEMMA SendTyped ==
  ASSUME TypeInv, NEW k \in Tasks, NEW call \in {"activate", "freeze"},
         NEW marked \in {"Scheduled", "Live", "Ended", "Resolved", "Failed"},
         SendThenMark(k, call, marked)
  PROVE  TypeInv'
<1>1. TypeOK /\ MarketOK /\ task[k] \in Task
  BY AtTask, TypeInvMarket DEF SendThenMark, TypeInv
<1>2. task[k].f \in Schedules \cup {NoFixture} /\ task[k].at \in Nat
  BY <1>1 DEF Task
<1>3. TrackerTyped
  <2>1. CASE phase' = marked /\ Proceed(k, call, marked, task[k].f, task[k].at)
    BY <1>1, <1>2, <2>1, ProceedType DEF TrackerTyped
  <2>2. CASE Throw(k)
    BY <1>1, <2>2, KeepsTracker DEF Throw, Returns
  <2> QED BY <2>1, <2>2 DEF SendThenMark
<1>4. MarketOK'
  BY <1>1, ExecutesForward, StandsStill DEF SendThenMark
<1> QED BY <1>3, <1>4, TaskStepTyped DEF SendThenMark, network

LEMMA RecoverTyped == ASSUME TypeInv, NEW k \in Tasks, Recover(k) PROVE TypeInv'
<1>1. TypeOK /\ MarketOK /\ task[k] \in Task
  BY AtTask, TypeInvMarket DEF Recover, TypeInv
<1>2. TrackerTyped
  <2>1. CASE \E g \in Guesses : /\ Becomes(k, [task[k] EXCEPT !.pc = "read", !.guess = g])
                                /\ phase' = markEnded(phase) /\ UNCHANGED resolveAttempts
    <3>1. task' \in [Tasks -> Task \cup {Idle}]
      BY <1>1, <2>1, FieldTypes, TaskMoves
    <3> QED BY <1>1, <2>1, <3>1 DEF TrackerTyped, TypeOK, markEnded
  <2>2. CASE Returns(k) /\ UNCHANGED tracker
    BY <1>1, <2>2, KeepsTracker DEF Returns
  <2>3. CASE FailAttempt(k)
    BY <1>1, <2>3, FailAttemptTyped
  <2> QED BY <2>1, <2>2, <2>3 DEF Recover
<1> QED BY <1>1, <1>2, StandsStill, TaskStepTyped DEF Recover

LEMMA ReadForResolveTyped == ASSUME TypeInv, NEW k \in Tasks, ReadForResolve(k) PROVE TypeInv'
<1>1. TypeOK /\ MarketOK /\ task[k] \in Task
  BY AtTask, TypeInvMarket DEF ReadForResolve, TypeInv
<1>2. TrackerTyped
  <2>1. CASE Becomes(k, [task[k] EXCEPT !.pc = "fetch"]) /\ UNCHANGED tracker
    BY <1>1, <2>1, FieldTypes, KeepsTracker
  <2>2. CASE Returns(k) /\ UNCHANGED tracker
    BY <1>1, <2>2, KeepsTracker DEF Returns
  <2>3. CASE FailAttempt(k)
    BY <1>1, <2>3, FailAttemptTyped
  <2> QED BY <2>1, <2>2, <2>3 DEF ReadForResolve
<1> QED BY <1>1, <1>2, StandsStill, TaskStepTyped DEF ReadForResolve

LEMMA FetchTyped == ASSUME TypeInv, NEW k \in Tasks, FetchProof(k) PROVE TypeInv'
<1>1. TypeOK /\ MarketOK /\ task[k] \in Task
  BY AtTask, TypeInvMarket DEF FetchProof, TypeInv
<1>2. TrackerTyped
  <2>1. CASE \E b \in {"sound", "unsound"} :
               /\ Becomes(k, [task[k] EXCEPT !.pc = "hint", !.rung = 0, !.proof = b])
               /\ UNCHANGED tracker
    BY <1>1, <2>1, FieldTypes, KeepsTracker
  <2>2. CASE FailAttempt(k)
    BY <1>1, <2>2, FailAttemptTyped
  <2> QED BY <2>1, <2>2 DEF FetchProof
<1> QED BY <1>1, <1>2, StandsStill, TaskStepTyped DEF FetchProof

LEMMA TryHintTyped == ASSUME TypeInv, NEW k \in Tasks, TryHint(k) PROVE TypeInv'
<1>1. TypeOK /\ MarketOK /\ task[k] \in Task
  BY AtTask, TypeInvMarket DEF TryHint, TypeInv
<1>2. task[k].refetches \in 0..maxProofRefetches
  BY <1>1 DEF Task
<1>3. TrackerTyped
  <2>1. CASE HintRefused(k)
    <3>1. CASE Becomes(k, [task[k] EXCEPT !.pc = "reread"]) /\ UNCHANGED tracker
      BY <1>1, <3>1, FieldTypes, KeepsTracker
    <3>2. CASE FailAttempt(k)
      BY <1>1, <3>2, FailAttemptTyped
    <3>3. CASE Backoff(k, "hint", task[k].refetches)
      BY <1>1, <1>2, <3>3, BackoffTyped
    <3>4. CASE RefetchOrFail(k)
      BY <1>1, <3>4, RefetchTyped
    <3>5. CASE /\ ~LastRung(k)
               /\ Becomes(k, [task[k] EXCEPT !.rung = @ + 1]) /\ UNCHANGED tracker
      BY <1>1, <3>5, FieldTypes, KeepsTracker DEF LastRung
    <3> QED BY <2>1, <3>1, <3>2, <3>3, <3>4, <3>5 DEF HintRefused
  <2>2. CASE FailedToSend(k)
    BY <1>1, <2>2, FailedToSendTyped
  <2>3. CASE Becomes(k, [task[k] EXCEPT !.pc = "submit"]) /\ UNCHANGED tracker
    BY <1>1, <2>3, FieldTypes, KeepsTracker
  <2> QED BY <2>1, <2>2, <2>3 DEF TryHint
<1> QED BY <1>1, <1>3, StandsStill, TaskStepTyped DEF TryHint, HintRefused, network

LEMMA SubmitTyped == ASSUME TypeInv, NEW k \in Tasks, Submit(k) PROVE TypeInv'
<1>1. TypeOK /\ MarketOK /\ task[k] \in Task
  BY AtTask, TypeInvMarket DEF Submit, TypeInv
<1>2. TrackerTyped
  <2>1. CASE phase' = "Resolved" /\ Returns(k) /\ UNCHANGED resolveAttempts
    BY <1>1, <2>1, TaskMoves DEF Returns, TrackerTyped, TypeOK
  <2>2. CASE FailedToSend(k)
    BY <1>1, <2>2, FailedToSendTyped
  <2> QED BY <2>1, <2>2 DEF Submit
<1>3. MarketOK'
  BY <1>1, ExecutesForward, StandsStill DEF Submit
<1> QED BY <1>2, <1>3, TaskStepTyped DEF Submit, network

LEMMA RereadTyped == ASSUME TypeInv, NEW k \in Tasks, Reread(k) PROVE TypeInv'
<1>1. TypeOK /\ MarketOK
  BY TypeInvMarket DEF TypeInv
<1>2. TrackerTyped
  BY <1>1, KeepsTracker, FailAttemptTyped DEF Reread, Returns
<1> QED BY <1>1, <1>2, StandsStill, TaskStepTyped DEF Reread

LEMMA StartTyped == ASSUME TypeInv, NEW k \in Ticks, StartTick(k) PROVE TypeInv'
<1>1. TypeOK /\ MarketOK /\ k \in Tasks
  BY TypeInvMarket DEF TypeInv, Tasks
<1>2. now + ClockLead \in Nat
  BY <1>1, KeeperConstants DEF TypeOK
<1>3. TrackerTyped
  BY <1>1, <1>2, ProceedType DEF StartTick, TrackerTyped, TypeOK
<1> QED BY <1>1, <1>3, StandsStill, TaskStepTyped DEF StartTick, network

LEMMA StreamTyped == ASSUME TypeInv, NEW k \in Streams, StreamEnded(k) PROVE TypeInv'
<1>1. TypeOK /\ MarketOK /\ k \in Tasks
  BY TypeInvMarket DEF TypeInv, Tasks
<1>2. task' \in [Tasks -> Task \cup {Idle}]
  <2>1. CASE Becomes(k, NewTask("recover"))
    BY <1>1, <2>1, NewTaskType, TaskMoves
  <2>2. CASE \E g \in Guesses : Becomes(k, [NewTask("read") EXCEPT !.guess = g])
    <3>1. PICK g \in Guesses : Becomes(k, [NewTask("read") EXCEPT !.guess = g])
      BY <2>2
    <3>2. NewTask("read") \in Task /\ g \in Outcomes
      BY NewTaskType, KeeperConstants
    <3>3. [NewTask("read") EXCEPT !.guess = g] \in Task
      BY <3>2 DEF Task
    <3> QED BY <1>1, <3>1, <3>3, TaskMoves
  <2>3. CASE UNCHANGED task
    BY <1>1, <2>3 DEF TypeOK, Tasks
  <2> QED BY <2>1, <2>2, <2>3 DEF StreamEnded
<1>3. TrackerTyped
  BY <1>1, <1>2, CountedType DEF StreamEnded, TrackerTyped, TypeOK, markEnded
<1> QED BY <1>1, <1>3, StandsStill, TaskStepTyped DEF StreamEnded, network

LEMMA StepTyped == ASSUME TypeInv, NEW k \in Tasks, Step(k) PROVE TypeInv'
<1>1. markLive(phase) \in {"Scheduled", "Live", "Ended", "Resolved", "Failed"}
      /\ markEnded(phase) \in {"Scheduled", "Live", "Ended", "Resolved", "Failed"}
  BY DEF TypeInv, TypeOK, markLive, markEnded
<1>2. CASE activateMarket(k)
  BY <1>1, <1>2, ReadTyped, SendTyped DEF activateMarket
<1>3. CASE freezeMarket(k)
  BY <1>1, <1>3, ReadTyped, SendTyped DEF freezeMarket
<1>4. CASE tryResolve(k)
  BY <1>4, RecoverTyped, ReadForResolveTyped, FetchTyped, TryHintTyped, SubmitTyped,
     RereadTyped DEF tryResolve
<1> QED BY <1>2, <1>3, <1>4 DEF Step

LEMMA InitTyped == Init => TypeInv
<1> SUFFICES ASSUME Init PROVE TypeInv
  OBVIOUS
<1>1. ScheduleKept
  <2>1. PICK pair \in Schedules : kickoff_ts = pair[1] /\ freeze_ts = pair[2]
    BY DEF Init
  <2>2. pair = <<pair[1], pair[2]>>
    BY KeeperConstants
  <2> QED BY <2>1, <2>2 DEF ScheduleKept
<1>2. TypeOK
  BY KeeperConstants DEF Init, TypeOK, MarketState
<1> QED BY <1>1, <1>2 DEF TypeInv

LEMMA NextTyped == TypeInv /\ [Next]_vars => TypeInv'
<1> SUFFICES ASSUME TypeInv, [Next]_vars PROVE TypeInv'
  OBVIOUS
<1>1. CASE UNCHANGED vars
  BY <1>1 DEF vars, lifeVars, tracker, network, TypeInv, TypeOK, ScheduleKept
<1>2. CASE Next
  BY <1>2, EnvironmentTyped, StartTyped, StreamTyped, StepTyped DEF Next, Tasks
<1> QED BY <1>1, <1>2

LEMMA TypesInvariant == Spec => []TypeInv
<1> QED BY InitTyped, NextTyped, PTL DEF Spec

\* Every variable keeps its type: in particular no resolve ever goes beyond
\* its budgets of attempts, refetches and hints (resolve.ts:158-188).
THEOREM TypeCorrectness == Spec => []TypeOK
<1>1. TypeInv => TypeOK
  BY DEF TypeInv
<1> QED BY <1>1, TypesInvariant, PTL

-----------------------------------------------------------------------------
(* The tracker only follows the chain. *)

\* What a step may do to the phase, given where it leaves the market.
Earned ==
  /\ phase' = "Live" => phase = "Live" \/ state' # "Open"
  /\ phase' = "Resolved" => phase = "Resolved" \/ Over(state')

LEMMA UnmovedEarned == ASSUME UNCHANGED tracker PROVE Earned
BY DEF tracker, Earned

LEMMA FailAttemptEarned == ASSUME NEW k, FailAttempt(k) PROVE Earned
BY DEF FailAttempt, Earned

LEMMA FailedToSendEarned == ASSUME NEW k, FailedToSend(k) PROVE Earned
BY FailAttemptEarned, UnmovedEarned DEF FailedToSend, Backoff

LEMMA RefetchEarned == ASSUME NEW k, RefetchOrFail(k) PROVE Earned
BY FailAttemptEarned, UnmovedEarned DEF RefetchOrFail, Backoff

LEMMA ActivateEarned == ASSUME MarketOK, NEW k, activateMarket(k) PROVE Forward /\ Earned
<1>1. CASE ReadThenSend(k, "activate", {"Open"}, markLive(phase))
  BY <1>1, StandsStill, UnmovedEarned DEF ReadThenSend, Throw, markLive, Earned, lifeVars
<1>2. CASE SendThenMark(k, "activate", markLive(phase))
  <2>1. CASE Executes(<<"activate">>) /\ phase' = markLive(phase)
    BY <2>1, ExecutesForward DEF markLive, Earned
  <2>2. CASE Throw(k) /\ UNCHANGED lifeVars
    BY <2>2, StandsStill, UnmovedEarned DEF Throw
  <2> QED BY <1>2, <2>1, <2>2 DEF SendThenMark
<1> QED BY <1>1, <1>2 DEF activateMarket

LEMMA FreezeEarned == ASSUME MarketOK, NEW k, freezeMarket(k) PROVE Forward /\ Earned
<1>1. CASE ReadThenSend(k, "freeze", ToFreeze, markEnded(phase))
  BY <1>1, StandsStill, UnmovedEarned DEF ReadThenSend, Throw, markEnded, Earned
<1>2. CASE SendThenMark(k, "freeze", markEnded(phase))
  <2>1. CASE Executes(<<"freeze">>) /\ phase' = markEnded(phase)
    BY <2>1, ExecutesForward DEF markEnded, Earned
  <2>2. CASE Throw(k) /\ UNCHANGED lifeVars
    BY <2>2, StandsStill, UnmovedEarned DEF Throw
  <2> QED BY <1>2, <2>1, <2>2 DEF SendThenMark
<1> QED BY <1>1, <1>2 DEF freezeMarket

LEMMA ResolveEarned == ASSUME MarketOK, NEW k, tryResolve(k) PROVE Forward /\ Earned
<1>1. CASE Recover(k)
  BY <1>1, StandsStill, UnmovedEarned, FailAttemptEarned DEF Recover, markEnded, Earned
<1>2. CASE ReadForResolve(k)
  BY <1>2, StandsStill, UnmovedEarned, FailAttemptEarned DEF ReadForResolve
<1>3. CASE FetchProof(k)
  BY <1>3, StandsStill, UnmovedEarned, FailAttemptEarned DEF FetchProof
<1>4. CASE TryHint(k)
  <2>1. UNCHANGED lifeVars
    BY <1>4 DEF TryHint, HintRefused
  <2>2. Earned
    BY <1>4, UnmovedEarned, FailAttemptEarned, FailedToSendEarned, RefetchEarned
    DEF TryHint, HintRefused, Backoff
  <2> QED BY <2>1, <2>2, StandsStill
<1>5. CASE Submit(k)
  <2>1. CASE Executes(<<"resolve", Hint(task[k])>>) /\ phase' = "Resolved"
    BY <2>1, ExecutesForward DEF Earned
  <2>2. CASE FailedToSend(k) /\ UNCHANGED lifeVars
    BY <2>2, StandsStill, FailedToSendEarned
  <2> QED BY <1>5, <2>1, <2>2 DEF Submit
<1>6. CASE Reread(k)
  BY <1>6, StandsStill, UnmovedEarned, FailAttemptEarned DEF Reread
<1> QED BY <1>1, <1>2, <1>3, <1>4, <1>5, <1>6 DEF tryResolve

LEMMA EnvironmentForward ==
  ASSUME MarketOK,
         \/ ClockTick \/ MatchProgress \/ AdminCloses \/ RefreshFixtures \/ Crash
         \/ \E tx \in inflight : Land(tx)
  PROVE  Forward
<1>1. CASE ClockTick \/ AdminCloses
  BY <1>1 DEF ClockTick, Tick, AdminCloses, CloseMarket, Forward, Frozen, Over
<1>2. CASE MatchProgress \/ RefreshFixtures \/ Crash
  BY <1>2, StandsStill DEF MatchProgress, RefreshFixtures, Crash
<1>3. CASE \E tx \in inflight : Land(tx)
  BY <1>3, ExecutesForward, StandsStill DEF Land
<1> QED BY <1>1, <1>2, <1>3

LEMMA NextEarned == ASSUME TypeInv, [Next]_vars PROVE Forward /\ Earned
<1>0. MarketOK
  BY TypeInvMarket
<1>1. CASE UNCHANGED vars
  BY <1>0, <1>1, StandsStill, UnmovedEarned DEF vars
<1>2. CASE \/ ClockTick \/ MatchProgress \/ AdminCloses \/ RefreshFixtures \/ Crash
           \/ \E tx \in inflight : Land(tx)
  <2>1. Earned
    BY <1>2, UnmovedEarned
    DEF ClockTick, MatchProgress, AdminCloses, RefreshFixtures, Crash, Land, Earned
  <2> QED BY <1>0, <1>2, <2>1, EnvironmentForward
<1>3. CASE \E k \in Ticks : StartTick(k)
  BY <1>0, <1>3, StandsStill DEF StartTick, Earned
<1>4. CASE \E k \in Streams : StreamEnded(k)
  BY <1>0, <1>4, StandsStill DEF StreamEnded, Earned, markEnded
<1>5. CASE \E k \in Tasks : Step(k)
  BY <1>0, <1>5, ActivateEarned, FreezeEarned, ResolveEarned DEF Step
<1> QED BY <1>1, <1>2, <1>3, <1>4, <1>5 DEF Next, Tasks

\* The tracker is never ahead of the chain (stateMachine.ts:7-11), however many
\* ticks and callbacks overlap, fail, repeat or are cut short by a restart.
THEOREM TrackerStaysBehind == Spec => []TrackerBehindChain
<1>1. Init => TrackerBehindChain
  BY DEF Init, TrackerBehindChain
<1>2. TypeInv /\ TrackerBehindChain /\ [Next]_vars => TrackerBehindChain'
  BY NextEarned DEF Forward, Earned, Over, TrackerBehindChain
<1> QED BY <1>1, <1>2, TypesInvariant, PTL DEF Spec

-----------------------------------------------------------------------------
(* Without the score stream, an ended match is a frozen market.  A task that *)
(* resolves got there through a tick that saw the tracker Ended, so it only  *)
(* runs once the market is frozen; and then it may say Ended again.          *)

Resolving == {"recover", "read", "fetch", "hint", "submit", "reread"}
ResolvesFrozen == \A k \in Tasks : task[k] # Idle /\ task[k].pc \in Resolving => Frozen(state)
FrozenInv == EndedMeansFrozen /\ ResolvesFrozen

\* What a step of task k must be shown to do to keep it.
KeepsFrozen(k) ==
  /\ phase' = "Ended" => phase = "Ended" \/ Frozen(state')
  /\ task'[k] # Idle /\ task'[k].pc \in Resolving => Frozen(state')
  /\ \A j \in Tasks \ {k} : task'[j] = task[j]

LEMMA FrozenKept ==
  ASSUME FrozenInv, Forward, NEW k \in Tasks, KeepsFrozen(k) PROVE FrozenInv'
BY DEF FrozenInv, EndedMeansFrozen, ResolvesFrozen, Forward, Frozen, KeepsFrozen

LEMMA OneTaskMoves ==
  ASSUME TypeOK, NEW k \in Tasks, NEW t, Becomes(k, t)
  PROVE  task'[k] = t /\ \A j \in Tasks \ {k} : task'[j] = task[j]
BY DEF TypeOK, Becomes, Tasks

LEMMA ProceedFrozen ==
  ASSUME TypeOK, NEW k \in Tasks, NEW done, NEW ph, NEW f, NEW at,
         Proceed(k, done, ph, f, at), ph = "Ended" => Frozen(state'),
         phase' = ph \/ UNCHANGED phase
  PROVE  KeepsFrozen(k)
<1> DEFINE next == NextAction(done, ph, f, at)
           t == IF next = "return" THEN Idle ELSE [NewTask(next) EXCEPT !.f = f, !.at = at]
<1>1. Becomes(k, t)
  BY DEF Proceed
<1>2. task'[k] = t /\ \A j \in Tasks \ {k} : task'[j] = task[j]
  BY <1>1, OneTaskMoves
<1>3. next = "recover" => ph = "Ended"
  BY DEF NextAction
<1>4. next \in {"return", "activate", "freeze", "recover"}
  BY DEF NextAction
<1>5. t # Idle => t.pc = next
  <2> HIDE DEF next
  <2> QED BY DEF NewTask
<1>6. phase' = "Ended" => phase = "Ended" \/ Frozen(state')
  OBVIOUS
<1> HIDE DEF t, next
<1> QED BY <1>2, <1>3, <1>4, <1>5, <1>6 DEF KeepsFrozen, Resolving

LEMMA ResolveMovesOne == ASSUME NEW k, tryResolve(k) PROVE \E t : Becomes(k, t)
<1>1. FailAttempt(k) \/ Returns(k) \/ FailedToSend(k) \/ RefetchOrFail(k) => \E t : Becomes(k, t)
  BY DEF FailAttempt, Returns, FailedToSend, RefetchOrFail, Backoff
<1>2. CASE Recover(k)
  BY <1>1, <1>2 DEF Recover
<1>3. CASE ReadForResolve(k)
  BY <1>1, <1>3 DEF ReadForResolve
<1>4. CASE FetchProof(k)
  BY <1>1, <1>4 DEF FetchProof
<1>5. CASE TryHint(k)
  BY <1>1, <1>5 DEF TryHint, HintRefused, Backoff
<1>6. CASE Submit(k)
  BY <1>1, <1>6 DEF Submit
<1>7. CASE Reread(k)
  BY <1>1, <1>7 DEF Reread
<1> QED BY <1>2, <1>3, <1>4, <1>5, <1>6, <1>7 DEF tryResolve

LEMMA ResolveFrozen ==
  ASSUME TypeOK, FrozenInv, Forward, NEW k \in Tasks, tryResolve(k) PROVE KeepsFrozen(k)
<1>1. \E pc \in Resolving : At(k, pc)
  BY DEF tryResolve, Recover, ReadForResolve, FetchProof, TryHint, Submit, Reread, Resolving
<1>2. Frozen(state')
  BY <1>1 DEF At, FrozenInv, ResolvesFrozen, Forward
<1>3. \A j \in Tasks \ {k} : task'[j] = task[j]
  BY ResolveMovesOne, OneTaskMoves
<1> QED BY <1>2, <1>3 DEF KeepsFrozen

LEMMA ReturnFrozen ==
  ASSUME TypeOK, NEW k \in Tasks, Throw(k) PROVE KeepsFrozen(k)
BY OneTaskMoves DEF Throw, Returns, KeepsFrozen, tracker

LEMMA CrankFrozen ==
  ASSUME TypeOK, NEW k \in Tasks, NEW call, NEW pending, NEW marked,
         marked = "Ended" /\ (phase = "Ended" \/ state \notin pending) => Frozen(state),
         marked = "Ended" /\ Executes(<<call>>) => Frozen(state'),
         ReadThenSend(k, call, pending, marked) \/ SendThenMark(k, call, marked)
  PROVE  KeepsFrozen(k)
<1>1. CASE ReadThenSend(k, call, pending, marked)
  <2>1. CASE Becomes(k, [task[k] EXCEPT !.pc = Sending(call)]) /\ UNCHANGED tracker
    <3>1. task[k] \in Task
      BY <1>1, AtTask DEF ReadThenSend
    <3>2. [task[k] EXCEPT !.pc = Sending(call)].pc \notin Resolving
      BY <3>1 DEF Task, Sending, Resolving
    <3> QED BY <2>1, <3>2, OneTaskMoves DEF KeepsFrozen, tracker
  <2>2. CASE /\ state \notin pending /\ phase' = marked
             /\ Proceed(k, call, marked, task[k].f, task[k].at)
    <3>1. marked = "Ended" => Frozen(state')
      BY <1>1, <2>2 DEF ReadThenSend, lifeVars
    <3> QED BY <2>2, <3>1, ProceedFrozen
  <2>3. CASE Throw(k)
    BY <2>3, ReturnFrozen
  <2> QED BY <1>1, <2>1, <2>2, <2>3 DEF ReadThenSend
<1>2. CASE SendThenMark(k, call, marked)
  <2>1. CASE /\ Executes(<<call>>) /\ phase' = marked
             /\ Proceed(k, call, marked, task[k].f, task[k].at)
    BY <2>1, ProceedFrozen
  <2>2. CASE Throw(k)
    BY <2>2, ReturnFrozen
  <2> QED BY <1>2, <2>1, <2>2 DEF SendThenMark
<1> QED BY <1>1, <1>2

LEMMA StepFrozen ==
  ASSUME TypeInv, FrozenInv, Forward, NEW k \in Tasks, Step(k) PROVE KeepsFrozen(k)
<1>0. TypeOK /\ MarketOK /\ (phase = "Ended" => Frozen(state))
  BY TypeInvMarket DEF TypeInv, FrozenInv, EndedMeansFrozen, Frozen
<1>1. CASE activateMarket(k)
  <2> DEFINE marked == markLive(phase)
             pending == {"Open"}
  <2>1. marked = "Ended" => Frozen(state) /\ Frozen(state')
    BY <1>0 DEF markLive, Forward
  <2>2. \/ ReadThenSend(k, "activate", pending, marked)
        \/ SendThenMark(k, "activate", marked)
    BY <1>1 DEF activateMarket
  <2> HIDE DEF marked, pending
  <2> QED BY <1>0, <2>1, <2>2, CrankFrozen
<1>2. CASE freezeMarket(k)
  <2>1. phase = "Ended" \/ state \notin ToFreeze => Frozen(state)
    BY <1>0 DEF ToFreeze, Frozen
  <2>2. Executes(<<"freeze">>) => Frozen(state')
    BY <1>0, ExecutesForward
  <2> QED BY <1>0, <1>2, <2>1, <2>2, CrankFrozen DEF freezeMarket
<1>3. CASE tryResolve(k)
  BY <1>0, <1>3, ResolveFrozen
<1> QED BY <1>1, <1>2, <1>3 DEF Step

LEMMA FrozenStep ==
  ASSUME TypeInv, FrozenInv, ENABLE_SCORE_STREAM = FALSE, [Next]_vars PROVE FrozenInv'
<1>0. TypeOK /\ Forward
  BY NextEarned DEF TypeInv
<1>1. CASE UNCHANGED <<tracker, task>>
  BY <1>0, <1>1
  DEF tracker, FrozenInv, EndedMeansFrozen, ResolvesFrozen, Forward, Frozen
<1>2. CASE Crash
  BY <1>2 DEF Crash, FrozenInv, EndedMeansFrozen, ResolvesFrozen, Tasks
<1>3. CASE \E k \in Ticks : StartTick(k)
  <2>1. PICK k \in Ticks : StartTick(k)
    BY <1>3
  <2>2. k \in Tasks
    BY DEF Tasks
  <2>3. phase = "Ended" => Frozen(state')
    BY <1>0 DEF FrozenInv, EndedMeansFrozen, Forward, Frozen
  <2>4. KeepsFrozen(k)
    BY <1>0, <2>1, <2>2, <2>3, ProceedFrozen DEF StartTick
  <2> QED BY <1>0, <2>2, <2>4, FrozenKept
<1>4. CASE \E k \in Streams : StreamEnded(k)
  BY <1>4 DEF StreamEnded
<1>5. CASE \E k \in Tasks : Step(k)
  BY <1>0, <1>5, StepFrozen, FrozenKept
<1> QED BY <1>1, <1>2, <1>3, <1>4, <1>5
        DEF Next, Tasks, vars, ClockTick, MatchProgress, AdminCloses, Land, RefreshFixtures

\* With the timer alone, the tracker says Ended only of a frozen market
\* (stateMachine.ts:4), through overlapping ticks, failures and restarts.
THEOREM TimerEndsFrozen ==
  ASSUME ENABLE_SCORE_STREAM = FALSE
  PROVE  Spec => []EndedMeansFrozen
<1>1. Init => FrozenInv
  BY DEF Init, FrozenInv, EndedMeansFrozen, ResolvesFrozen, Tasks
<1>2. TypeInv /\ FrozenInv /\ [Next]_vars => FrozenInv'
  BY FrozenStep
<1>3. FrozenInv => EndedMeansFrozen
  BY DEF FrozenInv
<1> QED BY <1>1, <1>2, <1>3, TypesInvariant, PTL DEF Spec

-----------------------------------------------------------------------------
(* The mark poster: how long a traded pool may go without a mark. *)

Order == SetToSeq(Pools)
N == Cardinality(Pools)

\* The longest that m fixtures take, and a round from one visit to a fixture to
\* the next: the rest of the walk, the wait for the timer, the list of fixtures
\* and the walk up to it.
Walk(m) == m * PostDelay
Round == TICK + Walk(N + 1)

\* A mark is not yet an epoch old when the poster looks and takes as long as it may
\* for it; a round later it is posted, or a failure costs another round.
Budget == (EPOCH - 1) + PostDelay + (MaxPostMisses + 1) * Round

\* The walk visits each pool once.
LEMMA OrderFacts ==
  /\ N \in Nat /\ Order \in [1..N -> Pools]
  /\ Order \in Seq(Pools) /\ Len(Order) = N
  /\ \A i, j \in 1..N : Order[i] = Order[j] => i = j
  /\ \A p \in Pools : \E i \in 1..N : Order[i] = p
<1>1. N \in Nat /\ ExistsBijection(1..N, Pools) /\ IsFiniteSet(Pools)
  BY MarkPosterConstants, FS_CardinalityType DEF N
<1>2. \E f \in [1..N -> Pools] : IsInjective(f)
  BY <1>1 DEF ExistsBijection, Bijection, Injection
<1>3. Order \in [1..N -> Pools] /\ IsInjective(Order)
  BY <1>2 DEF Order, SetToSeq, N
<1>4. \A i, j \in 1..N : Order[i] = Order[j] => i = j
  BY <1>3 DEF IsInjective
<1>5. Order \in Surjection(1..N, Pools)
  <2>1. IsFiniteSet(1..N) /\ Cardinality(1..N) = N
    BY <1>1, FS_Interval
  <2>2. Order \in Injection(1..N, Pools)
    BY <1>3 DEF Injection
  <2> QED BY <1>1, <2>1, <2>2, FS_Injection DEF N
<1>6. \A p \in Pools : \E i \in 1..N : Order[i] = p
  BY <1>5 DEF Surjection
<1>7. Order \in Seq(Pools) /\ Len(Order) = N
  <2>1. Order = [i \in 1..N |-> Order[i]] /\ \A i \in 1..N : Order[i] \in Pools
    BY <1>3
  <2> QED BY <1>1, <2>1
<1> QED BY <1>1, <1>3, <1>4, <1>6, <1>7

\* Times add up.
LEMMA WalkNat == ASSUME NEW m \in Nat PROVE Walk(m) \in Nat
BY MarkPosterConstants DEF Walk

LEMMA WalkSum == ASSUME NEW m \in Nat, NEW n \in Nat PROVE Walk(m + n) = Walk(m) + Walk(n)
BY MarkPosterConstants DEF Walk

LEMMA WalkNext == ASSUME NEW m \in Nat PROVE Walk(m + 1) = Walk(m) + PostDelay
BY MarkPosterConstants DEF Walk

LEMMA WalkNone == Walk(0) = 0
BY MarkPosterConstants DEF Walk

\* Longer walks take longer.
LEMMA WalkMono ==
  ASSUME NEW m \in Nat, NEW n \in Nat, m <= n
  PROVE  Walk(m) \in Nat /\ Walk(n) \in Nat /\ Walk(m) <= Walk(n)
<1>1. PICK k \in Nat : n = m + k
  <2>1. n - m \in Nat /\ n = m + (n - m)
    OBVIOUS
  <2> QED BY <2>1
<1>2. Walk(n) = Walk(m) + Walk(k) /\ Walk(m) \in Nat /\ Walk(k) \in Nat
  BY <1>1, WalkNat, WalkSum
<1> QED BY <1>2

\* What a round is made of.
LEMMA RoundFacts ==
  /\ PostDelay \in Nat /\ TICK \in Nat /\ N \in Nat
  /\ Round \in Nat /\ Walk(N) \in Nat /\ Round = TICK + PostDelay + Walk(N)
<1>1. PostDelay \in Nat /\ TICK \in Nat /\ N \in Nat
  BY MarkPosterConstants, OrderFacts
<1>2. Walk(N + 1) = Walk(N) + PostDelay /\ Walk(N) \in Nat
  BY <1>1, WalkNat, WalkNext
<1> QED BY <1>1, <1>2 DEF Round

\* Part of a walk takes no longer than all of it, and neither do two parts.
LEMMA PartOfWalk ==
  ASSUME NEW k \in Nat, k <= N
  PROVE  Walk(k) \in Nat /\ Walk(k) <= Walk(N)
<1>1. N \in Nat
  BY RoundFacts
<1> QED BY <1>1, WalkMono

LEMMA PartsOfWalk ==
  ASSUME NEW k \in Nat, NEW i \in 1..N, k + i <= N
  PROVE  Walk(k) \in Nat /\ Walk(i) \in Nat /\ Walk(k) + Walk(i) <= Walk(N)
<1>1. N \in Nat /\ i \in Nat /\ k + i \in Nat
  BY RoundFacts
<1>2. Walk(k) \in Nat /\ Walk(i) \in Nat
  BY <1>1, WalkNat
<1>3. Walk(k + i) = Walk(k) + Walk(i)
  BY <1>1, WalkSum
<1>4. Walk(k + i) <= Walk(N)
  BY <1>1, PartOfWalk
<1> QED BY <1>2, <1>3, <1>4

LEMMA WalkTo ==
  ASSUME NEW i \in 1..N
  PROVE  Walk(i) \in Nat /\ Walk(i) <= Walk(N)
<1>1. i \in Nat /\ i <= N
  BY RoundFacts
<1> QED BY <1>1, PartOfWalk

\* What the failures still to come may cost.
Spare(misses) == (MaxPostMisses - misses) * Round

LEMMA SpareFacts ==
  /\ \A n \in 0..MaxPostMisses : Spare(n) \in Nat /\ Spare(n) <= Spare(0)
  /\ \A n \in 0..MaxPostMisses : n < MaxPostMisses => Spare(n + 1) = Spare(n) - Round
  /\ Budget \in Nat /\ Budget = (EPOCH - 1) + PostDelay + Round + Spare(0)
<1>1. MaxPostMisses \in Nat /\ PostDelay \in Nat /\ EPOCH \in Nat \ {0} /\ Round \in Nat
  BY MarkPosterConstants, RoundFacts
<1>2. ASSUME NEW n \in 0..MaxPostMisses
      PROVE  /\ Spare(n) \in Nat /\ Spare(n) <= Spare(0)
             /\ n < MaxPostMisses => Spare(n + 1) = Spare(n) - Round
  <2>1. PICK r \in Nat : r = Round
    BY <1>1
  <2>2. PICK k \in Nat : k = MaxPostMisses - n
    BY <1>1
  <2>3. k * r \in Nat /\ n * r \in Nat /\ (k + n) * r = k * r + n * r /\ (k - 1) * r = k * r - r
    OBVIOUS
  <2>4. Spare(n) = k * r /\ Spare(0) = (k + n) * r /\ Spare(n + 1) = (k - 1) * r
    <3>1. MaxPostMisses - 0 = k + n /\ MaxPostMisses - (n + 1) = k - 1
      BY <1>1, <2>2
    <3> QED BY <2>1, <2>2, <3>1 DEF Spare
  <2> QED BY <1>1, <2>1, <2>3, <2>4
<1>3. (MaxPostMisses + 1) * Round = Round + Spare(0)
  <2>1. PICK r \in Nat : r = Round
    BY <1>1
  <2>2. PICK k \in Nat : k = MaxPostMisses
    BY <1>1
  <2>3. (k + 1) * r = r + (k - 0) * r
    OBVIOUS
  <2> QED BY <2>1, <2>2, <2>3 DEF Spare
<1>4. Spare(0) \in Nat
  BY <1>1, <1>2
<1> QED BY <1>1, <1>2, <1>3, <1>4 DEF Budget

-----------------------------------------------------------------------------
(* Where the poster is, and how long it may take until it has dealt with the  *)
(* i-th pool.                                                                  *)

PerPool == {"market", "pool", "config", "early", "send"}
PosterRecord(r) == [at |-> r.at, left |-> r.left, waited |-> r.waited]

\* On a walk, what is left is an end of the order.
OnItsWay(r) ==
  /\ r = PosterRecord(r)
  /\ r.left \in Seq(Pools) /\ r.waited \in 0..PostDelay
  /\ \/ r.at = "rest"
     \/ r.at = "list"
     \/ /\ r.at \in PerPool /\ Len(r.left) \in 1..N
        /\ \A j \in 1..Len(r.left) : r.left[j] = Order[N - Len(r.left) + j]

\* The walk is at the i-th pool, or has left it to come to.
AtPool(r, i) == Len(r.left) = N + 1 - i
StillAhead(r, i) == Len(r.left) >= N + 1 - i /\ ~(AtPool(r, i) /\ r.at = "early")

ToPost(r, since, i) ==
  IF r.at = "rest" THEN (TICK - since) + PostDelay + Walk(i)
  ELSE IF r.at = "list" THEN (PostDelay - r.waited) + Walk(i)
  ELSE IF StillAhead(r, i) THEN (PostDelay - r.waited) + Walk(Len(r.left) - (N + 1 - i))
  ELSE (PostDelay - r.waited) + Walk(Len(r.left) - 1) + TICK + PostDelay + Walk(i)

\* The four ways to go.
LEMMA RestingToPost ==
  ASSUME NEW r, NEW since, NEW i, r.at = "rest"
  PROVE  ToPost(r, since, i) = (TICK - since) + PostDelay + Walk(i)
BY DEF ToPost

LEMMA ListingToPost ==
  ASSUME NEW r, NEW since, NEW i, r.at = "list"
  PROVE  ToPost(r, since, i) = (PostDelay - r.waited) + Walk(i)
BY DEF ToPost

LEMMA AheadToPost ==
  ASSUME NEW r, NEW since, NEW i, r.at \in PerPool, StillAhead(r, i),
         NEW k, Len(r.left) - (N + 1 - i) = k
  PROVE  ToPost(r, since, i) = (PostDelay - r.waited) + Walk(k)
BY DEF ToPost, PerPool

LEMMA BehindToPost ==
  ASSUME NEW r, NEW since, NEW i, r.at \in PerPool, ~StillAhead(r, i),
         NEW k, Len(r.left) - 1 = k
  PROVE  ToPost(r, since, i) = (PostDelay - r.waited) + Walk(k) + TICK + PostDelay + Walk(i)
BY DEF ToPost, PerPool

\* It never takes longer than what is left of one fixture and a round.
LEMMA ToPostBound ==
  ASSUME NEW r, OnItsWay(r), NEW since \in 0..TICK, NEW i \in 1..N
  PROVE  ToPost(r, since, i) \in Nat /\ ToPost(r, since, i) <= PostDelay + Round
<1>1. PICK m \in Nat : m = Len(r.left)
  BY LenProperties DEF OnItsWay
<1>2. PICK w \in 0..PostDelay : w = r.waited
  BY DEF OnItsWay
<1>3. Walk(i) \in Nat /\ Walk(i) <= Walk(N)
  BY WalkTo
<1>4. CASE r.at = "rest"
  BY <1>3, <1>4, RoundFacts, RestingToPost
<1>5. CASE r.at = "list"
  BY <1>2, <1>3, <1>5, RoundFacts, ListingToPost
<1>6. CASE r.at \in PerPool
  <2>1. m \in 1..N
    BY <1>1, <1>6 DEF OnItsWay, PerPool
  <2>2. CASE StillAhead(r, i)
    <3>1. PICK k \in Nat : k = m - (N + 1 - i) /\ k <= N
      <4>1. m >= N + 1 - i
        BY <1>1, <2>2 DEF StillAhead
      <4>2. m - (N + 1 - i) \in Nat /\ m - (N + 1 - i) <= N
        BY <2>1, <4>1, RoundFacts
      <4> QED BY <4>2
    <3>2. ToPost(r, since, i) = (PostDelay - w) + Walk(k)
      BY <1>1, <1>2, <1>6, <2>2, <3>1, AheadToPost
    <3>3. Walk(k) \in Nat /\ Walk(k) <= Walk(N)
      BY <3>1, PartOfWalk
    <3> QED BY <3>2, <3>3, RoundFacts
  <2>3. CASE ~StillAhead(r, i)
    <3>1. PICK k \in Nat : k = m - 1 /\ k + i \in Nat /\ k + i <= N
      BY <1>1, <2>1, <2>3, RoundFacts DEF StillAhead, AtPool
    <3>2. ToPost(r, since, i) = (PostDelay - w) + Walk(k) + TICK + PostDelay + Walk(i)
      BY <1>1, <1>2, <1>6, <2>3, <3>1, BehindToPost
    <3>3. Walk(k) \in Nat /\ Walk(k) + Walk(i) <= Walk(N)
      BY <3>1, PartsOfWalk
    <3> QED BY <1>3, <3>2, <3>3, RoundFacts
  <2> QED BY <2>2, <2>3
<1> QED BY <1>4, <1>5, <1>6 DEF OnItsWay

\* Once the poster is done with a fixture, no pool waits longer than a round, and
\* only the pool just visited waits longer than before.
LEMMA NextOne ==
  ASSUME NEW r, OnItsWay(r), r.at \in PerPool, NEW since \in 0..TICK,
         NEW n, n = NextFixture(Tail(r.left))
  PROVE  /\ OnItsWay(n)
         /\ \A i \in 1..N :
              /\ ToPost(n, since, i) <= Round
              /\ ~AtPool(r, i) \/ r.at = "early" => ToPost(n, since, i) <= ToPost(r, since, i)
<1>1. PICK m \in 1..N : m = Len(r.left)
  BY DEF OnItsWay, PerPool
<1>2. PICK w \in 0..PostDelay : w = r.waited
  BY DEF OnItsWay
<1>3. r.left \in Seq(Pools) /\ r.left # <<>>
  BY <1>1, EmptySeq DEF OnItsWay
<1>4. PICK t \in Seq(Pools) :
         /\ t = Tail(r.left) /\ Len(t) = m - 1
         /\ \A j \in 1..(m - 1) : t[j] = r.left[j + 1]
  <2>1. PICK l \in Seq(Pools) : l = r.left
    BY <1>3
  <2>2. l # <<>> /\ Len(l) = m
    BY <1>1, <1>3, <2>1
  <2>3. /\ Tail(l) \in Seq(Pools) /\ Len(Tail(l)) = Len(l) - 1
        /\ \A j \in 1..Len(Tail(l)) : Tail(l)[j] = l[j + 1]
    BY <2>2, HeadTailProperties
  <2>4. Len(Tail(l)) = m - 1 /\ \A j \in 1..(m - 1) : Tail(l)[j] = l[j + 1]
    BY <2>2, <2>3
  <2> QED BY <2>1, <2>3, <2>4
<1>5. \A j \in 1..m : r.left[j] = Order[N - m + j]
  BY <1>1 DEF OnItsWay, PerPool
<1>6. CASE t = <<>>
  <2>1. n = [at |-> "rest", left |-> <<>>, waited |-> 0] /\ m = 1
    <3>1. Len(<<>>) = 0
      BY EmptySeq
    <3>2. m - 1 = 0 /\ m = 1
      BY <1>4, <1>6, <3>1
    <3>3. n = NextFixture(<<>>)
      BY <1>4, <1>6
    <3> QED BY <3>2, <3>3 DEF NextFixture, Finished, Resting
  <2>2. OnItsWay(n)
    <3>1. n.at = "rest" /\ n.left = <<>> /\ n.waited = 0
      BY <2>1
    <3>2. n = PosterRecord(n)
      BY <2>1, <3>1 DEF PosterRecord
    <3>3. <<>> \in Seq(Pools) /\ 0 \in 0..PostDelay
      BY EmptySeq, RoundFacts
    <3> QED BY <3>1, <3>2, <3>3 DEF OnItsWay
  <2>3. ASSUME NEW i \in 1..N
        PROVE  /\ ToPost(n, since, i) <= Round
               /\ ~AtPool(r, i) \/ r.at = "early" => ToPost(n, since, i) <= ToPost(r, since, i)
    <3>1. ToPost(n, since, i) = (TICK - since) + PostDelay + Walk(i)
      BY <2>1, RestingToPost
    <3>2. Walk(i) \in Nat /\ Walk(i) <= Walk(N)
      BY WalkTo
    <3>3. ASSUME ~AtPool(r, i) \/ r.at = "early"
          PROVE  ToPost(n, since, i) <= ToPost(r, since, i)
      <4>1. ~StillAhead(r, i)
        BY <1>1, <2>1, <3>3, RoundFacts DEF StillAhead, AtPool
      <4>2. ToPost(r, since, i) = (PostDelay - r.waited) + Walk(0) + TICK + PostDelay + Walk(i)
        <5>1. PICK k : Len(r.left) - 1 = k
          OBVIOUS
        <5>2. ToPost(r, since, i) = (PostDelay - r.waited) + Walk(k) + TICK + PostDelay + Walk(i)
          BY <4>1, <5>1, BehindToPost
        <5>3. k = 0
          BY <1>1, <2>1, <5>1
        <5> QED BY <5>2, <5>3
      <4>3. ToPost(r, since, i) = (PostDelay - w) + Walk(0) + TICK + PostDelay + Walk(i)
        BY <1>2, <4>2
      <4> QED BY <3>1, <3>2, <4>3, RoundFacts, WalkNone
    <3> QED BY <3>1, <3>2, <3>3, RoundFacts
  <2> QED BY <2>2, <2>3
<1>7. CASE t # <<>>
  <2>1. n = [at |-> "market", left |-> t, waited |-> 0] /\ m - 1 \in 1..N
    <3>1. Len(t) # 0
      BY <1>7, EmptySeq
    <3> QED BY <1>4, <1>7, <3>1, RoundFacts DEF NextFixture
  <2>2. n.at = "market" /\ n.left = t /\ n.waited = 0
    BY <2>1
  <2>3. OnItsWay(n)
    <3>1. n = PosterRecord(n)
      BY <2>1, <2>2 DEF PosterRecord
    <3>2. ASSUME NEW j \in 1..(m - 1) PROVE t[j] = Order[N - (m - 1) + j]
      <4>1. j + 1 \in 1..m /\ N - m + (j + 1) = N - (m - 1) + j
        BY RoundFacts
      <4> QED BY <1>4, <1>5, <4>1
    <3>3. Len(n.left) = m - 1 /\ \A j \in 1..Len(n.left) : n.left[j] = Order[N - Len(n.left) + j]
      <4>1. Len(n.left) = m - 1
        BY <1>4, <2>2
      <4>2. \A j \in 1..(m - 1) : n.left[j] = Order[N - (m - 1) + j]
        BY <2>2, <3>2
      <4> QED BY <4>1, <4>2
    <3>4. 0 \in 0..PostDelay /\ "market" \in PerPool
      BY RoundFacts DEF PerPool
    <3> QED BY <2>1, <2>2, <3>1, <3>3, <3>4 DEF OnItsWay
  <2>4. ASSUME NEW i \in 1..N
        PROVE  /\ ToPost(n, since, i) <= Round
               /\ ~AtPool(r, i) \/ r.at = "early" => ToPost(n, since, i) <= ToPost(r, since, i)
    <3>1. Walk(i) \in Nat /\ Walk(i) <= Walk(N)
      BY WalkTo
    <3>2. Len(n.left) = m - 1 /\ n.at \in PerPool
      BY <1>4, <2>2 DEF PerPool
    <3>3. CASE m - 1 >= N + 1 - i
      <4>1. PICK k \in Nat : k = m - 1 - (N + 1 - i) /\ k <= N
        BY <3>3, RoundFacts
      <4>2. ToPost(n, since, i) = PostDelay + Walk(k)
        <5>1. StillAhead(n, i) /\ Len(n.left) - (N + 1 - i) = k
          BY <2>2, <3>2, <3>3, <4>1 DEF StillAhead
        <5>2. ToPost(n, since, i) = (PostDelay - 0) + Walk(k)
          BY <2>2, <3>2, <5>1, AheadToPost
        <5> QED BY <5>2, RoundFacts
      <4>3. ToPost(r, since, i) = (PostDelay - w) + Walk(k + 1)
        <5>1. StillAhead(r, i) /\ Len(r.left) - (N + 1 - i) = k + 1
          BY <1>1, <3>3, <4>1, RoundFacts DEF StillAhead, AtPool
        <5> QED BY <1>2, <5>1, AheadToPost
      <4>4. Walk(k + 1) = Walk(k) + PostDelay /\ Walk(k) \in Nat /\ Walk(k) <= Walk(N)
        BY <4>1, WalkNext, PartOfWalk
      <4> QED BY <4>2, <4>3, <4>4, RoundFacts
    <3>4. CASE m - 1 < N + 1 - i
      <4>1. PICK k \in Nat : k = m - 2
        BY <2>1, RoundFacts
      <4>2. ToPost(n, since, i) = PostDelay + Walk(k) + TICK + PostDelay + Walk(i)
        <5>1. ~StillAhead(n, i) /\ Len(n.left) - 1 = k
          BY <3>2, <3>4, <4>1, RoundFacts DEF StillAhead
        <5>2. ToPost(n, since, i) = (PostDelay - 0) + Walk(k) + TICK + PostDelay + Walk(i)
          BY <2>2, <3>2, <5>1, BehindToPost
        <5> QED BY <5>2, RoundFacts
      <4>3. Walk(k + 1) = Walk(k) + PostDelay /\ Walk(k) \in Nat
        BY WalkNat, WalkNext
      <4>4. Walk(k + 1) + Walk(i) <= Walk(N)
        <5>1. PICK l \in Nat : l = k + 1 /\ l + i \in Nat /\ l + i <= N
          BY <3>4, <4>1, RoundFacts
        <5> QED BY <5>1, PartsOfWalk
      <4>5. ASSUME ~AtPool(r, i) \/ r.at = "early" PROVE ToPost(n, since, i) <= ToPost(r, since, i)
        <5>1. ~StillAhead(r, i) /\ Len(r.left) - 1 = k + 1
          BY <1>1, <3>4, <4>1, <4>5, RoundFacts DEF StillAhead, AtPool
        <5>2. ToPost(r, since, i) = (PostDelay - w) + Walk(k + 1) + TICK + PostDelay + Walk(i)
          BY <1>2, <5>1, BehindToPost
        <5>3. PICK x, y, z, d \in Nat : x = Walk(i) /\ y = Walk(k) /\ z = TICK /\ d = PostDelay /\ w <= d
          BY <3>1, <4>3, RoundFacts
        <5>4. ToPost(n, since, i) = d + y + z + d + x
          BY <4>2, <5>3
        <5>5. ToPost(r, since, i) = (d - w) + (y + d) + z + d + x
          BY <4>3, <5>2, <5>3
        <5>6. w \in Nat /\ w <= d
          BY <1>2, <5>3
        <5>7. d + y + z + d + x <= (d - w) + (y + d) + z + d + x
          <6>1. PICK c \in Int : c = d + y + z + d + x
            OBVIOUS
          <6>2. c <= c + (d - w)
            BY <5>6
          <6>3. (d - w) + (y + d) + z + d + x = c + (d - w)
            BY <5>6, <6>1
          <6> QED BY <6>1, <6>2, <6>3
        <5> QED BY <5>4, <5>5, <5>7
      <4> QED BY <3>1, <4>2, <4>3, <4>4, <4>5, RoundFacts
    <3> QED BY <3>3, <3>4, RoundFacts
  <2> QED BY <2>3, <2>4
<1> QED BY <1>6, <1>7

-----------------------------------------------------------------------------
(* The marks the poster posts are marks the program accepts. *)

\* Of some rows, one is the freshest, or the first of them.
LEMMA Freshest ==
  ASSUME NEW rows \in Nat, NEW ts \in [1..rows -> Nat],
         NEW full \in SUBSET (1..rows), full # {}
  PROVE  \E i \in full : \A j \in full : ts[i] > ts[j] \/ (ts[i] = ts[j] /\ i <= j)
<1> DEFINE upto(n) == {i \in full : i <= n}
           Settled == {n \in Nat : upto(n) = {} \/ \E i \in upto(n) : \A j \in upto(n) :
                                     ts[i] > ts[j] \/ (ts[i] = ts[j] /\ i <= j)}
<1>1. \A i \in full : i \in Nat /\ i > 0 /\ i <= rows /\ ts[i] \in Nat
  <2> TAKE i \in full
  <2>1. i \in 1..rows
    OBVIOUS
  <2> QED BY <2>1
<1>2. 0 \in Settled
  <2>1. \A i \in full : ~(i <= 0)
    <3> TAKE i \in full
    <3>1. i \in Nat /\ i > 0
      BY <1>1
    <3> QED BY <3>1
  <2>2. upto(0) = {}
    BY <2>1
  <2> QED BY <2>2
<1>3. ASSUME NEW n \in Nat, n \in Settled
      PROVE  n + 1 \in Settled
  <2>1. CASE n + 1 \notin full
    <3>1. \A i \in full : i <= n + 1 <=> i <= n
      <4> TAKE i \in full
      <4>1. i # n + 1 /\ i \in Nat
        BY <1>1, <2>1
      <4> QED BY <4>1
    <3>2. upto(n + 1) = upto(n)
      BY <3>1
    <3> HIDE DEF upto
    <3> QED BY <1>3, <3>2
  <2>2. CASE n + 1 \in full
    <3>1. \A i \in full : i <= n + 1 <=> i <= n \/ i = n + 1
      <4> TAKE i \in full
      <4>1. i \in Nat
        BY <1>1
      <4> QED BY <4>1
    <3>2. \A j : j \in upto(n + 1) <=> j \in upto(n) \/ j = n + 1
      BY <2>2, <3>1
    <3>3. \A j \in upto(n) : j \in Nat /\ j <= n /\ ts[j] \in Nat
      BY <1>1
    <3>4. ts[n + 1] \in Nat
      BY <1>1, <2>2
    <3> SUFFICES \E i \in upto(n + 1) : \A j \in upto(n + 1) :
                    ts[i] > ts[j] \/ (ts[i] = ts[j] /\ i <= j)
      OBVIOUS
    <3>5. CASE upto(n) = {}
      <4> HIDE DEF upto
      <4>1. n + 1 \in upto(n + 1) /\ \A j \in upto(n + 1) : j = n + 1
        BY <3>2, <3>5
      <4> QED BY <4>1
    <3>6. CASE upto(n) # {}
      <4>1. PICK i \in upto(n) : \A j \in upto(n) : ts[i] > ts[j] \/ (ts[i] = ts[j] /\ i <= j)
        BY <1>3, <3>6
      <4> HIDE DEF upto
      <4>2. CASE ts[n + 1] > ts[i]
        <5>1. \A j \in upto(n) : ts[n + 1] > ts[j]
          <6> TAKE j \in upto(n)
          <6>1. ts[i] >= ts[j] /\ ts[i] \in Nat /\ ts[j] \in Nat
            BY <3>3, <4>1
          <6> QED BY <3>4, <4>2, <6>1
        <5> QED BY <3>2, <5>1
      <4>3. CASE ~(ts[n + 1] > ts[i])
        <5>1. ts[i] > ts[n + 1] \/ (ts[i] = ts[n + 1] /\ i <= n + 1)
          BY <3>3, <3>4, <4>3
        <5> QED BY <3>2, <4>1, <5>1
      <4> QED BY <4>2, <4>3
    <3> QED BY <3>5, <3>6
  <2> QED BY <2>1, <2>2
<1>4. rows \in Settled
  <2> HIDE DEF Settled
  <2> QED BY <1>2, <1>3, NatClosed
<1>5. upto(rows) = full
  BY <1>1
<1> QED BY <1>4, <1>5

\* The odds give no triple or one of positive quotes.
LEMMA ImpliedQuotes ==
  ASSUME NEW feed \in OddsFeeds \cup {<<>>}, fetchImplied1x2(feed) # <<>>
  PROVE  /\ fetchImplied1x2(feed) \in [1..3 -> Nat]
         /\ \A o \in 1..3 : fetchImplied1x2(feed)[o] > 0
<1> DEFINE full == {i \in DOMAIN feed : \A o \in 1..3 : feed[i].pct[o] > 0 /\ feed[i].pct[o] < 100}
           first == CHOOSE i \in full : \A j \in full :
                      feed[i].ts > feed[j].ts \/ (feed[i].ts = feed[j].ts /\ i <= j)
<1>1. feed \in Seq([ts : Nat, pct : [1..3 -> Nat]])
  <2>1. <<>> \in Seq([ts : Nat, pct : [1..3 -> Nat]])
    BY EmptySeq
  <2> QED BY <2>1, MarkPosterConstants
<1>2. full # {} /\ fetchImplied1x2(feed) = feed[first].pct
  BY DEF fetchImplied1x2
<1>3. Len(feed) \in Nat /\ \A i \in 1..Len(feed) : feed[i] \in [ts : Nat, pct : [1..3 -> Nat]]
  BY <1>1, LenProperties, ElementOfSeq
<1>4. full \in SUBSET (1..Len(feed))
  BY <1>1
<1>5. first \in full
  <2>1. PICK rows \in Nat : rows = Len(feed)
    BY <1>3
  <2>2. PICK K : K = full
    OBVIOUS
  <2>3. PICK ts : ts = [i \in 1..Len(feed) |-> feed[i].ts]
    OBVIOUS
  <2>4. ts \in [1..rows -> Nat] /\ K \in SUBSET (1..rows) /\ K # {}
    BY <1>2, <1>3, <1>4, <2>1, <2>2, <2>3
  <2>5. PICK i \in K : \A j \in K : ts[i] > ts[j] \/ (ts[i] = ts[j] /\ i <= j)
    BY <2>4, Freshest
  <2>6. \A j \in K : ts[j] = feed[j].ts
    BY <1>4, <2>2, <2>3
  <2>7. \A j \in K : feed[i].ts > feed[j].ts \/ (feed[i].ts = feed[j].ts /\ i <= j)
    BY <2>5, <2>6
  <2>8. first = CHOOSE x \in K : \A j \in K :
                  feed[x].ts > feed[j].ts \/ (feed[x].ts = feed[j].ts /\ x <= j)
    BY <2>2
  <2>9. first \in K
    BY <2>7, <2>8
  <2> QED BY <2>2, <2>9
<1> HIDE DEF first
<1>6. feed[first] \in [ts : Nat, pct : [1..3 -> Nat]]
  BY <1>3, <1>4, <1>5
<1>7. \A o \in 1..3 : feed[first].pct[o] > 0
  BY <1>5
<1> QED BY <1>2, <1>6, <1>7

LEMMA MarksAccepted ==
  ASSUME NEW w \in [1..3 -> Nat], w[1] + w[2] + w[3] > 0
  PROVE  AcceptedMarks(probsToMarksBps(w))
<1> DEFINE clamp(n) == IF n < 1 THEN 1 ELSE IF n > MARK_DENOM - 2 THEN MARK_DENOM - 2 ELSE n
<1>1. PICK d \in Nat : d = MARK_DENOM /\ d > 2
  BY MarkPosterConstants
<1>2. PICK s \in Nat \ {0} : s = w[1] + w[2] + w[3]
  OBVIOUS
<1>3. \A n \in Nat : (n * d) \div s \in Int
  <2>1. \A x \in Nat : x \div s \in Int
    OBVIOUS
  <2>2. \A n \in Nat : n * d \in Nat
    OBVIOUS
  <2> QED BY <2>1, <2>2
<1>4. \A n \in Int : clamp(n) \in 1..(d - 2)
  BY <1>1
<1>5. PICK a \in 1..(d - 2) : a = clamp((w[1] * d) \div s)
  <2>1. w[1] \in Nat
    OBVIOUS
  <2> QED BY <1>3, <1>4, <2>1
<1>6. PICK b \in 1..(d - 2) : b = clamp((w[2] * d) \div s)
  <2>1. w[2] \in Nat
    OBVIOUS
  <2> QED BY <1>3, <1>4, <2>1
<1>7. PICK c \in 1..(d - 2) : c = clamp(d - a - b)
  <2>1. d - a - b \in Int
    BY <1>1
  <2> QED BY <1>4, <2>1
<1>8. probsToMarksBps(w) = <<a, b, c>>
  BY <1>1, <1>2, <1>5, <1>6, <1>7 DEF probsToMarksBps
<1>9. \A i \in 1..3 : <<a, b, c>>[i] \in 1..(d - 2)
  OBVIOUS
<1> QED BY <1>1, <1>8, <1>9 DEF AcceptedMarks

LEMMA AlwaysAccepted ==
  ASSUME NEW feed \in OddsFeeds \cup {<<>>}, NEW spot \in SpotWeights
  PROVE  AcceptedMarks(probsToMarksBps(IF fetchImplied1x2(feed) # <<>>
                                       THEN fetchImplied1x2(feed) ELSE spot))
<1>1. CASE fetchImplied1x2(feed) # <<>>
  <2>1. PICK w \in [1..3 -> Nat] : w = fetchImplied1x2(feed) /\ \A o \in 1..3 : w[o] > 0
    BY <1>1, ImpliedQuotes
  <2>2. w[1] > 0 /\ w[2] > 0 /\ w[3] > 0 /\ w[1] \in Nat /\ w[2] \in Nat /\ w[3] \in Nat
    BY <2>1
  <2>3. w[1] + w[2] + w[3] > 0
    BY <2>2
  <2> QED BY <1>1, <2>1, <2>3, MarksAccepted
<1>2. CASE fetchImplied1x2(feed) = <<>>
  <2>1. spot \in [1..3 -> Nat] /\ spot[1] + spot[2] + spot[3] > 0
    BY MarkPosterConstants
  <2> QED BY <1>2, <2>1, MarksAccepted
<1> QED BY <1>1, <1>2

-----------------------------------------------------------------------------
(* The invariant: before a traded pool's mark is too old the poster gets to it, *)
(* with what the failures still to come may cost to spare.                      *)

PosterTypes ==
  /\ leverage \in {"on", "off"} /\ updates \in Nat
  /\ market \in [Pools -> {"Open", "Trading", "Locked"}]
  /\ markAge \in [Pools -> Int] /\ unmarked \in [Pools -> Nat]
  /\ sinceTick \in 0..TICK /\ configCache \in {"unset", "on", "off"}
  /\ postMisses \in 0..MaxPostMisses
  /\ OnItsWay(poster)

\* A mark younger than an epoch is as young as it says.
AgesAgree ==
  \A p \in Pools :
    /\ markAge[p] >= NoPool
    /\ markAge[p] = NoPool => unmarked[p] = 0
    /\ Marked(p) /\ markAge[p] < EPOCH => unmarked[p] <= markAge[p]

Covered(i) ==
  Tradable(Order[i]) =>
    unmarked[Order[i]] + ToPost(poster, sinceTick, i) + Spare(postMisses) <= Budget

\* A poster that has memoized leverage as off posts nothing any more.
InTime == configCache # "off" => \A i \in 1..N : Covered(i)

PosterInv == PosterTypes /\ AgesAgree /\ InTime

LEMMA CoverFacts ==
  ASSUME PosterTypes, NEW i \in 1..N
  PROVE  /\ Order[i] \in Pools /\ unmarked[Order[i]] \in Nat
         /\ ToPost(poster, sinceTick, i) \in Nat
         /\ ToPost(poster, sinceTick, i) <= PostDelay + Round
         /\ Spare(postMisses) \in Nat /\ Spare(postMisses) <= Spare(0)
         /\ Round \in Nat /\ PostDelay \in Nat /\ Budget \in Nat
         /\ Budget = (EPOCH - 1) + PostDelay + Round + Spare(0)
<1>1. Order[i] \in Pools
  BY OrderFacts
<1>2. unmarked[Order[i]] \in Nat
  BY <1>1 DEF PosterTypes
<1>3. OnItsWay(poster) /\ sinceTick \in 0..TICK /\ postMisses \in 0..MaxPostMisses
  BY DEF PosterTypes
<1>4. ToPost(poster, sinceTick, i) \in Nat /\ ToPost(poster, sinceTick, i) <= PostDelay + Round
  BY <1>3, ToPostBound
<1> QED BY <1>1, <1>2, <1>3, <1>4, SpareFacts, RoundFacts

\* A pool stays covered while the poster comes nearer, whatever time passes meanwhile.
LEMMA NearerCovered ==
  ASSUME PosterTypes, PosterTypes', NEW i \in 1..N, Covered(i),
         Tradable(Order[i])' => Tradable(Order[i]),
         unmarked'[Order[i]] + ToPost(poster, sinceTick, i)'
           <= unmarked[Order[i]] + ToPost(poster, sinceTick, i),
         UNCHANGED postMisses
  PROVE  Covered(i)'
<1>1. PICK u, t, s, b \in Nat : /\ u = unmarked[Order[i]] /\ t = ToPost(poster, sinceTick, i)
                              /\ s = Spare(postMisses) /\ b = Budget
  BY CoverFacts
<1>2. unmarked'[Order[i]] \in Nat /\ ToPost(poster, sinceTick, i)' \in Nat
  <2>1. Order[i] \in Pools
    BY CoverFacts
  <2>2. unmarked'[Order[i]] \in Nat
    BY <2>1 DEF PosterTypes
  <2>3. OnItsWay(poster') /\ sinceTick' \in 0..TICK
    BY DEF PosterTypes, OnItsWay, PosterRecord
  <2> QED BY <2>2, <2>3, ToPostBound DEF ToPost, StillAhead, AtPool
<1>3. SUFFICES ASSUME Tradable(Order[i])'
               PROVE  unmarked'[Order[i]] + ToPost(poster, sinceTick, i)' + s <= b
  BY <1>1 DEF Covered
<1>4. u + t + s <= b
  BY <1>1, <1>3 DEF Covered
<1> QED BY <1>1, <1>2, <1>4

LEMMA ToPostLater ==
  ASSUME NEW i \in 1..N
  PROVE  ToPost(poster, sinceTick, i)' = ToPost(poster', sinceTick', i)
BY DEF ToPost, StillAhead, AtPool

LEMMA OnItsWayLater == OnItsWay(poster)' <=> OnItsWay(poster')
BY DEF OnItsWay, PosterRecord

\* A pool whose mark is younger than an epoch is covered.
LEMMA FreshCovered ==
  ASSUME PosterTypes', NEW i \in 1..N, NEW u \in Nat, u = unmarked'[Order[i]], u <= EPOCH - 1
  PROVE  Covered(i)'
<1>1. OnItsWay(poster') /\ sinceTick' \in 0..TICK /\ postMisses' \in 0..MaxPostMisses
  BY OnItsWayLater DEF PosterTypes
<1>2. PICK t, s, m, d, r, e, b \in Nat :
         /\ t = ToPost(poster', sinceTick', i) /\ s = Spare(postMisses') /\ s <= m
         /\ t <= d + r /\ e = EPOCH - 1 /\ b = Budget /\ b = e + d + r + m
  <2>1. EPOCH - 1 \in Nat
    BY MarkPosterConstants
  <2>2. ToPost(poster', sinceTick', i) \in Nat /\ ToPost(poster', sinceTick', i) <= PostDelay + Round
    BY <1>1, ToPostBound
  <2>3. Spare(postMisses') \in Nat /\ Spare(postMisses') <= Spare(0) /\ Spare(0) \in Nat
    BY <1>1, SpareFacts, MarkPosterConstants
  <2> QED BY <2>1, <2>2, <2>3, SpareFacts, RoundFacts
<1>3. u + t + s <= b
  BY <1>2
<1>4. Spare(postMisses)' = Spare(postMisses')
  BY DEF Spare
<1> QED BY <1>2, <1>3, <1>4, ToPostLater DEF Covered, Budget, Spare

\* A failure costs a round, and one is set aside for it.
LEMMA MissCovered ==
  ASSUME PosterTypes, PosterTypes', NEW i \in 1..N, Covered(i),
         Tradable(Order[i])' => Tradable(Order[i]),
         unmarked'[Order[i]] = unmarked[Order[i]],
         ToPost(poster', sinceTick', i) <= Round,
         postMisses < MaxPostMisses, postMisses' = postMisses + 1
  PROVE  Covered(i)'
<1>1. PICK u, t, s, b, r \in Nat : /\ u = unmarked[Order[i]] /\ t = ToPost(poster, sinceTick, i)
                                 /\ s = Spare(postMisses) /\ b = Budget /\ r = Round
  BY CoverFacts
<1>2. Spare(postMisses') = s - r
  BY <1>1, SpareFacts DEF PosterTypes
<1>3. PICK n \in Nat : n = ToPost(poster', sinceTick', i) /\ n <= r
  <2>1. OnItsWay(poster') /\ sinceTick' \in 0..TICK
    BY OnItsWayLater DEF PosterTypes
  <2> QED BY <1>1, <2>1, ToPostBound
<1>4. SUFFICES ASSUME Tradable(Order[i])'
               PROVE  u + n + (s - r) <= b
  <2>1. Spare(postMisses)' = s - r /\ ToPost(poster, sinceTick, i)' = n
    BY <1>2, <1>3, ToPostLater DEF Spare
  <2> QED BY <1>1, <2>1 DEF Covered, Budget
<1>5. u + t + s <= b
  BY <1>1, <1>4 DEF Covered
<1> QED BY <1>1, <1>3, <1>5

\* Where nothing but the poster moves, the ages stay.
LEMMA AgesStay == ASSUME AgesAgree, UNCHANGED <<markAge, unmarked>> PROVE AgesAgree'
BY DEF AgesAgree, Marked

\* The poster visits the pool at the head of its walk.
LEMMA Visiting ==
  ASSUME PosterTypes, poster.at \in PerPool
  PROVE  /\ Head(poster.left) \in Pools
         /\ \A i \in 1..N : Order[i] = Head(poster.left) <=> AtPool(poster, i)
<1>1. PICK l \in Seq(Pools) : l = poster.left
  BY DEF PosterTypes, OnItsWay
<1>2. PICK m \in 1..N : m = Len(l) /\ \A j \in 1..m : l[j] = Order[N - m + j]
  BY <1>1 DEF PosterTypes, OnItsWay, PerPool
<1>3. l # <<>> /\ Head(l) = l[1]
  <2>1. Len(l) # 0
    BY <1>2
  <2> QED BY <2>1, EmptySeq
<1>4. PICK h \in 1..N : h = N - m + 1
  BY RoundFacts
<1>5. Head(l) = Order[h]
  BY <1>2, <1>3, <1>4
<1>6. \A i \in 1..N : i = h <=> m = N + 1 - i
  BY <1>4, RoundFacts
<1>7. \A i \in 1..N : Order[i] = Order[h] <=> i = h
  BY OrderFacts
<1>8. Order[h] \in Pools
  BY OrderFacts
<1> QED BY <1>1, <1>2, <1>5, <1>6, <1>7, <1>8 DEF AtPool

-----------------------------------------------------------------------------
(* The steps. *)

\* The poster takes the next call for the same pool.
LEMMA NextCall ==
  ASSUME NEW r, OnItsWay(r), r.at \in PerPool, NEW a \in PerPool, NEW since,
         NEW n, n = [r EXCEPT !.at = a]
  PROVE  /\ OnItsWay(n)
         /\ \A i \in 1..N : ~AtPool(r, i) \/ (r.at # "early" /\ a # "early") =>
              ToPost(n, since, i) = ToPost(r, since, i)
<1>1. r = PosterRecord(r)
  BY DEF OnItsWay
<1>2. n.at = a /\ n.left = r.left /\ n.waited = r.waited /\ n = PosterRecord(n)
  BY <1>1 DEF PosterRecord
<1>3. OnItsWay(n)
  BY <1>2 DEF OnItsWay, PerPool
<1>4. ASSUME NEW i \in 1..N, ~AtPool(r, i) \/ (r.at # "early" /\ a # "early")
      PROVE  ToPost(n, since, i) = ToPost(r, since, i)
  <2>1. StillAhead(n, i) <=> StillAhead(r, i)
    BY <1>2, <1>4 DEF StillAhead, AtPool
  <2>2. n.at # "rest" /\ n.at # "list" /\ r.at # "rest" /\ r.at # "list"
    BY <1>2 DEF PerPool
  <2> QED BY <1>2, <2>1, <2>2 DEF ToPost
<1> QED BY <1>3, <1>4

\* While it waits, the poster gets nearer by the time that passes.
LEMMA Waiting ==
  ASSUME NEW r, OnItsWay(r), r.at \in Awaiting, r.waited < PostDelay,
         NEW since \in 0..TICK, since < TICK,
         NEW n, n = PosterRecord(n), n.at = r.at, n.left = r.left, n.waited = r.waited + 1
  PROVE  /\ OnItsWay(n)
         /\ \A i \in 1..N : ToPost(n, since + 1, i) = ToPost(r, since, i) - 1
<1>2. PICK w \in Nat : w = r.waited /\ w + 1 \in 0..PostDelay
  BY RoundFacts DEF OnItsWay
<1>3. PICK x, z : x = w + 1 /\ z = since + 1
  OBVIOUS
<1>4. n.at = r.at /\ n.left = r.left /\ n.waited = x /\ n = PosterRecord(n)
  BY <1>2, <1>3
<1>5. OnItsWay(n)
  BY <1>2, <1>3, <1>4 DEF OnItsWay
<1>6. ASSUME NEW i \in 1..N
      PROVE  ToPost(n, z, i) = ToPost(r, since, i) - 1
  <2>1. StillAhead(n, i) <=> StillAhead(r, i)
    BY <1>4 DEF StillAhead, AtPool
  <2>2. r.at # "rest"
    BY DEF Awaiting
  <2>3. Walk(i) \in Nat
    BY WalkTo
  <2>4. CASE r.at = "list"
    <3>1. ToPost(r, since, i) = (PostDelay - w) + Walk(i)
      BY <1>2, <2>4, ListingToPost
    <3>2. ToPost(n, z, i) = (PostDelay - x) + Walk(i)
      BY <1>4, <2>4, ListingToPost
    <3> QED BY <1>3, <2>3, <3>1, <3>2, RoundFacts
  <2>5. CASE r.at # "list"
    <3>1. r.at \in PerPool
      BY <2>5 DEF Awaiting, PerPool
    <3>2. PICK m \in 1..N : m = Len(r.left)
      BY <3>1 DEF OnItsWay, PerPool
    <3>3. CASE StillAhead(r, i)
      <4>1. PICK k \in Nat : k = m - (N + 1 - i)
        <5>1. m >= N + 1 - i
          BY <3>2, <3>3 DEF StillAhead
        <5> QED BY <5>1, RoundFacts
      <4>2. ToPost(r, since, i) = (PostDelay - w) + Walk(k)
        BY <1>2, <3>1, <3>2, <3>3, <4>1, AheadToPost
      <4>3. ToPost(n, z, i) = (PostDelay - x) + Walk(k)
        BY <1>4, <2>1, <3>1, <3>2, <3>3, <4>1, AheadToPost
      <4>4. Walk(k) \in Nat
        BY WalkNat
      <4> QED BY <1>3, <4>2, <4>3, <4>4, RoundFacts
    <3>4. CASE ~StillAhead(r, i)
      <4>1. PICK k \in Nat : k = m - 1
        BY RoundFacts
      <4>2. ToPost(r, since, i) = (PostDelay - w) + Walk(k) + TICK + PostDelay + Walk(i)
        BY <1>2, <3>1, <3>2, <3>4, <4>1, BehindToPost
      <4>3. ToPost(n, z, i) = (PostDelay - x) + Walk(k) + TICK + PostDelay + Walk(i)
        BY <1>4, <2>1, <3>1, <3>2, <3>4, <4>1, BehindToPost
      <4>4. Walk(k) \in Nat
        BY WalkNat
      <4> QED BY <1>3, <2>3, <4>2, <4>3, <4>4, RoundFacts
    <3> QED BY <3>3, <3>4
  <2> QED BY <2>4, <2>5
<1> QED BY <1>3, <1>5, <1>6

LEMMA ListOrRest ==
  ASSUME NEW r, r = PosterRecord(r), r.left = <<>>, r.waited = 0, NEW since
  PROVE  /\ r.at \in {"rest", "list"} => OnItsWay(r)
         /\ r.at = "list" => \A i \in 1..N : ToPost(r, since, i) = PostDelay + Walk(i)
<1>1. <<>> \in Seq(Pools) /\ 0 \in 0..PostDelay
  BY EmptySeq, RoundFacts
<1>2. r.at \in {"rest", "list"} => OnItsWay(r)
  BY <1>1 DEF OnItsWay
<1>3. ASSUME r.at = "list", NEW i \in 1..N
      PROVE  ToPost(r, since, i) = PostDelay + Walk(i)
  <2>1. ToPost(r, since, i) = (PostDelay - r.waited) + Walk(i)
    BY <1>3, ListingToPost
  <2>2. PostDelay - r.waited = PostDelay
    BY RoundFacts
  <2> QED BY <2>1, <2>2
<1> QED BY <1>2, <1>3

\* A step of the poster that brings it no further from any traded pool, but for
\* those whose mark is young.
LEMMA NearerInv ==
  ASSUME PosterInv, PosterTypes', UNCHANGED <<market, markAge, unmarked, postMisses>>,
         configCache' # "off" => configCache # "off",
         \A i \in 1..N : Tradable(Order[i]) =>
           \/ unmarked[Order[i]] <= EPOCH - 1
           \/ ToPost(poster', sinceTick', i) <= ToPost(poster, sinceTick, i)
  PROVE  PosterInv'
<1>1. PosterTypes /\ AgesAgree'
  BY AgesStay DEF PosterInv
<1>2. ASSUME configCache' # "off", NEW i \in 1..N
      PROVE  Covered(i)'
  <2>1. Covered(i)
    BY <1>2 DEF PosterInv, InTime
  <2>2. PICK u, t, n \in Nat : /\ u = unmarked[Order[i]] /\ t = ToPost(poster, sinceTick, i)
                             /\ n = ToPost(poster', sinceTick', i)
    <3>1. ToPost(poster', sinceTick', i) \in Nat
      BY ToPostBound, OnItsWayLater DEF PosterTypes
    <3> QED BY <1>1, <3>1, CoverFacts
  <2>3. CASE ~Tradable(Order[i])'
    BY <2>3 DEF Covered
  <2>4. CASE u <= EPOCH - 1
    BY <1>1, <2>2, <2>4, FreshCovered
  <2>5. CASE n <= t
    <3>1. Tradable(Order[i])' => Tradable(Order[i])
      BY DEF Tradable
    <3>2. unmarked'[Order[i]] + n <= unmarked[Order[i]] + t
      BY <2>2, <2>5
    <3> QED BY <1>1, <2>1, <2>2, <3>1, <3>2, NearerCovered, ToPostLater
  <2>6. Tradable(Order[i])' => u <= EPOCH - 1 \/ n <= t
    BY <2>2 DEF Tradable
  <2> QED BY <2>3, <2>4, <2>5, <2>6
<1>3. InTime'
  BY <1>2 DEF InTime, N
<1> QED BY <1>1, <1>3 DEF PosterInv

\* A step that fails, after which the poster has at most a round to go.
LEMMA MissInv ==
  ASSUME PosterInv, PosterTypes', UNCHANGED <<market, markAge, unmarked, configCache>>, PostMiss,
         \A i \in 1..N : ToPost(poster', sinceTick', i) <= Round
  PROVE  PosterInv'
<1>1. PosterTypes /\ AgesAgree'
  BY AgesStay DEF PosterInv
<1>2. ASSUME configCache' # "off", NEW i \in 1..N
      PROVE  Covered(i)'
  <2>1. Covered(i)
    BY <1>2 DEF PosterInv, InTime
  <2>2. Tradable(Order[i])' => Tradable(Order[i])
    BY DEF Tradable
  <2> QED BY <1>1, <2>1, <2>2, MissCovered DEF PostMiss
<1>3. InTime'
  BY <1>2 DEF InTime, N
<1> QED BY <1>1, <1>3 DEF PosterInv

\* Going on to the next fixture, seen from the step.
LEMMA GoesOn ==
  ASSUME PosterTypes, poster.at \in PerPool, GivesUp, UNCHANGED sinceTick
  PROVE  /\ OnItsWay(poster')
         /\ \A i \in 1..N :
              /\ ToPost(poster', sinceTick', i) <= Round
              /\ ~AtPool(poster, i) \/ poster.at = "early" =>
                   ToPost(poster', sinceTick', i) <= ToPost(poster, sinceTick, i)
<1>1. OnItsWay(poster) /\ sinceTick \in 0..TICK
  BY DEF PosterTypes
<1>2. PICK n : n = poster' /\ n = NextFixture(Tail(poster.left))
  BY DEF GivesUp
<1> QED BY <1>1, <1>2, NextOne

LEMMA UpdateInv == ASSUME PosterInv, update_leverage_params PROVE PosterInv'
<1>1. PosterTypes'
  BY OnItsWayLater, RoundFacts DEF PosterInv, PosterTypes, update_leverage_params
<1>2. UNCHANGED <<market, markAge, unmarked, postMisses, configCache, poster, sinceTick>>
  BY DEF update_leverage_params
<1>3. \A i \in 1..N : ToPost(poster', sinceTick', i) <= ToPost(poster, sinceTick, i)
  BY <1>2, CoverFacts DEF PosterInv
<1> QED BY <1>1, <1>2, <1>3, NearerInv

LEMMA TickInv == ASSUME PosterInv, tick PROVE PosterInv'
<1>1. PosterTypes /\ OnItsWay(poster) /\ sinceTick = TICK /\ sinceTick' = 0
  BY DEF PosterInv, PosterTypes, tick
<1>2. UNCHANGED <<leverage, updates, market, markAge, unmarked, configCache, postMisses>>
  BY DEF tick
<1>3. CASE poster.at = "rest"
  <2>1. PICK n : n = poster' /\ n = [Resting EXCEPT !.at = "list"]
    BY <1>3 DEF tick
  <2>2. n = PosterRecord(n) /\ n.at = "list" /\ n.left = <<>> /\ n.waited = 0
    BY <2>1 DEF Resting, PosterRecord
  <2>3. OnItsWay(n) /\ \A i \in 1..N : ToPost(n, sinceTick', i) = PostDelay + Walk(i)
    BY <2>2, ListOrRest
  <2>4. \A i \in 1..N : ToPost(poster, sinceTick, i) = (TICK - TICK) + PostDelay + Walk(i)
    BY <1>1, <1>3, RestingToPost
  <2>5. \A i \in 1..N : ToPost(n, sinceTick', i) <= ToPost(poster, sinceTick, i)
    BY <2>3, <2>4, RoundFacts, WalkTo
  <2>6. PosterTypes'
    BY <1>1, <1>2, <2>1, <2>3, OnItsWayLater, RoundFacts DEF PosterTypes
  <2> QED BY <1>2, <2>1, <2>5, <2>6, NearerInv
<1>4. CASE poster.at # "rest"
  <2>1. poster' = poster
    BY <1>4 DEF tick
  <2>2. \A i \in 1..N : ToPost(poster, sinceTick', i) = ToPost(poster, sinceTick, i)
    BY <1>4 DEF ToPost
  <2>3. \A i \in 1..N : ToPost(poster', sinceTick', i) <= ToPost(poster, sinceTick, i)
    BY <1>1, <2>1, <2>2, CoverFacts
  <2>4. PosterTypes'
    BY <1>1, <1>2, <2>1, OnItsWayLater, RoundFacts DEF PosterTypes
  <2> QED BY <1>2, <2>3, <2>4, NearerInv
<1> QED BY <1>3, <1>4

LEMMA ListInv == ASSUME PosterInv, list PROVE PosterInv'
<1>1. /\ PosterTypes /\ OnItsWay(poster) /\ poster.at = "list"
      /\ sinceTick \in 0..TICK /\ sinceTick' = sinceTick
  BY DEF PosterInv, PosterTypes, list
<1>2. UNCHANGED <<leverage, updates, market, markAge, unmarked, configCache>>
  BY DEF list
<1>3. PICK w \in 0..PostDelay : w = poster.waited
  BY <1>1 DEF OnItsWay
<1>4. \A i \in 1..N : ToPost(poster, sinceTick, i) = (PostDelay - w) + Walk(i)
  BY <1>1, <1>3, ListingToPost
<1>5. CASE poster' = NextFixture(Order) /\ UNCHANGED postMisses
  <2>1. PICK n : n = poster' /\ n = NextFixture(Order)
    BY <1>5
  <2>2. CASE Order = <<>>
    <3>1. N = 0
      BY <2>2, OrderFacts, EmptySeq
    <3>2. n = PosterRecord(n) /\ n.at = "rest" /\ n.left = <<>> /\ n.waited = 0
      BY <2>1, <2>2 DEF NextFixture, Finished, Resting, PosterRecord
    <3>3. OnItsWay(n)
      BY <3>2, ListOrRest
    <3>4. PosterTypes'
      BY <1>1, <1>2, <1>5, <2>1, <3>3, OnItsWayLater DEF PosterTypes
    <3>5. \A i \in 1..N : FALSE
      BY <3>1
    <3> QED BY <1>2, <1>5, <3>4, <3>5, NearerInv
  <2>3. CASE Order # <<>>
    <3>1. N # 0 /\ N \in 1..N
      <4>1. Len(Order) # 0
        BY <2>3, OrderFacts, EmptySeq
      <4> QED BY <4>1, OrderFacts
    <3>2. n = PosterRecord(n) /\ n.at = "market" /\ n.left = Order /\ n.waited = 0
      BY <2>1, <2>3 DEF NextFixture, PosterRecord
    <3>3. Len(n.left) = N /\ \A j \in 1..Len(n.left) : n.left[j] = Order[N - Len(n.left) + j]
      <4>1. Len(n.left) = N
        BY <3>2, OrderFacts
      <4>2. \A j \in 1..N : n.left[j] = Order[N - N + j]
        <5> TAKE j \in 1..N
        <5>1. N - N + j = j
          BY RoundFacts
        <5> QED BY <3>2, <5>1
      <4> QED BY <4>1, <4>2
    <3>4. OnItsWay(n)
      <4>1. n.left \in Seq(Pools) /\ 0 \in 0..PostDelay /\ "market" \in PerPool
        BY <3>2, OrderFacts, RoundFacts DEF PerPool
      <4> QED BY <3>1, <3>2, <3>3, <4>1 DEF OnItsWay
    <3>5. ASSUME NEW i \in 1..N
          PROVE  ToPost(n, sinceTick', i) <= ToPost(poster, sinceTick, i)
      <4>1. PICK k \in Nat : Len(n.left) - (N + 1 - i) = k /\ i = k + 1
        <5>1. N - (N + 1 - i) \in Nat /\ i = (N - (N + 1 - i)) + 1
          BY RoundFacts
        <5> QED BY <3>3, <5>1
      <4>2. StillAhead(n, i) /\ n.at \in PerPool
        BY <3>1, <3>2, <3>3, RoundFacts DEF StillAhead, PerPool
      <4>3. ToPost(n, sinceTick', i) = (PostDelay - n.waited) + Walk(k)
        BY <4>1, <4>2, AheadToPost
      <4>4. Walk(i) = Walk(k) + PostDelay /\ Walk(k) \in Nat
        BY <4>1, WalkNext, WalkNat
      <4>5. n.waited = 0 /\ ToPost(poster, sinceTick, i) = (PostDelay - w) + Walk(i)
        BY <1>4, <3>2
      <4> QED BY <1>3, <4>3, <4>4, <4>5, RoundFacts
    <3>6. PosterTypes'
      BY <1>1, <1>2, <1>5, <2>1, <3>4, OnItsWayLater DEF PosterTypes
    <3> QED BY <1>2, <1>5, <2>1, <3>5, <3>6, NearerInv
  <2> QED BY <2>2, <2>3
<1>6. CASE PostMiss /\ poster' = Finished
  <2>1. PICK n : n = poster' /\ n = Resting
    BY <1>6 DEF Finished
  <2>2. n = PosterRecord(n) /\ n.at = "rest" /\ n.left = <<>> /\ n.waited = 0
    BY <2>1 DEF Resting, PosterRecord
  <2>3. OnItsWay(n)
    BY <2>2, ListOrRest
  <2>4. \A i \in 1..N : ToPost(n, sinceTick', i) = (TICK - sinceTick) + PostDelay + Walk(i)
    BY <1>1, <2>2, RestingToPost
  <2>5. \A i \in 1..N : ToPost(n, sinceTick', i) <= Round
    BY <1>1, <2>4, RoundFacts, WalkTo
  <2>6. postMisses' \in 0..MaxPostMisses
    BY <1>1, <1>6, MarkPosterConstants DEF PosterTypes, PostMiss
  <2>7. PosterTypes'
    BY <1>1, <1>2, <2>1, <2>3, <2>6, OnItsWayLater DEF PosterTypes
  <2> QED BY <1>2, <1>6, <2>1, <2>5, <2>7, MissInv
<1> QED BY <1>5, <1>6 DEF list, Order

LEMMA MissType == ASSUME PosterTypes, PostMiss PROVE postMisses' \in 0..MaxPostMisses
BY MarkPosterConstants DEF PosterTypes, PostMiss

LEMMA FetchFailsInv == ASSUME PosterInv, fetchFails PROVE PosterInv'
<1>1. /\ PosterTypes /\ poster.at \in PerPool /\ GivesUp /\ PostMiss
      /\ UNCHANGED <<leverage, updates, market, markAge, unmarked, sinceTick, configCache>>
  BY DEF PosterInv, fetchFails, PerPool
<1>2. OnItsWay(poster') /\ \A i \in 1..N : ToPost(poster', sinceTick', i) <= Round
  BY <1>1, GoesOn
<1>3. PosterTypes'
  BY <1>1, <1>2, MissType, OnItsWayLater DEF PosterTypes
<1> QED BY <1>1, <1>2, <1>3, MissInv

LEMMA ReadMarketInv == ASSUME PosterInv, readMarket PROVE PosterInv'
<1>1. /\ PosterTypes /\ poster.at = "market" /\ poster.at \in PerPool /\ OnItsWay(poster)
      /\ UNCHANGED <<leverage, updates, market, markAge, unmarked, sinceTick, configCache, postMisses>>
  BY DEF PosterInv, PosterTypes, readMarket, PerPool
<1>2. CASE poster' = [poster EXCEPT !.at = "pool"]
  <2>1. PICK n : n = poster' /\ n = [poster EXCEPT !.at = "pool"]
    BY <1>2
  <2>2. /\ OnItsWay(n)
        /\ \A i \in 1..N : ToPost(n, sinceTick, i) = ToPost(poster, sinceTick, i)
    <3>1. "pool" \in PerPool
      BY DEF PerPool
    <3> QED BY <1>1, <2>1, <3>1, NextCall
  <2>3. \A i \in 1..N : ToPost(poster', sinceTick', i) <= ToPost(poster, sinceTick, i)
    BY <1>1, <2>1, <2>2, CoverFacts
  <2>4. PosterTypes'
    BY <1>1, <2>1, <2>2, OnItsWayLater DEF PosterTypes
  <2> QED BY <1>1, <2>3, <2>4, NearerInv
<1>3. CASE market[Head(poster.left)] # "Trading" /\ GivesUp
  <2>1. ASSUME NEW i \in 1..N, Tradable(Order[i])
        PROVE  ToPost(poster', sinceTick', i) <= ToPost(poster, sinceTick, i)
    <3>1. ~AtPool(poster, i)
      BY <1>1, <1>3, <2>1, Visiting DEF Tradable
    <3> QED BY <1>1, <1>3, <3>1, GoesOn
  <2>2. PosterTypes'
    BY <1>1, <1>3, GoesOn, OnItsWayLater DEF PosterTypes
  <2> QED BY <1>1, <2>1, <2>2, NearerInv
<1> QED BY <1>2, <1>3 DEF readMarket

LEMMA ReadPoolInv == ASSUME PosterInv, readPool PROVE PosterInv'
<1>1. /\ PosterTypes /\ poster.at = "pool" /\ poster.at \in PerPool /\ OnItsWay(poster)
      /\ UNCHANGED <<leverage, updates, market, markAge, unmarked, sinceTick, configCache, postMisses>>
  BY DEF PosterInv, PosterTypes, readPool, PerPool
<1>2. PICK p \in Pools : p = Head(poster.left)
  BY <1>1, Visiting
<1>3. CASE markAge[p] = NoPool /\ GivesUp
  <2>1. ASSUME NEW i \in 1..N, Tradable(Order[i])
        PROVE  ToPost(poster', sinceTick', i) <= ToPost(poster, sinceTick, i)
    <3>1. ~AtPool(poster, i)
      BY <1>1, <1>2, <1>3, <2>1, Visiting DEF Tradable
    <3> QED BY <1>1, <1>3, <3>1, GoesOn
  <2>2. PosterTypes'
    BY <1>1, <1>3, GoesOn, OnItsWayLater DEF PosterTypes
  <2> QED BY <1>1, <2>1, <2>2, NearerInv
<1>4. CASE Overdue(p) /\ poster' = [poster EXCEPT !.at = "config"]
  <2>1. PICK n : n = poster' /\ n = [poster EXCEPT !.at = "config"]
    BY <1>4
  <2>2. /\ OnItsWay(n)
        /\ \A i \in 1..N : ToPost(n, sinceTick, i) = ToPost(poster, sinceTick, i)
    <3>1. "config" \in PerPool
      BY DEF PerPool
    <3> QED BY <1>1, <2>1, <3>1, NextCall
  <2>3. \A i \in 1..N : ToPost(poster', sinceTick', i) <= ToPost(poster, sinceTick, i)
    BY <1>1, <2>1, <2>2, CoverFacts
  <2>4. PosterTypes'
    BY <1>1, <2>1, <2>2, OnItsWayLater DEF PosterTypes
  <2> QED BY <1>1, <2>3, <2>4, NearerInv
<1>5. CASE markAge[p] # NoPool /\ ~Overdue(p) /\ poster' = [poster EXCEPT !.at = "early"]
  <2>1. PICK n : n = poster' /\ n = [poster EXCEPT !.at = "early"]
    BY <1>5
  <2>2. /\ OnItsWay(n)
        /\ \A i \in 1..N : ~AtPool(poster, i) => ToPost(n, sinceTick, i) = ToPost(poster, sinceTick, i)
    <3>1. "early" \in PerPool
      BY DEF PerPool
    <3> QED BY <1>1, <2>1, <3>1, NextCall
  <2>3. unmarked[p] <= EPOCH - 1
    <3>1. PICK a \in Int : a = markAge[p] /\ a >= -2 /\ a # -2 /\ a # -1
      BY <1>1, <1>5 DEF PosterInv, AgesAgree, PosterTypes, Overdue, NoPool, Unmarked
    <3>2. a >= 0 /\ ~(a >= EPOCH)
      BY <1>5, <3>1 DEF Overdue, Marked
    <3>3. EPOCH \in Nat /\ unmarked[p] \in Nat
      BY <1>1, MarkPosterConstants DEF PosterTypes
    <3>4. a < EPOCH
      BY <3>1, <3>2, <3>3
    <3>5. unmarked[p] <= a
      BY <3>1, <3>2, <3>4 DEF PosterInv, AgesAgree, Marked
    <3> QED BY <3>1, <3>3, <3>4, <3>5
  <2>4. ASSUME NEW i \in 1..N
        PROVE  unmarked[Order[i]] <= EPOCH - 1
               \/ ToPost(poster', sinceTick', i) <= ToPost(poster, sinceTick, i)
    <3>1. CASE AtPool(poster, i)
      BY <1>1, <1>2, <2>3, <3>1, Visiting
    <3>2. CASE ~AtPool(poster, i)
      BY <1>1, <2>1, <2>2, <3>2, CoverFacts
    <3> QED BY <3>1, <3>2
  <2>5. PosterTypes'
    BY <1>1, <2>1, <2>2, OnItsWayLater DEF PosterTypes
  <2> QED BY <1>1, <2>4, <2>5, NearerInv
<1> QED BY <1>2, <1>3, <1>4, <1>5 DEF readPool

LEMMA ReadConfigInv == ASSUME PosterInv, readConfig PROVE PosterInv'
<1>1. /\ PosterTypes /\ poster.at \in {"config", "early"} /\ poster.at \in PerPool /\ OnItsWay(poster)
      /\ UNCHANGED <<leverage, updates, market, markAge, unmarked, sinceTick, postMisses>>
  BY DEF PosterInv, PosterTypes, readConfig, PerPool
<1>2. PICK on \in {"on", "off"} : /\ on = IF configCache = "unset" THEN leverage ELSE configCache
                               /\ configCache' = on
  BY <1>1 DEF PosterTypes, readConfig
<1>3. CASE on = "on" /\ poster.at = "config" /\ poster' = [poster EXCEPT !.at = "send"]
  <2>1. PICK n : n = poster' /\ n = [poster EXCEPT !.at = "send"]
    BY <1>3
  <2>2. /\ OnItsWay(n)
        /\ \A i \in 1..N : ToPost(n, sinceTick, i) = ToPost(poster, sinceTick, i)
    <3>1. "send" \in PerPool
      BY DEF PerPool
    <3> QED BY <1>1, <1>3, <2>1, <3>1, NextCall
  <2>3. \A i \in 1..N : ToPost(poster', sinceTick', i) <= ToPost(poster, sinceTick, i)
    BY <1>1, <2>1, <2>2, CoverFacts
  <2>4. PosterTypes'
    BY <1>1, <1>2, <2>1, <2>2, OnItsWayLater DEF PosterTypes
  <2> QED BY <1>1, <1>2, <1>3, <2>3, <2>4, NearerInv
<1>4. CASE GivesUp
  <2>1. PosterTypes'
    BY <1>1, <1>2, <1>4, GoesOn, OnItsWayLater DEF PosterTypes
  <2>2. CASE on = "on" /\ poster.at = "early"
    <3>1. \A i \in 1..N : ToPost(poster', sinceTick', i) <= ToPost(poster, sinceTick, i)
      BY <1>1, <1>4, <2>2, GoesOn
    <3>2. configCache # "off"
      BY <1>2, <2>2
    <3> QED BY <1>1, <2>1, <3>1, <3>2, NearerInv
  <2>3. CASE on = "off"
    BY <1>1, <1>2, <2>1, <2>3, AgesStay DEF PosterInv, InTime
  <2>4. CASE on = "on" /\ poster.at = "config"
    <3>1. poster' = [poster EXCEPT !.at = "send"]
      BY <1>2, <2>4 DEF readConfig
    <3> QED BY <1>3, <2>4, <3>1
  <2> QED BY <1>1, <2>2, <2>3, <2>4
<1> QED BY <1>2, <1>3, <1>4 DEF readConfig

LEMMA PostMarkInv == ASSUME PosterInv, post_mark PROVE PosterInv'
<1>1. /\ PosterTypes /\ AgesAgree /\ poster.at = "send" /\ poster.at \in PerPool /\ GivesUp
      /\ UNCHANGED <<leverage, updates, market, sinceTick, configCache>>
  BY DEF PosterInv, post_mark, PerPool
<1>2. PICK p \in Pools : p = Head(poster.left)
  BY <1>1, Visiting
<1>3. \/ /\ PostMiss \/ UNCHANGED postMisses
         /\ markAge' = [markAge EXCEPT ![p] = 0] /\ unmarked' = [unmarked EXCEPT ![p] = 0]
      \/ PostMiss /\ UNCHANGED <<markAge, unmarked>>
  <2>1. PICK feed \in OddsFeeds \cup {<<>>}, spot \in SpotWeights, landed \in BOOLEAN, reported \in BOOLEAN :
           /\ reported => landed
           /\ LET accepted == AcceptedMarks(probsToMarksBps(IF fetchImplied1x2(feed) # <<>>
                                                           THEN fetchImplied1x2(feed) ELSE spot))
              IN  IF reported \/ ~accepted THEN UNCHANGED postMisses ELSE PostMiss
           /\ IF landed
              THEN /\ markAge' = [markAge EXCEPT ![p] = 0]
                   /\ unmarked' = [unmarked EXCEPT ![p] = 0]
              ELSE UNCHANGED <<markAge, unmarked>>
    BY <1>2 DEF post_mark
  <2>2. IF reported THEN UNCHANGED postMisses ELSE PostMiss
    BY <2>1, AlwaysAccepted
  <2> QED BY <2>1, <2>2
<1>4. OnItsWay(poster') /\ \A i \in 1..N :
         /\ ToPost(poster', sinceTick', i) <= Round
         /\ ~AtPool(poster, i) => ToPost(poster', sinceTick', i) <= ToPost(poster, sinceTick, i)
  BY <1>1, GoesOn
<1>5. postMisses' \in 0..MaxPostMisses
  BY <1>1, <1>3, MissType DEF PosterTypes
<1>6. CASE PostMiss /\ UNCHANGED <<markAge, unmarked>>
  <2>1. PosterTypes'
    BY <1>1, <1>4, <1>5, <1>6, OnItsWayLater DEF PosterTypes
  <2> QED BY <1>1, <1>4, <1>6, <2>1, MissInv
<1>7. CASE /\ PostMiss \/ UNCHANGED postMisses
           /\ markAge' = [markAge EXCEPT ![p] = 0] /\ unmarked' = [unmarked EXCEPT ![p] = 0]
  <2>1. markAge' \in [Pools -> Int] /\ unmarked' \in [Pools -> Nat]
    BY <1>1, <1>7 DEF PosterTypes
  <2>2. PosterTypes'
    BY <1>1, <1>4, <1>5, <2>1, OnItsWayLater DEF PosterTypes
  <2>3. unmarked'[p] = 0 /\ markAge'[p] = 0
    BY <1>1, <1>7 DEF PosterTypes
  <2>4. \A q \in Pools : q # p => unmarked'[q] = unmarked[q] /\ markAge'[q] = markAge[q]
    BY <1>1, <1>7 DEF PosterTypes
  <2>5. AgesAgree'
    <3> SUFFICES ASSUME NEW q \in Pools
                 PROVE  /\ markAge'[q] >= NoPool
                        /\ markAge'[q] = NoPool => unmarked'[q] = 0
                        /\ markAge'[q] >= 0 /\ markAge'[q] < EPOCH => unmarked'[q] <= markAge'[q]
      BY DEF AgesAgree, Marked
    <3>1. CASE q = p
      BY <2>3, <3>1 DEF NoPool
    <3>2. CASE q # p
      BY <1>1, <2>4, <3>2 DEF AgesAgree, Marked
    <3> QED BY <3>1, <3>2
  <2>6. ASSUME configCache' # "off", NEW i \in 1..N
        PROVE  Covered(i)'
    <3>1. Covered(i)
      BY <1>1, <2>6 DEF PosterInv, InTime
    <3>2. CASE AtPool(poster, i)
      <4>1. unmarked'[Order[i]] = 0
        BY <1>1, <1>2, <2>3, <3>2, Visiting
      <4>2. 0 <= EPOCH - 1
        BY MarkPosterConstants
      <4> QED BY <2>2, <4>1, <4>2, FreshCovered
    <3>3. CASE ~AtPool(poster, i)
      <4>1. Order[i] \in Pools /\ Order[i] # p
        BY <1>1, <1>2, <3>3, Visiting, OrderFacts
      <4>2. unmarked'[Order[i]] = unmarked[Order[i]] /\ (Tradable(Order[i])' => Tradable(Order[i]))
        BY <1>1, <2>4, <4>1 DEF Tradable
      <4>3. CASE PostMiss
        BY <1>1, <1>4, <2>2, <3>1, <4>2, <4>3, MissCovered DEF PostMiss
      <4>4. CASE UNCHANGED postMisses
        <5>1. PICK u, t, n \in Nat : /\ u = unmarked[Order[i]] /\ t = ToPost(poster, sinceTick, i)
                                   /\ n = ToPost(poster', sinceTick', i)
          <6>1. ToPost(poster', sinceTick', i) \in Nat
            BY <1>4, <2>2, ToPostBound DEF PosterTypes
          <6> QED BY <1>1, <6>1, CoverFacts
        <5>2. u + n <= u + t
          BY <1>4, <3>3, <5>1
        <5> QED BY <1>1, <2>2, <3>1, <4>2, <4>4, <5>1, <5>2, NearerCovered, ToPostLater
      <4> QED BY <1>7, <4>3, <4>4
    <3> QED BY <3>2, <3>3
  <2>7. InTime'
    BY <2>6 DEF InTime, N
  <2> QED BY <2>2, <2>5, <2>7 DEF PosterInv
<1> QED BY <1>3, <1>6, <1>7

\* Steps of one pool: the others keep what they had, the poster stays where it is.
LEMMA OtherPools ==
  ASSUME PosterInv, PosterTypes', NEW p \in Pools,
         UNCHANGED <<poster, sinceTick, configCache, postMisses>>,
         unmarked'[p] = 0,
         \A q \in Pools : q # p => /\ unmarked'[q] = unmarked[q]
                                  /\ market'[q] = market[q] /\ markAge'[q] = markAge[q]
  PROVE  InTime'
<1>1. ASSUME configCache' # "off", NEW i \in 1..N
      PROVE  Covered(i)'
  <2>1. PosterTypes /\ Covered(i) /\ Order[i] \in Pools
    BY <1>1, OrderFacts DEF PosterInv, InTime
  <2>2. CASE Order[i] = p
    <3>1. 0 <= EPOCH - 1
      BY MarkPosterConstants
    <3> QED BY <2>2, <3>1, FreshCovered
  <2>3. CASE Order[i] # p
    <3>1. unmarked'[Order[i]] = unmarked[Order[i]] /\ (Tradable(Order[i])' => Tradable(Order[i]))
      <4>1. PICK q \in Pools : q = Order[i]
        BY <2>1
      <4>2. unmarked'[q] = unmarked[q] /\ market'[q] = market[q] /\ markAge'[q] = markAge[q]
        BY <2>3, <4>1
      <4> QED BY <4>1, <4>2 DEF Tradable
    <3>2. ToPost(poster', sinceTick', i) = ToPost(poster, sinceTick, i)
      OBVIOUS
    <3>3. unmarked'[Order[i]] + ToPost(poster', sinceTick', i)
            <= unmarked[Order[i]] + ToPost(poster, sinceTick, i)
      BY <2>1, <3>1, <3>2, CoverFacts
    <3> QED BY <2>1, <3>1, <3>3, NearerCovered, ToPostLater
  <2> QED BY <2>2, <2>3
<1> QED BY <1>1 DEF InTime, N

LEMMA InitPoolInv == ASSUME PosterInv, NEW p \in Pools, init_leverage_pool(p) PROVE PosterInv'
<1>1. /\ PosterTypes /\ AgesAgree /\ markAge[p] = NoPool
      /\ markAge' = [markAge EXCEPT ![p] = Unmarked]
      /\ UNCHANGED <<leverage, updates, market, unmarked, poster, sinceTick, configCache, postMisses>>
  BY DEF PosterInv, init_leverage_pool
<1>2. markAge' \in [Pools -> Int]
  BY <1>1 DEF PosterTypes, Unmarked
<1>3. PosterTypes'
  BY <1>1, <1>2, OnItsWayLater DEF PosterTypes
<1>4. unmarked'[p] = 0 /\ markAge'[p] = -1
  BY <1>1 DEF AgesAgree, PosterTypes, Unmarked
<1>5. \A q \in Pools : q # p => unmarked'[q] = unmarked[q] /\ markAge'[q] = markAge[q] /\ market'[q] = market[q]
  BY <1>1 DEF PosterTypes
<1>6. AgesAgree'
  <2> SUFFICES ASSUME NEW q \in Pools
               PROVE  /\ markAge'[q] >= NoPool
                      /\ markAge'[q] = NoPool => unmarked'[q] = 0
                      /\ markAge'[q] >= 0 /\ markAge'[q] < EPOCH => unmarked'[q] <= markAge'[q]
    BY DEF AgesAgree, Marked
  <2>1. CASE q = p
    BY <1>4, <2>1 DEF NoPool
  <2>2. CASE q # p
    BY <1>1, <1>5, <2>2 DEF AgesAgree, Marked
  <2> QED BY <2>1, <2>2
<1>7. InTime'
  BY <1>1, <1>3, <1>4, <1>5, OtherPools
<1> QED BY <1>3, <1>6, <1>7 DEF PosterInv

LEMMA MarketMovesInv == ASSUME PosterInv, NEW p \in Pools, MarketMoves(p) PROVE PosterInv'
<1>1. /\ PosterTypes /\ AgesAgree
      /\ market' = [market EXCEPT ![p] = IF @ = "Open" THEN "Trading" ELSE "Locked"]
      /\ unmarked' = [unmarked EXCEPT ![p] = 0]
      /\ UNCHANGED <<leverage, updates, markAge, poster, sinceTick, configCache, postMisses>>
  BY DEF PosterInv, MarketMoves
<1>2. market' \in [Pools -> {"Open", "Trading", "Locked"}] /\ unmarked' \in [Pools -> Nat]
  BY <1>1 DEF PosterTypes
<1>3. PosterTypes'
  BY <1>1, <1>2, OnItsWayLater DEF PosterTypes
<1>4. unmarked'[p] = 0
  BY <1>1 DEF PosterTypes
<1>5. \A q \in Pools : q # p => unmarked'[q] = unmarked[q] /\ market'[q] = market[q]
  BY <1>1 DEF PosterTypes
<1>6. AgesAgree'
  <2> SUFFICES ASSUME NEW q \in Pools
               PROVE  /\ markAge[q] >= NoPool
                      /\ markAge[q] = NoPool => unmarked'[q] = 0
                      /\ markAge[q] >= 0 /\ markAge[q] < EPOCH => unmarked'[q] <= markAge[q]
    BY <1>1 DEF AgesAgree, Marked
  <2>1. CASE q = p
    BY <1>1, <1>4, <2>1 DEF AgesAgree
  <2>2. CASE q # p
    BY <1>1, <1>5, <2>2 DEF AgesAgree, Marked
  <2> QED BY <2>1, <2>2
<1>7. InTime'
  BY <1>1, <1>3, <1>4, <1>5, OtherPools
<1> QED BY <1>3, <1>6, <1>7 DEF PosterInv

LEMMA ClockInv == ASSUME PosterInv, PosterClock PROVE PosterInv'
<1>1. /\ PosterTypes /\ AgesAgree /\ OnItsWay(poster) /\ sinceTick < TICK /\ sinceTick' = sinceTick + 1
      /\ sinceTick \in 0..TICK
      /\ UNCHANGED <<leverage, updates, market, configCache, postMisses>>
  BY DEF PosterInv, PosterTypes, PosterClock
<1>2. \A p \in Pools :
         /\ markAge'[p] = IF Marked(p) /\ markAge[p] < EPOCH THEN markAge[p] + 1 ELSE markAge[p]
         /\ unmarked'[p] = IF Tradable(p) /\ unmarked[p] <= MAX_MARK_AGE THEN unmarked[p] + 1 ELSE unmarked[p]
  BY DEF PosterClock
<1>3. markAge' \in [Pools -> Int] /\ unmarked' \in [Pools -> Nat]
  BY <1>1 DEF PosterClock, PosterTypes
<1>4. sinceTick' \in 0..TICK
  BY <1>1, RoundFacts
<1>5. OnItsWay(poster') /\ \A i \in 1..N : ToPost(poster', sinceTick', i) = ToPost(poster, sinceTick, i) - 1
  <2>1. CASE poster.at \in Awaiting
    <3>1. PICK n : n = poster' /\ n = [poster EXCEPT !.waited = @ + 1]
      BY <2>1 DEF PosterClock
    <3>2. poster = PosterRecord(poster)
      BY <1>1 DEF OnItsWay
    <3>3. n = PosterRecord(n) /\ n.at = poster.at /\ n.left = poster.left /\ n.waited = poster.waited + 1
      BY <3>1, <3>2 DEF PosterRecord
    <3>4. poster.waited < PostDelay
      BY <2>1 DEF PosterClock
    <3>5. OnItsWay(n) /\ \A i \in 1..N : ToPost(n, sinceTick + 1, i) = ToPost(poster, sinceTick, i) - 1
      BY <1>1, <2>1, <3>3, <3>4, Waiting
    <3> QED BY <1>1, <3>1, <3>5
  <2>2. CASE poster.at \notin Awaiting
    <3>1. poster' = poster /\ poster.at = "rest"
      BY <1>1, <2>2 DEF PosterClock, OnItsWay, Awaiting, PerPool
    <3>2. \A i \in 1..N : /\ ToPost(poster, sinceTick, i) = (TICK - sinceTick) + PostDelay + Walk(i)
                        /\ ToPost(poster, sinceTick', i) = (TICK - sinceTick') + PostDelay + Walk(i)
      BY <3>1, RestingToPost
    <3> QED BY <1>1, <3>1, <3>2, RoundFacts, WalkTo
  <2> QED BY <2>1, <2>2
<1>6. PosterTypes'
  BY <1>1, <1>3, <1>4, <1>5, OnItsWayLater DEF PosterTypes
<1>7. AgesAgree'
  <2> SUFFICES ASSUME NEW p \in Pools
               PROVE  /\ markAge'[p] >= NoPool
                      /\ markAge'[p] = NoPool => unmarked'[p] = 0
                      /\ markAge'[p] >= 0 /\ markAge'[p] < EPOCH => unmarked'[p] <= markAge'[p]
    BY DEF AgesAgree, Marked
  <2>1. PICK a \in Int, u \in Nat, e \in Nat : a = markAge[p] /\ u = unmarked[p] /\ e = EPOCH
    BY <1>1, MarkPosterConstants DEF PosterTypes
  <2>2. a >= -2 /\ (a = -2 => u = 0) /\ (a >= 0 /\ a < e => u <= a)
    BY <1>1, <2>1 DEF AgesAgree, Marked, NoPool
  <2>3. markAge'[p] = IF a >= 0 /\ a < e THEN a + 1 ELSE a
    BY <1>2, <2>1 DEF Marked
  <2>4. unmarked'[p] = u \/ (unmarked'[p] = u + 1 /\ a # -2)
    BY <1>2, <2>1 DEF Tradable, NoPool
  <2> QED BY <2>1, <2>2, <2>3, <2>4 DEF NoPool
<1>8. ASSUME configCache' # "off", NEW i \in 1..N
      PROVE  Covered(i)'
  <2>1. Covered(i) /\ Order[i] \in Pools
    BY <1>1, <1>8, OrderFacts DEF PosterInv, InTime
  <2>2. CASE ~Tradable(Order[i])'
    BY <2>2 DEF Covered
  <2>3. CASE Tradable(Order[i])'
    <3>1. Tradable(Order[i])
      <4>1. markAge'[Order[i]] # NoPool /\ market[Order[i]] = "Trading"
        BY <1>1, <2>3 DEF Tradable
      <4> QED BY <1>2, <2>1, <4>1 DEF Tradable, Marked, NoPool
    <3>2. PICK u, t \in Nat : u = unmarked[Order[i]] /\ t = ToPost(poster, sinceTick, i)
      BY <1>1, CoverFacts
    <3>3. unmarked'[Order[i]] <= u + 1 /\ unmarked'[Order[i]] \in Nat
      BY <1>2, <2>1, <3>2
    <3>4. unmarked'[Order[i]] + (t - 1) <= u + t
      BY <3>3
    <3>5. ToPost(poster, sinceTick, i)' = t - 1
      BY <1>5, <3>2, ToPostLater
    <3> QED BY <1>1, <1>6, <2>1, <3>1, <3>2, <3>4, <3>5, NearerCovered
  <2> QED BY <2>2, <2>3
<1>9. InTime'
  BY <1>8 DEF InTime, N
<1> QED BY <1>6, <1>7, <1>9 DEF PosterInv

LEMMA PosterInitInv == PosterInit => PosterInv
<1> SUFFICES ASSUME PosterInit PROVE PosterInv
  OBVIOUS
<1>1. PICK q : q = poster /\ q = Resting
  BY DEF PosterInit
<1>2. q = PosterRecord(q) /\ q.at = "rest" /\ q.left = <<>> /\ q.waited = 0
  BY <1>1 DEF Resting, PosterRecord
<1>3. OnItsWay(poster)
  <2>1. OnItsWay(q)
    BY <1>2, ListOrRest
  <2> QED BY <1>1, <2>1
<1>4. PosterTypes
  <2>1. 0 \in 0..MaxPostMisses /\ TICK \in 0..TICK /\ -2 \in Int /\ 0 \in Nat
    BY MarkPosterConstants
  <2> QED BY <1>3, <2>1 DEF PosterInit, PosterTypes, NoPool
<1>5. AgesAgree
  BY DEF PosterInit, AgesAgree, Marked, NoPool
<1>6. InTime
  BY OrderFacts DEF PosterInit, InTime, Covered, Tradable
<1> QED BY <1>4, <1>5, <1>6 DEF PosterInv

LEMMA PosterNextInv == PosterInv /\ [PosterNext]_posterVars => PosterInv'
<1> SUFFICES ASSUME PosterInv, [PosterNext]_posterVars PROVE PosterInv'
  OBVIOUS
<1>1. CASE UNCHANGED posterVars
  <2>1. UNCHANGED <<market, markAge, unmarked, postMisses, configCache, poster, sinceTick, leverage, updates>>
    BY <1>1 DEF posterVars
  <2>2. PosterTypes'
    BY <2>1, OnItsWayLater DEF PosterInv, PosterTypes
  <2>3. \A i \in 1..N : ToPost(poster', sinceTick', i) <= ToPost(poster, sinceTick, i)
    BY <2>1, CoverFacts DEF PosterInv
  <2> QED BY <2>1, <2>2, <2>3, NearerInv
<1>2. CASE PosterStep
  BY <1>2, ListInv, FetchFailsInv, ReadMarketInv, ReadPoolInv, ReadConfigInv, PostMarkInv
  DEF PosterStep
<1>3. CASE update_leverage_params \/ PosterClock \/ tick
  BY <1>3, UpdateInv, ClockInv, TickInv
<1>4. CASE \E p \in Pools : init_leverage_pool(p) \/ MarketMoves(p)
  BY <1>4, InitPoolInv, MarketMovesInv
<1> QED BY <1>1, <1>2, <1>3, <1>4 DEF PosterNext

LEMMA PosterInvariant == PosterSpec => []PosterInv
BY PosterInitInv, PosterNextInv, PTL DEF PosterSpec

\* A covered pool's mark is not too old.
LEMMA InTimeUsable ==
  ASSUME Budget <= MAX_MARK_AGE, PosterInv, configCache # "off" PROVE MarksStayUsable
<1> SUFFICES ASSUME NEW p \in Pools, Tradable(p)
             PROVE  unmarked[p] <= MAX_MARK_AGE
  BY DEF MarksStayUsable
<1>1. PICK i \in 1..N : Order[i] = p
  BY OrderFacts
<1>2. PICK u, t, s \in Nat : /\ u = unmarked[p] /\ t = ToPost(poster, sinceTick, i)
                           /\ s = Spare(postMisses) /\ u + t + s <= Budget
  <2>1. Covered(i)
    BY DEF PosterInv, InTime
  <2>2. unmarked[p] \in Nat /\ ToPost(poster, sinceTick, i) \in Nat /\ Spare(postMisses) \in Nat
    BY <1>1, CoverFacts DEF PosterInv
  <2> QED BY <1>1, <2>1, <2>2 DEF Covered
<1>3. Budget \in Nat /\ MAX_MARK_AGE \in Nat
  BY SpareFacts, MarkPosterConstants
<1> QED BY <1>2, <1>3

\* As long as the poster has not memoized leverage as off, the marks of the traded
\* pools stay young enough to open positions on, however often leverage is switched.
THEOREM MarksStayUsableUnlessOff ==
  ASSUME Budget <= MAX_MARK_AGE
  PROVE  PosterSpec => [](configCache # "off" => MarksStayUsable)
<1>1. PosterInv => (configCache # "off" => MarksStayUsable)
  BY InTimeUsable
<1> QED BY <1>1, PosterInvariant, PTL

\* Leverage switched on once and never off again: no pool is there before, so the
\* poster reads the MarketConfig only after.
SwitchInv ==
  /\ updates \in Nat /\ leverage \in {"on", "off"}
  /\ leverage = "on" => updates > 0
  /\ leverage = "off" => updates = 0 /\ \A p \in Pools : markAge[p] = NoPool
  /\ leverage = "off" => poster.at \notin {"config", "early", "send"}
  /\ configCache # "off"

LEMMA SwitchInit == PosterInit => SwitchInv
BY DEF PosterInit, SwitchInv, Resting

LEMMA SwitchNext ==
  ASSUME MaxUpdates <= 1
  PROVE  PosterInv /\ SwitchInv /\ [PosterNext]_posterVars => SwitchInv'
<1> SUFFICES ASSUME PosterInv, SwitchInv, [PosterNext]_posterVars PROVE SwitchInv'
  OBVIOUS
<1>1. CASE update_leverage_params
  <2>1. updates < MaxUpdates /\ updates' = updates + 1 /\ updates \in Nat /\ MaxUpdates \in Nat
    BY <1>1, MarkPosterConstants DEF update_leverage_params, SwitchInv
  <2>2. updates = 0 /\ updates' = 1
    BY <2>1
  <2>3. leverage = "off"
    BY <2>2 DEF SwitchInv
  <2> QED BY <1>1, <2>2, <2>3 DEF update_leverage_params, SwitchInv
<1>2. CASE PosterClock
  <2>1. \A p \in Pools : markAge[p] = NoPool => markAge'[p] = NoPool
    BY <1>2 DEF PosterClock, Marked, NoPool
  <2>2. leverage = "off" => poster'.at \notin {"config", "early", "send"}
    <3>1. CASE poster.at \in Awaiting
      <4> SUFFICES ASSUME leverage = "off" PROVE poster'.at \notin {"config", "early", "send"}
        OBVIOUS
      <4>1. poster' = [poster EXCEPT !.waited = @ + 1] /\ poster.at \notin {"config", "early", "send"}
        BY <1>2, <3>1 DEF PosterClock, SwitchInv
      <4> QED BY <4>1
    <3>2. CASE poster.at \notin Awaiting
      BY <1>2, <3>2 DEF PosterClock, SwitchInv
    <3> QED BY <3>1, <3>2
  <2> QED BY <1>2, <2>1, <2>2 DEF PosterClock, SwitchInv
<1>3. CASE tick
  BY <1>3 DEF tick, SwitchInv, Resting
<1>4. CASE list
  <2>1. poster'.at \in {"rest", "market"}
    BY <1>4 DEF list, NextFixture, Finished, Resting
  <2> QED BY <1>4, <2>1 DEF list, SwitchInv
<1>5. ASSUME GivesUp PROVE poster'.at \in {"rest", "market"}
  BY <1>5 DEF GivesUp, NextFixture, Finished, Resting
<1>6. CASE fetchFails
  BY <1>5, <1>6 DEF fetchFails, SwitchInv
<1>7. CASE readMarket
  <2>1. poster'.at \in {"rest", "market", "pool"}
    <3>1. CASE poster' = [poster EXCEPT !.at = "pool"]
      <4>1. poster'.at = "pool" \/ poster'.at = poster.at
        BY <3>1
      <4> QED BY <1>7, <4>1 DEF readMarket
    <3>2. CASE GivesUp
      BY <1>5, <3>2
    <3> QED BY <1>7, <3>1, <3>2 DEF readMarket
  <2> QED BY <1>7, <2>1 DEF readMarket, SwitchInv
<1>8. CASE readPool
  <2>1. leverage = "off" => poster'.at \in {"rest", "market"}
    <3>1. Head(poster.left) \in Pools
      BY <1>8, Visiting DEF readPool, PosterInv, PerPool
    <3> QED BY <1>5, <1>8, <3>1 DEF readPool, SwitchInv
  <2> QED BY <1>8, <2>1 DEF readPool, SwitchInv
<1>9. CASE readConfig
  <2>1. leverage = "on"
    BY <1>9 DEF readConfig, SwitchInv
  <2>2. configCache' # "off"
    BY <1>9, <2>1 DEF readConfig, SwitchInv
  <2> QED BY <1>9, <2>1, <2>2 DEF readConfig, SwitchInv
<1>10. CASE post_mark
  <2>1. leverage = "on"
    BY <1>10 DEF post_mark, SwitchInv
  <2> QED BY <1>10, <2>1 DEF post_mark, SwitchInv
<1>11. CASE \E p \in Pools : init_leverage_pool(p) \/ MarketMoves(p)
  BY <1>11 DEF init_leverage_pool, MarketMoves, SwitchInv
<1>12. CASE UNCHANGED posterVars
  BY <1>12 DEF posterVars, SwitchInv
<1> QED BY <1>1, <1>2, <1>3, <1>4, <1>6, <1>7, <1>8, <1>9, <1>10, <1>11, <1>12
        DEF PosterNext, PosterStep

\* MarksStayUsable, for any number of markets, any odds and any failures up to
\* MaxPostMisses, if the age limit leaves room for the epoch, the timer and the walks
\* (Budget) and leverage is not switched off once it is on.
THEOREM MarksAlwaysUsable ==
  ASSUME Budget <= MAX_MARK_AGE, MaxUpdates <= 1
  PROVE  PosterSpec => []MarksStayUsable
<1>1. PosterInv /\ SwitchInv => MarksStayUsable
  BY InTimeUsable DEF SwitchInv
<1>2. PosterSpec => []SwitchInv
  <2>1. PosterInit => SwitchInv
    BY SwitchInit
  <2>2. PosterInv /\ SwitchInv /\ [PosterNext]_posterVars => SwitchInv'
    BY SwitchNext
  <2> QED BY <2>1, <2>2, PosterInvariant, PTL DEF PosterSpec
<1> QED BY <1>1, <1>2, PosterInvariant, PTL
=============================================================================
