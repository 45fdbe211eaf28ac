------------------------------ MODULE MarkPoster ------------------------------
(***************************************************************************)
(* The keeper's mark poster: a timer whose tick walks the fixtures one by  *)
(* one and posts a mark for every trading market with a leverage pool      *)
(* whose last mark is a funding epoch old.  The operator turns leverage on *)
(* and creates the pools while the poster is running.  Time is kept as     *)
(* ages, counted up to the point where nothing tells the difference.       *)
(***************************************************************************)
EXTENDS Integers, Sequences, SequencesExt, FiniteSets

CONSTANTS
  Pools,         \* the markets, in one MarketConfig
  TICK,          \* schedulerTickMs
  EPOCH,         \* funding_epoch_secs
  MARK_DENOM,    \* BPS_DENOM
  OddsFeeds,     \* what the odds snapshot may hold: sequences of rows
  SpotWeights,   \* the curve's softmax, as weights
  MAX_MARK_AGE,  \* max_mark_age_secs: no position is opened on an older mark
  PostDelay,     \* the longest the calls for one fixture take together
  MaxUpdates,    \* bound on update_leverage_params
  MaxPostMisses  \* bound on failing calls

\* create_market_config refuses an epoch of zero; a curve has weights.
ASSUME MarkPosterConstants ==
  /\ IsFiniteSet(Pools)
  /\ TICK \in Nat \ {0} /\ EPOCH \in Nat \ {0} /\ MAX_MARK_AGE \in Nat
  /\ PostDelay \in Nat /\ MaxUpdates \in Nat /\ MaxPostMisses \in Nat
  /\ MARK_DENOM \in Nat /\ MARK_DENOM > 2
  /\ OddsFeeds \subseteq Seq([ts : Nat, pct : [1..3 -> Nat]])
  /\ \A w \in SpotWeights : w \in [1..3 -> Nat] /\ w[1] + w[2] + w[3] > 0

VARIABLES
  leverage,     \* max_leverage in the MarketConfig on chain: "on" above 0, "off" at 0
  updates,
  market,       \* per market: Open, Trading or Locked
  markAge,      \* per pool: age of mark_ts, or NoPool, or Unmarked before the first mark
  unmarked,     \* per pool: how long it has traded without a new mark
  poster,       \* [at, left, waited]: the tick under way
  sinceTick,    \* age of the timer's last firing
  configCache,  \* the memoized max_leverage, or "unset"
  postMisses

posterVars == <<leverage, updates, market, markAge, unmarked, poster, sinceTick,
                configCache, postMisses>>

NoPool == -2
Unmarked == -1
Resting == [at |-> "rest", left |-> <<>>, waited |-> 0]

PosterInit ==
  /\ leverage = "off" /\ updates = 0
  /\ market = [p \in Pools |-> "Open"]
  /\ markAge = [p \in Pools |-> NoPool]
  /\ unmarked = [p \in Pools |-> 0]
  /\ poster = Resting /\ sinceTick = TICK
  /\ configCache = "unset" /\ postMisses = 0

Awaiting == {"list", "market", "pool", "config", "early", "send"}
Marked(p) == markAge[p] >= 0
Tradable(p) == market[p] = "Trading" /\ markAge[p] # NoPool

-----------------------------------------------------------------------------
\* The operator, the life cycle and the clock.

update_leverage_params ==
  /\ updates < MaxUpdates /\ updates' = updates + 1
  /\ leverage' = IF leverage = "on" THEN "off" ELSE "on"
  /\ UNCHANGED <<market, markAge, unmarked, poster, sinceTick, configCache, postMisses>>

init_leverage_pool(p) ==
  /\ leverage = "on" /\ markAge[p] = NoPool /\ market[p] # "Locked"
  /\ markAge' = [markAge EXCEPT ![p] = Unmarked]
  /\ UNCHANGED <<leverage, updates, market, unmarked, poster, sinceTick, configCache, postMisses>>

MarketMoves(p) ==
  /\ market[p] # "Locked"
  /\ market' = [market EXCEPT ![p] = IF @ = "Open" THEN "Trading" ELSE "Locked"]
  /\ unmarked' = [unmarked EXCEPT ![p] = 0]
  /\ UNCHANGED <<leverage, updates, markAge, poster, sinceTick, configCache, postMisses>>

\* The timer is on time, and the calls for one fixture take PostDelay at most.
PosterClock ==
  /\ sinceTick < TICK
  /\ poster.at \in Awaiting => poster.waited < PostDelay
  /\ sinceTick' = sinceTick + 1
  /\ markAge' = [p \in Pools |->
       IF Marked(p) /\ markAge[p] < EPOCH THEN markAge[p] + 1 ELSE markAge[p]]
  /\ unmarked' = [p \in Pools |->
       IF Tradable(p) /\ unmarked[p] <= MAX_MARK_AGE THEN unmarked[p] + 1 ELSE unmarked[p]]
  /\ poster' = IF poster.at \in Awaiting THEN [poster EXCEPT !.waited = @ + 1] ELSE poster
  /\ UNCHANGED <<leverage, updates, market, configCache, postMisses>>

-----------------------------------------------------------------------------
\* tick: one walk over the fixtures at a time, whatever fails.

PostMiss == postMisses < MaxPostMisses /\ postMisses' = postMisses + 1

tick ==
  /\ sinceTick = TICK /\ sinceTick' = 0
  /\ poster' = IF poster.at = "rest" THEN [Resting EXCEPT !.at = "list"] ELSE poster
  /\ UNCHANGED <<leverage, updates, market, markAge, unmarked, configCache, postMisses>>

\* Broken: a tick that fails early leaves the poster marked as running.
StillRunning == [Resting EXCEPT !.at = "stuck"]
\* The finally block of tick.
Finished == Resting

\* The next fixture, or the end of the walk.
NextFixture(left) ==
  IF left = <<>> THEN Finished ELSE [at |-> "market", left |-> left, waited |-> 0]

list ==
  /\ poster.at = "list"
  /\ \/ poster' = NextFixture(SetToSeq(Pools)) /\ UNCHANGED postMisses
     \/ PostMiss /\ poster' = Finished
  /\ UNCHANGED <<leverage, updates, market, markAge, unmarked, sinceTick, configCache>>

\* An error for one fixture is caught; the walk goes on with the next one.
GivesUp == poster' = NextFixture(Tail(poster.left))

fetchFails ==
  /\ poster.at \in {"market", "pool"} \/ (poster.at \in {"config", "early"} /\ configCache = "unset")
  /\ PostMiss /\ GivesUp
  /\ UNCHANGED <<leverage, updates, market, markAge, unmarked, sinceTick, configCache>>

readMarket ==
  /\ poster.at = "market"
  /\ IF market[Head(poster.left)] = "Trading" THEN poster' = [poster EXCEPT !.at = "pool"] ELSE GivesUp
  /\ UNCHANGED <<leverage, updates, market, markAge, unmarked, sinceTick, configCache, postMisses>>

\* fetchMaybeLeveragePool; the mark's age is judged by what is read here.
Overdue(p) == markAge[p] = Unmarked \/ (Marked(p) /\ markAge[p] >= EPOCH)

readPool ==
  /\ poster.at = "pool"
  /\ LET p == Head(poster.left)
     IN  IF markAge[p] = NoPool THEN GivesUp
         ELSE poster' = [poster EXCEPT !.at = IF Overdue(p) THEN "config" ELSE "early"]
  /\ UNCHANGED <<leverage, updates, market, markAge, unmarked, sinceTick, configCache, postMisses>>

\* readConfig memoizes the first MarketConfig it reads; then the rate limit.
readConfig ==
  /\ poster.at \in {"config", "early"}
  /\ LET on == IF configCache = "unset" THEN leverage ELSE configCache
     IN  /\ configCache' = on
         /\ IF on = "on" /\ poster.at = "config" THEN poster' = [poster EXCEPT !.at = "send"] ELSE GivesUp
  /\ UNCHANGED <<leverage, updates, market, markAge, unmarked, sinceTick, postMisses>>

\* The freshest row that quotes all three outcomes strictly between 0 and 100.
fetchImplied1x2(feed) ==
  LET full == {i \in DOMAIN feed : \A o \in 1..3 : feed[i].pct[o] > 0 /\ feed[i].pct[o] < 100}
      first == CHOOSE i \in full : \A j \in full :
                 feed[i].ts > feed[j].ts \/ (feed[i].ts = feed[j].ts /\ i <= j)
  IN  IF full = {} THEN <<>> ELSE feed[first].pct

\* Weights as marks: two floored and clamped, the third takes what is left of
\* the denominator, clamped too.
probsToMarksBps(w) ==
  LET sum == w[1] + w[2] + w[3]
      clamp(n) == IF n < 1 THEN 1 ELSE IF n > MARK_DENOM - 2 THEN MARK_DENOM - 2 ELSE n
      a == clamp((w[1] * MARK_DENOM) \div sum)
      b == clamp((w[2] * MARK_DENOM) \div sum)
  IN  <<a, b, clamp(MARK_DENOM - a - b)>>

\* post_mark.rs refuses a mark at the ends of the scale.
AcceptedMarks(marks) == \A i \in 1..3 : marks[i] > 0 /\ marks[i] < MARK_DENOM

\* The marks come from the odds, which may not be there or not be had, or from
\* the curve.  post_mark lands, fails, or lands and looks failed.
post_mark ==
  /\ poster.at = "send"
  /\ \E feed \in OddsFeeds \cup {<<>>}, spot \in SpotWeights, landed, reported \in BOOLEAN :
       /\ reported => landed
       /\ LET implied == fetchImplied1x2(feed)
              accepted == AcceptedMarks(probsToMarksBps(IF implied # <<>> THEN implied ELSE spot))
          IN  /\ landed => accepted
              /\ IF reported \/ ~accepted THEN UNCHANGED postMisses ELSE PostMiss
       /\ IF landed
          THEN /\ markAge' = [markAge EXCEPT ![Head(poster.left)] = 0]
               /\ unmarked' = [unmarked EXCEPT ![Head(poster.left)] = 0]
          ELSE UNCHANGED <<markAge, unmarked>>
  /\ GivesUp
  /\ UNCHANGED <<leverage, updates, market, sinceTick, configCache>>

PosterStep == list \/ fetchFails \/ readMarket \/ readPool \/ readConfig \/ post_mark

PosterNext ==
  \/ update_leverage_params \/ PosterClock \/ tick \/ PosterStep
  \/ \E p \in Pools : init_leverage_pool(p) \/ MarketMoves(p)

PosterFairness == WF_posterVars(PosterClock) /\ WF_posterVars(tick) /\ WF_posterVars(PosterStep)

PosterSpec == PosterInit /\ [][PosterNext]_posterVars /\ PosterFairness

-----------------------------------------------------------------------------
\* A traded pool's mark never gets so old that positions are refused for it
\* (max_mark_age_secs): the cadence of the timer, the epoch, the walk over the
\* other fixtures and MaxPostMisses failures together stay below it.
MarksStayUsable == \A p \in Pools : Tradable(p) => unmarked[p] <= MAX_MARK_AGE
=============================================================================
