----------------------------- MODULE Enrichment -----------------------------
(***************************************************************************)
(* What the indexer adds to a market's row from the TxLINE feed: names     *)
(* once, score and reference odds while the match is live and once after   *)
(* it.  The boot and the timer's tick may be doing this at the same time,  *)
(* with a guest token that expires.  Time is kept as ages: how long ago    *)
(* something happened, counted up to the point where the code no longer    *)
(* tells the difference.                                                   *)
(***************************************************************************)
EXTENDS Integers, Sequences, SequencesExt

CONSTANTS
  THROTTLE,     \* SCORE_ODDS_THROTTLE_MS
  TTL,          \* lifetime of a guest token
  MARGIN,       \* how long before its end a token is given up
  Delay,        \* the longest a call takes
  Snapshots,    \* what the feed may say of the fixture
  MaxFeed,      \* bound on the changes of the feed
  MaxMisses,    \* bound on failing calls
  NoValue       \* null

ASSUME EnrichmentConstants ==
  /\ THROTTLE \in Nat /\ TTL \in Nat /\ MARGIN \in 0..TTL
  /\ Delay \in 1..MARGIN /\ MaxFeed \in Nat /\ MaxMisses \in Nat

VARIABLES
  state,        \* the row's state, written by the ingest
  feed,         \* what the feed says now: [scores, odds, listed, lineups]
  moves,        \* how often the feed has changed
  row,          \* [score, odds, names, competition]
  fetched,      \* age of lastScoreOddsFetch
  token,        \* [client, server] ages of the guest token
  teams,        \* FixturesService.cache: "unset" before the first lookup
  competitions, \* competitionByFixture, likewise
  pass,         \* the enrichment each task has under way
  misses

enrichVars == <<state, feed, moves, row, fetched, token, teams, competitions, pass, misses>>

Passes == {"boot", "tick"}
Off == [at |-> "off", waited |-> 0, token |-> 0, score |-> NoValue, odds |-> NoValue]
NoToken == [client |-> TTL, server |-> TTL]
NoFeed == [scores |-> <<>>, odds |-> <<>>, listed |-> FALSE, lineups |-> FALSE]

EnrichInit ==
  /\ state = "Open" /\ feed = NoFeed /\ moves = 0
  /\ row = [score |-> NoValue, odds |-> NoValue, names |-> NoValue, competition |-> NoValue]
  /\ fetched = THROTTLE /\ token = NoToken /\ teams = "unset" /\ competitions = "unset"
  /\ pass = [p \in Passes |-> Off]
  /\ misses = 0

Older(age, limit) == IF age < limit THEN age + 1 ELSE age
Waiting(p) == pass[p].at \in {"token", "answer"}

-----------------------------------------------------------------------------
\* The market, the match and the clock.

NextState(s) == CASE s = "Open" -> "Trading" [] s = "Trading" -> "Locked" [] OTHER -> "Resolved"

RowMoves ==
  /\ state # "Resolved"
  /\ state' = NextState(state)
  /\ UNCHANGED <<feed, moves, row, fetched, token, teams, competitions, pass, misses>>

FeedMoves ==
  /\ moves < MaxFeed /\ moves' = moves + 1
  /\ feed' \in Snapshots
  /\ UNCHANGED <<state, row, fetched, token, teams, competitions, pass, misses>>

Clock ==
  /\ \A p \in Passes : Waiting(p) => pass[p].waited < Delay
  /\ fetched' = Older(fetched, THROTTLE)
  /\ token' = [client |-> Older(token.client, TTL), server |-> Older(token.server, TTL)]
  /\ pass' = [p \in Passes |->
       IF Waiting(p) THEN [pass[p] EXCEPT !.waited = @ + 1, !.token = Older(@, TTL)] ELSE pass[p]]
  /\ UNCHANGED <<state, feed, moves, row, teams, competitions, misses>>

-----------------------------------------------------------------------------
\* enrichScoreAndOdds.

\* Broken: a score once there is not fetched again.
OnlyOnce ==
  /\ row.score = NoValue
  /\ state \in {"Locked", "Resolved"} \/ (state = "Trading" /\ fetched >= THROTTLE)
\* Live markets are throttled, finished ones fetched until there is a score.
Wanted ==
  \/ state = "Trading" /\ fetched >= THROTTLE
  \/ state \in {"Locked", "Resolved"} /\ row.score = NoValue

Miss == misses < MaxMisses /\ misses' = misses + 1

\* getGuestJwt: a cached token, unless it ends soon.
Fresh(age) == age < TTL - MARGIN

enrichScoreAndOdds(p) ==
  /\ pass[p].at = "off" /\ Wanted
  /\ fetched' = 0
  /\ pass' = [pass EXCEPT ![p] =
       IF Fresh(token.client) THEN [Off EXCEPT !.at = "answer", !.token = token.server]
       ELSE [Off EXCEPT !.at = "token"]]
  /\ UNCHANGED <<state, feed, moves, row, token, teams, competitions, misses>>

\* The token is as old for its server as the answer, for the client as the call.
getGuestJwt(p) ==
  /\ pass[p].at = "token"
  /\ \/ /\ token' = [client |-> pass[p].waited, server |-> 0]
        /\ pass' = [pass EXCEPT ![p] = [Off EXCEPT !.at = "answer"]]
        /\ UNCHANGED misses
     \/ Miss /\ pass' = [pass EXCEPT ![p] = [Off EXCEPT !.at = "write"]] /\ UNCHANGED token
  /\ UNCHANGED <<state, feed, moves, row, fetched, teams, competitions>>

\* The goals of a row: its running totals, or else its score object.
goalsFrom(r) == IF r.stats # NoValue THEN r.stats ELSE r.total

\* The goals of the last finalised row of the snapshot, or else of its last row.
Score ==
  LET Final(r) == r.finalised
      final == SelectSeq(feed.scores, Final)
      used == IF final # <<>> THEN final ELSE feed.scores
  IN  IF used = <<>> THEN NoValue ELSE goalsFrom(Last(used))

\* A row counts when it prices all three outcomes.
parseOddsRow(r) == IF NoValue \in {r.home, r.draw, r.away} THEN NoValue ELSE r.home

\* The freshest row that counts, the later one of two of an age.
Odds ==
  LET counts == {i \in DOMAIN feed.odds : parseOddsRow(feed.odds[i]) # NoValue}
      Fresher(i, j) == feed.odds[i].ts > feed.odds[j].ts
                       \/ (feed.odds[i].ts = feed.odds[j].ts /\ i > j)
      best == CHOOSE i \in counts : \A j \in counts \ {i} : Fresher(i, j)
  IN  IF counts = {} THEN NoValue ELSE parseOddsRow(feed.odds[best])

Accepted(p) == pass[p].token < TTL

\* getScore and getOdds, each of which returns null instead of throwing.
getScoreAndOdds(p) ==
  /\ pass[p].at = "answer"
  /\ \E scoreOk, oddsOk \in BOOLEAN :
       /\ IF scoreOk /\ oddsOk THEN UNCHANGED misses ELSE Miss
       /\ pass' = [pass EXCEPT ![p] = [Off EXCEPT !.at = "write",
            !.score = IF scoreOk /\ Accepted(p) THEN Score ELSE NoValue,
            !.odds = IF oddsOk /\ Accepted(p) THEN Odds ELSE NoValue]]
  /\ UNCHANGED <<state, feed, moves, row, fetched, token, teams, competitions>>

Either(new, old) == IF new = NoValue THEN old ELSE new

updateScoreAndOdds(p) ==
  /\ pass[p].at = "write"
  /\ row' = [row EXCEPT !.score = Either(pass[p].score, @), !.odds = Either(pass[p].odds, @)]
  /\ pass' = [pass EXCEPT ![p] = Off]
  /\ UNCHANGED <<state, feed, moves, fetched, token, teams, competitions, misses>>

-----------------------------------------------------------------------------
\* enrichTeams and enrichMissingTeams ask for what the row still lacks.  Their
\* calls are taken together, since nothing else touches what they read and write.

\* From the snapshot of current fixtures, or else from the lineups of the replay.
lookup(answers) == IF answers /\ (feed.listed \/ feed.lineups) THEN "teams" ELSE NoValue

\* One lookup per process, whose answer is kept even when there is none.
getTeams(answers) == IF teams = "unset" THEN lookup(answers) ELSE teams

\* The map of the snapshot's competitions is built once, empty if the call fails.
getCompetition(answers) ==
  IF competitions # "unset" THEN competitions
  ELSE IF answers /\ feed.listed THEN "competition" ELSE NoValue

enrichTeams ==
  /\ \/ row.names = NoValue /\ teams = "unset"
     \/ row.competition = NoValue /\ competitions = "unset"
  /\ \E named, placed \in BOOLEAN :
       /\ IF named /\ placed THEN UNCHANGED misses ELSE Miss
       /\ teams' = getTeams(named) /\ competitions' = getCompetition(placed)
       /\ row' = [row EXCEPT !.names = Either(getTeams(named), @),
                            !.competition = Either(getCompetition(placed), @)]
       /\ token' = IF (named \/ placed) /\ ~Fresh(token.client)
                   THEN [client |-> 0, server |-> 0] ELSE token
  /\ UNCHANGED <<state, feed, moves, fetched, pass>>

PassStep(p) ==
  enrichScoreAndOdds(p) \/ getGuestJwt(p) \/ getScoreAndOdds(p) \/ updateScoreAndOdds(p)

EnrichNext ==
  \/ RowMoves \/ FeedMoves \/ Clock \/ enrichTeams
  \/ \E p \in Passes : PassStep(p)

EnrichFairness == WF_enrichVars(Clock) /\ \A p \in Passes : WF_enrichVars(PassStep(p))

EnrichSpec == EnrichInit /\ [][EnrichNext]_enrichVars /\ EnrichFairness

-----------------------------------------------------------------------------
\* While a market trades, what its row shows is in the end the score and the
\* reference odds published last, whatever failed before and however the boot
\* and the tick overlap (persister: "refetch every poll cycle").
LiveScoreFollows ==
  <>[](state = "Trading" =>
         /\ Score # NoValue => row.score = Score
         /\ Odds # NoValue => row.odds = Odds)
=============================================================================
