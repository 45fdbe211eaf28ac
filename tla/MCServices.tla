------------------------------ MODULE MCServices ------------------------------
(***************************************************************************)
(* The services beside the life cycle: the indexer's ingest and            *)
(* enrichment, the keeper's mark poster and score stream.  They share      *)
(* nothing but the chain and the TxLINE feed, so each behaviour exercises  *)
(* one of them, chosen at the start.                                       *)
(***************************************************************************)
EXTENDS Indexer, Enrichment, MarkPoster, ScoreStream

CONSTANT m1

\* One market from creation to closure in few transactions.
Ev(kind, amount) == [kind |-> kind, market |-> m1, outcome |-> 1, amount |-> amount]
MCMarkets == {m1}
MCTransactions == {
  <<Ev("created", 0), Ev("activate", 0)>>,
  <<Ev("trade", 1), Ev("setMint", 2)>>,
  <<Ev("trade", 2), Ev("freeze", 0), Ev("resolve", 0)>>,
  <<Ev("redeem", 1), Ev("close", 0)>> }

\* What the TxLINE feed may say of the fixture: two goals and the odds while it
\* is played; a row without goals and partial odds; the end, with a late row.
ScoreRow(finalised, stats, total) == [finalised |-> finalised, stats |-> stats, total |-> total]
OddsRow(ts, home, away) == [ts |-> ts, home |-> home, draw |-> 30, away |-> away]
Feed(scores, odds, listed, lineups) ==
  [scores |-> scores, odds |-> odds, listed |-> listed, lineups |-> lineups]
Live == ScoreRow(FALSE, 1, 0)
MCSnapshots == {
  Feed(<<Live>>, <<OddsRow(2, 50, 20), OddsRow(1, 40, 30)>>, TRUE, FALSE),
  Feed(<<Live, ScoreRow(FALSE, NoValue, NoValue)>>, <<OddsRow(3, 60, NoValue), OddsRow(2, 50, 20)>>, TRUE, FALSE),
  Feed(<<Live, ScoreRow(TRUE, NoValue, 3), ScoreRow(FALSE, 2, 2)>>, <<>>, FALSE, TRUE) }

\* Odds for a favourite, and a curve pushed to its end.
MCOddsFeeds == {
  << [ts |-> 2, pct |-> <<98, 1, 1>>], [ts |-> 1, pct |-> <<40, 30, 30>>] >>,
  << [ts |-> 2, pct |-> <<60, 0, 40>>] >> }
MCSpotWeights == {<<1, 0, 0>>, <<0, 1, 1>>, <<1, 1, 1>>}

VARIABLE service

vars == <<ingestVars, enrichVars, posterVars, streamVars, service>>

Init ==
  /\ service \in {"ingest", "enrichment", "poster", "stream"}
  /\ IngestInit /\ EnrichInit /\ PosterInit /\ StreamInit

Next ==
  /\ UNCHANGED service
  /\ \/ /\ service = "ingest" /\ IngestNext
        /\ UNCHANGED <<enrichVars, posterVars, streamVars>>
     \/ /\ service = "enrichment" /\ EnrichNext
        /\ UNCHANGED <<ingestVars, posterVars, streamVars>>
     \/ /\ service = "poster" /\ PosterNext
        /\ UNCHANGED <<ingestVars, enrichVars, streamVars>>
     \/ /\ service = "stream" /\ StreamNext
        /\ UNCHANGED <<ingestVars, enrichVars, posterVars>>

\* The fairness of the two of which something is asked in the end, for the
\* behaviours that exercise them.
Fairness ==
  /\ WF_ingestVars(service = "ingest" /\ StartTick)
  /\ WF_ingestVars(service = "ingest" /\ ReplayStep)
  /\ \A t \in Tasks : WF_ingestVars(service = "ingest" /\ TaskStep(t))
  /\ WF_enrichVars(service = "enrichment" /\ Clock)
  /\ \A p \in Passes : WF_enrichVars(service = "enrichment" /\ PassStep(p))

Spec == Init /\ [][Next]_vars /\ Fairness
===============================================================================
