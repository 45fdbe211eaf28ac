---------------------------- MODULE MCSpotMarket ----------------------------
(***************************************************************************)
(* SpotMarket on small instances, with the cost and price tables computed  *)
(* by the program's own fixed-point arithmetic at reduced precision.       *)
(***************************************************************************)
EXTENDS SpotMarket, TLC

CONSTANT B    \* the market's liquidity parameter b

Kernel == INSTANCE LmsrKernel WITH
            FracBits <- 10, LN2_Q64 <- 709, EXP_MAX_PAIRS <- 20, LN_MAX_TERMS <- 40

MCVectors == [0..2 -> 0..Q_MAX]
MCCostQ == [x \in MCVectors |-> Kernel!cost_q64(x, B)]
MCPriceBps == [x \in MCVectors |-> Kernel!prices_bps(x, B)]

Vec(x, y, z) == [o \in 0..2 |-> IF o = 0 THEN x ELSE IF o = 1 THEN y ELSE z]
MCEvenSeed == {Vec(0, 0, 0)}
MCSeeds == {Vec(0, 0, 0), Vec(2, 1, 0)}
MCSchedules == {<<1, 2>>}

(* Matches.  Keys 1 and 2 are the two teams' goals, period 1 is the first   *)
(* half and 100 full time; fixture 1 is the market's, fixture 2 another.    *)
Score(home, away, period) ==
  {[key |-> 1, value |-> home, period |-> period],
   [key |-> 2, value |-> away, period |-> period]}
BatchOf(fixture, stats) == [fixture |-> fixture, day |-> 1, stats |-> stats]

MCDraw == {<<BatchOf(1, Score(0, 0, 100))>>}
MCMatches ==
  {\* the home team leads at half time and the match is drawn
   <<BatchOf(1, Score(1, 0, 1)), BatchOf(1, Score(1, 0, 1) \cup Score(1, 1, 100))>>,
   \* drawn at half time, won by the home team
   <<BatchOf(1, Score(0, 0, 1)), BatchOf(1, Score(0, 0, 1) \cup Score(1, 0, 100))>>,
   \* lost, after another fixture was won
   <<BatchOf(2, Score(1, 0, 100)), BatchOf(1, Score(0, 1, 100))>>}

UserSymmetry == Permutations(Users)
=============================================================================
