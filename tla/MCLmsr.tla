------------------------------- MODULE MCLmsr -------------------------------
(***************************************************************************)
(* Sweeps the LMSR arithmetic: q walks over every supported vector, one    *)
(* token or one complete set at a time, for several liquidities b, and in  *)
(* every state and step the pricing operators are checked against what     *)
(* lmsr.rs and SPEC.md say of them.                                        *)
(***************************************************************************)
EXTENDS LmsrKernel

CONSTANTS Liquidities, Q_MAX

\* lmsr.rs:78-89: quantities and liquidities are positive and bounded.
ASSUME SweepConstants == Liquidities \subseteq Nat \ {0} /\ Q_MAX \in Nat \ {0}

VARIABLES q, b
vars == <<q, b>>

Vectors == [0..2 -> 0..Q_MAX]
CostTable == [bb \in Liquidities |-> [x \in Vectors |-> cost_q64(x, bb)]]
PriceTable == [bb \in Liquidities |-> [x \in Vectors |-> prices_bps(x, bb)]]

Curve == INSTANCE Lmsr WITH CostQ <- CostTable[b], PriceBps <- PriceTable[b]

Init == q = [o \in Outcomes |-> 0] /\ b \in Liquidities

OneToken(o) == /\ q[o] < Q_MAX
               /\ q' = [q EXCEPT ![o] = @ + 1]
               /\ UNCHANGED b

OneSet == /\ \A o \in Outcomes : q[o] < Q_MAX
          /\ q' = [o \in Outcomes |-> q[o] + 1]
          /\ UNCHANGED b

Next == OneSet \/ \E o \in Outcomes : OneToken(o)
Spec == Init /\ [][Next]_vars

C(x) == CostTable[b][x]
Price(x) == PriceTable[b][x]
Room(x, o) == 0..(Q_MAX - x[o])

-----------------------------------------------------------------------------
\* The structural lemma of the bounded-loss proof: truncation never takes the
\* cost below max(q), nor above max(q) + b*ln 3 (the market maker's subsidy;
\* 10987/10000 is above ln 3).  lmsr.rs:67-74.
SubsidyBounds ==
  LET premium == C(q) - MaxOf(q) * ONE_Q64
  IN premium >= 0 /\ premium * 10000 <= b * 10987 * ONE_Q64

\* One more token costs between nothing and one unit, and no truncation makes
\* the bought outcome cheaper or another outcome dearer.
TokenStepsAreMonotone ==
  [][\A o \in Outcomes : OneToken(o) =>
       /\ C(q') \in C(q)..(C(q) + ONE_Q64)
       /\ \A p \in Outcomes : IF p = o THEN Price(q')[p] >= Price(q)[p]
                              ELSE Price(q')[p] <= Price(q)[p]]_vars

\* One more complete set costs exactly its face value and moves no price: every
\* rounding sees only the differences to max(q).  lmsr.rs:24-31.
SetsAtFaceValue ==
  [][OneSet => C(q') = C(q) + ONE_Q64 /\ Price(q') = Price(q)]_vars

\* Both, for every step of the sweep: what the market assumes of its curve.
StepsFollowCurve == TokenStepsAreMonotone /\ SetsAtFaceValue

\* The binary search returns the largest affordable quantity: it never
\* overcharges its budget and never stops short of it.
SolverIsMaximal ==
  \A o \in Outcomes, budget \in 0..Q_MAX :
    LET delta == Curve!buy_delta_for_cost(q, o, budget)
    IN IF delta = 0
       THEN \A d \in Room(q, o) \ {0} : Curve!buy_cost(q, o, d) > budget
       ELSE Curve!IsBuyDelta(q, o, budget, delta)

\* No way of slicing a trade beats the curve: selling back returns at most
\* what was paid, two buys cost at least as much as one and two sells return
\* at most as much as one.
SlicingNeverProfits ==
  \A o \in Outcomes : \A d \in Room(q, o) \ {0} :
    LET paid == Curve!buy_cost(q, o, d)
        there == Curve!Plus(q, o, d)
    IN /\ Curve!sell_refund(there, o, d) <= paid
       /\ \A e \in 1..(d - 1) :
            Curve!sell_refund(there, o, e)
              + Curve!sell_refund(Curve!Minus(there, o, e), o, d - e)
              <= Curve!sell_refund(there, o, d)
       /\ \A e \in Room(there, o) \ {0} :
            Curve!buy_cost(q, o, d + e)
              <= paid + Curve!buy_cost(there, o, e)

\* Complete sets at face value open no arbitrage against the curve: buying d
\* of each outcome costs at least d, selling d of each returns at most d.
NoSetArbitrage ==
  \A d \in 1..Q_MAX : (\A o \in Outcomes : q[o] + d <= Q_MAX) =>
    LET q1 == Curve!Plus(q, 0, d)
        q2 == Curve!Plus(q1, 1, d)
        q3 == Curve!Plus(q2, 2, d)
    IN /\ Curve!buy_cost(q, 0, d) + Curve!buy_cost(q1, 1, d)
            + Curve!buy_cost(q2, 2, d) >= d
       /\ Curve!sell_refund(q3, 2, d) + Curve!sell_refund(q2, 1, d)
            + Curve!sell_refund(q1, 0, d) <= d
=============================================================================
