---------------------------- MODULE RelativeEngine ----------------------------
(***************************************************************************)
(* The relative engine (internal/relative): nine metrics of a security     *)
(* against the medians of its sector and against its own.                  *)
(*                                                                         *)
(* A score is in hundredths of a point.                                    *)
(***************************************************************************)
EXTENDS DerivedMetrics

LowerIsBetter == {"pe_ratio", "pb_ratio", "p_fcf", "ev_ebitda", "ev_ebit", "net_debt_to_ebitda"}
HigherIsBetter == {"fcf_yield", "roe", "roic"}
Compared == LowerIsBetter \cup HigherIsBetter

\* advantage: the part of the median, 1/5, that is worth fifty points.
DefaultRelativeConfig ==
    [sector |-> 60, historical |-> 40, years |-> 5, minMetrics |-> 3, minSecurities |-> 5,
     advantage |-> 5]

\* The multiples compared as if they were returns.
LowerForNone(metric) == FALSE

Lower(metric) == metric \in LowerIsBetter

\* The metrics that a side compares: nothing is compared with, or by, a number
\* that is not positive.
Comparable(values, medians) == {m \in Compared : Positive(values[m]) /\ Positive(medians[m])}

\* relativeScore: the median is 50, a fifth better 100, a fifth worse 0.
RelativeScore(metric, value, median, cfg) ==
    LET better == cfg.advantage * (IF Lower(metric) THEN median - value ELSE value - median)
    IN  IF better >= median THEN 10000 ELSE IF better <= -median THEN 0
        ELSE 5000 + (5000 * better) \div median

\* sideScore: the mean of enough of them.
SideScore(values, medians, cfg) ==
    LET used == Comparable(values, medians)
        score(m) == RelativeScore(m, values[m], medians[m], cfg)
    IN  IF Cardinality(used) < cfg.minMetrics THEN None
        ELSE MapThenSumSet(score, used) \div Cardinality(used)

NoMedians == [m \in Compared |-> None]

\* confidenceFor and drop: one side alone costs a level.
RelativeConfidence(covered, sides) ==
    LET level == IF 10 * covered >= 8 * Cardinality(Compared) THEN 3
                 ELSE IF 3 * covered >= Cardinality(Compared) THEN 2 ELSE 1
        dropped == IF Cardinality(sides) = 2 THEN level ELSE Max({1, level - 1})
    IN  IF sides = {} THEN "low" ELSE <<"low", "medium", "high">>[dropped]

\* relative.Calculate.  A median of too few peers is discarded, not flagged.
CalculateRelative(in, cfg) ==
    LET medians == [sector     |-> IF in.sectorCount < cfg.minSecurities THEN NoMedians
                                   ELSE in.sectorMedian,
                    historical |-> in.historicalMedian]
        side == [s \in {"sector", "historical"} |-> SideScore(in.values, medians[s], cfg)]
        sides == {s \in {"sector", "historical"} : side[s] # None}
        covered == Cardinality({m \in Compared : in.values[m] # None})
    IN  [score |-> IF Cardinality(sides) = 2
                   THEN (side["sector"] * cfg.sector + side["historical"] * cfg.historical) \div 100
                   ELSE IF sides = {} THEN None ELSE side[CHOOSE s \in sides : TRUE],
         side |-> side, medians |-> medians, values |-> in.values,
         conf |-> RelativeConfidence(covered, sides)]

=============================================================================
