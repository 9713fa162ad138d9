----------------------------- MODULE GrowthEngine -----------------------------
(***************************************************************************)
(* The growth engine (internal/growth/growth.go): six compound rates, the  *)
(* normalised rate with its confidence, its source and its two flags.      *)
(*                                                                         *)
(* A rate is in tenths of a per cent, computed from whole per cents.       *)
(***************************************************************************)
EXTENDS FiscalFacts

CagrFloor == -60    \* bounds: the compound rates that the model tells apart, in %
CagrCeiling == 70

DefaultGrowthConfig ==
    [primary |-> 3, fallback |-> 5, weightEps |-> 5, weightFcf |-> 5,
     discrepancy |-> 100, min |-> -100, max |-> 250]

(***************************************************************************)
(* The compound rates.                                                     *)
(***************************************************************************)
\* What 10000 become in three and in five years at r per cent: a table, since it
\* is read again and again.
Compounded == [years \in {3, 5} |->
                 [r \in CagrFloor..CagrCeiling |->
                    LET after[n \in 0..years] ==
                           IF n = 0 THEN 10000 ELSE (after[n - 1] * (100 + r)) \div 100
                    IN  after[years]]]

\* CAGR: no rate between amounts that are not positive.
CAGR(initial, final, years) ==
    IF initial <= 0 \/ final <= 0 THEN None
    ELSE LET total == (10000 * final) \div initial
             after == Compounded[years]
         IN  CASE total < after[CagrFloor]    -> 10 * CagrFloor
               [] total >= after[CagrCeiling] -> 10 * CagrCeiling
               [] OTHER -> 10 * (CHOOSE r \in CagrFloor..(CagrCeiling - 1) :
                                   after[r] <= total /\ total < after[r + 1])

\* pick: the last points of the series, whatever years lie between them.
Pick(series, years) ==
    LET n == Len(series)
    IN  IF n < years + 1 THEN None
        ELSE CAGR(series[n - years].value, series[n].value, years)

(***************************************************************************)
(* The normalised rate.                                                    *)
(***************************************************************************)
Degrade(conf) == IF conf = "high" THEN "medium" ELSE "low"

\* blendOf: the weights renormalised over the series there are.
BlendOf(eps, fcf, cfg) ==
    LET wEps == IF eps = None THEN 0 ELSE cfg.weightEps
        wFcf == IF fcf = None THEN 0 ELSE cfg.weightFcf
        sum == (IF eps = None THEN 0 ELSE eps * wEps) + (IF fcf = None THEN 0 ELSE fcf * wFcf)
    IN  IF wEps + wFcf = 0 THEN None ELSE sum \div (wEps + wFcf)

Distance(a, b) == IF a > b THEN a - b ELSE b - a

\* applyBlend: the revenue controls the clamped rate, and any flag costs one
\* level of confidence, once.
ApplyBlend(res, blend, revenue, cfg) ==
    LET rate == IF blend < cfg.min THEN cfg.min ELSE IF blend > cfg.max THEN cfg.max ELSE blend
        clamped == rate # blend
        discrepancy == revenue # None /\ Distance(revenue, rate) > cfg.discrepancy
    IN  [res EXCEPT !.rate = rate, !.clamped = clamped, !.discrepancy = discrepancy,
                    !.conf = IF clamped \/ discrepancy THEN Degrade(@) ELSE @]

\* singleSource and the four outcomes of Calculate: the name of the evidence
\* and the confidence before the flags.
Evidence(eps3, fcf3, eps5, fcf5, rev3, rev5) ==
    CASE eps3 # None /\ fcf3 # None                   -> <<"eps_fcf_3y", "high">>
      [] eps3 # None /\ fcf3 = None                   -> <<"eps_3y", "medium">>
      [] eps3 = None /\ fcf3 # None                   -> <<"fcf_3y", "medium">>
      [] {eps3, fcf3} = {None} /\ eps5 # None /\ fcf5 # None -> <<"eps_fcf_5y", "medium">>
      [] {eps3, fcf3} = {None} /\ eps5 # None /\ fcf5 = None -> <<"eps_5y", "medium">>
      [] {eps3, fcf3} = {None} /\ eps5 = None /\ fcf5 # None -> <<"fcf_5y", "medium">>
      [] {eps3, fcf3, eps5, fcf5} = {None} /\ rev3 # None    -> <<"revenue_3y", "low">>
      [] {eps3, fcf3, eps5, fcf5, rev3} = {None} /\ rev5 # None -> <<"revenue_5y", "low">>
      [] OTHER                                        -> <<"insufficient_data", "low">>

\* growth.Calculate.
CalculateGrowth(in, cfg) ==
    LET eps3 == Pick(in.eps, cfg.primary)   eps5 == Pick(in.eps, cfg.fallback)
        fcf3 == Pick(in.fcf, cfg.primary)   fcf5 == Pick(in.fcf, cfg.fallback)
        rev3 == Pick(in.revenue, cfg.primary)
        rev5 == Pick(in.revenue, cfg.fallback)
        evidence == Evidence(eps3, fcf3, eps5, fcf5, rev3, rev5)
        res == [eps3 |-> eps3, eps5 |-> eps5, fcf3 |-> fcf3, fcf5 |-> fcf5, rev3 |-> rev3,
                rev5 |-> rev5, source |-> evidence[1], conf |-> evidence[2],
                rate |-> None, clamped |-> FALSE, discrepancy |-> FALSE]
    IN  CASE {eps3, fcf3} # {None} -> ApplyBlend(res, BlendOf(eps3, fcf3, cfg), rev3, cfg)
          [] {eps3, fcf3} = {None} /\ {eps5, fcf5} # {None} ->
                ApplyBlend(res, BlendOf(eps5, fcf5, cfg), rev5, cfg)
          [] OTHER -> [res EXCEPT !.rate = IF rev3 # None THEN rev3 ELSE rev5]

\* The series of runGrowthWaccOne: diluted earnings per share, else basic ones.
GrowthInputs(facts, asOf) ==
    LET s(concept) == Series(facts, concept, asOf)
    IN  [eps     |-> IF s("eps_diluted") # <<>> THEN s("eps_diluted") ELSE s("eps_basic"),
         fcf     |-> s("free_cash_flow"),
         revenue |-> s("revenues")]

=============================================================================
