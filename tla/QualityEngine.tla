----------------------------- MODULE QualityEngine -----------------------------
(***************************************************************************)
(* The quality engine (internal/quality): seventeen metrics in five        *)
(* sub-blocks, their bands, the coverage and the confidence.               *)
(*                                                                         *)
(* A metric is its score in hundredths of a point, None when it has none:  *)
(* its value is only kept as long as the score needs it.  de_ratio, which  *)
(* has no score, is left out.                                              *)
(***************************************************************************)
EXTENDS DerivedMetrics

SubBlocks ==
    [profitability |-> {"roic", "roe"},
     growth        |-> {"fcf_cagr_3y", "fcf_cagr_5y", "eps_cagr_3y", "eps_cagr_5y",
                        "revenue_cagr_3y"},
     margins       |-> {"operating_margin", "fcf_margin", "fcf_yield"},
     stability     |-> {"positive_eps_years", "positive_fcf_years", "eps_volatility",
                        "fcf_volatility"},
     debt_solvency |-> {"net_debt_to_ebitda", "fcf_to_debt", "interest_coverage"}]

ApplicableMetrics == UNION {SubBlocks[b] : b \in DOMAIN SubBlocks}

QualityConcepts ==
    {"operating_income", "shareholders_equity", "total_debt", "cash_and_equivalents", "net_debt",
     "ebitda", "revenues", "free_cash_flow", "net_earnings", "shares_outstanding",
     "interest_expense"}

\* Weights in hundredths, gates of the coverage in per cent, ages in quarters.
DefaultQualityConfig ==
    [tax |-> 210, w |-> [b \in DOMAIN SubBlocks |-> 20], high |-> 85, medium |-> 60,
     minYears |-> 4, maxAge |-> 6]

(***************************************************************************)
(* The bands: ratios in thousandths, rates in tenths of a per cent,        *)
(* volatilities in per cent.                                               *)
(***************************************************************************)
Band(good, bad) == [good |-> good, bad |-> bad]

DefaultBands ==
    [roic |-> Band(300, 50), roe |-> Band(200, 50),
     operating_margin |-> Band(250, 50), fcf_margin |-> Band(200, 30), fcf_yield |-> Band(60, 10),
     fcf_cagr_3y |-> Band(100, -50), fcf_cagr_5y |-> Band(100, -50),
     eps_cagr_3y |-> Band(120, -50), eps_cagr_5y |-> Band(120, -50),
     revenue_cagr_3y |-> Band(100, 0),
     positive_eps_years |-> Band(1000, 500), positive_fcf_years |-> Band(1000, 500),
     eps_volatility |-> Band(10, 60), fcf_volatility |-> Band(15, 80),
     net_debt_to_ebitda |-> Band(1000, 4000), fcf_to_debt |-> Band(1000, 100),
     interest_coverage |-> Band(8000, 1000)]

\* Band.Score: linear from the bad cut to the good one, on either side of it.
BandScore(v, b) ==
    LET higher == b.good > b.bad
        distance == IF higher THEN v - b.bad ELSE b.bad - v
        width == IF higher THEN b.good - b.bad ELSE b.bad - b.good
    IN  IF distance <= 0 THEN 0 ELSE IF distance >= width THEN 10000
        ELSE (10000 * distance) \div width

(***************************************************************************)
(* The metrics that are not those of the derived metrics.                  *)
(***************************************************************************)
Or0(v) == IF v = None THEN 0 ELSE v

\* calcROIC: an unknown equity or cash weighs nothing, an unknown debt is none.
QualityRoic(f, tax) ==
    LET invested == Or0(f.shareholders_equity) + Or0(f.total_debt) - Or0(f.cash_and_equivalents)
    IN  IF None \in {f.operating_income, f.total_debt} \/ invested <= 0 THEN None
        ELSE (f.operating_income * (1000 - tax)) \div invested

\* cagrMetric: a rate of a growth that is not reliable has no score.
CagrMetric(rate, growthConf) == IF growthConf = "low" THEN None ELSE rate

\* countPositive: the share of the years, with enough of them.
PositiveShare(series, minYears) ==
    IF Len(series) < minYears THEN None ELSE (1000 * PositiveYears(series)) \div Len(series)

\* coefficientOfVariation: over the population.
QualityVolatility(series, minYears) == IF Len(series) < minYears THEN None ELSE Variation(series, 0)

\* calcInterestCoverage: the aligned pair, never a pair that has a reason.
QualityCoverage(f, aligned) ==
    CASE aligned.interestReason # "" -> None
      [] aligned.interestReason = "" /\ None \notin {aligned.interest, aligned.ebit} ->
            Ratio(aligned.ebit, aligned.interest, 1000)
      [] OTHER -> Ratio(f.operating_income, f.interest_expense, 1000)

\* computeAll.
QualityValues(in, tax, cfg) ==
    LET f == in.funds
        g == in.growth
        mc == MarketCap(in.price, f.shares_outstanding)
    IN  [roic               |-> QualityRoic(f, tax),
         roe                |-> Ratio(f.net_earnings, f.shareholders_equity, 1000),
         operating_margin   |-> Ratio(f.operating_income, f.revenues, 1000),
         fcf_margin         |-> Ratio(f.free_cash_flow, f.revenues, 1000),
         fcf_yield          |-> Ratio(f.free_cash_flow, mc, 1000),
         fcf_cagr_3y        |-> CagrMetric(g.fcf3, g.conf),
         fcf_cagr_5y        |-> CagrMetric(g.fcf5, g.conf),
         eps_cagr_3y        |-> CagrMetric(g.eps3, g.conf),
         eps_cagr_5y        |-> CagrMetric(g.eps5, g.conf),
         revenue_cagr_3y    |-> CagrMetric(g.rev3, g.conf),
         positive_eps_years |-> PositiveShare(in.epsSeries, cfg.minYears),
         positive_fcf_years |-> PositiveShare(in.fcfSeries, cfg.minYears),
         eps_volatility     |-> QualityVolatility(in.epsSeries, cfg.minYears),
         fcf_volatility     |-> QualityVolatility(in.fcfSeries, cfg.minYears),
         net_debt_to_ebitda |-> Ratio(f.net_debt, f.ebitda, 1000),
         fcf_to_debt        |-> Ratio(f.free_cash_flow, f.total_debt, 1000),
         interest_coverage  |-> QualityCoverage(f, in.aligned)]

(***************************************************************************)
(* The aggregate.                                                          *)
(***************************************************************************)
\* The mean of the bands of the metrics there are.
Mean(values, S) ==
    MapThenSumSet(LAMBDA m : BandScore(values[m], DefaultBands[m]), S) \div Cardinality(S)

\* The coverage over the metrics of the sub-blocks that have a score.
ApplicableToday(covered) ==
    UNION {SubBlocks[b] : b \in {c \in DOMAIN SubBlocks : SubBlocks[c] \cap covered # {}}}

\* The denominator does not depend on what there is today.
Applicable(covered) == ApplicableMetrics

\* confidenceFor: an assumed tax rate costs the high level.
QualityConfidence(covered, applicable, derived, cfg) ==
    CASE 100 * covered >= cfg.high * applicable /\ (derived \/ cfg.tax \notin 1..500) -> "high"
      [] 100 * covered >= cfg.high * applicable /\ ~(derived \/ cfg.tax \notin 1..500) -> "medium"
      [] /\ 100 * covered < cfg.high * applicable
         /\ 100 * covered >= cfg.medium * applicable -> "medium"
      [] OTHER -> "low"

\* quality.Calculate: the sub-blocks that could be computed, by their weights.
CalculateQuality(in, cfg) ==
    LET derived == in.taxRate # None
        tax == IF derived /\ in.taxRate \in 0..500 THEN in.taxRate ELSE cfg.tax
        values == QualityValues(in, tax, cfg)
        covered == {m \in ApplicableMetrics : values[m] # None}
        valid == {b \in DOMAIN SubBlocks : SubBlocks[b] \cap covered # {}}
        weight == MapThenSumSet(LAMBDA b : cfg.w[b], valid)
        weighted(b) == Mean(values, SubBlocks[b] \cap covered) * cfg.w[b]
    IN  [score |-> IF weight = 0 THEN None ELSE MapThenSumSet(weighted, valid) \div weight,
         conf  |-> IF weight = 0 THEN "low"
                   ELSE QualityConfidence(Cardinality(covered), Cardinality(Applicable(covered)),
                                          derived, cfg),
         covered |-> covered, derived |-> derived]

=============================================================================
