---------------------------- MODULE DerivedMetrics ----------------------------
(***************************************************************************)
(* The twenty derived metrics (internal/metrics), the revision that        *)
(* defines each one (internal/metricver), the table they are written to    *)
(* and the medians read from it (internal/storage).                        *)
(*                                                                         *)
(* Amounts are in millions, prices and earnings per share in cents, ratios *)
(* in thousandths, the tax rate in tenths of a per cent, the two           *)
(* volatilities in per cent.  A row is [asOf, metric, version, value].     *)
(***************************************************************************)
EXTENDS FiscalFacts

VolatilityCeiling == 200    \* bound: a coefficient of variation from here on is the same

Legacy == {"eps", "pe_ratio", "pb_ratio", "pcf_ratio", "peg_ratio", "roe", "de_ratio", "fcf_yield"}
Modern == {"roic", "operating_margin", "fcf_margin", "net_debt_to_ebitda", "interest_coverage",
           "fcf_to_debt", "positive_eps_years", "positive_fcf_years", "eps_volatility",
           "fcf_volatility", "ev_ebitda", "ev_ebit"}
Slugs == Legacy \cup Modern

\* DefiningVersion: the twelve metrics of 2.1.0 replaced those of 2.0.0.
DefiningVersion(metric) == IF metric \in Modern THEN "2.1.0" ELSE "1.0.0"

MetricConcepts ==
    {"net_earnings", "shares_outstanding", "shareholders_equity", "total_liabilities",
     "total_assets", "free_cash_flow", "operating_income", "revenues", "total_debt",
     "cash_and_equivalents", "ebitda", "interest_expense"}

(***************************************************************************)
(* The formulas.                                                           *)
(***************************************************************************)
\* calcRatio: nothing over a denominator that is not positive.
Ratio(num, den, scale) ==
    IF num = None \/ ~Positive(den) THEN None ELSE (scale * num) \div den

Difference(a, b) == IF a = None \/ b = None THEN None ELSE a - b

\* market_cap = price x shares, derived and never stored.
MarketCap(price, shares) ==
    IF Positive(price) /\ Positive(shares) THEN (price * shares) \div 100 ELSE None

\* DERatio: the liabilities, else the assets less the equity.
Liabilities(f) ==
    IF f.total_liabilities # None THEN f.total_liabilities
    ELSE Difference(f.total_assets, f.shareholders_equity)

\* CalcROIC: every input is required, the tax rate below 100 %.
Roic(f, tax) ==
    IF \E c \in {"operating_income", "shareholders_equity", "total_debt", "cash_and_equivalents"} :
         f[c] = None
       \/ tax \notin 0..999
    THEN None
    ELSE LET invested == f.shareholders_equity + f.total_debt - f.cash_and_equivalents
         IN  IF invested <= 0 THEN None ELSE (f.operating_income * (1000 - tax)) \div invested

\* CalcInterestCoverage: both positive.
InterestCoverage(op, interest) == IF Positive(op) THEN Ratio(op, interest, 1000) ELSE None

\* CalcPositiveYears.
PositiveYears(series) ==
    IF series = <<>> THEN None
    ELSE Cardinality({i \in DOMAIN series : series[i].value > 0})

\* The square root, as far as the ceiling.
Root(v) ==
    IF v >= VolatilityCeiling * VolatilityCeiling THEN VolatilityCeiling
    ELSE CHOOSE r \in 0..VolatilityCeiling : r * r <= v /\ v < (r + 1) * (r + 1)

\* The coefficient of variation over count - lost degrees of freedom: each
\* deviation in per cent of the mean.
Variation(series, lost) ==
    LET n == Len(series)
        sum == MapThenSumSet(LAMBDA i : series[i].value, DOMAIN series)
        size == IF sum < 0 THEN -sum ELSE sum
        deviation(i) == (100 * (n * series[i].value - sum)) \div size
        squares == MapThenSumSet(LAMBDA i : deviation(i) * deviation(i), DOMAIN series)
    IN  IF n <= lost \/ sum = 0 THEN None
        ELSE Root(squares \div (n - lost))

(***************************************************************************)
(* The two calculations.  tax and interest are those of the aligned year.  *)
(***************************************************************************)
\* CalculateMetrics: eight rows, with a value or without.
MetricsV1(f, price, growth) ==
    LET mc == MarketCap(price, f.shares_outstanding)
        eps == Ratio(f.net_earnings, f.shares_outstanding, 100)
        pe == IF price > 0 THEN Ratio(price, eps, 1000) ELSE None
    IN  [eps       |-> eps,
         pe_ratio  |-> pe,
         pb_ratio  |-> Ratio(mc, f.shareholders_equity, 1000),
         pcf_ratio |-> Ratio(mc, f.free_cash_flow, 1000),
         peg_ratio |-> IF Positive(pe) THEN Ratio(pe, growth, 10) ELSE None,
         roe       |-> Ratio(f.net_earnings, f.shareholders_equity, 1000),
         de_ratio  |-> IF Positive(f.shareholders_equity)
                       THEN Ratio(Liabilities(f), f.shareholders_equity, 1000) ELSE None,
         fcf_yield |-> Ratio(f.free_cash_flow, mc, 100000)]

\* CalculateMetricsV2.
MetricsV2(f, price, tax, interest, eps, fcf) ==
    LET mc == MarketCap(price, f.shares_outstanding)
        netDebt == Difference(f.total_debt, f.cash_and_equivalents)
        ev == IF mc = None \/ netDebt = None THEN None ELSE mc + netDebt
    IN  [roic               |-> Roic(f, tax),
         operating_margin   |-> Ratio(f.operating_income, f.revenues, 1000),
         fcf_margin         |-> Ratio(f.free_cash_flow, f.revenues, 1000),
         net_debt_to_ebitda |-> Ratio(netDebt, f.ebitda, 1000),
         fcf_to_debt        |-> Ratio(f.free_cash_flow, f.total_debt, 1000),
         ev_ebitda          |-> Ratio(ev, f.ebitda, 1000),
         ev_ebit            |-> Ratio(ev, f.operating_income, 1000),
         positive_eps_years |-> PositiveYears(eps),
         positive_fcf_years |-> PositiveYears(fcf),
         eps_volatility     |-> Variation(eps, 1),
         fcf_volatility     |-> Variation(fcf, 1),
         interest_coverage  |-> InterestCoverage(f.operating_income, interest)]

\* BuildDerivedMetrics and BuildDerivedMetricsV2: without a value the first
\* writes a NULL, the second no row, except for the interest coverage.
BuildDerivedMetrics(asOf, v1, v2) ==
    LET row(metric, value) ==
            [asOf |-> asOf, metric |-> metric, version |-> DefiningVersion(metric), value |-> value]
    IN  {row(s, v1[s]) : s \in Legacy}
          \cup {row(s, v2[s]) : s \in {m \in Modern : v2[m] # None \/ m = "interest_coverage"}}

(***************************************************************************)
(* The table.                                                              *)
(***************************************************************************)
\* UpsertDerivedMetrics: a row of the same key is replaced, no other one leaves.
UpsertDerivedMetrics(table, rows) ==
    LET key(r) == <<r.asOf, r.metric, r.version>>
        written == {key(r) : r \in rows}
    IN  {r \in table : key(r) \notin written} \cup rows

\* keepCurrentRevision.
KeepCurrentRevision(rows) == {r \in rows : r.version = DefiningVersion(r.metric)}

\* GetDerivedMetricsBySecurity: the current rows of a date, by slug.
MetricsAt(table, asOf) ==
    LET rows == KeepCurrentRevision({r \in table : r.asOf = asOf})
        value(R) == IF R = {} THEN None ELSE (CHOOSE r \in R : TRUE).value
    IN  [s \in Slugs |-> value({r \in rows : r.metric = s})]

\* percentile_cont over the values of each slug that has any.
Medians(rows) ==
    LET valued == {r \in rows : r.value # None}
        median(R) == IF R = {} THEN None ELSE MedianBy(R, LAMBDA r : r.value)
    IN  [s \in Slugs |-> median({r \in valued : r.metric = s})]

\* GetSectorComparables: the rows of every peer at every date, but the peers
\* that are active are those that count.
SectorComparables(peerRows, peers, active) ==
    [count   |-> Cardinality(peers \cap active),
     medians |-> Medians(KeepCurrentRevision({r \in peerRows : r.peer \in peers}))]

\* GetHistoricalMedianWithCount: a window that ends at the last row of the date
\* or before it.
HistoricalMedian(table, asOf, span) ==
    LET past == {r \in table : r.asOf <= asOf}
        end == Max({r.asOf : r \in past})
    IN  Medians(IF past = {} THEN {}
                ELSE {r \in KeepCurrentRevision(past) : r.asOf >= end - span})

=============================================================================
