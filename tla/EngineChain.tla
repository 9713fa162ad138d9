------------------------------ MODULE EngineChain ------------------------------
(***************************************************************************)
(* The engines in their chain: growth and WACC, valuation, derived         *)
(* metrics, and the score with the quality and the relative engine inside  *)
(* it, over the rows that each one leaves for the next                     *)
(* (internal/pipeline).                                                    *)
(*                                                                         *)
(* One security and its peers.  A stage is one step here and may run at    *)
(* any time, in any order: a job for one stage, a refresh that was         *)
(* interrupted, a day without one.  The steps inside a stage, and two of   *)
(* them at the same time, are those of AnalyticStages.  The configuration  *)
(* is the default one; parameter sets are the business of ScoreStore.      *)
(***************************************************************************)
EXTENDS CanonicalFacts, GrowthEngine, WaccEngine, ValuationEngine, QualityEngine, RelativeEngine

CONSTANTS Histories,        \* company |-> the payload that the first pass finds
          TickerOf,         \* company |-> its ticker
          BetaHistory,      \* the observations of beta that the first pass finds
          Arrivals,         \* arrival |-> what later comes for one company:
                            \* [company, facts: the rest of the payload, betas]
          BarDays,          \* the dates of the bars
          Closes,           \* the closes of a bar
          Peers, ActivePeers,
          PeerTables,       \* what the passes of the peers may have left: sets of
                            \* [peer, asOf, metric, version, value]
          OldRows,          \* the metric rows of older releases
          MinSecurities,    \* COMPARABLES_MIN_SECURITIES
          MaxEvents         \* bound: what happens outside of the engines

ASSUME NoneIsNoNumber == None \notin Int
ASSUME EventsAreCounted == MaxEvents \in Nat
ASSUME DaysAreDates == BarDays \subseteq Nat
ASSUME BetasAreDated ==
    \A b \in BetaHistory \cup UNION {Arrivals[x].betas : x \in DOMAIN Arrivals} :
        b.asOf \in Int /\ b.beta \in Int
ASSUME PayloadsAreFacts ==
    /\ \A c \in DOMAIN Histories : Histories[c] \in Seq(Facts)
    /\ IsFiniteSet(DOMAIN Arrivals)
    /\ \A x \in DOMAIN Arrivals : Arrivals[x].facts \in Seq(Facts)
ASSUME TablesAreNumbers ==
    /\ Closes \subseteq Int
    /\ IsFiniteSet(OldRows) /\ \A r \in OldRows : r.value \in Int \cup {None}
    /\ \A rows \in PeerTables : IsFiniteSet(rows) /\ \A r \in rows : r.value \in Int \cup {None}

VARIABLES company,
          arrived,              \* what came after the histories, beta_history with it
          fundamentals,         \* its rows, by concept
          day, close,           \* daily_prices: the last bar
          growths, waccs,       \* growth_metrics, wacc_metrics
          valuations,           \* valuation_results
          metrics,              \* derived_metrics
          scores,               \* scores: the row written last, since no stage reads another
          events

world == <<company, arrived, fundamentals, day, close, events>>
vars == <<world, growths, waccs, valuations, metrics, scores>>

Score == INSTANCE ScoreEngine WITH NoSet <- None

BetaMaxAge == 2             \* DefaultBetaMaxAgeDays, in quarters
FYMaxAge == DefaultQualityConfig.maxAge

AlignedConcepts == {"operating_income", "interest_expense", "income_tax_expense", "pretax_income"}
ValuationConcepts ==
    {"net_earnings", "shares_outstanding", "free_cash_flow", "operating_cash_flow", "capex",
     "cash_and_equivalents", "total_debt"}

Concepts == AlignedConcepts \cup ValuationConcepts \cup MetricConcepts \cup QualityConcepts
              \cup {"eps_diluted", "eps_basic"}

\* What the upserts of a normalisation leave: a payload has all the keys of the
\* one before it, and each row is written again.
RowsOf(A) ==
    LET later == SetToSeq(A)
        rows == Canonicalize(Histories[company] \o FlattenSeq([i \in DOMAIN later |->
                                                              Arrivals[later[i]].facts]))
    IN  [concept \in Concepts |-> BuildFundamentals(rows, concept)]

Betas == BetaHistory \cup UNION {Arrivals[x].betas : x \in arrived}

(***************************************************************************)
(* Rows.                                                                   *)
(***************************************************************************)
\* An insert that meets no conflict.
PutBeside(table, row) == table \cup {row}

\* An upsert by date.
Put(table, row) == {r \in table : r.asOf # row.asOf} \cup {row}

RowAt(table, asOf) ==
    IF \E r \in table : r.asOf = asOf THEN CHOOSE r \in table : r.asOf = asOf ELSE None

\* The rows that ORDER BY as_of DESC LIMIT 1 may return.
LastOf(table) == {r \in table : \A q \in table : q.asOf <= r.asOf}
LastRow(table) == IF LastOf(table) = {} THEN None ELSE CHOOSE r \in LastOf(table) : TRUE

\* GetGrowthMetricAsOf; GetLatestGrowthMetric and GetLatestWaccMetric have no bound.
AsOf(table, asOf) == LastRow({r \in table : r.asOf <= asOf})

\* GetBetaAsOf: the last observation of the date or before it, unless it is old.
BetaAsOf(asOf) ==
    LET obs == AsOf(Betas, asOf)
    IN  IF obs = None THEN None ELSE IF asOf - obs.asOf > BetaMaxAge THEN None ELSE obs.beta

Aligned(asOf) ==
    AlignedFYFacts([c \in AlignedConcepts |-> Series(fundamentals, c, asOf)], asOf, FYMaxAge)

(***************************************************************************)
(* Growth and WACC: both rows or none.                                     *)
(***************************************************************************)
GrowthRow(asOf) ==
    LET in == GrowthInputs(fundamentals, asOf)
    IN  [asOf |-> asOf, in |-> in, res |-> CalculateGrowth(in, DefaultGrowthConfig)]

WaccRow(asOf, price) ==
    LET in == WaccInputs(fundamentals, price, BetaAsOf(asOf), asOf, FYMaxAge)
    IN  [asOf |-> asOf, in |-> in, res |-> CalculateWacc(in, DefaultWaccConfig)]

GrowthWacc ==
    /\ growths' = Put(growths, GrowthRow(day))
    /\ waccs' = Put(waccs, WaccRow(day, close))
    /\ UNCHANGED <<world, valuations, metrics, scores>>

(***************************************************************************)
(* Valuation: over the last rows of the two engines, whatever their date.  *)
(***************************************************************************)
\* What a row of growth and a row of WACC give to the inputs; "" of a confidence
\* or a source is that of no row.
WithRows(in, g, w) ==
    [in EXCEPT !.growth       = IF g = None THEN None ELSE g.rate,
               !.growthConf   = IF g = None THEN "" ELSE g.conf,
               !.wacc         = IF w = None THEN None ELSE w.wacc,
               !.ke           = IF w = None THEN None ELSE w.ke,
               !.waccSource   = IF w = None THEN "" ELSE w.source,
               !.waccConf     = IF w = None THEN "" ELSE w.conf,
               !.betaObserved = w # None /\ w.betaObserved]

ResultOf(row) == IF row = None THEN None ELSE row.res

ValuationInputs(asOf, price) ==
    LET funds == Fundamentals(fundamentals, ValuationConcepts, asOf)
        facts == DeriveFacts(funds)
        g == ResultOf(LastRow(growths))
    IN  WithRows([ticker |-> TickerOf[company], price |-> price, eps |-> facts.eps,
                  fcf |-> facts.fcf, netDebt |-> facts.netDebt,
                  shares |-> funds.shares_outstanding,
                  fcfSeries |-> Series(fundamentals, "free_cash_flow", asOf),
                  revenueSeries |-> Series(fundamentals, "revenues", asOf),
                  eps5 |-> IF g = None THEN None ELSE g.eps5,
                  fcf5 |-> IF g = None THEN None ELSE g.fcf5,
                  growth |-> None, growthConf |-> "", wacc |-> None, ke |-> None,
                  waccSource |-> "", waccConf |-> "", betaObserved |-> FALSE],
                 g, ResultOf(LastRow(waccs)))

ValuationRow(asOf, price) ==
    [asOf |-> asOf,
     res  |-> CalculateValuation(ValuationInputs(asOf, price), DefaultValuationConfig)]

\* runValuationOne: no valuation, no row; the one of an earlier pass stays.
Valuation ==
    LET row == ValuationRow(day, close)
    IN  /\ row.res.available
        /\ valuations' = Put(valuations, row)
        /\ UNCHANGED <<world, growths, waccs, metrics, scores>>

(***************************************************************************)
(* Derived metrics.                                                        *)
(***************************************************************************)
\* runMetricsJob for one security: the interest is the last one, unless the
\* alignment has a reason against it.
MetricRows(asOf, price) ==
    LET f == Fundamentals(fundamentals, MetricConcepts, asOf)
        g == ResultOf(AsOf(growths, asOf))
        aligned == Aligned(asOf)
        observed == AlignedTaxRate(aligned).rate
        interest == IF aligned.interestReason = "" THEN f.interest_expense ELSE None
    IN  BuildDerivedMetrics(asOf,
            MetricsV1(f, price, IF g = None THEN None ELSE g.rate),
            MetricsV2(f, price, IF observed = None THEN 210 ELSE observed, interest,
                      Series(fundamentals, "eps_diluted", asOf),
                      Series(fundamentals, "free_cash_flow", asOf)))

Metrics ==
    /\ metrics' = UpsertDerivedMetrics(metrics, MetricRows(day, close))
    /\ UNCHANGED <<world, growths, waccs, valuations, scores>>

(***************************************************************************)
(* Scores, with quality and relative inside.                               *)
(***************************************************************************)
NoGrowth == [fcf3 |-> None, fcf5 |-> None, eps3 |-> None, eps5 |-> None, rev3 |-> None, conf |-> ""]

\* ComputeQualityStage.
Quality(asOf, price) ==
    LET g == ResultOf(AsOf(growths, asOf))
        aligned == Aligned(asOf)
    IN  CalculateQuality(
            [funds |-> Fundamentals(fundamentals, QualityConcepts, asOf),
             growth |-> IF g = None THEN NoGrowth ELSE g,
             epsSeries |-> Series(fundamentals, "eps_diluted", asOf),
             fcfSeries |-> Series(fundamentals, "free_cash_flow", asOf),
             price |-> price, aligned |-> aligned, taxRate |-> AlignedTaxRate(aligned).rate],
            DefaultQualityConfig)

\* ComputeRelativeStage: the P/FCF is that of the snapshot of the valuation,
\* and the medians of the tables have none to compare it with.
Relative(asOf, v, peerRows) ==
    LET own == MetricsAt(metrics, asOf)
        sector == SectorComparables(peerRows, Peers, ActivePeers)
        cfg == [DefaultRelativeConfig EXCEPT !.minSecurities = MinSecurities]
        historical == HistoricalMedian(metrics, asOf, 4 * cfg.years)
        compared(f) == [m \in Compared |-> IF m = "p_fcf" THEN None ELSE f[m]]
    IN  CalculateRelative(
            [values |-> [compared(own) EXCEPT !["p_fcf"] =
                            IF v = None THEN None ELSE PFcfFromSnapshot(v.in)],
             sectorCount |-> sector.count, sectorMedian |-> compared(sector.medians),
             historicalMedian |-> compared(historical)], cfg)

\* runOneScore over the results of the three engines: no valuation is None.
ScoreRow(v, q, r) ==
    LET in == [graham |-> IF v = None THEN None ELSE v.graham.value["base"],
               dcf |-> IF v = None THEN None ELSE v.dcf.value["base"],
               quality |-> q.score, relative |-> r.score,
               market |-> [sma |-> None, m6 |-> None, m12 |-> None]]
    IN  [asOf |-> day, price |-> close, in |-> in, quality |-> q, relative |-> r,
         res |-> Score!CalculateScore21(in, close, Score!DefaultModelConfig.mos,
                                        Score!DefaultModelConfig.w)]

\* The valuation is that of the very date, or none.
Scores ==
    LET v == ResultOf(RowAt(valuations, day))
        q == Quality(day, close)
    IN  /\ \E rows \in PeerTables : scores' = {ScoreRow(v, q, Relative(day, v, rows))}
        /\ UNCHANGED <<world, growths, waccs, valuations, metrics>>

(***************************************************************************)
(* The world outside.                                                      *)
(***************************************************************************)
Happens == events < MaxEvents /\ events' = events + 1
Rows == <<growths, waccs, valuations, metrics, scores>>

\* A fact arrives when it has been filed, an observation when it was made.
ArrivesBy(x, date) ==
    /\ Arrivals[x].company = company
    /\ x \notin arrived
    /\ \A i \in DOMAIN Arrivals[x].facts : Arrivals[x].facts[i].filed <= date
    /\ \A b \in Arrivals[x].betas : b.asOf <= date

\* The download of a later day: its bar at any close and, unless the ingest
\* fails, everything that is due by then.
NextBar ==
    /\ Happens
    /\ day' \in BarDays /\ day' > day
    /\ \A d \in BarDays : d > day => day' <= d
    /\ close' \in Closes
    /\ arrived' \in {arrived, arrived \cup {x \in DOMAIN Arrivals : ArrivesBy(x, day')}}
    /\ fundamentals' = RowsOf(arrived')
    /\ UNCHANGED <<company, Rows>>

\* Something arrives between two stages of a day.
Arrive(x) ==
    /\ Happens
    /\ ArrivesBy(x, day)
    /\ arrived' = arrived \cup {x}
    /\ fundamentals' = RowsOf(arrived')
    /\ UNCHANGED <<company, day, close, Rows>>

Init ==
    /\ company \in DOMAIN Histories
    /\ arrived = {}
    /\ fundamentals = RowsOf({})
    /\ day \in BarDays /\ \A d \in BarDays : day <= d
    /\ close \in Closes
    /\ growths = {} /\ waccs = {} /\ valuations = {} /\ scores = {}
    /\ metrics = OldRows
    /\ events = 0

Next ==
    \/ GrowthWacc \/ Valuation \/ Metrics \/ Scores
    \/ NextBar
    \/ \E x \in DOMAIN Arrivals : Arrive(x)

Spec == Init /\ [][Next]_vars

(***************************************************************************)
(* Properties.                                                             *)
(***************************************************************************)
Confidences == {"low", "medium", "high"}
Point(v) == v = None \/ v \in 0..10000

\* Type invariant: one row of a date in each table, and every confidence and
\* score in its range.
TypeOK ==
    /\ day \in BarDays /\ close \in Closes /\ events \in 0..MaxEvents
    /\ \A table \in {growths, waccs, valuations, scores} :
         \A r, q \in table : r.asOf \in BarDays /\ (r.asOf = q.asOf => r = q)
    /\ {r.asOf : r \in growths} = {r.asOf : r \in waccs}
    /\ \A r \in growths \cup waccs \cup valuations : r.res.conf \in Confidences
    /\ \A r \in scores :
         /\ Point(r.quality.score) /\ Point(r.relative.score)
         /\ r.quality.conf \in Confidences /\ r.relative.conf \in Confidences
         /\ r.res.score \in 0..100

\* A valuation that claims more than a low confidence is discounted at a rate
\* of the company, over a positive beta that was observed at most two quarters
\* before the date of that rate, and grows at a rate of earnings or flows that
\* agree (internal/wacc.Calculate, resolveDiscountRate, CalcConfidence).
ValuationIsEarned ==
    \A v \in valuations : v.res.conf # "low" =>
        /\ \E w \in waccs, b \in Betas :
             w.asOf <= v.asOf /\ b.beta > 0 /\ w.asOf - b.asOf \in 0..BetaMaxAge
        /\ v.res.rate.level \in {1, 2}
        /\ v.res.in.growth # None /\ v.res.in.growthConf # "low"

\* The scenarios of a method are in the order of their names, and a method of
\* Graham that has the worse one has the better one
\* (CalcGrahamScenarios, CalcDCFScenarios).
ScenariosAreOrdered ==
    \A v \in valuations, worse, better \in Scenarios :
        <<worse, better>> \in {<<"bear", "base">>, <<"base", "bull">>, <<"bear", "bull">>} =>
            /\ v.res.graham.value[worse] # None => v.res.graham.value[better] # None
            /\ \A m \in {v.res.graham, v.res.dcf} :
                 {worse, better} \subseteq Valued(m) => m.value[worse] <= m.value[better]

\* What replayFullChain computes for a valuation from the three snapshots of
\* its date.
Replayed(v, g, w) ==
    CalculateValuation(
        WithRows(v.res.in, CalculateGrowth(g.in, DefaultGrowthConfig),
                 CalculateWacc(w.in, DefaultWaccConfig)),
        DefaultValuationConfig)

SameRows(v, g, w) ==
    LET now == WithRows(v.res.in, g.res, w.res)
    IN  /\ [now EXCEPT !.growthConf = v.res.in.growthConf] = v.res.in
        /\ v.res.in.growthConf = now.growthConf \/ v.res.diverge

\* The snapshots of a date are enough to compute the valuation again: the rows
\* that it was computed from give the same scenarios, over the same flow, and the
\* same confidence
\* (valuation.SnapshotOf, replayFullChain).  Not so for BRK-B, whose shares
\* would be converted twice.
SnapshotReplays ==
    TickerOf[company] # "BRK-B" =>
        \A v \in valuations, g \in growths, w \in waccs :
            v.asOf = g.asOf /\ v.asOf = w.asOf /\ SameRows(v, g, w) =>
                LET r == Replayed(v, g, w)
                IN  /\ r.graham = v.res.graham /\ r.dcf = v.res.dcf
                    /\ r.mos = v.res.mos /\ r.conf = v.res.conf
                    /\ r.normalized = v.res.normalized

\* A method that was withdrawn for its units leaves nothing behind: no
\* scenario, no margin, no part in the uncertainty; and no score is given for
\* an intrinsic value of more than twenty times the price
\* (applyPlausibility, CalcMOS, CalcUncertainty).
WithdrawnIsNowhere ==
    /\ \A v \in valuations :
         /\ \A m \in {v.res.graham, v.res.dcf} : "unit_mismatch" \in m.reasons => ~Available(m)
         /\ "unit_mismatch" \in v.res.dcf.reasons =>
              v.res.mos.dcf = NoValue /\ v.res.components <= 1
    /\ \A s \in scores, m \in {"graham", "dcf"} : s.in[m] # None => ~(s.in[m] > 20 * s.price)

\* A security that is at least as good as the median in every metric that a
\* side compares has at least fifty points there, and at most fifty when it is
\* nowhere better (relativeScore, sideScore).
RightSideOfFifty ==
    \A s \in scores, name \in {"sector", "historical"} :
        LET r == s.relative
            used == Comparable(r.values, r.medians[name])
            asGood(m) == IF m \in LowerIsBetter THEN r.values[m] <= r.medians[name][m]
                                                ELSE r.values[m] >= r.medians[name][m]
            asBad(m) == IF m \in LowerIsBetter THEN r.values[m] >= r.medians[name][m]
                                               ELSE r.values[m] <= r.medians[name][m]
        IN  r.side[name] # None =>
                /\ (\A m \in used : asGood(m)) => r.side[name] >= 5000
                /\ (\A m \in used : asBad(m)) => r.side[name] <= 5000

\* What a payload says and what another one says never compete for one row.
Apart(payload, other) ==
    \A i \in DOMAIN payload, j \in DOMAIN other :
        Canonical(payload[i]) /\ Canonical(other[j]) =>
            <<payload[i].concept, PeriodKey(payload[i])>> # <<other[j].concept, PeriodKey(other[j])>>

\* No 10-K of a company is of the fiscal year of another one: what comes later
\* adds rows and replaces none.
NothingIsRefiled ==
    \A x \in DOMAIN Arrivals :
        /\ Apart(Histories[Arrivals[x].company], Arrivals[x].facts)
        /\ \A y \in DOMAIN Arrivals \ {x} :
             Arrivals[y].company = Arrivals[x].company => Apart(Arrivals[x].facts, Arrivals[y].facts)

Reported(concept, asOf) ==
    {f.end : f \in {g \in fundamentals[concept] : Annual(g) /\ Observable(g, asOf)}}

\* A quality of high confidence rests on a tax rate of one recent year, on four
\* years of flows and on four of diluted earnings per share, or six of the basic
\* ones, which only the growth engine reads in their place; of its sub-blocks only
\* the two metrics of the profitability may both be missing
\* (confidenceFor, taxRateSource, calcStability, runGrowthWaccOne).
HighQualityIsEvidenced ==
    \A s \in scores : s.quality.conf = "high" =>
        /\ \E end \in Reported("operating_income", s.asOf)
                        \cap Reported("income_tax_expense", s.asOf)
                        \cap Reported("pretax_income", s.asOf) : s.asOf - end <= FYMaxAge
        /\ Cardinality(Reported("free_cash_flow", s.asOf)) >= 4
        /\ \/ Cardinality(Reported("eps_diluted", s.asOf)) >= 4
           \/ Cardinality(Reported("eps_basic", s.asOf)) >= 6
        /\ \A b \in DOMAIN SubBlocks \ {"profitability"} : SubBlocks[b] \cap s.quality.covered # {}

\* The comment of isPostSplitReexpression: the earnings per share of a year are
\* those of the first 10-K that reported it, never the same rescaled by a split.
EpsHasOneSource ==
    \A g \in growths : \A i \in DOMAIN g.in.eps :
        LET point == g.in.eps[i]
            reported == {f \in fundamentals["eps_diluted"] :
                           f.end = point.end /\ Annual(f) /\ Observable(f, g.asOf)}
        IN  \A f \in reported : (\A h \in reported : f.filed <= h.filed) =>
                \A k \in 2..8 : f.value # k * point.value

=============================================================================
