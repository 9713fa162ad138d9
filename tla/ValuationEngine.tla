--------------------------- MODULE ValuationEngine ---------------------------
(***************************************************************************)
(* The valuation engine (internal/valuation): Graham and DCF in three      *)
(* scenarios, the guard of plausibility, the margin of safety, the         *)
(* components of the uncertainty and the confidence.                       *)
(*                                                                         *)
(* A rate is in tenths of a per cent, a price and a value per share in     *)
(* cents, an amount of a statement in millions; inside the DCF an amount   *)
(* is in thousands.  A reason is kept only where a rule reads it.          *)
(***************************************************************************)
EXTENDS FiscalFacts

Scenarios == {"bear", "base", "bull"}

DefaultValuationConfig ==
    [growthDelta |-> [bear |-> -40, base |-> 0, bull |-> 30],
     waccDelta   |-> [bear |-> 15, base |-> 0, bull |-> -10],
     termDelta   |-> [bear |-> -5, base |-> 0, bull |-> 5],
     terminal |-> 25, cap |-> 50, horizon |-> 5, normalize |-> TRUE,
     growthFallback |-> 70, waccFallback |-> 90, discountFallback |-> 100]

ClassRatio == 1500

(***************************************************************************)
(* Confidence.                                                             *)
(***************************************************************************)
Level(conf) == CASE conf = "low" -> 1 [] conf = "medium" -> 2 [] OTHER -> 3

\* cap: a ceiling can only lower the level; "" is no ceiling.
Capped(conf, ceiling) == IF ceiling # "" /\ Level(ceiling) < Level(conf) THEN ceiling ELSE conf

(***************************************************************************)
(* Normalisation of the inputs.                                            *)
(***************************************************************************)
\* NormalizeShareClass: the fundamentals are those of class A.
NormalizeShareClass(in) ==
    IF in.ticker # "BRK-B" THEN in
    ELSE [in EXCEPT !.eps = IF @ = None THEN None ELSE @ \div ClassRatio,
                    !.shares = IF @ = None THEN None ELSE @ * ClassRatio]

\* pairedMargins: thousandths of revenue, of the last five years in both series.
PairedMargins(in) ==
    LET revenueOf(end) == ValueAt(in.revenueSeries, end)
        paired == {i \in DOMAIN in.fcfSeries : Positive(revenueOf(in.fcfSeries[i].end))}
        kept == {i \in paired : Cardinality({j \in paired : j > i}) < 5}
    IN  [i \in kept |-> (1000 * in.fcfSeries[i].value) \div revenueOf(in.fcfSeries[i].end)]

\* normalizeFCF: a collapse of the margin below half of its median.  A flow that
\* is not positive is never brought back to health.
NormalizedFcf(in) ==
    LET revenue == IF in.revenueSeries = <<>> THEN None ELSE Last(in.revenueSeries).value
        margins == PairedMargins(in)
        median == MedianOf(margins)
    IN  IF /\ Positive(in.fcf) /\ Positive(revenue)
           /\ Cardinality(DOMAIN margins) >= 3
           /\ median > 0
           /\ 2000 * in.fcf < median * revenue
        THEN (median * revenue) \div 1000
        ELSE None

\* growthSignalsDiverge: opposite signs and more than 20 points apart.
GrowthSignalsDiverge(eps5, fcf5) ==
    /\ eps5 # None /\ fcf5 # None
    /\ (eps5 > 0 /\ fcf5 < 0) \/ (eps5 < 0 /\ fcf5 > 0)
    /\ IF eps5 > fcf5 THEN eps5 - fcf5 > 200 ELSE fcf5 - eps5 > 200

(***************************************************************************)
(* The two rates.                                                          *)
(***************************************************************************)
\* resolveGrowth.
ResolveGrowth(in, cfg) ==
    IF in.growth # None THEN [rate |-> in.growth, fallback |-> FALSE]
                        ELSE [rate |-> cfg.growthFallback, fallback |-> TRUE]

\* resolveDiscountRate: the source of the row wins over the number in it.
ResolveDiscountRate(in, cfg) ==
    LET rate(r, level) == [rate |-> r, level |-> level]
    IN  CASE in.waccSource = "configured_fallback" ->
                IF cfg.waccFallback > 0 THEN rate(cfg.waccFallback, 3) ELSE rate(None, 0)
          [] in.waccSource # "configured_fallback" /\ Positive(in.wacc) -> rate(in.wacc, 1)
          [] in.waccSource # "configured_fallback" /\ ~Positive(in.wacc) /\ Positive(in.ke) ->
                rate(in.ke, 2)
          [] OTHER -> IF cfg.waccFallback > 0 THEN rate(cfg.waccFallback, 3)
                      ELSE IF cfg.discountFallback > 0 THEN rate(cfg.discountFallback, 4)
                      ELSE rate(None, 0)

(***************************************************************************)
(* The methods.                                                            *)
(***************************************************************************)
NoValue == [s \in Scenarios |-> None]
Unavailable(reasons) == [value |-> NoValue, conf |-> "", reasons |-> reasons]
Valued(m) == {s \in Scenarios : m.value[s] # None}
Available(m) == Valued(m) # {}

\* grahamValue: EPS x (2g + 8.5), nothing outside of its domain.
GrahamValue(eps, g) ==
    IF 2 * g + 85 <= 0 THEN None
    ELSE LET v == (eps * (2 * g + 85)) \div 10 IN IF v > 0 THEN v ELSE None

\* CalcGrahamScenarios.
CalcGrahamScenarios(in, cfg, growth) ==
    LET value == [s \in Scenarios |-> GrahamValue(in.eps, growth.rate + cfg.growthDelta[s])]
    IN  IF ~Positive(in.eps) \/ value = NoValue THEN Unavailable({})
        ELSE [value |-> value, conf |-> IF growth.fallback THEN "" ELSE in.growthConf,
              reasons |-> {}]

\* growthTransition: from the growth, at most cap over the terminal one, to the
\* terminal one, linearly.
GrowthPath(g, term, cfg) ==
    LET anchor == IF g > term + cfg.cap THEN term + cfg.cap ELSE g
    IN  [t \in 1..cfg.horizon |->
            anchor + ((term - anchor) * (t - 1)) \div (cfg.horizon - 1)]

\* dcfValue: the flows of the path and the perpetuity, discounted, less the net
\* debt, by share.
DcfValue(in, path, w, term) ==
    LET years == Len(path)
        flow[t \in 0..years] == IF t = 0 THEN 1000 * in.fcf
                                ELSE (flow[t - 1] * (1000 + path[t])) \div (1000 + w)
        explicit == MapThenSumSet(LAMBDA t : flow[t], 1..years)
        perpetuity == ((flow[years] \div 10) * (1000 + term)) \div (w - term)
        equity == explicit + 10 * perpetuity - 1000 * (IF in.netDebt = None THEN 0 ELSE in.netDebt)
        value == equity \div (10 * in.shares)
    IN  IF equity > 0 /\ value > 0 THEN value ELSE None

\* The spreads of the rate on the wrong side of it.
ScenarioRateSwapped(rate, cfg, s) == rate.rate - cfg.waccDelta[s]

ScenarioRate(rate, cfg, s) == rate.rate + cfg.waccDelta[s]

\* CalcDCFScenarios: a scenario whose rate is not above its terminal growth is
\* dropped, no other rate is tried.
CalcDcfScenarios(in, cfg, growth, rate) ==
    LET w(s) == ScenarioRate(rate, cfg, s)
        term(s) == cfg.terminal + cfg.termDelta[s]
        path(s) == GrowthPath(growth.rate + cfg.growthDelta[s], term(s), cfg)
        value == [s \in Scenarios |->
                    IF w(s) <= term(s) THEN None ELSE DcfValue(in, path(s), w(s), term(s))]
        reasons == IF in.netDebt = None THEN {"net_debt_unknown"} ELSE {}
    IN  IF ~Positive(in.fcf) \/ ~Positive(in.shares) \/ rate.level = 0 THEN Unavailable({})
        ELSE IF value = NoValue THEN Unavailable(reasons)
        ELSE [value |-> value, reasons |-> reasons,
              conf |-> IF rate.level # 1 THEN in.growthConf
                       ELSE IF in.growthConf = "" THEN in.waccConf
                       ELSE Capped(in.growthConf, in.waccConf)]

(***************************************************************************)
(* The guard, the margins and the uncertainty.                             *)
(***************************************************************************)
\* calcMOS, in tenths of a per cent.
CalcMos(value, price) ==
    IF ~Positive(value) \/ price <= 0 THEN None
    ELSE 1000 - (1000 * price) \div value

\* checkPlausibility: P/E below 1, FCF yield above 100 %, margin above 95 %,
\* value above 20 times the price.  A missing datum is not a mismatch.
Implausible(in, m, onEarnings) ==
    LET base == m.value["base"]
    IN  \/ onEarnings /\ Positive(in.eps) /\ in.price < in.eps
        \/ ~onEarnings /\ Positive(in.fcf) /\ Positive(in.shares)
                       /\ 100 * in.fcf > in.price * in.shares
        \/ base # None /\ CalcMos(base, in.price) > 950
        \/ base # None /\ base > 20 * in.price

\* A guard that keeps the scenarios other than the base.
WithdrawnBase(in, m, onEarnings) ==
    IF Implausible(in, m, onEarnings)
    THEN [m EXCEPT !.value["base"] = None, !.reasons = @ \cup {"unit_mismatch"}] ELSE m

\* applyPlausibility: the method is withdrawn, never clipped.
ApplyPlausibility(in, m, onEarnings) ==
    IF Implausible(in, m, onEarnings)
    THEN Unavailable(m.reasons \cup {"unit_mismatch"}) ELSE m

\* CalcMOS.
Margins(in, graham, dcf) ==
    [graham |-> CalcMos(graham.value["base"], in.price),
     dcf    |-> [s \in Scenarios |-> CalcMos(dcf.value[s], in.price)]]

\* CalcUncertainty: how many values there are to disperse.
Components(graham, dcf) ==
    Cardinality(Valued(dcf)) + (IF graham.value["base"] = None THEN 0 ELSE 1)

\* The ceilings of CalcConfidence; "" is none.
RateCeiling(in, rate) ==
    CASE rate.level \in {0, 3, 4} -> "low" [] rate.level = 2 -> "medium" [] OTHER -> in.waccConf

Ceilings(in, graham, dcf, rate, fallback) ==
    {IF fallback THEN "low" ELSE in.growthConf,
     RateCeiling(in, rate),
     IF rate.level = 1 /\ ~in.betaObserved /\ in.waccSource = "capm_hybrid" THEN "medium" ELSE "",
     IF "net_debt_unknown" \in dcf.reasons THEN "medium" ELSE "",
     IF \E m \in {graham, dcf} : Cardinality(Valued(m)) \in {1, 2} THEN "medium" ELSE "",
     IF Components(graham, dcf) < 2 THEN "medium" ELSE ""}

\* CalcConfidence: every rule can only lower the level.
CalcConfidence(in, graham, dcf, rate, fallback) ==
    LET ceilings == Ceilings(in, graham, dcf, rate, fallback)
    IN  IF (~Available(graham) /\ ~Available(dcf)) \/ "low" \in ceilings THEN "low"
        ELSE IF ceilings \subseteq {"", "high"} THEN "high" ELSE "medium"

(***************************************************************************)
(* The engine.                                                             *)
(***************************************************************************)
\* CalcPEG: both ratios in tenths, None without what they need.
PFcf(in) ==
    IF Positive(in.shares) /\ Positive(in.fcf)
    THEN (in.price * in.shares) \div (10 * in.fcf) ELSE None

\* The inputs with the normalised flow in place of the stored one.
RecordedNormalized(in, dcfIn) == dcfIn

\* The inputs of the result: those of the class of the price, with the
\* confidence of the signals and the flow as it was read.
Recorded(in, dcfIn) == in

\* valuation.Calculate from the rates on.
Outcome(in, normalized, diverge, cfg) ==
    LET applied == normalized # None
        dcfIn == IF applied THEN [in EXCEPT !.fcf = normalized] ELSE in
        growth == ResolveGrowth(in, cfg)
        rate == ResolveDiscountRate(in, cfg)
        dcf0 == CalcDcfScenarios(dcfIn, cfg, growth, rate)
        dcf1 == IF applied THEN [dcf0 EXCEPT !.conf = Capped(IF @ = "" THEN "medium" ELSE @, "medium")]
                ELSE dcf0
        graham == ApplyPlausibility(dcfIn, CalcGrahamScenarios(in, cfg, growth), TRUE)
        dcf == ApplyPlausibility(dcfIn, dcf1, FALSE)
        conf == CalcConfidence(in, graham, dcf, rate, growth.fallback)
    IN  [graham |-> graham, dcf |-> dcf, mos |-> Margins(in, graham, dcf),
         components |-> Components(graham, dcf),
         conf |-> IF applied THEN Capped(conf, "medium") ELSE conf,
         available |-> Available(graham) \/ Available(dcf),
         rate |-> rate, normalized |-> normalized, diverge |-> diverge,
         pFcf |-> PFcf(in), in |-> Recorded(in, dcfIn)]

\* valuation.Calculate: the class of the price, the flow of the DCF, and the
\* confidence of signals that diverge.
CalculateValuation(raw, cfg) ==
    LET classed == NormalizeShareClass(raw)
        diverge == GrowthSignalsDiverge(classed.eps5, classed.fcf5)
    IN  Outcome(IF diverge THEN [classed EXCEPT !.growthConf = "low"] ELSE classed,
                IF cfg.normalize THEN NormalizedFcf(classed) ELSE None, diverge, cfg)

\* PFcfFromSnapshot, in tenths: price by flow, and not market value by flow.
PFcfFromSnapshot(in) ==
    IF in.fcf = None \/ in.fcf = 0 THEN None
    ELSE IF in.fcf > 0 THEN in.price \div (10 * in.fcf) ELSE -(in.price \div (10 * (-in.fcf)))

=============================================================================
