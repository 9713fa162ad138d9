--------------------------- MODULE EngineChainProofs ---------------------------
(***************************************************************************)
(* What the chain of engines keeps for any company, any payload, any dates *)
(* and any order of the stages: what a confidence above low rests on, what *)
(* a withdrawn method leaves, what a snapshot computes again; which of the *)
(* facts that compete for a row survives; over the types of all that the   *)
(* tables hold, on which side of fifty a relative score is and in which    *)
(* order the scenarios are; and what a high quality rests on, and keeps.   *)
(***************************************************************************)
EXTENDS EngineChain, FiniteSetTheorems, FunctionTheorems, SequenceTheorems, WellFoundedInduction,
        TLAPS

LEMMA WaccNeedsBeta ==
    ASSUME NEW in, NEW cfg, CalculateWacc(in, cfg).source # "configured_fallback"
    PROVE  UsableBeta(in.beta)
<1> DEFINE beta == IF UsableBeta(in.beta) THEN in.beta ELSE cfg.beta
           ke == ObservedOr(in.riskFree, cfg.riskFree)
                   + (beta * ObservedOr(in.premium, cfg.premium)) \div 100
<1>1. HasCapm(in, ke)
  <2>1. ~HasCapm(in, ke) => CalculateWacc(in, cfg).source = "configured_fallback"
    BY DEF CalculateWacc
  <2> QED
    BY <2>1
<1> QED
  BY <1>1 DEF HasCapm

LEMMA CeilingsHold ==
    ASSUME NEW in, NEW graham, NEW dcf, NEW rate, NEW fallback,
           CalcConfidence(in, graham, dcf, rate, fallback) # "low"
    PROVE  /\ ~fallback
           /\ in.growthConf # "low"
           /\ rate.level \notin {0, 3, 4}
<1>1. "low" \notin Ceilings(in, graham, dcf, rate, fallback)
  BY DEF CalcConfidence
<1>2. /\ (IF fallback THEN "low" ELSE in.growthConf) # "low"
      /\ RateCeiling(in, rate) # "low"
  BY <1>1 DEF Ceilings
<1>3. rate.level \notin {0, 3, 4}
  BY <1>2 DEF RateCeiling
<1> QED
  BY <1>2, <1>3

\* The rate of a valuation and where it comes from.
LEMMA RateLevels ==
    ASSUME NEW in, NEW cfg, cfg.waccFallback > 0,
           ResolveDiscountRate(in, cfg).level \notin {0, 3, 4}
    PROVE  /\ ResolveDiscountRate(in, cfg).level \in {1, 2}
           /\ in.waccSource # "configured_fallback"
           /\ Positive(in.wacc) \/ Positive(in.ke)
<1>1. CASE in.waccSource = "configured_fallback"
  BY <1>1 DEF ResolveDiscountRate
<1>2. CASE in.waccSource # "configured_fallback" /\ Positive(in.wacc)
  BY <1>2 DEF ResolveDiscountRate
<1>3. CASE in.waccSource # "configured_fallback" /\ ~Positive(in.wacc) /\ Positive(in.ke)
  BY <1>3 DEF ResolveDiscountRate
<1>4. CASE in.waccSource # "configured_fallback" /\ ~Positive(in.wacc) /\ ~Positive(in.ke)
  BY <1>4 DEF ResolveDiscountRate
<1> QED
  BY <1>1, <1>2, <1>3, <1>4

\* The conversion of the share class changes two fields.
LEMMA ClassKeepsTheRest ==
    ASSUME NEW in, NEW f \in DOMAIN in, f \notin {"eps", "shares"}
    PROVE  NormalizeShareClass(in)[f] = in[f] /\ DOMAIN NormalizeShareClass(in) = DOMAIN in
BY DEF NormalizeShareClass

\* What Calculate gives no confidence above low without.
LEMMA ConfidenceNeedsRows ==
    ASSUME NEW raw, NEW cfg, cfg.waccFallback > 0,
           {"growth", "growthConf", "wacc", "ke", "waccSource"} \subseteq DOMAIN raw,
           CalculateValuation(raw, cfg).conf # "low"
    PROVE  LET v == CalculateValuation(raw, cfg)
           IN  /\ v.rate.level \in {1, 2}
               /\ v.in.growth # None /\ v.in.growthConf # "low"
               /\ raw.waccSource # "configured_fallback"
               /\ Positive(raw.wacc) \/ Positive(raw.ke)
<1> DEFINE classed == NormalizeShareClass(raw)
           normalized == IF cfg.normalize THEN NormalizedFcf(classed) ELSE None
           applied == normalized # None
           diverge == GrowthSignalsDiverge(classed.eps5, classed.fcf5)
           in == IF diverge THEN [classed EXCEPT !.growthConf = "low"] ELSE classed
           dcfIn == IF applied THEN [in EXCEPT !.fcf = normalized] ELSE in
           growth == ResolveGrowth(in, cfg)
           rate == ResolveDiscountRate(in, cfg)
           dcf0 == CalcDcfScenarios(dcfIn, cfg, growth, rate)
           dcf1 == IF applied
                   THEN [dcf0 EXCEPT !.conf = Capped(IF @ = "" THEN "medium" ELSE @, "medium")]
                   ELSE dcf0
           graham == ApplyPlausibility(dcfIn, CalcGrahamScenarios(in, cfg, growth), TRUE)
           dcf == ApplyPlausibility(dcfIn, dcf1, FALSE)
           conf == CalcConfidence(in, graham, dcf, rate, growth.fallback)
           v == CalculateValuation(raw, cfg)
<1>1. /\ v.conf = IF applied THEN Capped(conf, "medium") ELSE conf
      /\ v.rate = rate
      /\ v.in = in
  BY DEF CalculateValuation, Outcome, Recorded
<1>2. Capped("low", "medium") = "low"
  BY DEF Capped, Level
<1>3. conf # "low"
  BY <1>1, <1>2
<1>4. ~growth.fallback /\ in.growthConf # "low" /\ rate.level \notin {0, 3, 4}
  <2> HIDE DEF graham, dcf, rate, growth, in
  <2> QED
    BY <1>3, CeilingsHold
<1> HIDE DEF graham, dcf, rate, growth
<1>5. in.growth # None
  BY <1>4 DEF growth, ResolveGrowth
<1>6. /\ in.growth = raw.growth /\ in.wacc = raw.wacc
      /\ in.ke = raw.ke /\ in.waccSource = raw.waccSource
  <2>1. /\ classed.growth = raw.growth /\ classed.wacc = raw.wacc
        /\ classed.ke = raw.ke /\ classed.waccSource = raw.waccSource
    BY ClassKeepsTheRest
  <2>2. /\ "growth" \in DOMAIN classed /\ "wacc" \in DOMAIN classed
        /\ "ke" \in DOMAIN classed /\ "waccSource" \in DOMAIN classed
    BY ClassKeepsTheRest
  <2> HIDE DEF classed, diverge
  <2> QED
    BY <2>1, <2>2
<1>7. /\ rate.level \in {1, 2}
      /\ in.waccSource # "configured_fallback"
      /\ Positive(in.wacc) \/ Positive(in.ke)
  BY <1>4, RateLevels DEF rate
<1> QED
  BY <1>1, <1>4, <1>5, <1>6, <1>7

(***************************************************************************)
(* The invariant: what a row of WACC rests on is there as long as the row  *)
(* of a valuation that was computed from it.                               *)
(***************************************************************************)
Earned(w) ==
    \E b \in Betas : b.beta > 0 /\ w.asOf - b.asOf \in 0..BetaMaxAge

Inv ==
    /\ day \in Nat
    /\ arrived \subseteq DOMAIN Arrivals
    /\ \A w \in waccs : w.asOf \in Nat /\ w.asOf <= day
    /\ \A w \in waccs : w.res.source # "configured_fallback" => Earned(w)
    /\ ValuationIsEarned

LEMMA BetaIsRecent ==
    ASSUME NEW asOf \in Nat, arrived \subseteq DOMAIN Arrivals, UsableBeta(BetaAsOf(asOf))
    PROVE  \E b \in Betas : b.beta > 0 /\ asOf - b.asOf \in 0..BetaMaxAge
<1> DEFINE past == {b \in Betas : b.asOf <= asOf}
           obs == LastRow(past)
<1>1. obs # None /\ ~(asOf - obs.asOf > BetaMaxAge) /\ BetaAsOf(asOf) = obs.beta
  BY DEF UsableBeta, Positive, BetaAsOf, AsOf
<1>2. obs \in past
  <2>1. LastOf(past) # {} /\ obs \in LastOf(past)
    BY <1>1 DEF LastRow
  <2> QED
    BY <2>1 DEF LastOf
<1>3. obs.asOf \in Int /\ obs.beta \in Int
  BY <1>2, BetasAreDated DEF Betas
<1>4. obs.beta > 0
  BY <1>1 DEF UsableBeta, Positive
<1>5. asOf - obs.asOf \in 0..BetaMaxAge
  BY <1>1, <1>2, <1>3 DEF BetaMaxAge
<1> QED
  BY <1>2, <1>4, <1>5

\* The observations of beta only grow.
LEMMA BetasStay ==
    ASSUME Next
    PROVE  Betas \subseteq Betas' /\ (arrived \subseteq DOMAIN Arrivals => arrived' \subseteq DOMAIN Arrivals)
<1>1. arrived \subseteq arrived' /\ (arrived \subseteq DOMAIN Arrivals => arrived' \subseteq DOMAIN Arrivals)
  BY DEF Next, GrowthWacc, Valuation, Metrics, Scores, NextBar, Arrive, world
<1> QED
  BY <1>1 DEF Betas

\* A step that leaves the valuations alone keeps a row of WACC for each date.
LEMMA EarnedStays ==
    ASSUME ValuationIsEarned, Betas \subseteq Betas', valuations' = valuations,
           \A w \in waccs : \E u \in waccs' : u.asOf = w.asOf
    PROVE  ValuationIsEarned'
<1> SUFFICES ASSUME NEW v \in valuations, v.res.conf # "low"
             PROVE  /\ \E w \in waccs', b \in Betas' :
                         w.asOf <= v.asOf /\ b.beta > 0 /\ w.asOf - b.asOf \in 0..BetaMaxAge
                    /\ v.res.rate.level \in {1, 2}
                    /\ v.res.in.growth # None /\ v.res.in.growthConf # "low"
  BY DEF ValuationIsEarned, BetaMaxAge
<1>1. PICK w \in waccs, b \in Betas :
         w.asOf <= v.asOf /\ b.beta > 0 /\ w.asOf - b.asOf \in 0..BetaMaxAge
  BY DEF ValuationIsEarned
<1>2. PICK u \in waccs' : u.asOf = w.asOf
  OBVIOUS
<1>3. v.res.rate.level \in {1, 2} /\ v.res.in.growth # None /\ v.res.in.growthConf # "low"
  BY DEF ValuationIsEarned
<1> QED
  BY <1>1, <1>2, <1>3

LEMMA InitInv == Init => Inv
<1> SUFFICES ASSUME Init PROVE Inv
  OBVIOUS
<1>1. day \in Nat
  BY DaysAreDates DEF Init
<1> QED
  BY <1>1 DEF Init, Inv, ValuationIsEarned

\* The stage that writes the rows of WACC.
LEMMA GrowthWaccInv ==
    ASSUME Inv, Next, GrowthWacc
    PROVE  Inv'
<1> DEFINE new == WaccRow(day, close)
<1>1. /\ day' = day /\ arrived' = arrived /\ valuations' = valuations
      /\ waccs' = {w \in waccs : w.asOf # new.asOf} \cup {new}
  BY DEF GrowthWacc, Put, world
<1>2. Betas' = Betas
  BY <1>1 DEF Betas
<1>3. new.asOf = day
  BY DEF WaccRow
<1>4. new.res.source # "configured_fallback" => Earned(new)
  <2> SUFFICES ASSUME new.res.source # "configured_fallback" PROVE Earned(new)
    OBVIOUS
  <2> DEFINE in == WaccInputs(fundamentals, close, BetaAsOf(day), day, FYMaxAge)
  <2>1. new.res = CalculateWacc(in, DefaultWaccConfig)
    BY DEF WaccRow
  <2>2. UsableBeta(in.beta)
    BY <2>1, WaccNeedsBeta
  <2>3. in.beta = BetaAsOf(day)
    BY DEF WaccInputs
  <2> QED
    BY <1>3, <2>2, <2>3, BetaIsRecent DEF Inv, Earned
<1> HIDE DEF new
<1>5. day' \in Nat /\ arrived' \subseteq DOMAIN Arrivals
  BY <1>1 DEF Inv
<1>6. \A w \in waccs' : w.asOf \in Nat /\ w.asOf <= day'
  BY <1>1, <1>3 DEF Inv
<1>7. \A w \in waccs' : w.res.source # "configured_fallback" => Earned(w)'
  BY <1>1, <1>2, <1>4 DEF Inv, Earned
<1>8. \A w \in waccs : \E u \in waccs' : u.asOf = w.asOf
  BY <1>1
<1>9. ValuationIsEarned'
  BY <1>1, <1>2, <1>8, EarnedStays DEF Inv
<1> QED
  BY <1>5, <1>6, <1>7, <1>9 DEF Inv

\* What the inputs of a valuation take from the row of WACC.
LEMMA InputsOfRows ==
    ASSUME NEW asOf, NEW price
    PROVE  LET in == ValuationInputs(asOf, price)
               w == ResultOf(LastRow(waccs))
           IN  /\ {"growth", "growthConf", "wacc", "ke", "waccSource"} \subseteq DOMAIN in
               /\ w = None => in.wacc = None /\ in.ke = None
               /\ w # None => in.waccSource = w.source
BY DEF ValuationInputs, WithRows

\* The stage that writes the rows of a valuation.
LEMMA ValuationInv ==
    ASSUME Inv, Next, Valuation
    PROVE  Inv'
<1> DEFINE new == ValuationRow(day, close)
           raw == ValuationInputs(day, close)
<1>1. /\ day' = day /\ arrived' = arrived /\ waccs' = waccs
      /\ valuations' = {v \in valuations : v.asOf # new.asOf} \cup {new}
  BY DEF Valuation, Put, world
<1>2. Betas' = Betas
  BY <1>1 DEF Betas
<1>3. new.asOf = day /\ new.res = CalculateValuation(raw, DefaultValuationConfig)
  BY DEF ValuationRow
<1>4. ASSUME new.res.conf # "low"
      PROVE  /\ \E w \in waccs, b \in Betas :
                   w.asOf <= new.asOf /\ b.beta > 0 /\ w.asOf - b.asOf \in 0..BetaMaxAge
             /\ new.res.rate.level \in {1, 2}
             /\ new.res.in.growth # None /\ new.res.in.growthConf # "low"
  <2> DEFINE row == LastRow(waccs)
  <2>1. DefaultValuationConfig.waccFallback > 0
    BY DEF DefaultValuationConfig
  <2>2. /\ new.res.rate.level \in {1, 2}
        /\ new.res.in.growth # None /\ new.res.in.growthConf # "low"
        /\ raw.waccSource # "configured_fallback"
        /\ Positive(raw.wacc) \/ Positive(raw.ke)
    <3> HIDE DEF raw, new
    <3>1. {"growth", "growthConf", "wacc", "ke", "waccSource"} \subseteq DOMAIN raw
      BY InputsOfRows DEF raw
    <3> QED
      BY <1>3, <1>4, <2>1, <3>1, ConfidenceNeedsRows
  <2>3. ResultOf(row) # None
    BY <2>2, InputsOfRows DEF Positive
  <2>4. row # None /\ ResultOf(row) = row.res
    BY <2>3 DEF ResultOf
  <2>5. row \in waccs
    <3>1. LastOf(waccs) # {} /\ row \in LastOf(waccs)
      BY <2>4 DEF LastRow
    <3> QED
      BY <3>1 DEF LastOf
  <2>6. row.res.source # "configured_fallback"
    BY <2>2, <2>3, <2>4, InputsOfRows
  <2>7. Earned(row) /\ row.asOf <= new.asOf
    BY <1>3, <2>5, <2>6 DEF Inv
  <2> QED
    BY <2>2, <2>5, <2>7 DEF Earned
<1> HIDE DEF new
<1>5. ValuationIsEarned'
  BY <1>1, <1>2, <1>4 DEF Inv, ValuationIsEarned, BetaMaxAge
<1> QED
  BY <1>1, <1>2, <1>5 DEF Inv, Earned

\* The bar of a later day, and what arrives, leave the rows alone.
LEMMA WorldInv ==
    ASSUME Inv, Next, NextBar \/ \E x \in DOMAIN Arrivals : Arrive(x)
    PROVE  Inv'
<1>1. waccs' = waccs /\ valuations' = valuations
  BY DEF NextBar, Arrive, Rows
<1>2. day' \in Nat /\ day' >= day
  <2>1. CASE NextBar
    BY <2>1, DaysAreDates DEF NextBar, Inv
  <2>2. CASE \E x \in DOMAIN Arrivals : Arrive(x)
    BY <2>2 DEF Arrive, Inv
  <2> QED
    BY <2>1, <2>2
<1>3. Betas \subseteq Betas' /\ arrived' \subseteq DOMAIN Arrivals
  BY BetasStay DEF Inv
<1>4. \A w \in waccs' : w.asOf \in Nat /\ w.asOf <= day'
  BY <1>1, <1>2 DEF Inv
<1>5. \A w \in waccs' : w.res.source # "configured_fallback" => Earned(w)'
  BY <1>1, <1>3 DEF Inv, Earned
<1>6. ValuationIsEarned'
  BY <1>1, <1>3, EarnedStays DEF Inv
<1> QED
  BY <1>2, <1>3, <1>4, <1>5, <1>6 DEF Inv

LEMMA NextInv ==
    ASSUME Inv, [Next]_vars
    PROVE  Inv'
<1>1. CASE GrowthWacc
  BY <1>1, GrowthWaccInv DEF Next
<1>2. CASE Valuation
  BY <1>2, ValuationInv DEF Next
<1>3. CASE Metrics \/ Scores
  BY <1>3 DEF Metrics, Scores, world, Inv, Earned, ValuationIsEarned, Betas
<1>4. CASE NextBar \/ \E x \in DOMAIN Arrivals : Arrive(x)
  BY <1>4, WorldInv DEF Next
<1>5. CASE UNCHANGED vars
  BY <1>5 DEF vars, world, Inv, Earned, ValuationIsEarned, Betas
<1> QED
  BY <1>1, <1>2, <1>3, <1>4, <1>5 DEF Next

\* A confidence above low is never more than the evidence: a recent positive
\* beta under the rate, and a growth of signals that agree, whatever is ingested
\* and whichever stages run, in any order (internal/wacc.Calculate,
\* internal/valuation.CalcConfidence).
THEOREM Earning == Spec => []ValuationIsEarned
<1>1. Spec => []Inv
  BY InitInv, NextInv, PTL DEF Spec
<1>2. Inv => ValuationIsEarned
  BY DEF Inv
<1> QED
  BY <1>1, <1>2, PTL

(***************************************************************************)
(* A withdrawn method.                                                     *)
(***************************************************************************)
\* What the guard leaves of a method that had no mismatch before.
LEMMA GuardWithdraws ==
    ASSUME NEW in, NEW m, NEW onEarnings, "unit_mismatch" \notin m.reasons
    PROVE  LET p == ApplyPlausibility(in, m, onEarnings)
           IN  /\ "unit_mismatch" \in p.reasons => p.value = NoValue
               /\ p.value["base"] # None => ~(p.value["base"] > 20 * in.price)
<1>1. CASE Implausible(in, m, onEarnings)
  <2>1. ApplyPlausibility(in, m, onEarnings).value = NoValue
    BY <1>1 DEF ApplyPlausibility, Unavailable
  <2>2. NoValue["base"] = None
    BY DEF NoValue, Scenarios
  <2> QED
    BY <2>1, <2>2
<1>2. CASE ~Implausible(in, m, onEarnings)
  <2>1. ApplyPlausibility(in, m, onEarnings) = m
    BY <1>2 DEF ApplyPlausibility
  <2>2. m.value["base"] # None => ~(m.value["base"] > 20 * in.price)
    BY <1>2 DEF Implausible
  <2> QED
    BY <2>1, <2>2
<1> QED
  BY <1>1, <1>2

LEMMA MethodsStartClean ==
    ASSUME NEW in, NEW cfg, NEW growth, NEW rate
    PROVE  /\ "unit_mismatch" \notin CalcGrahamScenarios(in, cfg, growth).reasons
           /\ "unit_mismatch" \notin CalcDcfScenarios(in, cfg, growth, rate).reasons
<1>1. "unit_mismatch" \notin CalcGrahamScenarios(in, cfg, growth).reasons
  BY DEF CalcGrahamScenarios, Unavailable
<1>2. "unit_mismatch" \notin CalcDcfScenarios(in, cfg, growth, rate).reasons
  BY DEF CalcDcfScenarios, Unavailable
<1> QED
  BY <1>1, <1>2

Withdrawn(v) ==
    /\ \A m \in {v.graham, v.dcf} : "unit_mismatch" \in m.reasons => ~Available(m)
    /\ "unit_mismatch" \in v.dcf.reasons => v.mos.dcf = NoValue /\ v.components <= 1

LEMMA CalculateWithdraws ==
    ASSUME NEW raw, NEW cfg, "price" \in DOMAIN raw
    PROVE  LET v == CalculateValuation(raw, cfg)
           IN  /\ Withdrawn(v)
               /\ \A m \in {v.graham, v.dcf} :
                    m.value["base"] # None => ~(m.value["base"] > 20 * raw.price)
<1> DEFINE classed == NormalizeShareClass(raw)
           normalized == IF cfg.normalize THEN NormalizedFcf(classed) ELSE None
           applied == normalized # None
           diverge == GrowthSignalsDiverge(classed.eps5, classed.fcf5)
           in == IF diverge THEN [classed EXCEPT !.growthConf = "low"] ELSE classed
           dcfIn == IF applied THEN [in EXCEPT !.fcf = normalized] ELSE in
           growth == ResolveGrowth(in, cfg)
           rate == ResolveDiscountRate(in, cfg)
           dcf0 == CalcDcfScenarios(dcfIn, cfg, growth, rate)
           dcf1 == IF applied
                   THEN [dcf0 EXCEPT !.conf = Capped(IF @ = "" THEN "medium" ELSE @, "medium")]
                   ELSE dcf0
           graham0 == CalcGrahamScenarios(in, cfg, growth)
           graham == ApplyPlausibility(dcfIn, graham0, TRUE)
           dcf == ApplyPlausibility(dcfIn, dcf1, FALSE)
           v == CalculateValuation(raw, cfg)
<1>1. /\ v.graham = graham /\ v.dcf = dcf
      /\ v.mos = Margins(in, graham, dcf)
      /\ v.components = Components(graham, dcf)
  BY DEF CalculateValuation, Outcome
<1>2. dcfIn.price = raw.price
  <2>1. classed.price = raw.price /\ "price" \in DOMAIN classed
    BY ClassKeepsTheRest
  <2> HIDE DEF classed, diverge, normalized
  <2>2. in.price = raw.price /\ "price" \in DOMAIN in
    BY <2>1
  <2> HIDE DEF in
  <2> QED
    BY <2>2
<1>3. "unit_mismatch" \notin graham0.reasons /\ "unit_mismatch" \notin dcf0.reasons
  BY MethodsStartClean
<1>4. "unit_mismatch" \notin dcf1.reasons
  <2> HIDE DEF dcf0, applied
  <2> QED
    BY <1>3
<1> HIDE DEF graham0, dcf1, dcfIn, in
<1>5. /\ "unit_mismatch" \in graham.reasons => graham.value = NoValue
      /\ graham.value["base"] # None => ~(graham.value["base"] > 20 * raw.price)
  BY <1>2, <1>3, GuardWithdraws
<1>6. /\ "unit_mismatch" \in dcf.reasons => dcf.value = NoValue
      /\ dcf.value["base"] # None => ~(dcf.value["base"] > 20 * raw.price)
  BY <1>2, <1>4, GuardWithdraws
<1> HIDE DEF graham, dcf, v
<1>7. ASSUME NEW m, m.value = NoValue
      PROVE  ~Available(m) /\ Valued(m) = {}
  BY <1>7 DEF Available, Valued, NoValue
<1>8. ASSUME dcf.value = NoValue
      PROVE  Margins(in, graham, dcf).dcf = NoValue /\ Components(graham, dcf) <= 1
  <2>1. \A s \in Scenarios : dcf.value[s] = None
    BY <1>8 DEF NoValue
  <2>2. CalcMos(None, in.price) = None
    BY DEF CalcMos, Positive
  <2>3. Margins(in, graham, dcf).dcf = NoValue
    BY <2>1, <2>2 DEF Margins, NoValue
  <2>4. Cardinality(Valued(dcf)) = 0
    BY <1>7, <1>8, FS_EmptySet
  <2>5. Components(graham, dcf) <= 1
    BY <2>4 DEF Components
  <2> QED
    BY <2>3, <2>5
<1>9. Withdrawn(v)
  <2>1. \A m \in {v.graham, v.dcf} : "unit_mismatch" \in m.reasons => ~Available(m)
    BY <1>1, <1>5, <1>6, <1>7
  <2>2. "unit_mismatch" \in v.dcf.reasons => v.mos.dcf = NoValue /\ v.components <= 1
    BY <1>1, <1>6, <1>8
  <2> QED
    BY <2>1, <2>2 DEF Withdrawn
<1>10. \A m \in {v.graham, v.dcf} :
         m.value["base"] # None => ~(m.value["base"] > 20 * raw.price)
  BY <1>1, <1>5, <1>6
<1> QED
  BY <1>9, <1>10 DEF v

(***************************************************************************)
(* The invariant of the withdrawn methods: a valuation of the day is       *)
(* within the guard at the close of the day, which no other step changes   *)
(* before the day is over.                                                 *)
(***************************************************************************)
WithinGuard(v, price) ==
    \A m \in {v.graham, v.dcf} : m.value["base"] # None => ~(m.value["base"] > 20 * price)

GuardInv ==
    /\ day \in Nat
    /\ \A v \in valuations :
         /\ v.asOf \in Nat /\ v.asOf <= day
         /\ Withdrawn(v.res)
         /\ v.asOf = day => WithinGuard(v.res, close)
    /\ \A s \in scores, m \in {"graham", "dcf"} : s.in[m] # None => ~(s.in[m] > 20 * s.price)

LEMMA ValuationGuard ==
    ASSUME GuardInv, Valuation
    PROVE  GuardInv'
<1> DEFINE new == ValuationRow(day, close)
           raw == ValuationInputs(day, close)
<1>1. /\ day' = day /\ close' = close /\ scores' = scores
      /\ valuations' = {v \in valuations : v.asOf # new.asOf} \cup {new}
  BY DEF Valuation, Put, world
<1>2. new.asOf = day /\ new.res = CalculateValuation(raw, DefaultValuationConfig)
  BY DEF ValuationRow
<1>3. "price" \in DOMAIN raw /\ raw.price = close
  BY DEF ValuationInputs, WithRows
<1> HIDE DEF new, raw
<1>4. Withdrawn(new.res) /\ WithinGuard(new.res, close)
  BY <1>2, <1>3, CalculateWithdraws DEF WithinGuard
<1>5. \A v \in valuations' :
         /\ v.asOf \in Nat /\ v.asOf <= day'
         /\ Withdrawn(v.res)
         /\ v.asOf = day' => WithinGuard(v.res, close')
  BY <1>1, <1>2, <1>4 DEF GuardInv
<1> QED
  BY <1>1, <1>5 DEF GuardInv

LEMMA ScoresGuard ==
    ASSUME GuardInv, Scores
    PROVE  GuardInv'
<1> DEFINE row == RowAt(valuations, day)
           v == ResultOf(row)
           q == Quality(day, close)
<1>1. day' = day /\ close' = close /\ valuations' = valuations
  BY DEF Scores, world
<1>2. PICK rows \in PeerTables : scores' = {ScoreRow(v, q, Relative(day, v, rows))}
  BY DEF Scores
<1> DEFINE s == ScoreRow(v, q, Relative(day, v, rows))
<1>3. v # None => WithinGuard(v, close)
  <2> SUFFICES ASSUME v # None PROVE WithinGuard(v, close)
    OBVIOUS
  <2>1. row # None /\ v = row.res
    BY DEF ResultOf
  <2>2. row \in valuations /\ row.asOf = day
    BY <2>1 DEF RowAt
  <2> QED
    BY <2>1, <2>2 DEF GuardInv
<1> HIDE DEF v, q
<1>4. /\ s.price = close
      /\ s.in["graham"] = IF v = None THEN None ELSE v.graham.value["base"]
      /\ s.in["dcf"] = IF v = None THEN None ELSE v.dcf.value["base"]
  BY DEF ScoreRow
<1>5. \A m \in {"graham", "dcf"} : s.in[m] # None => ~(s.in[m] > 20 * s.price)
  BY <1>3, <1>4 DEF WithinGuard
<1> HIDE DEF s
<1>6. scores' = {s}
  BY <1>2 DEF s
<1> QED
  BY <1>1, <1>5, <1>6 DEF GuardInv

LEMMA NextGuard ==
    ASSUME GuardInv, [Next]_vars
    PROVE  GuardInv'
<1>1. CASE GrowthWacc \/ Metrics
  BY <1>1 DEF GrowthWacc, Metrics, world, GuardInv
<1>2. CASE Valuation
  BY <1>2, ValuationGuard
<1>3. CASE Scores
  BY <1>3, ScoresGuard
<1>4. CASE NextBar
  <2>1. /\ valuations' = valuations /\ scores' = scores
        /\ day' \in Nat /\ day' > day
    BY <1>4, DaysAreDates DEF NextBar, Rows
  <2>2. \A v \in valuations : v.asOf # day' /\ v.asOf <= day'
    BY <2>1 DEF GuardInv
  <2> QED
    BY <2>1, <2>2 DEF GuardInv
<1>5. CASE \E x \in DOMAIN Arrivals : Arrive(x)
  BY <1>5 DEF Arrive, Rows, GuardInv
<1>6. CASE UNCHANGED vars
  BY <1>6 DEF vars, world, GuardInv
<1> QED
  BY <1>1, <1>2, <1>3, <1>4, <1>5, <1>6 DEF Next

\* A method that was withdrawn for its units leaves nothing behind, and no score
\* is given for an intrinsic value of more than twenty times the price, whatever
\* is ingested between the valuation and the score and whatever stage is left
\* out (internal/valuation.applyPlausibility, CalcMOS, CalcUncertainty).
THEOREM Withdrawing == Spec => []WithdrawnIsNowhere
<1>1. Init => GuardInv
  BY DaysAreDates DEF Init, GuardInv
<1>2. GuardInv => WithdrawnIsNowhere
  BY DEF GuardInv, Withdrawn, WithdrawnIsNowhere
<1> QED
  BY <1>1, <1>2, NextGuard, PTL DEF Spec

(***************************************************************************)
(* The replay.                                                             *)
(***************************************************************************)
\* The inputs with another confidence of the growth.
WithConf(in, conf) == [in EXCEPT !.growthConf = conf]

LEMMA NormalizedIgnoresConf ==
    ASSUME NEW in, NEW conf
    PROVE  NormalizedFcf(WithConf(in, conf)) = NormalizedFcf(in)
<1> DEFINE other == WithConf(in, conf)
<1>1. /\ other.fcf = in.fcf /\ other.fcfSeries = in.fcfSeries
      /\ other.revenueSeries = in.revenueSeries
  BY DEF WithConf
<1> HIDE DEF other
<1>2. PairedMargins(other) = PairedMargins(in)
  BY <1>1 DEF PairedMargins
<1> QED
  BY <1>1, <1>2 DEF NormalizedFcf, other

\* Once the signals diverge, the confidence that the growth came with is not
\* read; and what was recorded is computed to the same result.
LEMMA ResultsRepeat ==
    ASSUME NEW raw, NEW cfg, raw = [x \in DOMAIN raw |-> raw[x]],
           {"growthConf", "eps5", "fcf5", "ticker"} \subseteq DOMAIN raw, raw.ticker # "BRK-B",
           NEW conf,
           conf = CalculateValuation(raw, cfg).in.growthConf \/ CalculateValuation(raw, cfg).diverge
    PROVE  LET v == CalculateValuation(raw, cfg)
           IN  CalculateValuation(WithConf(v.in, conf), cfg) = v
<1> DEFINE diverge == GrowthSignalsDiverge(raw.eps5, raw.fcf5)
           in == IF diverge THEN WithConf(raw, "low") ELSE raw
           normalized == IF cfg.normalize THEN NormalizedFcf(raw) ELSE None
           again == WithConf(in, conf)
           v == CalculateValuation(raw, cfg)
<1>1. v = Outcome(in, normalized, diverge, cfg)
  BY DEF CalculateValuation, NormalizeShareClass, WithConf
<1>2. v.in = in /\ v.diverge = diverge
  <2> HIDE DEF in, normalized, diverge, v
  <2>1. /\ Outcome(in, normalized, diverge, cfg).in = in
        /\ Outcome(in, normalized, diverge, cfg).diverge = diverge
    BY DEF Outcome, Recorded
  <2> QED
    BY <1>1, <2>1
<1>3. /\ again.ticker = raw.ticker /\ again.eps5 = raw.eps5 /\ again.fcf5 = raw.fcf5
      /\ again.growthConf = conf
  BY DEF WithConf
<1>4. (IF diverge THEN WithConf(again, "low") ELSE again) = in
  <2>1. CASE diverge
    <3>1. WithConf(WithConf(WithConf(raw, "low"), conf), "low") = WithConf(raw, "low")
      BY DEF WithConf
    <3> QED
      BY <2>1, <3>1
  <2>2. CASE ~diverge
    <3>1. conf = raw.growthConf
      BY <1>2, <2>2
    <3>2. WithConf(raw, raw.growthConf) = raw
      BY DEF WithConf
    <3> QED
      BY <2>2, <3>1, <3>2
  <2> QED
    BY <2>1, <2>2
<1>5. NormalizedFcf(again) = NormalizedFcf(raw)
  BY NormalizedIgnoresConf
<1> HIDE DEF again, in, diverge, v
<1>6. CalculateValuation(again, cfg) = Outcome(in, normalized, diverge, cfg)
  <2>1. NormalizeShareClass(again) = again
    BY <1>3 DEF NormalizeShareClass
  <2>2. GrowthSignalsDiverge(again.eps5, again.fcf5) = diverge
    BY <1>3 DEF diverge
  <2> QED
    BY <1>4, <1>5, <2>1, <2>2 DEF CalculateValuation, WithConf
<1> QED
  BY <1>1, <1>2, <1>6 DEF again, v

LEMMA RecordedHasConf ==
    ASSUME NEW raw, NEW cfg, "growthConf" \in DOMAIN raw, raw.ticker # "BRK-B"
    PROVE  "growthConf" \in DOMAIN CalculateValuation(raw, cfg).in
<1> DEFINE diverge == GrowthSignalsDiverge(raw.eps5, raw.fcf5)
           in == IF diverge THEN [raw EXCEPT !.growthConf = "low"] ELSE raw
           normalized == IF cfg.normalize THEN NormalizedFcf(raw) ELSE None
<1>1. CalculateValuation(raw, cfg) = Outcome(in, normalized, diverge, cfg)
  BY DEF CalculateValuation, NormalizeShareClass
<1>2. "growthConf" \in DOMAIN in
  <2> HIDE DEF diverge
  <2> QED
    OBVIOUS
<1> HIDE DEF in, normalized, diverge
<1>3. Outcome(in, normalized, diverge, cfg).in = in
  BY DEF Outcome, Recorded
<1> QED
  BY <1>1, <1>2, <1>3

\* What the invariant keeps of a result: it is computed again from its inputs,
\* whatever the confidence of the growth if the signals diverge.
Repeats(v) ==
    /\ "growthConf" \in DOMAIN v.in
    /\ \A conf : conf = v.in.growthConf \/ v.diverge =>
         CalculateValuation(WithConf(v.in, conf), DefaultValuationConfig) = v

ReplayInv ==
    /\ \A g \in growths : g.res = CalculateGrowth(g.in, DefaultGrowthConfig)
    /\ \A w \in waccs : w.res = CalculateWacc(w.in, DefaultWaccConfig)
    /\ TickerOf[company] # "BRK-B" => \A v \in valuations : Repeats(v.res)

LEMMA RowsGiveFunctions ==
    ASSUME NEW in, NEW g, NEW w
    PROVE  WithRows(in, g, w) = [x \in DOMAIN WithRows(in, g, w) |-> WithRows(in, g, w)[x]]
<1> DEFINE step(f, name, x) == [f EXCEPT ![name] = x]
<1>1. ASSUME NEW f, NEW name, NEW x
      PROVE  step(f, name, x) = [y \in DOMAIN step(f, name, x) |-> step(f, name, x)[y]]
  OBVIOUS
<1>2. WithRows(in, g, w) =
        step(WithRows(in, g, w), "betaObserved", w # None /\ w.betaObserved)
  BY DEF WithRows
<1> HIDE DEF step
<1> QED
  BY <1>1, <1>2

LEMMA ValuationReplay ==
    ASSUME ReplayInv, Valuation
    PROVE  ReplayInv'
<1> DEFINE new == ValuationRow(day, close)
           raw == ValuationInputs(day, close)
<1>1. /\ company' = company /\ growths' = growths /\ waccs' = waccs
      /\ valuations' = {v \in valuations : v.asOf # new.asOf} \cup {new}
  BY DEF Valuation, Put, world
<1>2. new.res = CalculateValuation(raw, DefaultValuationConfig)
  BY DEF ValuationRow
<1>3. ASSUME TickerOf[company] # "BRK-B"
      PROVE  Repeats(new.res)
  <2>1. /\ raw = [x \in DOMAIN raw |-> raw[x]]
        /\ {"growthConf", "eps5", "fcf5", "ticker"} \subseteq DOMAIN raw
        /\ raw.ticker = TickerOf[company]
    <3>1. raw = [x \in DOMAIN raw |-> raw[x]]
      <4>1. \E in, g, w : raw = WithRows(in, g, w)
        BY Zenon DEF ValuationInputs
      <4> HIDE DEF raw
      <4>2. PICK in, g, w : raw = WithRows(in, g, w)
        BY <4>1
      <4> QED
        BY <4>2, RowsGiveFunctions
    <3>2. /\ {"growthConf", "eps5", "fcf5", "ticker"} \subseteq DOMAIN raw
          /\ raw.ticker = TickerOf[company]
      BY DEF ValuationInputs, WithRows
    <3> QED
      BY <3>1, <3>2
  <2> HIDE DEF raw, new
  <2>2. \A conf : conf = new.res.in.growthConf \/ new.res.diverge =>
          CalculateValuation(WithConf(new.res.in, conf), DefaultValuationConfig) = new.res
    BY <1>2, <1>3, <2>1, ResultsRepeat
  <2>3. "growthConf" \in DOMAIN new.res.in
    BY <1>2, <1>3, <2>1, RecordedHasConf
  <2> QED
    BY <2>2, <2>3 DEF Repeats
<1> HIDE DEF new
<1> QED
  BY <1>1, <1>3 DEF ReplayInv

LEMMA NextReplay ==
    ASSUME ReplayInv, [Next]_vars
    PROVE  ReplayInv'
<1>1. CASE GrowthWacc
  <2> DEFINE g == GrowthRow(day)
             w == WaccRow(day, close)
  <2>1. /\ company' = company /\ valuations' = valuations
        /\ growths' \subseteq growths \cup {g}
        /\ waccs' \subseteq waccs \cup {w}
    BY <1>1 DEF GrowthWacc, Put, world
  <2>2. /\ g.res = CalculateGrowth(g.in, DefaultGrowthConfig)
        /\ w.res = CalculateWacc(w.in, DefaultWaccConfig)
    BY DEF GrowthRow, WaccRow
  <2> HIDE DEF g, w
  <2> QED
    BY <2>1, <2>2 DEF ReplayInv
<1>2. CASE Valuation
  BY <1>2, ValuationReplay
<1>3. CASE Metrics \/ Scores
  BY <1>3 DEF Metrics, Scores, world, ReplayInv
<1>4. CASE NextBar \/ \E x \in DOMAIN Arrivals : Arrive(x)
  BY <1>4 DEF NextBar, Arrive, Rows, ReplayInv
<1>5. CASE UNCHANGED vars
  BY <1>5 DEF vars, world, ReplayInv
<1> QED
  BY <1>1, <1>2, <1>3, <1>4, <1>5 DEF Next

\* The inputs that a result records, with what the rows of its date give, are
\* enough to compute it again.
LEMMA RowsReplay ==
    ASSUME NEW v, NEW g, NEW w, Repeats(v.res), SameRows(v, g, w),
           g.res = CalculateGrowth(g.in, DefaultGrowthConfig),
           w.res = CalculateWacc(w.in, DefaultWaccConfig)
    PROVE  Replayed(v, g, w) = v.res
<1> DEFINE now == WithRows(v.res.in, g.res, w.res)
<1>1. Replayed(v, g, w) = CalculateValuation(now, DefaultValuationConfig)
  BY DEF Replayed
<1>2. /\ [now EXCEPT !.growthConf = v.res.in.growthConf] = v.res.in
      /\ v.res.in.growthConf = now.growthConf \/ v.res.diverge
  BY DEF SameRows
<1>3. now = [x \in DOMAIN now |-> now[x]] /\ DOMAIN now = DOMAIN v.res.in
  BY DEF WithRows
<1> HIDE DEF now
<1>4. WithConf(v.res.in, now.growthConf) = now
  <2>1. WithConf([now EXCEPT !.growthConf = v.res.in.growthConf], now.growthConf) = now
    BY <1>3 DEF WithConf
  <2> QED
    BY <1>2, <2>1
<1>5. CalculateValuation(WithConf(v.res.in, now.growthConf), DefaultValuationConfig) = v.res
  BY <1>2 DEF Repeats
<1> QED
  BY <1>1, <1>4, <1>5

\* The snapshots of a date replay to the valuation of that date, for every
\* company but BRK-B, every payload and every order of the stages
\* (internal/valuation.SnapshotOf, internal/backtest.replayFullChain).
THEOREM Replaying == Spec => []SnapshotReplays
<1>1. Init => ReplayInv
  BY DEF Init, ReplayInv
<1>2. ReplayInv => SnapshotReplays
  <2> SUFFICES ASSUME ReplayInv, TickerOf[company] # "BRK-B",
                      NEW v \in valuations, NEW g \in growths, NEW w \in waccs,
                      SameRows(v, g, w)
               PROVE  Replayed(v, g, w) = v.res
    BY DEF SnapshotReplays
  <2>1. /\ Repeats(v.res)
        /\ g.res = CalculateGrowth(g.in, DefaultGrowthConfig)
        /\ w.res = CalculateWacc(w.in, DefaultWaccConfig)
    BY DEF ReplayInv
  <2> QED
    BY <2>1, RowsReplay
<1> QED
  BY <1>1, <1>2, NextReplay, PTL DEF Spec

-----------------------------------------------------------------------------
(* The choice between two facts that compete for one row: for every pair   *)
(* of facts, and whichever of them the payload has first.                  *)

Dated(f) == {f.priority, f.filed, f.accn, f.value} \subseteq Int

\* Two facts of one group that no field of the choice tells apart are one filing.
Competing(f, g) ==
    /\ Dated(f) /\ Dated(g)
    /\ f.concept = g.concept /\ PeriodKey(f) = PeriodKey(g)
    /\ f.filed # g.filed \/ f.accn # g.accn

LEMMA SplitIsMutual ==
    ASSUME NEW f, NEW g, Dated(f), Dated(g), SplitPair(f, g)
    PROVE  SplitPair(g, f)
<1>1. PICK k \in 2..8 : f.value = k * g.value \/ g.value = k * f.value
  BY DEF SplitPair, Rescaled
<1>2. g.value # 0
  <2>1. f.value # 0 /\ f.value \in Int /\ g.value \in Int /\ k \in Int /\ k > 0
    BY DEF SplitPair, Rescaled, Dated
  <2>2. CASE f.value = k * g.value
    BY <2>1, <2>2
  <2>3. CASE g.value = k * f.value
    <3>1. k \in {2, 3, 4, 5, 6, 7, 8}
      OBVIOUS
    <3> QED
      BY <2>1, <2>3, <3>1
  <2> QED
    BY <1>1, <2>2, <2>3
<1> QED
  BY <1>1, <1>2 DEF SplitPair, Rescaled

\* Of two facts of different filings for one row, the same one survives in
\* either order of the payload: a filing that is downloaded again changes no row
\* (internal/collect/edgar.newerFact).
THEOREM OrderOfTwo ==
    \A f, g : Competing(f, g) => Survivor(f, g) = Survivor(g, f)
<1> SUFFICES ASSUME NEW f, NEW g, Competing(f, g)
             PROVE  NewerFact(f, g) <=> ~NewerFact(g, f)
  BY DEF Survivor
<1>1. Dated(f) /\ Dated(g) /\ (f.filed # g.filed \/ f.accn # g.accn)
  BY DEF Competing
<1>2. CASE f.priority # g.priority
  BY <1>1, <1>2 DEF NewerFact, Dated
<1>3. CASE f.priority = g.priority /\ SplitPair(f, g)
  <2>1. SplitPair(g, f)
    BY <1>1, <1>3, SplitIsMutual
  <2>2. FiledFirst(f, g) <=> ~FiledFirst(g, f)
    BY <1>1 DEF FiledFirst, Dated
  <2> QED
    BY <1>3, <2>1, <2>2 DEF NewerFact
<1>4. CASE f.priority = g.priority /\ ~SplitPair(f, g)
  <2>1. ~SplitPair(g, f)
    BY <1>1, <1>4, SplitIsMutual
  <2>2. /\ NewerFact(f, g) <=> f.filed > g.filed \/ (f.filed = g.filed /\ f.accn > g.accn)
        /\ NewerFact(g, f) <=> g.filed > f.filed \/ (g.filed = f.filed /\ g.accn > f.accn)
    BY <1>4, <2>1 DEF NewerFact
  <2> QED
    BY <1>1, <2>2 DEF Dated
<1> QED
  BY <1>2, <1>3, <1>4

\* Within one row, an earnings per share that a later filing rescales by a split
\* never replaces the one that was filed first
\* (internal/collect/edgar.splitPairOriginal).
THEOREM OriginalSurvives ==
    \A f, g : /\ Competing(f, g)
              /\ f.priority = g.priority
              /\ SplitPair(f, g)
              /\ f.filed < g.filed
              => Survivor(f, g) = f /\ Survivor(g, f) = f
<1> SUFFICES ASSUME NEW f, NEW g, Competing(f, g), f.priority = g.priority,
                    SplitPair(f, g), f.filed < g.filed
             PROVE  ~NewerFact(g, f) /\ NewerFact(f, g)
  BY DEF Survivor
<1>1. SplitPair(g, f)
  BY SplitIsMutual DEF Competing
<1>2. FiledFirst(f, g) /\ ~FiledFirst(g, f)
  BY DEF FiledFirst, Competing, Dated
<1> QED
  BY <1>1, <1>2 DEF NewerFact

-----------------------------------------------------------------------------
(* Finite sets of numbers.                                                 *)

\* Induction up to a bound, over a set of numbers.
LEMMA UpTo ==
    ASSUME NEW bound \in Nat, NEW P, 0 \in P,
           \A n \in 1..bound : n - 1 \in P => n \in P
    PROVE  \A n \in 0..bound : n \in P
<1> DEFINE Bad == {n \in 0..bound : n \notin P}
<1> SUFFICES ASSUME Bad # {} PROVE FALSE
  OBVIOUS
<1>1. Bad \in SUBSET Nat
  OBVIOUS
<1>2. PICK least \in Bad : \A n \in Bad : ~(<<n, least>> \in OpToRel(<, Nat))
  BY <1>1, WFMin, NatLessThanWellFounded
<1>3. \A n \in Bad : ~(n < least)
  BY <1>1, <1>2 DEF OpToRel
<1>4. least \in 0..bound /\ least \notin P
  OBVIOUS
<1>5. least \in 1..bound /\ least - 1 \in 0..bound /\ least - 1 < least
  BY <1>4
<1>6. least - 1 \in P
  BY <1>3, <1>5
<1> QED
  BY <1>4, <1>5, <1>6

\* A finite set of integers has a first and a last element.
LEMMA Extremes ==
    ASSUME NEW S \in SUBSET Int, IsFiniteSet(S), S # {}
    PROVE  /\ Max(S) \in S /\ \A y \in S : y <= Max(S)
           /\ Min(S) \in S /\ \A y \in S : Min(S) <= y
<1> DEFINE Ends(s) == /\ \E x \in s : \A y \in s : x >= y
                      /\ \E x \in s : \A y \in s : x <= y
           size == Cardinality(S)
           P == {n \in 0..size : \A s \in SUBSET S : Cardinality(s) = n /\ s # {} => Ends(s)}
<1>1. size \in Nat /\ \A s \in SUBSET S : IsFiniteSet(s)
  BY FS_CardinalityType, FS_Subset
<1>2. 0 \in P
  BY <1>1, FS_EmptySet
<1>3. ASSUME NEW n \in 1..size, n - 1 \in P PROVE n \in P
  <2> SUFFICES ASSUME NEW s \in SUBSET S, Cardinality(s) = n, s # {} PROVE Ends(s)
    OBVIOUS
  <2>1. PICK e \in s : TRUE
    OBVIOUS
  <2>2. Cardinality(s \ {e}) = n - 1 /\ s \ {e} \in SUBSET S
    BY <1>1, <2>1, FS_RemoveElement
  <2>3. CASE s \ {e} = {}
    BY <2>1, <2>3
  <2>4. CASE s \ {e} # {}
    <3>1. Ends(s \ {e})
      BY <1>3, <2>2, <2>4
    <3>2. PICK x \in s \ {e} : \A y \in s \ {e} : x >= y
      BY <3>1
    <3>3. PICK z \in s \ {e} : \A y \in s \ {e} : z <= y
      BY <3>1
    <3>4. e \in Int /\ x \in Int /\ z \in Int /\ s \subseteq Int
      OBVIOUS
    <3>5. \E m \in s : \A y \in s : m >= y
      <4>1. CASE e >= x
        BY <2>1, <3>2, <3>4, <4>1
      <4>2. CASE ~(e >= x)
        BY <2>1, <3>2, <3>4, <4>2
      <4> QED
        BY <4>1, <4>2
    <3>6. \E m \in s : \A y \in s : m <= y
      <4>1. CASE e <= z
        BY <2>1, <3>3, <3>4, <4>1
      <4>2. CASE ~(e <= z)
        BY <2>1, <3>3, <3>4, <4>2
      <4> QED
        BY <4>1, <4>2
    <3> QED
      BY <3>5, <3>6
  <2> QED
    BY <2>3, <2>4
<1>4. size \in P
  <2> HIDE DEF P
  <2> QED
    BY <1>1, <1>2, <1>3, UpTo
<1>5. Ends(S)
  BY <1>4
<1> QED
  BY <1>5 DEF Max, Min

LEMMA ImageIsFinite ==
    ASSUME NEW S, IsFiniteSet(S), NEW f, DOMAIN f = S
    PROVE  IsFiniteSet({f[x] : x \in S})
<1> DEFINE T == {f[x] : x \in S}
           g == [x \in S |-> f[x]]
<1>1. g \in [S -> T]
  OBVIOUS
<1>2. \A t \in T : \E x \in S : g[x] = t
  OBVIOUS
<1>3. g \in Surjection(S, T)
  <2> HIDE DEF g, T
  <2> QED
    BY <1>1, <1>2 DEF Surjection
<1> HIDE DEF g
<1> QED
  BY <1>3, FS_Surjection

\* The last element by one key, and by another where the first is the same.
LEMMA LastByTwoKeys ==
    ASSUME NEW F, IsFiniteSet(F), F # {}, NEW major \in [F -> Int], NEW minor \in [F -> Int]
    PROVE  \E f \in F : \A g \in F :
              major[f] > major[g] \/ (major[f] = major[g] /\ minor[f] >= minor[g])
<1> DEFINE E == {major[f] : f \in F}
           last == Max(E)
           G == {f \in F : major[f] = last}
           part == [f \in G |-> minor[f]]
           R == {part[f] : f \in G}
<1>1. last \in E /\ \A e \in E : e <= last
  <2>1. IsFiniteSet(E)
    <3>1. DOMAIN major = F
      OBVIOUS
    <3> QED
      BY <3>1, ImageIsFinite
  <2>2. E \in SUBSET Int /\ E # {}
    OBVIOUS
  <2> HIDE DEF E
  <2> QED
    BY <2>1, <2>2, Extremes
<1>2. PICK f \in F : major[f] = last
  BY <1>1
<1>3. \A g \in F : major[g] <= last
  BY <1>1
<1>4. last \in Int
  BY <1>2
<1> HIDE DEF last
<1>5. Max(R) \in R /\ \A e \in R : e <= Max(R)
  <2>1. IsFiniteSet(R)
    <3>1. DOMAIN part = G /\ IsFiniteSet(G)
      BY FS_Subset
    <3> HIDE DEF part, G
    <3> QED
      BY <3>1, ImageIsFinite
  <2>2. R \in SUBSET Int /\ R # {}
    BY <1>2
  <2> HIDE DEF R
  <2> QED
    BY <2>1, <2>2, Extremes
<1>6. PICK x \in G : minor[x] = Max(R)
  BY <1>5
<1>7. \A g \in G : minor[g] <= minor[x]
  BY <1>5, <1>6
<1>8. \A g \in F : major[x] > major[g] \/ (major[x] = major[g] /\ minor[x] >= minor[g])
  <2> SUFFICES ASSUME NEW g \in F
               PROVE  major[x] > major[g] \/ (major[x] = major[g] /\ minor[x] >= minor[g])
    OBVIOUS
  <2>1. major[g] <= last /\ major[g] \in Int /\ minor[g] \in Int /\ minor[x] \in Int
    BY <1>3
  <2>2. major[x] = last
    OBVIOUS
  <2>3. CASE major[g] = last
    <3>1. minor[g] <= minor[x]
      BY <1>7, <2>3
    <3> QED
      BY <2>1, <2>2, <2>3, <3>1
  <2>4. CASE major[g] # last
    BY <1>4, <2>1, <2>2, <2>4
  <2> QED
    BY <2>3, <2>4
<1> QED
  BY <1>8

-----------------------------------------------------------------------------
(* Recursion over numbers and over finite sets.                            *)

\* A step from an index and a result to a result, and the functions that repeat it.
StepsIn(step, I, R) == step \in [I \X R -> R]
Counts(f, bound, base, step) ==
    f = [n \in 0..bound |-> IF n = 0 THEN base ELSE step[<<n, f[n - 1]>>]]
Folds(f, S, pick, base, step) ==
    f = [s \in SUBSET S |-> IF s = {} THEN base ELSE step[<<pick[s], f[s \ {pick[s]}]>>]]

\* A recursion up to a bound has a value at every number up to it.
LEMMA CountingRecursion ==
    ASSUME NEW bound \in Nat, NEW R, NEW base \in R, NEW step, StepsIn(step, 1..bound, R)
    PROVE  \E f \in [0..bound -> R] : Counts(f, bound, base, step)
<1> DEFINE Step(n, f) == IF n = 0 THEN base ELSE step[<<n, f[n - 1]>>]
           Upper(m, f) == f \in [0..m -> R] /\ \A n \in 0..m : f[n] = Step(n, f)
           P == {m \in 0..bound : \E f : Upper(m, f)}
<1>1. 0 \in P
  <2>1. Upper(0, [n \in 0..0 |-> base])
    OBVIOUS
  <2> HIDE DEF Upper
  <2> QED
    BY <2>1
<1>2. ASSUME NEW m \in 1..bound, m - 1 \in P PROVE m \in P
  <2>1. PICK f : Upper(m - 1, f)
    BY <1>2
  <2> DEFINE g == [n \in 0..m |-> Step(n, f)]
  <2>2. ASSUME NEW n \in 0..m, n # 0
        PROVE  n - 1 \in 0..(m - 1) /\ n - 1 \in 0..m /\ f[n - 1] \in R /\ <<n, f[n - 1]>> \in (1..bound) \X R
    <3>1. n - 1 \in 0..(m - 1) /\ n - 1 \in 0..m /\ n \in 1..bound
      BY <2>2
    <3>2. f[n - 1] \in R
      BY <2>1, <3>1
    <3> QED
      BY <3>1, <3>2
  <2>3. \A n \in 0..m : Step(n, f) \in R
    BY <2>2 DEF StepsIn
  <2>4. \A n \in 0..m : n # 0 => g[n - 1] = f[n - 1]
    <3> SUFFICES ASSUME NEW n \in 0..m, n # 0 PROVE g[n - 1] = f[n - 1]
      OBVIOUS
    <3>1. n - 1 \in 0..(m - 1) /\ n - 1 \in 0..m
      BY <2>2
    <3>2. f[n - 1] = Step(n - 1, f)
      BY <2>1, <3>1
    <3> QED
      BY <3>1, <3>2
  <2>5. g \in [0..m -> R]
    <3> HIDE DEF Step
    <3> QED
      BY <2>3
  <2>6. \A n \in 0..m : g[n] = Step(n, g)
    <3>1. \A n \in 0..m : g[n] = Step(n, f)
      OBVIOUS
    <3>2. \A n \in 0..m : Step(n, f) = Step(n, g)
      BY <2>4
    <3> HIDE DEF Step, g
    <3> QED
      BY <3>1, <3>2
  <2>7. Upper(m, g)
    BY <2>5, <2>6
  <2> HIDE DEF Upper, g
  <2> QED
    BY <2>7
<1>3. \E f : Upper(bound, f)
  <2>1. bound \in 0..bound
    OBVIOUS
  <2> HIDE DEF P
  <2>2. \A m \in 0..bound : m \in P
    BY <1>1, <1>2, UpTo
  <2>3. bound \in P
    BY <2>1, <2>2
  <2> QED
    BY <2>3 DEF P
<1>4. PICK f : Upper(bound, f)
  BY <1>3
<1>5. f \in [0..bound -> R] /\ f = [n \in 0..bound |-> Step(n, f)]
  BY <1>4
<1> QED
  BY <1>5 DEF Counts

\* An order in which the elements of a set are taken.
Takes(pick, S) == \A s \in SUBSET S : s # {} => pick[s] \in s

\* Induction over a finite set, one element at a time, over a set of its subsets.
LEMMA TakingInduction ==
    ASSUME NEW S, IsFiniteSet(S), NEW pick, Takes(pick, S), NEW Good, {} \in Good,
           \A s \in SUBSET S : s # {} /\ s \ {pick[s]} \in Good => s \in Good
    PROVE  \A s \in SUBSET S : s \in Good
<1> DEFINE size == Cardinality(S)
           P == {n \in 0..size : \A s \in SUBSET S : Cardinality(s) = n => s \in Good}
<1>1. size \in Nat /\ \A s \in SUBSET S : IsFiniteSet(s) /\ Cardinality(s) \in 0..size
  BY FS_CardinalityType, FS_Subset
<1>2. \A s \in SUBSET S : Cardinality(s) = 0 <=> s = {}
  BY <1>1, FS_EmptySet
<1>3. \A s \in SUBSET S : s # {} => /\ s \ {pick[s]} \in SUBSET S
                                    /\ Cardinality(s \ {pick[s]}) = Cardinality(s) - 1
  BY <1>1, FS_RemoveElement DEF Takes
<1>4. 0 \in P
  BY <1>1, <1>2
<1>5. ASSUME NEW n \in 1..size, n - 1 \in P PROVE n \in P
  <2> SUFFICES ASSUME NEW s \in SUBSET S, Cardinality(s) = n PROVE s \in Good
    OBVIOUS
  <2>1. s # {}
    BY <1>1, <1>2
  <2> QED
    BY <1>3, <1>5, <2>1
<1> HIDE DEF P, size
<1>6. \A n \in 0..size : n \in P
  BY <1>1, <1>4, <1>5, UpTo
<1> QED
  BY <1>1, <1>6 DEF P

\* A fold has a value at every subset.
LEMMA TakingRecursion ==
    ASSUME NEW S, IsFiniteSet(S), NEW pick, Takes(pick, S),
           NEW R, NEW base \in R, NEW step, StepsIn(step, S, R)
    PROVE  \E f \in [SUBSET S -> R] : Folds(f, S, pick, base, step)
<1> DEFINE Small(n) == {s \in SUBSET S : Cardinality(s) <= n}
           Step(s, f) == IF s = {} THEN base ELSE step[<<pick[s], f[s \ {pick[s]}]>>]
           Upper(n, f) == f \in [Small(n) -> R] /\ \A s \in Small(n) : f[s] = Step(s, f)
           size == Cardinality(S)
           P == {n \in 0..size : \E f : Upper(n, f)}
<1>1. size \in Nat /\ \A s \in SUBSET S : IsFiniteSet(s) /\ Cardinality(s) \in 0..size
  BY FS_CardinalityType, FS_Subset
<1>2. \A s \in SUBSET S : Cardinality(s) = 0 <=> s = {}
  BY <1>1, FS_EmptySet
<1>3. \A s \in SUBSET S : s # {} => /\ pick[s] \in S /\ s \ {pick[s]} \in SUBSET S
                                    /\ Cardinality(s \ {pick[s]}) = Cardinality(s) - 1
  BY <1>1, FS_RemoveElement DEF Takes
<1>4. 0 \in P
  <2>1. Small(0) = {{}}
    BY <1>1, <1>2
  <2>2. Upper(0, [s \in Small(0) |-> base])
    BY <2>1
  <2> HIDE DEF Upper
  <2> QED
    BY <1>1, <2>2
<1>5. ASSUME NEW n \in 1..size, n - 1 \in P PROVE n \in P
  <2>1. PICK f : Upper(n - 1, f)
    BY <1>5
  <2> DEFINE g == [s \in Small(n) |-> Step(s, f)]
  <2>2. ASSUME NEW s \in Small(n), s # {}
        PROVE  /\ s \ {pick[s]} \in Small(n - 1) /\ s \ {pick[s]} \in Small(n)
               /\ f[s \ {pick[s]}] \in R /\ <<pick[s], f[s \ {pick[s]}]>> \in S \X R
    <3>1. s \ {pick[s]} \in Small(n - 1) /\ s \ {pick[s]} \in Small(n)
      BY <1>1, <1>3, <2>2
    <3>2. f[s \ {pick[s]}] \in R
      BY <2>1, <3>1
    <3> QED
      BY <1>3, <2>2, <3>1, <3>2
  <2>3. \A s \in Small(n) : Step(s, f) \in R
    BY <2>2 DEF StepsIn
  <2>4. \A s \in Small(n) : s # {} => g[s \ {pick[s]}] = f[s \ {pick[s]}]
    <3> SUFFICES ASSUME NEW s \in Small(n), s # {} PROVE g[s \ {pick[s]}] = f[s \ {pick[s]}]
      OBVIOUS
    <3> DEFINE t == s \ {pick[s]}
    <3>1. t \in Small(n - 1) /\ t \in Small(n)
      BY <2>2
    <3> HIDE DEF t
    <3>2. f[t] = Step(t, f)
      BY <2>1, <3>1
    <3>3. g[t] = f[t]
      BY <3>1, <3>2
    <3> QED
      BY <3>3 DEF t
  <2>5. g \in [Small(n) -> R]
    <3> HIDE DEF Step, Small
    <3> QED
      BY <2>3
  <2>6. \A s \in Small(n) : g[s] = Step(s, g)
    <3>1. \A s \in Small(n) : g[s] = Step(s, f)
      OBVIOUS
    <3>2. \A s \in Small(n) : Step(s, f) = Step(s, g)
      BY <2>4
    <3> HIDE DEF Step, g, Small
    <3> QED
      BY <3>1, <3>2
  <2>7. Upper(n, g)
    BY <2>5, <2>6
  <2> HIDE DEF Upper, g
  <2> QED
    BY <2>7
<1>6. \E f : Upper(size, f)
  <2>1. size \in 0..size
    BY <1>1
  <2> HIDE DEF P, size
  <2>2. \A m \in 0..size : m \in P
    BY <1>1, <1>4, <1>5, UpTo
  <2>3. size \in P
    BY <2>1, <2>2
  <2> QED
    BY <2>3 DEF P
<1>7. Small(size) = SUBSET S
  BY <1>1
<1>8. PICK f : Upper(size, f)
  BY <1>6
<1>9. f \in [SUBSET S -> R] /\ f = [s \in SUBSET S |-> Step(s, f)]
  BY <1>7, <1>8
<1> QED
  BY <1>9 DEF Folds

-----------------------------------------------------------------------------
(* From a payload to the rows of fundamentals: they are finitely many, and *)
(* hold numbers.                                                           *)

\* The fold over a group of facts has a value at every part of the group.
LEMMA SurvivorFolds ==
    ASSUME NEW facts \in Seq(Facts), NEW I \in SUBSET DOMAIN facts, I # {}
    PROVE  \E f : f = [s \in SUBSET I |->
                        IF s = {} THEN facts[Min(I)]
                        ELSE Survivor(f[s \ {Max(s)}], facts[Max(s)])]
<1> DEFINE Step(s, f) == IF s = {} THEN facts[Min(I)] ELSE Survivor(f[s \ {Max(s)}], facts[Max(s)])
           Small(n) == {s \in SUBSET I : Cardinality(s) <= n}
           Upper(n, f) == f = [s \in Small(n) |-> Step(s, f)]
           size == Cardinality(I)
           P == {n \in 0..size : \E f : Upper(n, f)}
<1>1. /\ I \subseteq Int /\ IsFiniteSet(I) /\ size \in Nat
      /\ \A i \in I : facts[i] \in Facts
  <2>1. DOMAIN facts = 1..Len(facts) /\ Len(facts) \in Nat
    OBVIOUS
  <2>2. IsFiniteSet(1..Len(facts))
    BY <2>1, FS_Interval
  <2> QED
    BY <2>1, <2>2, FS_Subset, FS_CardinalityType
<1>2. \A s \in SUBSET I : /\ IsFiniteSet(s) /\ Cardinality(s) \in 0..size
                          /\ Cardinality(s) = 0 <=> s = {}
  BY <1>1, FS_Subset, FS_CardinalityType, FS_EmptySet
<1>3. \A s \in SUBSET I : s # {} => /\ Max(s) \in s /\ s \ {Max(s)} \in SUBSET I
                                    /\ Cardinality(s \ {Max(s)}) = Cardinality(s) - 1
  <2> SUFFICES ASSUME NEW s \in SUBSET I, s # {}
               PROVE  Max(s) \in s /\ Cardinality(s \ {Max(s)}) = Cardinality(s) - 1
    OBVIOUS
  <2>1. Max(s) \in s
    BY <1>1, <1>2, Extremes
  <2> QED
    BY <1>2, <2>1, FS_RemoveElement
<1>4. 0 \in P
  <2>1. Small(0) = {{}}
    BY <1>1, <1>2
  <2>2. Upper(0, [s \in Small(0) |-> facts[Min(I)]])
    BY <2>1
  <2> HIDE DEF Upper
  <2> QED
    BY <1>1, <2>2
<1>5. ASSUME NEW n \in 1..size, n - 1 \in P PROVE n \in P
  <2>1. PICK f : Upper(n - 1, f)
    BY <1>5
  <2> DEFINE g == [s \in Small(n) |-> Step(s, f)]
  <2>2. ASSUME NEW s \in Small(n), s # {}
        PROVE  g[s \ {Max(s)}] = f[s \ {Max(s)}]
    <3> DEFINE t == s \ {Max(s)}
    <3>1. t \in Small(n - 1) /\ t \in Small(n)
      BY <1>2, <1>3, <2>2
    <3> HIDE DEF t
    <3> QED
      BY <2>1, <3>1 DEF t
  <2>3. Upper(n, g)
    <3>1. \A s \in Small(n) : Step(s, f) = Step(s, g)
      BY <2>2
    <3>2. g = [s \in Small(n) |-> Step(s, f)]
      OBVIOUS
    <3> HIDE DEF Step, Small, g
    <3> QED
      BY <3>1, <3>2
  <2> HIDE DEF Upper, g
  <2> QED
    BY <2>3
<1>6. \E f : Upper(size, f)
  <2>1. size \in P
    <3>1. size \in Nat
      BY <1>1
    <3>2. size \in 0..size
      BY <3>1
    <3> HIDE DEF P, size
    <3>3. \A n \in 0..size : n \in P
      BY <3>1, <1>4, <1>5, UpTo
    <3> QED
      BY <3>2, <3>3
  <2> QED
    BY <2>1
<1>7. Small(size) = SUBSET I
  BY <1>2
<1> QED
  BY <1>6, <1>7

\* The survivor of a group is one of the group.
LEMMA SurvivorIsOfTheGroup ==
    ASSUME NEW facts \in Seq(Facts), NEW I \in SUBSET DOMAIN facts, I # {}
    PROVE  \E i \in I : SurvivorOf(facts, I) = facts[i]
<1> DEFINE Step(s, f) == IF s = {} THEN facts[Min(I)] ELSE Survivor(f[s \ {Max(s)}], facts[Max(s)])
           iter == CHOOSE f : f = [s \in SUBSET I |-> Step(s, f)]
           pick == [s \in SUBSET I |-> Max(s)]
           Good == {s \in SUBSET I : \E i \in I : iter[s] = facts[i]}
<1>1. I \subseteq Int /\ IsFiniteSet(I)
  <2>1. DOMAIN facts = 1..Len(facts) /\ Len(facts) \in Nat
    OBVIOUS
  <2>2. IsFiniteSet(1..Len(facts))
    BY <2>1, FS_Interval
  <2> QED
    BY <2>1, <2>2, FS_Subset
<1>2. \A s \in SUBSET I : s # {} => Max(s) \in s
  BY <1>1, FS_Subset, Extremes
<1>3. iter = [s \in SUBSET I |-> Step(s, iter)]
  <2>1. \E f : f = [s \in SUBSET I |-> Step(s, f)]
    BY SurvivorFolds
  <2> HIDE DEF Step
  <2> QED
    BY <2>1
<1>4. SurvivorOf(facts, I) = iter[I]
  BY DEF SurvivorOf, MapThenFoldSet
<1> HIDE DEF iter
<1>5. {} \in Good
  <2>1. Min(I) \in I
    BY <1>1, Extremes
  <2>2. iter[{}] = facts[Min(I)]
    BY <1>3
  <2> QED
    BY <2>1, <2>2
<1>6. ASSUME NEW s \in SUBSET I, s # {}, s \ {pick[s]} \in Good PROVE s \in Good
  <2>1. PICK i \in I : iter[s \ {Max(s)}] = facts[i]
    BY <1>6
  <2>2. iter[s] = Survivor(facts[i], facts[Max(s)])
    BY <1>3, <1>6, <2>1
  <2>3. Max(s) \in I
    BY <1>2, <1>6
  <2> QED
    BY <2>2, <2>3 DEF Survivor
<1>7. \A s \in SUBSET I : s \in Good
  <2>1. Takes(pick, I)
    BY <1>2 DEF Takes
  <2>2. \A s \in SUBSET I : s # {} /\ s \ {pick[s]} \in Good => s \in Good
    <3> HIDE DEF Good, pick
    <3> QED
      BY <1>6
  <2>3. IsFiniteSet(I)
    BY <1>1
  <2> HIDE DEF Good, pick, Step
  <2> QED
    BY <1>5, <2>1, <2>2, <2>3, TakingInduction
<1>8. I \in Good
  <2>1. I \in SUBSET I
    OBVIOUS
  <2> HIDE DEF Good
  <2> QED
    BY <1>7, <2>1
<1> QED
  BY <1>4, <1>8

LEMMA DedupeIsFinite ==
    ASSUME NEW facts \in Seq(Facts)
    PROVE  DedupeCanonical(facts) \in SUBSET Facts /\ IsFiniteSet(DedupeCanonical(facts))
<1> DEFINE group(f) == <<f.concept, PeriodKey(f)>>
           canonical == {i \in DOMAIN facts : Canonical(facts[i])}
           of(k) == {i \in canonical : group(facts[i]) = k}
           h == [i \in canonical |-> SurvivorOf(facts, of(group(facts[i])))]
<1>1. IsFiniteSet(canonical)
  <2>1. DOMAIN facts = 1..Len(facts) /\ Len(facts) \in Nat
    OBVIOUS
  <2>2. IsFiniteSet(DOMAIN facts)
    BY <2>1, FS_Interval
  <2> QED
    BY <2>2, FS_Subset
<1>2. DedupeCanonical(facts) = {h[i] : i \in canonical}
  <2>1. DedupeCanonical(facts) = {SurvivorOf(facts, of(k)) : k \in {group(facts[i]) : i \in canonical}}
    BY DEF DedupeCanonical
  <2>2. \A i \in canonical : h[i] = SurvivorOf(facts, of(group(facts[i])))
    OBVIOUS
  <2> HIDE DEF h, of, group, canonical
  <2> QED
    BY <2>1, <2>2
<1>3. \A i \in canonical : h[i] \in Facts
  <2> SUFFICES ASSUME NEW i \in canonical PROVE h[i] \in Facts
    OBVIOUS
  <2>1. of(group(facts[i])) \in SUBSET DOMAIN facts /\ i \in of(group(facts[i]))
    OBVIOUS
  <2>2. h[i] = SurvivorOf(facts, of(group(facts[i])))
    OBVIOUS
  <2>3. \A j \in DOMAIN facts : facts[j] \in Facts
    OBVIOUS
  <2> HIDE DEF h, of, group, canonical
  <2>4. \E j \in of(group(facts[i])) : h[i] = facts[j]
    BY <2>1, <2>2, SurvivorIsOfTheGroup
  <2> QED
    BY <2>1, <2>3, <2>4
<1>4. IsFiniteSet({h[i] : i \in canonical})
  <2>1. DOMAIN h = canonical
    OBVIOUS
  <2> HIDE DEF h, canonical
  <2> QED
    BY <1>1, <2>1, ImageIsFinite
<1> HIDE DEF h, canonical
<1> QED
  BY <1>2, <1>3, <1>4

\* The pairs of facts of one period that a derived concept is computed from.
LEMMA PairsAreFinite ==
    ASSUME NEW A \in SUBSET Facts, NEW B \in SUBSET Facts,
           IsFiniteSet(A), IsFiniteSet(B)
    PROVE  IsFiniteSet({q \in A \X B : PeriodKey(q[1]) = PeriodKey(q[2])})
BY FS_Product, FS_Subset

\* Derive over an operation that is given as a function.
Paired(concept, A, B, v) ==
    {[p[1] EXCEPT !.concept = concept, !.value = v[<<p[1].value, p[2].value>>]] :
        p \in {q \in A \X B : PeriodKey(q[1]) = PeriodKey(q[2])}}

FactSet(R) == R \in SUBSET Facts /\ IsFiniteSet(R)

LEMMA PairedAreFacts ==
    ASSUME NEW A, NEW B, FactSet(A), FactSet(B), NEW concept \in Derivations,
           NEW v, \A a, b \in Int : v[<<a, b>>] \in Int
    PROVE  FactSet(Paired(concept, A, B, v))
<1> DEFINE Q == {q \in A \X B : PeriodKey(q[1]) = PeriodKey(q[2])}
           h == [p \in Q |-> [p[1] EXCEPT !.concept = concept,
                                          !.value = v[<<p[1].value, p[2].value>>]]]
<1>1. IsFiniteSet(Q)
  BY PairsAreFinite DEF FactSet
<1>2. \A p \in Q : h[p] \in Facts
  <2> SUFFICES ASSUME NEW p \in Q PROVE h[p] \in Facts
    OBVIOUS
  <2>1. p[1] \in Facts /\ p[2] \in Facts
    BY DEF FactSet
  <2>2. v[<<p[1].value, p[2].value>>] \in Int
    BY <2>1 DEF Facts
  <2> QED
    BY <2>1, <2>2 DEF Facts, Derivations
<1>3. IsFiniteSet({h[p] : p \in Q})
  <2>1. DOMAIN h = Q
    OBVIOUS
  <2> HIDE DEF h, Q
  <2> QED
    BY <1>1, <2>1, ImageIsFinite
<1> QED
  BY <1>2, <1>3 DEF Paired, FactSet

LEMMA DerivedAreFacts ==
    ASSUME NEW rows, FactSet(rows)
    PROVE  FactSet(ComputeDerived(rows))
<1> DEFINE of(concept) == {r \in rows : r.concept = concept}
           sum == [p \in Int \X Int |-> p[1] + p[2]]
           less == [p \in Int \X Int |-> p[1] - p[2]]
           owed == [p \in Int \X Int |-> p[2] - p[1]]
           debt == Paired("total_debt", of("long_term_debt"), of("short_term_debt"), sum)
           net == Paired("net_debt", of("cash_and_equivalents"), debt, owed)
           ebitda == Paired("ebitda", of("operating_income"), of("depreciation_amortization"), sum)
           flow == Paired("free_cash_flow", of("operating_cash_flow"), of("capex"), less)
<1>1. \A c : FactSet(of(c))
  BY FS_Subset DEF FactSet
<1>2. \A a, b \in Int : sum[<<a, b>>] = a + b /\ less[<<a, b>>] = a - b /\ owed[<<a, b>>] = b - a
  OBVIOUS
<1>3. /\ \A a, b \in Int : sum[<<a, b>>] \in Int
      /\ \A a, b \in Int : less[<<a, b>>] \in Int
      /\ \A a, b \in Int : owed[<<a, b>>] \in Int
  <2> HIDE DEF sum, less, owed
  <2> QED
    BY <1>2
<1> HIDE DEF sum, less, owed
<1>4. FactSet(debt) /\ FactSet(ebitda) /\ FactSet(flow)
  <2> HIDE DEF of
  <2>1. FactSet(debt)
    BY <1>1, <1>3, PairedAreFacts DEF Derivations
  <2>2. FactSet(ebitda)
    BY <1>1, <1>3, PairedAreFacts DEF Derivations
  <2>3. FactSet(flow)
    BY <1>1, <1>3, PairedAreFacts DEF Derivations
  <2> QED
    BY <2>1, <2>2, <2>3
<1>5. FactSet(net)
  <2> HIDE DEF of, debt
  <2> QED
    BY <1>1, <1>3, <1>4, PairedAreFacts DEF Derivations
<1>6. ASSUME NEW A, NEW B, FactSet(A), FactSet(B)
      PROVE  \A p \in {q \in A \X B : PeriodKey(q[1]) = PeriodKey(q[2])} :
                /\ sum[<<p[1].value, p[2].value>>] = p[1].value + p[2].value
                /\ less[<<p[1].value, p[2].value>>] = p[1].value - p[2].value
                /\ owed[<<p[1].value, p[2].value>>] = p[2].value - p[1].value
  BY <1>2, <1>6 DEF FactSet, Facts
<1>7. debt = Derive("total_debt", of("long_term_debt"), of("short_term_debt"),
                    LAMBDA long, short : long + short)
  <2>1. \A p \in {q \in of("long_term_debt") \X of("short_term_debt") : PeriodKey(q[1]) = PeriodKey(q[2])} :
           sum[<<p[1].value, p[2].value>>] = p[1].value + p[2].value
    <3> HIDE DEF of
    <3> QED
      BY <1>1, <1>6
  <2> HIDE DEF of
  <2> QED
    BY <2>1 DEF Paired, Derive
<1>8. net = Derive("net_debt", of("cash_and_equivalents"), debt, LAMBDA cash, due : due - cash)
  <2> HIDE DEF of, debt
  <2>1. \A p \in {q \in of("cash_and_equivalents") \X debt : PeriodKey(q[1]) = PeriodKey(q[2])} :
           owed[<<p[1].value, p[2].value>>] = p[2].value - p[1].value
    BY <1>1, <1>4, <1>6
  <2> QED
    BY <2>1 DEF Paired, Derive
<1>9. ebitda = Derive("ebitda", of("operating_income"), of("depreciation_amortization"),
                      LAMBDA income, charge : income + charge)
  <2> HIDE DEF of
  <2>1. \A p \in {q \in of("operating_income") \X of("depreciation_amortization") :
                     PeriodKey(q[1]) = PeriodKey(q[2])} :
           sum[<<p[1].value, p[2].value>>] = p[1].value + p[2].value
    BY <1>1, <1>6
  <2> QED
    BY <2>1 DEF Paired, Derive
<1>10. flow = Derive("free_cash_flow", of("operating_cash_flow"), of("capex"),
                     LAMBDA in, paid : in - paid)
  <2> HIDE DEF of
  <2>1. \A p \in {q \in of("operating_cash_flow") \X of("capex") :
                     PeriodKey(q[1]) = PeriodKey(q[2])} :
           less[<<p[1].value, p[2].value>>] = p[1].value - p[2].value
    BY <1>1, <1>6
  <2> QED
    BY <2>1 DEF Paired, Derive
<1>11. ComputeDerived(rows) = debt \cup net \cup ebitda \cup flow
  <2> HIDE DEF debt, net, ebitda, flow
  <2> QED
    BY <1>7, <1>8, <1>9, <1>10 DEF ComputeDerived
<1> HIDE DEF debt, net, ebitda, flow
<1> QED
  BY <1>4, <1>5, <1>11, FS_Union DEF FactSet

\* A place of each part in the whole: off[i] + j is that of the j-th element.
Places(off, seqs, whole) ==
    /\ \A i \in DOMAIN seqs : \A j \in DOMAIN seqs[i] :
         off[i] + j \in DOMAIN whole /\ whole[off[i] + j] = seqs[i][j]
    /\ \A n \in DOMAIN whole : \E i \in DOMAIN seqs : \E j \in DOMAIN seqs[i] : n = off[i] + j

LEMMA FlattenHasPlaces ==
    ASSUME NEW S, NEW seqs \in Seq(Seq(S))
    PROVE  /\ FlattenSeq(seqs) \in Seq(S)
           /\ \E off \in [DOMAIN seqs -> Nat] : Places(off, seqs, FlattenSeq(seqs))
<1> DEFINE size == Len(seqs)
           Step(i, f) == IF i = 1 THEN seqs[i] ELSE f[i - 1] \o seqs[i]
           Upper(n, f) == f = [i \in 1..n |-> Step(i, f)]
           P == {n \in 0..size : \E f : Upper(n, f)}
<1>1. size \in Nat /\ DOMAIN seqs = 1..size /\ \A i \in 1..size : seqs[i] \in Seq(S)
  OBVIOUS
<1>2. CASE size = 0
  <2>1. seqs = <<>>
    BY <1>2
  <2>2. FlattenSeq(seqs) = <<>>
    BY <1>2, <2>1 DEF FlattenSeq
  <2>3. DOMAIN seqs = {} /\ DOMAIN FlattenSeq(seqs) = {}
    BY <2>1, <2>2
  <2> DEFINE off == [i \in DOMAIN seqs |-> 0]
  <2>4. Places(off, seqs, FlattenSeq(seqs)) /\ off \in [DOMAIN seqs -> Nat]
    BY <2>3 DEF Places
  <2>5. <<>> \in Seq(S)
    OBVIOUS
  <2> HIDE DEF off
  <2> QED
    BY <2>2, <2>4, <2>5
<1>3. CASE size # 0
  <2>1. 0 \in P
    <3>1. Upper(0, <<>>)
      OBVIOUS
    <3> HIDE DEF Upper
    <3> QED
      BY <1>1, <3>1
  <2>2. ASSUME NEW n \in 1..size, n - 1 \in P PROVE n \in P
    <3>1. PICK f : Upper(n - 1, f)
      BY <2>2
    <3> DEFINE g == [i \in 1..n |-> Step(i, f)]
    <3>2. \A i \in 1..n : i # 1 => g[i - 1] = f[i - 1]
      <4> SUFFICES ASSUME NEW i \in 1..n, i # 1 PROVE g[i - 1] = f[i - 1]
        OBVIOUS
      <4>1. i - 1 \in 1..(n - 1) /\ i - 1 \in 1..n
        BY <1>1
      <4> QED
        BY <3>1, <4>1
    <3>3. Upper(n, g)
      <4>1. \A i \in 1..n : Step(i, f) = Step(i, g)
        BY <3>2
      <4>2. g = [i \in 1..n |-> Step(i, f)]
        OBVIOUS
      <4> HIDE DEF Step, g
      <4> QED
        BY <4>1, <4>2
    <3> HIDE DEF Upper, g
    <3> QED
      BY <3>3
  <2>3. \E f : Upper(size, f)
    <3>1. size \in 0..size
      BY <1>1
    <3> HIDE DEF P, size
    <3>2. \A n \in 0..size : n \in P
      BY <1>1, <2>1, <2>2, UpTo
    <3>3. size \in P
      BY <3>1, <3>2
    <3> QED
      BY <3>3 DEF P
  <2> DEFINE flatten == CHOOSE f : f = [i \in 1..size |-> Step(i, f)]
  <2>4. flatten = [i \in 1..size |-> Step(i, flatten)]
    BY <2>3
  <2>5. FlattenSeq(seqs) = flatten[size]
    BY <1>3 DEF FlattenSeq
  <2>6. \A n \in 1..size : flatten[n] = IF n = 1 THEN seqs[n] ELSE flatten[n - 1] \o seqs[n]
    BY <2>4
  <2> HIDE DEF flatten
  <2> DEFINE off == [i \in 1..size |-> IF i = 1 THEN 0 ELSE Len(flatten[i - 1])]
             Placed(n) ==
               /\ \A i \in 1..n : \A j \in DOMAIN seqs[i] :
                    off[i] + j \in DOMAIN flatten[n] /\ flatten[n][off[i] + j] = seqs[i][j]
               /\ \A m \in DOMAIN flatten[n] : \E i \in 1..n : \E j \in DOMAIN seqs[i] : m = off[i] + j
             Q == {n \in 0..size : n # 0 => flatten[n] \in Seq(S) /\ off[n] \in Nat /\ Placed(n)}
  <2>7. ASSUME NEW n \in 1..size, n - 1 \in Q PROVE n \in Q
    <3>1. CASE n = 1
      <4>1. flatten[n] = seqs[1] /\ off[1] = 0 /\ seqs[1] \in Seq(S)
        BY <1>1, <2>6, <3>1
      <4>2. DOMAIN seqs[1] = 1..Len(seqs[1]) /\ Len(seqs[1]) \in Nat
        BY <4>1
      <4>3. \A j \in DOMAIN seqs[1] : off[1] + j = j
        BY <4>1, <4>2
      <4>4. 1..n = {1}
        BY <3>1
      <4> HIDE DEF off
      <4>5. Placed(n)
        BY <3>1, <4>1, <4>3, <4>4
      <4> HIDE DEF Placed
      <4> QED
        BY <3>1, <4>1, <4>5
    <3>2. CASE n # 1
      <4> DEFINE old == flatten[n - 1]
                 new == seqs[n]
      <4>1. n - 1 \in 1..size /\ n - 1 # 0 /\ 1..n = (1..(n - 1)) \cup {n} /\ n \in 1..n
        BY <1>1, <3>2
      <4>2. old \in Seq(S) /\ new \in Seq(S) /\ Placed(n - 1)
        BY <1>1, <2>7, <4>1
      <4>3. flatten[n] = old \o new /\ off[n] = Len(old)
        BY <2>6, <3>2
      <4> HIDE DEF old, new, off
      <4>4. /\ Len(old) \in Nat /\ Len(new) \in Nat
            /\ DOMAIN old = 1..Len(old) /\ DOMAIN new = 1..Len(new)
            /\ old \o new \in Seq(S) /\ DOMAIN (old \o new) = 1..(Len(old) + Len(new))
            /\ \A j \in 1..Len(old) : (old \o new)[j] = old[j]
            /\ \A j \in 1..Len(new) : (old \o new)[Len(old) + j] = new[j]
        BY <4>2
      <4>5. ASSUME NEW i \in 1..n, NEW j \in DOMAIN seqs[i]
            PROVE  off[i] + j \in DOMAIN flatten[n] /\ flatten[n][off[i] + j] = seqs[i][j]
        <5>1. CASE i = n
          <6>1. j \in 1..Len(new) /\ off[i] = Len(old) /\ seqs[i] = new
            BY <4>3, <4>4, <4>5, <5>1 DEF new
          <6>2. Len(old) + j \in 1..(Len(old) + Len(new))
            BY <4>4, <6>1
          <6> QED
            BY <4>3, <4>4, <6>1, <6>2
        <5>2. CASE i # n
          <6>1. i \in 1..(n - 1)
            BY <4>1, <5>2
          <6>2. off[i] + j \in DOMAIN old /\ old[off[i] + j] = seqs[i][j]
            BY <4>2, <4>5, <6>1 DEF old
          <6>3. off[i] + j \in 1..Len(old)
            BY <4>4, <6>2
          <6>4. off[i] + j \in 1..(Len(old) + Len(new))
            BY <4>4, <6>3
          <6> QED
            BY <4>3, <4>4, <6>2, <6>3, <6>4
        <5> QED
          BY <5>1, <5>2
      <4>6. ASSUME NEW m \in DOMAIN flatten[n]
            PROVE  \E i \in 1..n : \E j \in DOMAIN seqs[i] : m = off[i] + j
        <5>1. m \in 1..(Len(old) + Len(new))
          BY <4>3, <4>4
        <5>2. CASE m <= Len(old)
          <6>1. m \in DOMAIN old
            BY <4>4, <5>1, <5>2
          <6>2. PICK i \in 1..(n - 1) : \E j \in DOMAIN seqs[i] : m = off[i] + j
            BY <4>2, <6>1 DEF old
          <6> QED
            BY <4>1, <6>2
        <5>3. CASE ~(m <= Len(old))
          <6>1. m - Len(old) \in 1..Len(new) /\ m = Len(old) + (m - Len(old))
            BY <4>4, <5>1, <5>3
          <6>2. m - Len(old) \in DOMAIN seqs[n]
            BY <4>4, <6>1 DEF new
          <6> QED
            BY <4>1, <4>3, <6>1, <6>2
        <5> QED
          BY <5>2, <5>3
      <4>7. Placed(n)
        BY <4>5, <4>6
      <4>8. flatten[n] \in Seq(S) /\ off[n] \in Nat
        BY <4>3, <4>4
      <4> HIDE DEF Placed
      <4> QED
        BY <4>7, <4>8
    <3> QED
      BY <3>1, <3>2
  <2>8. 0 \in Q /\ size \in 0..size
    BY <1>1
  <2>9. \A n \in 0..size : n \in Q
    <3> HIDE DEF Q, size
    <3> QED
      BY <1>1, <2>7, <2>8, UpTo
  <2>10. flatten[size] \in Seq(S) /\ Placed(size)
    <3> HIDE DEF Placed, off
    <3> QED
      BY <1>3, <2>8, <2>9
  <2>11. off \in [DOMAIN seqs -> Nat]
    <3>1. \A n \in 1..size : off[n] \in Nat
      <4> SUFFICES ASSUME NEW n \in 1..size PROVE off[n] \in Nat
        OBVIOUS
      <4>1. n \in 0..size /\ n # 0
        BY <1>1
      <4>2. n \in Q
        BY <2>9, <4>1
      <4> HIDE DEF Placed, off
      <4> QED
        BY <4>1, <4>2
    <3> QED
      BY <1>1, <3>1
  <2>12. Places(off, seqs, FlattenSeq(seqs))
    <3> HIDE DEF off, size
    <3>1. ASSUME NEW i \in DOMAIN seqs, NEW j \in DOMAIN seqs[i]
          PROVE  off[i] + j \in DOMAIN flatten[size] /\ flatten[size][off[i] + j] = seqs[i][j]
      <4>1. i \in 1..size
        BY <1>1
      <4> QED
        BY <2>10, <4>1
    <3>2. ASSUME NEW n \in DOMAIN flatten[size]
          PROVE  \E i \in DOMAIN seqs : \E j \in DOMAIN seqs[i] : n = off[i] + j
      <4>1. PICK i \in 1..size : \E j \in DOMAIN seqs[i] : n = off[i] + j
        BY <2>10
      <4> QED
        BY <1>1, <4>1
    <3> HIDE DEF Placed
    <3> QED
      BY <2>5, <3>1, <3>2 DEF Places
  <2> HIDE DEF off
  <2> QED
    BY <2>5, <2>10, <2>11, <2>12
<1> QED
  BY <1>2, <1>3

LEMMA EnumerationCovers ==
    ASSUME NEW A, IsFiniteSet(A)
    PROVE  LET s == SetToSeq(A)
           IN  /\ s \in [1..Cardinality(A) -> A] /\ Cardinality(A) \in Nat
               /\ \A x \in A : \E i \in 1..Cardinality(A) : s[i] = x
               /\ \A i, j \in 1..Cardinality(A) : s[i] = s[j] => i = j
<1> DEFINE n == Cardinality(A)
           s == SetToSeq(A)
<1>1. Cardinality(A) \in Nat /\ ExistsBijection(1..Cardinality(A), A)
  BY FS_CardinalityType
<1>2. PICK f \in Bijection(1..Cardinality(A), A) : TRUE
  BY <1>1 DEF ExistsBijection
<1>3. f \in [1..Cardinality(A) -> A] /\ IsInjective(f)
  BY <1>2 DEF Bijection, Injection, IsInjective
<1>4. s \in [1..n -> A] /\ IsInjective(s)
  BY <1>3 DEF SetToSeq
<1> HIDE DEF s, n
<1>5. \A i, j \in 1..n : s[i] = s[j] => i = j
  BY <1>4 DEF IsInjective
<1> DEFINE T == {s[i] : i \in 1..n}
<1>6. s \in Bijection(1..n, T)
  <2>1. s \in [1..n -> T] /\ \A t \in T : \E i \in 1..n : s[i] = t
    BY <1>4
  <2> HIDE DEF T
  <2>2. s \in Injection(1..n, T) /\ s \in Surjection(1..n, T)
    BY <1>5, <2>1 DEF Injection, Surjection, IsInjective
  <2> QED
    BY <2>2 DEF Bijection
<1>7. IsFiniteSet(1..n) /\ Cardinality(1..n) = n
  BY <1>1, FS_Interval DEF n
<1>8. Cardinality(T) = n
  <2> HIDE DEF T
  <2> QED
    BY <1>6, <1>7, FS_Bijection DEF ExistsBijection
<1>9. T \subseteq A
  BY <1>4
<1>10. T = A
  BY <1>8, <1>9, FS_Subset DEF n
<1> QED
  BY <1>1, <1>4, <1>5, <1>10 DEF n, s

LEMMA CanonicalAreFacts ==
    ASSUME NEW payload \in Seq(Facts)
    PROVE  FactSet(Canonicalize(payload))
BY DedupeIsFinite, DerivedAreFacts, FS_Union DEF FactSet, Canonicalize

\* The rows of one concept.
FactRows == [end : Int, days : Int, fy : Int, filed : Int, value : Int]
RowSet(R) == R \in SUBSET FactRows /\ IsFiniteSet(R)

LEMMA BuiltAreRows ==
    ASSUME NEW facts, FactSet(facts), NEW concept
    PROVE  RowSet(BuildFundamentals(facts, concept))
<1> DEFINE of == {g \in facts : g.concept = concept}
           h == [f \in of |-> [end |-> f.end, days |-> f.days, fy |-> f.fy, filed |-> f.filed,
                               value |-> f.value]]
<1>1. IsFiniteSet(of) /\ of \subseteq Facts
  BY FS_Subset DEF FactSet
<1>2. \A f \in of : h[f] \in FactRows
  BY <1>1 DEF Facts, FactRows
<1>3. BuildFundamentals(facts, concept) = {h[f] : f \in of}
  BY DEF BuildFundamentals
<1>4. IsFiniteSet({h[f] : f \in of})
  <2>1. DOMAIN h = of
    OBVIOUS
  <2> HIDE DEF h, of
  <2> QED
    BY <1>1, <2>1, ImageIsFinite
<1> QED
  BY <1>2, <1>3, <1>4 DEF RowSet

\* The parts of a payload: the history, and what has arrived.
PartsOf(A) == {<<>>} \cup {<<x>> : x \in A}
FactsOf(k) == IF k = <<>> THEN Histories[company] ELSE Arrivals[k[1]].facts

PayloadOf(A) ==
    LET later == SetToSeq(A)
    IN  Histories[company] \o FlattenSeq([i \in DOMAIN later |-> Arrivals[later[i]].facts])

LEMMA PayloadHasPlaces ==
    ASSUME NEW A \in SUBSET DOMAIN Arrivals, company \in DOMAIN Histories
    PROVE  /\ PayloadOf(A) \in Seq(Facts)
           /\ \E off \in [PartsOf(A) -> Nat] :
                 Places(off, [k \in PartsOf(A) |-> FactsOf(k)], PayloadOf(A))
<1> DEFINE later == SetToSeq(A)
           parts == [i \in DOMAIN later |-> Arrivals[later[i]].facts]
           H == Histories[company]
           rest == FlattenSeq(parts)
           seqs == [k \in PartsOf(A) |-> FactsOf(k)]
           n == Len(H)
<1>1. IsFiniteSet(A)
  BY PayloadsAreFacts, FS_Subset
<1>2. /\ Cardinality(A) \in Nat /\ DOMAIN later = 1..Cardinality(A)
      /\ \A i \in DOMAIN later : later[i] \in A
      /\ \A x \in A : \E i \in DOMAIN later : later[i] = x
      /\ \A i, j \in DOMAIN later : later[i] = later[j] => i = j
  BY <1>1, EnumerationCovers
<1> HIDE DEF later
<1>3. parts \in Seq(Seq(Facts))
  <2>1. \A i \in DOMAIN later : parts[i] \in Seq(Facts)
    BY <1>2, PayloadsAreFacts
  <2> QED
    BY <1>2, <2>1
<1>4. rest \in Seq(Facts) /\ \E off \in [DOMAIN parts -> Nat] : Places(off, parts, rest)
  <2> HIDE DEF parts
  <2> QED
    BY <1>3, FlattenHasPlaces
<1>5. PICK o \in [DOMAIN parts -> Nat] : Places(o, parts, rest)
  BY <1>4
<1>6. H \in Seq(Facts) /\ n \in Nat
  BY PayloadsAreFacts
<1>7. PayloadOf(A) = H \o rest
  BY DEF PayloadOf, later
<1> DEFINE whole == H \o rest
           at == [x \in A |-> CHOOSE i \in DOMAIN later : later[i] = x]
           off == [k \in PartsOf(A) |-> IF k = <<>> THEN 0 ELSE n + o[at[k[1]]]]
<1>8. \A x \in A : at[x] \in DOMAIN later /\ later[at[x]] = x
  BY <1>2
<1>9. \A i \in DOMAIN later : at[later[i]] = i
  <2> SUFFICES ASSUME NEW i \in DOMAIN later PROVE at[later[i]] = i
    OBVIOUS
  <2>1. later[i] \in A
    BY <1>2
  <2>2. at[later[i]] \in DOMAIN later /\ later[at[later[i]]] = later[i]
    BY <1>8, <2>1
  <2> HIDE DEF at
  <2> QED
    BY <1>2, <2>2
<1> HIDE DEF at
<1>10. /\ <<>> \in PartsOf(A) /\ \A x \in A : <<x>> \in PartsOf(A) /\ <<x>> # <<>>
       /\ \A k \in PartsOf(A) : k # <<>> => k[1] \in A /\ k = <<k[1]>>
  BY DEF PartsOf
<1>11. DOMAIN parts = DOMAIN later /\ \A i \in DOMAIN later : parts[i] = Arrivals[later[i]].facts
  OBVIOUS
<1>12. whole \in Seq(Facts) /\ DOMAIN whole = 1..(n + Len(rest)) /\ Len(rest) \in Nat
       /\ DOMAIN H = 1..n /\ DOMAIN rest = 1..Len(rest)
       /\ (\A i \in 1..n : whole[i] = H[i])
       /\ (\A i \in 1..Len(rest) : whole[n + i] = rest[i])
  <2> HIDE DEF rest, H
  <2>1. H \in Seq(Facts) /\ rest \in Seq(Facts)
    BY <1>4, <1>6
  <2> QED
    BY <2>1
<1> HIDE DEF whole, rest, parts
<1>13. off \in [PartsOf(A) -> Nat]
  <2> SUFFICES ASSUME NEW k \in PartsOf(A) PROVE off[k] \in Nat
    OBVIOUS
  <2>1. CASE k = <<>>
    BY <2>1
  <2>2. CASE k # <<>>
    <3>1. at[k[1]] \in DOMAIN parts
      BY <1>8, <1>10, <1>11, <2>2
    <3>2. o[at[k[1]]] \in Nat
      BY <3>1
    <3> HIDE DEF n
    <3> QED
      BY <1>6, <2>2, <3>2
  <2> QED
    BY <2>1, <2>2
<1>14. /\ FactsOf(<<>>) = H
       /\ \A x \in A : FactsOf(<<x>>) = Arrivals[x].facts
  BY <1>10 DEF FactsOf
<1>15. ASSUME NEW k \in PartsOf(A), NEW j \in DOMAIN seqs[k]
       PROVE  off[k] + j \in DOMAIN whole /\ whole[off[k] + j] = seqs[k][j]
  <2>1. CASE k = <<>>
    <3>1. seqs[k] = H /\ off[k] = 0 /\ j \in 1..n
      BY <1>12, <1>14, <2>1
    <3>2. 0 + j = j /\ j \in 1..(n + Len(rest))
      BY <1>6, <1>12, <3>1
    <3> HIDE DEF seqs, off, n, H
    <3> QED
      BY <1>12, <3>1, <3>2
  <2>2. CASE k # <<>>
    <3> DEFINE x == k[1]  i == at[x]
    <3>1. x \in A /\ k = <<x>> /\ i \in DOMAIN later /\ later[i] = x
      BY <1>8, <1>10, <2>2
    <3>2. parts[i] = Arrivals[x].facts /\ i \in DOMAIN parts
      BY <1>11, <3>1
    <3>3. seqs[k] = parts[i]
      BY <1>14, <3>1, <3>2
    <3>4. off[k] = n + o[i] /\ o[i] \in Nat
      BY <2>2, <3>2
    <3>5. j \in DOMAIN parts[i]
      BY <3>3
    <3> HIDE DEF x, i
    <3>6. o[i] + j \in DOMAIN rest /\ rest[o[i] + j] = parts[i][j]
      BY <1>5, <3>2, <3>5 DEF Places
    <3>7. parts[i] \in Seq(Facts)
      BY <1>3, <3>2 DEF parts
    <3>8. j \in Nat
      <4>1. DOMAIN parts[i] = 1..Len(parts[i]) /\ Len(parts[i]) \in Nat
        BY <3>7
      <4> QED
        BY <3>5, <4>1
    <3> DEFINE m == o[i] + j
    <3>9. m \in 1..Len(rest) /\ rest[m] = parts[i][j]
      BY <1>12, <3>6
    <3>10. off[k] + j = n + m
      <4> HIDE DEF n, off
      <4> QED
        BY <1>6, <3>4, <3>8
    <3> HIDE DEF m, off, seqs, n, H
    <3>11. n + m \in 1..(n + Len(rest)) /\ whole[n + m] = rest[m]
      BY <1>6, <1>12, <3>9
    <3> QED
      BY <1>12, <3>3, <3>9, <3>10, <3>11
  <2> QED
    BY <2>1, <2>2
<1>16. ASSUME NEW t \in DOMAIN whole
       PROVE  \E k \in PartsOf(A) : \E j \in DOMAIN seqs[k] : t = off[k] + j
  <2>1. t \in 1..(n + Len(rest)) /\ t \in Int
    BY <1>12
  <2>2. CASE t <= n
    <3>1. seqs[<<>>] = H /\ off[<<>>] = 0
      BY <1>10, <1>14
    <3>2. t \in DOMAIN H /\ t = 0 + t
      <4> HIDE DEF n, H
      <4> QED
        BY <1>6, <1>12, <2>1, <2>2
    <3> HIDE DEF seqs, off, H
    <3> QED
      BY <1>10, <3>1, <3>2
  <2>3. CASE ~(t <= n)
    <3> DEFINE m == t - n
    <3>1. m \in DOMAIN rest /\ t = n + m /\ m \in Int
      <4> HIDE DEF n
      <4> QED
        BY <1>6, <1>12, <2>1, <2>3
    <3> HIDE DEF m
    <3>9. PICK i \in DOMAIN parts : \E j \in DOMAIN parts[i] : m = o[i] + j
      BY <1>5, <3>1 DEF Places
    <3>2. PICK j \in DOMAIN parts[i] : m = o[i] + j
      BY <3>9
    <3> DEFINE x == later[i]  k == <<x>>
    <3>3. i \in DOMAIN later /\ x \in A /\ at[x] = i /\ parts[i] = Arrivals[x].facts
      BY <1>2, <1>9, <1>11
    <3>4. k \in PartsOf(A) /\ k # <<>> /\ k[1] = x
      BY <1>10, <3>3
    <3>5. seqs[k] = parts[i]
      BY <1>14, <3>3, <3>4
    <3>6. off[k] = n + o[i]
      BY <3>3, <3>4
    <3>7. o[i] \in Nat /\ j \in Int
      <4>1. parts[i] \in Seq(Facts)
        BY <1>3
      <4>2. DOMAIN parts[i] = 1..Len(parts[i])
        BY <4>1
      <4> QED
        BY <4>2
    <3> HIDE DEF seqs, off, k, n
    <3>8. t = off[k] + j
      BY <1>6, <3>1, <3>2, <3>6, <3>7
    <3> QED
      BY <3>4, <3>5, <3>8
  <2> QED
    BY <2>2, <2>3
<1>17. Places(off, seqs, whole)
  <2>1. DOMAIN seqs = PartsOf(A)
    OBVIOUS
  <2> HIDE DEF seqs, off
  <2> QED
    BY <1>15, <1>16, <2>1 DEF Places
<1> HIDE DEF off, seqs
<1> QED
  BY <1>7, <1>12, <1>13, <1>17 DEF whole, seqs

\* What the table holds of each concept.
RowTable(t) == DOMAIN t = Concepts /\ \A c \in Concepts : RowSet(t[c])

LEMMA RowsAreTyped ==
    ASSUME NEW A \in SUBSET DOMAIN Arrivals, company \in DOMAIN Histories
    PROVE  RowTable(RowsOf(A))
<1> DEFINE rows == Canonicalize(PayloadOf(A))
<1>1. FactSet(rows)
  BY PayloadHasPlaces, CanonicalAreFacts
<1>2. RowsOf(A) = [concept \in Concepts |-> BuildFundamentals(rows, concept)]
  BY DEF RowsOf, PayloadOf
<1> HIDE DEF rows
<1> QED
  BY <1>1, <1>2, BuiltAreRows DEF RowTable

-----------------------------------------------------------------------------
(* From rows to the derived metrics and their medians.                     *)

Numbers == Int \cup {None}

LEMMA NewestIsThere ==
    ASSUME NEW F, RowSet(F), F # {}
    PROVE  Newest(F) \in F
<1> DEFINE major == [f \in F |-> f.end]
           minor == [f \in F |-> FiledRank(f)]
<1>1. IsFiniteSet(F) /\ major \in [F -> Int] /\ minor \in [F -> Int]
  BY DEF RowSet, FactRows, FiledRank
<1>2. \A f \in F : major[f] = f.end /\ minor[f] = FiledRank(f)
  OBVIOUS
<1> HIDE DEF major, minor
<1>3. \E f \in F : \A g \in F : major[f] > major[g] \/ (major[f] = major[g] /\ minor[f] >= minor[g])
  BY <1>1, LastByTwoKeys
<1>4. \E f \in F : \A g \in F : f.end > g.end \/ (f.end = g.end /\ FiledRank(f) >= FiledRank(g))
  BY <1>2, <1>3
<1> QED
  BY <1>4 DEF Newest

LEMMA LatestIsANumber ==
    ASSUME NEW t, RowTable(t), NEW c \in Concepts, NEW asOf
    PROVE  Latest(t, c, asOf) \in Numbers
<1> DEFINE F == {f \in t[c] : Observable(f, asOf) /\ (f.days = 0 \/ Annual(f))}
<1>1. RowSet(F)
  BY FS_Subset DEF RowTable, RowSet
<1>2. CASE F = {}
  BY <1>2 DEF Latest, Numbers
<1>3. CASE F # {}
  <2>1. Newest(F) \in F
    <3> HIDE DEF F
    <3> QED
      BY <1>1, <1>3, NewestIsThere
  <2>2. Newest(F).value \in Int
    BY <1>1, <2>1 DEF RowSet, FactRows
  <2>3. Latest(t, c, asOf) = Newest(F).value
    BY <1>3 DEF Latest
  <2> QED
    BY <2>2, <2>3 DEF Numbers
<1> QED
  BY <1>2, <1>3

LEMMA LabelledIsThere ==
    ASSUME NEW F, RowSet(F), F # {}
    PROVE  LastLabelled(F) \in F
<1> DEFINE major == [f \in F |-> f.fy]
           minor == [f \in F |-> FiledRank(f)]
<1>1. IsFiniteSet(F) /\ major \in [F -> Int] /\ minor \in [F -> Int]
  BY DEF RowSet, FactRows, FiledRank
<1>2. \A f \in F : major[f] = f.fy /\ minor[f] = FiledRank(f)
  OBVIOUS
<1> HIDE DEF major, minor
<1>3. \E f \in F : \A g \in F : major[f] > major[g] \/ (major[f] = major[g] /\ minor[f] >= minor[g])
  BY <1>1, LastByTwoKeys
<1>4. \E f \in F : \A g \in F : f.fy > g.fy \/ (f.fy = g.fy /\ FiledRank(f) >= FiledRank(g))
  BY <1>2, <1>3
<1> QED
  BY <1>4 DEF LastLabelled

Points == [end : Int, value : Int]

\* Reported over a table: the years with an annual fact observable at the date.
ReportedIn(t, concept, asOf) ==
    {f.end : f \in {g \in t[concept] : Annual(g) /\ Observable(g, asOf)}}

LEMMA AppendAddsOne ==
    ASSUME NEW T, NEW q \in Seq(T), NEW p \in T
    PROVE  /\ Append(q, p) \in Seq(T) /\ Len(Append(q, p)) = Len(q) + 1 /\ Len(q) \in Nat
           /\ DOMAIN Append(q, p) = 1..(Len(q) + 1) /\ DOMAIN q = 1..Len(q)
           /\ Append(q, p)[Len(q) + 1] = p /\ \A i \in 1..Len(q) : Append(q, p)[i] = q[i]
OBVIOUS

LEMMA SeriesCounts ==
    ASSUME NEW t, RowTable(t), NEW c \in Concepts, NEW asOf
    PROVE  /\ Series(t, c, asOf) \in Seq(Points)
           /\ Len(Series(t, c, asOf)) = Cardinality(ReportedIn(t, c, asOf))
           /\ \A i \in DOMAIN Series(t, c, asOf) :
                Series(t, c, asOf)[i].end \in ReportedIn(t, c, asOf)
<1> DEFINE F == {f \in t[c] : Observable(f, asOf) /\ Annual(f)}
           of(end) == {f \in F : f.end = end}
           point(end) == [end |-> end, value |-> LastLabelled(of(end)).value]
           ends == [f \in F |-> f.end]
           S == {f.end : f \in F}
           R == Seq(Points)
           pick == [s \in SUBSET S |-> Max(s)]
           step == [p \in S \X R |-> Append(p[2], point(p[1]))]
<1>1. RowSet(F)
  BY FS_Subset DEF RowTable, RowSet
<1> HIDE DEF F
<1>2. IsFiniteSet(S) /\ S \subseteq Int
  <2>1. DOMAIN ends = F /\ S = {ends[f] : f \in F} /\ IsFiniteSet(F)
    BY <1>1 DEF RowSet
  <2>2. S \subseteq Int
    BY <1>1 DEF RowSet, FactRows
  <2> HIDE DEF ends, S
  <2> QED
    BY <2>1, <2>2, ImageIsFinite
<1>3. \A end \in S : point(end) \in Points
  <2> SUFFICES ASSUME NEW end \in S PROVE point(end) \in Points
    OBVIOUS
  <2>1. RowSet(of(end)) /\ of(end) # {}
    BY <1>1, FS_Subset DEF RowSet
  <2>2. LastLabelled(of(end)) \in of(end)
    <3> HIDE DEF of
    <3> QED
      BY <2>1, LabelledIsThere
  <2>3. LastLabelled(of(end)).value \in Int
    BY <2>1, <2>2 DEF RowSet, FactRows
  <2> HIDE DEF of
  <2> QED
    BY <1>2, <2>3 DEF Points
<1> HIDE DEF S, point
<1>4. Takes(pick, S)
  <2>1. \A s \in SUBSET S : s # {} => Max(s) \in s
    BY <1>2, FS_Subset, Extremes
  <2> QED
    BY <2>1 DEF Takes
<1>5. <<>> \in R /\ step \in [S \X R -> R]
  BY <1>3
<1>6. \E f \in [SUBSET S -> R] : Folds(f, S, pick, <<>>, step)
  <2> DEFINE base == <<>>
  <2>1. base \in R /\ StepsIn(step, S, R)
    BY <1>5 DEF StepsIn
  <2> HIDE DEF pick, step, R, base
  <2>2. \E f \in [SUBSET S -> R] : Folds(f, S, pick, base, step)
    BY <1>2, <1>4, <2>1, TakingRecursion
  <2> QED
    BY <2>2 DEF base
<1> DEFINE Step(s, f) == IF s = {} THEN <<>> ELSE Append(f[s \ {Max(s)}], point(Max(s)))
<1>7. \E f : f = [s \in SUBSET S |-> Step(s, f)]
  <2>1. PICK f \in [SUBSET S -> R] :
           f = [s \in SUBSET S |-> IF s = {} THEN <<>> ELSE step[<<pick[s], f[s \ {pick[s]}]>>]]
    BY <1>6 DEF Folds
  <2>2. ASSUME NEW s \in SUBSET S
        PROVE  f[s] = Step(s, f)
    <3>1. CASE s = {}
      BY <2>1, <3>1
    <3>2. CASE s # {}
      <4>1. Max(s) \in S /\ s \ {Max(s)} \in SUBSET S
        BY <1>4, <3>2 DEF Takes
      <4>2. f[s \ {Max(s)}] \in R
        BY <2>1, <4>1
      <4>3. f[s] = step[<<Max(s), f[s \ {Max(s)}]>>]
        BY <2>1, <3>2
      <4> QED
        BY <3>2, <4>1, <4>2, <4>3
    <3> QED
      BY <3>1, <3>2
  <2>3. f = [s \in SUBSET S |-> Step(s, f)]
    <3> HIDE DEF Step, R
    <3> QED
      BY <2>1, <2>2
  <2> HIDE DEF Step
  <2> QED
    BY <2>3
<1> DEFINE iter == CHOOSE f : f = [s \in SUBSET S |-> Step(s, f)]
<1>8. iter = [s \in SUBSET S |-> Step(s, iter)]
  BY <1>7
<1>9. Series(t, c, asOf) = iter[S]
  BY DEF Series, MapThenFoldSet, S, F, point
<1> HIDE DEF iter
<1> DEFINE Good == {s \in SUBSET S : /\ iter[s] \in R /\ Len(iter[s]) = Cardinality(s)
                                     /\ \A i \in DOMAIN iter[s] : iter[s][i].end \in s}
<1>10. {} \in Good
  <2>1. iter[{}] = <<>>
    BY <1>8
  <2>2. Cardinality({}) = 0 /\ Len(<<>>) = 0 /\ DOMAIN <<>> = {}
    BY FS_EmptySet
  <2> QED
    BY <1>5, <2>1, <2>2
<1>11. ASSUME NEW s \in SUBSET S, s # {}, s \ {pick[s]} \in Good PROVE s \in Good
  <2> DEFINE m == Max(s)  q == iter[s \ {m}]  p == point(m)
  <2>1. /\ q \in R /\ Len(q) = Cardinality(s \ {m})
        /\ \A i \in DOMAIN q : q[i].end \in s \ {m}
    <3>1. pick[s] = m
      OBVIOUS
    <3> HIDE DEF pick, m, R
    <3> QED
      BY <1>11, <3>1
  <2>2. m \in S /\ m \in s
    BY <1>4, <1>11 DEF Takes
  <2>3. iter[s] = Append(q, p)
    BY <1>8, <1>11
  <2>4. p \in Points /\ p.end = m
    BY <1>3, <2>2 DEF point
  <2> HIDE DEF q, p, m
  <2>5. /\ Append(q, p) \in R /\ Len(Append(q, p)) = Len(q) + 1 /\ Len(q) \in Nat
        /\ DOMAIN Append(q, p) = 1..(Len(q) + 1) /\ DOMAIN q = 1..Len(q)
        /\ Append(q, p)[Len(q) + 1] = p /\ \A i \in 1..Len(q) : Append(q, p)[i] = q[i]
    <3>1. q \in Seq(Points) /\ p \in Points
      BY <2>1, <2>4
    <3> QED
      BY <3>1, AppendAddsOne
  <2>6. Cardinality(s) = Cardinality(s \ {m}) + 1
    <3>1. IsFiniteSet(s)
      BY <1>2, FS_Subset
    <3>2. Cardinality(s \ {m}) = Cardinality(s) - 1 /\ Cardinality(s) \in Nat
      BY <2>2, <3>1, FS_RemoveElement, FS_CardinalityType
    <3> QED
      BY <3>2
  <2>7. \A i \in 1..(Len(q) + 1) : Append(q, p)[i].end \in s
    <3> SUFFICES ASSUME NEW i \in 1..(Len(q) + 1) PROVE Append(q, p)[i].end \in s
      OBVIOUS
    <3>1. CASE i = Len(q) + 1
      BY <2>2, <2>4, <2>5, <3>1
    <3>2. CASE i # Len(q) + 1
      <4>1. i \in 1..Len(q)
        BY <2>5, <3>2
      <4> QED
        BY <2>1, <2>5, <4>1
    <3> QED
      BY <3>1, <3>2
  <2>8. iter[s] \in R /\ Len(iter[s]) = Cardinality(s) /\ \A i \in DOMAIN iter[s] : iter[s][i].end \in s
    <3> HIDE DEF R
    <3> QED
      BY <2>1, <2>3, <2>5, <2>6, <2>7
  <2> HIDE DEF R
  <2> QED
    BY <2>8
<1>12. \A s \in SUBSET S : s \in Good
  <2>1. \A s \in SUBSET S : s # {} /\ s \ {pick[s]} \in Good => s \in Good
    <3> HIDE DEF Good, pick, step, R
    <3> QED
      BY <1>11
  <2>2. IsFiniteSet(S)
    BY <1>2
  <2> HIDE DEF Good, pick, step, R, of, ends, Step
  <2> QED
    BY <2>2, <1>4, <1>10, <2>1, TakingInduction
<1>13. S = ReportedIn(t, c, asOf)
  BY DEF S, F, ReportedIn
<1>14. S \in Good
  <2>1. S \in SUBSET S
    OBVIOUS
  <2> HIDE DEF Good
  <2> QED
    BY <1>12, <2>1
<1> QED
  BY <1>9, <1>13, <1>14

LEMMA SeriesIsTyped ==
    ASSUME NEW t, RowTable(t), NEW c \in Concepts, NEW asOf
    PROVE  Series(t, c, asOf) \in Seq(Points)
BY SeriesCounts

LEMMA RatioIsANumber ==
    ASSUME NEW num \in Numbers, NEW den \in Numbers, NEW scale \in Int
    PROVE  Ratio(num, den, scale) \in Numbers
<1>1. CASE num = None \/ ~Positive(den)
  BY <1>1 DEF Ratio, Numbers
<1>2. CASE num # None /\ Positive(den)
  <2>1. num \in Int /\ den \in Int /\ den > 0
    BY <1>2 DEF Numbers, Positive
  <2>2. scale * num \in Int
    BY <2>1
  <2>3. (scale * num) \div den \in Int
    BY <2>1, <2>2
  <2> QED
    BY <1>2, <2>3 DEF Ratio, Numbers
<1> QED
  BY <1>1, <1>2

LEMMA MarketCapIsANumber ==
    ASSUME NEW price \in Int, NEW shares \in Numbers
    PROVE  MarketCap(price, shares) \in Numbers
<1>1. CASE Positive(price) /\ Positive(shares)
  <2>1. shares \in Int
    BY <1>1 DEF Numbers, Positive
  <2>2. price * shares \in Int
    BY <2>1
  <2>3. (price * shares) \div 100 \in Int
    BY <2>2
  <2> QED
    BY <1>1, <2>3 DEF MarketCap, Numbers
<1>2. CASE ~(Positive(price) /\ Positive(shares))
  BY <1>2 DEF MarketCap, Numbers
<1> QED
  BY <1>1, <1>2

LEMMA RoicIsANumber ==
    ASSUME NEW f, NEW tax,
           \A c \in {"operating_income", "shareholders_equity", "total_debt",
                     "cash_and_equivalents"} : f[c] \in Numbers
    PROVE  Roic(f, tax) \in Numbers
<1> DEFINE Needed == {"operating_income", "shareholders_equity", "total_debt", "cash_and_equivalents"}
           invested == f.shareholders_equity + f.total_debt - f.cash_and_equivalents
<1>1. CASE (\E c \in Needed : f[c] = None) \/ tax \notin 0..999
  BY <1>1 DEF Roic, Numbers
<1>2. CASE ~((\E c \in Needed : f[c] = None) \/ tax \notin 0..999)
  <2>1. /\ f.operating_income \in Int /\ f.shareholders_equity \in Int
        /\ f.total_debt \in Int /\ f.cash_and_equivalents \in Int /\ tax \in Int
    BY <1>2 DEF Numbers
  <2>2. invested \in Int /\ f.operating_income * (1000 - tax) \in Int
    BY <2>1
  <2>3. Roic(f, tax) = IF invested <= 0 THEN None
                       ELSE (f.operating_income * (1000 - tax)) \div invested
    BY <1>2 DEF Roic
  <2>4. CASE invested <= 0
    BY <2>3, <2>4 DEF Numbers
  <2>5. CASE ~(invested <= 0)
    <3> DEFINE earned == f.operating_income * (1000 - tax)
    <3>1. earned \in Int /\ invested \in Int /\ invested > 0
      BY <2>2, <2>5
    <3>2. Roic(f, tax) = earned \div invested
      BY <2>3, <2>5
    <3> HIDE DEF earned, invested
    <3>3. earned \div invested \in Int
      BY <3>1
    <3> QED
      BY <3>2, <3>3 DEF Numbers
  <2> QED
    BY <2>4, <2>5
<1> QED
  BY <1>1, <1>2

\* The metrics that the relative engine compares.
LEMMA FirstMetricsAreNumbers ==
    ASSUME NEW f, \A c \in MetricConcepts : f[c] \in Numbers,
           NEW price \in Int, NEW growth, NEW m \in Legacy \cap Compared
    PROVE  MetricsV1(f, price, growth)[m] \in Numbers
<1> DEFINE mc == MarketCap(price, f.shares_outstanding)
           eps == Ratio(f.net_earnings, f.shares_outstanding, 100)
           pe == IF price > 0 THEN Ratio(price, eps, 1000) ELSE None
<1>1. /\ f.shares_outstanding \in Numbers /\ f.net_earnings \in Numbers
      /\ f.shareholders_equity \in Numbers /\ f.free_cash_flow \in Numbers
  BY DEF MetricConcepts
<1>2. mc \in Numbers /\ eps \in Numbers
  BY <1>1, MarketCapIsANumber, RatioIsANumber
<1>3. pe \in Numbers
  <2>1. price \in Numbers /\ None \in Numbers
    BY DEF Numbers
  <2> HIDE DEF eps
  <2> QED
    BY <1>2, <2>1, RatioIsANumber
<1> HIDE DEF mc, eps
<1>4. /\ Ratio(mc, f.shareholders_equity, 1000) \in Numbers
      /\ Ratio(f.net_earnings, f.shareholders_equity, 1000) \in Numbers
      /\ Ratio(f.free_cash_flow, mc, 100000) \in Numbers
  <2> DEFINE scale == 1000
             percent == 100000
  <2>1. scale \in Int /\ percent \in Int
    OBVIOUS
  <2> HIDE DEF scale, percent
  <2>2. Ratio(mc, f.shareholders_equity, scale) \in Numbers
    BY <1>1, <1>2, <2>1, RatioIsANumber
  <2>3. Ratio(f.net_earnings, f.shareholders_equity, scale) \in Numbers
    BY <1>1, <2>1, RatioIsANumber
  <2>4. Ratio(f.free_cash_flow, mc, percent) \in Numbers
    BY <1>1, <1>2, <2>1, RatioIsANumber
  <2> QED
    BY <2>2, <2>3, <2>4 DEF scale, percent
<1> HIDE DEF pe
<1>5. m \in {"pe_ratio", "pb_ratio", "roe", "fcf_yield"}
  BY DEF Legacy, Compared, LowerIsBetter, HigherIsBetter
<1>6. CASE m = "pe_ratio"
  BY <1>3, <1>6 DEF MetricsV1, pe, eps
<1>7. CASE m = "pb_ratio"
  BY <1>4, <1>7 DEF MetricsV1, mc
<1>8. CASE m = "roe"
  BY <1>4, <1>8 DEF MetricsV1
<1>9. CASE m = "fcf_yield"
  BY <1>4, <1>9 DEF MetricsV1, mc
<1> QED
  BY <1>5, <1>6, <1>7, <1>8, <1>9

LEMMA LaterMetricsAreNumbers ==
    ASSUME NEW f, \A c \in MetricConcepts : f[c] \in Numbers,
           NEW price \in Int, NEW tax, NEW interest, NEW eps, NEW fcf,
           NEW m \in Modern \cap Compared
    PROVE  MetricsV2(f, price, tax, interest, eps, fcf)[m] \in Numbers
<1> DEFINE mc == MarketCap(price, f.shares_outstanding)
           netDebt == Difference(f.total_debt, f.cash_and_equivalents)
           ev == IF mc = None \/ netDebt = None THEN None ELSE mc + netDebt
<1>1. /\ f.shares_outstanding \in Numbers /\ f.total_debt \in Numbers
      /\ f.cash_and_equivalents \in Numbers /\ f.ebitda \in Numbers
      /\ f.operating_income \in Numbers /\ f.shareholders_equity \in Numbers
  BY DEF MetricConcepts
<1>2. mc \in Numbers
  BY <1>1, MarketCapIsANumber
<1>3. netDebt \in Numbers
  BY <1>1 DEF Difference, Numbers
<1> HIDE DEF mc, netDebt
<1>4. ev \in Numbers
  BY <1>2, <1>3 DEF Numbers
<1> HIDE DEF ev
<1>5. /\ Ratio(netDebt, f.ebitda, 1000) \in Numbers
      /\ Ratio(ev, f.ebitda, 1000) \in Numbers
      /\ Ratio(ev, f.operating_income, 1000) \in Numbers
  <2> DEFINE scale == 1000
  <2>1. scale \in Int
    OBVIOUS
  <2> HIDE DEF scale
  <2>2. Ratio(netDebt, f.ebitda, scale) \in Numbers
    BY <1>1, <1>3, <2>1, RatioIsANumber
  <2>3. Ratio(ev, f.ebitda, scale) \in Numbers
    BY <1>1, <1>4, <2>1, RatioIsANumber
  <2>4. Ratio(ev, f.operating_income, scale) \in Numbers
    BY <1>1, <1>4, <2>1, RatioIsANumber
  <2> QED
    BY <2>2, <2>3, <2>4 DEF scale
<1>6. Roic(f, tax) \in Numbers
  BY <1>1, RoicIsANumber
<1>7. m \in {"roic", "net_debt_to_ebitda", "ev_ebitda", "ev_ebit"}
  BY DEF Modern, Compared, LowerIsBetter, HigherIsBetter
<1>8. CASE m = "roic"
  BY <1>6, <1>8 DEF MetricsV2
<1>9. CASE m = "net_debt_to_ebitda"
  BY <1>5, <1>9 DEF MetricsV2, netDebt
<1>10. CASE m = "ev_ebitda"
  BY <1>5, <1>10 DEF MetricsV2, ev, mc, netDebt
<1>11. CASE m = "ev_ebit"
  BY <1>5, <1>11 DEF MetricsV2, ev, mc, netDebt
<1> QED
  BY <1>7, <1>8, <1>9, <1>10, <1>11

\* A finite table whose compared values are numbers or absent.
NumberTable(R) == IsFiniteSet(R) /\ \A r \in R : r.metric \in Compared => r.value \in Numbers

LEMMA SlugsAreFinite == IsFiniteSet(Legacy) /\ IsFiniteSet(Modern)
<1> DEFINE l == <<"eps", "pe_ratio", "pb_ratio", "pcf_ratio", "peg_ratio", "roe", "de_ratio", "fcf_yield">>
           m == <<"roic", "operating_margin", "fcf_margin", "net_debt_to_ebitda", "interest_coverage",
                  "fcf_to_debt", "positive_eps_years", "positive_fcf_years", "eps_volatility",
                  "fcf_volatility", "ev_ebitda", "ev_ebit">>
<1>1. IsFiniteSet(1..8) /\ IsFiniteSet(1..12)
  <2>1. 1 \in Int /\ 8 \in Int /\ 12 \in Int
    OBVIOUS
  <2>2. IsFiniteSet(1..8)
    BY <2>1, FS_Interval
  <2>3. IsFiniteSet(1..12)
    BY <2>1, FS_Interval
  <2> QED
    BY <2>2, <2>3
<1>2. DOMAIN l = 1..8 /\ DOMAIN m = 1..12
  OBVIOUS
<1>3. Legacy = {l[i] : i \in 1..8}
  BY DEF Legacy
<1>4. Modern = {m[i] : i \in 1..12}
  BY DEF Modern
<1> HIDE DEF l, m
<1> QED
  BY <1>1, <1>2, <1>3, <1>4, ImageIsFinite

LEMMA BuiltIsANumberTable ==
    ASSUME NEW asOf, NEW v1, NEW v2,
           \A m \in Legacy \cap Compared : v1[m] \in Numbers,
           \A m \in Modern \cap Compared : v2[m] \in Numbers
    PROVE  NumberTable(BuildDerivedMetrics(asOf, v1, v2))
<1> DEFINE row(metric, value) ==
              [asOf |-> asOf, metric |-> metric, version |-> DefiningVersion(metric), value |-> value]
           kept == {m \in Modern : v2[m] # None \/ m = "interest_coverage"}
           first == [s \in Legacy |-> row(s, v1[s])]
           second == [s \in kept |-> row(s, v2[s])]
           F == {first[s] : s \in Legacy}
           S == {second[s] : s \in kept}
<1>1. IsFiniteSet(Legacy) /\ IsFiniteSet(kept)
  BY SlugsAreFinite, FS_Subset
<1>2. BuildDerivedMetrics(asOf, v1, v2) = F \cup S
  <2>1. BuildDerivedMetrics(asOf, v1, v2)
          = {row(s, v1[s]) : s \in Legacy} \cup {row(s, v2[s]) : s \in kept}
    BY DEF BuildDerivedMetrics
  <2>2. (\A s \in Legacy : first[s] = row(s, v1[s])) /\ \A s \in kept : second[s] = row(s, v2[s])
    OBVIOUS
  <2> HIDE DEF first, second, kept, row
  <2> QED
    BY <2>1, <2>2
<1>3. \A s \in Legacy : first[s].metric = s /\ first[s].value = v1[s]
  OBVIOUS
<1>4. \A s \in kept : second[s].metric = s /\ second[s].value = v2[s] /\ s \in Modern
  OBVIOUS
<1>5. DOMAIN first = Legacy /\ DOMAIN second = kept
  OBVIOUS
<1> HIDE DEF first, second, kept
<1>6. IsFiniteSet(F) /\ IsFiniteSet(S)
  BY <1>1, <1>5, ImageIsFinite
<1>7. \A r \in F \cup S : r.metric \in Compared => r.value \in Numbers
  BY <1>3, <1>4
<1>8. IsFiniteSet(F \cup S)
  <2> HIDE DEF F, S
  <2> QED
    BY <1>6, FS_Union
<1> QED
  BY <1>2, <1>7, <1>8 DEF NumberTable

LEMMA MetricRowsAreNumbers ==
    ASSUME RowTable(fundamentals), NEW asOf, NEW price \in Int
    PROVE  NumberTable(MetricRows(asOf, price))
<1> DEFINE f == Fundamentals(fundamentals, MetricConcepts, asOf)
           g == ResultOf(AsOf(growths, asOf))
           aligned == Aligned(asOf)
           observed == AlignedTaxRate(aligned).rate
           interest == IF aligned.interestReason = "" THEN f.interest_expense ELSE None
           growth == IF g = None THEN None ELSE g.rate
           tax == IF observed = None THEN 210 ELSE observed
           eps == Series(fundamentals, "eps_diluted", asOf)
           fcf == Series(fundamentals, "free_cash_flow", asOf)
           v1 == MetricsV1(f, price, growth)
           v2 == MetricsV2(f, price, tax, interest, eps, fcf)
<1>1. \A c \in MetricConcepts : f[c] \in Numbers
  <2> SUFFICES ASSUME NEW c \in MetricConcepts PROVE f[c] \in Numbers
    OBVIOUS
  <2>1. c \in Concepts
    BY DEF Concepts
  <2>2. f[c] = Latest(fundamentals, c, asOf)
    BY DEF Fundamentals
  <2> QED
    BY <2>1, <2>2, LatestIsANumber
<1>2. MetricRows(asOf, price) = BuildDerivedMetrics(asOf, v1, v2)
  BY DEF MetricRows
<1> HIDE DEF f, growth, tax, interest, eps, fcf
<1>3. \A m \in Legacy \cap Compared : v1[m] \in Numbers
  BY <1>1, FirstMetricsAreNumbers
<1>4. \A m \in Modern \cap Compared : v2[m] \in Numbers
  BY <1>1, LaterMetricsAreNumbers
<1> HIDE DEF v1, v2
<1> QED
  BY <1>2, <1>3, <1>4, BuiltIsANumberTable

LEMMA UpsertKeepsNumbers ==
    ASSUME NEW table, NEW rows, NumberTable(table), NumberTable(rows)
    PROVE  NumberTable(UpsertDerivedMetrics(table, rows))
<1> DEFINE key(r) == <<r.asOf, r.metric, r.version>>
           kept == {r \in table : key(r) \notin {key(q) : q \in rows}}
<1>1. UpsertDerivedMetrics(table, rows) = kept \cup rows
  BY DEF UpsertDerivedMetrics
<1>2. IsFiniteSet(kept) /\ IsFiniteSet(rows) /\ kept \subseteq table
  BY FS_Subset DEF NumberTable
<1> HIDE DEF kept
<1>3. IsFiniteSet(kept \cup rows)
  BY <1>2, FS_Union
<1> QED
  BY <1>1, <1>2, <1>3 DEF NumberTable

\* The values of a set of rows in their order: for every rank there is a row.
LEMMA RankIsTaken ==
    ASSUME NEW R, IsFiniteSet(R), NEW v \in [R -> Int], NEW k \in 1..Cardinality(R)
    PROVE  \E x \in R : /\ Cardinality({y \in R : v[y] < v[x]}) < k
                        /\ k <= Cardinality({y \in R : v[y] <= v[x]})
<1> DEFINE upTo(x) == {y \in R : v[y] <= v[x]}
           below(x) == {y \in R : v[y] < v[x]}
           valuesOf == [r \in R |-> v[r]]
           V == {valuesOf[r] : r \in R}
           G == {x \in R : k <= Cardinality(upTo(x))}
           lows == [r \in G |-> v[r]]
           L == {lows[r] : r \in G}
<1>1. Cardinality(R) \in Nat /\ k \in Int /\ k >= 1 /\ k <= Cardinality(R)
  BY FS_CardinalityType
<1>2. \A S \in SUBSET R : IsFiniteSet(S) /\ Cardinality(S) \in Nat
  BY FS_Subset, FS_CardinalityType
<1>3. R # {}
  BY <1>1, FS_EmptySet
<1>4. G # {}
  <2>1. IsFiniteSet(V)
    <3>1. DOMAIN valuesOf = R
      OBVIOUS
    <3> HIDE DEF valuesOf
    <3> QED
      BY <3>1, ImageIsFinite
  <2>2. V \in SUBSET Int /\ V # {}
    BY <1>3
  <2>3. Max(V) \in V /\ \A u \in V : u <= Max(V)
    <3> HIDE DEF V
    <3> QED
      BY <2>1, <2>2, Extremes
  <2>4. PICK x \in R : v[x] = Max(V)
    BY <2>3
  <2>5. upTo(x) = R
    BY <2>3, <2>4
  <2>6. x \in G
    BY <1>1, <2>5
  <2> QED
    BY <2>6
<1>5. PICK x \in G : \A g \in G : v[x] <= v[g]
  <2>1. IsFiniteSet(L)
    <3>1. DOMAIN lows = G /\ IsFiniteSet(G)
      BY <1>2
    <3> HIDE DEF lows, G
    <3> QED
      BY <3>1, ImageIsFinite
  <2>2. L \in SUBSET Int /\ L # {}
    BY <1>4
  <2>3. Min(L) \in L /\ \A u \in L : Min(L) <= u
    <3> HIDE DEF L
    <3> QED
      BY <2>1, <2>2, Extremes
  <2>4. PICK g \in G : v[g] = Min(L)
    BY <2>3
  <2> QED
    BY <2>3, <2>4
<1>6. x \in R /\ v[x] \in Int /\ k <= Cardinality(upTo(x))
  OBVIOUS
<1>7. Cardinality(below(x)) < k
  <2>1. CASE below(x) = {}
    BY <1>1, <2>1, FS_EmptySet
  <2>2. CASE below(x) # {}
    <3> DEFINE unders == [r \in below(x) |-> v[r]]
               U == {unders[r] : r \in below(x)}
    <3>1. IsFiniteSet(U)
      <4>1. DOMAIN unders = below(x) /\ IsFiniteSet(below(x))
        BY <1>2
      <4> HIDE DEF unders, below
      <4> QED
        BY <4>1, ImageIsFinite
    <3>2. U \in SUBSET Int /\ U # {}
      BY <2>2
    <3>3. Max(U) \in U /\ \A u \in U : u <= Max(U)
      <4> HIDE DEF U
      <4> QED
        BY <3>1, <3>2, Extremes
    <3>4. PICK z \in below(x) : v[z] = Max(U)
      BY <3>3
    <3>5. \A y \in below(x) : v[y] <= v[z]
      BY <3>3, <3>4
    <3>6. z \in R /\ v[z] \in Int /\ v[z] < v[x]
      OBVIOUS
    <3>7. upTo(z) = below(x)
      <4>1. \A y \in R : v[y] \in Int
        OBVIOUS
      <4> QED
        BY <1>6, <3>5, <3>6, <4>1
    <3>8. z \notin G
      BY <1>5, <1>6, <3>6
    <3>9. ~(k <= Cardinality(upTo(z)))
      BY <3>6, <3>8
    <3>10. Cardinality(upTo(z)) \in Nat
      BY <1>2
    <3> QED
      <4> HIDE DEF upTo, below
      <4> QED
        BY <1>1, <3>7, <3>9, <3>10
  <2> QED
    BY <2>1, <2>2
<1> QED
  BY <1>6, <1>7

\* The median of the values of some rows.
ValueMedian(R) == MedianBy(R, LAMBDA r : r.value)

LEMMA MedianIsAnInteger ==
    ASSUME NEW R, IsFiniteSet(R), R # {}, \A r \in R : r.value \in Int
    PROVE  ValueMedian(R) \in Int
<1> DEFINE n == Cardinality(R)
           at(k) == CHOOSE x \in R : /\ Cardinality({y \in R : y.value < x.value}) < k
                                     /\ k <= Cardinality({y \in R : y.value <= x.value})
           low == (n + 1) \div 2
           high == (n + 2) \div 2
<1>1. n \in Nat /\ n # 0
  BY FS_CardinalityType, FS_EmptySet
<1>2. low \in 1..n /\ high \in 1..n
  <2> HIDE DEF n
  <2> QED
    BY <1>1
<1>3. \A k \in 1..n : at(k) \in R
  <2> DEFINE v == [r \in R |-> r.value]
  <2>1. v \in [R -> Int]
    OBVIOUS
  <2>2. \A x \in R : /\ {y \in R : v[y] < v[x]} = {y \in R : y.value < x.value}
                     /\ {y \in R : v[y] <= v[x]} = {y \in R : y.value <= x.value}
    OBVIOUS
  <2> HIDE DEF v
  <2>3. \A k \in 1..n : \E x \in R : /\ Cardinality({y \in R : v[y] < v[x]}) < k
                                     /\ k <= Cardinality({y \in R : v[y] <= v[x]})
    BY <2>1, RankIsTaken
  <2> QED
    BY <2>2, <2>3
<1>4. ValueMedian(R) = (at(low).value + at(high).value) \div 2
  BY DEF ValueMedian, MedianBy
<1>5. at(low).value \in Int /\ at(high).value \in Int
  <2> HIDE DEF at, low, high, n
  <2> QED
    BY <1>2, <1>3
<1> HIDE DEF at, low, high
<1> QED
  BY <1>4, <1>5

\* The median of a function.
LEMMA FunctionMedian ==
    ASSUME NEW R, IsFiniteSet(R), R # {}, NEW v \in [R -> Int]
    PROVE  MedianOf(v) \in Int
<1> DEFINE n == Cardinality(R)
           at(k) == CHOOSE x \in R : /\ Cardinality({y \in R : v[y] < v[x]}) < k
                                     /\ k <= Cardinality({y \in R : v[y] <= v[x]})
           low == (n + 1) \div 2
           high == (n + 2) \div 2
<1>1. n \in Nat /\ n # 0
  BY FS_CardinalityType, FS_EmptySet
<1>2. low \in 1..n /\ high \in 1..n
  <2> HIDE DEF n
  <2> QED
    BY <1>1
<1>3. \A k \in 1..n : at(k) \in R
  BY RankIsTaken
<1>4. MedianOf(v) = (v[at(low)] + v[at(high)]) \div 2
  BY DEF MedianOf, MedianBy
<1>5. v[at(low)] \in Int /\ v[at(high)] \in Int
  <2> HIDE DEF at, low, high, n
  <2> QED
    BY <1>2, <1>3
<1> HIDE DEF at, low, high
<1> QED
  BY <1>4, <1>5

\* The medians of the metrics that are compared.
LEMMA MediansAreNumbers ==
    ASSUME NEW rows, NumberTable(rows), NEW s \in Slugs, s \in Compared
    PROVE  Medians(rows)[s] \in Numbers
<1> DEFINE of == {r \in {q \in rows : q.value # None} : r.metric = s}
<1>1. IsFiniteSet(of) /\ \A r \in of : r.value \in Int
  BY FS_Subset DEF NumberTable, Numbers
<1>2. Medians(rows)[s] = IF of = {} THEN None ELSE ValueMedian(of)
  BY DEF Medians, ValueMedian, MedianBy
<1> HIDE DEF of
<1> QED
  BY <1>1, <1>2, MedianIsAnInteger DEF Numbers

-----------------------------------------------------------------------------
(* From metrics and medians to the two sides of the relative score.        *)

\* The marks of the median and of the top.
Half == 5000
Full == 10000

\* The score of one metric: between 0 and Full, and on the side of fifty
\* where the value is.
LEMMA OneMetricSides ==
    ASSUME NEW metric, NEW value \in Int, NEW median \in Int, value > 0, median > 0,
           NEW cfg, cfg.advantage = 5
    PROVE  LET score == RelativeScore(metric, value, median, cfg)
               ahead == IF metric \in LowerIsBetter THEN median - value ELSE value - median
           IN  /\ score \in 0..Full
               /\ ahead >= 0 => score >= Half
               /\ ahead <= 0 => score <= Half
<1> DEFINE ahead == IF metric \in LowerIsBetter THEN median - value ELSE value - median
           better == 5 * ahead
           share == (5000 * better) \div median
           score == RelativeScore(metric, value, median, cfg)
           Goal == /\ score \in 0..10000
                   /\ ahead >= 0 => score >= 5000
                   /\ ahead <= 0 => score <= 5000
<1> SUFFICES Goal
  BY DEF Half, Full
<1>1. ahead \in Int
  OBVIOUS
<1>2. score = IF better >= median THEN 10000 ELSE IF better <= -median THEN 0 ELSE 5000 + share
  BY DEF RelativeScore, Lower
<1> HIDE DEF ahead, score
<1>3. better \in Int /\ (ahead >= 0 <=> better >= 0) /\ (ahead <= 0 <=> better <= 0)
  BY <1>1
<1> HIDE DEF better
<1>4. \A a, b \in Int : b > 0 /\ a < b /\ a > -b =>
         /\ (5000 * a) \div b \in -5000..5000
         /\ a >= 0 => (5000 * a) \div b >= 0
         /\ a <= 0 => (5000 * a) \div b <= 0
  BY SMTT(60)
<1>5. CASE better >= median
  BY <1>2, <1>3, <1>5
<1>6. CASE ~(better >= median) /\ better <= -median
  BY <1>2, <1>3, <1>6
<1>7. CASE ~(better >= median) /\ ~(better <= -median)
  <2>1. better < median /\ better > -median
    BY <1>3, <1>7
  <2>2. /\ share \in -5000..5000
        /\ better >= 0 => share >= 0
        /\ better <= 0 => share <= 0
    BY <1>3, <1>4, <2>1
  <2> HIDE DEF share
  <2>3. score = 5000 + share
    BY <1>2, <1>7
  <2> QED
    BY <1>3, <2>2, <2>3
<1> QED
  BY <1>5, <1>6, <1>7

\* The sum over the metrics of a side.
SideSum(values, medians, cfg, S) ==
    MapThenSumSet(LAMBDA m : RelativeScore(m, values[m], medians[m], cfg), S)

LEMMA SumIsBounded ==
    ASSUME NEW S, IsFiniteSet(S), NEW values, NEW medians, NEW cfg, NEW low \in Int, NEW high \in Int,
           \A m \in S : RelativeScore(m, values[m], medians[m], cfg) \in low..high
    PROVE  SideSum(values, medians, cfg, S) \in (low * Cardinality(S))..(high * Cardinality(S))
<1> DEFINE score(m) == RelativeScore(m, values[m], medians[m], cfg)
           Picked(s) == CHOOSE x \in s : TRUE
           Step(s, f) == IF s = {} THEN 0 ELSE score(Picked(s)) + f[s \ {Picked(s)}]
           Small(n) == {s \in SUBSET S : Cardinality(s) <= n}
           Upper(n, f) == f = [s \in Small(n) |-> Step(s, f)]
           size == Cardinality(S)
           P == {n \in 0..size : \E f : Upper(n, f)}
<1>1. size \in Nat /\ \A s \in SUBSET S : IsFiniteSet(s) /\ Cardinality(s) \in 0..size
  BY FS_CardinalityType, FS_Subset
<1>2. \A s \in SUBSET S : Cardinality(s) = 0 <=> s = {}
  BY <1>1, FS_EmptySet
<1>3. \A s \in SUBSET S : s # {} => /\ Picked(s) \in s /\ s \ {Picked(s)} \in SUBSET S
                                    /\ Cardinality(s \ {Picked(s)}) = Cardinality(s) - 1
  BY <1>1, FS_RemoveElement
<1> HIDE DEF Picked, score
<1>4. 0 \in P
  <2>1. Small(0) = {{}}
    BY <1>1, <1>2
  <2>2. Upper(0, [s \in Small(0) |-> 0])
    BY <2>1
  <2> HIDE DEF Upper
  <2> QED
    BY <1>1, <2>2
<1>5. ASSUME NEW n \in 1..size, n - 1 \in P PROVE n \in P
  <2>1. PICK f : Upper(n - 1, f)
    BY <1>5
  <2> DEFINE g == [s \in Small(n) |-> Step(s, f)]
  <2>2. ASSUME NEW s \in Small(n), s # {}
        PROVE  g[s \ {Picked(s)}] = f[s \ {Picked(s)}]
    <3> DEFINE t == s \ {Picked(s)}
    <3>1. t \in Small(n - 1) /\ t \in Small(n)
      BY <1>1, <1>3, <2>2
    <3> HIDE DEF t
    <3> QED
      BY <2>1, <3>1 DEF t
  <2>3. Upper(n, g)
    <3>1. \A s \in Small(n) : Step(s, f) = Step(s, g)
      BY <2>2
    <3>2. g = [s \in Small(n) |-> Step(s, f)]
      OBVIOUS
    <3> HIDE DEF Step, Small, g
    <3> QED
      BY <3>1, <3>2
  <2> HIDE DEF Upper, g
  <2> QED
    BY <2>3
<1>6. \E f : Upper(size, f)
  <2>1. size \in 0..size
    BY <1>1
  <2> HIDE DEF P, size
  <2>2. \A n \in 0..size : n \in P
    BY <1>1, <1>4, <1>5, UpTo
  <2>3. size \in P
    BY <2>1, <2>2
  <2> QED
    BY <2>3 DEF P
<1>7. Small(size) = SUBSET S
  BY <1>1
<1> DEFINE iter == CHOOSE f : f = [s \in SUBSET S |-> Step(s, f)]
<1>8. iter = [s \in SUBSET S |-> Step(s, iter)]
  BY <1>6, <1>7
<1>9. SideSum(values, medians, cfg, S) = iter[S]
  BY DEF SideSum, MapThenSumSet, MapThenFoldSet, score, Picked
<1> HIDE DEF iter
<1> DEFINE Q == {n \in 0..size : \A s \in SUBSET S : Cardinality(s) = n =>
                                    iter[s] \in (low * n)..(high * n)}
<1>10. 0 \in Q
  <2>1. iter[{}] = 0
    BY <1>8
  <2>2. 0 \in (low * 0)..(high * 0)
    OBVIOUS
  <2> QED
    BY <1>1, <1>2, <2>1, <2>2
<1>11. ASSUME NEW n \in 1..size, n - 1 \in Q PROVE n \in Q
  <2> SUFFICES ASSUME NEW s \in SUBSET S, Cardinality(s) = n
               PROVE  iter[s] \in (low * n)..(high * n)
    OBVIOUS
  <2> DEFINE rest == s \ {Picked(s)}
  <2>1. s # {}
    BY <1>1, <1>2
  <2>2. iter[s] = score(Picked(s)) + iter[rest]
    BY <1>8, <2>1
  <2>3. score(Picked(s)) \in low..high
    BY <1>3, <2>1 DEF score
  <2>4. iter[rest] \in (low * (n - 1))..(high * (n - 1))
    BY <1>3, <1>11, <2>1
  <2>5. n \in Int
    BY <1>1
  <2>6. low * (n - 1) = low * n - low /\ high * (n - 1) = high * n - high
        /\ low * n \in Int /\ high * n \in Int
    BY <2>5
  <2> HIDE DEF rest, iter
  <2> DEFINE ln == low * n
             hn == high * n
  <2>7. iter[rest] \in (ln - low)..(hn - high) /\ ln \in Int /\ hn \in Int
    BY <2>4, <2>6
  <2> HIDE DEF ln, hn
  <2>8. iter[s] \in ln..hn
    BY <2>2, <2>3, <2>7
  <2> QED
    BY <2>8 DEF ln, hn
<1>12. size \in Q
  <2>1. size \in 0..size
    BY <1>1
  <2> HIDE DEF Q, size
  <2>2. \A n \in 0..size : n \in Q
    BY <1>1, <1>10, <1>11, UpTo
  <2> QED
    BY <2>1, <2>2
<1> QED
  BY <1>9, <1>12

LEMMA ComparedAreFinite == IsFiniteSet(Compared)
<1> DEFINE c == <<"pe_ratio", "pb_ratio", "p_fcf", "ev_ebitda", "ev_ebit", "net_debt_to_ebitda",
                  "fcf_yield", "roe", "roic">>
<1>1. 1 \in Int /\ 9 \in Int
  OBVIOUS
<1>2. IsFiniteSet(1..9)
  BY <1>1, FS_Interval
<1>3. DOMAIN c = 1..9 /\ Compared = {c[i] : i \in 1..9}
  BY DEF Compared, LowerIsBetter, HigherIsBetter
<1> HIDE DEF c
<1> QED
  BY <1>2, <1>3, ImageIsFinite

\* Where the values of a side stand, and where its score does.
AsGood(m, value, median) == IF m \in LowerIsBetter THEN value <= median ELSE value >= median
AsBad(m, value, median) == IF m \in LowerIsBetter THEN value >= median ELSE value <= median

LEMMA SidesAreRight ==
    ASSUME NEW values, NEW medians, NEW cfg, cfg.advantage = 5, cfg.minMetrics = 3,
           \A m \in Comparable(values, medians) : values[m] \in Int /\ medians[m] \in Int,
           SideScore(values, medians, cfg) # None
    PROVE  LET used == Comparable(values, medians)
               score == SideScore(values, medians, cfg)
           IN  /\ score \in 0..Full
               /\ (\A m \in used : AsGood(m, values[m], medians[m])) => score >= Half
               /\ (\A m \in used : AsBad(m, values[m], medians[m])) => score <= Half
<1> DEFINE used == Comparable(values, medians)
           score == [m \in used |-> RelativeScore(m, values[m], medians[m], cfg)]
           good == {m \in used : AsGood(m, values[m], medians[m])}
           bad == {m \in used : AsBad(m, values[m], medians[m])}
           n == Cardinality(used)
           sum == SideSum(values, medians, cfg, used)
           side == SideScore(values, medians, cfg)
           Goal == /\ side \in 0..Full
                   /\ good = used => side >= Half
                   /\ bad = used => side <= Half
<1> SUFFICES Goal
  OBVIOUS
<1>0. Half \in Int /\ Full \in Int /\ 0 <= Half /\ Half <= Full
  BY DEF Half, Full
<1>1. IsFiniteSet(used)
  BY ComparedAreFinite, FS_Subset DEF Comparable
<1>2. n \in Nat
  BY <1>1, FS_CardinalityType
<1>3. side = IF n < 3 THEN None ELSE sum \div n
  BY DEF SideScore, SideSum, MapThenSumSet, MapThenFoldSet
<1>4. n >= 3 /\ side = sum \div n
  <2>1. side # None
    OBVIOUS
  <2> HIDE DEF n, sum, side
  <2> QED
    BY <1>2, <1>3, <2>1
<1>5. \A m \in used : RelativeScore(m, values[m], medians[m], cfg) = score[m]
  OBVIOUS
<1>6. /\ \A m \in used : score[m] \in 0..Full
      /\ \A m \in good : score[m] >= Half
      /\ \A m \in bad : score[m] <= Half
  <2>1. ASSUME NEW m \in used
        PROVE  /\ score[m] \in 0..Full
               /\ AsGood(m, values[m], medians[m]) => score[m] >= Half
               /\ AsBad(m, values[m], medians[m]) => score[m] <= Half
    <3> DEFINE value == values[m]
               median == medians[m]
               mine == RelativeScore(m, value, median, cfg)
               ahead == IF m \in LowerIsBetter THEN median - value ELSE value - median
    <3>1. value \in Int /\ median \in Int /\ value > 0 /\ median > 0
      BY DEF Comparable, Positive
    <3>2. /\ AsGood(m, value, median) => ahead >= 0
          /\ AsBad(m, value, median) => ahead <= 0
      <4> HIDE DEF value, median
      <4> QED
        BY <3>1 DEF AsGood, AsBad
    <3>3. mine \in 0..Full /\ (ahead >= 0 => mine >= Half) /\ (ahead <= 0 => mine <= Half)
      <4> HIDE DEF value, median
      <4> QED
        BY <3>1, OneMetricSides
    <3>4. mine = score[m]
      OBVIOUS
    <3> HIDE DEF mine, ahead, score
    <3> QED
      BY <3>2, <3>3, <3>4
  <2> HIDE DEF score, used
  <2> QED
    BY <2>1
<1>7. ASSUME NEW low \in Int, NEW high \in Int, \A m \in used : score[m] \in low..high
      PROVE  side \in low..high
  <2>1. sum \in (low * n)..(high * n)
    <3>1. \A m \in used : RelativeScore(m, values[m], medians[m], cfg) \in low..high
      BY <1>5, <1>7
    <3> HIDE DEF used
    <3> QED
      BY <1>1, <3>1, SumIsBounded
  <2> HIDE DEF sum, n, side, used, score
  <2>2. \A s \in Int, c \in Nat : c >= 3 /\ s >= low * c => s \div c >= low
    BY SMTT(30)
  <2>3. \A s \in Int, c \in Nat : c >= 3 /\ s <= high * c => s \div c <= high
    BY SMTT(30)
  <2>4. low * n \in Int /\ high * n \in Int
    BY <1>2
  <2>5. sum \in Int /\ sum >= low * n /\ sum <= high * n
    BY <2>1, <2>4
  <2>6. sum \div n \in Int
    BY <1>2, <1>4, <2>5
  <2>7. side \in Int /\ side >= low /\ side <= high
    BY <1>2, <1>4, <2>2, <2>3, <2>5, <2>6
  <2> QED
    BY <2>7
<1> HIDE DEF used, score, good, bad, side, n, sum
<1>8. side \in 0..Full
  BY <1>0, <1>6, <1>7
<1>9. ASSUME good = used PROVE side >= Half
  <2>1. \A m \in used : score[m] \in Half..Full
    BY <1>0, <1>6, <1>9
  <2>2. side \in Half..Full
    BY <1>0, <1>7, <2>1
  <2> QED
    BY <1>0, <2>2
<1>10. ASSUME bad = used PROVE side <= Half
  <2>1. \A m \in used : score[m] \in 0..Half
    BY <1>0, <1>6, <1>10
  <2>2. side \in 0..Half
    BY <1>0, <1>7, <2>1
  <2> QED
    BY <1>0, <2>2
<1> QED
  BY <1>8, <1>9, <1>10

\* What a row of scores says of its two sides.
SidesHold(r) ==
    \A name \in {"sector", "historical"} :
        LET used == Comparable(r.values, r.medians[name])
        IN  r.side[name] # None =>
                /\ r.side[name] \in 0..Full
                /\ (\A m \in used : AsGood(m, r.values[m], r.medians[name][m])) => r.side[name] >= Half
                /\ (\A m \in used : AsBad(m, r.values[m], r.medians[name][m])) => r.side[name] <= Half

LEMMA CalculatedSidesHold ==
    ASSUME NEW in, NEW cfg, cfg.advantage = 5, cfg.minMetrics = 3,
           \A m \in Compared :
              Positive(in.values[m]) =>
                 /\ Positive(in.sectorMedian[m]) => in.values[m] \in Int /\ in.sectorMedian[m] \in Int
                 /\ Positive(in.historicalMedian[m]) =>
                       in.values[m] \in Int /\ in.historicalMedian[m] \in Int
    PROVE  SidesHold(CalculateRelative(in, cfg))
<1> DEFINE res == CalculateRelative(in, cfg)
           medians == [sector     |-> IF in.sectorCount < cfg.minSecurities THEN NoMedians
                                      ELSE in.sectorMedian,
                       historical |-> in.historicalMedian]
<1>1. /\ res.values = in.values /\ res.medians = medians
      /\ \A name \in {"sector", "historical"} : res.side[name] = SideScore(in.values, medians[name], cfg)
  BY DEF CalculateRelative
<1>2. \A m \in Compared : ~Positive(NoMedians[m])
  BY DEF NoMedians, Positive
<1>3. \A name \in {"sector", "historical"} : \A m \in Comparable(in.values, medians[name]) :
         in.values[m] \in Int /\ medians[name][m] \in Int
  <2>1. \A m \in Comparable(in.values, medians["sector"]) :
           in.values[m] \in Int /\ medians["sector"][m] \in Int
    <3>1. medians["sector"] = NoMedians \/ medians["sector"] = in.sectorMedian
      OBVIOUS
    <3> HIDE DEF medians
    <3> QED
      BY <1>2, <3>1 DEF Comparable
  <2>2. \A m \in Comparable(in.values, medians["historical"]) :
           in.values[m] \in Int /\ medians["historical"][m] \in Int
    <3>1. medians["historical"] = in.historicalMedian
      OBVIOUS
    <3> HIDE DEF medians
    <3> QED
      BY <3>1 DEF Comparable
  <2> HIDE DEF medians
  <2> QED
    BY <2>1, <2>2
<1> HIDE DEF res, medians
<1> SUFFICES ASSUME NEW name \in {"sector", "historical"}, res.side[name] # None
             PROVE  LET used == Comparable(res.values, res.medians[name])
                    IN  /\ res.side[name] \in 0..Full
                        /\ (\A m \in used : AsGood(m, res.values[m], res.medians[name][m]))
                              => res.side[name] >= Half
                        /\ (\A m \in used : AsBad(m, res.values[m], res.medians[name][m]))
                              => res.side[name] <= Half
  BY DEF SidesHold, res
<1>4. SideScore(in.values, medians[name], cfg) # None
  BY <1>1
<1> QED
  BY <1>1, <1>3, <1>4, SidesAreRight

LEMMA OwnAreNumbers ==
    ASSUME NEW table, NumberTable(table), NEW asOf, NEW m \in Slugs, m \in Compared
    PROVE  MetricsAt(table, asOf)[m] \in Numbers
<1> DEFINE rows == KeepCurrentRevision({r \in table : r.asOf = asOf})
           R == {r \in rows : r.metric = m}
<1>1. MetricsAt(table, asOf)[m] = IF R = {} THEN None ELSE (CHOOSE r \in R : TRUE).value
  BY DEF MetricsAt
<1>2. \A r \in R : r.value \in Numbers
  BY DEF KeepCurrentRevision, NumberTable
<1> HIDE DEF R
<1> QED
  BY <1>1, <1>2 DEF Numbers

LEMMA MediansOfPart ==
    ASSUME NEW table, NumberTable(table), NEW rows \in SUBSET table, NEW m \in Slugs, m \in Compared
    PROVE  Medians(rows)[m] \in Numbers
<1>1. NumberTable(rows)
  BY FS_Subset DEF NumberTable
<1> QED
  BY <1>1, MediansAreNumbers

LEMMA RelativeSidesHold ==
    ASSUME NumberTable(metrics), NEW asOf, NEW v, NEW peerRows \in PeerTables
    PROVE  SidesHold(Relative(asOf, v, peerRows))
<1> DEFINE own == MetricsAt(metrics, asOf)
           sector == SectorComparables(peerRows, Peers, ActivePeers)
           cfg == [DefaultRelativeConfig EXCEPT !.minSecurities = MinSecurities]
           historical == HistoricalMedian(metrics, asOf, 4 * cfg.years)
           compared(f) == [m \in Compared |-> IF m = "p_fcf" THEN None ELSE f[m]]
           in == [values |-> [compared(own) EXCEPT !["p_fcf"] =
                                IF v = None THEN None ELSE PFcfFromSnapshot(v.in)],
                  sectorCount |-> sector.count, sectorMedian |-> compared(sector.medians),
                  historicalMedian |-> compared(historical)]
<1>1. Relative(asOf, v, peerRows) = CalculateRelative(in, cfg)
  BY DEF Relative
<1>2. cfg.advantage = 5 /\ cfg.minMetrics = 3
  BY DEF DefaultRelativeConfig
<1>3. \A m \in Compared \ {"p_fcf"} : m \in Slugs
  BY DEF Compared, LowerIsBetter, HigherIsBetter, Slugs, Legacy, Modern
<1>4. \A m \in Compared \ {"p_fcf"} : own[m] \in Numbers
  BY <1>3, OwnAreNumbers
<1>5. \A m \in Compared \ {"p_fcf"} : sector.medians[m] \in Numbers
  <2> DEFINE rows == KeepCurrentRevision({r \in peerRows : r.peer \in Peers})
  <2>1. NumberTable(peerRows)
    BY TablesAreNumbers DEF NumberTable, Numbers
  <2>2. rows \in SUBSET peerRows
    BY DEF KeepCurrentRevision
  <2>3. sector.medians = Medians(rows)
    BY DEF SectorComparables
  <2> HIDE DEF rows, sector
  <2> QED
    BY <1>3, <2>1, <2>2, <2>3, MediansOfPart
<1>6. \A m \in Compared \ {"p_fcf"} : historical[m] \in Numbers
  <2> DEFINE past == {r \in metrics : r.asOf <= asOf}
             end == Max({r.asOf : r \in past})
             rows == IF past = {} THEN {}
                     ELSE {r \in KeepCurrentRevision(past) : r.asOf >= end - 4 * cfg.years}
  <2>1. historical = Medians(rows)
    BY DEF HistoricalMedian
  <2>2. rows \in SUBSET metrics
    BY DEF KeepCurrentRevision
  <2> HIDE DEF rows, historical
  <2> QED
    BY <1>3, <2>1, <2>2, MediansOfPart
<1>7. \A m \in Compared : /\ m # "p_fcf" => in.values[m] = own[m]
                          /\ in.sectorMedian[m] = IF m = "p_fcf" THEN None ELSE sector.medians[m]
                          /\ in.historicalMedian[m] = IF m = "p_fcf" THEN None ELSE historical[m]
  <2> HIDE DEF own, sector, historical
  <2> QED
    OBVIOUS
<1> HIDE DEF in, cfg, own, sector, historical
<1>8. \A m \in Compared :
         Positive(in.values[m]) =>
            /\ Positive(in.sectorMedian[m]) => in.values[m] \in Int /\ in.sectorMedian[m] \in Int
            /\ Positive(in.historicalMedian[m]) =>
                  in.values[m] \in Int /\ in.historicalMedian[m] \in Int
  BY <1>4, <1>5, <1>6, <1>7 DEF Positive, Numbers
<1> QED
  BY <1>1, <1>2, <1>8, CalculatedSidesHold

-----------------------------------------------------------------------------
(* The inductive invariant: what every table holds is numbers.             *)

TablesInv ==
    /\ company \in DOMAIN Histories
    /\ arrived \in SUBSET DOMAIN Arrivals
    /\ close \in Int
    /\ RowTable(fundamentals)
    /\ NumberTable(metrics)
    /\ \A s \in scores : SidesHold(s.relative)

LEMMA InitTables == Init => TablesInv
<1> SUFFICES ASSUME Init PROVE TablesInv
  OBVIOUS
<1>1. RowTable(fundamentals)
  BY RowsAreTyped DEF Init
<1>2. NumberTable(metrics)
  BY TablesAreNumbers DEF Init, NumberTable, Numbers
<1> QED
  BY <1>1, <1>2, TablesAreNumbers DEF Init, TablesInv

LEMMA WorldTables ==
    ASSUME TablesInv, arrived' \in SUBSET DOMAIN Arrivals, fundamentals' = RowsOf(arrived'),
           close' \in Int, UNCHANGED <<company, Rows>>
    PROVE  TablesInv'
<1>1. RowTable(fundamentals')
  BY RowsAreTyped DEF TablesInv
<1>2. company' = company /\ metrics' = metrics /\ scores' = scores
  BY DEF Rows
<1> QED
  BY <1>1, <1>2 DEF TablesInv

LEMMA NextTables == TablesInv /\ [Next]_vars => TablesInv'
<1> SUFFICES ASSUME TablesInv, [Next]_vars PROVE TablesInv'
  OBVIOUS
<1>1. CASE GrowthWacc
  BY <1>1 DEF GrowthWacc, TablesInv, world
<1>2. CASE Valuation
  BY <1>2 DEF Valuation, TablesInv, world
<1>3. CASE Metrics
  <2>1. NumberTable(MetricRows(day, close))
    BY MetricRowsAreNumbers DEF TablesInv
  <2>2. NumberTable(metrics')
    BY <1>3, <2>1, UpsertKeepsNumbers DEF Metrics, TablesInv
  <2>3. UNCHANGED <<company, arrived, close, fundamentals, scores>>
    BY <1>3 DEF Metrics, world
  <2> QED
    BY <2>2, <2>3 DEF TablesInv
<1>4. CASE Scores
  <2> DEFINE v == ResultOf(RowAt(valuations, day))
             q == Quality(day, close)
  <2>1. PICK rows \in PeerTables : scores' = {ScoreRow(v, q, Relative(day, v, rows))}
    BY <1>4 DEF Scores
  <2>2. SidesHold(Relative(day, v, rows))
    BY RelativeSidesHold DEF TablesInv
  <2> HIDE DEF v, q
  <2>3. ScoreRow(v, q, Relative(day, v, rows)).relative = Relative(day, v, rows)
    BY DEF ScoreRow
  <2>4. \A s \in scores' : SidesHold(s.relative)
    BY <2>1, <2>2, <2>3
  <2>5. UNCHANGED <<company, arrived, close, fundamentals, metrics>>
    BY <1>4 DEF Scores, world
  <2> QED
    BY <2>4, <2>5 DEF TablesInv
<1>5. CASE NextBar
  <2>1. arrived' \in SUBSET DOMAIN Arrivals
    BY <1>5 DEF NextBar, TablesInv
  <2>2. close' \in Int
    BY <1>5, TablesAreNumbers DEF NextBar
  <2>3. fundamentals' = RowsOf(arrived') /\ UNCHANGED <<company, Rows>>
    BY <1>5 DEF NextBar
  <2> QED
    BY <2>1, <2>2, <2>3, WorldTables
<1>6. CASE \E x \in DOMAIN Arrivals : Arrive(x)
  <2>1. PICK x \in DOMAIN Arrivals : Arrive(x)
    BY <1>6
  <2>2. arrived' \in SUBSET DOMAIN Arrivals /\ close' \in Int
    BY <2>1 DEF Arrive, TablesInv
  <2>3. fundamentals' = RowsOf(arrived') /\ UNCHANGED <<company, Rows>>
    BY <2>1 DEF Arrive
  <2> QED
    BY <2>2, <2>3, WorldTables
<1>7. CASE UNCHANGED vars
  BY <1>7 DEF vars, world, TablesInv
<1> QED
  BY <1>1, <1>2, <1>3, <1>4, <1>5, <1>6, <1>7 DEF Next

LEMMA TablesGiveSides == TablesInv => RightSideOfFifty
<1> SUFFICES ASSUME TablesInv, NEW s \in scores, NEW name \in {"sector", "historical"},
                    s.relative.side[name] # None
             PROVE  LET r == s.relative
                        used == Comparable(r.values, r.medians[name])
                        asGood(m) == IF m \in LowerIsBetter THEN r.values[m] <= r.medians[name][m]
                                                            ELSE r.values[m] >= r.medians[name][m]
                        asBad(m) == IF m \in LowerIsBetter THEN r.values[m] >= r.medians[name][m]
                                                           ELSE r.values[m] <= r.medians[name][m]
                    IN  /\ (\A m \in used : asGood(m)) => r.side[name] >= 5000
                        /\ (\A m \in used : asBad(m)) => r.side[name] <= 5000
  BY DEF RightSideOfFifty
<1> DEFINE r == s.relative
           used == Comparable(r.values, r.medians[name])
<1>1. SidesHold(r)
  BY DEF TablesInv
<1>2. /\ (\A m \in used : AsGood(m, r.values[m], r.medians[name][m])) => r.side[name] >= 5000
      /\ (\A m \in used : AsBad(m, r.values[m], r.medians[name][m])) => r.side[name] <= 5000
  BY <1>1 DEF SidesHold, Half
<1> QED
  BY <1>2 DEF AsGood, AsBad

\* A side of the relative score is on the side of fifty where its metrics are:
\* for any payloads, rows of peers and older rows, and any order of the stages
\* (internal/relative.relativeScore, sideScore).
THEOREM Siding == Spec => []RightSideOfFifty
<1>1. Spec => []TablesInv
  BY InitTables, NextTables, PTL DEF Spec
<1> QED
  BY <1>1, TablesGiveSides, PTL

-----------------------------------------------------------------------------
(* Rates of growth.                                                        *)

LEMMA CompoundedIsInteger ==
    ASSUME NEW years \in {3, 5}, NEW r \in CagrFloor..CagrCeiling
    PROVE  Compounded[years][r] \in Int
<1> DEFINE start == 10000
           Step(n, f) == IF n = 0 THEN start ELSE (f[n - 1] * (100 + r)) \div 100
           step == [p \in (1..years) \X Int |-> (p[2] * (100 + r)) \div 100]
           after == CHOOSE f : f = [n \in 0..years |-> Step(n, f)]
<1>1. years \in Nat /\ start \in Int /\ r \in Int
  BY DEF CagrFloor, CagrCeiling
<1>2. Compounded[years][r] = after[years]
  BY DEF Compounded
<1> HIDE DEF start
<1>3. \A x \in Int : (x * (100 + r)) \div 100 \in Int
  BY <1>1
<1>4. StepsIn(step, 1..years, Int)
  BY <1>3 DEF StepsIn
<1>5. \E f \in [0..years -> Int] : Counts(f, years, start, step)
  <2> HIDE DEF step
  <2> QED
    BY <1>1, <1>4, CountingRecursion
<1>6. \E f : f = [n \in 0..years |-> Step(n, f)]
  <2>1. PICK f \in [0..years -> Int] : f = [n \in 0..years |-> IF n = 0 THEN start ELSE step[<<n, f[n - 1]>>]]
    BY <1>5 DEF Counts
  <2>2. ASSUME NEW n \in 0..years PROVE f[n] = Step(n, f)
    <3>1. CASE n = 0
      BY <2>1, <3>1
    <3>2. CASE n # 0
      <4>1. n \in 1..years /\ n - 1 \in 0..years
        BY <1>1, <3>2
      <4>2. f[n - 1] \in Int
        BY <2>1, <4>1
      <4>3. f[n] = step[<<n, f[n - 1]>>]
        BY <2>1, <3>2
      <4> QED
        BY <3>2, <4>1, <4>2, <4>3
    <3> QED
      BY <3>1, <3>2
  <2>3. f = [n \in 0..years |-> Step(n, f)]
    <3> HIDE DEF Step
    <3> QED
      BY <2>1, <2>2
  <2> HIDE DEF Step
  <2> QED
    BY <2>3
<1>7. after = [n \in 0..years |-> Step(n, after)]
  BY <1>6
<1> HIDE DEF after
<1> DEFINE P == {n \in 0..years : after[n] \in Int}
<1>8. 0 \in P
  BY <1>1, <1>7
<1>9. ASSUME NEW n \in 1..years, n - 1 \in P PROVE n \in P
  <2>1. after[n] = (after[n - 1] * (100 + r)) \div 100
    BY <1>1, <1>7
  <2> QED
    BY <1>1, <1>3, <1>9, <2>1
<1>10. \A n \in 0..years : n \in P
  <2> HIDE DEF P
  <2> QED
    BY <1>1, <1>8, <1>9, UpTo
<1>11. years \in P
  BY <1>1, <1>10
<1> QED
  BY <1>2, <1>11

\* A rate that is not there, or not below the floor.
Rate(r) == r = None \/ (r \in Int /\ r >= 10 * CagrFloor)

LEMMA CagrIsARate ==
    ASSUME NEW initial \in Int, NEW final \in Int, NEW years \in {3, 5}
    PROVE  Rate(CAGR(initial, final, years))
<1> DEFINE scale == 10000
           total == (scale * final) \div initial
           after == Compounded[years]
           Steps == CagrFloor..(CagrCeiling - 1)
<1>1. CASE initial <= 0 \/ final <= 0
  BY <1>1 DEF CAGR, Rate
<1>2. CASE ~(initial <= 0 \/ final <= 0)
  <2>1. total \in Int
    <3>1. scale * final \in Int
      OBVIOUS
    <3> HIDE DEF scale
    <3> QED
      BY <1>2, <3>1
  <2>2. \A r \in CagrFloor..CagrCeiling : after[r] \in Int
    BY CompoundedIsInteger
  <2>3. CAGR(initial, final, years)
          = CASE total < after[CagrFloor]    -> 10 * CagrFloor
              [] total >= after[CagrCeiling] -> 10 * CagrCeiling
              [] OTHER -> 10 * (CHOOSE r \in Steps : after[r] <= total /\ total < after[r + 1])
    BY <1>2 DEF CAGR
  <2> HIDE DEF total, after
  <2>4. after[CagrFloor] \in Int /\ after[CagrCeiling] \in Int
    BY <2>2 DEF CagrFloor, CagrCeiling
  <2>5. CASE total < after[CagrFloor]
    <3>1. CASE total >= after[CagrCeiling]
      <4>1. CAGR(initial, final, years) \in {10 * CagrFloor, 10 * CagrCeiling}
        BY <2>3, <2>5, <3>1
      <4> QED
        BY <4>1 DEF Rate, CagrFloor, CagrCeiling
    <3>2. CASE ~(total >= after[CagrCeiling])
      <4>1. CAGR(initial, final, years) = 10 * CagrFloor
        BY <2>3, <2>5, <3>2
      <4> QED
        BY <4>1 DEF Rate, CagrFloor, CagrCeiling
    <3> QED
      BY <3>1, <3>2
  <2>6. CASE ~(total < after[CagrFloor]) /\ total >= after[CagrCeiling]
    <3>1. CAGR(initial, final, years) = 10 * CagrCeiling
      BY <2>3, <2>6
    <3>2. Rate(10 * CagrCeiling)
      BY DEF Rate, CagrFloor, CagrCeiling
    <3> QED
      BY <3>1, <3>2
  <2>7. CASE ~(total < after[CagrFloor]) /\ ~(total >= after[CagrCeiling])
    <3> DEFINE size == CagrCeiling - CagrFloor
               P == {n \in 0..size : after[CagrFloor + n] <= total}
    <3>1. size \in Nat /\ CagrFloor + size = CagrCeiling /\ CagrFloor + 0 = CagrFloor
      BY DEF CagrFloor, CagrCeiling
    <3>2. \E r \in Steps : after[r] <= total /\ total < after[r + 1]
      <4> SUFFICES ASSUME \A r \in Steps : ~(after[r] <= total /\ total < after[r + 1])
                   PROVE  FALSE
        OBVIOUS
      <4>1. 0 \in P
        BY <2>1, <2>4, <2>7, <3>1
      <4>2. ASSUME NEW n \in 1..size, n - 1 \in P PROVE n \in P
        <5> DEFINE r == CagrFloor + (n - 1)
        <5>1. r \in Steps /\ r + 1 = CagrFloor + n /\ r + 1 \in CagrFloor..CagrCeiling
          BY DEF CagrFloor, CagrCeiling
        <5>2. after[r] <= total
          BY <4>2
        <5>3. ~(total < after[r + 1])
          BY <5>1, <5>2
        <5>4. after[r + 1] \in Int
          BY <2>2, <5>1
        <5> QED
          BY <2>1, <5>1, <5>3, <5>4
      <4>3. \A n \in 0..size : n \in P
        <5> HIDE DEF P, size
        <5> QED
          BY <3>1, <4>1, <4>2, UpTo
      <4>4. size \in P
        BY <3>1, <4>3
      <4> QED
        BY <2>1, <2>4, <2>7, <3>1, <4>4
    <3>3. PICK r \in Steps :
             CAGR(initial, final, years) = 10 * r
      BY <2>3, <2>7, <3>2
    <3> QED
      BY <3>3 DEF Rate, CagrFloor, CagrCeiling
  <2> QED
    BY <2>5, <2>6, <2>7
<1> QED
  BY <1>1, <1>2

LEMMA PickIsARate ==
    ASSUME NEW series \in Seq(Points), NEW years \in {3, 5}
    PROVE  Rate(Pick(series, years))
<1> DEFINE n == Len(series)
<1>1. n \in Nat /\ \A i \in 1..n : series[i].value \in Int
  <2>1. n \in Nat /\ \A i \in 1..n : series[i] \in Points
    OBVIOUS
  <2> QED
    BY <2>1 DEF Points
<1>2. CASE n < years + 1
  BY <1>2 DEF Pick, Rate
<1>3. CASE ~(n < years + 1)
  <2>1. n \in 1..n /\ n - years \in 1..n
    BY <1>1, <1>3
  <2>2. series[n - years].value \in Int /\ series[n].value \in Int
    BY <1>1, <2>1
  <2>3. Pick(series, years) = CAGR(series[n - years].value, series[n].value, years)
    BY <1>3 DEF Pick
  <2> QED
    BY <2>2, <2>3, CagrIsARate
<1> QED
  BY <1>2, <1>3

LEMMA BlendIsARate ==
    ASSUME NEW res, DOMAIN res = {"eps3", "eps5", "fcf3", "fcf5", "rev3", "rev5", "source", "conf",
                                  "rate", "clamped", "discrepancy"},
           NEW eps, NEW fcf, NEW revenue, Rate(eps), Rate(fcf), {eps, fcf} # {None}
    PROVE  Rate(ApplyBlend(res, BlendOf(eps, fcf, DefaultGrowthConfig), revenue,
                           DefaultGrowthConfig).rate)
<1> DEFINE cfg == DefaultGrowthConfig
           blend == BlendOf(eps, fcf, cfg)
           wEps == IF eps = None THEN 0 ELSE cfg.weightEps
           wFcf == IF fcf = None THEN 0 ELSE cfg.weightFcf
           sum == (IF eps = None THEN 0 ELSE eps * wEps) + (IF fcf = None THEN 0 ELSE fcf * wFcf)
<1>1. cfg.weightEps = 5 /\ cfg.weightFcf = 5 /\ cfg.min = -100 /\ cfg.max = 250
  BY DEF DefaultGrowthConfig
<1>2. /\ wEps \in {0, 5} /\ wFcf \in {0, 5} /\ wEps + wFcf # 0
      /\ sum \in Int
  <2>1. CASE eps = None
    BY <1>1, <2>1 DEF Rate
  <2>2. CASE eps # None
    BY <1>1, <2>2 DEF Rate
  <2> QED
    BY <2>1, <2>2
<1>3. blend = sum \div (wEps + wFcf)
  BY <1>2 DEF BlendOf
<1>4. blend \in Int
  <2> HIDE DEF blend, wEps, wFcf, sum
  <2>1. wEps + wFcf \in {5, 10}
    BY <1>2
  <2> QED
    BY <1>2, <1>3, <2>1
<1> HIDE DEF blend
<1> DEFINE rate == IF blend < cfg.min THEN cfg.min ELSE IF blend > cfg.max THEN cfg.max ELSE blend
<1>5. ApplyBlend(res, blend, revenue, cfg).rate = rate
  BY DEF ApplyBlend
<1>6. rate \in Int /\ rate >= -100
  BY <1>1, <1>4
<1> HIDE DEF rate
<1> QED
  BY <1>5, <1>6 DEF blend, Rate, CagrFloor

LEMMA GrowthIsARate ==
    ASSUME NEW in, in.eps \in Seq(Points), in.fcf \in Seq(Points), in.revenue \in Seq(Points)
    PROVE  Rate(CalculateGrowth(in, DefaultGrowthConfig).rate)
<1> DEFINE cfg == DefaultGrowthConfig
           eps3 == Pick(in.eps, cfg.primary)
           eps5 == Pick(in.eps, cfg.fallback)
           fcf3 == Pick(in.fcf, cfg.primary)
           fcf5 == Pick(in.fcf, cfg.fallback)
           rev3 == Pick(in.revenue, cfg.primary)
           rev5 == Pick(in.revenue, cfg.fallback)
           evidence == Evidence(eps3, fcf3, eps5, fcf5, rev3, rev5)
           res == [eps3 |-> eps3, eps5 |-> eps5, fcf3 |-> fcf3, fcf5 |-> fcf5, rev3 |-> rev3,
                   rev5 |-> rev5, source |-> evidence[1], conf |-> evidence[2],
                   rate |-> None, clamped |-> FALSE, discrepancy |-> FALSE]
<1>1. cfg.primary \in {3, 5} /\ cfg.fallback \in {3, 5}
  BY DEF DefaultGrowthConfig
<1>2. Rate(eps3) /\ Rate(eps5) /\ Rate(fcf3) /\ Rate(fcf5) /\ Rate(rev3) /\ Rate(rev5)
  <2> HIDE DEF cfg
  <2> QED
    BY <1>1, PickIsARate
<1>3. CalculateGrowth(in, cfg)
        = CASE {eps3, fcf3} # {None} -> ApplyBlend(res, BlendOf(eps3, fcf3, cfg), rev3, cfg)
            [] {eps3, fcf3} = {None} /\ {eps5, fcf5} # {None} ->
                  ApplyBlend(res, BlendOf(eps5, fcf5, cfg), rev5, cfg)
            [] OTHER -> [res EXCEPT !.rate = IF rev3 # None THEN rev3 ELSE rev5]
  BY DEF CalculateGrowth
<1>4. DOMAIN res = {"eps3", "eps5", "fcf3", "fcf5", "rev3", "rev5", "source", "conf",
                    "rate", "clamped", "discrepancy"}
  OBVIOUS
<1> HIDE DEF res, eps3, eps5, fcf3, fcf5, rev3, rev5
<1>5. CASE {eps3, fcf3} # {None}
  <2>1. CalculateGrowth(in, cfg) = ApplyBlend(res, BlendOf(eps3, fcf3, cfg), rev3, cfg)
    BY <1>3, <1>5
  <2> QED
    BY <1>2, <1>4, <1>5, <2>1, BlendIsARate
<1>6. CASE {eps3, fcf3} = {None} /\ {eps5, fcf5} # {None}
  <2>1. CalculateGrowth(in, cfg) = ApplyBlend(res, BlendOf(eps5, fcf5, cfg), rev5, cfg)
    BY <1>3, <1>6
  <2> QED
    BY <1>2, <1>4, <1>6, <2>1, BlendIsARate
<1>7. CASE {eps3, fcf3} = {None} /\ {eps5, fcf5} = {None}
  <2>1. CalculateGrowth(in, cfg) = [res EXCEPT !.rate = IF rev3 # None THEN rev3 ELSE rev5]
    BY <1>3, <1>7
  <2>2. CalculateGrowth(in, cfg).rate = IF rev3 # None THEN rev3 ELSE rev5
    BY <1>4, <2>1
  <2> QED
    BY <1>2, <2>2
<1> QED
  BY <1>5, <1>6, <1>7

LEMMA GrowthRowIsARate ==
    ASSUME RowTable(fundamentals), NEW asOf
    PROVE  Rate(GrowthRow(asOf).res.rate)
<1> DEFINE in == GrowthInputs(fundamentals, asOf)
<1>1. /\ "eps_diluted" \in Concepts /\ "eps_basic" \in Concepts /\ "free_cash_flow" \in Concepts
      /\ "revenues" \in Concepts
  BY DEF Concepts, MetricConcepts
<1>2. /\ Series(fundamentals, "eps_diluted", asOf) \in Seq(Points)
      /\ Series(fundamentals, "eps_basic", asOf) \in Seq(Points)
      /\ Series(fundamentals, "free_cash_flow", asOf) \in Seq(Points)
      /\ Series(fundamentals, "revenues", asOf) \in Seq(Points)
  BY <1>1, SeriesIsTyped
<1>3. in.eps \in Seq(Points) /\ in.fcf \in Seq(Points) /\ in.revenue \in Seq(Points)
  BY <1>2 DEF GrowthInputs
<1>4. GrowthRow(asOf).res = CalculateGrowth(in, DefaultGrowthConfig)
  BY DEF GrowthRow
<1> HIDE DEF in
<1> QED
  BY <1>3, <1>4, GrowthIsARate

-----------------------------------------------------------------------------
(* The order of the scenarios.                                             *)

\* A product grows with its factors, and a quotient with its numerator and
\* against its denominator.
LEMMA ProductOrder ==
    ASSUME NEW a \in Int, NEW b \in Int, NEW c \in Int, NEW d \in Int, 0 <= a, a <= b, 0 <= c, c <= d
    PROVE  0 <= a * c /\ a * c <= b * d
<1>1. 0 <= a * c
  OBVIOUS
<1>2. a * c <= b * c
  <2>1. 0 <= (b - a) * c
    OBVIOUS
  <2> QED
    BY <2>1
<1>3. b * c <= b * d
  <2>1. 0 <= b * (d - c)
    OBVIOUS
  <2> QED
    BY <2>1
<1> QED
  BY <1>1, <1>2, <1>3

LEMMA QuotientOrder ==
    ASSUME NEW a \in Int, NEW b \in Int, NEW c \in Int, NEW d \in Int, 0 <= a, a <= b, 0 < d, d <= c
    PROVE  a \div c \in Int /\ b \div d \in Int /\ 0 <= a \div c /\ a \div c <= b \div d
<1> DEFINE q == a \div c
           r == b \div d
<1>1. q \in Int /\ q * c <= a /\ a < (q + 1) * c /\ 0 <= q
  OBVIOUS
<1>2. r \in Int /\ r * d <= b /\ b < (r + 1) * d
  OBVIOUS
<1> HIDE DEF q, r
<1>3. ASSUME r + 1 <= q PROVE FALSE
  <2>1. (r + 1) * d <= q * d
    <3>1. 0 <= (q - (r + 1)) * d
      BY <1>1, <1>2, <1>3
    <3> QED
      BY <1>1, <1>2, <3>1
  <2>2. q * d <= q * c
    BY <1>1, ProductOrder
  <2>3. q * d \in Int /\ q * c \in Int /\ (r + 1) * d \in Int
    BY <1>1, <1>2
  <2> QED
    BY <1>1, <1>2, <2>1, <2>2, <2>3
<1>4. q <= r
  BY <1>1, <1>2, <1>3
<1> QED
  BY <1>1, <1>2, <1>4 DEF q, r

LEMMA GrahamIsOrdered ==
    ASSUME NEW eps \in Int, 0 < eps, NEW g \in Int, NEW h \in Int, g <= h,
           GrahamValue(eps, g) # None
    PROVE  /\ GrahamValue(eps, g) \in Int /\ GrahamValue(eps, h) \in Int
           /\ GrahamValue(eps, g) <= GrahamValue(eps, h)
<1> DEFINE a == 2 * g + 85
           b == 2 * h + 85
           v == (eps * a) \div 10
           w == (eps * b) \div 10
<1>1. a \in Int /\ b \in Int /\ a <= b
  OBVIOUS
<1>2. ~(a <= 0) /\ v > 0 /\ GrahamValue(eps, g) = v
  BY DEF GrahamValue
<1>3. 0 <= eps * a /\ eps * a <= eps * b /\ eps * a \in Int /\ eps * b \in Int
  <2> HIDE DEF a, b
  <2> QED
    BY <1>1, <1>2, ProductOrder
<1>4. v \in Int /\ w \in Int /\ v <= w
  <2> DEFINE x == eps * a
             y == eps * b
  <2>1. x \in Int /\ y \in Int /\ 0 <= x /\ x <= y
    BY <1>3
  <2> HIDE DEF x, y
  <2>2. x \div 10 \in Int /\ y \div 10 \in Int /\ x \div 10 <= y \div 10
    BY <2>1
  <2> QED
    BY <2>2 DEF x, y
<1>5. GrahamValue(eps, h) = IF b <= 0 THEN None ELSE IF w > 0 THEN w ELSE None
  BY DEF GrahamValue
<1> HIDE DEF a, b, v, w
<1>6. GrahamValue(eps, h) = w
  BY <1>1, <1>2, <1>4, <1>5
<1> QED
  BY <1>2, <1>4, <1>6

\* The path of the growth of a scenario: over its terminal rate or between it
\* and the rate of the first year, and never so low that a flow changes its sign.
IsPath(path) == \A t \in 1..5 : path[t] \in Int /\ -900 <= path[t]

LEMMA PathsAreOrdered ==
    ASSUME NEW cfg, cfg = DefaultValuationConfig,
           NEW g \in Int, NEW h \in Int, NEW a \in Int, NEW b \in Int,
           -900 <= g, g <= h, -900 <= a, a <= b
    PROVE  /\ Len(GrowthPath(g, a, cfg)) = 5 /\ Len(GrowthPath(h, b, cfg)) = 5
           /\ IsPath(GrowthPath(g, a, cfg)) /\ IsPath(GrowthPath(h, b, cfg))
           /\ \A t \in 1..5 : GrowthPath(g, a, cfg)[t] <= GrowthPath(h, b, cfg)[t]
<1> DEFINE low == IF g > a + 50 THEN a + 50 ELSE g
           high == IF h > b + 50 THEN b + 50 ELSE h
           path == [t \in 1..5 |-> low + ((a - low) * (t - 1)) \div 4]
           route == [t \in 1..5 |-> high + ((b - high) * (t - 1)) \div 4]
<1>1. cfg.cap = 50 /\ cfg.horizon = 5
  BY DEF DefaultValuationConfig
<1>2. GrowthPath(g, a, cfg) = path /\ GrowthPath(h, b, cfg) = route
  BY <1>1 DEF GrowthPath
<1>3. low \in Int /\ high \in Int /\ low <= high /\ -900 <= low
  OBVIOUS
<1> HIDE DEF low, high
<1>4. ASSUME NEW t \in 1..5
      PROVE  path[t] \in Int /\ route[t] \in Int /\ -900 <= path[t] /\ path[t] <= route[t]
  <2>1. CASE t = 1
    BY <1>3, <2>1
  <2>2. CASE t = 2
    BY <1>3, <2>2
  <2>3. CASE t = 3
    BY <1>3, <2>3
  <2>4. CASE t = 4
    BY <1>3, <2>4
  <2>5. CASE t = 5
    BY <1>3, <2>5
  <2> QED
    BY <2>1, <2>2, <2>3, <2>4, <2>5
<1>5. Len(path) = 5 /\ Len(route) = 5
  <2>1. path \in [1..5 -> Int] /\ route \in [1..5 -> Int]
    BY <1>4
  <2> HIDE DEF path, route
  <2> QED
    BY <2>1
<1>6. IsPath(path) /\ IsPath(route)
  <2> HIDE DEF path, route
  <2>1. \A t \in 1..5 : -900 <= route[t]
    BY <1>4
  <2> QED
    BY <1>4, <2>1 DEF IsPath
<1> HIDE DEF path, route
<1> QED
  BY <1>2, <1>4, <1>5, <1>6

\* The sum of a function over a part of its domain.
SumOf(f, S) == MapThenSumSet(LAMBDA x : f[x], S)

\* A sum as a function of the subsets: every element that is taken adds its term.
Picks(S) == [s \in SUBSET S |-> CHOOSE x \in s : TRUE]
AddsUp(iter, f, S, pick) ==
    /\ iter[S] = SumOf(f, S)
    /\ iter[{}] = 0
    /\ \A s \in SUBSET S : s # {} => iter[s] = f[pick[s]] + iter[s \ {pick[s]}]

LEMMA SumsAddUp ==
    ASSUME NEW D, NEW f \in [D -> Int], NEW S \in SUBSET D, IsFiniteSet(S)
    PROVE  \E iter \in [SUBSET S -> Int] : AddsUp(iter, f, S, Picks(S))
<1> DEFINE Picked(s) == CHOOSE x \in s : TRUE
           pick == [s \in SUBSET S |-> Picked(s)]
           base == 0
           step == [p \in S \X Int |-> f[p[1]] + p[2]]
           Step(s, h) == IF s = {} THEN 0 ELSE f[Picked(s)] + h[s \ {Picked(s)}]
           iter == CHOOSE h : h = [s \in SUBSET S |-> Step(s, h)]
<1>1. \A s \in SUBSET S : s # {} => Picked(s) \in s
  OBVIOUS
<1> HIDE DEF Picked
<1>2. Takes(pick, S)
  BY <1>1 DEF Takes
<1>3. StepsIn(step, S, Int) /\ base \in Int
  BY DEF StepsIn
<1>4. \E h \in [SUBSET S -> Int] : Folds(h, S, pick, base, step)
  <2> HIDE DEF pick, base, step
  <2> QED
    BY <1>2, <1>3, TakingRecursion
<1>5. PICK h \in [SUBSET S -> Int] :
         h = [s \in SUBSET S |-> IF s = {} THEN base ELSE step[<<pick[s], h[s \ {pick[s]}]>>]]
  BY <1>4 DEF Folds
<1>6. ASSUME NEW s \in SUBSET S PROVE h[s] = Step(s, h)
  <2>1. CASE s = {}
    BY <1>5, <2>1
  <2>2. CASE s # {}
    <3>1. Picked(s) \in S /\ s \ {Picked(s)} \in SUBSET S /\ pick[s] = Picked(s)
      BY <1>1, <2>2
    <3>2. h[s \ {Picked(s)}] \in Int
      BY <3>1
    <3>3. h[s] = step[<<Picked(s), h[s \ {Picked(s)}]>>]
      BY <1>5, <2>2, <3>1
    <3> QED
      BY <2>2, <3>1, <3>2, <3>3
  <2> QED
    BY <2>1, <2>2
<1>7. h = [s \in SUBSET S |-> Step(s, h)]
  <2> HIDE DEF Step
  <2> QED
    BY <1>5, <1>6
<1>8. iter = [s \in SUBSET S |-> Step(s, iter)]
  <2> HIDE DEF Step
  <2> QED
    BY <1>7
<1>9. SumOf(f, S) = iter[S]
  BY DEF SumOf, MapThenSumSet, MapThenFoldSet, Picked
<1> HIDE DEF iter
<1>10. \A s \in SUBSET S : s # {} => iter[s] = f[pick[s]] + iter[s \ {pick[s]}]
  BY <1>8
<1>11. iter[{}] = 0
  BY <1>8
<1>12. iter \in [SUBSET S -> Int]
  <2> DEFINE Good == {s \in SUBSET S : iter[s] \in Int}
  <2>1. {} \in Good
    BY <1>11
  <2>2. ASSUME NEW s \in SUBSET S, s # {}, s \ {pick[s]} \in Good PROVE s \in Good
    <3>1. pick[s] \in S
      BY <1>2, <2>2 DEF Takes
    <3> HIDE DEF pick
    <3>2. iter[s \ {pick[s]}] \in Int /\ f[pick[s]] \in Int
      BY <2>2, <3>1
    <3> QED
      BY <1>10, <2>2, <3>2
  <2>3. \A s \in SUBSET S : s \in Good
    <3> HIDE DEF Good, pick
    <3> QED
      BY <1>2, <2>1, <2>2, TakingInduction
  <2>4. DOMAIN iter = SUBSET S
    BY <1>8
  <2>5. iter = [s \in SUBSET S |-> iter[s]]
    <3> HIDE DEF Step
    <3> QED
      BY <1>8
  <2> QED
    BY <2>3, <2>5
<1>13. AddsUp(iter, f, S, pick)
  <2> HIDE DEF pick
  <2> QED
    BY <1>9, <1>10, <1>11 DEF AddsUp
<1>14. pick = Picks(S)
  BY DEF Picked, Picks
<1> QED
  BY <1>12, <1>13, <1>14

\* A sum is an integer, and grows with its terms.
LEMMA SumsAreOrdered ==
    ASSUME NEW D, NEW f \in [D -> Int], NEW g \in [D -> Int], NEW S \in SUBSET D, IsFiniteSet(S),
           \A x \in S : f[x] <= g[x]
    PROVE  SumOf(f, S) \in Int /\ SumOf(g, S) \in Int /\ SumOf(f, S) <= SumOf(g, S)
<1> DEFINE pick == Picks(S)
<1>3. Takes(pick, S)
  BY DEF Takes, Picks
<1>1. PICK a \in [SUBSET S -> Int] : AddsUp(a, f, S, pick)
  BY SumsAddUp
<1>2. PICK b \in [SUBSET S -> Int] : AddsUp(b, g, S, pick)
  BY SumsAddUp
<1> HIDE DEF pick
<1> DEFINE Good == {s \in SUBSET S : a[s] <= b[s]}
<1>4. {} \in Good
  BY <1>1, <1>2 DEF AddsUp
<1>5. ASSUME NEW s \in SUBSET S, s # {}, s \ {pick[s]} \in Good PROVE s \in Good
  <2> DEFINE rest == s \ {pick[s]}
  <2>1. pick[s] \in S /\ rest \in SUBSET S /\ a[rest] <= b[rest]
    BY <1>3, <1>5 DEF Takes
  <2>2. a[s] = f[pick[s]] + a[rest] /\ b[s] = g[pick[s]] + b[rest]
    BY <1>1, <1>2, <1>5 DEF AddsUp
  <2> HIDE DEF rest
  <2>3. a[rest] \in Int /\ b[rest] \in Int /\ f[pick[s]] \in Int /\ g[pick[s]] \in Int
        /\ f[pick[s]] <= g[pick[s]]
    BY <2>1
  <2> QED
    BY <2>1, <2>2, <2>3
<1>6. \A s \in SUBSET S : s \in Good
  <2> HIDE DEF Good
  <2> QED
    BY <1>3, <1>4, <1>5, TakingInduction
<1> QED
  BY <1>1, <1>2, <1>6 DEF AddsUp

\* The flows of a path from the one of today on.
FlowAfter(x, rate, w) == (x * (1000 + rate)) \div (1000 + w)
FlowsOf(start, path, w) ==
    LET flow[t \in 0..5] == IF t = 0 THEN start ELSE FlowAfter(flow[t - 1], path[t], w)
    IN  flow
Follows(flow, start, path, w) ==
    /\ flow \in [0..5 -> Nat]
    /\ flow[0] = start
    /\ \A t \in 1..5 : flow[t] = FlowAfter(flow[t - 1], path[t], w)

LEMMA FlowsRepeat ==
    ASSUME NEW start \in Nat, NEW path, IsPath(path), NEW w \in Int, 0 < w
    PROVE  Follows(FlowsOf(start, path, w), start, path, w)
<1> DEFINE last == 5
           After(t, x) == FlowAfter(x, path[t], w)
           Step(t, f) == IF t = 0 THEN start ELSE After(t, f[t - 1])
           step == [p \in (1..last) \X Nat |-> After(p[1], p[2])]
           flow == CHOOSE f : f = [t \in 0..5 |-> Step(t, f)]
<1>1. FlowsOf(start, path, w) = flow
  BY DEF FlowsOf, After
<1>2. ASSUME NEW t \in 1..5, NEW x \in Nat
      PROVE  After(t, x) \in Nat
  <2> DEFINE rate == 1000 + path[t]
             d == 1000 + w
  <2>1. rate \in Nat /\ d \in Nat /\ 0 < d
    BY DEF IsPath
  <2> HIDE DEF rate, d
  <2>2. x * rate \in Nat
    BY <2>1, ProductOrder
  <2> DEFINE y == x * rate
  <2> HIDE DEF y
  <2>3. y \in Nat
    BY <2>2 DEF y
  <2>4. y \div d \in Nat
    BY <2>1, <2>3
  <2> QED
    BY <2>4 DEF y, rate, d, FlowAfter
<1>13. \A t \in 1..5 : \A x : After(t, x) = FlowAfter(x, path[t], w)
  OBVIOUS
<1> HIDE DEF After
<1>3. StepsIn(step, 1..last, Nat)
  BY <1>2 DEF StepsIn
<1>4. \E f \in [0..last -> Nat] : Counts(f, last, start, step)
  <2>1. last \in Nat
    OBVIOUS
  <2> HIDE DEF step, last
  <2> QED
    BY <1>3, <2>1, CountingRecursion
<1>5. PICK f \in [0..5 -> Nat] : f = [t \in 0..5 |-> IF t = 0 THEN start ELSE step[<<t, f[t - 1]>>]]
  BY <1>4 DEF Counts
<1>6. ASSUME NEW t \in 0..5 PROVE f[t] = Step(t, f)
  <2>1. CASE t = 0
    BY <1>5, <2>1
  <2>2. CASE t # 0
    <3>1. t \in 1..5 /\ t - 1 \in 0..5
      BY <2>2
    <3>2. f[t - 1] \in Nat
      BY <3>1
    <3>3. f[t] = step[<<t, f[t - 1]>>]
      BY <1>5, <2>2
    <3> QED
      BY <2>2, <3>1, <3>2, <3>3
  <2> QED
    BY <2>1, <2>2
<1>7. f = [t \in 0..5 |-> Step(t, f)]
  <2> HIDE DEF Step
  <2> QED
    BY <1>5, <1>6
<1>8. flow = [t \in 0..5 |-> Step(t, flow)]
  <2> HIDE DEF Step
  <2> QED
    BY <1>7
<1> HIDE DEF flow
<1>9. flow[0] = start /\ \A t \in 1..5 : flow[t] = Step(t, flow)
  <2> HIDE DEF Step
  <2>1. flow[0] = Step(0, flow) /\ \A t \in 1..5 : flow[t] = Step(t, flow)
    BY <1>8
  <2> QED
    BY <2>1 DEF Step
<1>10. \A t \in 1..5 : flow[t] = After(t, flow[t - 1])
  BY <1>9
<1>11. \A t \in 0..5 : flow[t] \in Nat
  <2>1. flow[0] \in Nat
    BY <1>9
  <2>2. flow[1] \in Nat
    BY <1>2, <1>10, <2>1
  <2>3. flow[2] \in Nat
    BY <1>2, <1>10, <2>2
  <2>4. flow[3] \in Nat
    BY <1>2, <1>10, <2>3
  <2>5. flow[4] \in Nat
    BY <1>2, <1>10, <2>4
  <2>6. flow[5] \in Nat
    BY <1>2, <1>10, <2>5
  <2>7. \A t \in 0..5 : t \in {0, 1, 2, 3, 4, 5}
    OBVIOUS
  <2> QED
    BY <2>1, <2>2, <2>3, <2>4, <2>5, <2>6, <2>7
<1>12. flow \in [0..5 -> Nat]
  <2>1. flow = [t \in 0..5 |-> flow[t]]
    <3> HIDE DEF Step
    <3> QED
      BY <1>8
  <2> QED
    BY <1>11, <2>1
<1> QED
  BY <1>1, <1>9, <1>10, <1>12, <1>13 DEF Follows

LEMMA FlowsAreOrdered ==
    ASSUME NEW start \in Nat, NEW path, NEW route,
           IsPath(path), IsPath(route), \A t \in 1..5 : path[t] <= route[t],
           NEW w \in Int, NEW v \in Int, 0 < v, v <= w
    PROVE  /\ FlowsOf(start, path, w) \in [0..5 -> Nat]
           /\ FlowsOf(start, route, v) \in [0..5 -> Nat]
           /\ \A t \in 0..5 : FlowsOf(start, path, w)[t] <= FlowsOf(start, route, v)[t]
<1> DEFINE f == FlowsOf(start, path, w)
           g == FlowsOf(start, route, v)
<1>1. 0 < w
  OBVIOUS
<1>2. Follows(f, start, path, w)
  BY <1>1, FlowsRepeat
<1>3. Follows(g, start, route, v)
  BY FlowsRepeat
<1> HIDE DEF f, g
<1> DEFINE P == {t \in 0..5 : f[t] <= g[t]}
<1>4. 0 \in P
  BY <1>2, <1>3 DEF Follows
<1>5. ASSUME NEW t \in 1..5, t - 1 \in P PROVE t \in P
  <2> DEFINE a == f[t - 1]
             b == g[t - 1]
             r == 1000 + path[t]
             q == 1000 + route[t]
             c == 1000 + w
             d == 1000 + v
  <2>1. t - 1 \in 0..5 /\ t \in 0..5
    OBVIOUS
  <2>2. a \in Nat /\ b \in Nat /\ a <= b
    BY <1>2, <1>3, <1>5, <2>1 DEF Follows
  <2>3. r \in Int /\ q \in Int /\ 0 <= r /\ r <= q /\ c \in Int /\ d \in Int /\ 0 < d /\ d <= c
    BY <1>1 DEF IsPath
  <2>4. f[t] = (a * r) \div c /\ g[t] = (b * q) \div d
    BY <1>2, <1>3 DEF Follows, FlowAfter
  <2> HIDE DEF a, b, r, q, c, d
  <2>5. 0 <= a * r /\ a * r <= b * q /\ a * r \in Int /\ b * q \in Int
    BY <2>2, <2>3, ProductOrder
  <2> DEFINE x == a * r
             y == b * q
  <2>6. x \in Int /\ y \in Int /\ 0 <= x /\ x <= y
    BY <2>5
  <2> HIDE DEF x, y
  <2>7. x \div c <= y \div d
    BY <2>3, <2>6, QuotientOrder
  <2> QED
    BY <2>1, <2>4, <2>7 DEF x, y
<1>6. \A t \in 0..5 : t \in P
  <2> DEFINE last == 5
  <2>1. last \in Nat
    OBVIOUS
  <2>2. \A t \in 1..last : t - 1 \in P => t \in P
    BY <1>5
  <2> HIDE DEF P, last
  <2>3. \A t \in 0..last : t \in P
    BY <1>4, <2>1, <2>2, UpTo
  <2> QED
    BY <2>3 DEF last
<1>7. \A t \in 0..5 : f[t] <= g[t]
  BY <1>6
<1> QED
  BY <1>2, <1>3, <1>7 DEF f, g, Follows

\* What a flow is worth by share: the flows of the path, the perpetuity after
\* them and the debt.
Perpetuity(flow, w, term) == ((flow[5] \div 10) * (1000 + term)) \div (w - term)
Equity(in, flow, w, term) ==
    SumOf(flow, 1..5) + 10 * Perpetuity(flow, w, term)
      - 1000 * (IF in.netDebt = None THEN 0 ELSE in.netDebt)

LEMMA DcfOfFlows ==
    ASSUME NEW in, NEW path, Len(path) = 5, NEW w, NEW term
    PROVE  LET equity == Equity(in, FlowsOf(1000 * in.fcf, path, w), w, term)
               value == equity \div (10 * in.shares)
           IN  DcfValue(in, path, w, term) = IF equity > 0 /\ value > 0 THEN value ELSE None
BY DEF DcfValue, Equity, Perpetuity, FlowsOf, FlowAfter, SumOf, MapThenSumSet, MapThenFoldSet

\* A better scenario of the DCF is worth at least as much: its flows are higher,
\* and the perpetuity is over a wider spread where it is worth less.
LEMMA DcfIsOrdered ==
    ASSUME NEW in, in.fcf \in Int, 0 < in.fcf, in.shares \in Int, 0 < in.shares,
           in.netDebt \in Numbers,
           NEW path, NEW route, Len(path) = 5, Len(route) = 5, IsPath(path), IsPath(route),
           \A t \in 1..5 : path[t] <= route[t],
           NEW w \in Int, NEW v \in Int, 0 < v, v <= w,
           NEW a \in Int, NEW b \in Int, 0 <= a, a <= b, b < v,
           DcfValue(in, path, w, a) # None, DcfValue(in, route, v, b) # None
    PROVE  /\ DcfValue(in, path, w, a) \in Int
           /\ DcfValue(in, path, w, a) <= DcfValue(in, route, v, b)
<1> DEFINE start == 1000 * in.fcf
           f == FlowsOf(start, path, w)
           g == FlowsOf(start, route, v)
           e == Equity(in, f, w, a)
           h == Equity(in, g, v, b)
           debt == 1000 * (IF in.netDebt = None THEN 0 ELSE in.netDebt)
           d == 10 * in.shares
<1>1. start \in Nat
  OBVIOUS
<1>2. /\ f \in [0..5 -> Nat] /\ g \in [0..5 -> Nat]
      /\ \A t \in 0..5 : f[t] <= g[t]
  <2> HIDE DEF start
  <2> QED
    BY <1>1, FlowsAreOrdered
<1>3. /\ DcfValue(in, path, w, a) = IF e > 0 /\ e \div d > 0 THEN e \div d ELSE None
      /\ DcfValue(in, route, v, b) = IF h > 0 /\ h \div d > 0 THEN h \div d ELSE None
  BY DcfOfFlows
<1>4. d \in Int /\ 0 < d
  OBVIOUS
<1>5. debt \in Int
  BY DEF Numbers
<1> HIDE DEF start, f, g, d
<1>6. SumOf(f, 1..5) \in Int /\ SumOf(g, 1..5) \in Int /\ SumOf(f, 1..5) <= SumOf(g, 1..5)
  <2> DEFINE D == 0..5
             S == 1..5
  <2>1. f \in [D -> Int] /\ g \in [D -> Int] /\ S \in SUBSET D /\ \A t \in S : f[t] <= g[t]
    BY <1>2
  <2>2. IsFiniteSet(S)
    <3>1. 1 \in Int /\ 5 \in Int
      OBVIOUS
    <3> QED
      BY <3>1, FS_Interval, Zenon
  <2> HIDE DEF D, S
  <2>3. SumOf(f, S) \in Int /\ SumOf(g, S) \in Int /\ SumOf(f, S) <= SumOf(g, S)
    BY <2>1, <2>2, SumsAreOrdered
  <2> QED
    BY <2>3 DEF S
<1>7. /\ Perpetuity(f, w, a) \in Int /\ Perpetuity(g, v, b) \in Int
      /\ Perpetuity(f, w, a) <= Perpetuity(g, v, b)
  <2> DEFINE x == f[5] \div 10
             y == g[5] \div 10
             r == 1000 + a
             q == 1000 + b
             p == x * r
             s == y * q
             m == w - a
             n == v - b
  <2>1. x \in Int /\ y \in Int /\ 0 <= x /\ x <= y
    <3>1. f[5] \in Nat /\ g[5] \in Nat /\ f[5] <= g[5]
      BY <1>2
    <3> QED
      BY <3>1
  <2>2. r \in Int /\ q \in Int /\ 0 <= r /\ r <= q /\ m \in Int /\ n \in Int /\ 0 < n /\ n <= m
    OBVIOUS
  <2>3. Perpetuity(f, w, a) = p \div m /\ Perpetuity(g, v, b) = s \div n
    BY DEF Perpetuity
  <2> HIDE DEF x, y, r, q, m, n
  <2>4. p \in Int /\ s \in Int /\ 0 <= p /\ p <= s
    BY <2>1, <2>2, ProductOrder
  <2> HIDE DEF p, s
  <2>5. p \div m \in Int /\ s \div n \in Int /\ p \div m <= s \div n
    BY <2>2, <2>4, QuotientOrder
  <2> QED
    BY <2>3, <2>5
<1>8. e \in Int /\ h \in Int /\ e <= h
  <2>1. /\ e = SumOf(f, 1..5) + 10 * Perpetuity(f, w, a) - debt
        /\ h = SumOf(g, 1..5) + 10 * Perpetuity(g, v, b) - debt
    BY DEF Equity
  <2> HIDE DEF e, h, debt
  <2> DEFINE x == SumOf(f, 1..5)
             y == SumOf(g, 1..5)
             p == Perpetuity(f, w, a)
             s == Perpetuity(g, v, b)
  <2>2. x \in Int /\ y \in Int /\ x <= y /\ p \in Int /\ s \in Int /\ p <= s
    BY <1>6, <1>7
  <2> HIDE DEF x, y, p, s
  <2>3. e = x + 10 * p - debt /\ h = y + 10 * s - debt
    BY <2>1 DEF x, y, p, s
  <2> QED
    BY <1>5, <2>2, <2>3
<1> HIDE DEF e, h
<1>9. e > 0 /\ DcfValue(in, path, w, a) = e \div d /\ DcfValue(in, route, v, b) = h \div d
  BY <1>3
<1>10. e \div d \in Int /\ e \div d <= h \div d
  BY <1>4, <1>8, <1>9, QuotientOrder
<1> QED
  BY <1>9, <1>10

Ranked == {<<"bear", "base">>, <<"base", "bull">>, <<"bear", "bull">>}
InOrder(m) ==
    \A worse, better \in Scenarios :
        <<worse, better>> \in Ranked /\ m.value[worse] # None /\ m.value[better] # None =>
            m.value[worse] <= m.value[better]

\* The spreads of the scenarios, worse and better.
LEMMA SpreadsAreOrdered ==
    ASSUME NEW worse \in Scenarios, NEW better \in Scenarios, <<worse, better>> \in Ranked
    PROVE  LET c == DefaultValuationConfig
           IN  /\ c.growthDelta[worse] \in -40..30 /\ c.growthDelta[better] \in -40..30
               /\ c.growthDelta[worse] <= c.growthDelta[better]
               /\ c.waccDelta[worse] \in Int /\ c.waccDelta[better] \in Int
               /\ c.waccDelta[better] <= c.waccDelta[worse]
               /\ c.termDelta[worse] \in -5..5 /\ c.termDelta[better] \in -5..5
               /\ c.termDelta[worse] <= c.termDelta[better]
               /\ c.terminal = 25
<1>1. CASE worse = "bear" /\ better = "base"
  BY <1>1 DEF DefaultValuationConfig
<1>2. CASE worse = "base" /\ better = "bull"
  BY <1>2 DEF DefaultValuationConfig
<1>3. CASE worse = "bear" /\ better = "bull"
  BY <1>3 DEF DefaultValuationConfig
<1> QED
  BY <1>1, <1>2, <1>3 DEF Ranked

LEMMA DcfInOrder ==
    ASSUME NEW in, in.fcf \in Numbers, in.shares \in Numbers, in.netDebt \in Numbers,
           NEW growth, growth.rate \in Int, -600 <= growth.rate,
           NEW rate, rate.level # 0 => rate.rate \in Int
    PROVE  InOrder(CalcDcfScenarios(in, DefaultValuationConfig, growth, rate))
<1> DEFINE cfg == DefaultValuationConfig
           w(s) == ScenarioRate(rate, cfg, s)
           term(s) == cfg.terminal + cfg.termDelta[s]
           path(s) == GrowthPath(growth.rate + cfg.growthDelta[s], term(s), cfg)
           of(s) == IF w(s) <= term(s) THEN None ELSE DcfValue(in, path(s), w(s), term(s))
           value == [s \in Scenarios |-> of(s)]
           m == CalcDcfScenarios(in, cfg, growth, rate)
<1> SUFFICES ASSUME NEW worse \in Scenarios, NEW better \in Scenarios,
                    <<worse, better>> \in Ranked, m.value[worse] # None, m.value[better] # None
             PROVE  m.value[worse] <= m.value[better]
  BY DEF InOrder
<1>1. \A reasons : Unavailable(reasons).value[worse] = None
  BY DEF Unavailable, NoValue
<1>2. ~(~Positive(in.fcf) \/ ~Positive(in.shares) \/ rate.level = 0)
  BY <1>1 DEF CalcDcfScenarios
<1>3. m.value = value
  <2>1. CASE value = NoValue
    BY <1>1, <1>2, <2>1 DEF CalcDcfScenarios
  <2>2. CASE value # NoValue
    BY <1>2, <2>2 DEF CalcDcfScenarios
  <2> QED
    BY <2>1, <2>2
<1>4. m.value[worse] = of(worse) /\ m.value[better] = of(better)
  <2> HIDE DEF m, of
  <2> QED
    BY <1>3
<1> HIDE DEF m, value
<1>5. ~(w(worse) <= term(worse)) /\ ~(w(better) <= term(better))
  BY <1>4
<1>6. /\ m.value[worse] = DcfValue(in, path(worse), w(worse), term(worse))
      /\ m.value[better] = DcfValue(in, path(better), w(better), term(better))
  BY <1>4, <1>5
<1>7. /\ in.fcf \in Int /\ 0 < in.fcf /\ in.shares \in Int /\ 0 < in.shares
      /\ rate.rate \in Int
  BY <1>2 DEF Positive, Numbers
<1>8. /\ w(worse) \in Int /\ w(better) \in Int /\ w(better) <= w(worse)
      /\ term(worse) \in Int /\ term(better) \in Int
      /\ 20 <= term(worse) /\ term(worse) <= term(better)
  <2>1. /\ cfg.waccDelta[worse] \in Int /\ cfg.waccDelta[better] \in Int
        /\ cfg.waccDelta[better] <= cfg.waccDelta[worse]
        /\ cfg.termDelta[worse] \in -5..5 /\ cfg.termDelta[better] \in -5..5
        /\ cfg.termDelta[worse] <= cfg.termDelta[better]
        /\ cfg.terminal = 25
    BY SpreadsAreOrdered
  <2> HIDE DEF cfg
  <2> QED
    BY <1>7, <2>1 DEF ScenarioRate
<1> DEFINE g == growth.rate + cfg.growthDelta[worse]
           h == growth.rate + cfg.growthDelta[better]
<1>9. g \in Int /\ h \in Int /\ g <= h /\ -900 <= g
  <2>1. /\ cfg.growthDelta[worse] \in -40..30 /\ cfg.growthDelta[better] \in -40..30
        /\ cfg.growthDelta[worse] <= cfg.growthDelta[better]
    BY SpreadsAreOrdered
  <2> DEFINE r == growth.rate
             d == cfg.growthDelta[worse]
             e == cfg.growthDelta[better]
  <2>2. r \in Int /\ -600 <= r /\ d \in Int /\ -40 <= d /\ d <= e /\ e \in Int
    BY <2>1
  <2>3. g = r + d /\ h = r + e
    OBVIOUS
  <2> HIDE DEF g, h, r, d, e
  <2> QED
    BY <2>2, <2>3
<1>10. path(worse) = GrowthPath(g, term(worse), cfg) /\ path(better) = GrowthPath(h, term(better), cfg)
  OBVIOUS
<1> HIDE DEF g, h, path, term, w
<1>11. -900 <= term(worse) /\ cfg = DefaultValuationConfig
  BY <1>8
<1>12. /\ Len(path(worse)) = 5 /\ Len(path(better)) = 5
       /\ IsPath(path(worse)) /\ IsPath(path(better))
       /\ \A t \in 1..5 : path(worse)[t] <= path(better)[t]
  <2> HIDE DEF cfg
  <2> QED
    BY <1>8, <1>9, <1>10, <1>11, PathsAreOrdered
<1>13. 0 < w(better) /\ 0 <= term(worse) /\ term(better) < w(better)
  BY <1>5, <1>8
<1> HIDE DEF cfg
<1> DEFINE p == path(worse)
           q == path(better)
           a == w(worse)
           b == w(better)
           x == term(worse)
           y == term(better)
<1>14. /\ Len(p) = 5 /\ Len(q) = 5 /\ IsPath(p) /\ IsPath(q) /\ \A t \in 1..5 : p[t] <= q[t]
       /\ a \in Int /\ b \in Int /\ 0 < b /\ b <= a
       /\ x \in Int /\ y \in Int /\ 0 <= x /\ x <= y /\ y < b
       /\ DcfValue(in, p, a, x) # None /\ DcfValue(in, q, b, y) # None
  BY <1>6, <1>8, <1>12, <1>13
<1>15. m.value[worse] = DcfValue(in, p, a, x) /\ m.value[better] = DcfValue(in, q, b, y)
  BY <1>6
<1> HIDE DEF p, q, a, b, x, y
<1>16. DcfValue(in, p, a, x) <= DcfValue(in, q, b, y)
  BY <1>7, <1>14, DcfIsOrdered
<1> QED
  BY <1>15, <1>16

LEMMA GrahamInOrder ==
    ASSUME NEW in, in.eps \in Numbers, NEW growth, growth.rate \in Int,
           NEW worse \in Scenarios, NEW better \in Scenarios, <<worse, better>> \in Ranked,
           CalcGrahamScenarios(in, DefaultValuationConfig, growth).value[worse] # None
    PROVE  LET m == CalcGrahamScenarios(in, DefaultValuationConfig, growth)
           IN  m.value[better] # None /\ m.value[worse] <= m.value[better]
<1> DEFINE cfg == DefaultValuationConfig
           of(s) == GrahamValue(in.eps, growth.rate + cfg.growthDelta[s])
           value == [s \in Scenarios |-> of(s)]
           m == CalcGrahamScenarios(in, cfg, growth)
<1>1. Unavailable({}).value[worse] = None
  BY DEF Unavailable, NoValue
<1>2. ~(~Positive(in.eps) \/ value = NoValue)
  BY <1>1 DEF CalcGrahamScenarios
<1>3. m.value = value
  BY <1>2 DEF CalcGrahamScenarios
<1>4. m.value[worse] = of(worse) /\ m.value[better] = of(better)
  <2> HIDE DEF m, of
  <2> QED
    BY <1>3
<1>5. in.eps \in Int /\ 0 < in.eps
  BY <1>2 DEF Positive, Numbers
<1>6. of(worse) # None
  BY <1>4
<1> HIDE DEF m, value
<1> DEFINE g == growth.rate + cfg.growthDelta[worse]
           h == growth.rate + cfg.growthDelta[better]
<1>7. of(worse) = GrahamValue(in.eps, g) /\ of(better) = GrahamValue(in.eps, h)
  OBVIOUS
<1>8. g \in Int /\ h \in Int /\ g <= h
  <2> DEFINE r == growth.rate
             d == cfg.growthDelta[worse]
             e == cfg.growthDelta[better]
  <2>1. r \in Int /\ d \in Int /\ d <= e /\ e \in Int
    BY SpreadsAreOrdered
  <2>2. g = r + d /\ h = r + e
    OBVIOUS
  <2> HIDE DEF g, h, r, d, e
  <2> QED
    BY <2>1, <2>2
<1> HIDE DEF g, h, of
<1>9. GrahamValue(in.eps, h) \in Int /\ GrahamValue(in.eps, g) <= GrahamValue(in.eps, h)
  BY <1>5, <1>6, <1>7, <1>8, GrahamIsOrdered
<1> QED
  BY <1>4, <1>7, <1>9, NoneIsNoNumber DEF m

-----------------------------------------------------------------------------
(* The numbers that the valuation reads.                                   *)

LEMMA ValueAtIsANumber ==
    ASSUME NEW series \in Seq(Points), NEW end
    PROVE  ValueAt(series, end) \in Numbers
<1> DEFINE P == {i \in DOMAIN series : series[i].end = end}
<1>1. CASE P = {}
  BY <1>1 DEF ValueAt, Numbers
<1>2. CASE P # {}
  <2>1. Len(series) \in Nat /\ DOMAIN series = 1..Len(series)
    BY LenProperties
  <2>2. P \in SUBSET Int /\ IsFiniteSet(P)
    <3>1. IsFiniteSet(1..Len(series))
      BY <2>1, FS_Interval
    <3> QED
      BY <2>1, <3>1, FS_Subset
  <2>3. Max(P) \in P
    <3> HIDE DEF P
    <3> QED
      BY <1>2, <2>2, Extremes
  <2>4. series[Max(P)] \in Points
    BY <2>1, <2>3, ElementOfSeq
  <2>5. ValueAt(series, end) = series[Max(P)].value
    BY <1>2 DEF ValueAt
  <2> HIDE DEF P
  <2> QED
    BY <2>4, <2>5 DEF Points, Numbers
<1> QED
  BY <1>1, <1>2

LEMMA MarginsAreIntegers ==
    ASSUME NEW in, in.fcfSeries \in Seq(Points), in.revenueSeries \in Seq(Points)
    PROVE  /\ IsFiniteSet(DOMAIN PairedMargins(in))
           /\ PairedMargins(in) \in [DOMAIN PairedMargins(in) -> Int]
<1> DEFINE s == in.fcfSeries
           revenueOf(end) == ValueAt(in.revenueSeries, end)
           paired == {i \in DOMAIN s : Positive(revenueOf(s[i].end))}
           kept == {i \in paired : Cardinality({j \in paired : j > i}) < 5}
           margin(i) == (1000 * s[i].value) \div revenueOf(s[i].end)
<1>1. PairedMargins(in) = [i \in kept |-> margin(i)]
  BY DEF PairedMargins
<1>2. IsFiniteSet(kept) /\ kept \subseteq 1..Len(s) /\ \A i \in kept : Positive(revenueOf(s[i].end))
  <2>1. Len(s) \in Nat /\ DOMAIN s = 1..Len(s)
    BY LenProperties
  <2>2. IsFiniteSet(1..Len(s))
    BY <2>1, FS_Interval
  <2>3. kept \subseteq 1..Len(s) /\ \A i \in kept : Positive(revenueOf(s[i].end))
    BY <2>1
  <2> QED
    BY <2>2, <2>3, FS_Subset
<1> HIDE DEF kept
<1>3. ASSUME NEW i \in kept PROVE margin(i) \in Int
  <2> DEFINE r == revenueOf(s[i].end)
             v == 1000 * s[i].value
  <2>1. s[i] \in Points
    BY <1>2, ElementOfSeq
  <2>2. v \in Int
    BY <2>1 DEF Points
  <2>3. r \in Int /\ 0 < r
    <3>1. r \in Numbers
      BY ValueAtIsANumber
    <3>2. Positive(r)
      BY <1>2
    <3> HIDE DEF r
    <3> QED
      BY <3>1, <3>2 DEF Numbers, Positive
  <2> HIDE DEF r, v
  <2>4. v \div r \in Int
    BY <2>2, <2>3
  <2> QED
    BY <2>4 DEF r, v
<1> HIDE DEF margin
<1>4. [i \in kept |-> margin(i)] \in [kept -> Int]
  BY <1>3
<1> QED
  BY <1>1, <1>2, <1>4

LEMMA NormalizedIsANumber ==
    ASSUME NEW in, in.fcfSeries \in Seq(Points), in.revenueSeries \in Seq(Points)
    PROVE  NormalizedFcf(in) \in Numbers
<1> DEFINE revenue == IF in.revenueSeries = <<>> THEN None ELSE Last(in.revenueSeries).value
           margins == PairedMargins(in)
           median == MedianOf(margins)
           R == DOMAIN margins
           collapsed == /\ Positive(in.fcf) /\ Positive(revenue)
                        /\ Cardinality(DOMAIN margins) >= 3
                        /\ median > 0
                        /\ 2000 * in.fcf < median * revenue
<1>1. NormalizedFcf(in) = IF collapsed THEN (median * revenue) \div 1000 ELSE None
  BY DEF NormalizedFcf
<1>2. CASE ~collapsed
  BY <1>1, <1>2 DEF Numbers
<1>3. CASE collapsed
  <2>1. median \in Int
    <3>1. IsFiniteSet(R) /\ margins \in [R -> Int]
      BY MarginsAreIntegers
    <3>2. R # {}
      <4>1. Cardinality(R) >= 3
        BY <1>3
      <4>2. Cardinality({}) = 0
        BY FS_EmptySet
      <4> HIDE DEF R
      <4>3. R = {} => Cardinality(R) = 0
        BY <4>2
      <4>4. Cardinality(R) # 0
        BY <4>1
      <4> QED
        BY <4>3, <4>4
    <3> HIDE DEF margins, R
    <3> QED
      BY <3>1, <3>2, FunctionMedian
  <2>2. revenue \in Int
    <3>1. in.revenueSeries # <<>>
      BY <1>3 DEF Positive
    <3>2. Len(in.revenueSeries) \in 1..Len(in.revenueSeries)
      BY <3>1, EmptySeq
    <3>3. in.revenueSeries[Len(in.revenueSeries)] \in Points
      BY <3>2, ElementOfSeq
    <3> QED
      BY <3>1, <3>3 DEF Points, Last
  <2> HIDE DEF median, revenue
  <2>3. median * revenue \in Int
    BY <2>1, <2>2
  <2> DEFINE x == median * revenue
  <2> HIDE DEF x
  <2>4. x \div 1000 \in Int
    BY <2>3 DEF x
  <2> QED
    BY <1>1, <1>3, <2>4 DEF x, Numbers
<1> QED
  BY <1>2, <1>3

\* The base of a method, which the score reads.
LEMMA DcfBaseIsANumber ==
    ASSUME NEW in, in.fcf \in Numbers, in.shares \in Numbers, in.netDebt \in Numbers,
           NEW growth, growth.rate \in Int, -600 <= growth.rate,
           NEW rate, rate.level # 0 => rate.rate \in Int
    PROVE  CalcDcfScenarios(in, DefaultValuationConfig, growth, rate).value["base"] \in Numbers
<1> DEFINE cfg == DefaultValuationConfig
           w(s) == ScenarioRate(rate, cfg, s)
           term(s) == cfg.terminal + cfg.termDelta[s]
           path(s) == GrowthPath(growth.rate + cfg.growthDelta[s], term(s), cfg)
           of(s) == IF w(s) <= term(s) THEN None ELSE DcfValue(in, path(s), w(s), term(s))
           value == [s \in Scenarios |-> of(s)]
           m == CalcDcfScenarios(in, cfg, growth, rate)
<1> SUFFICES ASSUME m.value["base"] # None PROVE m.value["base"] \in Int
  BY DEF Numbers
<1>0. "base" \in Scenarios
  BY DEF Scenarios
<1>1. \A reasons : Unavailable(reasons).value["base"] = None
  BY <1>0 DEF Unavailable, NoValue
<1>2. ~(~Positive(in.fcf) \/ ~Positive(in.shares) \/ rate.level = 0)
  BY <1>1 DEF CalcDcfScenarios
<1>3. m.value = value
  <2>1. CASE value = NoValue
    BY <1>1, <1>2, <2>1 DEF CalcDcfScenarios
  <2>2. CASE value # NoValue
    BY <1>2, <2>2 DEF CalcDcfScenarios
  <2> QED
    BY <2>1, <2>2
<1>4. m.value["base"] = of("base")
  <2> HIDE DEF m, of
  <2> QED
    BY <1>0, <1>3
<1> HIDE DEF m, value
<1>5. ~(w("base") <= term("base"))
  BY <1>4
<1>6. m.value["base"] = DcfValue(in, path("base"), w("base"), term("base"))
  BY <1>4, <1>5
<1>7. /\ in.fcf \in Int /\ 0 < in.fcf /\ in.shares \in Int /\ 0 < in.shares
      /\ rate.rate \in Int
  BY <1>2 DEF Positive, Numbers
<1>8. cfg.waccDelta["base"] = 0 /\ cfg.termDelta["base"] = 0 /\ cfg.terminal = 25
      /\ cfg.growthDelta["base"] = 0
  BY DEF DefaultValuationConfig
<1> DEFINE a == w("base")
           x == term("base")
           g == growth.rate + cfg.growthDelta["base"]
           p == path("base")
<1>9. a \in Int /\ x \in Int /\ 0 <= x /\ x < a /\ g \in Int /\ -900 <= g /\ -900 <= x
  <2> HIDE DEF cfg
  <2> QED
    BY <1>5, <1>7, <1>8 DEF ScenarioRate
<1>10. p = GrowthPath(g, x, cfg) /\ m.value["base"] = DcfValue(in, p, a, x)
  BY <1>6
<1> HIDE DEF a, x, g, p, w, term, path, of, cfg
<1>11. Len(p) = 5 /\ IsPath(p) /\ \A t \in 1..5 : p[t] <= p[t]
  BY <1>9, <1>10, PathsAreOrdered DEF cfg
<1>12. DcfValue(in, p, a, x) \in Int
  <2>1. 0 < a /\ a <= a /\ x <= x
    BY <1>9
  <2> QED
    BY <1>7, <1>9, <1>10, <1>11, <2>1, DcfIsOrdered
<1> QED
  BY <1>10, <1>12

LEMMA GrahamBaseIsANumber ==
    ASSUME NEW in, in.eps \in Numbers, NEW growth, growth.rate \in Int
    PROVE  CalcGrahamScenarios(in, DefaultValuationConfig, growth).value["base"] \in Numbers
<1> DEFINE cfg == DefaultValuationConfig
           of(s) == GrahamValue(in.eps, growth.rate + cfg.growthDelta[s])
           value == [s \in Scenarios |-> of(s)]
           m == CalcGrahamScenarios(in, cfg, growth)
           g == growth.rate + cfg.growthDelta["base"]
<1> SUFFICES ASSUME m.value["base"] # None PROVE m.value["base"] \in Int
  BY DEF Numbers
<1>0. "base" \in Scenarios
  BY DEF Scenarios
<1>1. Unavailable({}).value["base"] = None
  BY <1>0 DEF Unavailable, NoValue
<1>2. ~(~Positive(in.eps) \/ value = NoValue)
  BY <1>1 DEF CalcGrahamScenarios
<1>3. m.value = value
  BY <1>2 DEF CalcGrahamScenarios
<1>4. m.value["base"] = of("base")
  <2> HIDE DEF m, of
  <2> QED
    BY <1>0, <1>3
<1>5. in.eps \in Int /\ 0 < in.eps
  BY <1>2 DEF Positive, Numbers
<1> HIDE DEF m, value
<1>6. m.value["base"] = GrahamValue(in.eps, g) /\ g \in Int
  BY <1>4 DEF DefaultValuationConfig
<1> HIDE DEF g, of, cfg
<1>7. GrahamValue(in.eps, g) \in Int
  <2>1. g <= g
    BY <1>6
  <2> QED
    BY <1>5, <1>6, <2>1, GrahamIsOrdered
<1> QED
  BY <1>6, <1>7

\* The inputs of a valuation.
TypedInputs(in) ==
    /\ {"eps", "fcf", "shares", "growthConf"} \subseteq DOMAIN in
    /\ in.eps \in Numbers /\ in.fcf \in Numbers /\ in.netDebt \in Numbers /\ in.shares \in Numbers
    /\ in.wacc \in Numbers /\ in.ke \in Numbers
    /\ Rate(in.growth)
    /\ in.fcfSeries \in Seq(Points) /\ in.revenueSeries \in Seq(Points)

LEMMA ClassIsTyped ==
    ASSUME NEW raw, TypedInputs(raw)
    PROVE  TypedInputs(NormalizeShareClass(raw))
<1> DEFINE eps == IF raw.eps = None THEN None ELSE raw.eps \div ClassRatio
           shares == IF raw.shares = None THEN None ELSE raw.shares * ClassRatio
           in == [raw EXCEPT !.eps = eps, !.shares = shares]
<1>1. NormalizeShareClass(raw) \in {raw, in}
  BY DEF NormalizeShareClass
<1>2. eps \in Numbers /\ shares \in Numbers
  BY DEF TypedInputs, Numbers, ClassRatio
<1> HIDE DEF eps, shares
<1>3. /\ DOMAIN in = DOMAIN raw /\ in.eps = eps /\ in.shares = shares /\ in.fcf = raw.fcf
      /\ in.netDebt = raw.netDebt /\ in.wacc = raw.wacc /\ in.ke = raw.ke
      /\ in.growth = raw.growth /\ in.fcfSeries = raw.fcfSeries
      /\ in.revenueSeries = raw.revenueSeries
  BY DEF TypedInputs
<1> HIDE DEF in
<1>4. TypedInputs(in)
  BY <1>2, <1>3 DEF TypedInputs
<1> QED
  BY <1>1, <1>4

\* The scenarios of the two methods of a valuation: in order, the base of each
\* one a number.
InTheirOrder(res) ==
    /\ InOrder(res.graham) /\ InOrder(res.dcf)
    /\ res.graham.value["base"] \in Numbers /\ res.dcf.value["base"] \in Numbers
    /\ \A worse, better \in Scenarios :
         <<worse, better>> \in Ranked /\ res.graham.value[worse] # None =>
             res.graham.value[better] # None

LEMMA CalculateInOrder ==
    ASSUME NEW raw, TypedInputs(raw)
    PROVE  InTheirOrder(CalculateValuation(raw, DefaultValuationConfig))
<1> DEFINE cfg == DefaultValuationConfig
           classed == NormalizeShareClass(raw)
           normalized == IF cfg.normalize THEN NormalizedFcf(classed) ELSE None
           applied == normalized # None
           diverge == GrowthSignalsDiverge(classed.eps5, classed.fcf5)
           in == IF diverge THEN [classed EXCEPT !.growthConf = "low"] ELSE classed
           dcfIn == IF applied THEN [in EXCEPT !.fcf = normalized] ELSE in
           growth == ResolveGrowth(in, cfg)
           rate == ResolveDiscountRate(in, cfg)
           dcf0 == CalcDcfScenarios(dcfIn, cfg, growth, rate)
           dcf1 == IF applied
                   THEN [dcf0 EXCEPT !.conf = Capped(IF @ = "" THEN "medium" ELSE @, "medium")]
                   ELSE dcf0
           graham0 == CalcGrahamScenarios(in, cfg, growth)
           graham == ApplyPlausibility(dcfIn, graham0, TRUE)
           dcf == ApplyPlausibility(dcfIn, dcf1, FALSE)
           v == CalculateValuation(raw, cfg)
<1>1. v.graham = graham /\ v.dcf = dcf
  <2> HIDE DEF cfg
  <2>1. v = Outcome(in, normalized, diverge, cfg)
    BY DEF CalculateValuation
  <2> HIDE DEF v, in, normalized, diverge
  <2>2. Outcome(in, normalized, diverge, cfg).graham = graham
    BY DEF Outcome
  <2>3. Outcome(in, normalized, diverge, cfg).dcf = dcf
    BY DEF Outcome
  <2> QED
    BY <2>1, <2>2, <2>3
<1>2. TypedInputs(classed)
  BY ClassIsTyped
<1>3. normalized \in Numbers
  <2> HIDE DEF classed
  <2>1. classed.fcfSeries \in Seq(Points) /\ classed.revenueSeries \in Seq(Points)
    BY <1>2 DEF TypedInputs
  <2>2. NormalizedFcf(classed) \in Numbers
    BY <2>1, NormalizedIsANumber
  <2> QED
    BY <2>2 DEF Numbers
<1> HIDE DEF classed, normalized, diverge
<1>4. TypedInputs(in)
  <2> DEFINE low == [classed EXCEPT !.growthConf = "low"]
  <2>1. /\ DOMAIN low = DOMAIN classed /\ low.eps = classed.eps /\ low.shares = classed.shares
        /\ low.fcf = classed.fcf /\ low.netDebt = classed.netDebt /\ low.wacc = classed.wacc
        /\ low.ke = classed.ke /\ low.growth = classed.growth
        /\ low.fcfSeries = classed.fcfSeries /\ low.revenueSeries = classed.revenueSeries
    OBVIOUS
  <2>2. in \in {low, classed}
    OBVIOUS
  <2> HIDE DEF low, in
  <2> QED
    BY <1>2, <2>1, <2>2 DEF TypedInputs
<1> HIDE DEF in
<1>5. dcfIn.fcf \in Numbers /\ dcfIn.shares \in Numbers /\ dcfIn.netDebt \in Numbers
  <2> DEFINE healthy == [in EXCEPT !.fcf = normalized]
  <2>1. healthy.fcf = normalized /\ healthy.shares = in.shares /\ healthy.netDebt = in.netDebt
    BY <1>4 DEF TypedInputs
  <2>2. dcfIn \in {healthy, in}
    OBVIOUS
  <2> HIDE DEF healthy, dcfIn
  <2> QED
    BY <1>3, <1>4, <2>1, <2>2 DEF TypedInputs
<1> HIDE DEF dcfIn
<1>6. growth.rate \in Int /\ -600 <= growth.rate
  <2>1. in.growth # None => in.growth \in Int /\ -600 <= in.growth
    BY <1>4 DEF TypedInputs, Rate, CagrFloor
  <2>2. growth.rate = IF in.growth # None THEN in.growth ELSE 70
    BY DEF ResolveGrowth, DefaultValuationConfig
  <2> QED
    BY <2>1, <2>2
<1>7. rate.level # 0 => rate.rate \in Int
  <2>1. cfg.waccFallback = 90
    BY DEF DefaultValuationConfig
  <2> HIDE DEF cfg
  <2>2. in.wacc \in Numbers /\ in.ke \in Numbers
    BY <1>4 DEF TypedInputs
  <2>3. CASE in.waccSource = "configured_fallback"
    BY <2>1, <2>3 DEF ResolveDiscountRate
  <2>4. CASE in.waccSource # "configured_fallback" /\ Positive(in.wacc)
    BY <2>2, <2>4 DEF ResolveDiscountRate, Numbers, Positive
  <2>5. CASE in.waccSource # "configured_fallback" /\ ~Positive(in.wacc) /\ Positive(in.ke)
    BY <2>2, <2>5 DEF ResolveDiscountRate, Numbers, Positive
  <2>6. CASE in.waccSource # "configured_fallback" /\ ~Positive(in.wacc) /\ ~Positive(in.ke)
    BY <2>1, <2>6 DEF ResolveDiscountRate
  <2> QED
    BY <2>3, <2>4, <2>5, <2>6
<1> HIDE DEF growth, rate
<1>8. InOrder(dcf0)
  BY <1>5, <1>6, <1>7, DcfInOrder
<1>9. dcf0.value["base"] \in Numbers
  BY <1>5, <1>6, <1>7, DcfBaseIsANumber
<1>10. graham0.value["base"] \in Numbers
  <2>1. in.eps \in Numbers
    BY <1>4 DEF TypedInputs
  <2> QED
    BY <1>6, <2>1, GrahamBaseIsANumber
<1> HIDE DEF dcf0
<1>11. InOrder(dcf1) /\ dcf1.value["base"] \in Numbers
  <2>1. dcf1.value = dcf0.value
    OBVIOUS
  <2> HIDE DEF dcf1
  <2> QED
    BY <1>8, <1>9, <2>1 DEF InOrder
<1>12. \A worse, better \in Scenarios :
          <<worse, better>> \in Ranked /\ graham0.value[worse] # None =>
              graham0.value[better] # None /\ graham0.value[worse] <= graham0.value[better]
  <2>1. in.eps \in Numbers
    BY <1>4 DEF TypedInputs
  <2> QED
    BY <1>6, <2>1, GrahamInOrder
<1> HIDE DEF graham0, dcf1
<1>13. \A m, onEarnings : ApplyPlausibility(dcfIn, m, onEarnings) = m
                            \/ ApplyPlausibility(dcfIn, m, onEarnings).value = NoValue
  BY DEF ApplyPlausibility, Unavailable
<1>14. graham = graham0 \/ graham.value = NoValue
  BY <1>13
<1>15. dcf = dcf1 \/ dcf.value = NoValue
  BY <1>13
<1> HIDE DEF graham, dcf, v
<1>16. \A s \in Scenarios : NoValue[s] = None
  BY DEF NoValue
<1>17. NoValue["base"] = None
  BY <1>16 DEF Scenarios
<1>18. graham.value["base"] \in Numbers
  BY <1>14, <1>10, <1>17 DEF Numbers
<1>19. dcf.value["base"] \in Numbers
  BY <1>11, <1>15, <1>17 DEF Numbers
<1>20. InOrder(graham)
  BY <1>12, <1>14, <1>16 DEF InOrder
<1>21. InOrder(dcf)
  BY <1>11, <1>15, <1>16 DEF InOrder
<1>22. \A worse, better \in Scenarios :
          <<worse, better>> \in Ranked /\ graham.value[worse] # None => graham.value[better] # None
  BY <1>12, <1>14, <1>16
<1>23. InTheirOrder(v)
  BY <1>1, <1>20, <1>21, <1>22, <1>18, <1>19 DEF InTheirOrder
<1> QED
  BY <1>23 DEF v

-----------------------------------------------------------------------------
(* The rates that the WACC leaves.                                         *)

LEMMA TaxRateIsANumber ==
    ASSUME NEW s, \A c \in AlignedConcepts : s[c] \in Seq(Points), NEW asOf, NEW maxAge
    PROVE  AlignedTaxRate(AlignedFYFacts(s, asOf, maxAge)).rate \in Numbers
<1> DEFINE a == AlignedFYFacts(s, asOf, maxAge)
           anchor == Anchor(s)
           at(concept) == IF anchor = None THEN None ELSE ValueAt(s[concept], anchor)
           sign == IF a.pretax < 0 THEN -1 ELSE 1
           seen == (1000 * sign * a.tax) \div (sign * a.pretax)
<1> SUFFICES AlignedTaxRate(a).rate \in Numbers
  OBVIOUS
<1>1. a.tax = at("income_tax_expense") /\ a.pretax = at("pretax_income")
  BY DEF AlignedFYFacts
<1>2. at("income_tax_expense") \in Numbers /\ at("pretax_income") \in Numbers
  <2>1. s["income_tax_expense"] \in Seq(Points) /\ s["pretax_income"] \in Seq(Points)
    BY DEF AlignedConcepts
  <2> HIDE DEF anchor
  <2>2. /\ ValueAt(s["income_tax_expense"], anchor) \in Numbers
        /\ ValueAt(s["pretax_income"], anchor) \in Numbers
    BY <2>1, ValueAtIsANumber
  <2> QED
    BY <2>2 DEF Numbers
<1>3. a.taxReason = "" => a.tax # None /\ a.pretax # None
  <2> DEFINE fresh == anchor # None /\ asOf - anchor <= maxAge
  <2>1. a.taxReason = CASE anchor = None                -> "no_anchor"
                        [] anchor # None /\ ~fresh      -> "tax_rate_stale"
                        [] fresh /\ (at("income_tax_expense") = None \/ at("pretax_income") = None) ->
                              "tax_rate_unavailable"
                        [] OTHER                        -> ""
    BY DEF AlignedFYFacts
  <2> HIDE DEF a, at, anchor
  <2>2. CASE anchor = None
    BY <2>1, <2>2
  <2>3. CASE anchor # None /\ ~fresh
    BY <2>1, <2>3
  <2>4. CASE fresh /\ (at("income_tax_expense") = None \/ at("pretax_income") = None)
    BY <2>1, <2>4
  <2>5. CASE fresh /\ ~(at("income_tax_expense") = None \/ at("pretax_income") = None)
    BY <1>1, <2>5
  <2> QED
    BY <2>2, <2>3, <2>4, <2>5
<1> HIDE DEF at
<1> HIDE DEF a
<1>4. CASE a.taxReason # ""
  BY <1>4 DEF AlignedTaxRate, Numbers
<1>5. CASE a.taxReason = "" /\ a.pretax = 0
  BY <1>5 DEF AlignedTaxRate, Numbers
<1>6. CASE a.taxReason = "" /\ a.pretax # 0
  <2>1. a.tax \in Int /\ a.pretax \in Int
    BY <1>1, <1>2, <1>3, <1>6 DEF Numbers
  <2>2. seen \in Int
    <3> DEFINE x == 1000 * sign * a.tax
               y == sign * a.pretax
    <3>1. sign \in {-1, 1} /\ sign * a.pretax \in Int /\ 0 < sign * a.pretax
      <4> DEFINE p == a.pretax
      <4>1. p \in Int /\ p # 0 /\ (p < 0 => sign = -1) /\ (~(p < 0) => sign = 1)
        BY <1>6, <2>1
      <4> HIDE DEF p, sign
      <4>2. CASE p < 0
        BY <4>1, <4>2 DEF p
      <4>3. CASE ~(p < 0)
        BY <4>1, <4>3 DEF p
      <4> QED
        BY <4>2, <4>3
    <3>3. x \in Int /\ y \in Int /\ 0 < y
      <4> HIDE DEF sign
      <4> QED
        BY <2>1, <3>1
    <3> HIDE DEF x, y
    <3>2. x \div y \in Int
      BY <3>3
    <3> QED
      BY <3>2 DEF x, y
  <2> DEFINE res == AlignedTaxRate(a)
  <2>3. res = IF 0 <= seen /\ seen <= 500 THEN [rate |-> seen, reason |-> ""]
              ELSE [rate |-> None, reason |-> "tax_rate_out_of_range"]
    BY <1>6 DEF AlignedTaxRate
  <2> HIDE DEF seen, res
  <2>4. res.rate \in {seen, None}
    BY <2>3
  <2> QED
    BY <2>2, <2>4 DEF res, Numbers
<1> QED
  BY <1>4, <1>5, <1>6

LEMMA WaccIsANumber ==
    ASSUME NEW in, in.equity \in Numbers, in.debt \in Numbers, in.beta \in Numbers,
           in.tax \in Numbers, in.riskFree = None, in.premium = None, in.costOfDebt = None
    PROVE  LET res == CalculateWacc(in, DefaultWaccConfig)
           IN  res.wacc \in Numbers /\ res.ke \in Numbers
<1> DEFINE cfg == DefaultWaccConfig
           beta == IF UsableBeta(in.beta) THEN in.beta ELSE cfg.beta
           ke == ObservedOr(in.riskFree, cfg.riskFree)
                   + (beta * ObservedOr(in.premium, cfg.premium)) \div 100
           tax == TaxWithin(ObservedOr(in.tax, cfg.tax))
           kd == (ObservedOr(in.costOfDebt, cfg.costOfDebt) * (1000 - tax)) \div 1000
           debt == IF in.debt # None /\ in.debt > 0 THEN in.debt ELSE 0
           wacc == (in.equity * ke + debt * kd) \div (in.equity + debt)
           res == CalculateWacc(in, cfg)
<1> SUFFICES res.wacc \in Numbers /\ res.ke \in Numbers
  OBVIOUS
<1>1. /\ ObservedOr(in.riskFree, cfg.riskFree) = 45 /\ ObservedOr(in.premium, cfg.premium) = 55
      /\ ObservedOr(in.costOfDebt, cfg.costOfDebt) = 60 /\ cfg.beta = 100 /\ cfg.tax = 210
      /\ cfg.fallback = 90
  BY DEF ObservedOr, DefaultWaccConfig
<1>2. res.ke = (IF ke > 0 THEN ke ELSE None)
  <2> HIDE DEF cfg
  <2> QED
    BY DEF CalculateWacc
<1>3. res.wacc = (IF HasCapm(in, ke) THEN wacc ELSE IF cfg.fallback > 0 THEN cfg.fallback ELSE None)
  <2> HIDE DEF cfg
  <2> QED
    BY DEF CalculateWacc
<1> HIDE DEF cfg, res
<1>4. ke \in Int
  <2>1. beta \in Int
    BY <1>1 DEF UsableBeta, Positive, Numbers
  <2> HIDE DEF beta
  <2> QED
    BY <1>1, <2>1
<1>5. kd \in Int
  <2>1. tax \in Int
    <3>1. ObservedOr(in.tax, cfg.tax) \in Int
      BY <1>1 DEF ObservedOr, Numbers
    <3> QED
      BY <3>1 DEF TaxWithin
  <2> HIDE DEF tax
  <2> QED
    BY <1>1, <2>1
<1> HIDE DEF ke, kd
<1>6. CASE HasCapm(in, ke)
  <2>1. in.equity \in Int /\ 0 < in.equity /\ debt \in Int /\ 0 <= debt
    BY <1>6 DEF HasCapm, Structured, Positive, Numbers
  <2> DEFINE e == in.equity
             x == e * ke + debt * kd
             y == e + debt
  <2>2. e \in Int /\ y \in Int /\ 0 < y
    BY <2>1
  <2> HIDE DEF e, debt
  <2>3. x \in Int
    BY <1>4, <1>5, <2>1, <2>2
  <2> HIDE DEF x, y
  <2>4. x \div y \in Int
    BY <2>2, <2>3
  <2> QED
    BY <1>2, <1>3, <1>4, <1>6, <2>4 DEF x, y, e, Numbers
<1>7. CASE ~HasCapm(in, ke)
  BY <1>1, <1>2, <1>3, <1>4, <1>7 DEF Numbers
<1> QED
  BY <1>6, <1>7

LEMMA BetaIsANumber ==
    ASSUME NEW asOf, arrived \subseteq DOMAIN Arrivals
    PROVE  BetaAsOf(asOf) \in Numbers
<1> DEFINE past == {b \in Betas : b.asOf <= asOf}
           obs == LastRow(past)
<1>1. CASE obs = None
  BY <1>1 DEF BetaAsOf, AsOf, Numbers
<1>2. CASE obs # None
  <2>1. obs \in past
    <3>1. LastOf(past) # {} /\ obs \in LastOf(past)
      BY <1>2 DEF LastRow
    <3> QED
      BY <3>1 DEF LastOf
  <2>2. obs.beta \in Int
    BY <2>1, BetasAreDated DEF Betas
  <2>3. BetaAsOf(asOf) \in {None, obs.beta}
    BY <1>2 DEF BetaAsOf, AsOf
  <2> QED
    BY <2>2, <2>3 DEF Numbers
<1> QED
  BY <1>1, <1>2

LEMMA WaccRowIsTyped ==
    ASSUME RowTable(fundamentals), arrived \subseteq DOMAIN Arrivals, NEW asOf, NEW price \in Int
    PROVE  WaccRow(asOf, price).res.wacc \in Numbers /\ WaccRow(asOf, price).res.ke \in Numbers
<1> DEFINE in == WaccInputs(fundamentals, price, BetaAsOf(asOf), asOf, FYMaxAge)
           shares == Latest(fundamentals, "shares_outstanding", asOf)
           s == [c \in AlignedConcepts |-> Series(fundamentals, c, asOf)]
<1>1. /\ in.equity = (IF Positive(shares) /\ price > 0 THEN (shares * price) \div 100 ELSE None)
      /\ in.debt = Latest(fundamentals, "total_debt", asOf)
      /\ in.beta = BetaAsOf(asOf)
      /\ in.tax = AlignedTaxRate(AlignedFYFacts(s, asOf, FYMaxAge)).rate
      /\ in.riskFree = None /\ in.premium = None /\ in.costOfDebt = None
  BY DEF WaccInputs, AlignedConcepts
<1>2. "shares_outstanding" \in Concepts /\ "total_debt" \in Concepts /\ AlignedConcepts \subseteq Concepts
  BY DEF Concepts, ValuationConcepts
<1>3. shares \in Numbers /\ Latest(fundamentals, "total_debt", asOf) \in Numbers
  BY <1>2, LatestIsANumber
<1>4. in.equity \in Numbers
  <2> HIDE DEF shares
  <2>1. CASE Positive(shares) /\ price > 0
    <3>1. shares \in Int
      BY <1>3, <2>1 DEF Positive, Numbers
    <3> DEFINE x == shares * price
    <3>2. x \in Int
      BY <3>1
    <3> HIDE DEF x
    <3>3. x \div 100 \in Int
      BY <3>2
    <3> QED
      BY <1>1, <2>1, <3>3 DEF x, Numbers
  <2>2. CASE ~(Positive(shares) /\ price > 0)
    BY <1>1, <2>2 DEF Numbers
  <2> QED
    BY <2>1, <2>2
<1>5. in.tax \in Numbers
  <2>1. \A c \in AlignedConcepts : s[c] \in Seq(Points)
    BY <1>2, SeriesIsTyped
  <2> HIDE DEF s
  <2> QED
    BY <1>1, <2>1, TaxRateIsANumber
<1>6. in.beta \in Numbers
  BY <1>1, BetaIsANumber
<1>7. in.debt \in Numbers
  BY <1>1, <1>3
<1>8. WaccRow(asOf, price).res = CalculateWacc(in, DefaultWaccConfig)
  BY DEF WaccRow
<1> HIDE DEF in
<1> QED
  BY <1>1, <1>4, <1>5, <1>6, <1>7, <1>8, WaccIsANumber

LEMMA LastIsARow ==
    ASSUME NEW table, LastRow(table) # None
    PROVE  LastRow(table) \in table
<1>1. LastOf(table) # {} /\ LastRow(table) \in LastOf(table)
  BY DEF LastRow
<1> QED
  BY <1>1 DEF LastOf

LEMMA DerivedAreNumbers ==
    ASSUME NEW funds, \A c \in ValuationConcepts : funds[c] \in Numbers
    PROVE  LET facts == DeriveFacts(funds)
           IN  facts.eps \in Numbers /\ facts.fcf \in Numbers /\ facts.netDebt \in Numbers
<1> DEFINE eps == (100 * funds.net_earnings) \div funds.shares_outstanding
           facts == DeriveFacts(funds)
<1>1. /\ funds.net_earnings \in Numbers /\ funds.shares_outstanding \in Numbers
      /\ funds.free_cash_flow \in Numbers /\ funds.operating_cash_flow \in Numbers
      /\ funds.capex \in Numbers /\ funds.cash_and_equivalents \in Numbers
      /\ funds.total_debt \in Numbers
  BY DEF ValuationConcepts
<1>2. EPSFrom(funds.net_earnings, funds.shares_outstanding) \in Numbers
  <2>1. CASE funds.net_earnings = None \/ ~Positive(funds.shares_outstanding)
    BY <2>1 DEF EPSFrom, Numbers
  <2>2. CASE ~(funds.net_earnings = None \/ ~Positive(funds.shares_outstanding))
    <3> DEFINE x == 100 * funds.net_earnings
               y == funds.shares_outstanding
    <3>1. x \in Int /\ y \in Int /\ 0 < y
      BY <1>1, <2>2 DEF Positive, Numbers
    <3>2. eps = x \div y
      OBVIOUS
    <3>3. EPSFrom(funds.net_earnings, y) = IF eps > 0 THEN eps ELSE None
      BY <2>2 DEF EPSFrom
    <3> HIDE DEF x, y
    <3>4. x \div y \in Int
      BY <3>1
    <3> HIDE DEF eps
    <3> QED
      BY <3>2, <3>3, <3>4 DEF Numbers, y
  <2> QED
    BY <2>1, <2>2
<1>3. FreeCashFlowOf(funds) \in Numbers
  BY <1>1 DEF FreeCashFlowOf, Numbers
<1>4. facts.netDebt \in Numbers
  BY <1>1 DEF DeriveFacts, Numbers
<1> QED
  BY <1>2, <1>3, <1>4 DEF DeriveFacts

LEMMA InputsAreTyped ==
    ASSUME RowTable(fundamentals), NEW asOf, NEW price,
           \A g \in growths : Rate(g.res.rate),
           \A w \in waccs : w.res.wacc \in Numbers /\ w.res.ke \in Numbers
    PROVE  TypedInputs(ValuationInputs(asOf, price))
<1> DEFINE funds == Fundamentals(fundamentals, ValuationConcepts, asOf)
           facts == DeriveFacts(funds)
           g == ResultOf(LastRow(growths))
           w == ResultOf(LastRow(waccs))
           in == ValuationInputs(asOf, price)
<1>1. \A c \in ValuationConcepts : funds[c] \in Numbers
  <2> SUFFICES ASSUME NEW c \in ValuationConcepts PROVE funds[c] \in Numbers
    OBVIOUS
  <2>1. c \in Concepts
    BY DEF Concepts
  <2>2. funds[c] = Latest(fundamentals, c, asOf)
    BY DEF Fundamentals
  <2> QED
    BY <2>1, <2>2, LatestIsANumber
<1>2. facts.eps \in Numbers /\ facts.fcf \in Numbers /\ facts.netDebt \in Numbers
  <2> HIDE DEF funds
  <2> QED
    BY <1>1, DerivedAreNumbers
<1>3. funds.shares_outstanding \in Numbers
  BY <1>1 DEF ValuationConcepts
<1>4. /\ Series(fundamentals, "free_cash_flow", asOf) \in Seq(Points)
      /\ Series(fundamentals, "revenues", asOf) \in Seq(Points)
  <2>1. "free_cash_flow" \in Concepts /\ "revenues" \in Concepts
    BY DEF Concepts, MetricConcepts
  <2> QED
    BY <2>1, SeriesIsTyped
<1>5. g # None => Rate(g.rate)
  <2> SUFFICES ASSUME g # None PROVE Rate(g.rate)
    OBVIOUS
  <2>1. LastRow(growths) # None /\ g = LastRow(growths).res
    BY DEF ResultOf
  <2>2. LastRow(growths) \in growths
    BY <2>1, LastIsARow
  <2> QED
    BY <2>1, <2>2
<1>6. w # None => w.wacc \in Numbers /\ w.ke \in Numbers
  <2> SUFFICES ASSUME w # None PROVE w.wacc \in Numbers /\ w.ke \in Numbers
    OBVIOUS
  <2>1. LastRow(waccs) # None /\ w = LastRow(waccs).res
    BY DEF ResultOf
  <2>2. LastRow(waccs) \in waccs
    BY <2>1, LastIsARow
  <2> QED
    BY <2>1, <2>2
<1>7. /\ {"eps", "fcf", "shares", "growthConf"} \subseteq DOMAIN in
      /\ in.eps = facts.eps /\ in.fcf = facts.fcf /\ in.netDebt = facts.netDebt
      /\ in.shares = funds.shares_outstanding
      /\ in.growth = (IF g = None THEN None ELSE g.rate)
      /\ in.wacc = (IF w = None THEN None ELSE w.wacc)
      /\ in.ke = (IF w = None THEN None ELSE w.ke)
      /\ in.fcfSeries = Series(fundamentals, "free_cash_flow", asOf)
      /\ in.revenueSeries = Series(fundamentals, "revenues", asOf)
  BY DEF ValuationInputs, WithRows
<1> HIDE DEF facts, funds, g, w, in
<1>8. Rate(in.growth) /\ in.wacc \in Numbers /\ in.ke \in Numbers
  BY <1>5, <1>6, <1>7 DEF Rate, Numbers
<1>9. TypedInputs(in)
  BY <1>2, <1>3, <1>4, <1>7, <1>8 DEF TypedInputs
<1> QED
  BY <1>9 DEF in

-----------------------------------------------------------------------------
(* The inductive invariant: the rows of the engines are rates, and every   *)
(* valuation has its scenarios in order.                                   *)

ScenariosInv ==
    /\ TablesInv
    /\ \A g \in growths : Rate(g.res.rate)
    /\ \A w \in waccs : w.res.wacc \in Numbers /\ w.res.ke \in Numbers
    /\ \A v \in valuations : InTheirOrder(v.res)

LEMMA InitScenarios == Init => ScenariosInv
BY InitTables DEF Init, ScenariosInv

LEMMA NextScenarios == ScenariosInv /\ [Next]_vars => ScenariosInv'
<1> SUFFICES ASSUME ScenariosInv, [Next]_vars PROVE ScenariosInv'
  OBVIOUS
<1>1. TablesInv'
  BY NextTables DEF ScenariosInv
<1>2. CASE GrowthWacc
  <2> DEFINE g == GrowthRow(day)
             w == WaccRow(day, close)
  <2>1. Rate(g.res.rate)
    BY GrowthRowIsARate DEF ScenariosInv, TablesInv
  <2>2. w.res.wacc \in Numbers /\ w.res.ke \in Numbers
    BY WaccRowIsTyped DEF ScenariosInv, TablesInv
  <2>3. growths' = Put(growths, g) /\ waccs' = Put(waccs, w) /\ valuations' = valuations
    BY <1>2 DEF GrowthWacc
  <2> HIDE DEF g, w
  <2>4. growths' \subseteq growths \cup {g} /\ waccs' \subseteq waccs \cup {w}
    BY <2>3 DEF Put
  <2> QED
    BY <1>1, <2>1, <2>2, <2>3, <2>4 DEF ScenariosInv
<1>3. CASE Valuation
  <2> DEFINE v == ValuationRow(day, close)
  <2>1. InTheirOrder(v.res)
    <3>1. TypedInputs(ValuationInputs(day, close))
      BY InputsAreTyped DEF ScenariosInv, TablesInv
    <3>2. v.res = CalculateValuation(ValuationInputs(day, close), DefaultValuationConfig)
      BY DEF ValuationRow
    <3> QED
      BY <3>1, <3>2, CalculateInOrder
  <2>2. valuations' = Put(valuations, v) /\ growths' = growths /\ waccs' = waccs
    BY <1>3 DEF Valuation
  <2> HIDE DEF v
  <2>3. valuations' \subseteq valuations \cup {v}
    BY <2>2 DEF Put
  <2> QED
    BY <1>1, <2>1, <2>2, <2>3 DEF ScenariosInv
<1>4. CASE UNCHANGED <<growths, waccs, valuations>>
  BY <1>1, <1>4 DEF ScenariosInv
<1>5. [Next]_vars => GrowthWacc \/ Valuation \/ UNCHANGED <<growths, waccs, valuations>>
  BY DEF Next, Metrics, Scores, NextBar, Arrive, Rows, vars
<1> QED
  BY <1>2, <1>3, <1>4, <1>5

LEMMA ScenariosFollow == ScenariosInv => ScenariosAreOrdered
<1> SUFFICES ASSUME ScenariosInv, NEW v \in valuations,
                    NEW worse \in Scenarios, NEW better \in Scenarios,
                    <<worse, better>> \in {<<"bear", "base">>, <<"base", "bull">>, <<"bear", "bull">>}
             PROVE  /\ v.res.graham.value[worse] # None => v.res.graham.value[better] # None
                    /\ \A m \in {v.res.graham, v.res.dcf} :
                         {worse, better} \subseteq Valued(m) => m.value[worse] <= m.value[better]
  BY DEF ScenariosAreOrdered
<1>1. <<worse, better>> \in Ranked
  BY DEF Ranked
<1>2. InTheirOrder(v.res)
  BY DEF ScenariosInv
<1>3. \A m : {worse, better} \subseteq Valued(m) => m.value[worse] # None /\ m.value[better] # None
  BY DEF Valued
<1> QED
  BY <1>1, <1>2, <1>3 DEF InTheirOrder, InOrder

\* The scenarios of both methods are in the order of their names, and a worse
\* one of Graham never stands without the better one: for any payloads, closes
\* and observations of beta, and any order of the stages
\* (CalcGrahamScenarios, CalcDCFScenarios).
THEOREM Ranking == Spec => []ScenariosAreOrdered
<1>1. Spec => []ScenariosInv
  BY InitScenarios, NextScenarios, PTL DEF Spec
<1> QED
  BY <1>1, ScenariosFollow, PTL


-----------------------------------------------------------------------------
(* The type invariant.  Sums and means of a range stay within it.          *)

LEMMA SumsInRange ==
    ASSUME NEW D, NEW f \in [D -> Int], NEW S \in SUBSET D, IsFiniteSet(S),
           NEW low \in Int, NEW high \in Int, \A x \in S : f[x] \in low..high
    PROVE  SumOf(f, S) \in Int /\ SumOf(f, S) \in (low * Cardinality(S))..(high * Cardinality(S))
<1> DEFINE pick == Picks(S)
<1>1. Takes(pick, S)
  BY DEF Takes, Picks
<1>3. PICK a \in [SUBSET S -> Int] : AddsUp(a, f, S, pick)
  BY SumsAddUp
<1>4. \A s \in SUBSET S : IsFiniteSet(s) /\ Cardinality(s) \in Nat
  BY FS_CardinalityType, FS_Subset
<1> HIDE DEF pick
<1> DEFINE Good == {s \in SUBSET S : a[s] \in (low * Cardinality(s))..(high * Cardinality(s))}
<1>5. {} \in Good
  <2>1. a[{}] = 0 /\ Cardinality({}) = 0
    BY <1>3, FS_EmptySet DEF AddsUp
  <2>2. 0 \in (low * 0)..(high * 0)
    OBVIOUS
  <2> QED
    BY <2>1, <2>2
<1>6. ASSUME NEW s \in SUBSET S, s # {}, s \ {pick[s]} \in Good PROVE s \in Good
  <2> DEFINE rest == s \ {pick[s]}
             n == Cardinality(s)
             m == Cardinality(rest)
  <2>1. pick[s] \in s /\ pick[s] \in S /\ rest \in SUBSET S
    BY <1>1, <1>6 DEF Takes
  <2>2. m \in Nat /\ n = m + 1
    BY <1>4, <2>1, FS_RemoveElement
  <2>3. a[s] = f[pick[s]] + a[rest] /\ f[pick[s]] \in low..high
    BY <1>3, <1>6, <2>1 DEF AddsUp
  <2>4. a[rest] \in (low * m)..(high * m)
    BY <1>6
  <2> HIDE DEF rest, m, n
  <2> DEFINE lm == low * m
             hm == high * m
  <2>5. lm \in Int /\ hm \in Int /\ low * n = low + lm /\ high * n = high + hm
    BY <2>2
  <2>6. a[rest] \in lm..hm
    BY <2>4
  <2> HIDE DEF lm, hm
  <2>7. a[s] \in (low + lm)..(high + hm)
    BY <2>3, <2>5, <2>6
  <2>8. a[s] \in (low * n)..(high * n)
    BY <2>5, <2>7
  <2> QED
    BY <2>8 DEF n
<1>7. \A s \in SUBSET S : s \in Good
  <2>1. \A s \in SUBSET S : s # {} /\ s \ {pick[s]} \in Good => s \in Good
    BY <1>6
  <2> HIDE DEF Good
  <2> QED
    BY <1>1, <1>5, <2>1, TakingInduction
<1> QED
  BY <1>3, <1>7 DEF AddsUp

\* The mean, over a scale.
LEMMA MeansInRange ==
    ASSUME NEW sum \in Int, NEW n \in Int, 0 < n, NEW low \in Int, NEW high \in Int,
           sum \in (low * n)..(high * n)
    PROVE  sum \div n \in low..high
<1> DEFINE ln == low * n
           hn == high * n
           q == sum \div n
<1>1. ln \in Int /\ hn \in Int /\ ln <= sum /\ sum <= hn
  OBVIOUS
<1>2. q \in Int /\ n * q <= sum /\ sum < n * q + n
  BY SMTT(30)
<1>3. n * q \in Int
  BY <1>2
<1>4. q < low => n * q + n <= ln
  <2> SUFFICES ASSUME q < low PROVE n * q + n <= ln
    OBVIOUS
  <2> HIDE DEF q
  <2>1. q + 1 <= low
    BY <1>2
  <2>2. n * (q + 1) <= n * low
    BY <1>2, <2>1, SMTT(30)
  <2> QED
    BY <1>2, <2>2
<1>5. high < q => hn + n <= n * q
  <2> SUFFICES ASSUME high < q PROVE hn + n <= n * q
    OBVIOUS
  <2> HIDE DEF q
  <2>1. high + 1 <= q
    BY <1>2
  <2>2. n * (high + 1) <= n * q
    BY <1>2, <2>1, SMTT(30)
  <2> QED
    BY <1>2, <2>2
<1> HIDE DEF ln, hn, q
<1>6. low <= q /\ q <= high
  BY <1>1, <1>2, <1>3, <1>4, <1>5
<1> QED
  BY <1>2, <1>6 DEF q

\* The same sum, of an operator.  One lemma for each operator, since none can
\* be a parameter of a lemma.
LEMMA BandSums ==
    ASSUME NEW values, NEW S
    PROVE  MapThenSumSet(LAMBDA m : BandScore(values[m], DefaultBands[m]), S)
             = SumOf([m \in S |-> BandScore(values[m], DefaultBands[m])], S)
<1> DEFINE f == [m \in S |-> BandScore(values[m], DefaultBands[m])]
           Picked(s) == CHOOSE x \in s : TRUE
           One(h) == [s \in SUBSET S |-> IF s = {} THEN 0
                        ELSE BandScore(values[Picked(s)], DefaultBands[Picked(s)]) + h[s \ {Picked(s)}]]
           Two(h) == [s \in SUBSET S |-> IF s = {} THEN 0 ELSE f[Picked(s)] + h[s \ {Picked(s)}]]
           one == CHOOSE h : h = One(h)
           two == CHOOSE h : h = Two(h)
<1>1. MapThenSumSet(LAMBDA m : BandScore(values[m], DefaultBands[m]), S) = one[S]
  BY DEF MapThenSumSet, MapThenFoldSet
<1>2. SumOf(f, S) = two[S]
  BY DEF SumOf, MapThenSumSet, MapThenFoldSet
<1>3. \A s \in SUBSET S : s # {} => Picked(s) \in S
  OBVIOUS
<1>4. \A h : One(h) = Two(h)
  <2> HIDE DEF Picked
  <2> QED
    BY <1>3
<1>5. one = two
  <2> HIDE DEF One, Two
  <2> QED
    BY <1>4, Zenon
<1> HIDE DEF one, two, f
<1>6. SumOf(f, S) = MapThenSumSet(LAMBDA m : BandScore(values[m], DefaultBands[m]), S)
  BY <1>1, <1>2, <1>5
<1> QED
  BY <1>6 DEF f


LEMMA ValueSums ==
    ASSUME NEW series, NEW S
    PROVE  MapThenSumSet(LAMBDA i : series[i].value, S) = SumOf([i \in S |-> series[i].value], S)
<1> DEFINE f == [i \in S |-> series[i].value]
           Picked(s) == CHOOSE x \in s : TRUE
           One(h) == [s \in SUBSET S |-> IF s = {} THEN 0
                        ELSE series[Picked(s)].value + h[s \ {Picked(s)}]]
           Two(h) == [s \in SUBSET S |-> IF s = {} THEN 0 ELSE f[Picked(s)] + h[s \ {Picked(s)}]]
           one == CHOOSE h : h = One(h)
           two == CHOOSE h : h = Two(h)
<1>1. MapThenSumSet(LAMBDA i : series[i].value, S) = one[S]
  BY DEF MapThenSumSet, MapThenFoldSet
<1>2. SumOf(f, S) = two[S]
  BY DEF SumOf, MapThenSumSet, MapThenFoldSet
<1>3. \A s \in SUBSET S : s # {} => Picked(s) \in S
  OBVIOUS
<1>4. \A h : One(h) = Two(h)
  <2> HIDE DEF Picked
  <2> QED
    BY <1>3
<1>5. one = two
  <2> HIDE DEF One, Two
  <2> QED
    BY <1>4, Zenon
<1> HIDE DEF one, two, f
<1>6. SumOf(f, S) = MapThenSumSet(LAMBDA i : series[i].value, S)
  BY <1>1, <1>2, <1>5
<1> QED
  BY <1>6 DEF f

\* The deviation of a point, in per cent of the mean.
Deviation(series, i, n, sum, size) == (100 * (n * series[i].value - sum)) \div size

LEMMA SquareSums ==
    ASSUME NEW series, NEW S, NEW n, NEW sum, NEW size
    PROVE  MapThenSumSet(LAMBDA i : Deviation(series, i, n, sum, size)
                                      * Deviation(series, i, n, sum, size), S)
             = SumOf([i \in S |-> Deviation(series, i, n, sum, size)
                                    * Deviation(series, i, n, sum, size)], S)
<1> DEFINE square(i) == Deviation(series, i, n, sum, size) * Deviation(series, i, n, sum, size)
           f == [i \in S |-> square(i)]
           Picked(s) == CHOOSE x \in s : TRUE
           One(h) == [s \in SUBSET S |-> IF s = {} THEN 0 ELSE square(Picked(s)) + h[s \ {Picked(s)}]]
           Two(h) == [s \in SUBSET S |-> IF s = {} THEN 0 ELSE f[Picked(s)] + h[s \ {Picked(s)}]]
           one == CHOOSE h : h = One(h)
           two == CHOOSE h : h = Two(h)
<1>1. MapThenSumSet(LAMBDA i : Deviation(series, i, n, sum, size)
                                 * Deviation(series, i, n, sum, size), S) = one[S]
  BY DEF MapThenSumSet, MapThenFoldSet
<1>2. SumOf(f, S) = two[S]
  BY DEF SumOf, MapThenSumSet, MapThenFoldSet
<1>3. \A s \in SUBSET S : s # {} => Picked(s) \in S
  OBVIOUS
<1>4. \A h : One(h) = Two(h)
  <2> HIDE DEF Picked, square
  <2> QED
    BY <1>3
<1>5. one = two
  <2> HIDE DEF One, Two
  <2> QED
    BY <1>4, Zenon
<1> HIDE DEF one, two, f
<1>6. SumOf(f, S) = MapThenSumSet(LAMBDA i : Deviation(series, i, n, sum, size)
                                               * Deviation(series, i, n, sum, size), S)
  BY <1>1, <1>2, <1>5
<1> QED
  BY <1>6 DEF f

LEMMA RootIsANat ==
    ASSUME NEW v \in Nat
    PROVE  Root(v) \in Nat
<1> DEFINE top == 200
           Above == {r \in 0..(top - 1) : v < (r + 1) * (r + 1)}
<1>1. CASE v >= top * top
  BY <1>1 DEF Root, VolatilityCeiling
<1>2. CASE ~(v >= top * top)
  <2>1. top - 1 \in Above
    BY <1>2
  <2>2. Above \in SUBSET Nat
    OBVIOUS
  <2>3. PICK r \in Above : \A q \in Above : r <= q
    <3>1. IsFiniteSet(Above)
      <4>1. 0 \in Int /\ top - 1 \in Int
        OBVIOUS
      <4> HIDE DEF top
      <4>2. IsFiniteSet(0..(top - 1)) /\ Above \in SUBSET (0..(top - 1))
        BY <4>1, FS_Interval
      <4> HIDE DEF Above
      <4> QED
        BY <4>2, FS_Subset
    <3>2. Above \in SUBSET Int /\ Above # {}
      BY <2>1, <2>2
    <3> HIDE DEF Above
    <3> QED
      BY <3>1, <3>2, Extremes
  <2>4. r * r <= v
    <3>1. CASE r = 0
      BY <3>1
    <3>2. CASE r # 0
      <4>1. r - 1 \in 0..(top - 1) /\ r - 1 \notin Above
        BY <2>3, <3>2
      <4>2. ~(v < r * r)
        BY <4>1
      <4> QED
        BY <2>3, <4>2
    <3> QED
      BY <3>1, <3>2
  <2>5. \E q \in 0..top : q * q <= v /\ v < (q + 1) * (q + 1)
    BY <2>3, <2>4
  <2>6. Root(v) = CHOOSE q \in 0..top : q * q <= v /\ v < (q + 1) * (q + 1)
    BY <1>2 DEF Root, VolatilityCeiling
  <2> HIDE DEF top
  <2>7. Root(v) \in 0..top
    BY <2>5, <2>6
  <2> QED
    BY <2>7 DEF top
<1> QED
  BY <1>1, <1>2

LEMMA VariationIsANumber ==
    ASSUME NEW series \in Seq(Points)
    PROVE  Variation(series, 0) \in Numbers
<1> DEFINE n == Len(series)
           S == DOMAIN series
           sum == MapThenSumSet(LAMBDA i : series[i].value, S)
           size == IF sum < 0 THEN -sum ELSE sum
           squares == MapThenSumSet(LAMBDA i : Deviation(series, i, n, sum, size)
                                                 * Deviation(series, i, n, sum, size), S)
<1>1. n \in Nat /\ S = 1..n /\ IsFiniteSet(S)
  <2>1. n \in Nat /\ S = 1..n
    OBVIOUS
  <2>2. IsFiniteSet(1..n)
    <3> HIDE DEF n
    <3> QED
      BY <2>1, FS_Interval
  <2> QED
    BY <2>1, <2>2
<1>2. \A i \in S : series[i].value \in Int
  <2> SUFFICES ASSUME NEW i \in S PROVE series[i].value \in Int
    OBVIOUS
  <2>1. series[i] \in Points
    BY <1>1, ElementOfSeq
  <2> QED
    BY <2>1 DEF Points
<1>3. Variation(series, 0) = IF n <= 0 \/ sum = 0 THEN None ELSE Root(squares \div (n - 0))
  BY DEF Variation, Deviation
<1>4. sum \in Int
  <2> DEFINE f == [i \in S |-> series[i].value]
  <2>1. f \in [S -> Int] /\ S \in SUBSET S
    BY <1>2
  <2>2. sum = SumOf(f, S)
    BY ValueSums
  <2> HIDE DEF f, sum, S
  <2> QED
    BY <1>1, <2>1, <2>2, SumsAreOrdered
<1> HIDE DEF n, sum, S
<1>5. CASE n <= 0 \/ sum = 0
  BY <1>3, <1>5 DEF Numbers
<1>6. CASE ~(n <= 0 \/ sum = 0)
  <2>1. size \in Int /\ 0 < size
    BY <1>4, <1>6
  <2> HIDE DEF size
  <2> DEFINE square(i) == Deviation(series, i, n, sum, size) * Deviation(series, i, n, sum, size)
             f == [i \in S |-> square(i)]
             none == [i \in S |-> 0]
  <2>2. \A i \in S : square(i) \in Nat
    <3> SUFFICES ASSUME NEW i \in S PROVE square(i) \in Nat
      OBVIOUS
    <3> DEFINE apart == 100 * (n * series[i].value - sum)
    <3>1. apart \in Int
      BY <1>1, <1>2, <1>4
    <3> HIDE DEF apart
    <3>2. apart \div size \in Int
      BY <2>1, <3>1
    <3> DEFINE d == apart \div size
    <3>3. Deviation(series, i, n, sum, size) = d
      BY DEF Deviation, apart
    <3> HIDE DEF d
    <3>4. \A x \in Int : x * x \in Nat
      BY SMTT(30)
    <3> QED
      BY <3>2, <3>3, <3>4 DEF d
  <2> HIDE DEF square
  <2>3. f \in [S -> Int] /\ none \in [S -> Int] /\ S \in SUBSET S /\ \A i \in S : none[i] <= f[i]
    BY <2>2
  <2>4. squares = SumOf(f, S)
    BY SquareSums DEF square
  <2>5. none \in [S -> 0..0]
    OBVIOUS
  <2> HIDE DEF squares, none, f
  <2>6. SumOf(none, S) <= SumOf(f, S) /\ SumOf(f, S) \in Int /\ SumOf(none, S) \in Int
    BY <1>1, <2>3, SumsAreOrdered
  <2>7. SumOf(none, S) = 0
    <3> DEFINE zero == 0
    <3>1. zero \in Int /\ none \in [S -> Int] /\ S \in SUBSET S /\ \A i \in S : none[i] \in zero..zero
      BY <2>5
    <3> HIDE DEF zero
    <3>2. SumOf(none, S) \in (zero * Cardinality(S))..(zero * Cardinality(S))
      BY <1>1, <3>1, SumsInRange
    <3>3. Cardinality(S) \in Nat
      BY <1>1, FS_CardinalityType
    <3> QED
      BY <2>6, <3>2, <3>3 DEF zero
  <2>8. squares \in Nat
    BY <2>4, <2>6, <2>7
  <2>9. squares \div (n - 0) \in Nat
    BY <1>1, <1>6, <2>8
  <2>10. Root(squares \div (n - 0)) \in Nat
    BY <2>9, RootIsANat
  <2> QED
    BY <1>3, <1>6, <2>10 DEF Numbers
<1> QED
  BY <1>5, <1>6

LEMMA ShareIsANumber ==
    ASSUME NEW series \in Seq(Points)
    PROVE  PositiveShare(series, 4) \in Numbers
<1> DEFINE n == Len(series)
           years == Cardinality({i \in DOMAIN series : series[i].value > 0})
<1>1. n \in Nat /\ DOMAIN series = 1..n
  OBVIOUS
<1>2. years \in Nat
  <2>1. IsFiniteSet(1..n)
    <3> HIDE DEF n
    <3> QED
      BY <1>1, FS_Interval
  <2>2. IsFiniteSet({i \in DOMAIN series : series[i].value > 0})
    BY <1>1, <2>1, FS_Subset
  <2> QED
    BY <2>2, FS_CardinalityType
<1>3. CASE n < 4
  BY <1>3 DEF PositiveShare, Numbers
<1>4. CASE ~(n < 4)
  <2>1. series # <<>>
    BY <1>4
  <2>2. PositiveShare(series, 4) = (1000 * years) \div n
    BY <1>4, <2>1 DEF PositiveShare, PositiveYears
  <2> HIDE DEF n, years
  <2>3. (1000 * years) \div n \in Int
    BY <1>1, <1>2, <1>4
  <2> QED
    BY <2>2, <2>3 DEF Numbers
<1> QED
  BY <1>3, <1>4

-----------------------------------------------------------------------------
(* The quality of a company: every metric is a number, every sub-block and *)
(* the whole a mean of bands.                                              *)

QualityMetrics ==
    {"roic", "roe", "fcf_cagr_3y", "fcf_cagr_5y", "eps_cagr_3y", "eps_cagr_5y", "revenue_cagr_3y",
     "operating_margin", "fcf_margin", "fcf_yield", "positive_eps_years", "positive_fcf_years",
     "eps_volatility", "fcf_volatility", "net_debt_to_ebitda", "fcf_to_debt", "interest_coverage"}

\* What a company gives to the quality engine.
QualityInputs(in) ==
    /\ \A c \in QualityConcepts : in.funds[c] \in Numbers
    /\ {in.growth.fcf3, in.growth.fcf5, in.growth.eps3, in.growth.eps5, in.growth.rev3} \subseteq Numbers
    /\ in.epsSeries \in Seq(Points) /\ in.fcfSeries \in Seq(Points)
    /\ in.price \in Int
    /\ in.aligned.ebit \in Numbers /\ in.aligned.interest \in Numbers
    /\ in.taxRate \in Numbers

LEMMA QualityRoicIsANumber ==
    ASSUME NEW f, \A c \in QualityConcepts : f[c] \in Numbers, NEW tax \in Int
    PROVE  QualityRoic(f, tax) \in Numbers
<1> DEFINE invested == Or0(f.shareholders_equity) + Or0(f.total_debt) - Or0(f.cash_and_equivalents)
           earned == f.operating_income * (1000 - tax)
<1>1. /\ f.operating_income \in Numbers /\ f.shareholders_equity \in Numbers
      /\ f.total_debt \in Numbers /\ f.cash_and_equivalents \in Numbers
  BY DEF QualityConcepts
<1>2. invested \in Int
  BY <1>1 DEF Or0, Numbers
<1>3. QualityRoic(f, tax) = IF None \in {f.operating_income, f.total_debt} \/ invested <= 0 THEN None
                            ELSE earned \div invested
  BY DEF QualityRoic
<1>4. CASE None \in {f.operating_income, f.total_debt} \/ invested <= 0
  BY <1>3, <1>4 DEF Numbers
<1>5. CASE ~(None \in {f.operating_income, f.total_debt} \/ invested <= 0)
  <2>1. earned \in Int
    <3>1. f.operating_income \in Int
      BY <1>1, <1>5 DEF Numbers
    <3> QED
      BY <3>1
  <2> HIDE DEF earned, invested
  <2>2. earned \div invested \in Int
    BY <1>2, <1>5, <2>1
  <2> QED
    BY <1>3, <1>5, <2>2 DEF Numbers
<1> QED
  BY <1>4, <1>5

LEMMA CoverageIsANumber ==
    ASSUME NEW f, f.operating_income \in Numbers, f.interest_expense \in Numbers,
           NEW a, a.ebit \in Numbers, a.interest \in Numbers
    PROVE  QualityCoverage(f, a) \in Numbers
<1> DEFINE scale == 1000
<1>1. scale \in Int
  OBVIOUS
<1> HIDE DEF scale
<1>2. /\ Ratio(a.ebit, a.interest, scale) \in Numbers
      /\ Ratio(f.operating_income, f.interest_expense, scale) \in Numbers
  BY <1>1, RatioIsANumber
<1>3. CASE a.interestReason # ""
  BY <1>3 DEF QualityCoverage, Numbers
<1>4. CASE a.interestReason = "" /\ None \notin {a.ebit, a.interest}
  BY <1>2, <1>4 DEF QualityCoverage, scale
<1>5. CASE a.interestReason = "" /\ None \in {a.ebit, a.interest}
  BY <1>2, <1>5 DEF QualityCoverage, scale
<1> QED
  BY <1>3, <1>4, <1>5

LEMMA QualityValuesAreNumbers ==
    ASSUME NEW in, QualityInputs(in), NEW tax \in Int, NEW cfg, cfg.minYears = 4
    PROVE  \A m \in QualityMetrics : QualityValues(in, tax, cfg)[m] \in Numbers
<1> DEFINE f == in.funds
           g == in.growth
           mc == MarketCap(in.price, f.shares_outstanding)
           scale == 1000
           values == QualityValues(in, tax, cfg)
<1>1. /\ f.operating_income \in Numbers /\ f.shareholders_equity \in Numbers
      /\ f.total_debt \in Numbers /\ f.net_debt \in Numbers /\ f.ebitda \in Numbers
      /\ f.revenues \in Numbers /\ f.free_cash_flow \in Numbers /\ f.net_earnings \in Numbers
      /\ f.shares_outstanding \in Numbers /\ f.interest_expense \in Numbers
  BY DEF QualityInputs, QualityConcepts
<1>2. mc \in Numbers
  BY <1>1, MarketCapIsANumber DEF QualityInputs
<1>3. \A c, d \in Numbers : Ratio(c, d, scale) \in Numbers
  <2>1. scale \in Int
    OBVIOUS
  <2> HIDE DEF scale
  <2> QED
    BY <2>1, RatioIsANumber
<1>4. \A r \in Numbers : CagrMetric(r, g.conf) \in Numbers
  BY DEF CagrMetric, Numbers
<1>5. \A s \in Seq(Points) : PositiveShare(s, cfg.minYears) \in Numbers
  BY ShareIsANumber
<1>6. \A s \in Seq(Points) : QualityVolatility(s, cfg.minYears) \in Numbers
  BY VariationIsANumber DEF QualityVolatility, Numbers
<1>7. /\ QualityRoic(f, tax) \in Numbers
      /\ QualityCoverage(f, in.aligned) \in Numbers
  BY <1>1, QualityRoicIsANumber, CoverageIsANumber DEF QualityInputs
<1>8. /\ values.roic = QualityRoic(f, tax)
      /\ values.roe = Ratio(f.net_earnings, f.shareholders_equity, scale)
      /\ values.operating_margin = Ratio(f.operating_income, f.revenues, scale)
      /\ values.fcf_margin = Ratio(f.free_cash_flow, f.revenues, scale)
      /\ values.fcf_yield = Ratio(f.free_cash_flow, mc, scale)
  BY DEF QualityValues
<1>9. /\ values.fcf_cagr_3y = CagrMetric(g.fcf3, g.conf)
      /\ values.fcf_cagr_5y = CagrMetric(g.fcf5, g.conf)
      /\ values.eps_cagr_3y = CagrMetric(g.eps3, g.conf)
      /\ values.eps_cagr_5y = CagrMetric(g.eps5, g.conf)
      /\ values.revenue_cagr_3y = CagrMetric(g.rev3, g.conf)
  BY DEF QualityValues
<1>10. /\ values.positive_eps_years = PositiveShare(in.epsSeries, cfg.minYears)
       /\ values.positive_fcf_years = PositiveShare(in.fcfSeries, cfg.minYears)
       /\ values.eps_volatility = QualityVolatility(in.epsSeries, cfg.minYears)
       /\ values.fcf_volatility = QualityVolatility(in.fcfSeries, cfg.minYears)
  BY DEF QualityValues
<1>11. /\ values.net_debt_to_ebitda = Ratio(f.net_debt, f.ebitda, scale)
       /\ values.fcf_to_debt = Ratio(f.free_cash_flow, f.total_debt, scale)
       /\ values.interest_coverage = QualityCoverage(f, in.aligned)
  BY DEF QualityValues
<1> HIDE DEF values, scale, mc
<1>12. /\ values.roic \in Numbers /\ values.roe \in Numbers /\ values.operating_margin \in Numbers
       /\ values.fcf_margin \in Numbers /\ values.fcf_yield \in Numbers
  BY <1>1, <1>2, <1>3, <1>7, <1>8
<1>13. /\ values.fcf_cagr_3y \in Numbers /\ values.fcf_cagr_5y \in Numbers
       /\ values.eps_cagr_3y \in Numbers /\ values.eps_cagr_5y \in Numbers
       /\ values.revenue_cagr_3y \in Numbers
  BY <1>4, <1>9 DEF QualityInputs
<1>14. /\ values.positive_eps_years \in Numbers /\ values.positive_fcf_years \in Numbers
       /\ values.eps_volatility \in Numbers /\ values.fcf_volatility \in Numbers
  BY <1>5, <1>6, <1>10 DEF QualityInputs
<1>15. /\ values.net_debt_to_ebitda \in Numbers /\ values.fcf_to_debt \in Numbers
       /\ values.interest_coverage \in Numbers
  BY <1>1, <1>3, <1>7, <1>11
<1>16. \A m \in QualityMetrics : values[m] \in Numbers
  BY <1>12, <1>13, <1>14, <1>15 DEF QualityMetrics
<1> QED
  BY <1>16 DEF values

LEMMA BandsAreBands ==
    \A m \in QualityMetrics : /\ DefaultBands[m].good \in Int /\ DefaultBands[m].bad \in Int
                              /\ DefaultBands[m].good # DefaultBands[m].bad
BY DEF QualityMetrics, DefaultBands, Band

LEMMA BandInRange ==
    ASSUME NEW v \in Int, NEW b, b.good \in Int, b.bad \in Int, b.good # b.bad
    PROVE  BandScore(v, b) \in 0..Full
<1> DEFINE distance == IF b.good > b.bad THEN v - b.bad ELSE b.bad - v
           width == IF b.good > b.bad THEN b.good - b.bad ELSE b.bad - b.good
<1>1. distance \in Int /\ width \in Int /\ 0 < width
  OBVIOUS
<1>2. BandScore(v, b) = IF distance <= 0 THEN 0 ELSE IF distance >= width THEN 10000
                        ELSE (10000 * distance) \div width
  BY DEF BandScore
<1> HIDE DEF distance, width
<1>3. CASE 0 < distance /\ distance < width
  <2> DEFINE low == 0
             sum == Full * distance
  <2>1. low \in Int /\ Full \in Int
    BY DEF Full
  <2>2. sum \in Int /\ sum \in (low * width)..(Full * width)
    BY <1>1, <1>3 DEF Full
  <2>3. BandScore(v, b) = sum \div width
    BY <1>1, <1>2, <1>3 DEF Full
  <2> HIDE DEF sum, low
  <2>4. sum \div width \in low..Full
    BY <1>1, <2>1, <2>2, MeansInRange
  <2> QED
    BY <2>3, <2>4 DEF low
<1>4. CASE ~(0 < distance /\ distance < width)
  BY <1>1, <1>2, <1>4 DEF Full
<1> QED
  BY <1>3, <1>4

Blocks == {"profitability", "growth", "margins", "stability", "debt_solvency"}

LEMMA BlocksAreFinite ==
    /\ DOMAIN SubBlocks = Blocks /\ IsFiniteSet(Blocks)
    /\ IsFiniteSet(QualityMetrics)
    /\ \A b \in Blocks : SubBlocks[b] \subseteq QualityMetrics
    /\ ApplicableMetrics \subseteq QualityMetrics
<1>1. DOMAIN SubBlocks = Blocks
  BY DEF SubBlocks, Blocks
<1>2. IsFiniteSet(Blocks)
  <2> DEFINE c == <<"profitability", "growth", "margins", "stability", "debt_solvency">>
  <2>1. 1 \in Int /\ 5 \in Int
    OBVIOUS
  <2>2. IsFiniteSet(1..5)
    BY <2>1, FS_Interval
  <2>3. DOMAIN c = 1..5 /\ Blocks = {c[i] : i \in 1..5}
    BY DEF Blocks
  <2> HIDE DEF c
  <2> QED
    BY <2>2, <2>3, ImageIsFinite
<1>3. IsFiniteSet(QualityMetrics)
  <2> DEFINE c == <<"roic", "roe", "fcf_cagr_3y", "fcf_cagr_5y", "eps_cagr_3y", "eps_cagr_5y",
                    "revenue_cagr_3y", "operating_margin", "fcf_margin", "fcf_yield",
                    "positive_eps_years", "positive_fcf_years", "eps_volatility",
                    "fcf_volatility", "net_debt_to_ebitda", "fcf_to_debt", "interest_coverage">>
  <2>1. 1 \in Int /\ 17 \in Int
    OBVIOUS
  <2>2. IsFiniteSet(1..17)
    BY <2>1, FS_Interval
  <2>3. DOMAIN c = 1..17 /\ QualityMetrics = {c[i] : i \in 1..17}
    BY DEF QualityMetrics
  <2> HIDE DEF c
  <2> QED
    BY <2>2, <2>3, ImageIsFinite
<1>4. \A b \in Blocks : SubBlocks[b] \subseteq QualityMetrics
  BY DEF SubBlocks, Blocks, QualityMetrics
<1>5. ApplicableMetrics \subseteq QualityMetrics
  BY <1>1, <1>4 DEF ApplicableMetrics
<1> QED
  BY <1>1, <1>2, <1>3, <1>4, <1>5

LEMMA MeanOfBands ==
    ASSUME NEW values, NEW S \in SUBSET QualityMetrics, S # {}, \A m \in S : values[m] \in Int
    PROVE  Mean(values, S) \in 0..Full
<1> DEFINE f == [m \in S |-> BandScore(values[m], DefaultBands[m])]
           n == Cardinality(S)
           low == 0
<1>1. IsFiniteSet(S)
  BY BlocksAreFinite, FS_Subset
<1>2. n \in Nat /\ n # 0
  BY <1>1, FS_CardinalityType, FS_EmptySet
<1>3. low \in Int /\ Full \in Int
  BY DEF Full
<1>4. f \in [S -> Int] /\ S \in SUBSET S /\ \A m \in S : f[m] \in low..Full
  <2>1. \A m \in S : BandScore(values[m], DefaultBands[m]) \in 0..Full
    <3> SUFFICES ASSUME NEW m \in S PROVE BandScore(values[m], DefaultBands[m]) \in 0..Full
      OBVIOUS
    <3> DEFINE b == DefaultBands[m]
               v == values[m]
    <3>1. v \in Int /\ b.good \in Int /\ b.bad \in Int /\ b.good # b.bad
      BY BandsAreBands
    <3> HIDE DEF b, v
    <3>2. BandScore(v, b) \in 0..Full
      BY <3>1, BandInRange
    <3> QED
      BY <3>2 DEF b, v
  <2>2. \A m \in S : f[m] \in 0..Full
    BY <2>1
  <2>3. f = [m \in S |-> f[m]]
    OBVIOUS
  <2> HIDE DEF f
  <2> QED
    BY <1>3, <2>2, <2>3
<1>5. Mean(values, S) = SumOf(f, S) \div n
  BY BandSums DEF Mean
<1> HIDE DEF f, n, low
<1>6. SumOf(f, S) \in Int /\ SumOf(f, S) \in (low * n)..(Full * n)
  BY <1>1, <1>3, <1>4, SumsInRange DEF n
<1>7. SumOf(f, S) \div n \in low..Full
  BY <1>2, <1>3, <1>6, MeansInRange
<1> QED
  BY <1>5, <1>7 DEF low

\* What the sub-blocks add, each by its weight.
BlockTotal(values, covered, w, S) ==
    MapThenSumSet(LAMBDA b : Mean(values, SubBlocks[b] \cap covered) * w[b], S)
BlockTerms(values, covered, w, S) == [b \in S |-> Mean(values, SubBlocks[b] \cap covered) * w[b]]

LEMMA BlockSums ==
    ASSUME NEW values, NEW covered, NEW w, NEW S
    PROVE  BlockTotal(values, covered, w, S) = SumOf(BlockTerms(values, covered, w, S), S)
<1> DEFINE term(b) == Mean(values, SubBlocks[b] \cap covered) * w[b]
           f == [b \in S |-> term(b)]
           Picked(s) == CHOOSE x \in s : TRUE
           One(h) == [s \in SUBSET S |-> IF s = {} THEN 0 ELSE term(Picked(s)) + h[s \ {Picked(s)}]]
           Two(h) == [s \in SUBSET S |-> IF s = {} THEN 0 ELSE f[Picked(s)] + h[s \ {Picked(s)}]]
           one == CHOOSE h : h = One(h)
           two == CHOOSE h : h = Two(h)
<1>1. BlockTotal(values, covered, w, S) = one[S]
  BY DEF BlockTotal, MapThenSumSet, MapThenFoldSet
<1>2. SumOf(f, S) = two[S]
  BY DEF SumOf, MapThenSumSet, MapThenFoldSet
<1>3. \A s \in SUBSET S : s # {} => Picked(s) \in S
  OBVIOUS
<1>4. \A h : One(h) = Two(h)
  <2> HIDE DEF Picked, term
  <2> QED
    BY <1>3
<1>5. one = two
  <2> HIDE DEF One, Two
  <2> QED
    BY <1>4, Zenon
<1>6. f = BlockTerms(values, covered, w, S)
  BY DEF BlockTerms
<1> HIDE DEF one, two, f
<1> QED
  BY <1>1, <1>2, <1>5, <1>6

\* What the quality engine promises of a result.
Point100(v) == v = None \/ v \in 0..Full

LEMMA BlocksInRange ==
    ASSUME NEW values, NEW covered, NEW valid, valid \subseteq Blocks, IsFiniteSet(valid),
           \A b \in valid : Mean(values, SubBlocks[b] \cap covered) \in 0..Full,
           NEW w \in [Blocks -> {20}], SumOf(w, valid) # 0
    PROVE  BlockTotal(values, covered, w, valid) \div SumOf(w, valid) \in 0..Full
<1> DEFINE weight == SumOf(w, valid)
           sum == BlockTotal(values, covered, w, valid)
           terms == BlockTerms(values, covered, w, valid)
           n == Cardinality(valid)
           low == 0
           part == 20
           top == 20 * Full
<1>1. n \in Nat
  BY FS_CardinalityType
<1>2. low \in Int /\ part \in Int /\ top \in Int /\ Full \in Int
  BY DEF Full
<1>3. weight \in (part * n)..(part * n) /\ weight \in Int
  <2>1. w \in [Blocks -> Int] /\ \A b \in valid : w[b] \in part..part
    OBVIOUS
  <2> HIDE DEF part
  <2> QED
    BY <1>2, <2>1, SumsInRange
<1>4. \A b \in valid : terms[b] \in low..top
  <2> SUFFICES ASSUME NEW b \in valid PROVE terms[b] \in low..top
    OBVIOUS
  <2> DEFINE mean == Mean(values, SubBlocks[b] \cap covered)
  <2>1. terms[b] = mean * w[b] /\ w[b] = 20 /\ mean \in 0..Full
    BY DEF BlockTerms
  <2> HIDE DEF mean, terms
  <2>2. mean * 20 \in 0..(20 * Full)
    BY <1>2, <2>1
  <2> QED
    BY <2>1, <2>2
<1>5. terms = [b \in valid |-> terms[b]]
  BY DEF BlockTerms
<1>6. sum = SumOf(terms, valid)
  BY BlockSums
<1> HIDE DEF terms, sum, weight, top, low
<1>7. terms \in [valid -> Int] /\ valid \in SUBSET valid
  BY <1>2, <1>4, <1>5
<1>8. sum \in Int /\ sum \in (low * n)..(top * n)
  BY <1>2, <1>4, <1>6, <1>7, SumsInRange
<1> HIDE DEF n
<1>9. weight = 20 * n
  BY <1>1, <1>3
<1>10. 0 < weight
  BY <1>1, <1>9 DEF weight
<1>11. low * n = low * weight /\ top * n = Full * weight
  BY <1>1, <1>9 DEF low, top, Full
<1>12. sum \div weight \in low..Full
  BY <1>2, <1>3, <1>8, <1>10, <1>11, MeansInRange
<1> QED
  BY <1>12 DEF low, sum, weight

LEMMA QualityInRange ==
    ASSUME NEW in, QualityInputs(in)
    PROVE  LET q == CalculateQuality(in, DefaultQualityConfig)
           IN  Point100(q.score) /\ q.conf \in Confidences
<1> DEFINE cfg == DefaultQualityConfig
           derived == in.taxRate # None
           tax == IF derived /\ in.taxRate \in 0..500 THEN in.taxRate ELSE cfg.tax
           values == QualityValues(in, tax, cfg)
           covered == {m \in ApplicableMetrics : values[m] # None}
           valid == {b \in DOMAIN SubBlocks : SubBlocks[b] \cap covered # {}}
           w == cfg.w
           weight == SumOf(w, valid)
           sum == BlockTotal(values, covered, w, valid)
           evidence == QualityConfidence(Cardinality(covered), Cardinality(Applicable(covered)),
                                         derived, cfg)
           q == CalculateQuality(in, cfg)
<1>1. /\ q.score = IF weight = 0 THEN None ELSE sum \div weight
      /\ q.conf = IF weight = 0 THEN "low" ELSE evidence
  BY DEF CalculateQuality, SumOf, BlockTotal
<1>2. evidence \in Confidences
  BY DEF QualityConfidence, Confidences
<1>3. cfg.minYears = 4 /\ w \in [Blocks -> {20}]
  BY BlocksAreFinite DEF DefaultQualityConfig
<1>4. tax \in Int
  BY DEF DefaultQualityConfig
<1> HIDE DEF q, evidence, tax, cfg, w
<1>5. \A m \in covered : m \in QualityMetrics /\ values[m] \in Int
  <2>1. \A m \in QualityMetrics : values[m] \in Numbers
    BY <1>3, <1>4, QualityValuesAreNumbers
  <2> HIDE DEF values
  <2> QED
    BY <2>1, BlocksAreFinite DEF Numbers
<1> HIDE DEF values, covered
<1>6. valid \subseteq Blocks /\ IsFiniteSet(valid)
  BY BlocksAreFinite, FS_Subset
<1>7. \A b \in valid : Mean(values, SubBlocks[b] \cap covered) \in 0..Full
  <2> SUFFICES ASSUME NEW b \in valid PROVE Mean(values, SubBlocks[b] \cap covered) \in 0..Full
    OBVIOUS
  <2> DEFINE S == SubBlocks[b] \cap covered
  <2>1. S \in SUBSET QualityMetrics /\ S # {} /\ \A m \in S : values[m] \in Int
    BY <1>5
  <2> HIDE DEF S
  <2>2. Mean(values, S) \in 0..Full
    BY <2>1, MeanOfBands
  <2> QED
    BY <2>2 DEF S
<1> HIDE DEF derived, valid, sum, weight
<1>8. Point100(q.score)
  BY <1>1, <1>3, <1>6, <1>7, BlocksInRange DEF sum, weight, Point100
<1>9. q.conf \in Confidences
  BY <1>1, <1>2 DEF Confidences
<1> QED
  BY <1>8, <1>9 DEF q, cfg

-----------------------------------------------------------------------------
(* The other engines: what each one gives is a number, and every confidence *)
(* one of the three.                                                        *)

\* What a row of growth holds.
TypedGrowth(res) ==
    /\ {res.fcf3, res.fcf5, res.eps3, res.eps5, res.rev3} \subseteq Numbers
    /\ res.conf \in Confidences

LEMMA BlendKeepsRates ==
    ASSUME NEW res, DOMAIN res = {"eps3", "eps5", "fcf3", "fcf5", "rev3", "rev5", "source", "conf",
                                  "rate", "clamped", "discrepancy"},
           NEW blend, NEW revenue, NEW cfg, TypedGrowth(res)
    PROVE  TypedGrowth(ApplyBlend(res, blend, revenue, cfg))
<1> DEFINE rate == IF blend < cfg.min THEN cfg.min ELSE IF blend > cfg.max THEN cfg.max ELSE blend
           clamped == rate # blend
           discrepancy == revenue # None /\ Distance(revenue, rate) > cfg.discrepancy
           conf == IF clamped \/ discrepancy THEN Degrade(res.conf) ELSE res.conf
           blended == ApplyBlend(res, blend, revenue, cfg)
<1>1. conf \in Confidences
  BY DEF TypedGrowth, Degrade, Confidences
<1>2. blended = [res EXCEPT !.rate = rate, !.clamped = clamped, !.discrepancy = discrepancy,
                            !.conf = conf]
  BY DEF ApplyBlend
<1> HIDE DEF rate, clamped, discrepancy, conf, blended
<1>3. /\ blended.fcf3 = res.fcf3 /\ blended.fcf5 = res.fcf5 /\ blended.eps3 = res.eps3
      /\ blended.eps5 = res.eps5 /\ blended.rev3 = res.rev3 /\ blended.conf = conf
  BY <1>2
<1> QED
  BY <1>1, <1>3 DEF TypedGrowth, blended

LEMMA EvidenceIsAConfidence ==
    ASSUME NEW eps3, NEW fcf3, NEW eps5, NEW fcf5, NEW rev3, NEW rev5
    PROVE  Evidence(eps3, fcf3, eps5, fcf5, rev3, rev5)[2] \in Confidences
<1> DEFINE e == Evidence(eps3, fcf3, eps5, fcf5, rev3, rev5)
           c == {<<"eps_fcf_3y", "high">>, <<"eps_3y", "medium">>, <<"fcf_3y", "medium">>,
                 <<"eps_fcf_5y", "medium">>, <<"eps_5y", "medium">>, <<"fcf_5y", "medium">>,
                 <<"revenue_3y", "low">>, <<"revenue_5y", "low">>, <<"insufficient_data", "low">>}
<1>1. e \in c
  BY DEF Evidence
<1> HIDE DEF e
<1>2. e[2] \in {"low", "medium", "high"}
  BY <1>1
<1> QED
  BY <1>2 DEF e, Confidences

LEMMA GrowthIsTyped ==
    ASSUME NEW in, in.eps \in Seq(Points), in.fcf \in Seq(Points), in.revenue \in Seq(Points)
    PROVE  TypedGrowth(CalculateGrowth(in, DefaultGrowthConfig))
<1> DEFINE cfg == DefaultGrowthConfig
           eps3 == Pick(in.eps, cfg.primary)
           eps5 == Pick(in.eps, cfg.fallback)
           fcf3 == Pick(in.fcf, cfg.primary)
           fcf5 == Pick(in.fcf, cfg.fallback)
           rev3 == Pick(in.revenue, cfg.primary)
           rev5 == Pick(in.revenue, cfg.fallback)
           evidence == Evidence(eps3, fcf3, eps5, fcf5, rev3, rev5)
           res == [eps3 |-> eps3, eps5 |-> eps5, fcf3 |-> fcf3, fcf5 |-> fcf5, rev3 |-> rev3,
                   rev5 |-> rev5, source |-> evidence[1], conf |-> evidence[2],
                   rate |-> None, clamped |-> FALSE, discrepancy |-> FALSE]
<1>1. cfg.primary \in {3, 5} /\ cfg.fallback \in {3, 5}
  BY DEF DefaultGrowthConfig
<1>2. Rate(eps3) /\ Rate(eps5) /\ Rate(fcf3) /\ Rate(fcf5) /\ Rate(rev3)
  <2> HIDE DEF cfg
  <2> QED
    BY <1>1, PickIsARate
<1>3. evidence[2] \in Confidences
  BY EvidenceIsAConfidence
<1>4. CalculateGrowth(in, cfg)
        = CASE {eps3, fcf3} # {None} -> ApplyBlend(res, BlendOf(eps3, fcf3, cfg), rev3, cfg)
            [] {eps3, fcf3} = {None} /\ {eps5, fcf5} # {None} ->
                  ApplyBlend(res, BlendOf(eps5, fcf5, cfg), rev5, cfg)
            [] OTHER -> [res EXCEPT !.rate = IF rev3 # None THEN rev3 ELSE rev5]
  BY DEF CalculateGrowth
<1>5. DOMAIN res = {"eps3", "eps5", "fcf3", "fcf5", "rev3", "rev5", "source", "conf",
                    "rate", "clamped", "discrepancy"}
  OBVIOUS
<1>6. TypedGrowth(res)
  <2> HIDE DEF eps3, eps5, fcf3, fcf5, rev3, rev5, evidence
  <2>1. {eps3, eps5, fcf3, fcf5, rev3} \subseteq Numbers
    BY <1>2 DEF Rate, Numbers
  <2> QED
    BY <1>3, <2>1 DEF TypedGrowth
<1> HIDE DEF res, eps3, eps5, fcf3, fcf5, rev3, rev5, evidence
<1>7. CASE {eps3, fcf3} # {None}
  <2>1. CalculateGrowth(in, cfg) = ApplyBlend(res, BlendOf(eps3, fcf3, cfg), rev3, cfg)
    BY <1>4, <1>7
  <2> QED
    BY <1>5, <1>6, <2>1, BlendKeepsRates
<1>8. CASE {eps3, fcf3} = {None} /\ {eps5, fcf5} # {None}
  <2>1. CalculateGrowth(in, cfg) = ApplyBlend(res, BlendOf(eps5, fcf5, cfg), rev5, cfg)
    BY <1>4, <1>8
  <2> QED
    BY <1>5, <1>6, <2>1, BlendKeepsRates
<1>9. CASE {eps3, fcf3} = {None} /\ {eps5, fcf5} = {None}
  <2> DEFINE alone == [res EXCEPT !.rate = IF rev3 # None THEN rev3 ELSE rev5]
  <2>1. CalculateGrowth(in, cfg) = alone
    BY <1>4, <1>9
  <2>2. /\ alone.fcf3 = res.fcf3 /\ alone.fcf5 = res.fcf5 /\ alone.eps3 = res.eps3
        /\ alone.eps5 = res.eps5 /\ alone.rev3 = res.rev3 /\ alone.conf = res.conf
    BY <1>5
  <2> HIDE DEF alone
  <2> QED
    BY <1>6, <2>1, <2>2 DEF TypedGrowth
<1> QED
  BY <1>7, <1>8, <1>9

LEMMA GrowthRowIsTyped ==
    ASSUME RowTable(fundamentals), NEW asOf
    PROVE  TypedGrowth(GrowthRow(asOf).res)
<1> DEFINE in == GrowthInputs(fundamentals, asOf)
<1>1. /\ "eps_diluted" \in Concepts /\ "eps_basic" \in Concepts /\ "free_cash_flow" \in Concepts
      /\ "revenues" \in Concepts
  BY DEF Concepts, MetricConcepts
<1>2. /\ Series(fundamentals, "eps_diluted", asOf) \in Seq(Points)
      /\ Series(fundamentals, "eps_basic", asOf) \in Seq(Points)
      /\ Series(fundamentals, "free_cash_flow", asOf) \in Seq(Points)
      /\ Series(fundamentals, "revenues", asOf) \in Seq(Points)
  BY <1>1, SeriesIsTyped
<1>3. in.eps \in Seq(Points) /\ in.fcf \in Seq(Points) /\ in.revenue \in Seq(Points)
  BY <1>2 DEF GrowthInputs
<1>4. GrowthRow(asOf).res = CalculateGrowth(in, DefaultGrowthConfig)
  BY DEF GrowthRow
<1> HIDE DEF in
<1> QED
  BY <1>3, <1>4, GrowthIsTyped

LEMMA WaccHasAConfidence ==
    ASSUME NEW in, NEW cfg
    PROVE  CalculateWacc(in, cfg).conf \in Confidences
<1> DEFINE res == CalculateWacc(in, cfg)
<1>1. res.conf = "high" \/ res.conf = "medium" \/ res.conf = "low"
  BY DEF CalculateWacc
<1> QED
  BY <1>1 DEF Confidences

LEMMA ValuationHasAConfidence ==
    ASSUME NEW raw, NEW cfg
    PROVE  CalculateValuation(raw, cfg).conf \in Confidences
<1> DEFINE classed == NormalizeShareClass(raw)
           normalized == IF cfg.normalize THEN NormalizedFcf(classed) ELSE None
           applied == normalized # None
           diverge == GrowthSignalsDiverge(classed.eps5, classed.fcf5)
           in == IF diverge THEN [classed EXCEPT !.growthConf = "low"] ELSE classed
           dcfIn == IF applied THEN [in EXCEPT !.fcf = normalized] ELSE in
           growth == ResolveGrowth(in, cfg)
           rate == ResolveDiscountRate(in, cfg)
           dcf0 == CalcDcfScenarios(dcfIn, cfg, growth, rate)
           dcf1 == IF applied
                   THEN [dcf0 EXCEPT !.conf = Capped(IF @ = "" THEN "medium" ELSE @, "medium")]
                   ELSE dcf0
           graham == ApplyPlausibility(dcfIn, CalcGrahamScenarios(in, cfg, growth), TRUE)
           dcf == ApplyPlausibility(dcfIn, dcf1, FALSE)
           conf == CalcConfidence(in, graham, dcf, rate, growth.fallback)
           v == CalculateValuation(raw, cfg)
<1>1. v.conf = IF applied THEN Capped(conf, "medium") ELSE conf
  <2>1. v = Outcome(in, normalized, diverge, cfg)
    BY DEF CalculateValuation
  <2> HIDE DEF v, in, normalized, diverge
  <2>2. Outcome(in, normalized, diverge, cfg).conf = IF applied THEN Capped(conf, "medium") ELSE conf
    BY DEF Outcome
  <2> QED
    BY <2>1, <2>2
<1>2. conf \in {"low", "medium", "high"}
  <2> HIDE DEF in, graham, dcf, rate, growth
  <2> QED
    BY DEF CalcConfidence
<1> HIDE DEF conf, v, applied
<1>3. Capped(conf, "medium") \in {"low", "medium", "high"}
  BY <1>2 DEF Capped
<1>4. v.conf \in {"low", "medium", "high"}
  BY <1>1, <1>2, <1>3
<1> QED
  BY <1>4 DEF v, Confidences

-----------------------------------------------------------------------------
(* The relative engine and the score.                                      *)

LEMMA RelativeInRange ==
    ASSUME NEW in, NEW cfg, cfg.sector = 60, cfg.historical = 40, SidesHold(CalculateRelative(in, cfg))
    PROVE  LET res == CalculateRelative(in, cfg)
           IN  Point100(res.score) /\ res.conf \in Confidences
<1> DEFINE Names == {"sector", "historical"}
           res == CalculateRelative(in, cfg)
           side == res.side
           sides == {s \in Names : side[s] # None}
           both == (side["sector"] * cfg.sector + side["historical"] * cfg.historical) \div 100
           covered == Cardinality({m \in Compared : in.values[m] # None})
           level == IF 10 * covered >= 8 * Cardinality(Compared) THEN 3
                    ELSE IF 3 * covered >= Cardinality(Compared) THEN 2 ELSE 1
           dropped == IF Cardinality(sides) = 2 THEN level ELSE Max({1, level - 1})
<1>1. /\ res.score = IF Cardinality(sides) = 2 THEN both
                     ELSE IF sides = {} THEN None ELSE side[CHOOSE s \in sides : TRUE]
      /\ res.conf = RelativeConfidence(covered, sides)
  BY DEF CalculateRelative
<1>2. \A s \in sides : side[s] \in 0..Full
  BY DEF SidesHold
<1>3. Point100(res.score)
  <2> HIDE DEF res, side
  <2>1. CASE Cardinality(sides) = 2
    <3>1. "sector" \in sides /\ "historical" \in sides
      <4>1. sides \in SUBSET Names
        OBVIOUS
      <4>2. Cardinality({}) = 0 /\ Cardinality({"sector"}) = 1 /\ Cardinality({"historical"}) = 1
        BY FS_EmptySet, FS_Singleton
      <4> HIDE DEF sides
      <4>3. sides # {} /\ sides # {"sector"} /\ sides # {"historical"}
        BY <2>1, <4>2
      <4> QED
        BY <4>1, <4>3
    <3> DEFINE a == side["sector"]
               b == side["historical"]
               sum == a * 60 + b * 40
               low == 0
               n == 100
    <3>2. a \in 0..Full /\ b \in 0..Full /\ Full \in Int
      <4> HIDE DEF sides
      <4>1. side["sector"] \in 0..Full /\ side["historical"] \in 0..Full
        BY <1>2, <3>1, Zenon
      <4>2. Full \in Int
        BY DEF Full
      <4> QED
        BY <4>1, <4>2
    <3>3. both = sum \div n
      OBVIOUS
    <3>4. n \in Int /\ 0 < n /\ low \in Int
      OBVIOUS
    <3> HIDE DEF a, b, both
    <3>5. sum \in Int /\ sum \in (low * n)..(Full * n)
      BY <3>2
    <3> HIDE DEF sum, low, n
    <3>6. sum \div n \in low..Full
      BY <3>2, <3>4, <3>5, MeansInRange
    <3> QED
      BY <1>1, <2>1, <3>3, <3>6 DEF Point100, low
  <2>2. CASE Cardinality(sides) # 2
    <3> HIDE DEF sides, both
    <3>1. CASE sides = {}
      BY <1>1, <2>2, <3>1 DEF Point100
    <3>2. CASE sides # {}
      BY <1>1, <1>2, <2>2, <3>2 DEF Point100
    <3> QED
      BY <3>1, <3>2
  <2> QED
    BY <2>1, <2>2
<1> HIDE DEF res, sides
<1>4. level \in {1, 2, 3}
  OBVIOUS
<1> HIDE DEF level
<1>5. Max({1, level - 1}) \in {1, 2}
  <2> DEFINE S == {1, level - 1}
  <2>1. S \in SUBSET Int /\ S # {} /\ 1 \in S /\ S \subseteq {0, 1, 2}
    BY <1>4
  <2>2. IsFiniteSet(S)
    <3>1. IsFiniteSet({1}) /\ IsFiniteSet({1} \cup {level - 1})
      BY FS_Singleton, FS_AddElement
    <3>2. S = {1} \cup {level - 1}
      OBVIOUS
    <3> QED
      BY <3>1, <3>2
  <2> HIDE DEF S
  <2> DEFINE last == Max(S)
  <2>3. last \in S /\ 1 <= last
    BY <2>1, <2>2, Extremes
  <2> HIDE DEF last
  <2>4. last \in {1, 2}
    BY <2>1, <2>3
  <2> QED
    BY <2>4 DEF last, S
<1>6. dropped \in {1, 2, 3}
  BY <1>4, <1>5
<1>7. RelativeConfidence(covered, sides)
        = IF sides = {} THEN "low" ELSE <<"low", "medium", "high">>[dropped]
  BY DEF RelativeConfidence, level
<1> HIDE DEF dropped
<1>8. RelativeConfidence(covered, sides) \in Confidences
  BY <1>6, <1>7 DEF Confidences
<1> QED
  BY <1>1, <1>3, <1>8 DEF res

LEMMA RelativeIsTyped ==
    ASSUME NumberTable(metrics), NEW asOf, NEW v, NEW peerRows \in PeerTables
    PROVE  LET r == Relative(asOf, v, peerRows)
           IN  Point100(r.score) /\ r.conf \in Confidences
<1> DEFINE own == MetricsAt(metrics, asOf)
           sector == SectorComparables(peerRows, Peers, ActivePeers)
           cfg == [DefaultRelativeConfig EXCEPT !.minSecurities = MinSecurities]
           historical == HistoricalMedian(metrics, asOf, 4 * cfg.years)
           compared(f) == [m \in Compared |-> IF m = "p_fcf" THEN None ELSE f[m]]
           in == [values |-> [compared(own) EXCEPT !["p_fcf"] =
                                IF v = None THEN None ELSE PFcfFromSnapshot(v.in)],
                  sectorCount |-> sector.count, sectorMedian |-> compared(sector.medians),
                  historicalMedian |-> compared(historical)]
<1>1. Relative(asOf, v, peerRows) = CalculateRelative(in, cfg)
  BY DEF Relative
<1>2. cfg.sector = 60 /\ cfg.historical = 40
  BY DEF DefaultRelativeConfig
<1>3. SidesHold(Relative(asOf, v, peerRows))
  BY RelativeSidesHold
<1> HIDE DEF in, cfg
<1>4. SidesHold(CalculateRelative(in, cfg))
  BY <1>1, <1>3
<1>5. /\ Point100(CalculateRelative(in, cfg).score)
      /\ CalculateRelative(in, cfg).conf \in Confidences
  BY <1>2, <1>4, RelativeInRange
<1> QED
  BY <1>1, <1>5

LEMMA IntrinsicIsANumber ==
    ASSUME NEW price \in Int, NEW intrinsic \in Numbers, NEW mos \in 1..100
    PROVE  Score!ScoreIntrinsic(price, intrinsic, mos) = None
             \/ Score!ScoreIntrinsic(price, intrinsic, mos) \in Nat
<1> DEFINE s == Score!ScoreIntrinsic(price, intrinsic, mos)
           high == 1000000 * (intrinsic - price)
           wide == intrinsic * mos
<1>1. s = CASE intrinsic = None \/ price <= 0              -> None
            [] intrinsic <= 0                              -> None
            [] 100 * price <= intrinsic * (100 - mos)      -> 10000
            [] price >= intrinsic                          -> 0
            [] OTHER -> high \div wide
  BY DEF Score!ScoreIntrinsic
<1> HIDE DEF s
<1>2. CASE intrinsic = None \/ price <= 0 \/ intrinsic <= 0
  <2> HIDE DEF high, wide
  <2> QED
    BY <1>1, <1>2 DEF s
<1>3. CASE ~(intrinsic = None \/ price <= 0 \/ intrinsic <= 0)
  <2>1. intrinsic \in Int /\ 0 < intrinsic
    BY <1>3 DEF Numbers
  <2>2. wide \in Int /\ 0 < wide
    BY <2>1, SMTT(30)
  <2>3. CASE price >= intrinsic \/ 100 * price <= intrinsic * (100 - mos)
    <3> HIDE DEF high, wide
    <3> QED
      BY <1>1, <1>3, <2>3 DEF s
  <2>4. CASE ~(price >= intrinsic) /\ ~(100 * price <= intrinsic * (100 - mos))
    <3>1. high \in Nat
      BY <2>1, <2>4
    <3> HIDE DEF high, wide
    <3>2. high \div wide \in Nat
      BY <2>2, <3>1
    <3> QED
      BY <1>1, <1>3, <2>4, <3>2 DEF s
  <2> QED
    BY <2>3, <2>4
<1> QED
  BY <1>2, <1>3

\* What the three engines give to the score; the market context has nothing.
ScoreInputs(in) ==
    /\ in.graham \in Numbers /\ in.dcf \in Numbers
    /\ in.quality \in Numbers /\ in.relative \in Numbers
    /\ in.market = [sma |-> None, m6 |-> None, m12 |-> None]

LEMMA DimensionIsANumber ==
    ASSUME NEW in, ScoreInputs(in), NEW price \in Int, NEW mos \in 1..100, NEW d \in Score!Dims
    PROVE  Score!Dimensions(in, price, mos)[d] = None \/ Score!Dimensions(in, price, mos)[d] \in Nat
<1>1. /\ Score!ScoreIntrinsic(price, in.graham, mos) = None
           \/ Score!ScoreIntrinsic(price, in.graham, mos) \in Nat
      /\ Score!ScoreIntrinsic(price, in.dcf, mos) = None
           \/ Score!ScoreIntrinsic(price, in.dcf, mos) \in Nat
  BY IntrinsicIsANumber DEF ScoreInputs
<1>2. \A v \in Numbers : Score!Clamped(v) = None \/ Score!Clamped(v) \in Nat
  BY DEF Score!Clamped, Numbers
<1>3. Score!ScoreMarketContext(in.market) = None
  BY DEF Score!ScoreMarketContext, ScoreInputs
<1>4. in.quality \in Numbers /\ in.relative \in Numbers
  BY DEF ScoreInputs
<1>5. CASE d = "graham"
  BY <1>1, <1>5 DEF Score!Dimensions
<1>6. CASE d = "dcf"
  BY <1>1, <1>6 DEF Score!Dimensions
<1>7. CASE d = "quality"
  BY <1>2, <1>4, <1>7 DEF Score!Dimensions
<1>8. CASE d = "relative"
  BY <1>2, <1>4, <1>8 DEF Score!Dimensions
<1>9. CASE d = "market_context"
  BY <1>3, <1>9 DEF Score!Dimensions
<1> QED
  BY <1>5, <1>6, <1>7, <1>8, <1>9 DEF Score!Dims

LEMMA DimsAreFinite == IsFiniteSet(Score!Dims)
<1> DEFINE c == <<"graham", "dcf", "quality", "relative", "market_context">>
<1>1. 1 \in Int /\ 5 \in Int
  OBVIOUS
<1>2. IsFiniteSet(1..5)
  BY <1>1, FS_Interval
<1>3. DOMAIN c = 1..5 /\ Score!Dims = {c[i] : i \in 1..5}
  BY DEF Score!Dims
<1> HIDE DEF c
<1> QED
  BY <1>2, <1>3, ImageIsFinite

\* A sum of naturals.
LEMMA SumIsNat ==
    ASSUME NEW D, NEW f \in [D -> Int], NEW S \in SUBSET D, IsFiniteSet(S), \A x \in S : f[x] \in Nat
    PROVE  SumOf(f, S) \in Nat
<1> DEFINE none == [x \in D |-> 0]
           zero == 0
<1>1. none \in [D -> Int] /\ \A x \in S : none[x] <= f[x]
  OBVIOUS
<1>2. zero \in Int /\ \A x \in S : none[x] \in zero..zero
  OBVIOUS
<1> HIDE DEF none, zero
<1>3. SumOf(none, S) \in Int /\ SumOf(f, S) \in Int /\ SumOf(none, S) <= SumOf(f, S)
  BY <1>1, SumsAreOrdered
<1>4. SumOf(none, S) \in (zero * Cardinality(S))..(zero * Cardinality(S))
  BY <1>1, <1>2, SumsInRange
<1>5. Cardinality(S) \in Nat
  BY FS_CardinalityType
<1> QED
  BY <1>3, <1>4, <1>5 DEF zero

LEMMA WeightedAreSums ==
    ASSUME NEW dims, NEW w
    PROVE  LET valid == Score!ValidDims(dims)
           IN  /\ Score!Weighted(dims, w).total = SumOf([d \in valid |-> dims[d] * w[d]], valid)
               /\ Score!Weighted(dims, w).used = SumOf(w, valid)
<1> DEFINE valid == Score!ValidDims(dims)
           product == [d \in valid |-> dims[d] * w[d]]
<1>1. Score!Weighted(dims, w) = [total |-> Score!Sum(product, valid), used |-> Score!Sum(w, valid)]
  BY DEF Score!Weighted
<1> HIDE DEF product, valid
<1>2. Score!Sum(product, valid) = SumOf(product, valid)
  BY DEF Score!Sum, SumOf, Score!MapThenSumSet, Score!MapThenFoldSet, MapThenSumSet, MapThenFoldSet
<1>3. Score!Sum(w, valid) = SumOf(w, valid)
  BY DEF Score!Sum, SumOf, Score!MapThenSumSet, Score!MapThenFoldSet, MapThenSumSet, MapThenFoldSet
<1>4. /\ Score!Weighted(dims, w).total = SumOf(product, valid)
      /\ Score!Weighted(dims, w).used = SumOf(w, valid)
  BY <1>1, <1>2, <1>3
<1> QED
  BY <1>4 DEF product, valid

LEMMA ScoreIsInRange ==
    ASSUME NEW in, ScoreInputs(in), NEW price \in Int
    PROVE  Score!CalculateScore21(in, price, Score!DefaultModelConfig.mos,
                                  Score!DefaultModelConfig.w).score \in 0..100
<1> DEFINE Dims == Score!Dims
           w == Score!DefaultModelConfig.w
           mos == Score!DefaultModelConfig.mos
           effective == Score!EffectiveMos(mos)
           dims == Score!Dimensions(in, price, effective)
           valid == Score!ValidDims(dims)
           product == [d \in valid |-> dims[d] * w[d]]
           total == SumOf(product, valid)
           used == SumOf(w, valid)
<1>1. effective \in 1..100
  BY DEF Score!EffectiveMos
<1>2. w \in [Dims -> Nat]
  BY DEF Score!DefaultModelConfig, Score!Dims
<1>3. IsFiniteSet(valid) /\ valid \in SUBSET Dims
  BY DimsAreFinite, FS_Subset DEF Score!ValidDims
<1>4. \A d \in valid : dims[d] \in Nat
  <2> SUFFICES ASSUME NEW d \in valid PROVE dims[d] \in Nat
    OBVIOUS
  <2>1. d \in Score!Dims /\ dims[d] # None
    BY DEF Score!ValidDims
  <2> HIDE DEF effective, valid
  <2> QED
    BY <1>1, <2>1, DimensionIsANumber
<1>5. /\ Score!Weighted(dims, w).total = total /\ Score!Weighted(dims, w).used = used
  BY WeightedAreSums
<1>6. Score!CalculateScore21(in, price, mos, w).score
        = Score!Final(Score!Weighted(dims, w).total, Score!Weighted(dims, w).used)
  BY DEF Score!CalculateScore21
<1> HIDE DEF Dims, w, mos, effective, dims, valid
<1>7. product \in [valid -> Int] /\ \A d \in valid : product[d] \in Nat
  BY <1>2, <1>3, <1>4
<1>8. total \in Nat
  <2> HIDE DEF product
  <2>1. valid \in SUBSET valid
    OBVIOUS
  <2> QED
    BY <1>3, <1>7, <2>1, SumIsNat
<1>9. used \in Nat
  <2>1. w \in [Dims -> Int] /\ \A d \in valid : w[d] \in Nat
    BY <1>2, <1>3
  <2> QED
    BY <1>3, <2>1, SumIsNat
<1> HIDE DEF total, used
<1>10. Score!Final(total, used) \in 0..100
  <2>1. CASE used = 0
    BY <2>1 DEF Score!Final
  <2>2. CASE used # 0
    <3>1. 200 * used \in Nat \ {0} /\ 2 * total + 100 * used \in Nat
      BY <1>8, <1>9, <2>2
    <3>2. (2 * total + 100 * used) \div (200 * used) \in Nat
      BY <3>1
    <3> QED
      BY <2>2, <3>2 DEF Score!Final
  <2> QED
    BY <2>1, <2>2
<1> QED
  BY <1>5, <1>6, <1>10 DEF w, mos

-----------------------------------------------------------------------------
(* The rows of a stage.                                                    *)

LEMMA QualityIsTyped ==
    ASSUME RowTable(fundamentals), NEW asOf, NEW price \in Int,
           \A g \in growths : TypedGrowth(g.res)
    PROVE  LET q == Quality(asOf, price)
           IN  Point100(q.score) /\ q.conf \in Confidences
<1> DEFINE past == {r \in growths : r.asOf <= asOf}
           row == LastRow(past)
           g == ResultOf(row)
           growth == IF g = None THEN NoGrowth ELSE g
           s == [c \in AlignedConcepts |-> Series(fundamentals, c, asOf)]
           aligned == AlignedFYFacts(s, asOf, FYMaxAge)
           funds == Fundamentals(fundamentals, QualityConcepts, asOf)
           in == [funds |-> funds, growth |-> growth,
                  epsSeries |-> Series(fundamentals, "eps_diluted", asOf),
                  fcfSeries |-> Series(fundamentals, "free_cash_flow", asOf),
                  price |-> price, aligned |-> aligned, taxRate |-> AlignedTaxRate(aligned).rate]
<1>1. Quality(asOf, price) = CalculateQuality(in, DefaultQualityConfig)
  BY DEF Quality, AsOf, Aligned
<1>2. /\ QualityConcepts \subseteq Concepts /\ AlignedConcepts \subseteq Concepts
      /\ "eps_diluted" \in Concepts /\ "free_cash_flow" \in Concepts
  BY DEF Concepts, MetricConcepts
<1>3. \A c \in QualityConcepts : funds[c] \in Numbers
  <2> SUFFICES ASSUME NEW c \in QualityConcepts PROVE funds[c] \in Numbers
    OBVIOUS
  <2>1. funds[c] = Latest(fundamentals, c, asOf)
    BY DEF Fundamentals
  <2> QED
    BY <1>2, <2>1, LatestIsANumber
<1>4. \A c \in AlignedConcepts : s[c] \in Seq(Points)
  BY <1>2, SeriesIsTyped
<1>5. /\ Series(fundamentals, "eps_diluted", asOf) \in Seq(Points)
      /\ Series(fundamentals, "free_cash_flow", asOf) \in Seq(Points)
  BY <1>2, SeriesIsTyped
<1>6. {growth.fcf3, growth.fcf5, growth.eps3, growth.eps5, growth.rev3} \subseteq Numbers
  <2>1. CASE g = None
    BY <2>1 DEF NoGrowth, Numbers
  <2>2. CASE g # None
    <3>1. row # None /\ g = row.res
      BY <2>2 DEF ResultOf
    <3>2. row \in past
      BY <3>1, LastIsARow
    <3> HIDE DEF row, g
    <3>3. TypedGrowth(g)
      BY <3>1, <3>2
    <3> QED
      BY <2>2, <3>3 DEF TypedGrowth
  <2> QED
    BY <2>1, <2>2
<1>7. AlignedTaxRate(aligned).rate \in Numbers
  <2> HIDE DEF s
  <2> QED
    BY <1>4, TaxRateIsANumber
<1>8. aligned.ebit \in Numbers /\ aligned.interest \in Numbers
  <2> DEFINE anchor == Anchor(s)
             at(concept) == IF anchor = None THEN None ELSE ValueAt(s[concept], anchor)
  <2>1. aligned.ebit = at("operating_income") /\ aligned.interest = at("interest_expense")
    BY DEF AlignedFYFacts
  <2>2. s["operating_income"] \in Seq(Points) /\ s["interest_expense"] \in Seq(Points)
    BY <1>4 DEF AlignedConcepts
  <2> HIDE DEF anchor, s, aligned
  <2>3. /\ ValueAt(s["operating_income"], anchor) \in Numbers
        /\ ValueAt(s["interest_expense"], anchor) \in Numbers
    BY <2>2, ValueAtIsANumber
  <2> QED
    BY <2>1, <2>3 DEF Numbers
<1>9. /\ in.funds = funds /\ in.growth = growth /\ in.price = price /\ in.aligned = aligned
      /\ in.epsSeries = Series(fundamentals, "eps_diluted", asOf)
      /\ in.fcfSeries = Series(fundamentals, "free_cash_flow", asOf)
      /\ in.taxRate = AlignedTaxRate(aligned).rate
  OBVIOUS
<1> HIDE DEF in, growth, funds, aligned
<1>10. QualityInputs(in)
  BY <1>3, <1>5, <1>6, <1>7, <1>8, <1>9 DEF QualityInputs
<1>11. /\ Point100(CalculateQuality(in, DefaultQualityConfig).score)
       /\ CalculateQuality(in, DefaultQualityConfig).conf \in Confidences
  BY <1>10, QualityInRange
<1> QED
  BY <1>1, <1>11

\* A row of scores.
TypedScore(s) ==
    /\ Point100(s.quality.score) /\ Point100(s.relative.score)
    /\ s.quality.conf \in Confidences /\ s.relative.conf \in Confidences
    /\ s.res.score \in 0..100

LEMMA ScoreRowIsTyped ==
    ASSUME close \in Int,
           NEW v, v = None \/ (v.graham.value["base"] \in Numbers /\ v.dcf.value["base"] \in Numbers),
           NEW q, Point100(q.score), q.conf \in Confidences,
           NEW r, Point100(r.score), r.conf \in Confidences
    PROVE  TypedScore(ScoreRow(v, q, r)) /\ ScoreRow(v, q, r).asOf = day
<1> DEFINE in == [graham |-> IF v = None THEN None ELSE v.graham.value["base"],
                  dcf |-> IF v = None THEN None ELSE v.dcf.value["base"],
                  quality |-> q.score, relative |-> r.score,
                  market |-> [sma |-> None, m6 |-> None, m12 |-> None]]
           s == ScoreRow(v, q, r)
<1>1. /\ s.asOf = day /\ s.quality = q /\ s.relative = r
      /\ s.res = Score!CalculateScore21(in, close, Score!DefaultModelConfig.mos,
                                        Score!DefaultModelConfig.w)
  BY DEF ScoreRow
<1>2. q.score \in Numbers /\ r.score \in Numbers
  <2>1. Full \in Int
    BY DEF Full
  <2> QED
    BY <2>1 DEF Point100, Numbers
<1>3. ScoreInputs(in)
  <2>1. in.graham \in Numbers /\ in.dcf \in Numbers
    BY DEF Numbers
  <2> QED
    BY <1>2, <2>1 DEF ScoreInputs
<1> HIDE DEF in, s
<1>4. s.res.score \in 0..100
  BY <1>1, <1>3, ScoreIsInRange
<1>5. TypedScore(s)
  BY <1>1, <1>4 DEF TypedScore
<1> QED
  BY <1>1, <1>5 DEF s

-----------------------------------------------------------------------------
(* The inductive invariant: the types, over rows whose numbers are in the  *)
(* ranges that the next engine needs.                                      *)

Dates(table) == {r.asOf : r \in table}
OneRowEach(table) == \A r, q \in table : r.asOf \in BarDays /\ (r.asOf = q.asOf => r = q)

TypesInv ==
    /\ ScenariosInv
    /\ \A g \in growths : TypedGrowth(g.res)
    /\ day \in BarDays /\ close \in Closes /\ events \in 0..MaxEvents
    /\ OneRowEach(growths) /\ OneRowEach(waccs) /\ OneRowEach(valuations) /\ OneRowEach(scores)
    /\ Dates(growths) = Dates(waccs)
    /\ \A r \in growths \cup waccs \cup valuations : r.res.conf \in Confidences
    /\ \A r \in scores : TypedScore(r)

LEMMA PutKeepsOneRow ==
    ASSUME NEW table, OneRowEach(table), NEW row, row.asOf \in BarDays
    PROVE  OneRowEach(Put(table, row))
BY DEF OneRowEach, Put

LEMMA PutAddsADate ==
    ASSUME NEW table, NEW row
    PROVE  Dates(Put(table, row)) = Dates(table) \cup {row.asOf}
BY DEF Put, Dates

LEMMA InitTypes == Init => TypesInv
<1> SUFFICES ASSUME Init PROVE TypesInv
  OBVIOUS
<1>1. ScenariosInv
  BY InitScenarios
<1>2. events \in 0..MaxEvents
  BY EventsAreCounted DEF Init
<1> QED
  BY <1>1, <1>2 DEF Init, TypesInv, OneRowEach, Dates

LEMMA GrowthWaccTypes ==
    ASSUME TypesInv, ScenariosInv', GrowthWacc
    PROVE  TypesInv'
<1> DEFINE g == GrowthRow(day)
           w == WaccRow(day, close)
<1>1. growths' = Put(growths, g) /\ waccs' = Put(waccs, w)
  BY DEF GrowthWacc
<1>2. UNCHANGED <<day, close, events, valuations, scores>>
  BY DEF GrowthWacc, world
<1>3. g.asOf = day /\ w.asOf = day
  BY DEF GrowthRow, WaccRow
<1>4. TypedGrowth(g.res)
  BY GrowthRowIsTyped DEF TypesInv, ScenariosInv, TablesInv
<1>5. w.res.conf \in Confidences
  <2> DEFINE in == WaccInputs(fundamentals, close, BetaAsOf(day), day, FYMaxAge)
  <2>1. w.res = CalculateWacc(in, DefaultWaccConfig)
    BY DEF WaccRow
  <2> HIDE DEF in, w
  <2> QED
    BY <2>1, WaccHasAConfidence
<1> HIDE DEF g, w
<1>6. OneRowEach(growths') /\ OneRowEach(waccs')
  BY <1>1, <1>3, PutKeepsOneRow DEF TypesInv
<1>7. OneRowEach(valuations') /\ OneRowEach(scores')
  BY <1>2 DEF TypesInv
<1>8. Dates(growths') = Dates(waccs')
  BY <1>1, <1>3, PutAddsADate DEF TypesInv
<1>9. growths' \subseteq growths \cup {g} /\ waccs' \subseteq waccs \cup {w}
  BY <1>1 DEF Put
<1>10. \A r \in growths' : TypedGrowth(r.res)
  BY <1>4, <1>9 DEF TypesInv
<1>11. \A r \in growths' \cup waccs' \cup valuations' : r.res.conf \in Confidences
  BY <1>2, <1>4, <1>5, <1>9 DEF TypesInv, TypedGrowth
<1>12. \A r \in scores' : TypedScore(r)
  BY <1>2 DEF TypesInv
<1>13. day' \in BarDays /\ close' \in Closes /\ events' \in 0..MaxEvents
  BY <1>2 DEF TypesInv
<1> QED
  BY <1>6, <1>7, <1>8, <1>10, <1>11, <1>12, <1>13 DEF TypesInv, OneRowEach, Dates

LEMMA ValuationTypes ==
    ASSUME TypesInv, ScenariosInv', Valuation
    PROVE  TypesInv'
<1> DEFINE v == ValuationRow(day, close)
<1>1. valuations' = Put(valuations, v)
  BY DEF Valuation
<1>2. UNCHANGED <<day, close, events, growths, waccs, scores>>
  BY DEF Valuation, world
<1>3. v.asOf = day
  BY DEF ValuationRow
<1>4. v.res.conf \in Confidences
  <2> DEFINE in == ValuationInputs(day, close)
  <2>1. v.res = CalculateValuation(in, DefaultValuationConfig)
    BY DEF ValuationRow
  <2> HIDE DEF in, v
  <2> QED
    BY <2>1, ValuationHasAConfidence
<1> HIDE DEF v
<1>5. OneRowEach(valuations')
  BY <1>1, <1>3, PutKeepsOneRow DEF TypesInv
<1>6. OneRowEach(growths') /\ OneRowEach(waccs') /\ OneRowEach(scores')
  BY <1>2 DEF TypesInv
<1>7. valuations' \subseteq valuations \cup {v}
  BY <1>1 DEF Put
<1>8. \A r \in growths' \cup waccs' \cup valuations' : r.res.conf \in Confidences
  BY <1>2, <1>4, <1>7 DEF TypesInv
<1>9. /\ \A r \in growths' : TypedGrowth(r.res)
      /\ \A r \in scores' : TypedScore(r)
      /\ Dates(growths') = Dates(waccs')
      /\ day' \in BarDays /\ close' \in Closes /\ events' \in 0..MaxEvents
  BY <1>2 DEF TypesInv
<1> QED
  BY <1>5, <1>6, <1>8, <1>9 DEF TypesInv, OneRowEach, Dates

LEMMA ScoresTypes ==
    ASSUME TypesInv, ScenariosInv', Scores
    PROVE  TypesInv'
<1> DEFINE row == RowAt(valuations, day)
           v == ResultOf(row)
           q == Quality(day, close)
<1>1. PICK rows \in PeerTables : scores' = {ScoreRow(v, q, Relative(day, v, rows))}
  BY DEF Scores
<1> DEFINE r == Relative(day, v, rows)
           s == ScoreRow(v, q, r)
<1>2. UNCHANGED <<day, close, events, growths, waccs, valuations>>
  BY DEF Scores, world
<1>3. Point100(q.score) /\ q.conf \in Confidences
  BY QualityIsTyped DEF TypesInv, ScenariosInv, TablesInv
<1>4. Point100(r.score) /\ r.conf \in Confidences
  <2> HIDE DEF v
  <2> QED
    BY RelativeIsTyped DEF TypesInv, ScenariosInv, TablesInv
<1>5. v = None \/ (v.graham.value["base"] \in Numbers /\ v.dcf.value["base"] \in Numbers)
  <2>1. CASE row = None
    BY <2>1 DEF ResultOf
  <2>2. CASE row # None
    <3>1. row \in valuations
      BY <2>2 DEF RowAt
    <3>2. v = row.res
      BY <2>2 DEF ResultOf
    <3> HIDE DEF row, v
    <3> QED
      BY <3>1, <3>2 DEF TypesInv, ScenariosInv, InTheirOrder
  <2> QED
    BY <2>1, <2>2
<1> HIDE DEF v, q, r
<1>6. TypedScore(s) /\ s.asOf = day
  BY <1>3, <1>4, <1>5, ScoreRowIsTyped DEF TypesInv, ScenariosInv, TablesInv
<1>7. scores' = {s}
  BY <1>1 DEF r
<1> HIDE DEF s
<1>8. OneRowEach(scores') /\ \A x \in scores' : TypedScore(x)
  BY <1>6, <1>7 DEF TypesInv, OneRowEach
<1>9. /\ \A x \in growths' : TypedGrowth(x.res)
      /\ \A x \in growths' \cup waccs' \cup valuations' : x.res.conf \in Confidences
      /\ OneRowEach(growths') /\ OneRowEach(waccs') /\ OneRowEach(valuations')
      /\ Dates(growths') = Dates(waccs')
      /\ day' \in BarDays /\ close' \in Closes /\ events' \in 0..MaxEvents
  BY <1>2 DEF TypesInv
<1> QED
  BY <1>8, <1>9 DEF TypesInv, OneRowEach, Dates

LEMMA WorldTypes ==
    ASSUME TypesInv, ScenariosInv', UNCHANGED <<growths, waccs, valuations, scores>>,
           day' \in BarDays, close' \in Closes, events' \in 0..MaxEvents
    PROVE  TypesInv'
BY DEF TypesInv, OneRowEach, Dates

LEMMA NextTypes == TypesInv /\ [Next]_vars => TypesInv'
<1> SUFFICES ASSUME TypesInv, [Next]_vars PROVE TypesInv'
  OBVIOUS
<1>1. ScenariosInv'
  BY NextScenarios DEF TypesInv
<1>2. CASE GrowthWacc
  BY <1>1, <1>2, GrowthWaccTypes
<1>3. CASE Valuation
  BY <1>1, <1>3, ValuationTypes
<1>4. CASE Scores
  BY <1>1, <1>4, ScoresTypes
<1>5. CASE Metrics \/ UNCHANGED vars
  <2>1. UNCHANGED <<growths, waccs, valuations, scores>>
    BY <1>5 DEF Metrics, vars
  <2>2. UNCHANGED <<day, close, events>>
    BY <1>5 DEF Metrics, vars, world
  <2> QED
    BY <1>1, <2>1, <2>2, WorldTypes DEF TypesInv
<1>6. CASE NextBar \/ \E x \in DOMAIN Arrivals : Arrive(x)
  <2>1. UNCHANGED <<growths, waccs, valuations, scores>>
    BY <1>6 DEF NextBar, Arrive, Rows
  <2>2. day' \in BarDays /\ close' \in Closes
    BY <1>6 DEF NextBar, Arrive, TypesInv
  <2>3. events' \in 0..MaxEvents
    BY <1>6, EventsAreCounted DEF NextBar, Arrive, Happens, TypesInv
  <2> QED
    BY <1>1, <2>1, <2>2, <2>3, WorldTypes
<1> QED
  BY <1>2, <1>3, <1>4, <1>5, <1>6 DEF Next

LEMMA TypesFollow == TypesInv => TypeOK
<1> SUFFICES ASSUME TypesInv PROVE TypeOK
  OBVIOUS
<1>1. \A table \in {growths, waccs, valuations, scores} :
         \A r, q \in table : r.asOf \in BarDays /\ (r.asOf = q.asOf => r = q)
  BY DEF TypesInv, OneRowEach
<1>2. \A p : Point100(p) => Point(p)
  BY DEF Point100, Point, Full
<1>3. \A r \in scores :
         /\ Point(r.quality.score) /\ Point(r.relative.score)
         /\ r.quality.conf \in Confidences /\ r.relative.conf \in Confidences
         /\ r.res.score \in 0..100
  BY <1>2 DEF TypesInv, TypedScore
<1> QED
  BY <1>1, <1>3 DEF TypesInv, TypeOK, Dates

\* One row of a date in each table of the engines, growth and WACC at the same
\* dates, every confidence one of the three, every score of quality and of the
\* peers nothing or a point of the scale, and the score within 0..100: for any
\* payloads, closes, betas, peers and older rows, and any order of the stages
\* (internal/quality.Calculate, internal/relative.Calculate, calculateScore21).
THEOREM TypeCorrect == Spec => []TypeOK
<1>1. Spec => []TypesInv
  BY InitTypes, NextTypes, PTL DEF Spec
<1> QED
  BY <1>1, TypesFollow, PTL

-----------------------------------------------------------------------------
(* Of the facts that compete for a row: the best of any number of them, and *)
(* the group of a row in a payload of several parts.                        *)

\* The facts that compete with the n-th one.
GroupOf(facts, n) ==
    {i \in DOMAIN facts :
        /\ Canonical(facts[i])
        /\ <<facts[i].concept, PeriodKey(facts[i])>> = <<facts[n].concept, PeriodKey(facts[n])>>}

LEMMA DedupeByGroups ==
    ASSUME NEW facts
    PROVE  DedupeCanonical(facts) =
             {SurvivorOf(facts, GroupOf(facts, n)) : n \in {i \in DOMAIN facts : Canonical(facts[i])}}
<1> DEFINE group(f) == <<f.concept, PeriodKey(f)>>
           canonical == {i \in DOMAIN facts : Canonical(facts[i])}
           of(k) == {i \in canonical : group(facts[i]) = k}
<1>1. DedupeCanonical(facts) = {SurvivorOf(facts, of(k)) : k \in {group(facts[i]) : i \in canonical}}
  BY DEF DedupeCanonical
<1>2. \A n \in canonical : GroupOf(facts, n) = of(group(facts[n]))
  BY DEF GroupOf
<1> HIDE DEF of, group, canonical
<1>3. DedupeCanonical(facts) = {SurvivorOf(facts, GroupOf(facts, n)) : n \in canonical}
  BY <1>1, <1>2
<1> QED
  BY <1>3 DEF canonical

\* The order of newerFact where no split is in play.
Preferred(f, g) ==
    \/ f.priority < g.priority
    \/ f.priority = g.priority /\ (f.filed > g.filed \/ (f.filed = g.filed /\ f.accn > g.accn))

LEMMA NewerIsPreferred ==
    \A f, g \in Facts : (f # g => ~SplitPair(f, g)) => (NewerFact(f, g) <=> Preferred(f, g))
<1> SUFFICES ASSUME NEW f \in Facts, NEW g \in Facts, f # g => ~SplitPair(f, g)
             PROVE  NewerFact(f, g) <=> Preferred(f, g)
  OBVIOUS
<1>1. /\ f.priority \in Int /\ g.priority \in Int /\ f.filed \in Int /\ g.filed \in Int
      /\ f.accn \in Int /\ g.accn \in Int
  BY DEF Facts
<1>2. CASE ~SplitPair(f, g)
  BY <1>1, <1>2 DEF NewerFact, Preferred
<1>3. CASE f = g
  <2>1. ~SplitPair(f, f)
    <3> SUFFICES ASSUME NEW k \in 2..8, f.value # 0, f.value = k * f.value PROVE FALSE
      BY DEF SplitPair, Rescaled
    <3> DEFINE v == f.value
    <3>1. v \in Int /\ v # 0 /\ v = k * v
      BY DEF Facts
    <3>2. k \in {2, 3, 4, 5, 6, 7, 8}
      OBVIOUS
    <3> HIDE DEF v
    <3> QED
      BY <3>1, <3>2
  <2> QED
    BY <1>2, <1>3, <2>1
<1> QED
  BY <1>2, <1>3

\* No fact of a group is preferred to its survivor, wherever they are in the payload.
LEMMA BestOfTheGroup ==
    ASSUME NEW facts \in Seq(Facts), NEW I \in SUBSET DOMAIN facts, I # {},
           \A i, j \in I : facts[i] # facts[j] => ~SplitPair(facts[i], facts[j])
    PROVE  \E i \in I : SurvivorOf(facts, I) = facts[i] /\ \A j \in I : ~Preferred(facts[j], facts[i])
<1> DEFINE Step(s, f) == IF s = {} THEN facts[Min(I)] ELSE Survivor(f[s \ {Max(s)}], facts[Max(s)])
           iter == CHOOSE f : f = [s \in SUBSET I |-> Step(s, f)]
           pick == [s \in SUBSET I |-> Max(s)]
           Good == {s \in SUBSET I :
                      \E i \in I : iter[s] = facts[i] /\ \A j \in s : ~Preferred(facts[j], facts[i])}
<1>1. I \subseteq Int /\ IsFiniteSet(I)
  <2>1. DOMAIN facts = 1..Len(facts) /\ Len(facts) \in Nat
    OBVIOUS
  <2>2. IsFiniteSet(1..Len(facts))
    BY <2>1, FS_Interval
  <2> QED
    BY <2>1, <2>2, FS_Subset
<1>2. \A s \in SUBSET I : s # {} => Max(s) \in s
  BY <1>1, FS_Subset, Extremes
<1>3. iter = [s \in SUBSET I |-> Step(s, iter)]
  <2>1. \E f : f = [s \in SUBSET I |-> Step(s, f)]
    BY SurvivorFolds
  <2> HIDE DEF Step
  <2> QED
    BY <2>1
<1>4. SurvivorOf(facts, I) = iter[I]
  BY DEF SurvivorOf, MapThenFoldSet
<1> HIDE DEF iter
<1>5. {} \in Good
  <2>1. Min(I) \in I
    BY <1>1, Extremes
  <2>2. iter[{}] = facts[Min(I)]
    BY <1>3
  <2> QED
    BY <2>1, <2>2
<1>6. ASSUME NEW s \in SUBSET I, s # {}, s \ {pick[s]} \in Good PROVE s \in Good
  <2> DEFINE m == Max(s)
  <2>1. PICK i \in I : iter[s \ {m}] = facts[i] /\ \A j \in s \ {m} : ~Preferred(facts[j], facts[i])
    BY <1>6
  <2>2. m \in I /\ m \in s
    BY <1>2, <1>6
  <2>3. iter[s] = IF NewerFact(facts[m], facts[i]) THEN facts[m] ELSE facts[i]
    BY <1>3, <1>6, <2>1 DEF Survivor
  <2> HIDE DEF m
  <2>4. \A j \in I : facts[j] \in Facts
    OBVIOUS
  <2>5. NewerFact(facts[m], facts[i]) <=> Preferred(facts[m], facts[i])
    <3>1. /\ facts[m] \in Facts /\ facts[i] \in Facts
          /\ facts[m] # facts[i] => ~SplitPair(facts[m], facts[i])
      BY <2>2, <2>4
    <3> QED
      BY <3>1, NewerIsPreferred
  <2>6. \A f \in Facts : ~Preferred(f, f)
    <3> SUFFICES ASSUME NEW f \in Facts PROVE ~Preferred(f, f)
      OBVIOUS
    <3>1. f.priority \in Int /\ f.filed \in Int /\ f.accn \in Int
      BY DEF Facts
    <3> QED
      BY <3>1 DEF Preferred
  <2>7. \A f, g, h \in Facts : Preferred(g, f) /\ ~Preferred(h, f) => ~Preferred(h, g)
    <3> SUFFICES ASSUME NEW f \in Facts, NEW g \in Facts, NEW h \in Facts,
                        Preferred(g, f), ~Preferred(h, f)
                 PROVE  ~Preferred(h, g)
      OBVIOUS
    <3>1. /\ f.priority \in Int /\ g.priority \in Int /\ h.priority \in Int
          /\ f.filed \in Int /\ g.filed \in Int /\ h.filed \in Int
          /\ f.accn \in Int /\ g.accn \in Int /\ h.accn \in Int
      BY DEF Facts
    <3> DEFINE a == f.priority  b == g.priority  c == h.priority
               x == f.filed  y == g.filed  z == h.filed
               u == f.accn  v == g.accn  w == h.accn
    <3>2. /\ a \in Int /\ b \in Int /\ c \in Int /\ x \in Int /\ y \in Int /\ z \in Int
          /\ u \in Int /\ v \in Int /\ w \in Int
          /\ b < a \/ (b = a /\ (y > x \/ (y = x /\ v > u)))
          /\ ~(c < a \/ (c = a /\ (z > x \/ (z = x /\ w > u))))
      BY <3>1 DEF Preferred
    <3> HIDE DEF a, b, c, x, y, z, u, v, w
    <3>3. ~(c < b \/ (c = b /\ (z > y \/ (z = y /\ w > v))))
      BY <3>2
    <3> QED
      BY <3>3 DEF a, b, c, x, y, z, u, v, w, Preferred
  <2>8. CASE Preferred(facts[m], facts[i])
    <3>1. iter[s] = facts[m]
      BY <2>3, <2>5, <2>8
    <3>2. \A j \in s : ~Preferred(facts[j], facts[m])
      <4> SUFFICES ASSUME NEW j \in s PROVE ~Preferred(facts[j], facts[m])
        OBVIOUS
      <4>1. CASE j = m
        BY <2>2, <2>4, <2>6, <4>1
      <4>2. CASE j # m
        BY <2>1, <2>2, <2>4, <2>7, <2>8, <4>2
      <4> QED
        BY <4>1, <4>2
    <3> QED
      BY <2>2, <3>1, <3>2
  <2>9. CASE ~Preferred(facts[m], facts[i])
    <3>1. iter[s] = facts[i] /\ \A j \in s : ~Preferred(facts[j], facts[i])
      BY <2>1, <2>3, <2>5, <2>9
    <3> QED
      BY <3>1
  <2> QED
    BY <2>8, <2>9
<1>7. \A s \in SUBSET I : s \in Good
  <2>1. Takes(pick, I)
    BY <1>2 DEF Takes
  <2>2. \A s \in SUBSET I : s # {} /\ s \ {pick[s]} \in Good => s \in Good
    <3> HIDE DEF Good, pick
    <3> QED
      BY <1>6
  <2>3. IsFiniteSet(I)
    BY <1>1
  <2> HIDE DEF Good, pick, Step
  <2> QED
    BY <1>5, <2>1, <2>2, <2>3, TakingInduction
<1>8. I \in Good
  <2>1. I \in SUBSET I
    OBVIOUS
  <2> HIDE DEF Good
  <2> QED
    BY <1>7, <2>1
<1> QED
  BY <1>4, <1>8

\* Two facts of a payload that compete for one row.
RivalFacts(f, g) ==
    Canonical(f) /\ Canonical(g) /\ <<f.concept, PeriodKey(f)>> = <<g.concept, PeriodKey(g)>>

Published(payload) == {payload[i] : i \in DOMAIN payload}

\* Among the facts of a payload that compete for one row, however many they are
\* and wherever they stand, the row is that of the preferred tag, then of the
\* last filing, as long as no two of them are a split of each other
\* (internal/collect/edgar.dedupeCanonical, newerFact).
THEOREM BestSurvives ==
    ASSUME NEW payload \in Seq(Facts),
           \A f, g \in Published(payload) : f # g /\ RivalFacts(f, g) => ~SplitPair(f, g)
    PROVE  \A f \in DedupeCanonical(payload) :
             f \in Published(payload) /\ Canonical(f)
             /\ \A g \in Published(payload) : RivalFacts(f, g) => ~Preferred(g, f)
<1> SUFFICES ASSUME NEW f \in DedupeCanonical(payload)
             PROVE  /\ f \in Published(payload) /\ Canonical(f)
                    /\ \A g \in Published(payload) : RivalFacts(f, g) => ~Preferred(g, f)
  OBVIOUS
<1>1. PICK n \in DOMAIN payload : Canonical(payload[n]) /\ f = SurvivorOf(payload, GroupOf(payload, n))
  BY DedupeByGroups
<1> DEFINE I == GroupOf(payload, n)
<1>2. I \in SUBSET DOMAIN payload /\ n \in I
  BY <1>1 DEF GroupOf
<1>3. \A i, j \in I : RivalFacts(payload[i], payload[j])
  BY DEF GroupOf, RivalFacts
<1>4. \A i, j \in I : payload[i] # payload[j] => ~SplitPair(payload[i], payload[j])
  BY <1>2, <1>3 DEF Published
<1>5. \A j \in DOMAIN payload : \A i \in I : RivalFacts(payload[i], payload[j]) => j \in I
  BY DEF GroupOf, RivalFacts
<1> HIDE DEF I
<1>6. PICK i \in I : SurvivorOf(payload, I) = payload[i] /\ \A j \in I : ~Preferred(payload[j], payload[i])
  BY <1>2, <1>4, BestOfTheGroup
<1>7. f = payload[i] /\ Canonical(f)
  BY <1>1, <1>3, <1>6 DEF I, RivalFacts
<1> QED
  BY <1>2, <1>5, <1>6, <1>7 DEF Published

\* The order of a payload does not matter: the same facts in another order, or
\* some of them twice, give the same rows, where the tag or the filing tells any
\* two that compete apart and they are no split of each other
\* (internal/collect/edgar.dedupeCanonical).
THEOREM OrderOfMany ==
    ASSUME NEW p \in Seq(Facts), NEW q \in Seq(Facts), Published(p) = Published(q),
           \A f, g \in Published(p) : f # g /\ RivalFacts(f, g) =>
              /\ ~SplitPair(f, g)
              /\ f.priority # g.priority \/ f.filed # g.filed \/ f.accn # g.accn
    PROVE  DedupeCanonical(p) = DedupeCanonical(q)
<1> DEFINE All == Published(p)
           Best(f) == /\ f \in All /\ Canonical(f)
                      /\ \A g \in All : RivalFacts(f, g) => ~Preferred(g, f)
<1>1. /\ \A f \in DedupeCanonical(p) : Best(f)
      /\ \A f \in DedupeCanonical(q) : Best(f)
  <2>1. \A f, g \in Published(p) : f # g /\ RivalFacts(f, g) => ~SplitPair(f, g)
    OBVIOUS
  <2>2. \A f \in DedupeCanonical(p) : Best(f)
    BY <2>1, BestSurvives
  <2>3. \A f, g \in Published(q) : f # g /\ RivalFacts(f, g) => ~SplitPair(f, g)
    BY <2>1
  <2>4. \A f \in DedupeCanonical(q) : Best(f)
    BY <2>3, BestSurvives
  <2> QED
    BY <2>2, <2>4
<1>2. All \subseteq Facts
  BY DEF Published
<1>3. \A f, g : Best(f) /\ Best(g) /\ RivalFacts(f, g) => f = g
  <2> SUFFICES ASSUME NEW f, NEW g, Best(f), Best(g), RivalFacts(f, g) PROVE f = g
    OBVIOUS
  <2>1. RivalFacts(g, f)
    BY DEF RivalFacts
  <2>2. ~Preferred(f, g) /\ ~Preferred(g, f) /\ f \in All /\ g \in All
    BY <2>1
  <2>3. /\ f.priority \in Int /\ g.priority \in Int /\ f.filed \in Int /\ g.filed \in Int
        /\ f.accn \in Int /\ g.accn \in Int
    BY <1>2, <2>2 DEF Facts
  <2>4. f.priority = g.priority /\ f.filed = g.filed /\ f.accn = g.accn
    BY <2>2, <2>3 DEF Preferred
  <2> QED
    BY <2>2, <2>4
<1>4. ASSUME NEW r \in Seq(Facts), Published(r) = All, \A g \in DedupeCanonical(r) : Best(g),
             NEW f, Best(f)
      PROVE  f \in DedupeCanonical(r)
  <2>1. PICK n \in DOMAIN r : f = r[n]
    BY <1>4 DEF Published
  <2> DEFINE g == SurvivorOf(r, GroupOf(r, n))
  <2>2. g \in DedupeCanonical(r)
    BY <1>4, <2>1, DedupeByGroups
  <2>3. RivalFacts(f, g)
    <3>1. GroupOf(r, n) \in SUBSET DOMAIN r /\ n \in GroupOf(r, n)
      BY <1>4, <2>1 DEF GroupOf
    <3>2. PICK i \in GroupOf(r, n) : g = r[i]
      BY <3>1, SurvivorIsOfTheGroup
    <3> HIDE DEF g
    <3> QED
      BY <1>4, <2>1, <3>2 DEF GroupOf, RivalFacts
  <2> HIDE DEF g, Best
  <2> QED
    BY <1>3, <1>4, <2>2, <2>3
<1> HIDE DEF Best
<1>5. \A f : Best(f) => f \in DedupeCanonical(p) /\ f \in DedupeCanonical(q)
  BY <1>1, <1>4
<1> QED
  BY <1>1, <1>5

Shift(I, d) == {i + d : i \in I}

\* The same facts at other places of another payload, in the same order, have
\* the same survivor.
LEMMA SurvivorShifts ==
    ASSUME NEW p \in Seq(Facts), NEW q \in Seq(Facts), NEW d \in Int,
           NEW I \in SUBSET DOMAIN p, I # {},
           \A i \in I : i + d \in DOMAIN q /\ q[i + d] = p[i]
    PROVE  SurvivorOf(q, {i + d : i \in I}) = SurvivorOf(p, I)
<1> DEFINE Moved(s) == {i + d : i \in s}
           K == Moved(I)
           StepP(s, f) == IF s = {} THEN p[Min(I)] ELSE Survivor(f[s \ {Max(s)}], p[Max(s)])
           StepQ(s, f) == IF s = {} THEN q[Min(K)] ELSE Survivor(f[s \ {Max(s)}], q[Max(s)])
           iterP == CHOOSE f : f = [s \in SUBSET I |-> StepP(s, f)]
           iterQ == CHOOSE f : f = [s \in SUBSET K |-> StepQ(s, f)]
           pick == [s \in SUBSET I |-> Max(s)]
           Good == {s \in SUBSET I : iterQ[Moved(s)] = iterP[s]}
<1>1. I \subseteq Int /\ IsFiniteSet(I) /\ K \in SUBSET DOMAIN q /\ K # {}
  <2>1. DOMAIN p = 1..Len(p) /\ Len(p) \in Nat
    OBVIOUS
  <2>2. IsFiniteSet(1..Len(p))
    BY <2>1, FS_Interval
  <2> QED
    BY <2>1, <2>2, FS_Subset
<1>2. iterP = [s \in SUBSET I |-> StepP(s, iterP)] /\ SurvivorOf(p, I) = iterP[I]
  <2>1. \E f : f = [s \in SUBSET I |-> StepP(s, f)]
    BY SurvivorFolds
  <2>2. SurvivorOf(p, I) = iterP[I]
    BY DEF SurvivorOf, MapThenFoldSet
  <2> HIDE DEF StepP
  <2> QED
    BY <2>1, <2>2
<1>3. iterQ = [s \in SUBSET K |-> StepQ(s, iterQ)] /\ SurvivorOf(q, K) = iterQ[K]
  <2>1. \E f : f = [s \in SUBSET K |-> StepQ(s, f)]
    <3> HIDE DEF K
    <3> QED
      BY <1>1, SurvivorFolds
  <2>2. SurvivorOf(q, K) = iterQ[K]
    <3> HIDE DEF K
    <3> QED
      BY DEF SurvivorOf, MapThenFoldSet
  <2> HIDE DEF StepQ
  <2> QED
    BY <2>1, <2>2
<1> HIDE DEF iterP, iterQ
<1>4. ASSUME NEW s \in SUBSET I, s # {}
      PROVE  /\ Max(s) \in s /\ Max(Moved(s)) = Max(s) + d /\ Min(Moved(s)) = Min(s) + d /\ Min(s) \in s
             /\ Moved(s) \in SUBSET K /\ Moved(s) # {}
             /\ Moved(s) \ {Max(Moved(s))} = Moved(s \ {Max(s)})
  <2>1. /\ Max(s) \in s /\ \A y \in s : y <= Max(s)
        /\ Min(s) \in s /\ \A y \in s : Min(s) <= y
    BY <1>1, <1>4, FS_Subset, Extremes
  <2>2. Moved(s) \in SUBSET K /\ Moved(s) # {} /\ Moved(s) \subseteq Int
    BY <1>1, <1>4
  <2>3. IsFiniteSet(Moved(s))
    <3> DEFINE h == [i \in s |-> i + d]
    <3>1. DOMAIN h = s /\ Moved(s) = {h[i] : i \in s} /\ IsFiniteSet(s)
      BY <1>1, FS_Subset
    <3> HIDE DEF h, Moved
    <3> QED
      BY <3>1, ImageIsFinite
  <2> DEFINE T == Moved(s)
  <2>4. /\ Max(T) \in T /\ \A y \in T : y <= Max(T)
        /\ Min(T) \in T /\ \A y \in T : Min(T) <= y
    <3> HIDE DEF T
    <3> QED
      BY <2>2, <2>3, Extremes DEF T
  <2>5. s \subseteq Int /\ \A y \in s : y + d \in T
    BY <1>1
  <2>6. \A t \in T : t - d \in s /\ t \in Int
    BY <1>1
  <2>7. Max(T) = Max(s) + d /\ Min(T) = Min(s) + d
    <3> HIDE DEF T
    <3>1. Max(s) + d <= Max(T) /\ Max(T) - d <= Max(s) /\ Min(T) <= Min(s) + d /\ Min(s) <= Min(T) - d
      BY <2>1, <2>4, <2>5, <2>6
    <3>2. Max(s) \in Int /\ Min(s) \in Int /\ Max(T) \in Int /\ Min(T) \in Int
      BY <2>1, <2>4, <2>5, <2>6
    <3> DEFINE a == Max(s)  b == Max(T)  m == Min(s)  n == Min(T)
    <3>3. /\ a + d <= b /\ b - d <= a /\ n <= m + d /\ m <= n - d
          /\ a \in Int /\ b \in Int /\ m \in Int /\ n \in Int
      BY <3>1, <3>2
    <3> HIDE DEF a, b, m, n
    <3>4. b = a + d /\ n = m + d
      BY <3>3
    <3> QED
      BY <3>4 DEF a, b, m, n
  <2>8. T \ {Max(T)} = Moved(s \ {Max(s)})
    <3>1. Max(s) \in Int /\ Max(T) = Max(s) + d
      BY <2>1, <2>5, <2>7
    <3> DEFINE m == Max(s)
    <3>2. T \ {m + d} = Moved(s \ {m})
      <4>1. m \in Int
        BY <3>1
      <4> HIDE DEF m
      <4>2. ASSUME NEW t \in T, t # m + d PROVE t \in Moved(s \ {m})
        <5>1. PICK i \in s : t = i + d
          OBVIOUS
        <5> QED
          BY <4>2, <5>1
      <4>3. ASSUME NEW t \in Moved(s \ {m}) PROVE t \in T /\ t # m + d
        <5>1. PICK i \in s \ {m} : t = i + d
          OBVIOUS
        <5>2. i \in Int /\ i # m
          BY <2>5
        <5> QED
          BY <4>1, <5>1, <5>2
      <4> QED
        BY <4>2, <4>3
    <3> HIDE DEF T, Moved
    <3> QED
      BY <3>1, <3>2
  <2> HIDE DEF Moved
  <2> QED
    BY <2>1, <2>2, <2>7, <2>8
<1>5. {} \in Good
  <2>1. Moved({}) = {} /\ {} \in SUBSET I /\ {} \in SUBSET K
    OBVIOUS
  <2>2. Min(K) = Min(I) + d /\ Min(I) \in I
    <3> HIDE DEF Moved
    <3> QED
      BY <1>4
  <2>3. q[Min(K)] = p[Min(I)]
    <3> HIDE DEF K
    <3> QED
      BY <2>2
  <2>4. iterP[{}] = p[Min(I)] /\ iterQ[{}] = q[Min(K)]
    <3> HIDE DEF K
    <3> QED
      BY <1>2, <1>3, <2>1
  <2> HIDE DEF Moved, K
  <2> QED
    BY <2>1, <2>3, <2>4
<1>6. ASSUME NEW s \in SUBSET I, s # {}, s \ {pick[s]} \in Good PROVE s \in Good
  <2> DEFINE m == Max(s)
  <2>1. /\ m \in s /\ Max(Moved(s)) = m + d /\ Moved(s) \in SUBSET K /\ Moved(s) # {}
        /\ Moved(s) \ {Max(Moved(s))} = Moved(s \ {m})
    <3> HIDE DEF Moved, K
    <3> QED
      BY <1>4, <1>6
  <2>2. iterQ[Moved(s \ {m})] = iterP[s \ {m}]
    <3>1. pick[s] = m
      OBVIOUS
    <3> HIDE DEF pick, m, Moved
    <3> QED
      BY <1>6, <3>1
  <2>3. iterP[s] = Survivor(iterP[s \ {m}], p[m])
    BY <1>2, <1>6
  <2>4. iterQ[Moved(s)] = Survivor(iterQ[Moved(s) \ {Max(Moved(s))}], q[Max(Moved(s))])
    <3> HIDE DEF Moved, K
    <3> QED
      BY <1>3, <2>1
  <2>5. q[m + d] = p[m]
    BY <2>1
  <2>6. iterQ[Moved(s)] = iterP[s]
    <3> HIDE DEF Moved, K, m
    <3> QED
      BY <2>1, <2>2, <2>3, <2>4, <2>5
  <2> HIDE DEF Moved, K, m
  <2> QED
    BY <2>6
<1>7. Takes(pick, I)
  <2>1. \A s \in SUBSET I : s # {} => Max(s) \in s
    <3> HIDE DEF Moved, K
    <3> QED
      BY <1>4
  <2> QED
    BY <2>1 DEF Takes
<1>8. \A s \in SUBSET I : s \in Good
  <2>1. \A s \in SUBSET I : s # {} /\ s \ {pick[s]} \in Good => s \in Good
    <3> HIDE DEF Good, pick
    <3> QED
      BY <1>6
  <2>2. IsFiniteSet(I)
    BY <1>1
  <2> HIDE DEF Good, pick, K, Moved, StepP, StepQ
  <2> QED
    BY <1>5, <1>7, <2>1, <2>2, TakingInduction
<1>9. iterQ[K] = iterP[I]
  <2>1. I \in SUBSET I
    OBVIOUS
  <2>2. I \in Good
    <3> HIDE DEF Good
    <3> QED
      BY <1>8, <2>1
  <2> QED
    BY <2>2
<1>10. SurvivorOf(q, K) = SurvivorOf(p, I)
  <2> HIDE DEF K
  <2> QED
    BY <1>2, <1>3, <1>9
<1> QED
  BY <1>10

\* A group of a payload lies in one of its parts, when these compete for nothing.
LEMMA GroupInItsPart ==
    ASSUME NEW seqs, NEW p \in Seq(Facts), NEW off \in [DOMAIN seqs -> Nat],
           Places(off, seqs, p),
           \A k \in DOMAIN seqs : seqs[k] \in Seq(Facts),
           \A k, l \in DOMAIN seqs : k # l => Apart(seqs[k], seqs[l])
    PROVE  \A k \in DOMAIN seqs : \A j \in DOMAIN seqs[k] : Canonical(seqs[k][j]) =>
             GroupOf(p, off[k] + j) = Shift(GroupOf(seqs[k], j), off[k])
<1> SUFFICES ASSUME NEW k \in DOMAIN seqs, NEW j \in DOMAIN seqs[k], Canonical(seqs[k][j])
             PROVE  GroupOf(p, off[k] + j) = Shift(GroupOf(seqs[k], j), off[k])
  OBVIOUS
<1> DEFINE key(f) == <<f.concept, PeriodKey(f)>>
           d == off[k]
<1>1. p[d + j] = seqs[k][j] /\ d \in Nat /\ DOMAIN seqs[k] \subseteq Int
  <2>1. DOMAIN seqs[k] = 1..Len(seqs[k])
    OBVIOUS
  <2> QED
    BY <2>1 DEF Places
<1>2. ASSUME NEW n \in GroupOf(p, d + j)
      PROVE  \E i \in GroupOf(seqs[k], j) : n = i + d
  <2>1. n \in DOMAIN p /\ Canonical(p[n]) /\ key(p[n]) = key(p[d + j])
    BY <1>2 DEF GroupOf
  <2>2. PICK l \in DOMAIN seqs : \E i \in DOMAIN seqs[l] : n = off[l] + i
    BY <2>1 DEF Places
  <2>8. PICK i \in DOMAIN seqs[l] : n = off[l] + i
    BY <2>2
  <2>3. p[n] = seqs[l][i]
    BY <2>8 DEF Places
  <2>4. l = k
    <3> SUFFICES ASSUME l # k PROVE FALSE
      OBVIOUS
    <3>1. Apart(seqs[l], seqs[k])
      OBVIOUS
    <3>2. key(seqs[l][i]) # key(seqs[k][j])
      BY <2>1, <2>3, <3>1 DEF Apart
    <3> HIDE DEF key
    <3> QED
      BY <1>1, <2>1, <2>3, <3>2
  <2>5. i \in GroupOf(seqs[k], j)
    <3>1. i \in DOMAIN seqs[k] /\ Canonical(seqs[k][i]) /\ key(seqs[k][i]) = key(seqs[k][j])
      <4> HIDE DEF key
      <4> QED
        BY <1>1, <2>1, <2>3, <2>4
    <3> QED
      BY <3>1 DEF GroupOf
  <2>6. i \in Int /\ n = d + i
    BY <1>1, <2>4, <2>8
  <2>7. n = i + d
    BY <1>1, <2>6
  <2> QED
    BY <2>5, <2>7
<1>3. ASSUME NEW i \in GroupOf(seqs[k], j)
      PROVE  i + d \in GroupOf(p, d + j)
  <2>1. i \in DOMAIN seqs[k] /\ Canonical(seqs[k][i]) /\ key(seqs[k][i]) = key(seqs[k][j])
    BY <1>3 DEF GroupOf
  <2>2. d + i \in DOMAIN p /\ p[d + i] = seqs[k][i]
    BY <2>1 DEF Places
  <2>3. d + i = i + d
    BY <1>1, <2>1
  <2>4. i + d \in DOMAIN p /\ Canonical(p[i + d]) /\ key(p[i + d]) = key(p[d + j])
    <3> HIDE DEF key, d
    <3> QED
      BY <1>1, <2>1, <2>2, <2>3
  <2> QED
    BY <2>4 DEF GroupOf
<1> QED
  BY <1>2, <1>3 DEF Shift

\* One fact for each period of each part, whatever the other parts are.
LEMMA DedupeOfParts ==
    ASSUME NEW seqs, NEW p \in Seq(Facts), NEW off \in [DOMAIN seqs -> Nat],
           Places(off, seqs, p),
           \A k \in DOMAIN seqs : seqs[k] \in Seq(Facts),
           \A k, l \in DOMAIN seqs : k # l => Apart(seqs[k], seqs[l])
    PROVE  DedupeCanonical(p) = UNION {DedupeCanonical(seqs[k]) : k \in DOMAIN seqs}
<1>5. \A k \in DOMAIN seqs : \A j \in DOMAIN seqs[k] : Canonical(seqs[k][j]) =>
        GroupOf(p, off[k] + j) = Shift(GroupOf(seqs[k], j), off[k])
  BY GroupInItsPart
<1>1. ASSUME NEW k \in DOMAIN seqs, NEW j \in DOMAIN seqs[k], Canonical(seqs[k][j])
      PROVE  /\ off[k] + j \in DOMAIN p /\ p[off[k] + j] = seqs[k][j]
             /\ SurvivorOf(p, GroupOf(p, off[k] + j)) = SurvivorOf(seqs[k], GroupOf(seqs[k], j))
  <2>6. GroupOf(p, off[k] + j) = Shift(GroupOf(seqs[k], j), off[k])
    BY <1>1, <1>5
  <2> DEFINE d == off[k]  I == GroupOf(seqs[k], j)
  <2>1. d + j \in DOMAIN p /\ p[d + j] = seqs[k][j]
    BY DEF Places
  <2>2. GroupOf(p, d + j) = {i + d : i \in I}
    BY <2>6 DEF Shift
  <2>3. I \in SUBSET DOMAIN seqs[k] /\ j \in I /\ d \in Int /\ seqs[k] \in Seq(Facts)
    BY <1>1 DEF GroupOf
  <2>4. \A i \in I : i + d \in DOMAIN p /\ p[i + d] = seqs[k][i]
    <3> SUFFICES ASSUME NEW i \in I PROVE i + d \in DOMAIN p /\ p[i + d] = seqs[k][i]
      OBVIOUS
    <3>1. i \in DOMAIN seqs[k] /\ i \in Int
      BY <2>3
    <3>2. i + d = d + i
      BY <2>3, <3>1
    <3>3. d + i \in DOMAIN p /\ p[d + i] = seqs[k][i]
      BY <3>1 DEF Places
    <3> DEFINE m == d + i
    <3>4. m \in DOMAIN p /\ p[m] = seqs[k][i] /\ i + d = m
      BY <3>2, <3>3
    <3> HIDE DEF d, I, m
    <3> QED
      BY <3>4
  <2> HIDE DEF d, I
  <2>5. SurvivorOf(p, {i + d : i \in I}) = SurvivorOf(seqs[k], I)
    BY <2>3, <2>4, SurvivorShifts
  <2> QED
    BY <2>1, <2>2, <2>5 DEF d, I
<1>2. ASSUME NEW n \in DOMAIN p, Canonical(p[n])
      PROVE  \E k \in DOMAIN seqs : SurvivorOf(p, GroupOf(p, n)) \in DedupeCanonical(seqs[k])
  <2>1. PICK k \in DOMAIN seqs : \E j \in DOMAIN seqs[k] : n = off[k] + j
    BY DEF Places
  <2>4. PICK j \in DOMAIN seqs[k] : n = off[k] + j
    BY <2>1
  <2>2. p[n] = seqs[k][j]
    BY <2>4 DEF Places
  <2>3. SurvivorOf(p, GroupOf(p, n)) = SurvivorOf(seqs[k], GroupOf(seqs[k], j))
    BY <1>1, <1>2, <2>2, <2>4
  <2> QED
    BY <1>2, <2>2, <2>3, DedupeByGroups
<1>3. ASSUME NEW k \in DOMAIN seqs, NEW f \in DedupeCanonical(seqs[k])
      PROVE  f \in DedupeCanonical(p)
  <2>1. PICK j \in DOMAIN seqs[k] : Canonical(seqs[k][j]) /\ f = SurvivorOf(seqs[k], GroupOf(seqs[k], j))
    BY DedupeByGroups
  <2> DEFINE n == off[k] + j
  <2>2. n \in DOMAIN p /\ Canonical(p[n]) /\ SurvivorOf(p, GroupOf(p, n)) = f
    BY <1>1, <2>1
  <2> HIDE DEF n
  <2> QED
    BY <2>2, DedupeByGroups
<1>4. \A f \in DedupeCanonical(p) : \E k \in DOMAIN seqs : f \in DedupeCanonical(seqs[k])
  BY <1>2, DedupeByGroups
<1> QED
  BY <1>3, <1>4

-----------------------------------------------------------------------------
(* What arrives adds rows and changes none.                                *)

\* Of the arrivals of one company, what each says is one part of its payload.
LEMMA DedupeOfPayload ==
    ASSUME NothingIsRefiled, company \in DOMAIN Histories, NEW A \in SUBSET DOMAIN Arrivals,
           \A x \in A : Arrivals[x].company = company
    PROVE  DedupeCanonical(PayloadOf(A)) = UNION {DedupeCanonical(FactsOf(k)) : k \in PartsOf(A)}
<1> DEFINE seqs == [k \in PartsOf(A) |-> FactsOf(k)]
           p == PayloadOf(A)
<1>1. p \in Seq(Facts) /\ \E off \in [PartsOf(A) -> Nat] : Places(off, seqs, p)
  BY PayloadHasPlaces
<1>2. DOMAIN seqs = PartsOf(A) /\ \A k \in PartsOf(A) : seqs[k] = FactsOf(k)
  OBVIOUS
<1>3. \A k \in PartsOf(A) : k = <<>> \/ \E x \in A : k = <<x>>
  BY DEF PartsOf
<1>4. FactsOf(<<>>) = Histories[company] /\ \A x \in A : FactsOf(<<x>>) = Arrivals[x].facts
  <2>1. \A x : <<x>> # <<>>
    OBVIOUS
  <2> QED
    BY <2>1 DEF FactsOf
<1>5. \A k \in PartsOf(A) : FactsOf(k) \in Seq(Facts)
  BY <1>3, <1>4, PayloadsAreFacts
<1>6. \A x \in A : /\ Apart(Histories[company], Arrivals[x].facts)
                   /\ \A y \in A : x # y => Apart(Arrivals[x].facts, Arrivals[y].facts)
  BY DEF NothingIsRefiled
<1>7. \A s, t : Apart(s, t) => Apart(t, s)
  BY DEF Apart
<1>8. ASSUME NEW k \in PartsOf(A), NEW l \in PartsOf(A), k # l
      PROVE  Apart(FactsOf(k), FactsOf(l))
  <2>1. CASE k = <<>> /\ \E y \in A : l = <<y>>
    BY <1>4, <1>6, <2>1
  <2>2. CASE l = <<>> /\ \E x \in A : k = <<x>>
    BY <1>4, <1>6, <1>7, <2>2
  <2>3. CASE (\E x \in A : k = <<x>>) /\ (\E y \in A : l = <<y>>)
    <3>1. PICK x \in A, y \in A : k = <<x>> /\ l = <<y>>
      BY <2>3
    <3>2. x # y
      BY <1>8, <3>1
    <3> QED
      BY <1>4, <1>6, <3>1, <3>2
  <2> QED
    BY <1>3, <1>8, <2>1, <2>2, <2>3
<1> HIDE DEF seqs, p
<1>9. PICK off \in [DOMAIN seqs -> Nat] : Places(off, seqs, p)
  BY <1>1, <1>2
<1>10. /\ \A k \in DOMAIN seqs : seqs[k] \in Seq(Facts)
       /\ \A k, l \in DOMAIN seqs : k # l => Apart(seqs[k], seqs[l])
  BY <1>2, <1>5, <1>8
<1>11. DedupeCanonical(p) = UNION {DedupeCanonical(seqs[k]) : k \in DOMAIN seqs}
  BY <1>1, <1>9, <1>10, DedupeOfParts
<1> QED
  BY <1>2, <1>11 DEF p

LEMMA DerivedGrow ==
    ASSUME NEW R, NEW S, R \subseteq S
    PROVE  ComputeDerived(R) \subseteq ComputeDerived(S)
<1> DEFINE of(rows, concept) == {r \in rows : r.concept = concept}
           debt(rows) == Derive("total_debt", of(rows, "long_term_debt"), of(rows, "short_term_debt"),
                                LAMBDA long, short : long + short)
           net(rows) == Derive("net_debt", of(rows, "cash_and_equivalents"), debt(rows),
                               LAMBDA cash, owed : owed - cash)
           ebitda(rows) == Derive("ebitda", of(rows, "operating_income"),
                                  of(rows, "depreciation_amortization"),
                                  LAMBDA income, charge : income + charge)
           flow(rows) == Derive("free_cash_flow", of(rows, "operating_cash_flow"), of(rows, "capex"),
                                LAMBDA in, paid : in - paid)
<1>1. \A c : of(R, c) \subseteq of(S, c)
  OBVIOUS
<1> HIDE DEF of
<1>2. debt(R) \subseteq debt(S)
  BY <1>1 DEF Derive
<1>3. ebitda(R) \subseteq ebitda(S)
  BY <1>1 DEF Derive
<1>4. flow(R) \subseteq flow(S)
  BY <1>1 DEF Derive
<1>5. net(R) \subseteq net(S)
  <2> HIDE DEF debt
  <2> QED
    BY <1>1, <1>2 DEF Derive
<1>6. \A rows : ComputeDerived(rows) = debt(rows) \cup net(rows) \cup ebitda(rows) \cup flow(rows)
  BY DEF ComputeDerived, of
<1> HIDE DEF debt, net, ebitda, flow
<1> QED
  BY <1>2, <1>3, <1>4, <1>5, <1>6

LEMMA RowsGrow ==
    ASSUME NothingIsRefiled, company \in DOMAIN Histories, NEW B \in SUBSET DOMAIN Arrivals,
           \A x \in B : Arrivals[x].company = company, NEW A \in SUBSET B
    PROVE  \A c \in Concepts : RowsOf(A)[c] \subseteq RowsOf(B)[c]
<1> DEFINE D(S) == DedupeCanonical(PayloadOf(S))
           rows(S) == Canonicalize(PayloadOf(S))
<1>1. D(A) = UNION {DedupeCanonical(FactsOf(k)) : k \in PartsOf(A)}
  BY DedupeOfPayload
<1>2. D(B) = UNION {DedupeCanonical(FactsOf(k)) : k \in PartsOf(B)}
  BY DedupeOfPayload
<1>3. PartsOf(A) \subseteq PartsOf(B)
  BY DEF PartsOf
<1>4. D(A) \subseteq D(B)
  <2> HIDE DEF D
  <2> QED
    BY <1>1, <1>2, <1>3
<1>5. rows(A) = D(A) \cup ComputeDerived(D(A)) /\ rows(B) = D(B) \cup ComputeDerived(D(B))
  BY DEF Canonicalize
<1> HIDE DEF D, rows
<1>6. rows(A) \subseteq rows(B)
  BY <1>4, <1>5, DerivedGrow
<1>7. \A c : BuildFundamentals(rows(A), c) \subseteq BuildFundamentals(rows(B), c)
  BY <1>6 DEF BuildFundamentals
<1>8. \A c \in Concepts : /\ RowsOf(A)[c] = BuildFundamentals(rows(A), c)
                          /\ RowsOf(B)[c] = BuildFundamentals(rows(B), c)
  BY DEF RowsOf, rows, PayloadOf
<1> QED
  BY <1>7, <1>8

\* The rows are those of what has arrived, all of it of one company.
RowsInv ==
    /\ company \in DOMAIN Histories
    /\ arrived \in SUBSET DOMAIN Arrivals
    /\ \A x \in arrived : Arrivals[x].company = company
    /\ fundamentals = RowsOf(arrived)

LEMMA InitRows == Init => RowsInv
BY DEF Init, RowsInv

LEMMA NextRows ==
    ASSUME RowsInv, [Next]_vars
    PROVE  /\ RowsInv'
           /\ fundamentals' = RowsOf(arrived') /\ arrived \subseteq arrived'
<1>1. /\ company' = company /\ arrived \subseteq arrived'
      /\ \A x \in arrived' \ arrived : x \in DOMAIN Arrivals /\ Arrivals[x].company = company
      /\ fundamentals' = RowsOf(arrived')
  <2>1. CASE NextBar
    BY <2>1 DEF NextBar, ArrivesBy, RowsInv
  <2>2. ASSUME NEW x \in DOMAIN Arrivals, Arrive(x)
        PROVE  /\ company' = company /\ arrived \subseteq arrived'
               /\ \A y \in arrived' \ arrived : y \in DOMAIN Arrivals /\ Arrivals[y].company = company
               /\ fundamentals' = RowsOf(arrived')
    BY <2>2 DEF Arrive, ArrivesBy, RowsInv
  <2>3. CASE UNCHANGED world
    BY <2>3 DEF world, RowsInv
  <2> QED
    BY <2>1, <2>2, <2>3 DEF Next, vars, GrowthWacc, Valuation, Metrics, Scores
<1>2. RowsOf(arrived)' = RowsOf(arrived')
  BY <1>1 DEF RowsOf
<1> QED
  BY <1>1, <1>2 DEF RowsInv

LEMMA FundamentalsGrow ==
    ASSUME NothingIsRefiled, RowsInv, [Next]_vars
    PROVE  \A c \in Concepts : fundamentals[c] \subseteq fundamentals'[c]
<1>1. /\ RowsInv' /\ fundamentals' = RowsOf(arrived') /\ arrived \subseteq arrived'
      /\ company' = company
  <2>1. company' = company
    BY DEF Next, vars, world, GrowthWacc, Valuation, Metrics, Scores, NextBar, Arrive
  <2> QED
    BY <2>1, NextRows
<1>2. /\ company \in DOMAIN Histories /\ arrived' \in SUBSET DOMAIN Arrivals
      /\ \A x \in arrived' : Arrivals[x].company = company
      /\ fundamentals = RowsOf(arrived)
  BY <1>1 DEF RowsInv
<1> QED
  BY <1>1, <1>2, RowsGrow

\* Where no 10-K of a company is of the fiscal year of another one, its table
\* of fundamentals only grows: every row that a run of the engines has read is
\* there, with its value and its filing date, for every later one.
THEOREM Keeping ==
    ASSUME NothingIsRefiled
    PROVE  Spec => [][\A c \in Concepts : fundamentals[c] \subseteq fundamentals'[c]]_vars
<1>1. RowsInv /\ [Next]_vars => RowsInv'
  BY NextRows
<1>2. RowsInv /\ [Next]_vars => [\A c \in Concepts : fundamentals[c] \subseteq fundamentals'[c]]_vars
  BY FundamentalsGrow
<1> QED
  BY InitRows, <1>1, <1>2, PTL DEF Spec

-----------------------------------------------------------------------------
(* What a quality of high confidence rests on.                             *)

LEMMA ReportedIsFinite ==
    ASSUME NEW t, RowTable(t), NEW c \in Concepts, NEW asOf
    PROVE  IsFiniteSet(ReportedIn(t, c, asOf)) /\ ReportedIn(t, c, asOf) \subseteq Int
<1> DEFINE F == {g \in t[c] : Annual(g) /\ Observable(g, asOf)}
           ends == [f \in F |-> f.end]
<1>1. RowSet(F)
  BY FS_Subset DEF RowTable, RowSet
<1>2. DOMAIN ends = F /\ ReportedIn(t, c, asOf) = {ends[f] : f \in F}
  BY DEF ReportedIn
<1>3. \A f \in F : ends[f] \in Int
  BY <1>1 DEF RowSet, FactRows
<1>4. IsFiniteSet({ends[f] : f \in F})
  <2> HIDE DEF F, ends
  <2> QED
    BY <1>1, <1>2, ImageIsFinite DEF RowSet
<1> HIDE DEF F, ends
<1> QED
  BY <1>2, <1>3, <1>4

\* More rows and a later date report more.
LEMMA ReportedGrows ==
    ASSUME NEW t, RowTable(t), NEW u, RowTable(u), NEW c \in Concepts, t[c] \subseteq u[c],
           NEW asOf \in Int, NEW later \in Int, asOf <= later
    PROVE  /\ ReportedIn(t, c, asOf) \subseteq ReportedIn(u, c, later)
           /\ Cardinality(ReportedIn(t, c, asOf)) <= Cardinality(ReportedIn(u, c, later))
           /\ Cardinality(ReportedIn(t, c, asOf)) \in Nat
           /\ Cardinality(ReportedIn(u, c, later)) \in Nat
<1>1. \A f \in t[c] : Observable(f, asOf) => Observable(f, later)
  <2>1. \A f \in t[c] : f.filed \in Int
    BY DEF RowTable, RowSet, FactRows
  <2> QED
    BY <2>1 DEF Observable
<1>2. ReportedIn(t, c, asOf) \subseteq ReportedIn(u, c, later)
  BY <1>1 DEF ReportedIn
<1>3. IsFiniteSet(ReportedIn(u, c, later)) /\ IsFiniteSet(ReportedIn(t, c, asOf))
  BY ReportedIsFinite
<1> QED
  BY <1>2, <1>3, FS_Subset, FS_CardinalityType

\* A tax rate is of one recent year that has its three facts.
LEMMA TaxIsOfOneYear ==
    ASSUME NEW s, \A c \in AlignedConcepts : s[c] \in Seq(Points), NEW asOf, NEW maxAge,
           AlignedTaxRate(AlignedFYFacts(s, asOf, maxAge)).rate # None
    PROVE  \E end :
             /\ asOf - end <= maxAge
             /\ \A c \in {"operating_income", "income_tax_expense", "pretax_income"} :
                  \E i \in DOMAIN s[c] : s[c][i].end = end
<1> DEFINE a == AlignedFYFacts(s, asOf, maxAge)
           anchor == Anchor(s)
           at(concept) == IF anchor = None THEN None ELSE ValueAt(s[concept], anchor)
           fresh == anchor # None /\ asOf - anchor <= maxAge
<1>1. a.taxReason = ""
  <2> HIDE DEF a
  <2>1. AlignedTaxRate(a).rate # None
    BY DEF a
  <2>2. a.taxReason # "" => AlignedTaxRate(a).rate = None
    BY DEF AlignedTaxRate
  <2> QED
    BY <2>1, <2>2
<1>2. fresh /\ at("income_tax_expense") # None /\ at("pretax_income") # None
  <2>1. a.taxReason = CASE anchor = None                -> "no_anchor"
                        [] anchor # None /\ ~fresh      -> "tax_rate_stale"
                        [] fresh /\ (at("income_tax_expense") = None \/ at("pretax_income") = None) ->
                              "tax_rate_unavailable"
                        [] OTHER                        -> ""
    BY DEF AlignedFYFacts
  <2> HIDE DEF a, at, anchor
  <2>2. CASE anchor = None
    BY <1>1, <2>1, <2>2
  <2>3. CASE anchor # None /\ ~fresh
    BY <1>1, <2>1, <2>3
  <2>4. CASE fresh /\ (at("income_tax_expense") = None \/ at("pretax_income") = None)
    BY <1>1, <2>1, <2>4
  <2>5. CASE fresh /\ ~(at("income_tax_expense") = None \/ at("pretax_income") = None)
    BY <2>5
  <2> QED
    BY <2>2, <2>3, <2>4, <2>5
<1>3. \A series : ValueAt(series, anchor) # None => \E i \in DOMAIN series : series[i].end = anchor
  BY DEF ValueAt
<1>4. \E i \in DOMAIN s["operating_income"] : s["operating_income"][i].end = anchor
  <2> DEFINE t == s["operating_income"]
  <2>1. s["operating_income"] \in Seq(Points) /\ s.operating_income = s["operating_income"]
    BY DEF AlignedConcepts
  <2>2. t # <<>> /\ anchor = Last(t).end
    BY <1>2, <2>1 DEF Anchor
  <2> HIDE DEF t, anchor
  <2>3. t \in Seq(Points)
    BY <2>1 DEF t
  <2>4. Len(t) \in DOMAIN t /\ Last(t) = t[Len(t)]
    BY <2>2, <2>3 DEF Last
  <2> QED
    BY <2>2, <2>4 DEF t
<1>5. /\ ValueAt(s["income_tax_expense"], anchor) # None
      /\ ValueAt(s["pretax_income"], anchor) # None
  BY <1>2
<1> HIDE DEF anchor
<1>6. asOf - anchor <= maxAge
  BY <1>2
<1>7. \A c \in {"operating_income", "income_tax_expense", "pretax_income"} :
         \E i \in DOMAIN s[c] : s[c][i].end = anchor
  BY <1>3, <1>4, <1>5
<1> QED
  BY <1>6, <1>7

LEMMA ImageIsNoLarger ==
    ASSUME NEW f, IsFiniteSet(DOMAIN f)
    PROVE  Cardinality({f[x] : x \in DOMAIN f}) <= Cardinality(DOMAIN f)
<1> DEFINE T == {f[x] : x \in DOMAIN f}
           D == DOMAIN f
           g == [x \in D |-> f[x]]
<1>1. g \in [D -> T] /\ \A t \in T : \E x \in D : g[x] = t
  OBVIOUS
<1> HIDE DEF T, g, D
<1>2. g \in Surjection(D, T)
  BY <1>1 DEF Surjection
<1>3. IsFiniteSet(D)
  BY DEF D
<1>4. Cardinality(T) <= Cardinality(D)
  BY <1>2, <1>3, FS_Surjection
<1> QED
  BY <1>4 DEF T, D

LEMMA SeventeenMetrics ==
    IsFiniteSet(ApplicableMetrics) /\ Cardinality(ApplicableMetrics) <= 17
    /\ Cardinality(ApplicableMetrics) \in Nat
<1> DEFINE c == <<"roic", "roe", "fcf_cagr_3y", "fcf_cagr_5y", "eps_cagr_3y", "eps_cagr_5y",
                  "revenue_cagr_3y", "operating_margin", "fcf_margin", "fcf_yield",
                  "positive_eps_years", "positive_fcf_years", "eps_volatility",
                  "fcf_volatility", "net_debt_to_ebitda", "fcf_to_debt", "interest_coverage">>
<1>1. 1 \in Int /\ 17 \in Int
  OBVIOUS
<1>2. IsFiniteSet(1..17) /\ Cardinality(1..17) = 17
  <2>1. IsFiniteSet(1..17) /\ Cardinality(1..17) = IF 1 > 17 THEN 0 ELSE 17 - 1 + 1
    BY <1>1, FS_Interval, ZenonT(20)
  <2>2. (IF 1 > 17 THEN 0 ELSE 17 - 1 + 1) = 17
    OBVIOUS
  <2> QED
    BY <2>1, <2>2
<1>3. DOMAIN c = 1..17 /\ QualityMetrics = {c[i] : i \in 1..17}
  BY DEF QualityMetrics
<1> HIDE DEF c
<1>4. Cardinality(QualityMetrics) <= 17
  BY <1>2, <1>3, ImageIsNoLarger
<1>5. ApplicableMetrics \subseteq QualityMetrics /\ IsFiniteSet(QualityMetrics)
  BY BlocksAreFinite
<1>6. /\ IsFiniteSet(ApplicableMetrics) /\ Cardinality(ApplicableMetrics) <= Cardinality(QualityMetrics)
      /\ Cardinality(ApplicableMetrics) \in Nat /\ Cardinality(QualityMetrics) \in Nat
  BY <1>5, FS_Subset, FS_CardinalityType
<1> QED
  BY <1>4, <1>6

\* Three missing metrics are too many.
LEMMA HighNeedsMost ==
    ASSUME NEW covered, covered \subseteq ApplicableMetrics, NEW derived,
           QualityConfidence(Cardinality(covered), Cardinality(Applicable(covered)), derived,
                             DefaultQualityConfig) = "high"
    PROVE  /\ derived
           /\ \A m1, m2, m3 \in ApplicableMetrics \ covered : m1 = m2 \/ m1 = m3 \/ m2 = m3
<1> DEFINE n == Cardinality(ApplicableMetrics)
           k == Cardinality(covered)
           cfg == DefaultQualityConfig
<1>1. cfg.high = 85 /\ cfg.tax = 210
  BY DEF DefaultQualityConfig
<1>2. 100 * k >= cfg.high * n /\ (derived \/ cfg.tax \notin 1..500)
  <2>1. QualityConfidence(k, n, derived, cfg) = "high"
    BY DEF Applicable
  <2> HIDE DEF k, n, cfg
  <2> QED
    BY <2>1 DEF QualityConfidence
<1>3. 100 * k >= 85 * n /\ derived
  BY <1>1, <1>2
<1>4. \A m1, m2, m3 \in ApplicableMetrics \ covered : m1 = m2 \/ m1 = m3 \/ m2 = m3
  <2> SUFFICES ASSUME NEW m1 \in ApplicableMetrics \ covered, NEW m2 \in ApplicableMetrics \ covered,
                      NEW m3 \in ApplicableMetrics \ covered, m1 # m2, m1 # m3, m2 # m3
               PROVE  FALSE
    OBVIOUS
  <2>1. IsFiniteSet(covered) /\ k \in Nat /\ n \in Nat /\ n <= 17
    BY SeventeenMetrics, FS_Subset, FS_CardinalityType
  <2> DEFINE c1 == covered \cup {m1}  c2 == c1 \cup {m2}  c3 == c2 \cup {m3}
  <2>2. IsFiniteSet(c1) /\ Cardinality(c1) = k + 1
    BY <2>1, FS_AddElement
  <2>3. m2 \notin c1
    OBVIOUS
  <2>4. m3 \notin c2 /\ c3 \subseteq ApplicableMetrics
    OBVIOUS
  <2>5. IsFiniteSet(c2) /\ Cardinality(c2) = k + 1 + 1
    <3> HIDE DEF c1
    <3> QED
      BY <2>2, <2>3, FS_AddElement
  <2>6. IsFiniteSet(c3) /\ Cardinality(c3) = k + 1 + 1 + 1
    <3> HIDE DEF c2
    <3> QED
      BY <2>4, <2>5, FS_AddElement
  <2>7. k + 1 + 1 + 1 <= n
    <3> HIDE DEF c3
    <3> QED
      BY <2>4, <2>6, SeventeenMetrics, FS_Subset
  <2> HIDE DEF k, n
  <2> QED
    BY <1>3, <2>1, <2>7
<1> QED
  BY <1>3, <1>4

\* What a quality of high confidence was computed from.
LEMMA HighQualityNeeds ==
    ASSUME NEW in, CalculateQuality(in, DefaultQualityConfig).conf = "high"
    PROVE  /\ in.taxRate # None
           /\ Len(in.epsSeries) < 4 => in.growth.eps5 # None
           /\ Len(in.fcfSeries) < 4 => in.growth.fcf5 # None
           /\ \A b \in DOMAIN SubBlocks \ {"profitability"} :
                SubBlocks[b] \cap CalculateQuality(in, DefaultQualityConfig).covered # {}
<1> DEFINE cfg == DefaultQualityConfig
           derived == in.taxRate # None
           tax == IF derived /\ in.taxRate \in 0..500 THEN in.taxRate ELSE cfg.tax
           values == QualityValues(in, tax, cfg)
           covered == {m \in ApplicableMetrics : values[m] # None}
           valid == {b \in DOMAIN SubBlocks : SubBlocks[b] \cap covered # {}}
           weight == MapThenSumSet(LAMBDA b : cfg.w[b], valid)
           evidence == QualityConfidence(Cardinality(covered), Cardinality(Applicable(covered)),
                                         derived, cfg)
           q == CalculateQuality(in, cfg)
<1>1. q.conf = (IF weight = 0 THEN "low" ELSE evidence) /\ q.covered = covered
  BY DEF CalculateQuality
<1>2. cfg.minYears = 4
  BY DEF DefaultQualityConfig
<1>3. evidence = "high"
  <2>1. q.conf = "high"
    OBVIOUS
  <2> HIDE DEF q, evidence, weight
  <2> QED
    BY <1>1, <2>1
<1>4. covered \subseteq ApplicableMetrics
  OBVIOUS
<1>5. derived /\ \A m1, m2, m3 \in ApplicableMetrics \ covered : m1 = m2 \/ m1 = m3 \/ m2 = m3
  <2>1. QualityConfidence(Cardinality(covered), Cardinality(Applicable(covered)), derived,
                          DefaultQualityConfig) = "high"
    BY <1>3
  <2> HIDE DEF covered, derived
  <2> QED
    BY <1>4, <2>1, HighNeedsMost
<1>6. \A m \in ApplicableMetrics : values[m] = None => m \in ApplicableMetrics \ covered
  OBVIOUS
<1>7. /\ values["positive_eps_years"] = PositiveShare(in.epsSeries, cfg.minYears)
      /\ values["positive_fcf_years"] = PositiveShare(in.fcfSeries, cfg.minYears)
      /\ values["eps_volatility"] = QualityVolatility(in.epsSeries, cfg.minYears)
      /\ values["fcf_volatility"] = QualityVolatility(in.fcfSeries, cfg.minYears)
      /\ values["eps_cagr_5y"] = CagrMetric(in.growth.eps5, in.growth.conf)
      /\ values["fcf_cagr_5y"] = CagrMetric(in.growth.fcf5, in.growth.conf)
  BY DEF QualityValues
<1>8. {"positive_eps_years", "positive_fcf_years", "eps_volatility", "fcf_volatility",
       "eps_cagr_5y", "fcf_cagr_5y"} \subseteq ApplicableMetrics
  <2>1. /\ "growth" \in DOMAIN SubBlocks /\ "stability" \in DOMAIN SubBlocks
        /\ {"eps_cagr_5y", "fcf_cagr_5y"} \subseteq SubBlocks["growth"]
        /\ {"positive_eps_years", "positive_fcf_years", "eps_volatility", "fcf_volatility"}
             \subseteq SubBlocks["stability"]
    BY DEF SubBlocks
  <2> QED
    BY <2>1 DEF ApplicableMetrics
<1> HIDE DEF values, covered
<1>9. ASSUME Len(in.epsSeries) < 4 PROVE in.growth.eps5 # None
  <2>1. values["positive_eps_years"] = None /\ values["eps_volatility"] = None
    BY <1>2, <1>7, <1>9 DEF PositiveShare, QualityVolatility
  <2>2. values["eps_cagr_5y"] # None
    BY <1>5, <1>6, <1>8, <2>1
  <2> QED
    BY <1>7, <2>2 DEF CagrMetric
<1>10. ASSUME Len(in.fcfSeries) < 4 PROVE in.growth.fcf5 # None
  <2>1. values["positive_fcf_years"] = None /\ values["fcf_volatility"] = None
    BY <1>2, <1>7, <1>10 DEF PositiveShare, QualityVolatility
  <2>2. values["fcf_cagr_5y"] # None
    BY <1>5, <1>6, <1>8, <2>1
  <2> QED
    BY <1>7, <2>2 DEF CagrMetric
<1>11. ASSUME NEW b \in DOMAIN SubBlocks \ {"profitability"}
       PROVE  SubBlocks[b] \cap covered # {}
  <2>1. \E m1, m2, m3 \in SubBlocks[b] : m1 # m2 /\ m1 # m3 /\ m2 # m3
    <3>1. CASE b = "growth"
      <4>1. /\ "fcf_cagr_3y" \in SubBlocks[b] /\ "fcf_cagr_5y" \in SubBlocks[b]
            /\ "eps_cagr_3y" \in SubBlocks[b]
        BY <3>1 DEF SubBlocks
      <4> QED
        BY <4>1
    <3>2. CASE b = "margins"
      <4>1. /\ "operating_margin" \in SubBlocks[b] /\ "fcf_margin" \in SubBlocks[b]
            /\ "fcf_yield" \in SubBlocks[b]
        BY <3>2 DEF SubBlocks
      <4> QED
        BY <4>1
    <3>3. CASE b = "stability"
      <4>1. /\ "positive_eps_years" \in SubBlocks[b] /\ "positive_fcf_years" \in SubBlocks[b]
            /\ "eps_volatility" \in SubBlocks[b]
        BY <3>3 DEF SubBlocks
      <4> QED
        BY <4>1
    <3>4. CASE b = "debt_solvency"
      <4>1. /\ "net_debt_to_ebitda" \in SubBlocks[b] /\ "fcf_to_debt" \in SubBlocks[b]
            /\ "interest_coverage" \in SubBlocks[b]
        BY <3>4 DEF SubBlocks
      <4> QED
        BY <4>1
    <3> QED
      BY <3>1, <3>2, <3>3, <3>4, BlocksAreFinite DEF Blocks
  <2>2. SubBlocks[b] \subseteq ApplicableMetrics
    BY DEF ApplicableMetrics
  <2> QED
    BY <1>5, <2>1, <2>2
<1> HIDE DEF q, derived
<1>12. q.covered = covered
  BY <1>1
<1>13. in.taxRate # None
  BY <1>5 DEF derived
<1>14. \A b \in DOMAIN SubBlocks \ {"profitability"} : SubBlocks[b] \cap q.covered # {}
  BY <1>11, <1>12
<1> QED
  BY <1>9, <1>10, <1>13, <1>14 DEF q

LEMMA BlendKeepsFive ==
    ASSUME NEW res, DOMAIN res = {"eps3", "eps5", "fcf3", "fcf5", "rev3", "rev5", "source", "conf",
                                  "rate", "clamped", "discrepancy"},
           NEW blend, NEW revenue, NEW cfg
    PROVE  /\ ApplyBlend(res, blend, revenue, cfg).eps5 = res.eps5
           /\ ApplyBlend(res, blend, revenue, cfg).fcf5 = res.fcf5
<1> DEFINE rate == IF blend < cfg.min THEN cfg.min ELSE IF blend > cfg.max THEN cfg.max ELSE blend
           clamped == rate # blend
           discrepancy == revenue # None /\ Distance(revenue, rate) > cfg.discrepancy
           conf == IF clamped \/ discrepancy THEN Degrade(res.conf) ELSE res.conf
           blended == ApplyBlend(res, blend, revenue, cfg)
<1>1. blended = [res EXCEPT !.rate = rate, !.clamped = clamped, !.discrepancy = discrepancy,
                            !.conf = conf]
  BY DEF ApplyBlend
<1> HIDE DEF rate, clamped, discrepancy, conf, blended
<1>2. blended.eps5 = res.eps5 /\ blended.fcf5 = res.fcf5
  BY <1>1
<1> QED
  BY <1>2 DEF blended

\* A rate over five years takes six points.
LEMMA FiveYearsTakeSix ==
    ASSUME NEW in, in.eps \in Seq(Points), in.fcf \in Seq(Points)
    PROVE  LET g == CalculateGrowth(in, DefaultGrowthConfig)
           IN  /\ g.eps5 # None => Len(in.eps) >= 6
               /\ g.fcf5 # None => Len(in.fcf) >= 6
<1> DEFINE cfg == DefaultGrowthConfig
           eps3 == Pick(in.eps, cfg.primary)
           eps5 == Pick(in.eps, cfg.fallback)
           fcf3 == Pick(in.fcf, cfg.primary)
           fcf5 == Pick(in.fcf, cfg.fallback)
           rev3 == Pick(in.revenue, cfg.primary)
           rev5 == Pick(in.revenue, cfg.fallback)
           evidence == Evidence(eps3, fcf3, eps5, fcf5, rev3, rev5)
           res == [eps3 |-> eps3, eps5 |-> eps5, fcf3 |-> fcf3, fcf5 |-> fcf5, rev3 |-> rev3,
                   rev5 |-> rev5, source |-> evidence[1], conf |-> evidence[2],
                   rate |-> None, clamped |-> FALSE, discrepancy |-> FALSE]
           g == CalculateGrowth(in, cfg)
<1>1. cfg.fallback = 5
  BY DEF DefaultGrowthConfig
<1>2. /\ eps5 # None => Len(in.eps) >= 6
      /\ fcf5 # None => Len(in.fcf) >= 6
  <2>1. ASSUME NEW series \in Seq(Points), Pick(series, 5) # None PROVE Len(series) >= 6
    <3>1. ~(Len(series) < 5 + 1) /\ Len(series) \in Nat
      BY <2>1 DEF Pick
    <3> QED
      BY <3>1
  <2> HIDE DEF cfg
  <2> QED
    BY <1>1, <2>1
<1>3. g = CASE {eps3, fcf3} # {None} -> ApplyBlend(res, BlendOf(eps3, fcf3, cfg), rev3, cfg)
            [] {eps3, fcf3} = {None} /\ {eps5, fcf5} # {None} ->
                  ApplyBlend(res, BlendOf(eps5, fcf5, cfg), rev5, cfg)
            [] OTHER -> [res EXCEPT !.rate = IF rev3 # None THEN rev3 ELSE rev5]
  BY DEF CalculateGrowth
<1>4. /\ DOMAIN res = {"eps3", "eps5", "fcf3", "fcf5", "rev3", "rev5", "source", "conf",
                       "rate", "clamped", "discrepancy"}
      /\ res.eps5 = eps5 /\ res.fcf5 = fcf5
  OBVIOUS
<1> HIDE DEF res, eps3, eps5, fcf3, fcf5, rev3, rev5, evidence, g
<1>5. CASE {eps3, fcf3} # {None}
  <2>1. g = ApplyBlend(res, BlendOf(eps3, fcf3, cfg), rev3, cfg)
    BY <1>3, <1>5
  <2>2. g.eps5 = res.eps5 /\ g.fcf5 = res.fcf5
    BY <1>4, <2>1, BlendKeepsFive
  <2> QED
    BY <1>2, <1>4, <2>2 DEF g
<1>6. CASE {eps3, fcf3} = {None} /\ {eps5, fcf5} # {None}
  <2>1. g = ApplyBlend(res, BlendOf(eps5, fcf5, cfg), rev5, cfg)
    BY <1>3, <1>6
  <2>2. g.eps5 = res.eps5 /\ g.fcf5 = res.fcf5
    BY <1>4, <2>1, BlendKeepsFive
  <2> QED
    BY <1>2, <1>4, <2>2 DEF g
<1>7. CASE {eps3, fcf3} = {None} /\ {eps5, fcf5} = {None}
  <2>1. g = [res EXCEPT !.rate = IF rev3 # None THEN rev3 ELSE rev5]
    BY <1>3, <1>7
  <2>2. g.eps5 = res.eps5 /\ g.fcf5 = res.fcf5
    BY <1>4, <2>1
  <2> QED
    BY <1>2, <1>4, <2>2 DEF g
<1> QED
  BY <1>5, <1>6, <1>7

\* The tax rate behind a quality of high confidence, over the table of the moment.
LEMMA QualityOfADateIsTaxed ==
    ASSUME RowTable(fundamentals), NEW asOf, NEW price, Quality(asOf, price).conf = "high"
    PROVE  /\ \E end \in ReportedIn(fundamentals, "operating_income", asOf)
                           \cap ReportedIn(fundamentals, "income_tax_expense", asOf)
                           \cap ReportedIn(fundamentals, "pretax_income", asOf) : asOf - end <= FYMaxAge
           /\ \A b \in DOMAIN SubBlocks \ {"profitability"} :
                SubBlocks[b] \cap Quality(asOf, price).covered # {}
<1> DEFINE g == ResultOf(AsOf(growths, asOf))
           s == [c \in AlignedConcepts |-> Series(fundamentals, c, asOf)]
           aligned == AlignedFYFacts(s, asOf, FYMaxAge)
           in == [funds |-> Fundamentals(fundamentals, QualityConcepts, asOf),
                  growth |-> IF g = None THEN NoGrowth ELSE g,
                  epsSeries |-> Series(fundamentals, "eps_diluted", asOf),
                  fcfSeries |-> Series(fundamentals, "free_cash_flow", asOf),
                  price |-> price, aligned |-> aligned, taxRate |-> AlignedTaxRate(aligned).rate]
           q == CalculateQuality(in, DefaultQualityConfig)
<1>1. Quality(asOf, price) = q
  BY DEF Quality, Aligned
<1>2. in.taxRate = AlignedTaxRate(aligned).rate
  OBVIOUS
<1>3. /\ in.taxRate # None
      /\ \A b \in DOMAIN SubBlocks \ {"profitability"} : SubBlocks[b] \cap q.covered # {}
  <2>1. q.conf = "high"
    BY <1>1
  <2> HIDE DEF in
  <2> QED
    BY <2>1, HighQualityNeeds
<1>4. \A c \in AlignedConcepts :
         /\ s[c] \in Seq(Points)
         /\ \A i \in DOMAIN s[c] : s[c][i].end \in ReportedIn(fundamentals, c, asOf)
  <2>1. \A c \in AlignedConcepts : s[c] = Series(fundamentals, c, asOf) /\ c \in Concepts
    BY DEF Concepts
  <2> HIDE DEF s
  <2> QED
    BY <2>1, SeriesCounts
<1>5. AlignedTaxRate(aligned).rate # None
  BY <1>2, <1>3
<1> HIDE DEF s, in, q
<1>6. PICK end :
         /\ asOf - end <= FYMaxAge
         /\ \A c \in {"operating_income", "income_tax_expense", "pretax_income"} :
              \E i \in DOMAIN s[c] : s[c][i].end = end
  BY <1>4, <1>5, TaxIsOfOneYear
<1>7. \A c \in {"operating_income", "income_tax_expense", "pretax_income"} :
         end \in ReportedIn(fundamentals, c, asOf)
  BY <1>4, <1>6 DEF AlignedConcepts
<1> QED
  BY <1>1, <1>3, <1>6, <1>7

\* The year of an observed tax rate.
TaxYears(asOf) ==
    {end \in Reported("operating_income", asOf) \cap Reported("income_tax_expense", asOf)
               \cap Reported("pretax_income", asOf) : asOf - end <= FYMaxAge}

\* Whatever is filed again or written over: a run of the score that says high of
\* the quality has, at that moment, a year of at most six quarters ago with an
\* operating income, a tax and an income before it, and never the assumed rate
\* of 21 per cent (confidenceFor, alignedTaxRate).
THEOREM Measuring ==
    Spec => [][scores' # scores =>
                 \A s \in scores' : s.quality.conf = "high" => TaxYears(s.asOf) # {}]_vars
<1>1. ASSUME TablesInv, [Next]_vars
      PROVE  [scores' # scores =>
                \A s \in scores' : s.quality.conf = "high" => TaxYears(s.asOf) # {}]_vars
  <2> SUFFICES ASSUME Next, scores' # scores, NEW s \in scores', s.quality.conf = "high"
               PROVE  TaxYears(s.asOf) # {}
    BY <1>1
  <2>1. Scores
    BY DEF Next, GrowthWacc, Valuation, Metrics, NextBar, Arrive, Rows
  <2> DEFINE q == Quality(day, close)
             v == ResultOf(RowAt(valuations, day))
  <2>2. s.quality = q /\ s.asOf = day
    <3>1. PICK rows \in PeerTables : scores' = {ScoreRow(v, q, Relative(day, v, rows))}
      BY <2>1 DEF Scores
    <3> DEFINE r == Relative(day, v, rows)
    <3> HIDE DEF q, v, r
    <3>2. ScoreRow(v, q, r).quality = q /\ ScoreRow(v, q, r).asOf = day
      BY DEF ScoreRow
    <3> QED
      BY <3>1, <3>2 DEF r
  <2>3. q.conf = "high" /\ RowTable(fundamentals)
    <3> HIDE DEF q
    <3> QED
      BY <1>1, <2>2 DEF TablesInv
  <2>4. \E end \in ReportedIn(fundamentals, "operating_income", day)
                     \cap ReportedIn(fundamentals, "income_tax_expense", day)
                     \cap ReportedIn(fundamentals, "pretax_income", day) : day - end <= FYMaxAge
    BY <2>3, QualityOfADateIsTaxed
  <2>5. \A c : Reported(c, day) = ReportedIn(fundamentals, c, day)
    BY DEF Reported, ReportedIn
  <2> HIDE DEF q
  <2> QED
    BY <2>2, <2>4, <2>5 DEF TaxYears
<1>2. TablesInv /\ [Next]_vars => TablesInv'
  BY NextTables
<1> QED
  BY <1>1, <1>2, InitTables, PTL DEF Spec

\* What a row of growth rests on, over a table of fundamentals.
GrowthRests(g, t) ==
    /\ g.res.eps5 # None => \/ Cardinality(ReportedIn(t, "eps_diluted", g.asOf)) >= 6
                            \/ Cardinality(ReportedIn(t, "eps_basic", g.asOf)) >= 6
    /\ g.res.fcf5 # None => Cardinality(ReportedIn(t, "free_cash_flow", g.asOf)) >= 6

\* And a quality of high confidence.
QualityRests(q, asOf, t) ==
    q.conf = "high" =>
        /\ \E end \in ReportedIn(t, "operating_income", asOf)
                        \cap ReportedIn(t, "income_tax_expense", asOf)
                        \cap ReportedIn(t, "pretax_income", asOf) : asOf - end <= FYMaxAge
        /\ Cardinality(ReportedIn(t, "free_cash_flow", asOf)) >= 4
        /\ \/ Cardinality(ReportedIn(t, "eps_diluted", asOf)) >= 4
           \/ Cardinality(ReportedIn(t, "eps_basic", asOf)) >= 6
        /\ \A b \in DOMAIN SubBlocks \ {"profitability"} : SubBlocks[b] \cap q.covered # {}

EvidenceInv ==
    /\ TypesInv
    /\ RowsInv
    /\ \A g \in growths : GrowthRests(g, fundamentals)
    /\ \A s \in scores : QualityRests(s.quality, s.asOf, fundamentals)

Evidential ==
    {"eps_diluted", "eps_basic", "free_cash_flow", "operating_income", "income_tax_expense",
     "pretax_income"}

LEMMA EvidentialAreConcepts == Evidential \subseteq Concepts
BY DEF Evidential, Concepts, AlignedConcepts, ValuationConcepts

\* What an engine rests on is there for every later table.
LEMMA EvidenceStays ==
    ASSUME NEW t, RowTable(t), NEW u, RowTable(u), \A c \in Concepts : t[c] \subseteq u[c]
    PROVE  /\ \A g : g.asOf \in Int /\ GrowthRests(g, t) => GrowthRests(g, u)
           /\ \A q : \A asOf \in Int : QualityRests(q, asOf, t) => QualityRests(q, asOf, u)
<1>1. \A c \in Evidential : \A asOf \in Int :
         /\ ReportedIn(t, c, asOf) \subseteq ReportedIn(u, c, asOf)
         /\ Cardinality(ReportedIn(t, c, asOf)) <= Cardinality(ReportedIn(u, c, asOf))
         /\ Cardinality(ReportedIn(t, c, asOf)) \in Nat
         /\ Cardinality(ReportedIn(u, c, asOf)) \in Nat
  <2> SUFFICES ASSUME NEW c \in Evidential, NEW asOf \in Int
               PROVE  /\ ReportedIn(t, c, asOf) \subseteq ReportedIn(u, c, asOf)
                      /\ Cardinality(ReportedIn(t, c, asOf)) <= Cardinality(ReportedIn(u, c, asOf))
                      /\ Cardinality(ReportedIn(t, c, asOf)) \in Nat
                      /\ Cardinality(ReportedIn(u, c, asOf)) \in Nat
    OBVIOUS
  <2>1. c \in Concepts /\ t[c] \subseteq u[c] /\ asOf <= asOf
    BY EvidentialAreConcepts
  <2> QED
    BY <2>1, ReportedGrows
<1>2. ASSUME NEW g, g.asOf \in Int, GrowthRests(g, t) PROVE GrowthRests(g, u)
  <2> DEFINE n(table, c) == Cardinality(ReportedIn(table, c, g.asOf))
  <2>1. /\ n(t, "eps_diluted") <= n(u, "eps_diluted")
        /\ n(t, "eps_basic") <= n(u, "eps_basic")
        /\ n(t, "free_cash_flow") <= n(u, "free_cash_flow")
        /\ {n(t, "eps_diluted"), n(u, "eps_diluted"), n(t, "eps_basic"), n(u, "eps_basic"),
            n(t, "free_cash_flow"), n(u, "free_cash_flow")} \subseteq Nat
    BY <1>1, <1>2 DEF Evidential
  <2>2. /\ g.res.eps5 # None => n(t, "eps_diluted") >= 6 \/ n(t, "eps_basic") >= 6
        /\ g.res.fcf5 # None => n(t, "free_cash_flow") >= 6
    BY <1>2 DEF GrowthRests
  <2> HIDE DEF n
  <2>3. /\ g.res.eps5 # None => n(u, "eps_diluted") >= 6 \/ n(u, "eps_basic") >= 6
        /\ g.res.fcf5 # None => n(u, "free_cash_flow") >= 6
    BY <2>1, <2>2
  <2> QED
    BY <2>3 DEF GrowthRests, n
<1>3. ASSUME NEW q, NEW asOf \in Int, QualityRests(q, asOf, t) PROVE QualityRests(q, asOf, u)
  <2> SUFFICES ASSUME q.conf = "high"
               PROVE  /\ \E end \in ReportedIn(u, "operating_income", asOf)
                                      \cap ReportedIn(u, "income_tax_expense", asOf)
                                      \cap ReportedIn(u, "pretax_income", asOf) : asOf - end <= FYMaxAge
                      /\ Cardinality(ReportedIn(u, "free_cash_flow", asOf)) >= 4
                      /\ \/ Cardinality(ReportedIn(u, "eps_diluted", asOf)) >= 4
                         \/ Cardinality(ReportedIn(u, "eps_basic", asOf)) >= 6
                      /\ \A b \in DOMAIN SubBlocks \ {"profitability"} : SubBlocks[b] \cap q.covered # {}
    BY DEF QualityRests
  <2> DEFINE n(table, c) == Cardinality(ReportedIn(table, c, asOf))
  <2>1. /\ n(t, "eps_diluted") <= n(u, "eps_diluted")
        /\ n(t, "eps_basic") <= n(u, "eps_basic")
        /\ n(t, "free_cash_flow") <= n(u, "free_cash_flow")
        /\ {n(t, "eps_diluted"), n(u, "eps_diluted"), n(t, "eps_basic"), n(u, "eps_basic"),
            n(t, "free_cash_flow"), n(u, "free_cash_flow")} \subseteq Nat
    BY <1>1 DEF Evidential
  <2>2. /\ n(t, "free_cash_flow") >= 4
        /\ n(t, "eps_diluted") >= 4 \/ n(t, "eps_basic") >= 6
        /\ \A b \in DOMAIN SubBlocks \ {"profitability"} : SubBlocks[b] \cap q.covered # {}
    BY <1>3 DEF QualityRests
  <2>3. \E end \in ReportedIn(u, "operating_income", asOf)
                     \cap ReportedIn(u, "income_tax_expense", asOf)
                     \cap ReportedIn(u, "pretax_income", asOf) : asOf - end <= FYMaxAge
    <3>1. \E end \in ReportedIn(t, "operating_income", asOf)
                       \cap ReportedIn(t, "income_tax_expense", asOf)
                       \cap ReportedIn(t, "pretax_income", asOf) : asOf - end <= FYMaxAge
      BY <1>3 DEF QualityRests
    <3>2. /\ ReportedIn(t, "operating_income", asOf) \subseteq ReportedIn(u, "operating_income", asOf)
          /\ ReportedIn(t, "income_tax_expense", asOf) \subseteq ReportedIn(u, "income_tax_expense", asOf)
          /\ ReportedIn(t, "pretax_income", asOf) \subseteq ReportedIn(u, "pretax_income", asOf)
      BY <1>1 DEF Evidential
    <3> QED
      BY <3>1, <3>2
  <2> HIDE DEF n
  <2>4. n(u, "free_cash_flow") >= 4 /\ (n(u, "eps_diluted") >= 4 \/ n(u, "eps_basic") >= 6)
    BY <2>1, <2>2
  <2> QED
    BY <2>2, <2>3, <2>4 DEF n
<1> QED
  BY <1>2, <1>3

\* The row that the growth engine writes.
LEMMA GrowthRowRests ==
    ASSUME RowTable(fundamentals), NEW asOf \in Int
    PROVE  GrowthRests(GrowthRow(asOf), fundamentals)
<1> DEFINE in == GrowthInputs(fundamentals, asOf)
           n(c) == Cardinality(ReportedIn(fundamentals, c, asOf))
           s(c) == Series(fundamentals, c, asOf)
           res == CalculateGrowth(in, DefaultGrowthConfig)
           row == GrowthRow(asOf)
<1>1. \A c \in {"eps_diluted", "eps_basic", "free_cash_flow"} :
         s(c) \in Seq(Points) /\ Len(s(c)) = n(c)
  <2>1. \A c \in {"eps_diluted", "eps_basic", "free_cash_flow"} : c \in Concepts
    BY EvidentialAreConcepts DEF Evidential
  <2> QED
    BY <2>1, SeriesCounts
<1>2. in.eps \in {s("eps_diluted"), s("eps_basic")} /\ in.fcf = s("free_cash_flow")
  BY DEF GrowthInputs
<1>3. row.asOf = asOf /\ row.res = res
  BY DEF GrowthRow
<1> HIDE DEF in, s, row
<1>4. in.eps \in Seq(Points) /\ in.fcf \in Seq(Points)
  BY <1>1, <1>2
<1>5. /\ res.eps5 # None => Len(in.eps) >= 6
      /\ res.fcf5 # None => Len(in.fcf) >= 6
  BY <1>4, FiveYearsTakeSix
<1>6. Len(in.eps) \in {n("eps_diluted"), n("eps_basic")} /\ Len(in.fcf) = n("free_cash_flow")
  BY <1>1, <1>2
<1> HIDE DEF n, res
<1>7. /\ res.eps5 # None => n("eps_diluted") >= 6 \/ n("eps_basic") >= 6
      /\ res.fcf5 # None => n("free_cash_flow") >= 6
  BY <1>5, <1>6
<1> QED
  BY <1>3, <1>7 DEF GrowthRests, n, row

\* What the quality engine says of a date.
LEMMA QualityOfADateRests ==
    ASSUME RowTable(fundamentals), NEW asOf \in Int, NEW price,
           \A g \in growths : g.asOf \in Int /\ GrowthRests(g, fundamentals)
    PROVE  QualityRests(Quality(asOf, price), asOf, fundamentals)
<1> DEFINE past == {r \in growths : r.asOf <= asOf}
           row == LastRow(past)
           g == ResultOf(row)
           growth == IF g = None THEN NoGrowth ELSE g
           s == [c \in AlignedConcepts |-> Series(fundamentals, c, asOf)]
           aligned == AlignedFYFacts(s, asOf, FYMaxAge)
           funds == Fundamentals(fundamentals, QualityConcepts, asOf)
           in == [funds |-> funds, growth |-> growth,
                  epsSeries |-> Series(fundamentals, "eps_diluted", asOf),
                  fcfSeries |-> Series(fundamentals, "free_cash_flow", asOf),
                  price |-> price, aligned |-> aligned, taxRate |-> AlignedTaxRate(aligned).rate]
           q == CalculateQuality(in, DefaultQualityConfig)
           n(c) == Cardinality(ReportedIn(fundamentals, c, asOf))
<1>1. Quality(asOf, price) = q
  BY DEF Quality, AsOf, Aligned
<1>2. \A c \in Concepts :
         /\ Series(fundamentals, c, asOf) \in Seq(Points)
         /\ Len(Series(fundamentals, c, asOf)) = n(c)
         /\ \A i \in DOMAIN Series(fundamentals, c, asOf) :
              Series(fundamentals, c, asOf)[i].end \in ReportedIn(fundamentals, c, asOf)
  BY SeriesCounts
<1>3. AlignedConcepts \subseteq Concepts
  BY DEF Concepts
<1>4. /\ in.taxRate = AlignedTaxRate(aligned).rate /\ in.growth = growth
      /\ in.epsSeries = Series(fundamentals, "eps_diluted", asOf)
      /\ in.fcfSeries = Series(fundamentals, "free_cash_flow", asOf)
  OBVIOUS
<1>5. /\ Len(in.epsSeries) = n("eps_diluted") /\ Len(in.fcfSeries) = n("free_cash_flow")
      /\ \A c \in Evidential : n(c) \in Nat
  <2>1. \A c \in Evidential : n(c) \in Nat
    BY EvidentialAreConcepts, ReportedIsFinite, FS_CardinalityType
  <2>2. "eps_diluted" \in Concepts /\ "free_cash_flow" \in Concepts
    BY EvidentialAreConcepts DEF Evidential
  <2> HIDE DEF in, n
  <2> QED
    BY <1>2, <1>4, <2>1, <2>2
<1>6. /\ growth.eps5 # None => n("eps_diluted") >= 6 \/ n("eps_basic") >= 6
      /\ growth.fcf5 # None => n("free_cash_flow") >= 6
  <2>1. CASE g = None
    BY <2>1 DEF NoGrowth
  <2>2. CASE g # None
    <3>1. row # None /\ g = row.res /\ growth = g
      BY <2>2 DEF ResultOf
    <3>2. row \in past
      BY <3>1, LastIsARow
    <3> HIDE DEF row, g, growth
    <3>3. row \in growths /\ row.asOf <= asOf /\ row.asOf \in Int /\ GrowthRests(row, fundamentals)
      BY <3>2
    <3> DEFINE m(c) == Cardinality(ReportedIn(fundamentals, c, row.asOf))
    <3>4. \A c \in Evidential : m(c) <= n(c) /\ m(c) \in Nat
      <4> SUFFICES ASSUME NEW c \in Evidential PROVE m(c) <= n(c) /\ m(c) \in Nat
        OBVIOUS
      <4>1. c \in Concepts /\ fundamentals[c] \subseteq fundamentals[c]
        BY EvidentialAreConcepts
      <4> QED
        BY <3>3, <4>1, ReportedGrows
    <3>5. /\ growth.eps5 # None => m("eps_diluted") >= 6 \/ m("eps_basic") >= 6
          /\ growth.fcf5 # None => m("free_cash_flow") >= 6
      BY <3>1, <3>3 DEF GrowthRests
    <3> HIDE DEF m, n
    <3> QED
      BY <1>5, <3>4, <3>5 DEF Evidential
  <2> QED
    BY <2>1, <2>2
<1> HIDE DEF growth
<1>7. ASSUME q.conf = "high"
      PROVE  /\ \E end \in ReportedIn(fundamentals, "operating_income", asOf)
                             \cap ReportedIn(fundamentals, "income_tax_expense", asOf)
                             \cap ReportedIn(fundamentals, "pretax_income", asOf) : asOf - end <= FYMaxAge
             /\ n("free_cash_flow") >= 4
             /\ n("eps_diluted") >= 4 \/ n("eps_basic") >= 6
             /\ \A b \in DOMAIN SubBlocks \ {"profitability"} : SubBlocks[b] \cap q.covered # {}
  <2>1. /\ in.taxRate # None
        /\ Len(in.epsSeries) < 4 => in.growth.eps5 # None
        /\ Len(in.fcfSeries) < 4 => in.growth.fcf5 # None
        /\ \A b \in DOMAIN SubBlocks \ {"profitability"} : SubBlocks[b] \cap q.covered # {}
    <3> HIDE DEF in
    <3> QED
      BY <1>7, HighQualityNeeds
  <2>2. \E end \in ReportedIn(fundamentals, "operating_income", asOf)
                     \cap ReportedIn(fundamentals, "income_tax_expense", asOf)
                     \cap ReportedIn(fundamentals, "pretax_income", asOf) : asOf - end <= FYMaxAge
    BY <1>1, <1>7, QualityOfADateIsTaxed
  <2> HIDE DEF n, in, q
  <2>3. n("free_cash_flow") >= 4
    BY <1>4, <1>5, <1>6, <2>1 DEF Evidential
  <2>4. n("eps_diluted") >= 4 \/ n("eps_basic") >= 6
    BY <1>4, <1>5, <1>6, <2>1 DEF Evidential
  <2> QED
    BY <2>1, <2>2, <2>3, <2>4
<1> HIDE DEF q
<1>8. QualityRests(q, asOf, fundamentals)
  BY <1>7 DEF QualityRests, n
<1> QED
  BY <1>1, <1>8

LEMMA EvidenceTyped ==
    ASSUME EvidenceInv
    PROVE  /\ RowTable(fundamentals) /\ day \in Int
           /\ \A r \in growths \cup scores : r.asOf \in Int
<1>1. RowTable(fundamentals) /\ OneRowEach(growths) /\ OneRowEach(scores) /\ day \in BarDays
  BY DEF EvidenceInv, TypesInv, ScenariosInv, TablesInv
<1>2. \A d \in BarDays : d \in Int
  BY DaysAreDates
<1>3. \A r \in growths \cup scores : r.asOf \in BarDays
  BY <1>1 DEF OneRowEach
<1> QED
  BY <1>1, <1>2, <1>3

LEMMA InitEvidence == Init => EvidenceInv
BY InitTypes, InitRows DEF Init, EvidenceInv

LEMMA NextEvidence ==
    ASSUME NothingIsRefiled, EvidenceInv, [Next]_vars
    PROVE  EvidenceInv'
<1>1. TypesInv' /\ RowsInv'
  BY NextTypes, NextRows DEF EvidenceInv
<1>2. /\ RowTable(fundamentals) /\ day \in Int
      /\ \A r \in growths \cup scores : r.asOf \in Int
  BY EvidenceTyped
<1>3. RowTable(fundamentals')
  BY <1>1 DEF TypesInv, ScenariosInv, TablesInv
<1>4. \A c \in Concepts : fundamentals[c] \subseteq fundamentals'[c]
  BY FundamentalsGrow DEF EvidenceInv
<1>5. /\ \A g \in growths : GrowthRests(g, fundamentals')
      /\ \A s \in scores : QualityRests(s.quality, s.asOf, fundamentals')
  <2>1. /\ \A g : g.asOf \in Int /\ GrowthRests(g, fundamentals) => GrowthRests(g, fundamentals')
        /\ \A q : \A asOf \in Int :
             QualityRests(q, asOf, fundamentals) => QualityRests(q, asOf, fundamentals')
    BY <1>2, <1>3, <1>4, EvidenceStays
  <2> QED
    BY <1>2, <2>1 DEF EvidenceInv
<1>6. CASE GrowthWacc
  <2> DEFINE new == GrowthRow(day)
  <2>1. /\ growths' \subseteq growths \cup {new} /\ scores' = scores /\ fundamentals' = fundamentals
    BY <1>6 DEF GrowthWacc, Put, world
  <2>2. GrowthRests(new, fundamentals)
    BY <1>2, GrowthRowRests
  <2> HIDE DEF new
  <2> QED
    BY <1>1, <1>5, <2>1, <2>2 DEF EvidenceInv
<1>7. CASE Scores
  <2> DEFINE q == Quality(day, close)
             v == ResultOf(RowAt(valuations, day))
  <2>1. /\ growths' = growths /\ fundamentals' = fundamentals
        /\ \A s \in scores' : s.quality = q /\ s.asOf = day
    <3>1. growths' = growths /\ fundamentals' = fundamentals
      BY <1>7 DEF Scores, world
    <3>2. PICK rows \in PeerTables : scores' = {ScoreRow(v, q, Relative(day, v, rows))}
      BY <1>7 DEF Scores
    <3> DEFINE r == Relative(day, v, rows)
    <3> HIDE DEF q, v, r
    <3>3. ScoreRow(v, q, r).quality = q /\ ScoreRow(v, q, r).asOf = day
      BY DEF ScoreRow
    <3> QED
      BY <3>1, <3>2, <3>3 DEF r
  <2>2. QualityRests(q, day, fundamentals)
    <3>1. \A g \in growths : g.asOf \in Int /\ GrowthRests(g, fundamentals)
      BY <1>2 DEF EvidenceInv
    <3> QED
      BY <1>2, <3>1, QualityOfADateRests
  <2> HIDE DEF q
  <2> QED
    BY <1>1, <1>5, <2>1, <2>2 DEF EvidenceInv
<1>8. CASE Valuation \/ Metrics \/ NextBar \/ (\E x \in DOMAIN Arrivals : Arrive(x)) \/ UNCHANGED vars
  <2>1. growths' = growths /\ scores' = scores
    BY <1>8 DEF Valuation, Metrics, NextBar, Arrive, Rows, vars
  <2> QED
    BY <1>1, <1>5, <2>1 DEF EvidenceInv
<1> QED
  BY <1>6, <1>7, <1>8 DEF Next

LEMMA EvidenceFollows == EvidenceInv => HighQualityIsEvidenced
<1>1. \A c, asOf : Reported(c, asOf) = ReportedIn(fundamentals, c, asOf)
  BY DEF Reported, ReportedIn
<1> QED
  BY <1>1 DEF EvidenceInv, HighQualityIsEvidenced, QualityRests

\* Whatever a company files, when it files it and in whichever order the stages
\* run, a quality of high confidence has its evidence in the table, and keeps it
\* there: the tax rate of one recent year, four years of flows, and four of
\* diluted earnings per share or six of basic ones
\* (confidenceFor, taxRateSource, calcStability, runGrowthWaccOne).  A 10-K that
\* is filed again for its fiscal year would write over the rows of the first one.
THEOREM Evidencing ==
    ASSUME NothingIsRefiled
    PROVE  Spec => []HighQualityIsEvidenced
<1>1. EvidenceInv /\ [Next]_vars => EvidenceInv'
  BY NextEvidence
<1> QED
  BY InitEvidence, <1>1, EvidenceFollows, PTL DEF Spec

=============================================================================
