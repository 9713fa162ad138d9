------------------------------ MODULE ScoreEngine ------------------------------
(***************************************************************************)
(* The score of revisions 2.1.0 and 2.2.0 (internal/score/score21.go and   *)
(* dimensions.go) and the three layers of its configuration, code < env <  *)
(* parameter set (internal/modelcfg).                                      *)
(*                                                                         *)
(* Fixed point instead of float64: a weight is in hundredths, the score of *)
(* a dimension in hundredths of a point, a margin of safety in per cent.   *)
(***************************************************************************)
EXTENDS Integers, FiniteSets, FiniteSetsExt

CONSTANTS None,     \* a nil pointer: a value that the data does not give
          NoSet     \* parameter_set_id NULL

Dims == {"graham", "dcf", "quality", "relative", "market_context"}
Keys == Dims \cup {"mos", "buy"}       \* the parameters a set may override here

(***************************************************************************)
(* The configuration.                                                      *)
(***************************************************************************)
DefaultModelConfig ==
    [w |-> [d \in Dims |-> CASE d = "graham" -> 15 [] d = "dcf" -> 20 [] d = "quality" -> 35
                             [] d = "relative" -> 15 [] OTHER -> 5],
     mos |-> 30, buy |-> 70, hold |-> 40, set |-> NoSet]

\* A layer that takes any number.
AnyNumber(v, below) == v

\* EnvFloatRange and paramFloat: a value out of its range keeps the layer below.
Ranged(v, below) == IF v \in 0..100 THEN v ELSE below

\* ModelConfigFromEnv: the environment has a variable for the margin and, of
\* the five weights, for market_context alone.
ModelConfigFromEnv(env) ==
    [DefaultModelConfig EXCEPT !.mos = Ranged(env.mos, @),
                               !.w["market_context"] = Ranged(env.market, @)]

\* WithParameters: an absent key keeps the layer below.
WithParameters(c, ps) ==
    LET v(key, below) == IF key \in DOMAIN ps THEN Ranged(ps[key], below) ELSE below
    IN  [c EXCEPT !.w = [d \in Dims |-> v(d, c.w[d])], !.mos = v("mos", @), !.buy = v("buy", @)]

Sum(w, S) == MapThenSumSet(LAMBDA d : w[d], S)

Valid(c) ==
    /\ Sum(c.w, Dims) \in 1..100
    /\ c.mos \in 1..100 /\ c.buy \in 1..100 /\ c.buy > c.hold

(***************************************************************************)
(* The dimensions.                                                         *)
(***************************************************************************)
\* calculateScore21 replaces a margin of 0, or of more than 100, by 30.
EffectiveMos(mos) == IF mos \in 1..100 THEN mos ELSE 30

\* scoreIntrinsic: 100 under the floor of the margin, 0 from the intrinsic
\* value on, linear in between, and no score without the two prices.
ScoreIntrinsic(price, intrinsic, mos) ==
    CASE intrinsic = None \/ price <= 0              -> None
      [] intrinsic <= 0                              -> None
      [] 100 * price <= intrinsic * (100 - mos)      -> 10000
      [] price >= intrinsic                          -> 0
      [] OTHER -> (1000000 * (intrinsic - price)) \div (intrinsic * mos)

Clamped(v) == IF v = None THEN None ELSE IF v < 0 THEN 0 ELSE IF v > 10000 THEN 10000 ELSE v

\* scoreTrend: the base of the two averages, 70/30 with the mean of the bands
\* of the momenta there are.
TrendBase(sma) == CASE sma = "above" -> 80 [] sma = "below" -> 30 [] sma = "near" -> 55
                    [] OTHER -> 50
ScoreTrend(sma, m6, m12) ==
    LET ms == {i \in {6, 12} : (IF i = 6 THEN m6 ELSE m12) # None}
        total == IF ms = {6, 12} THEN m6 + m12 ELSE IF ms = {6} THEN 2 * m6 ELSE 2 * m12
    IN  IF ms = {} THEN 100 * TrendBase(sma) ELSE 70 * TrendBase(sma) + 15 * total

\* scoreMarketContext21: nothing to score without averages and momenta.
ScoreMarketContext(m) ==
    IF m.sma = None /\ m.m6 = None /\ m.m12 = None THEN None ELSE ScoreTrend(m.sma, m.m6, m.m12)

\* The five dimensions of an input.
Dimensions(in, price, mos) ==
    [d \in Dims |-> CASE d = "graham"   -> ScoreIntrinsic(price, in.graham, mos)
                      [] d = "dcf"      -> ScoreIntrinsic(price, in.dcf, mos)
                      [] d = "quality"  -> Clamped(in.quality)
                      [] d = "relative" -> Clamped(in.relative)
                      [] OTHER          -> ScoreMarketContext(in.market)]

ValidDims(dims) == {d \in Dims : dims[d] # None}

\* A dimension without a score leaves the numerator and the divisor.
Weighted(dims, w) ==
    [total |-> Sum([d \in ValidDims(dims) |-> dims[d] * w[d]], ValidDims(dims)),
     used  |-> Sum(w, ValidDims(dims))]

\* int(total/weightUsed + 0.5), 50 when nothing weighs, within 0..100.
Final(total, used) ==
    IF used = 0 THEN 50
    ELSE LET rounded == (2 * total + 100 * used) \div (200 * used)
         IN  IF rounded > 100 THEN 100 ELSE rounded

\* SignalForScore: the thresholds are the literals 70 and 40.
SignalForScore(score) ==
    IF score >= 70 THEN "comprar" ELSE IF score >= 40 THEN "mantener" ELSE "vender"

\* calculateScore21.  The result keeps the margin it worked with.
CalculateScore21(in, price, mos, w) ==
    LET effective == EffectiveMos(mos)
        dims == Dimensions(in, price, effective)
        sums == Weighted(dims, w)
        score == Final(sums.total, sums.used)
    IN  [score |-> score, signal |-> SignalForScore(score), dims |-> dims,
         used |-> sums.used, mos |-> effective]

=============================================================================
