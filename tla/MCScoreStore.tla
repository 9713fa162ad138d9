----------------------------- MODULE MCScoreStore -----------------------------
(* Small instances of ScoreStore.                                             *)
EXTENDS ScoreStore, TLC

NoMarket == [sma |-> None, m6 |-> None, m12 |-> None]
Nothing == [price |-> 85, graham |-> None, dcf |-> None, quality |-> None, relative |-> None,
            market |-> NoMarket]
\* Every dimension; the two methods disagree and depend on the margin.
Complete == [price |-> 85, graham |-> 100, dcf |-> 110, quality |-> 12000, relative |-> 2500,
             market |-> [sma |-> "above", m6 |-> 90, m12 |-> 15]]
Traded == [Nothing EXCEPT !.market = [sma |-> None, m6 |-> None, m12 |-> 40]]
Typical == {Nothing, Traded, Complete}
Whole == {Complete}

Plain == [mos |-> 30, market |-> 5]
Garbled == [mos |-> 150, market |-> 5]
NoMargin == [mos |-> 0, market |-> 5]

Symmetry == Permutations(Workers)
OnePlain == {Plain}
SafetyEnvs == {Garbled, NoMargin}
Conservative == [k \in {"mos", "quality", "graham"} |-> CASE k = "mos" -> 40 [] k = "quality" -> 40 [] OTHER -> 10]
Cautious == [k \in {"mos"} |-> 50]
Reweighted == [k \in {"quality", "graham"} |-> IF k = "quality" THEN 40 ELSE 10]

OneConservative == {Conservative}
SafetyParameters == {Cautious, Reweighted}
=============================================================================
