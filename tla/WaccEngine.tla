------------------------------ MODULE WaccEngine ------------------------------
(***************************************************************************)
(* The WACC engine (internal/wacc/wacc.go): CAPM over an observed beta and *)
(* an observed capital structure, or the configured rate, marked as such.  *)
(*                                                                         *)
(* A rate is in tenths of a per cent, a beta in hundredths.                *)
(***************************************************************************)
EXTENDS FiscalFacts

DefaultWaccConfig ==
    [riskFree |-> 45, premium |-> 55, beta |-> 100, costOfDebt |-> 60, tax |-> 210,
     fallback |-> 90]

\* observedOr.
ObservedOr(observed, configured) == IF observed # None THEN observed ELSE configured

TaxWithin(tax) == IF tax < 0 THEN 0 ELSE IF tax > 500 THEN 500 ELSE tax

\* usableBeta: a beta of 0 or below is not an observation.
UsableBeta(beta) == Positive(beta)

\* usableEquity, observedDebt: without debt is a structure, without a datum is not.
Structured(in) == Positive(in.equity) /\ in.debt # None /\ in.equity + in.debt > 0

\* The CAPM also over the assumed beta.
HasCapmAssumed(in, ke) == ke > 0 /\ Structured(in)

HasCapm(in, ke) == ke > 0 /\ Structured(in) /\ UsableBeta(in.beta)

\* wacc.Calculate.  Only with the risk-free rate, the premium, the cost of debt
\* and the tax observed is it an individual one.  What was computed on the way
\* to a fallback stays in the result.
CalculateWacc(in, cfg) ==
    LET beta == IF UsableBeta(in.beta) THEN in.beta ELSE cfg.beta
        ke == ObservedOr(in.riskFree, cfg.riskFree)
                + (beta * ObservedOr(in.premium, cfg.premium)) \div 100
        tax == TaxWithin(ObservedOr(in.tax, cfg.tax))
        kd == (ObservedOr(in.costOfDebt, cfg.costOfDebt) * (1000 - tax)) \div 1000
        debt == IF in.debt # None /\ in.debt > 0 THEN in.debt ELSE 0
        individual == None \notin {in.riskFree, in.premium, in.costOfDebt, in.tax}
        with(wacc, source, conf) ==
            [ke |-> IF ke > 0 THEN ke ELSE None, tax |-> tax, beta |-> beta, betaObserved |-> UsableBeta(in.beta),
             wacc |-> wacc, source |-> source, conf |-> conf]
    IN  IF HasCapm(in, ke)
        THEN with((in.equity * ke + debt * kd) \div (in.equity + debt),
                  IF individual THEN "capm_individual" ELSE "capm_hybrid",
                  IF individual THEN "high" ELSE "medium")
        ELSE with(IF cfg.fallback > 0 THEN cfg.fallback ELSE None, "configured_fallback", "low")

\* The inputs of runGrowthWaccOne: the market value of the shares, the total
\* debt, the beta of the date and the tax rate of the anchor.  No caller
\* observes the other three rates.
WaccInputs(facts, close, beta, asOf, maxAge) ==
    LET shares == Latest(facts, "shares_outstanding", asOf)
        concepts == {"operating_income", "interest_expense", "income_tax_expense", "pretax_income"}
        aligned == AlignedFYFacts([c \in concepts |-> Series(facts, c, asOf)], asOf, maxAge)
    IN  [equity |-> IF Positive(shares) /\ close > 0 THEN (shares * close) \div 100 ELSE None,
         debt   |-> Latest(facts, "total_debt", asOf),
         beta   |-> beta,
         tax    |-> AlignedTaxRate(aligned).rate,
         riskFree |-> None, premium |-> None, costOfDebt |-> None]

=============================================================================
