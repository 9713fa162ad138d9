----------------------------- MODULE FiscalFacts -----------------------------
(***************************************************************************)
(* What the engines read of the fundamentals table at a date               *)
(* (internal/storage/fundamentals.go), the alignment of the facts that a   *)
(* ratio needs from one fiscal year (internal/pipeline/fyfacts.go) and the *)
(* three numbers that the valuation derives                                *)
(* (internal/valuation/concepts.go).                                       *)
(*                                                                         *)
(* A date is a number of quarters.  facts[concept] is a set of rows        *)
(* [end, days, fy, filed, value]: days is the length of the period and 0   *)
(* for a balance (no period_start), filed is None without a filing date.   *)
(***************************************************************************)
EXTENDS Integers, Sequences, FiniteSets, FiniteSetsExt, SequencesExt

CONSTANT None       \* a nil pointer: a value that the data does not give

(***************************************************************************)
(* The two queries.                                                        *)
(***************************************************************************)
Observable(f, asOf) == f.filed = None \/ f.filed <= asOf

Annual(f) == f.days \in 330..400
FiledRank(f) == IF f.filed = None THEN -1 ELSE f.filed

\* period_end DESC, filing_date DESC NULLS LAST: the last filing wins.
Newest(F) ==
    CHOOSE f \in F : \A g \in F : f.end > g.end \/ (f.end = g.end /\ FiledRank(f) >= FiledRank(g))

\* fiscal_year DESC, filing_date DESC NULLS LAST, for the rows of one period.
LastLabelled(F) ==
    CHOOSE f \in F : \A g \in F : f.fy > g.fy \/ (f.fy = g.fy /\ FiledRank(f) >= FiledRank(g))

\* GetLatestFYFundamentalsAsOf, concept by concept: the last balance or annual
\* fact observable at the date.
Latest(facts, concept, asOf) ==
    LET F == {f \in facts[concept] : Observable(f, asOf) /\ (f.days = 0 \/ Annual(f))}
    IN  IF F = {} THEN None ELSE Newest(F).value

Fundamentals(facts, concepts, asOf) == [c \in concepts |-> Latest(facts, c, asOf)]

\* GetFYAnnualSeries: one annual fact for each period, oldest first.
Series(facts, concept, asOf) ==
    LET F == {f \in facts[concept] : Observable(f, asOf) /\ Annual(f)}
        point(end) == [end |-> end, value |-> LastLabelled({f \in F : f.end = end}).value]
    IN  MapThenFoldSet(LAMBDA p, older : Append(older, p), <<>>, point, Max, {f.end : f \in F})

(***************************************************************************)
(* The alignment.                                                          *)
(***************************************************************************)
\* valueAt: the value of one fiscal year, never that of another one.
ValueAt(series, end) ==
    LET P == {i \in DOMAIN series : series[i].end = end}
    IN  IF P = {} THEN None ELSE series[Max(P)].value

\* latestUsablePoint: the year of the last operating income.
Anchor(s) == IF s.operating_income = <<>> THEN None ELSE Last(s.operating_income).end

\* alignedFYFacts: the trio at the anchor and why it must not be used.  An old
\* anchor dominates the completeness of the pair.
AlignedFYFacts(s, asOf, maxAge) ==
    LET anchor == Anchor(s)
        at(concept) == IF anchor = None THEN None ELSE ValueAt(s[concept], anchor)
        fresh == anchor # None /\ asOf - anchor <= maxAge
    IN  [ebit     |-> at("operating_income"),
         interest |-> at("interest_expense"),
         tax      |-> at("income_tax_expense"),
         pretax   |-> at("pretax_income"),
         interestReason |->
            CASE anchor = None                -> "no_anchor"
              [] anchor # None /\ ~fresh      -> "interest_stale"
              [] fresh /\ at("interest_expense") = None ->
                    IF s.interest_expense # <<>> THEN "interest_period_mismatch"
                                                 ELSE "interest_unavailable"
              [] OTHER                        -> "",
         taxReason |->
            CASE anchor = None                -> "no_anchor"
              [] anchor # None /\ ~fresh      -> "tax_rate_stale"
              [] fresh /\ (at("income_tax_expense") = None \/ at("pretax_income") = None) ->
                    "tax_rate_unavailable"
              [] OTHER                        -> ""]

\* alignedTaxRate: the observed rate in tenths of a per cent, rejected and
\* never clamped when it is not within 0..50 %.
AlignedTaxRate(a) ==
    LET sign == IF a.pretax < 0 THEN -1 ELSE 1
        rate == (1000 * sign * a.tax) \div (sign * a.pretax)
    IN  CASE a.taxReason # ""                   -> [rate |-> None, reason |-> a.taxReason]
          [] a.taxReason = "" /\ a.pretax = 0   -> [rate |-> None, reason |-> "tax_rate_unavailable"]
          [] OTHER -> IF 0 <= rate /\ rate <= 500 THEN [rate |-> rate, reason |-> ""]
                      ELSE [rate |-> None, reason |-> "tax_rate_out_of_range"]

(***************************************************************************)
(* The derived numbers of the valuation.                                   *)
(***************************************************************************)
Positive(v) == v # None /\ v > 0

\* percentile_cont(0.5): the value in the middle, or the mean of the two there.
MedianBy(S, value(_)) ==
    LET kth(k) == value(CHOOSE x \in S :
                            /\ Cardinality({y \in S : value(y) < value(x)}) < k
                            /\ k <= Cardinality({y \in S : value(y) <= value(x)}))
        n == Cardinality(S)
    IN  (kth((n + 1) \div 2) + kth((n + 2) \div 2)) \div 2

\* medianOf.
MedianOf(values) == MedianBy(DOMAIN values, LAMBDA i : values[i])

\* EPSFrom, in cents for earnings and shares in the same unit.
EPSFrom(earnings, shares) ==
    IF earnings = None \/ ~Positive(shares) THEN None
    ELSE LET eps == (100 * earnings) \div shares IN IF eps > 0 THEN eps ELSE None

\* DeriveFacts: the stored free cash flow wins over the derivation, which adds
\* the capex although its payments are stored as positive.  No catalogue stores
\* the other name that it accepts for it, capital_expenditures.
FreeCashFlowOf(funds) ==
    IF funds.free_cash_flow # None THEN funds.free_cash_flow
    ELSE IF funds.operating_cash_flow # None /\ funds.capex # None
         THEN funds.operating_cash_flow + funds.capex ELSE None

DeriveFacts(funds) ==
    [eps     |-> EPSFrom(funds.net_earnings, funds.shares_outstanding),
     fcf     |-> FreeCashFlowOf(funds),
     netDebt |-> IF funds.total_debt # None /\ funds.cash_and_equivalents # None
                 THEN funds.total_debt - funds.cash_and_equivalents ELSE None]

=============================================================================
