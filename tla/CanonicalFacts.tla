---------------------------- MODULE CanonicalFacts ----------------------------
(***************************************************************************)
(* From a companyfacts payload to the rows of fundamentals: which of the   *)
(* facts that compete for one period survives, and the concepts that are   *)
(* derived from the survivors (internal/collect/edgar/concepts.go and      *)
(* normalize.go).                                                          *)
(*                                                                         *)
(* A payload is a sequence of facts, in the order of ParseCompanyFacts: by *)
(* tag, and for one tag in the order of SEC.  A fact is [concept, priority,*)
(* form, end, days, fy, filed, accn, value].  concept and priority are     *)
(* those that the dictionary gives to its tag, days is the length of the   *)
(* period (0 for a balance), fy the fiscal year of the FILING that         *)
(* publishes the fact, whatever year the fact is about.  Every fact is     *)
(* dated, has a value and is of the fiscal period FY; EdgarIngest has the  *)
(* facts without a fiscal year.                                            *)
(***************************************************************************)
EXTENDS Integers, Sequences, FiniteSets, FiniteSetsExt, Folds

PerShare == {"eps_diluted", "eps_basic"}

Instants ==
    {"total_assets", "total_liabilities", "long_term_debt", "short_term_debt", "shareholders_equity",
     "cash_and_equivalents", "current_assets", "current_liabilities", "shares_outstanding"}

Durations ==
    PerShare \cup
    {"revenues", "cost_of_revenue", "gross_profit", "operating_income", "net_earnings",
     "depreciation_amortization", "dividends_paid", "interest_expense", "income_tax_expense",
     "pretax_income", "operating_cash_flow", "capex"}

Derivations == {"total_debt", "net_debt", "ebitda", "free_cash_flow"}

\* Canonical facts, the ones of a payload and those derived from them.
Facts ==
    [concept : Instants \cup Durations \cup Derivations, priority : Int, form : STRING, end : Int,
     days : Int, fy : Int, filed : Int, accn : Int, value : Int]

\* The filter of the form and MapToCanonical: a tag of a balance has no duration.
Canonical(f) == f.form = "10-K" /\ (f.days = 0 <=> f.concept \in Instants)

\* periodKey: the start of the period is not in it.
PeriodKey(f) == <<f.days = 0, f.end, f.fy>>

(***************************************************************************)
(* Two facts of one concept and period.                                    *)
(***************************************************************************)
\* isPostSplitReexpression: the same period, rescaled by 2 to 8.
Rescaled(f, g) ==
    /\ f.concept = g.concept /\ PeriodKey(f) = PeriodKey(g) /\ f.days = g.days
    /\ f.value # 0
    /\ \E k \in 2..8 : f.value = k * g.value \/ g.value = k * f.value

\* splitPairOriginal: is it a split, and is f then the one that was filed first.
SplitPair(f, g) == f.concept \in PerShare /\ Rescaled(f, g)
FiledFirst(f, g) == f.filed < g.filed \/ (f.filed = g.filed /\ f.accn <= g.accn)

\* newerFact: the preferred tag, then the original of a split, then the last filing.
NewerFact(f, prev) ==
    IF f.priority # prev.priority THEN f.priority < prev.priority
    ELSE IF SplitPair(f, prev) THEN FiledFirst(f, prev)
    ELSE f.filed > prev.filed \/ (f.filed = prev.filed /\ f.accn > prev.accn)

Survivor(prev, f) == IF NewerFact(f, prev) THEN f ELSE prev

(***************************************************************************)
(* The pipeline.                                                           *)
(***************************************************************************)
\* dedupeCanonical: one fact for each concept and period, chosen in the order
\* of the payload.
SurvivorOf(facts, I) ==
    MapThenFoldSet(LAMBDA f, prev : Survivor(prev, f), facts[Min(I)],
                   LAMBDA i : facts[i], LAMBDA J : Max(J), I)

DedupeCanonical(facts) ==
    LET group(f) == <<f.concept, PeriodKey(f)>>
        canonical == {i \in DOMAIN facts : Canonical(facts[i])}
        of(k) == {i \in canonical : group(facts[i]) = k}
    IN  {SurvivorOf(facts, of(k)) : k \in {group(facts[i]) : i \in canonical}}

\* One row for each period that has both, with the dates of the first.
Derive(concept, firsts, seconds, op(_, _)) ==
    {[p[1] EXCEPT !.concept = concept, !.value = op(p[1].value, p[2].value)] :
        p \in {q \in firsts \X seconds : PeriodKey(q[1]) = PeriodKey(q[2])}}

\* ComputeDerived.  The payments of capex are positive.
ComputeDerived(rows) ==
    LET of(concept) == {r \in rows : r.concept = concept}
        debt == Derive("total_debt", of("long_term_debt"), of("short_term_debt"),
                       LAMBDA long, short : long + short)
    IN  debt
          \cup Derive("net_debt", of("cash_and_equivalents"), debt, LAMBDA cash, owed : owed - cash)
          \cup Derive("ebitda", of("operating_income"), of("depreciation_amortization"),
                      LAMBDA income, charge : income + charge)
          \cup Derive("free_cash_flow", of("operating_cash_flow"), of("capex"),
                      LAMBDA flow, paid : flow - paid)

\* canonicalizeCompanyFacts.
Canonicalize(payload) ==
    LET rows == DedupeCanonical(payload)
    IN  rows \cup ComputeDerived(rows)

\* buildFundamentals: what a row keeps of a fact.
BuildFundamentals(facts, concept) ==
    {[end |-> f.end, days |-> f.days, fy |-> f.fy, filed |-> f.filed, value |-> f.value] :
        f \in {g \in facts : g.concept = concept}}

=============================================================================
