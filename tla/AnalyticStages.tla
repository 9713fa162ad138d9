---------------------------- MODULE AnalyticStages ----------------------------
(***************************************************************************)
(* The calculation stages of the pipeline: growth/WACC, valuation, metrics *)
(* and scores, as run by POST /refresh, by the tail of a force or of a     *)
(* watchlist refresh, and by cmd/analytics (internal/pipeline/pipeline.go, *)
(* growthwacc.go, valuation.go, analytics.go, qualityrelative.go).         *)
(*                                                                         *)
(* The numbers are abstract.  A row keeps what its calculation consumed:   *)
(* the dates of the rows and filings it read and the configuration it ran  *)
(* with, which is what the ordering of stages and processes can spoil.     *)
(***************************************************************************)
EXTENDS Naturals, Sequences, FiniteSets, FiniteSetsExt

CONSTANTS Targets,  \* the securities of a pass, in the order of the pass
          MaxDate,  \* bound: the last day of the market
          Workers,  \* processes that run passes: the API server, a command line
          Jobs,     \* worker -> the jobs it may run
          Passes,   \* bound: worker -> the passes it begins
          Values,   \* what a filing may say: "good" and "bad"
          Faults    \* what may go wrong: "step", "crash"

Securities == {Targets[i] : i \in DOMAIN Targets}
Dates == 1..MaxDate
Configs == {"set", "env"}    \* the active parameter set, the environment
Chains == {"refresh", "watchlist", "all"}
\* A mis-ordered chain: the scores before the valuation they read.
ScoresBeforeValuation == <<"growth", "scores", "valuation", "metrics">>
Stages == <<"growth", "valuation", "metrics", "scores">>
StageNames == {Stages[i] : i \in DOMAIN Stages}

ASSUME StagesAssumption ==
    /\ Targets \in Seq(Nat) /\ Targets # <<>>
    /\ MaxDate \in Nat
    /\ Jobs \in [Workers -> SUBSET (Chains \cup StageNames)]
    /\ Passes \in [Workers -> Nat]
    /\ Values \subseteq {"good", "bad"}
    /\ Faults \subseteq {"step", "crash"}

VARIABLES bar,         \* security -> date of its last row in daily_prices, 0 if none
          filing,      \* security -> filing date -> what its annual facts say
          growths,     \* growth_metrics
          waccs,       \* wacc_metrics
          valuations,  \* valuation_results of the current revision
          metrics,     \* derived_metrics
          scores,      \* scores of the current revision
          w,           \* the local state of every worker
          disturbed    \* (history) workers under whose pass others changed the tables

market == <<bar, filing>>
tables == <<growths, waccs, valuations, metrics, scores>>
vars == <<bar, filing, growths, waccs, valuations, metrics, scores, w, disturbed>>

(***************************************************************************)
(* Reads.                                                                  *)
(***************************************************************************)
Rows(table, s, asOf) == {r \in table : r.sec = s /\ r.asOf = asOf}
\* A write that forgets ON CONFLICT.
UpsertAppends(table, row) == table \cup {row}
Upsert(table, row) == (table \ Rows(table, row.sec, row.asOf)) \cup {row}

Last(S) == Max(S \cup {0})

\* GetLatestGrowthMetric and GetLatestWaccMetric: the newest row, whatever the
\* date of the calculation that asks.
LatestRow(table, s) ==
    {r \in table : r.sec = s /\ \A o \in table : o.sec = s => o.asOf <= r.asOf}

DateOf(rows) == Last({r.asOf : r \in rows})

\* GetGrowthMetricAsOf: the newest growth row at or before the date.
GrowthAsOf(s, asOf) == Last({r.asOf : r \in {g \in growths : g.sec = s /\ g.asOf <= asOf}})

\* GetLatestFYFundamentals before M6a-F1: no cut at the date of the calculation.
FactsUncut(s, asOf) == Last({d \in Dates : filing[s][d] # "none"})

\* GetLatestFYFundamentalsAsOf: the annual facts already filed on the date.
FactsAsOf(s, asOf) == Last({d \in Dates : d <= asOf /\ filing[s][d] # "none"})

\* Do those facts give a value to at least one valuation method?
Computable(s, facts) == facts > 0 /\ filing[s][facts] = "good"

\* GetSectorComparables: rows of every peer, of any date.
PeersSeen(s) == Last({r.asOf : r \in {m \in metrics : m.sec # s}})

(***************************************************************************)
(* The walk of a worker through its pass.                                  *)
(***************************************************************************)
IdleWorker == [pc |-> "idle", job |-> "refresh", stage |-> 1, at |-> 1, config |-> "env",
               asOf |-> 0, growth |-> {}, val |-> {}, intact |-> TRUE, pass |-> 0]

Plan(job) == IF job \in Chains THEN Stages ELSE <<job>>
StageOf(p) == Plan(w[p].job)[w[p].stage]
SecOf(p) == Targets[w[p].at]

\* The configuration of a stage: the growth stage of cmd/analytics takes the
\* environment's, every other one the set (its fallback is ScoreStore's matter).
ConfigOf(job, stage) == IF stage = "growth" /\ job \in {"all", "growth"} THEN "env" ELSE "set"

\* A worker that has finished with a security of a stage.
After(v) ==
    LET fresh == [v EXCEPT !.pc = "price", !.asOf = 0, !.growth = {}, !.val = {}]
    IN  CASE v.at < Len(Targets) -> [fresh EXCEPT !.at = v.at + 1]
          [] v.at = Len(Targets) /\ v.stage < Len(Plan(v.job)) ->
                [fresh EXCEPT !.at = 1, !.stage = v.stage + 1,
                              !.config = ConfigOf(v.job, Plan(v.job)[v.stage + 1])]
          [] OTHER -> [IdleWorker EXCEPT !.intact = v.intact, !.pass = v.pass]

Leave(p) == w' = [w EXCEPT ![p] = After(w[p])]
Skip(p) == w' = [w EXCEPT ![p] = After([w[p] EXCEPT !.intact = FALSE])]

\* The passes that are under way when somebody else changes a table.
Disturb(others) == disturbed' = disturbed \cup {q \in others : w[q].pc # "idle"}

Begin(p, job) ==
    /\ w[p].pc = "idle" /\ w[p].pass < Passes[p]
    /\ w' = [w EXCEPT ![p] = [IdleWorker EXCEPT !.pc = "price", !.job = job,
                                               !.config = ConfigOf(job, Plan(job)[1]),
                                               !.pass = w[p].pass + 1]]
    /\ disturbed' = disturbed \ {p}
    /\ UNCHANGED <<market, tables>>

\* GetLatestPrice: its date is the as_of of everything the step computes.
ReadPrice(p) ==
    /\ w[p].pc = "price"
    /\ IF bar[SecOf(p)] = 0
       THEN Leave(p)
       ELSE w' = [w EXCEPT ![p].asOf = bar[SecOf(p)],
                           ![p].pc = IF StageOf(p) \in {"valuation", "scores"}
                                     THEN "inputs" ELSE "write"]
    /\ UNCHANGED <<market, tables, disturbed>>

ReadGrowth(p) ==
    /\ w[p].pc = "inputs" /\ StageOf(p) = "valuation"
    /\ w' = [w EXCEPT ![p].growth = LatestRow(growths, SecOf(p)), ![p].pc = "write"]
    /\ UNCHANGED <<market, tables, disturbed>>

ReadValuation(p) ==
    /\ w[p].pc = "inputs" /\ StageOf(p) = "scores"
    /\ w' = [w EXCEPT ![p].val = Rows(valuations, SecOf(p), w[p].asOf), ![p].pc = "write"]
    /\ UNCHANGED <<market, tables, disturbed>>

(***************************************************************************)
(* The writes, each one transaction.                                       *)
(***************************************************************************)
GrowthRow(s, asOf) == [sec |-> s, asOf |-> asOf, facts |-> FactsAsOf(s, asOf)]
WaccRow(s, asOf, config) ==
    [sec |-> s, asOf |-> asOf, facts |-> FactsAsOf(s, asOf), config |-> config]

WriteGrowth(p) ==
    /\ w[p].pc = "write" /\ StageOf(p) = "growth"
    /\ growths' = Upsert(growths, GrowthRow(SecOf(p), w[p].asOf))
    /\ waccs' = Upsert(waccs, WaccRow(SecOf(p), w[p].asOf, w[p].config))
    /\ Leave(p) /\ Disturb(Workers \ {p})
    /\ UNCHANGED <<market, valuations, metrics, scores>>

\* filed is the last filing that informs the row, directly or through the
\* growth and WACC rows it read.
ValuationRow(s, v) ==
    LET wacc == LatestRow(waccs, s)
    IN  [sec |-> s, asOf |-> v.asOf, growth |-> DateOf(v.growth), wacc |-> DateOf(wacc),
         filed |-> Last({FactsAsOf(s, v.asOf)} \cup {r.facts : r \in v.growth \cup wacc}),
         configs |-> {v.config} \cup {r.config : r \in wacc}]

\* Without a value there is no row to write; a row of the same date stays.
WriteValuation(p) ==
    /\ w[p].pc = "write" /\ StageOf(p) = "valuation"
    /\ valuations' = IF Computable(SecOf(p), FactsAsOf(SecOf(p), w[p].asOf))
                     THEN Upsert(valuations, ValuationRow(SecOf(p), w[p]))
                     ELSE valuations
    /\ Leave(p) /\ Disturb(Workers \ {p})
    /\ UNCHANGED <<market, growths, waccs, metrics, scores>>

\* An input whose query fails is missing, and the row is written without it.
MayMiss(input) == IF "step" \in Faults THEN {input, 0} ELSE {input}

\* series is the annual series, growth what metricGrowthRate gives: both may be missing.
MetricRow(s, asOf, series, growth) ==
    [sec |-> s, asOf |-> asOf, facts |-> FactsAsOf(s, asOf), series |-> series,
     growth |-> growth]

WriteMetrics(p) ==
    /\ w[p].pc = "write" /\ StageOf(p) = "metrics"
    /\ \E series \in MayMiss(FactsAsOf(SecOf(p), w[p].asOf)),
          growth \in MayMiss(GrowthAsOf(SecOf(p), w[p].asOf)) :
           metrics' = Upsert(metrics, MetricRow(SecOf(p), w[p].asOf, series, growth))
    /\ Leave(p) /\ Disturb(Workers \ {p})
    /\ UNCHANGED <<market, growths, waccs, valuations, scores>>

\* The last bar of the moving averages: of any date, and nothing when the query
\* fails or finds fewer than 200 bars.
Trends(s) == {bar[s], 0}

\* val is what the valuation dimensions read, pfcf what the relative engine
\* read from the same row a few queries later.
ScoreRow(s, v, trend) ==
    [sec |-> s, asOf |-> v.asOf, config |-> v.config, val |-> v.val,
     pfcf |-> Rows(valuations, s, v.asOf), metric |-> Rows(metrics, s, v.asOf),
     facts |-> FactsAsOf(s, v.asOf), growth |-> GrowthAsOf(s, v.asOf),
     peers |-> PeersSeen(s), trend |-> trend]

\* UpsertScore: the parameter set is part of the key, NULL included.
WriteScore(p) ==
    /\ w[p].pc = "write" /\ StageOf(p) = "scores"
    /\ \E trend \in Trends(SecOf(p)) :
           scores' = {r \in scores : <<r.sec, r.asOf, r.config>>
                                       # <<SecOf(p), w[p].asOf, w[p].config>>}
                     \cup {ScoreRow(SecOf(p), w[p], trend)}
    /\ Leave(p) /\ Disturb(Workers \ {p})
    /\ UNCHANGED <<market, growths, waccs, valuations, metrics>>

\* A query that is not of a degradable input fails, or a transaction, or the deadline
\* of the pass has passed: the security is logged and the pass goes on.
StepFails(p) ==
    /\ "step" \in Faults /\ w[p].pc # "idle" /\ Skip(p)
    /\ UNCHANGED <<market, tables, disturbed>>

Crash(p) ==
    /\ "crash" \in Faults /\ w[p].pc # "idle"
    /\ w' = [w EXCEPT ![p] = [IdleWorker EXCEPT !.intact = FALSE, !.pass = w[p].pass]]
    /\ UNCHANGED <<market, tables, disturbed>>

(***************************************************************************)
(* The price and EDGAR stages of another process, or of the same one       *)
(* before its calculation stages.                                          *)
(***************************************************************************)
NewBar(s) ==
    /\ \E d \in Dates : d > bar[s] /\ bar' = [bar EXCEPT ![s] = d]
    /\ Disturb(Workers)
    /\ UNCHANGED <<filing, tables, w>>

NewFiling(s) ==
    /\ \E d \in Dates : \E v \in Values \ {filing[s][d]} :
           filing' = [filing EXCEPT ![s][d] = v]
    /\ Disturb(Workers)
    /\ UNCHANGED <<bar, tables, w>>

Init ==
    /\ bar = [s \in Securities |-> 0]
    /\ filing = [s \in Securities |-> [d \in Dates |-> "none"]]
    /\ growths = {} /\ waccs = {} /\ valuations = {} /\ metrics = {} /\ scores = {}
    /\ w = [p \in Workers |-> IdleWorker] /\ disturbed = {}

Step(p) ==
    \/ \E job \in Jobs[p] : Begin(p, job)
    \/ ReadPrice(p) \/ ReadGrowth(p) \/ ReadValuation(p)
    \/ WriteGrowth(p) \/ WriteValuation(p) \/ WriteMetrics(p) \/ WriteScore(p)
    \/ StepFails(p) \/ Crash(p)

Next ==
    \/ \E p \in Workers : Step(p)
    \/ \E s \in Securities : NewBar(s) \/ NewFiling(s)

Spec == Init /\ [][Next]_vars

(***************************************************************************)
(* Properties.                                                             *)
(***************************************************************************)
CapitalRows == [sec : Securities, asOf : Dates, facts : 0..MaxDate]
ValuationRows == [sec : Securities, asOf : Dates, growth : 0..MaxDate, wacc : 0..MaxDate,
                  filed : 0..MaxDate, configs : SUBSET Configs]
MetricRows == [sec : Securities, asOf : Dates, facts : 0..MaxDate, series : 0..MaxDate,
               growth : 0..MaxDate]

\* Every table keeps at most one row per key, and every row has its type.
TypeOK ==
    /\ bar \in [Securities -> 0..MaxDate]
    /\ filing \in [Securities -> [Dates -> {"none"} \cup Values]]
    /\ growths \subseteq CapitalRows /\ valuations \subseteq ValuationRows
    /\ metrics \subseteq MetricRows
    /\ \A r \in waccs : r.config \in Configs /\ r.asOf \in Dates
    /\ \A r \in scores : r.config \in Configs /\ r.val \subseteq valuations \cup ValuationRows
    /\ \A table \in {growths, waccs, valuations, metrics} :
           \A a, b \in table : a.sec = b.sec /\ a.asOf = b.asOf => a = b
    /\ \A a, b \in scores : <<a.sec, a.asOf, a.config>> = <<b.sec, b.asOf, b.config>> => a = b

\* No row is informed by what is filed after its date, whatever the other processes do
\* between its reads and its write: growth, WACC, metrics and scores directly, metrics
\* and scores through the growth row they read (the cut of M6a-F1).  What is read
\* without a cut, the newest growth and WACC rows of a valuation and the last bars of a
\* score, is of the date of the row too when nobody else changed a table during the
\* pass; and the growth of that valuation and its WACC are of one calculation.
ChainIsOfItsDate ==
    [][ /\ \A r \in growths' \cup waccs' \cup metrics' \cup scores' : r.facts <= r.asOf
        /\ \A r \in metrics' \cup scores' : r.growth <= r.asOf
        /\ \A r \in metrics' : r.series <= r.asOf
        /\ \A p \in Workers \ disturbed : w[p].pc = "write" /\ w'[p].pc # "write" =>
              /\ \A v \in valuations' \ valuations :
                    v.growth = v.wacc /\ v.growth <= v.asOf /\ v.filed <= v.asOf
              /\ \A r \in scores' \ scores : r.trend <= r.asOf ]_vars

\* A worker finishes a chain in this step, with no security lost on the way and
\* no table changed by others.
Finishes(p) ==
    /\ w[p].pc # "idle" /\ w[p].job \in {"refresh", "watchlist"} /\ p \notin disturbed
    /\ w'[p].pc = "idle" /\ w'[p].intact

\* An input of a pass that degrades: the one of this pass or none, never an older one.
OfPassOrMissing(input, now) == input = now \/ input = 0

\* The score of a security once a whole chain has run over it: every input is of this
\* pass, none is missing because a stage ran too early, and those that a failed query
\* leaves out are left out and not taken from an earlier pass.
ScoredByThisPass(s) ==
    LET now == FactsAsOf(s, bar[s])
        valued == [sec |-> s, asOf |-> bar[s], growth |-> bar[s], wacc |-> bar[s],
                   filed |-> now, configs |-> {"set"}]
    IN  \E r \in Rows(scores, s, bar[s]) :
           /\ r.config = "set" /\ r.growth = bar[s] /\ r.facts = now
           /\ OfPassOrMissing(r.trend, bar[s])
           /\ \E m \in MetricRows :
                 /\ r.metric = {m} /\ m.facts = now
                 /\ OfPassOrMissing(m.series, now) /\ OfPassOrMissing(m.growth, bar[s])
           /\ Computable(s, now) => r.val = {valued} /\ r.pfcf = {valued}

\* The order growth, valuation, metrics, scores is part of the contract (pipeline.go,
\* "cada etapa lee la fila persistida por la anterior"): a complete pass under which no
\* other process changed a table leaves every priced security with a score computed
\* from the rows of that pass.
PassIsComplete ==
    [][\A p \in Workers : Finishes(p) =>
          \A s \in Securities : bar[s] > 0 => ScoredByThisPass(s)']_vars

\* Step 3 of runValuationOne: no 10-K filed after as_of can inform a valuation
\* dated as_of.
NoLaterFiling == \A v \in valuations : v.filed <= v.asOf
=============================================================================
