# Verification of Abys Invest

TLA+ models of Abys Invest, the equity screener of this repository: a Go
backend that downloads filings, prices and reference data, canonicalises them,
computes valuations and scores, and serves them to a React page. The models are
translated from the code under `src/`; `PROJECT.json` maps each definition to the
lines it stands for. TLC checks them on small instances and TLAPS proves the
theorems listed below for every value of the constants.

    tlc -workers 2 -config MCPipelinePages.cfg MCPipelinePages
    tlapm JobRunnerProofs.tla

## 1. The system: an inventory

Two binaries write the database and one SPA reads it through the API.
`cmd/collector` downloads (EDGAR, Yahoo, Finviz, BLS) and `cmd/analytics`
computes; `cmd/api` does both inside `internal/pipeline` when a user asks for a
refresh. Nothing coordinates the processes but PostgreSQL: no advisory lock, and a
transaction per security and artefact. Inside the API process one mutex, the one
of `jobRunner`, does.

| Component | State it keeps | Operations | Interacts with | Hard behaviour | What makes it correct |
|---|---|---|---|---|---|
| Job runner (`api/jobs.go`, `refresh.go`) | current job, synchronous flag, FIFO of tickers, generation counter: memory only | `requestIngest`, `start`, `acquire`/`release`, `report`, `finishAndNext`, `snapshot` | handlers call it, a loop goroutine per job calls the pipeline | handlers against goroutines; hand-over of the queue; loss of the process | one writer at a time, no queue without a server, a status that is true, results that stay |
| Polling pages (`useFetch.ts`, Dashboard, Watchlist) | what the page follows and shows | force refresh, PUT, poll, handle an answer | the API's status | an answer that is older than a PUT; a restart between polls | neither end early nor poll for ever |
| EDGAR ingestion (`pipeline/collector.go`, `normalize.go`, `staging.go`) | `edgar_staging`, `fundamentals` | resolve, reset, download, insert, list pending, normalise | collector and API at once; dictionary version | crash between insert and mark; a row deleted while it is normalised; fresh against plain runs | a mark implies facts, success implies facts, fresh means the new dictionary |
| Concept dictionary (`concepts.go`, `companyfacts.go`) | none | choose a fact among competing tags | ingestion | non-transitive comparisons | one answer whatever the order of the facts |
| Upstream clients (`edgar`, `yahoo`, `macro` `client.go`) | ticker channel of the limiter, attempt, crumb session | `get`, `wait`, backoff, alternate path | every downloader | context ends at any point; Retry-After; a token that waited | bounded rate, bounded retries, every GET ends |
| Market data (`yahoo/prices.go`, `quote.go`, `securities.go`, `betahistory.go`) | `daily_prices`, `securities.sector/beta`, `beta_history` | history upsert, quote patch, reference update, beta as of a date | collector and API at once | partial answers, midnight, death between two writes | the cache has its row; a known beta survives; the past is settled |
| Analytic stages (`pipeline/pipeline.go`, `growthwacc.go`, `valuation.go`, `analytics.go`, `qualityrelative.go`) | `growth_metrics`, `wacc_metrics`, `valuation_results`, `derived_metrics`, `scores` | growth, valuation, metrics, scores; chains of them | each stage reads the rows of the one before; several processes | an order of stages nobody enforces in the schema; bars and filings between two reads | nothing from after the date of a row; a complete pass leaves a complete score |
| Score engine (`score/score21.go`, `dimensions.go`) | none | five dimensions, renormalised weights, signal | model configuration | missing dimensions, zero weights, rounding | a score within its dimensions |
| Score rows and replay (`storage/scores.go`, `backtest/scorereplay.go`, migration 017) | `scores`, its trace | upsert, replay, what-if, full chain, backfill | parameter sets | edits of a set, old revisions, migrations run at each start | a trace replays to the score it is stored with |
| Model configuration (`modelcfg`, `parametersets.go`) | `parameter_sets` | env and set layers, validation, fallback | scores stage | a set that is missing or invalid | the configuration of a row is the one it names |
| Growth, WACC and valuation engines | `growth_metrics`, `wacc_metrics`, `valuation_results` | rates from annual series; CAPM or the marked fallback; Graham and DCF in three scenarios, guard, confidence, snapshot | each reads the rows of the one before, of any date | null, zero and missing-input policy; ladders of fallbacks; inputs rewritten on the way to the snapshot | a confidence that the evidence carries, ordered scenarios, a snapshot that computes the row again, nothing left of a withdrawn method |
| Quality engine | none (its result is in the score) | bands over ratios, five sub-blocks, coverage | scores stage | absent metrics, an assumed tax rate | a high confidence rests on enough recent years |
| Relative engine and comparables | none (reads `derived_metrics` of the security and of its peers) | nine metrics against two medians | scores stage | few peers, one side missing, numbers that cannot be compared | a side is over fifty for what is better and under it for what is worse |
| Derived metrics, fiscal-year alignment | `derived_metrics` | ratios of facts anchored to one year, two revisions of the metrics | stages | facts of a year that arrive one by one, denominators of 0, rows of older revisions | one value of a year for every reader of that year |
| SMA backtest | none | a pass over a price series | CLI | first bar, open trade at the end | product of the returns of the trades |
| Macro series (BLS) | `macro_series` | download and upsert | collector | as the clients | as the clients |
| Read API, loader | none | compose rows into responses | tables | rows of several revisions | reads what it says it reads |
| Migration runner (`storage/db.go`) | schema | every file again at each start | each process | no lock, repeated files | a second run changes nothing |
| Watchlist store | `watchlist` | add, remove, list | job runner | row committed before the job is asked | (in the job runner) |
| Static files, reason strings, DSN filter, deployment | none | I/O and constants | | | not modelled |

`PROJECT.json` lists the same components with their files and status, and under
`hazards` the places of the code where an order of steps, a failure, a stale read
or a boundary can go wrong, with the property that watches each one.

## 2. The modules

| Module | What it models | State and its counterpart in the code |
|---|---|---|
| `PipelineSlot` | abstract promise of the job runner: a slot with one occupant and a queue that goes over as a whole | no counterpart: the contract |
| `JobRunner` | `jobRunner`, its HTTP handlers and the end of the process; every critical section of `mu` is one action | `job` = `r.job`, `sync`, `pending`, `genSeq`; `loops` = the live goroutines; `puts` = PUT handlers between the INSERT and `requestIngest` |
| `PipelinePages` | `JobRunner` composed with the dashboard and watchlist pages and other clients | `dash`, `page` = React state and the answer in flight; `owed` is history |
| `EdgarIngest` | runs of `RunEdgarJob` by any number of processes, one action per SEC call or transaction | `staging`, `facts` = the tables; `run[r]` = the local state of a run |
| `AnalyticStages` | passes of the four calculation stages by any number of processes while bars and filings arrive | the five tables, each row reduced to the dates and configurations it was made from; `w[p]` = a process; `disturbed` is history |
| `UpstreamClient` | one GET after another of an upstream client, in ticks of time | `token`/`phase` = the limiter's `time.Ticker`, `call` = the loop of `get`; `sent`, `form`, `quiet`, `rest` observe |
| `MarketData` | prices and reference data of one security, several jobs, days, splits | `bars`, `sector`, `beta`, `history` = the tables; `job[j]` = a job and what it has downloaded |
| `ScoreEngine` | the pure part of the score and of its configuration, in fixed point | operators only |
| `ScoreStore` | the rows of `scores`, the processes that write them, their replays and the backfill | `sets`, `rows` = the tables; `proc`, `pass` = a process, its environment and resolved configuration |
| `CanonicalFacts` | from a companyfacts payload to the rows of `fundamentals`: the filters, the key of a period, the choice between the facts that compete for it, the derived concepts | operators only |
| `FiscalFacts` | what the engines read of `fundamentals` at a date, the alignment to one fiscal year, the derived numbers | operators only |
| `GrowthEngine`, `WaccEngine`, `ValuationEngine` | the three engines, over `FiscalFacts` | operators only |
| `DerivedMetrics` | the twenty metrics, their revisions, the upsert and the medians of the table | operators only |
| `QualityEngine`, `RelativeEngine` | the two engines inside the score, over `DerivedMetrics` | operators only |
| `EngineChain` | the engines in their chain: one action per stage, over the rows that the others left, in any order | `growths`, `waccs`, `valuations`, `metrics` = the tables; `scores` = the row written last; `fundamentals` = the rows that `CanonicalFacts` makes of the payload of `company` and of what `arrived`, which `beta_history` is taken from too; `day` and `close` = the last bar |
| `JobRunnerProofs`, `PipelinePagesProofs`, `EdgarIngestProofs`, `AnalyticStagesProofs`, `UpstreamClientProofs`, `MarketDataProofs`, `ScoreStoreProofs`, `EngineChainProofs` (with the theorems of `CanonicalFacts`) | theorems and proofs | |
| `MC*` | constants of the instances | |

What the modules compose: `PipelinePages` extends `JobRunner`, `JobRunner`
instantiates `PipelineSlot` with a refinement mapping, `ScoreStore` extends
`ScoreEngine`, `EngineChain` extends `CanonicalFacts` and the five engines and instantiates `ScoreEngine`.
`AnalyticStages` and `EngineChain` are two views of the same stages: the first has
their interleavings and failures and no numbers, the second the numbers, a stage
being one step. What a job of the runner executes is abstract in `JobRunner`
(it reports stages and returns); `EdgarIngest` and `AnalyticStages` have it, as
processes that do not know of each other, because that is what a collector beside
an API is.

Conventions. An action is a critical section, a transaction or an upstream call,
never smaller and never larger, so what can happen between two of them happens in
the model. A call that fails is an alternative of the action. Operators that
replace one definition by a plausible bug stand before the definition and say
"mutant"; no specification uses them. A variable or field called history or
observation is not in the code: no guard reads it. They are `owed`, `stale`,
`outcome`, `own` and `stopped` (pages), `alone` (EdgarIngest), `intact` and
`disturbed` (AnalyticStages), `sent`, `form`, `quiet` and `rest` (UpstreamClient),
`applied` and `cfg` (rows of ScoreStore).

Abstractions worth knowing: in `EdgarIngest` a payload of SEC is the set of concepts
that a version of the dictionary reads in it, in `CanonicalFacts` it is the sequence
of its facts; a calculated row is the set of dates and
configurations it was calculated from; weights are hundredths and dimension scores
hundredths of a point, betas millionths; a split halves a price. In the engines a
date is a number of quarters, fiscal year y ends in quarter 4y and is filed one
later; an amount of a statement is in millions, a price or a value per share in
cents, a rate in tenths of a per cent, a ratio in thousandths, a score in
hundredths. A division rounds down where the code has a float64, so a comparison
with a threshold is exact to those units. A reason is kept where a rule reads it
and left out where it is only text. `None` is a nil pointer.

## 3. The runs

Passing runs check the invariants and temporal properties named in their cfg.

| Run | Instance and its bounds | What it shows |
|---|---|---|
| `pipeline` | `FairPagesSpec`; 2 tickers, 1 stage, 3 mutating calls or restarts | `MutualExclusion`, `StatusIsTruthful`, `NoRepeatedWork`, `QueueIsFIFO`, `ResultIsFinal` and the refinement of `PipelineSlot`; `QueueIsServed` and `PagesStop` under fairness; `PageNotEarly`, `DashboardNotEarly` |
| `edgar` | 4 companies, 5 classes (one company with two), 3 runs (plain, fresh by ticker, fresh of the staged universe with another dictionary), 2 pending rows per listing, failures of downloads and statements, crashes | `NormalizedHasFacts`, `SuccessIsIngested`, `FreshIsFresh`, `FactsMeetPrices` |
| `stages` | 1 security, 2 days, two processes with one chain each; any step may fail, an input may be missing and a process may die | `ChainIsOfItsDate`, `PassIsComplete` |
| `upstream` | 2 requests per second, seconds of 4 ticks, 3 attempts, backoffs of 1 and 2 ticks; a Retry-After of 1 or 3 ticks, in seconds, as a date or as a number that overflows | `RateIsBounded`, `RetriesAreTransient`, `RetryAfterIsHonored`, `GetEnds` |
| `market` | 2 processes of one pass each, 3 days, a chart of 2 days, betas may be one day old, a split, betas with and without more than four decimals and one that rounds to 0 | `CacheHasRow`, `BetaSurvives`, `PastBetaIsSettled`, `ChartBarsStay` |
| `score` | 2 processes, one set, two environments (a margin of 150 and of 0), 2 days, 2 writes, 2 edits, legacy rows of 2.0.0 and 2.1.0 | `ReplayReproduces`, `SetsCoexist`, `BackfillIsInvisible` |
| `engines` | 9 companies with up to six years of filings, 2 bars, 2 peers of which one is inactive, whose metrics are there or not yet, two later 10-Ks (one with a restatement and a beta, one with the first diluted earnings per share); `MaxEvents` = 1 | `ValuationIsEarned`, `ScenariosAreOrdered`, `SnapshotReplays`, `WithdrawnIsNowhere`, `RightSideOfFifty`, `HighQualityIsEvidenced` |

Why the bounds are enough. `pipeline`: three calls are what a queue behind
a refresh or a job, a second request and a restart need, and two tickers what an
order needs. `edgar`: two runs can race on a company, and the third finds what both
left; a company without canonical facts makes a row that never gets its mark, and with two
pending rows per listing (the code takes five) and four companies the row of a company
waits behind a full batch of older ones. `stages`: a pass is at one
security at a time and keeps no state between two, so one security and two days
(the date of the pass and a later one) give every relation of dates; of two processes
with one pass each (`Passes`), the second meets the rows of the first or runs between its
steps. `upstream`: the waits end before, at and after the next firing of the ticker, and
what a Retry-After asks for is shorter and longer than the client's own backoff. `market`: midnight may
pass between any two steps. `score`: the margins reach the values that the calculation
replaces (0 and out of range). `engines`: the companies are chosen so that every
outcome of an engine occurs: both methods, one, none; a method withdrawn for its
units; a flow that is normalised; signals that diverge; a flow that is negative; a
share class that is converted; a beta that is observed, expired, or renewed; a
quality of each confidence; both sides of the relative score and either alone; a
security better, and one worse, than every median; one that reports only basic
earnings per share, and one with no return on equity or capital, which reach a quality
of high confidence with two metrics missing. The one event is either the
next bar, with what is due by then or without it, or a 10-K (and the beta) between
two stages of the first day: rows of two days, or of two sets of facts, then meet,
and a stage reads one row of each table. The compound
rates between -60 % (`CagrFloor`) and 70 % (`CagrCeiling`) are told apart, beyond
every threshold that reads them, and the volatilities up to 200 %
(`VolatilityCeiling`), beyond the worst band.

Runs that stop on purpose (`CHECK_DEADLOCK FALSE`) are those with bounded calls,
runs, passes, days or writes; `upstream` never stops.
`score` and `stages` use symmetry, of the two processes, and have no liveness property.

Fairness. `PagesFairness`: a handler that was entered runs to its end; a loop's
executor returns because its context ends after `jobTimeout` and every call it
makes takes that context; the timers of the two pages fire. Nothing is assumed of
the clients, nor that a process ever restarts. `UpstreamClient!Fairness`: time
passes, the scheduler runs the client, and `http.Client.Timeout` answers what the
upstream does not.

Runs that must find a violation, one statement of a comment or a test each:

| Run | What the repository says | What the code does |
|---|---|---|
| `runner_covered` | `requestIngest` never fails and queues what the job in progress does not cover (`internal/api/jobs.go:14`, `:196`) | a ticker of the last, finished job that is asked for during POST /refresh is neither queued nor run |
| `edgar_universe` | the staged universe is exactly the companies whose fundamentals the canonicalizer wrote (`internal/storage/staging.go:99`) | a fresh run whose download fails has deleted the row: the company keeps its facts and leaves the universe |
| `stages_filing` | no 10-K filed after as_of can inform a valuation of that date (`internal/pipeline/valuation.go:107`) | the growth and WACC rows are read without a bound on their date; another process may have written newer ones |
| `engines_split` | the EPS of a period has one source, the first 10-K that reported it, and a post-split re-expression is a no-op (`internal/collect/edgar/concepts.go:324`, `:337`) | the re-expression comes under the fiscal year of the later filing, which is another key: both rows stay and the series takes the later one, next to years that nothing rescales |
| `score_chain` | without a parameter set a replay reproduces with the weights of the trace (`internal/backtest/scorereplay.go:114`) | the full chain uses the environment's weights and margin |

## 4. The theorems

`JobRunnerProofs`, for any tickers, stages and bound on calls: `TypeCorrect`,
`OneWriter`, `TruthfulStatus`, `QueueHasServer`, `WorkIsNotRepeated` (invariants),
`FinalResults`, `QueueOrder` (actions) and `RunnerImplementsSlot`. None of the
properties is inductive alone: `MutualExclusion` speaks of goroutines and every
guard reads flags. `Inv` ties them: `Owner` says that a loop lives exactly while
the published job is not terminal and that it is that job's loop, the job's
generation is not ahead of the counter, POST /refresh excludes a job, the steps
shown are those the loop has reported, and a queue implies that the slot is taken.
`InvInvariant` has one lemma per action; the action properties and the
refinement (one lemma per kind of step: take, hand over, leave) use it.

`PipelinePagesProofs`, for any tickers, stages and bound on calls.
`PagesRunTheRunner`: each step of the composed system is a step of the runner or
leaves it alone, so all of the above holds under the pages, which
`PagesKeepTheSlot` says of the refinement and of the mutual exclusion. Every request of
a page may fail on its way, there or back, with or without a restart. `DashboardWaits`
and `PageWaits` need four facts that the pages' own variables do not show
(`PagesInv`): while the job that the dashboard started has no outcome it is the
published job and not terminal (`ForceJobRuns`, where the runner's `Inv` is needed: a
generation is never reused); an answer about that job has the result that it ended with
(`ForceResult`); a ticker that is owed is in the queue or in the job that
runs (`OwedIsCovered`, from `requestIngest` and the hand-over of the whole queue); and
an answer newer than the PUT of a ticker that is still owed makes the page go on
(`AnswerIsCautious`).

`EdgarIngestProofs`, for any companies, classes, runs, dictionaries, payloads and
faults. `TypeCorrect`. `MarkedRowsHaveFacts`: `NormalizedHasFacts` is not inductive,
since the transaction writes under the ticker that the run has in its hands and marks
the row at the head of its queue; `WritesItsRow` says that they are the same.
`FreshRewrites`: a fresh run that was alone (`Solo`) meets no row of its company
between its DELETE and its INSERT and therefore processes its own row and no other
(`FreshWalk`). `SuccessMeansFacts` has no hypothesis about the catalog or the limit of
a batch. `KeepsItsRow` follows the row of the company through a run that is alone: it is
normalised, or in the batch, or behind a full batch whose rows are older and each
written or still to be written (`WaitsBehind`); a row that fails ends the success of the
target. So at a success either the company has its facts, or its row waits behind a
batch of rows that all got theirs (`WrittenBefore`), which is what the code does beyond
five pending rows (section 7). `FactsReachPrices` assumes that neither the SEC catalog nor the lookup of
classes fails; section 7 says what happens otherwise. Its invariant, `PricedWalk`, says
that the class that a run by CIK has resolved, and then the row that it processes, is
one with prices.

`AnalyticStagesProofs`, for any securities, days, workers, jobs and faults, whatever the
workers overlap. No theorem has a hypothesis; what holds only of a pass under which
nobody else changed a table (`disturbed`) says so in the property. `ChainInv`: the growth and WACC
tables have the same keys (`Twins`, one transaction writes both), no row of theirs knows
a filing later than its date or is later than the last bar (`Dated`), nor does one of the
later stages (`Cut`), a worker's date is never ahead of the last bar (`HeldDates`), and
what an undisturbed worker has read is still so when it writes (`ReadsHold`). `PassInv`
says how far an undisturbed chain is: for each stage and each target that it has passed,
the row that this pass owed is there and is made of the rows of this pass (`Done`); a
step that fails clears `intact` and the obligation with it. Both are kept by the steps of
another worker because such a step either leaves the tables alone or makes everyone under
way disturbed (`Spares`, `OthersHold`, `OthersPass`). `ChainDates` and `PassesComplete`
follow. That a valuation under overlap may know a later filing is the run `stages_filing`.

`UpstreamClientProofs`, for any rate, tick, number of attempts and numbers of a Retry-After.
`CallInv` counts each attempt before it leaves, ties the place in the loop to the
last answer of each URL, and the wait of a backoff to what the last answer asked for
(`Silent`: the seconds that were read, the client's own backoff for a date, and nothing
for a number that overflows); `TypeCorrect`, `AttemptsAreAllowed` and `WaitsAreHonored`
follow. `RateStaysBounded` needs `Budget`, which speaks of every stretch of time at once: the
requests of the last k ticks and what may still leave without a new firing (`Stock`)
are at most n + 2 as soon as n firings cover the k ticks, counting from the phase of
the ticker. A tick moves the stretch by one, a firing raises the stock and the
number of firings together, and a request moves one from the stock to the sent; the
property is the case of a whole second.

`MarketDataProofs`, for any processes, days, depth and betas: `CacheIsObserved`,
`KnownBetaSurvives`, `PastIsSettled`, `BarsOfTheChartStay`, `TypeCorrect`. The
invariant adds `Reference(j)` to `CacheHasRow`: a job about to
store holds a date that is a day and a beta that is a value or none. That cache
and history commit together is what makes it inductive. A database whose cache was
filled before migration 015 created the history is not an initial state. `Typed` says
the same of every value that a job holds between a download and its transaction
(`HeldHistory`, `HeldQuote`, `HeldReference`), and that a downloaded chart has adjusted
closes (`ChartAdjusts`), without which a second download could undo a bar of the
first. `PastIsSettled` rests on `ReadingIsCausal`: `BetaAsOf` of a day reads no
observation of a later one.

`ScoreStoreProofs`, for any processes, sets, environments, inputs and dates:
`TraceReplays`, `RowsOfSetsCoexist`, `BackfillKeepsReplays` and `TypeCorrect`. The
invariant adds
`Shaped(r)`: a row's price is that of its trace's input, its revision is one that was
written, and a missing margin occurs only where the calculation worked with 30,
which is why the backfill is invisible (`MissingMargin`: absent, 0 and 30 score
alike). `TypeCorrect` is about ranges: a score is between 0 and 100 for every set,
override and environment, weights of zero included. Each dimension is
clamped or is a step function (`DimensionsAre`), and the weighted mean of the
dimensions that are there is divided by the weights that were used (`ResultIs`).

`EngineChainProofs`, for any payloads, betas, arrivals, bars and peers, and any order
of the stages. The first three theorems leave the numbers of the engines as they are:
each proof needs what an engine does not do, and no arithmetic. `Siding` needs that what
is compared is a number, `Ranking` and `TypeCorrect` of which size; `Keeping`, `Evidencing`
and `Measuring` are about which rows the numbers come from.

- `Earning`: `ValuationIsEarned`. `CalculateWacc` gives a source other than the marked
  fallback only over a usable beta (`WaccNeedsBeta`), `BetaAsOf` gives one only when it
  is young (`BetaIsRecent`), and `CalcConfidence` gives more than "low" only when no
  ceiling is low (`CeilingsHold`), that is, at a rate of level 1 or 2, which such a
  WACC row gave (`RateLevels`, `ConfidenceNeedsRows`). The property speaks of
  valuations only, and the next one may read a WACC row of any day, so the invariant
  `Inv` has it of every WACC row: one that is no fallback has its beta.
- `Withdrawing`: `WithdrawnIsNowhere`. `GuardWithdraws` says what the guard leaves of a
  method, `CalculateWithdraws` what is left of it in the margins, the components and
  the base values. A score reads the valuation of its own day and the close of its
  own day, so `GuardInv` adds that a valuation of the current day is within the guard
  at the current close; it is kept because no step changes the close of a day.
- `Replaying`: `SnapshotReplays`. `ResultsRepeat` says that `CalculateValuation` of
  the inputs it recorded is the same result, whatever the confidence of the growth
  when the signals diverge, since it lowers it again; `ReplayInv` keeps that of every
  row of a company other than BRK-B, and that the growth and WACC rows are the
  results of their inputs.

- `Siding`: `RightSideOfFifty`. The arithmetic is short (`OneMetricSides`, `SumIsBounded`
  for the mean, `SidesAreRight`), but it holds of integers, and a compared value is the
  end of a long way: the survivor of a group of facts is one of the group
  (`SurvivorIsOfTheGroup`), the canonical facts and those derived from them are finitely many
  (`DedupeIsFinite`, `DerivedAreFacts`), so that the newest observable one exists
  (`NewestIsThere`) and every compared metric is a number or absent
  (`FirstMetricsAreNumbers`, `LaterMetricsAreNumbers`); of finitely many rows there is a
  median (`RankIsTaken`: for each rank a row has it, ties included). `TablesInv` says it
  of the two tables. The P/FCF is in neither: its medians are never there.
- `Ranking`: `ScenariosAreOrdered`. The three scenarios differ by factors of the growth,
  of the rate of discount and of the terminal growth, so the property is that each step
  of a value is monotone in them: the powers of a path, the flows, the perpetuity and
  their sum (`ProductOrder`, `QuotientOrder` and the lemmas that count along a path).
  Monotone needs signs, and the signs come from the bounds: a compound rate is at least
  the floor of its configuration, the blend and the plausibility clamp keep it there, and a
  scenario whose rate of discount is not above its terminal growth has no value. `ScenariosInv` has them
  of each growth and WACC row next to `TablesInv`, since a valuation reads the
  rows of an earlier step, and the series behind them are finite sequences of numbers
  (`SeriesIsTyped`). `NoneIsNoNumber` is used here: a scenario that has a value is there.
- `TypeCorrect`: `TypeOK`. That a table has one row of a date is the upsert
  (`PutKeepsOneRow`), and that growth and WACC have the same dates is that one step writes
  both (`PutAddsADate`). The ranges are the rest: a band is within its scale
  (`BandInRange`), the mean of numbers within a range is within it (`SumsInRange`,
  `MeansInRange`), so that a sub-block, the weighted sub-blocks (`BlocksInRange`) and the
  two sides of the relative engine (`RelativeInRange`) stay on the scale, and the score of
  the dimensions that are there (`ScoreIsInRange`). Each mean is over a set that is not
  empty, which is what the code's gates are for. The metrics under the bands must be
  numbers first: the deviations are squares, so the root is of a natural
  (`VariationIsANumber`), and every denominator is positive. `TypesInv` adds to
  `ScenariosInv` that a row of growth has numbers for rates and that a base value, which
  the score reads a step later, is a number or absent.

- `Keeping` and `Evidencing`: what is reported stays reported, and `HighQualityIsEvidenced`.
  The payload of a company is made of parts, its history and one part for each arrival,
  and a fact's place in the payload is its place in its part, moved (`FlattenHasPlaces`,
  `PayloadHasPlaces`). Facts of two parts never compete (`Apart`), so a group lies in one
  part (`GroupInItsPart`), moving a group does not change which fact survives
  (`SurvivorShifts`), and the deduplicated payload is the union of the deduplicated
  parts (`DedupeOfParts`). More parts are then more rows, the derived ones included
  (`DerivedGrow`, `RowsGrow`), which is `Keeping`. `Evidencing` goes back from the
  confidence to the table: 85 % of seventeen metrics leave at most two missing
  (`HighNeedsMost`), a series of fewer than four years already misses two, so the growth
  row has its rate over five years (`HighQualityNeeds`), which takes six points
  (`FiveYearsTakeSix`); and a tax rate is that of one recent year with its three facts
  (`TaxIsOfOneYear`). `EvidenceInv` adds to `TypesInv` that the table is that of the
  arrivals so far, and, of every growth row and every score, that the number of years it
  was computed from is still in the table. The growth row is an older one than the
  score, which is why the invariant must have it.
- `Measuring`: the part of it that needs no hypothesis, of the moment of writing. When a
  score is written with a quality of high confidence, a year of at most six quarters ago
  has an operating income, a tax and an income before it.

`Keeping` and `Evidencing` have a hypothesis, `NothingIsRefiled`: no two 10-Ks of a
company have a fact of the same concept, period end and fiscal year. TLC evaluates it
for the instances (`InstanceIsNotRefiled`). It is the usual case, since the 10-K of the
next year repeats a period under its own fiscal year, and it is needed: a second 10-K
of the same year replaces the row with its filing date (`storage/fundamentals.go`, the
`ON CONFLICT`), and what a score of an earlier day rested on is then filed after it.

The first proof of `Evidencing` failed, and rightly: the property then asked for four
years of *diluted* earnings per share and a metric of every sub-block. A company that
reports only basic ones has a five-year rate all the same (`runGrowthWaccOne` falls back
to them), and one without a positive equity and invested capital misses both metrics of
the profitability; either is still 15 of 17. The run had no such company, so TLC had not
seen it. The property now says what the code does, and the run has both companies.

Of `CanonicalFacts`, in the same module:

- `OrderOfTwo` (two facts of different filings that compete for one row: the same one
  survives in either order) and `OriginalSurvives` (within one row, the rescaled EPS of a
  later filing does not replace the first).
- `BestSurvives`: among any number of competing facts, wherever they stand in a payload
  of any length, the row is that of the preferred tag, then of the last filing, if no
  two of them are a split of each other. The proof is an induction over the groups of a
  payload (`SurvivorFolds`, `BestOfTheGroup`, `DedupeByGroups`).
- `OrderOfMany`: with a tag or a filing that tells each two of them apart, the same facts
  in another order, or repeated, give the same rows.

The hypotheses of the last two are needed. With a split between two of three
facts the order decides which one survives, and so it does for two facts of one tag in
one filing (section 7, `newerFact` and `periodKey`). The run `engines_split` is what none of the
four covers: the same period under two keys.

Recursion. A sum over the dimensions, a doubled backoff, the count of the requests of
a second and the enumeration of ORDER BY are recursive functions or folds. The proofs
do not use an induction principle over an operator, which none of the provers can
instantiate: they take the set of the numbers for which the fact fails, and its
least element (`UpTo`, `LeastOf`), from the well-foundedness of the naturals, or of the subsets of a
finite set (`TakingInduction`). A fold has a value because
a function that follows its equation on the small sets exists (`SurvivorFolds`,
`SumIsBounded`).

Assumptions: the named `ASSUME` of the modules, which TLC evaluates on the passing runs.
`CallsAssumption`, `MarketAssumption` (the marks for "raw" and "none" are not values of
a bar), `StoreAssumption`, `InputsAssumption` (an input of a score is a number of its
unit or missing), `IngestAssumption` (a dictionary reads at least one concept, limits
are positive), `ClientAssumption`, `StagesAssumption`, `NoneIsNoNumber`
(a missing value is no number), `EventsAreCounted`, `DaysAreDates`, `BetasAreDated`,
`PayloadsAreFacts` (a payload is a sequence of facts of the dictionary, with whole
numbers) and `TablesAreNumbers` (closes, older rows and the rows of peers hold numbers,
and are finitely many).

Only model-checked:

- liveness (`QueueIsServed`, `PagesStop`, `GetEnds`), which TLAPS does not reach.

## 5. The plan

Done, in this order: `JobRunner` with `PipelineSlot`, its proofs and
`PipelinePages`; `EdgarIngest`; `AnalyticStages`; `UpstreamClient`; `MarketData`
with its proofs; `ScoreEngine` and `ScoreStore` with their proofs.

Then the numbers: `FiscalFacts`, the growth, WACC, valuation, quality and relative
engines, `DerivedMetrics`, their chain and its proofs; and `CanonicalFacts`, which
gives the chain its rows. After them the proofs of `PipelinePages`, `EdgarIngest`,
`AnalyticStages` and `UpstreamClient`, and the type invariants that were left; last
the facts that compete for a row, and what a quality of high confidence rests on.

Next:

1. The SMA backtest against a reference definition over short series.
2. The Yahoo crumb session, the rest of the model configuration, forward returns.

## 6. What is not modelled

- Floating point: the engines are modelled in fixed point; NaN, the infinities and
  what the code does against them are not.
- The environment's and the sets' parameters of the engines: `EngineChain` has the
  default configuration. That growth and WACC take the environment's one and the
  other stages that of the set is in `AnalyticStages`.
- The sensitivity table and the dispersion of the valuation, the texts of reasons,
  and `internal/compare`, a read.
- The SMA backtest, forward returns and the Yahoo crumb session, which the plan names.
- HTML and JSON parsing, SQL text, rendering, TLS, flags, static files, deployment
  and the reason strings: I/O or constants without state of their own.
- Failures of the SEC catalog and of the class lookup are actions of `EdgarIngest`
  that no run enables; `FactsMeetPrices` does not hold under them (below).
- Read handlers, which change nothing. `GET /score` appears as the replay.

## 7. Divergences noticed while modelling

The comments of the code and the code disagree in more places than the five violated
runs show. No run checks these; each names the line and the comment.

- src/internal/api/jobs.go:333 — finishAndNext replaces the finished job by the chained one in one critical section, so no status between them is ever visible; web/src/lib/useFetch.ts:85 says "en la rendija entre dos jobs el estado pasa por 'done' antes de volver a 'running'".
- src/internal/api/jobs.go:349 — nextLocked overwrites r.job in the critical section that published its terminal state, so the result (and the error) of a job with a queue behind it is never served; internal/api/jobs.go:94 says of a terminal job: "el job sigue consultable (GET /pipeline/status lo devuelve)".
- src/web/src/pages/DashboardPage.tsx:138 — runRefresh treats every final status but "error" as success, and the final status may be "idle" (the API was restarted) or that of a job chained after the force-refresh, whose failure was overwritten; it then shows "Pipeline completado" (web/src/pages/DashboardPage.tsx:146), although web/src/lib/useFetch.ts:88 says "si el API se reinicia, el estado vuelve a 'idle' y el bucle sale".
- src/web/src/pages/DashboardPage.tsx:162 — one GET of the status that fails ends the poll, with the text "Refresh falló", while the job goes on; the page neither follows it any more nor reloads when it is done. The watchlist page does the same (WatchlistPage.tsx:115). src/web/src/lib/useFetch.ts:88-90 says that the poll always ends and throws when the request fails; src/web/src/pages/DashboardPage.tsx:135-136 that here "solo se sigue su progreso y se recarga al terminar".
- src/web/src/pages/WatchlistPage.tsx:123 — a second PUT of the ticker that is being followed does not restart the effect (watchTicker does not change), so an answer sent before that PUT ends the poll while the new job runs; the comment says the effect ends "cuando el pipeline está ocioso Y el ticker ya no está en cola" (web/src/pages/WatchlistPage.tsx:94).
- src/internal/pipeline/collector.go:457 — The DELETE and the INSERT of a fresh run are two statements without a transaction or lock: when another process (an API of the previous build in a force refresh) inserts and normalises the company in between, InsertStaging conflicts, nothing is pending and the run counts the company as a success without applying its dictionary. src/internal/pipeline/collector.go:453 says the fresh re-ingest "garantiza que el mapeo corregido se aplique al payload completo".
- src/internal/pipeline/collector.go:82 — resolveEdgarTargets returns the empty list of an empty staged universe, and runEdgarJobWithClient replaces an empty list by DefaultCompany: -job edgar|all -universe staged ingests AAPL. Only -job universe checks for it. src/internal/storage/staging_integration_test.go:36 says "es el CLI el que lo convierte en mensaje y salida 1, para no \"ingerir\" el DefaultCompany por sorpresa".
- src/migrations/003_create_fundamentals.sql:21 — The unique key of fundamentals contains fiscal_year, which is nullable (companyfacts.go keeps fy as *int); NULLs are distinct in a UNIQUE constraint, so ON CONFLICT never fires for such a fact and each normalisation adds a row. src/internal/collect/edgar/normalize.go:28 says "re-running a normalized row produces the same rows (ON CONFLICT), never duplicates".
- src/internal/storage/fundamentals.go:22 — A fresh run deletes the staging row only; UpsertFundamentals adds and updates, so the rows of a concept or period the new dictionary no longer produces stay. src/internal/pipeline/collector.go:33 says "`fresh` re-ingests each CIK from scratch".
- src/internal/storage/staging.go:107 — The staged universe lists CIKs and each is re-ingested under one preferred class; a force refresh, whose targets are tickers, writes fundamentals under every class of a company. A re-ingest that succeeds for every company leaves the other classes with the old dictionary. src/Makefile:100 says "reingest-fundamentals: RE-canoniza los fundamentals ya ingeridos".
- src/internal/pipeline/collector.go:110 — Without the catalog a CIK target has no candidates and its name is the CIK: the facts go to a security whose ticker is the CIK, whatever class has the prices. src/internal/pipeline/collector.go:274 says "La resolución es ahora determinista y con continuidad: preferencia por datos de mercado, luego fundamentals, luego fallback por orden de catálogo".
- src/internal/pipeline/collector.go:495 — On a conflict ingestCompany reprocesses the pending rows of every company and returns their first error: one company whose payload has no canonical fact makes every later run over an ingested company fail. src/internal/pipeline/collector.go:494 says "No es un error que no haya nada pendiente: la ingesta es idempotente".
- src/internal/pipeline/collector.go:495 — NormalizePending(5) takes the five oldest pending rows of any company: when the company's own row waits behind five others, ingestCompany returns success with that row still pending. src/internal/pipeline/collector.go:465-466 says that it "stages it (idempotente por CIK) and normalizes" (`SuccessIsIngested` has the case).
- src/internal/pipeline/valuation.go:98 — A failed growth step leaves the newest growth and WACC rows at an earlier day, and the valuation of today uses them. src/internal/pipeline/valuation.go:87 says "artifacts of a security share one date".
- src/internal/pipeline/valuation.go:163 — When no method has a value runValuationOne returns without touching the table; a row of the same day, written before the facts were re-ingested, stays and the scores stage reads it. src/internal/pipeline/valuation.go:25 says "Unavailable = ningún método con valor ⇒ sin fila".
- src/internal/pipeline/valuation.go:135 — when the annual series cannot be read runValuationOne returns an error and the security has no valuation. src/internal/pipeline/valuation.go:128-129 says "A load failure degrades the method (it simply does not apply), it never aborts the valuation".
- src/internal/pipeline/analytics.go:565 — trendInputs reads the last bars without a bound on their date, so the trend of a score may know a bar that another process stored after the date of the score was read; its errors, and fewer than 200 bars, leave the trend out without a log. src/internal/pipeline/valuation.go:87 says "artifacts of a security share one date".
- src/internal/pipeline/analytics.go:419 — runOneScore reads the valuation row and, after the whole quality stage, reads it again for the P/FCF, outside any transaction: another process may rewrite it in between. src/internal/pipeline/analytics.go:418 says "El p_fcf sale del snapshot de la misma fila 2.0.0".
- src/internal/pipeline/analytics.go:92 — In the job all the growth stage runs with ModelConfigFromEnv while valuation and scores run with the parameter set, under whose id the score is stored. src/internal/pipeline/valuation.go:43 says "with a parameter set is reproducible with that set (ConfigFromModelConfig)".
- src/internal/pipeline/analytics.go:346 — resolveScoreConfig falls back to the environment when the set is missing and the job scores with it. src/internal/storage/parametersets.go:13 says "It is an ERROR and not an empty set on purpose: an unknown set must abort the".
- src/internal/collect/edgar/client.go:250 — The channel of a time.Ticker holds one firing, and wait takes it at once: a client that was idle sends one request with the waiting token and another at the firing that follows, so that more than Rps requests fall within one second (Rps + 1 by the limiter alone). src/internal/collect/edgar/client.go:3-4 says "SEC EDGAR fair-access policy requires an identifying User-Agent on every request and at most 10 requests/second", and lines 258-260 "one token is produced per interval, capping the throughput at rps requests/second".
- src/internal/collect/edgar/client.go:230 — parseRetryAfter gives 0 for a Retry-After that is a date, and the client then waits for its own backoff, which may be shorter; a number of seconds whose product with time.Second overflows gives some other wait. src/internal/collect/edgar/client.go:190 says "Transient: retry honoring Retry-After when present".
- src/internal/collect/yahoo/client.go:154 — When io.ReadAll of a 2xx body fails, get returns the error at once, with attempts left. src/internal/collect/yahoo/client.go:122-123 says "get performs a GET with rate limiting and retries on transient failures (429, 5xx, network errors)"; a connection reset in the middle of a companyfacts payload of tens of MB is a network error.
- src/internal/storage/securities.go:194 — updateSecurityReference writes the same beta to securities.beta, NUMERIC(8,4), and to beta_history.beta, NUMERIC(10,6): one of more than four decimals is stored as two different numbers. src/migrations/015_create_parameter_sets_and_beta_history.sql:73-76 says "securities.beta stays as the CACHE of the last observation ... The invariant cache == last row is maintained by UpdateSecurityReference in ONE transaction".
- src/internal/storage/securities.go:157 — UpdateSecurityReference fixes the date of the observation before its transaction begins: when two processes store around midnight, the transaction dated yesterday may commit last, and the cache then holds yesterday's beta while the last row is today's. src/migrations/015_create_parameter_sets_and_beta_history.sql:75-76 says "The invariant cache == last row is maintained by UpdateSecurityReference in ONE transaction".
- src/internal/storage/securities.go:193 — The UPDATE assigns sector = $2 and industry = $3 whatever they are, and resolveReferenceData returns a reference with only a beta when neither source gives a sector: a known sector becomes NULL. src/internal/storage/securities.go:141 says "Sector/industry are overwritten when provided".
- src/internal/collect/yahoo/prices.go:98 — IngestPrices refreshes the bars of the last five years; older ones keep the adjusted close of the download that last covered them, so that after a split or a dividend the stored series has two adjustments (GetDailyPricesBySecurity without bounds, which the SMA backtest reads, returns both). src/internal/storage/daily_prices.go:53-54 says "`adjusted_close` is the HISTORICAL series (adjusted_close: the base of every return, SMA and momentum)".
- src/internal/score/score21.go:211 — calculateScore21 replaces a margin of 0 by 30 in its own copy of the input, and BuildTrace21 stores the 0 of the caller: the trace of a score computed with 30 says 0 (MARGIN_OF_SAFETY=0 passes EnvFloatRange). src/internal/score/score21.go:358 says "MarginOfSafety is the effective MOS used for the Graham/DCF dimensions" and :362 "0 is a MEANINGFUL value (MOS desactivado)".
- src/internal/score/score21.go:232 — final stays 50 whenever weightUsed is 0, also when a dimension is valid and its configured weight is 0, which MARKET_CONTEXT_WEIGHT=0 and Validate allow. src/internal/score/score21.go:199-201 says "The ONLY place a literal 50 can still appear is the 'no dimension at all' case".
- src/internal/score/score21.go:242 — The signal is SignalForScore(final), whose thresholds are the literals 70 and 40: buy_threshold and hold_threshold of a parameter set are resolved and validated, and nothing reads them. src/internal/modelcfg/modelcfg.go:346-347 says the signal thresholds "are only movable from a parameter set".
- src/internal/pipeline/analytics.go:486 — The row stores the id of the set, and the parameters of a set (and the environment under it) may change while the id stays: two rows of one id come from two configurations. src/internal/score/score21.go:190-191 says "ParameterSetID is the identity of the configuration that produced this score".
- src/internal/storage/scores.go:156 — GetScoreByTickerAndVersion selects by date and revision, without parameter set and without ORDER BY: of two sets scored on a date it returns either. src/internal/storage/scores.go:153-154 says that "picking one silently would make the dimensions served depend on which job ran last", which is why the function exists.
- src/internal/backtest/scorereplay.go:575 — replayFullChain takes the adjusted close of the date for the price of the input, and the row was scored with the close: after a split or a dividend the chain no longer reproduces it. src/internal/pipeline/analytics.go:430-431 says "El precio de la VALORACIÓN sigue siendo el `close` del último bar".
- src/internal/backtest/scorereplay.go:229 — With -as-of the candidates are every row up to the date, whether -all-revisions is given or not. src/internal/backtest/scorereplay.go:124-128 says AllRevisions replays every row "instead of only the latest one" and "Default false keeps the historical report intact: one row per ticker".
- src/internal/pipeline/analytics.go:239 — interest_coverage divides the EBIT of the anchor year by funds["interest_expense"], the last annual interest whatever its year: when an annual filing has an interest and no operating income, the pair of the year before is complete, no reason is given, and the ratio has two years. src/internal/pipeline/analytics.go:234-235 says a mismatched anchor means the ratio "would MIX fiscal years, so the input is nil instead of a wrong number".
- src/internal/collect/edgar/concepts.go:213 — newerFact is not transitive: of three facts of one key, a 6.00, its split 3.00 and a restatement 3.10 between them, the one that survives depends on the order of the slice, since the split rule compares the first with the second only. src/internal/collect/edgar/concepts.go:212 says "Determinista".
- src/internal/collect/edgar/concepts.go:204 — periodKey has the end and not the start of a period: the fourth quarter and the year that a 10-K reports under fp FY share a key, and newerFact, for two facts of one filing, keeps the first in the slice. src/internal/collect/edgar/concepts.go:198 says the key "identifies a canonical period".
- src/internal/collect/edgar/concepts.go:389 — a ratio is a split when it is within 1e-6 of an integer, and EPS is published with two decimals: 6.11 re-expressed 4:1 as 1.53 is not one. src/internal/collect/edgar/concepts.go:345 says of what the rule covers: "2:1, 4:1, 3:1 redondeado".
- src/internal/valuation/concepts.go:36 — FCFFrom adds capex, and the ingestion stores the payments of capex as positive and subtracts them (src/internal/collect/edgar/concepts.go:309): a company whose free_cash_flow row is missing gets a flow that is twice the capex too high. src/internal/valuation/concepts.go:33-34 says "capex is expected to be negative (that is how it is stored), so it is ADDED".
- src/internal/valuation/concepts.go:53 — FCFFromEarnings has no caller but its test. src/internal/valuation/concepts.go:51-52 says "the loader reuses it for rows where OCF is not available".
- src/internal/valuation/parse.go:102 — PFcfFromSnapshot divides the price of a share by the free cash flow of the company, without the shares, and that number is compared with the P/FCF of the medians. src/internal/valuation/peg.go:11 says "P/FCF = Market Cap / FCF", and src/internal/valuation/parse.go:84 that one "must not define a second P/FCF".
- src/internal/valuation/valuation.go:321 — the snapshot records the inputs after the conversion of the share class, with the ticker, and Calculate converts them again: the replay of BRK-B divides its EPS by 1500 twice. src/internal/valuation/valuation.go:318-320 says the echo shows the values really used, "so the snapshot replays the same result".
- src/internal/growth/growth.go:284 — the window of pick is a number of points: a series with a missing year compounds over years + 1 points that span more years. src/internal/growth/growth.go:278-279 says it is "the exact window".
- src/internal/pipeline/analytics.go:512 — methodReasons keeps the reasons by the status of the method and not by the method that they explain: an unavailable Graham is given the reasons of the DCF too, and the other way round. src/internal/pipeline/analytics.go:510-511 says the Graham sentence "must not be blamed for a discount rate that only affected the DCF".
- src/internal/storage/comparables.go:55 — the medians of a sector join derived_metrics with every security of the sector, rows of every date, while the count of peers is that of the active ones: an inactive peer is in the median and not in the count, and a peer weighs as many times as it has dates. src/internal/storage/comparables.go:29-32 says that it returns "the number of peer securities" and "per-metric sector medians".
- src/internal/backtest/scorereplay.go:599 — getSnapshot has no filter on model_version and no order: of two revisions of a date it returns either. src/internal/valuation/parse.go:90 says that the historical rows of 2.0.0 "must keep producing" theirs next to those of 2.1.0.
- src/internal/valuation/valuation.go:359 — when the flow was normalised the confidence of a DCF that is unavailable becomes "medium", since cap takes "" for a level above it. src/internal/valuation/plausibility.go:95 sets "" for a method that has no value.
- src/internal/wacc/wacc.go:198 — a WACC of high confidence needs a risk-free rate, a premium and a cost of debt that were observed, and runGrowthWaccOne never gives any: every observed WACC is a hybrid, and no valuation that is discounted at a WACC has a high confidence. src/internal/wacc/wacc.go:197 says "the ceiling requires EVERY parameter observed".
- src/internal/storage/derived_metrics.go:31 — the upsert touches the metrics of the batch; a metric that a second pass of the day no longer emits keeps the value of the first, and the relative engine reads it. src/internal/storage/derived_metrics.go:16-17 says "on conflict the value and snapshot are refreshed (idempotent)".
