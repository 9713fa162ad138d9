----------------------------- MODULE MarketData -----------------------------
(***************************************************************************)
(* The market data of one security: its daily bars, its sector, its beta   *)
(* and the history of its beta, written by jobs that download from Yahoo   *)
(* and Finviz while the days go by, the chart fills in and splits rewrite  *)
(* it.                                                                     *)
(*                                                                         *)
(* A job is the prices stage followed by the sector stage of one process   *)
(* (RunPricesJob, RunSectorJob): a collector, or the pass of the API.  A   *)
(* download and the transaction that stores it are separate steps.         *)
(***************************************************************************)
EXTENDS Integers, FiniteSets, FiniteSetsExt

CONSTANTS
    Jobs,        \* the processes that write market data
    LastDay,     \* the last day of the model; days are numbered from 1
    Depth,       \* how many days the chart goes back (DefaultRange)
    MaxAge,      \* how old an observed beta may be (DefaultBetaMaxAgeDays)
    MaxSplits,   \* how often the source rewrites its adjusted series
    MaxPasses,   \* how many passes each job makes
    Sectors,     \* the labels a source may give
    Betas,       \* the betas Yahoo may give, in millionths
    None         \* no value: NULL, an absent row, a failed download

Raw == -1   \* an adjusted_close that is a quote; those of the chart count its rewrites

Bars == [close : {"chart", "quote"}, adjusted : 0 .. MaxSplits \cup {Raw},
         source : {"yahoo", "yahoo_quote"}]

ASSUME MarketAssumption ==
    /\ {LastDay, Depth, MaxPasses} \subseteq Nat \ {0}
    /\ {MaxAge, MaxSplits} \subseteq Nat
    /\ Betas \subseteq Nat
    /\ None \notin Sectors /\ None \notin Nat /\ None \notin Bars

VARIABLES
    day,       \* today
    chart,     \* the source: whether it has a bar of a day, and whether that bar has its close
    splits,    \* the source: how often its adjusted series was rewritten
    bars,      \* daily_prices
    sector,    \* securities.sector and industry
    beta,      \* securities.beta, the cache
    history,   \* beta_history
    job        \* where each job is, what it has downloaded and how many passes it has begun

sources == <<day, chart, splits>>
tables  == <<bars, sector, beta, history>>
vars    == <<day, chart, splits, bars, sector, beta, history, job>>

Days == 1 .. LastDay

\* KeyStatsFor and UpdateSecurityReference accept a beta in (0, 10].
ValidBeta(b) == b # None /\ 0 < b /\ b <= 10000000

\* securities.beta is NUMERIC(8,4) and beta_history.beta NUMERIC(10,6).
Cached(b) == ((b + 50) \div 100) * 100

Idle == [pc |-> "idle", got |-> None, asOf |-> 0, passes |-> 0]

Init ==
    /\ day = 1
    /\ chart = [d \in Days |-> "none"]
    /\ splits = 0
    /\ bars = [d \in Days |-> None]
    /\ sector = None
    /\ beta = None
    /\ history = [d \in Days |-> None]
    /\ job = [j \in Jobs |-> Idle]

-----------------------------------------------------------------------------
\* The source.

NextDay ==
    /\ day < LastDay
    /\ day' = day + 1
    /\ UNCHANGED <<chart, splits, tables, job>>

\* A bar appears in the chart of today, with its close or before it.
Trade ==
    /\ chart[day] = "none"
    /\ \E bar \in {"open", "closed"} : chart' = [chart EXCEPT ![day] = bar]
    /\ UNCHANGED <<day, splits, tables, job>>

FillIn ==
    /\ \E d \in Days : chart[d] = "open" /\ chart' = [chart EXCEPT ![d] = "closed"]
    /\ UNCHANGED <<day, splits, tables, job>>

Split ==
    /\ splits < MaxSplits
    /\ splits' = splits + 1
    /\ UNCHANGED <<day, chart, tables, job>>

-----------------------------------------------------------------------------
\* The prices stage.

Goto(j, pc, got) == job' = [job EXCEPT ![j].pc = pc, ![j].got = got]

Start(j) ==
    /\ job[j].pc = "idle"
    /\ job[j].passes < MaxPasses
    /\ job' = [job EXCEPT ![j].pc = "history", ![j].passes = @ + 1]
    /\ UNCHANGED <<sources, tables>>

\* The days of a download: the chart goes back Depth days.
InRange(d) == d <= day /\ d > day - Depth

\* GetHistorical keeps the bars with a close; without one the job goes on to the
\* sector stage, as it does when the download fails.
FetchHistory(j) ==
    /\ job[j].pc = "history"
    /\ LET closed == {d \in Days : InRange(d) /\ chart[d] = "closed"} IN
       \/ closed # {} /\ Goto(j, "store_history", [days |-> closed, adjusted |-> splits])
       \/ Goto(j, "reference", None)
    /\ UNCHANGED <<sources, tables>>

\* UpsertDailyPrices, the whole download in one transaction.
HistoryAfter(got) ==
    [d \in Days |-> IF d \in got.days
                    THEN [close |-> "chart", adjusted |-> got.adjusted, source |-> "yahoo"]
                    ELSE bars[d]]

StoreHistory(j) ==
    /\ job[j].pc = "store_history"
    /\ \/ bars' = HistoryAfter(job[j].got) /\ Goto(j, "quote", None)
       \/ UNCHANGED bars /\ Goto(j, "reference", None)
    /\ UNCHANGED <<sources, sector, beta, history>>

\* GetQuoteBar: the regular price at the date of the last bar, with or without a close.
FetchQuote(j) ==
    /\ job[j].pc = "quote"
    /\ LET listed == {d \in Days : InRange(d) /\ chart[d] # "none"} IN
       \/ listed # {} /\ Goto(j, "store_quote", [on |-> Max(listed)])
       \/ Goto(j, "reference", None)
    /\ UNCHANGED <<sources, tables>>

\* Mutant: the quote replaces the whole bar.
QuoteAfterReplaces(d) ==
    [bars EXCEPT ![d] = [close |-> "quote", adjusted |-> Raw, source |-> "yahoo_quote"]]

\* UpdateQuoteClose: only the close of a bar that exists, a synthetic bar otherwise.
QuoteAfter(d) ==
    IF bars[d] = None
    THEN [bars EXCEPT ![d] = [close |-> "quote", adjusted |-> Raw, source |-> "yahoo_quote"]]
    ELSE [bars EXCEPT ![d].close = "quote"]

StoreQuote(j) ==
    /\ job[j].pc = "store_quote"
    /\ bars' = QuoteAfter(job[j].got.on) \/ UNCHANGED bars
    /\ Goto(j, "reference", None)
    /\ UNCHANGED <<sources, sector, beta, history>>

-----------------------------------------------------------------------------
\* The sector stage.

\* What quoteSummary may answer; an error is an answer without either.
YahooAnswers == [sector : Sectors \cup {None}, beta : Betas \cup {None}]

\* resolveReferenceData: Finviz is asked when Yahoo gives no sector, and the
\* beta of Yahoo is kept whatever Finviz answers.
Resolved(yahoo, finviz) ==
    [sector |-> IF yahoo.sector # None THEN yahoo.sector ELSE finviz,
     beta   |-> IF ValidBeta(yahoo.beta) THEN yahoo.beta ELSE None]

FetchReference(j) ==
    /\ job[j].pc = "reference"
    /\ \E yahoo \in YahooAnswers, finviz \in Sectors \cup {None} :
         LET ref == Resolved(yahoo, finviz) IN
         job' = [job EXCEPT ![j].pc = IF ref.sector = None /\ ref.beta = None
                                      THEN "idle" ELSE "store_reference",
                            ![j].got = IF ref.sector = None /\ ref.beta = None
                                       THEN None ELSE ref,
                            ![j].asOf = day]
    /\ UNCHANGED <<sources, tables>>

\* Mutant: an answer without beta clears the cache.
BetaAfterCleared(ref) == IF ref.beta = None THEN None ELSE Cached(ref.beta)

\* COALESCE($4, securities.beta)
BetaAfter(ref) == IF ref.beta = None THEN beta ELSE Cached(ref.beta)

\* Mutant: the observation of the day is kept, as ON CONFLICT DO NOTHING would.
BetaHistoryAfterKeeps(ref, asOf) ==
    IF ref.beta = None \/ history[asOf] # None THEN history
    ELSE [history EXCEPT ![asOf] = ref.beta]

\* upsertBetaObservationExec
BetaHistoryAfter(ref, asOf) ==
    IF ref.beta = None THEN history ELSE [history EXCEPT ![asOf] = ref.beta]

\* Mutant: no CHECK on the rounded beta.
StorableAlways(ref) == TRUE

\* The CHECK of securities.beta holds after the rounding.
Storable(ref) == ref.beta # None => Cached(ref.beta) > 0

\* UpdateSecurityReference: the catalog and the history in one transaction, under
\* the date at which the call began.
StoreReference(j) ==
    /\ job[j].pc = "store_reference"
    /\ LET ref == job[j].got IN
       \/ /\ Storable(ref)
          /\ sector' = ref.sector
          /\ beta' = BetaAfter(ref)
          /\ history' = BetaHistoryAfter(ref, job[j].asOf)
       \/ UNCHANGED <<sector, beta, history>>
    /\ Goto(j, "idle", None)
    /\ UNCHANGED <<sources, bars>>

\* The process dies: what is not committed is gone.
Die(j) ==
    /\ job[j].pc # "idle"
    /\ Goto(j, "idle", None)
    /\ UNCHANGED <<sources, tables>>

Next ==
    \/ NextDay \/ Trade \/ FillIn \/ Split
    \/ \E j \in Jobs :
         \/ Start(j) \/ FetchHistory(j) \/ StoreHistory(j) \/ FetchQuote(j)
         \/ StoreQuote(j) \/ FetchReference(j) \/ StoreReference(j) \/ Die(j)

Spec == Init /\ [][Next]_vars

-----------------------------------------------------------------------------
\* The readings of the analytic stages.

Seen(b) == [beta |-> b, reason |-> ""]
Unseen(reason) == [beta |-> None, reason |-> reason]

\* Mutant: the observation closest to the date, before or after it.
BetaAsOfClosest(h, d) ==
    LET known == {e \in Days : h[e] # None} IN
    IF known = {} THEN Unseen("beta_missing")
    ELSE Seen(h[CHOOSE e \in known : \A f \in known : (e - d) * (e - d) <= (f - d) * (f - d)])

\* GetBetaAsOf
BetaAsOf(h, d) ==
    LET known == {e \in Days : e <= d /\ h[e] # None} IN
    IF known = {} THEN Unseen("beta_missing")
    ELSE IF d - Max(known) > MaxAge THEN Unseen("beta_stale")
    ELSE Seen(h[Max(known)])

-----------------------------------------------------------------------------
TypeOK ==
    /\ day \in Days
    /\ chart \in [Days -> {"none", "open", "closed"}]
    /\ splits \in 0 .. MaxSplits
    /\ bars \in [Days -> Bars \cup {None}]
    /\ sector \in Sectors \cup {None}
    /\ beta \in {Cached(b) : b \in Betas} \cup {None}
    /\ beta # None => beta > 0
    /\ history \in [Days -> Betas \cup {None}]

\* The cache always has an observation behind it, whatever the jobs do at the
\* same time and wherever one dies: "one transaction, no third state"
\* (storage/securities.go:150-154).
CacheHasRow == beta # None => \E d \in Days : history[d] # None /\ beta = Cached(history[d])

\* A beta that is known stays known, in the cache and in the history
\* (storage/securities.go:142-145, "must NOT erase a beta that is already known").
BetaSurvives ==
    [][/\ beta # None => beta' # None
       /\ \A d \in Days : history[d] # None => history'[d] # None]_vars

\* A day that has passed changes its beta only by an observation that was made on
\* that day or before and whose transaction ends after midnight: an observation
\* of today never informs a valuation of yesterday (storage/betahistory.go:33-46).
PastBetaIsSettled ==
    [][\A d \in Days : d < day /\ BetaAsOf(history', d) # BetaAsOf(history, d) =>
          \E j \in Jobs : job[j].pc = "store_reference" /\ job[j].asOf <= d]_vars

\* A bar that the chart gave stays a bar of the chart with its adjusted close:
\* what a quote changes in it is its close alone (storage/daily_prices.go:47-60).
ChartBarsStay ==
    [][\A d \in Days : bars[d] # None /\ bars[d].source = "yahoo" =>
          /\ bars'[d] # None /\ bars'[d].source = "yahoo"
          /\ bars'[d].adjusted # Raw]_vars
=============================================================================
