--------------------------- MODULE PipelinePages ---------------------------
(***************************************************************************)
(* The two pages of the SPA that follow a background job by polling        *)
(* GET /pipeline/status (web/src/lib/useFetch.ts), composed with the job   *)
(* runner: the dashboard after POST /force-refresh and the watchlist page  *)
(* after PUT /watchlist/{ticker}.  Other clients (a second tab, curl) call *)
(* the API too.  A poll is two steps: the server answers, and the page     *)
(* handles the answer later.                                               *)
(***************************************************************************)
EXTENDS JobRunner

VARIABLES
    dash,   \* DashboardPage: what runRefresh('force') is doing and shows
    page,   \* WatchlistPage: the PUT under way, watchTicker, the poll answer
    owed    \* history: tickers of the page's PUTs that a job or the queue has
            \* accepted and no job has finished

pageVars == <<dash, page, owed>>
allVars == <<vars, dash, page, owed>>

NoTicker == "no ticker"
NoAnswer == [status |-> "none", waits |-> FALSE]

\* gen, outcome (history): the force job that the dashboard started in this process,
\* 0 when there is none, and how it ended.  shown: the status line, "none" while
\* there is none, "unknown" for "Refresh falló".  own (history): the answer that
\* ended the poll was about that job, and not about a later one or a later process.
DashInit == [polling |-> FALSE, gen |-> 0, outcome |-> "none", shown |-> "none",
             own |-> FALSE]

\* stale (history): the answer was sent before the last PUT was answered or failed.
PageInit == [putting |-> NoTicker, watch |-> NoTicker, answer |-> NoAnswer,
             stale |-> FALSE, stopped |-> "none"]

PagesInit == Init /\ dash = DashInit /\ page = PageInit /\ owed = {}

-----------------------------------------------------------------------------
(* DashboardPage.runRefresh('force')                                       *)

\* 202: the job runs; pollPipelineUntilDone starts.
DashForce ==
    /\ ~dash.polling
    /\ ForceRefresh
    /\ dash' = [DashInit EXCEPT !.polling = TRUE, !.gen = genSeq']
    /\ UNCHANGED <<page, owed>>

\* The POST fails: refused with 409, or its answer is lost and nobody follows the
\* job.
DashForceFails ==
    /\ ~dash.polling
    /\ ForceRefresh \/ UNCHANGED vars
    /\ dash' = [DashInit EXCEPT !.shown = "unknown"]
    /\ UNCHANGED <<page, owed>>

\* What an answer that ends the poll leaves: "idle" is not "error".
DashEnds == dash' = [dash EXCEPT !.polling = FALSE,
                                 !.shown = IF Status = "error" THEN "error" ELSE "ok",
                                 !.own = dash.gen # 0 /\ job.gen = dash.gen]

\* Mutants: the first answer ends the poll; only "done" ends it.
DashPollOnce ==
    /\ dash.polling
    /\ DashEnds
    /\ UNCHANGED <<vars, page, owed>>

DashPollUntilDone ==
    /\ dash.polling
    /\ Status = "done"
    /\ DashEnds
    /\ UNCHANGED <<vars, page, owed>>

\* One poll: the default isDone is status # "running".
DashPoll ==
    /\ dash.polling
    /\ Status # "running"
    /\ DashEnds
    /\ UNCHANGED <<vars, page, owed>>

\* A GET that fails throws: runRefresh shows it and follows the job no more.
DashPollFails ==
    /\ dash.polling
    /\ dash' = [dash EXCEPT !.polling = FALSE, !.shown = "unknown"]
    /\ UNCHANGED <<vars, page, owed>>

-----------------------------------------------------------------------------
(* WatchlistPage.mutate and its polling effect                             *)

PagePut(t) ==
    /\ page.putting = NoTicker
    /\ AddWatchlist(t)
    /\ page' = [page EXCEPT !.putting = t]
    /\ UNCHANGED <<dash, owed>>

\* The 200 of the PUT: setWatchTicker(t).  Another ticker cancels the poll under
\* way; the same ticker leaves the effect, and its poll, alone.
PagePutAnswered ==
    /\ page.putting # NoTicker
    /\ page.putting \notin puts
    /\ page' = [page EXCEPT
                  !.putting = NoTicker,
                  !.watch = page.putting,
                  !.answer = IF page.watch = page.putting THEN @ ELSE NoAnswer,
                  !.stale = page.watch = page.putting /\ page.answer # NoAnswer,
                  !.stopped = "none"]
    /\ UNCHANGED <<vars, dash, owed>>

\* The PUT fails on its way back: mutate shows it and follows nothing, and the poll
\* under way, if there is one, goes on.
PagePutFails ==
    /\ page.putting # NoTicker
    /\ page' = [page EXCEPT
                  !.putting = NoTicker,
                  !.stale = @ \/ (page.watch = page.putting /\ page.answer # NoAnswer)]
    /\ UNCHANGED <<vars, dash, owed>>

PageAsk ==
    /\ page.watch # NoTicker
    /\ page.answer = NoAnswer
    /\ page' = [page EXCEPT
                  !.answer = [status |-> Status, waits |-> page.watch \in Elems(pending)]]
    /\ UNCHANGED <<vars, dash, owed>>

\* Mutant: the default isDone, without the queue.
PageIsDoneDefault == page.answer.status # "running"

PageIsDone == page.answer.status # "running" /\ ~page.answer.waits

\* How the page leaves a ticker (history).  A page whose PUT is not answered yet
\* will start over, so it has not left.
Leaving == IF page.watch \notin owed \/ page.putting = page.watch THEN "served"
           ELSE IF page.stale THEN "stale" ELSE "early"

\* isDone(st): stop and reload the list; otherwise sleep and ask again.
PageHandle ==
    /\ page.answer # NoAnswer
    /\ page' = IF PageIsDone
               THEN [page EXCEPT !.watch = NoTicker, !.answer = NoAnswer, !.stale = FALSE,
                                 !.stopped = Leaving]
               ELSE [page EXCEPT !.answer = NoAnswer, !.stale = FALSE]
    /\ UNCHANGED <<vars, dash, owed>>

\* A GET that fails ends the effect, with "no se pudo seguir la ingesta".
PagePollFails ==
    /\ page.watch # NoTicker
    /\ page.answer = NoAnswer
    /\ page' = [page EXCEPT !.watch = NoTicker, !.stale = FALSE, !.stopped = "lost"]
    /\ UNCHANGED <<vars, dash, owed>>

-----------------------------------------------------------------------------
(* The server's steps, with the history they leave.                        *)

Accepted(t) == t \in Elems(pending') \/ (~job'.terminal /\ t \in Elems(job'.tickers))

ServerIngest(t) ==
    /\ RequestIngest(t)
    /\ owed' = IF page.putting = t /\ Accepted(t) THEN owed \cup {t} ELSE owed
    /\ UNCHANGED <<dash, page>>

ServerFinish(g) ==
    /\ FinishAndNext(g)
    /\ owed' = owed \ Elems(job.tickers)
    /\ dash' = IF dash.gen = g THEN [dash EXCEPT !.outcome = loops[g].result] ELSE dash
    /\ UNCHANGED page

ServerWork(g) ==
    /\ \/ \E s \in Stages : ReportStep(g, s)
       \/ \E r \in Results \ {"none"} : ExecReturn(g, r)
    /\ UNCHANGED pageVars

OtherClients ==
    /\ \/ \E t \in Tickers : AddWatchlist(t) \/ RemoveWatchlist(t)
       \/ ForceRefresh
       \/ Acquire
    /\ UNCHANGED pageVars

ServerRelease == Release /\ UNCHANGED pageVars

\* The requests of the pages and their answers may fail with the process, which the
\* actions above have; a page that was asleep asks the new one.
ServerRestart ==
    /\ Restart
    /\ owed' = {}
    /\ dash' = [dash EXCEPT !.gen = 0,
                            !.outcome = IF dash.polling /\ @ = "none" THEN "lost" ELSE @]
    /\ page' = [page EXCEPT !.putting = NoTicker]

PagesNext ==
    \/ DashForce \/ DashForceFails \/ DashPoll \/ DashPollFails
    \/ \E t \in Tickers : PagePut(t) \/ ServerIngest(t)
    \/ PagePutAnswered \/ PagePutFails \/ PageAsk \/ PageHandle \/ PagePollFails
    \/ \E g \in DOMAIN loops : ServerWork(g) \/ ServerFinish(g)
    \/ ServerRelease
    \/ OtherClients
    \/ ServerRestart

PagesSpec == PagesInit /\ [][PagesNext]_allVars

(***************************************************************************)
(* The clients owe nothing.  What the code does owe: an HTTP handler that  *)
(* was entered runs to its end, exec returns, because its context expires  *)
(* after jobTimeout and every call it makes takes that context, and the    *)
(* timers of the two pages fire.                                           *)
(***************************************************************************)
PagesFairness ==
    /\ WF_allVars(ServerRelease)
    /\ WF_allVars(\E t \in Tickers : ServerIngest(t))
    /\ WF_allVars(\E g \in DOMAIN loops : ServerWork(g) \/ ServerFinish(g))
    /\ WF_allVars(DashPoll)
    /\ WF_allVars(PageAsk)
    /\ WF_allVars(PageHandle)
    /\ WF_allVars(PagePutAnswered)

FairPagesSpec == PagesSpec /\ PagesFairness

-----------------------------------------------------------------------------
(* Properties.                                                             *)

\* The dashboard never announces an end before the job it started has ended, and
\* what it announces of that job is how it ended.  A request that failed announces
\* nothing about the job; an answer about a later job or process may say "ok" of one
\* that failed or was lost (DashboardPage.tsx:138-162, useFetch.ts:89-95).
DashboardNotEarly ==
    dash.shown \in {"ok", "error"} =>
        /\ dash.outcome # "none"
        /\ dash.own => dash.outcome = dash.shown

\* With an answer newer than the PUT, the watchlist page never stops following a
\* ticker whose ingestion is still queued or running, although the status passes
\* through "done" and "idle" while a POST /refresh holds the queue.
PageNotEarly == page.stopped # "early"

\* "Termina siempre" (pollPipelineUntilDone): both pages stop polling.
PagesStop == /\ dash.polling ~> ~dash.polling
             /\ \A t \in Tickers : page.watch = t ~> page.watch # t
=============================================================================
