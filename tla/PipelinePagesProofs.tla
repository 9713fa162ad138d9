------------------------ MODULE PipelinePagesProofs ------------------------
(***************************************************************************)
(* The two polling pages composed with the job runner, for every set of    *)
(* tickers and stages and any number of calls.  The composed system is     *)
(* first shown to take only steps of the runner (so the runner's Inv       *)
(* holds of it), then invariants relate what the pages remember to the     *)
(* runner's state: ForceJobRuns and ForceResult for the dashboard,         *)
(* OwedIsCovered and AnswerIsCautious for the watchlist page.              *)
(***************************************************************************)
EXTENDS PipelinePages, JobRunnerProofs

DashType == [polling : BOOLEAN, gen : Nat, outcome : Results \cup {"lost"},
             shown : {"none", "ok", "error", "unknown"}, own : BOOLEAN]

PagesTypeOK ==
    /\ dash \in DashType
    /\ page \in [putting : Tickers \cup {NoTicker}, watch : Tickers \cup {NoTicker},
                 answer : [status : {"none", "idle", "running", "error", "done"},
                           waits : BOOLEAN],
                 stale : BOOLEAN, stopped : {"none", "served", "stale", "early", "lost"}]
    /\ owed \subseteq Tickers

\* While the job the dashboard started has no outcome, it is the running job.
ForceJobRuns ==
    dash.polling /\ dash.outcome = "none" => job.gen = dash.gen /\ ~job.terminal

\* While the job that is shown is the one the dashboard started, what the dashboard
\* will learn of its end is how it ended.
ForceResult ==
    /\ dash.gen <= genSeq
    /\ dash.gen # 0 /\ job.gen = dash.gen =>
          /\ job.kind # "none"
          /\ dash.outcome = IF ~job.terminal THEN "none"
                            ELSE IF job.failed THEN "error" ELSE "ok"

\* What is owed waits in the queue, or is being ingested.
OwedIsCovered ==
    \A t \in owed : t \in Elems(pending) \/ (~job.terminal /\ t \in Elems(job.tickers))

\* An answer newer than the PUT of a ticker that is still owed makes the page go on.
AnswerIsCautious ==
    page.answer # NoAnswer =>
        /\ page.watch # NoTicker
        /\ page.watch \in owed /\ page.putting # page.watch /\ ~page.stale => ~PageIsDone

PagesInv ==
    /\ PagesTypeOK
    /\ ForceJobRuns
    /\ ForceResult
    /\ OwedIsCovered
    /\ AnswerIsCautious
    /\ DashboardNotEarly
    /\ PageNotEarly

-----------------------------------------------------------------------------
(* The composed system and the runner.                                     *)

\* A step of the pages is a step of the runner or leaves it alone.
LEMMA PagesStepIsRunnerStep == [PagesNext]_allVars => [Next]_vars
  <1> SUFFICES ASSUME PagesNext PROVE [Next]_vars
    BY DEF allVars
  <1>1. CASE DashForce \/ DashForceFails
    BY <1>1 DEF DashForce, DashForceFails, Next
  <1>2. CASE \/ DashPoll \/ DashPollFails
             \/ PagePutAnswered \/ PagePutFails \/ PageAsk \/ PageHandle \/ PagePollFails
    BY <1>2 DEF DashPoll, DashPollFails, PagePutAnswered, PagePutFails, PageAsk, PageHandle,
                PagePollFails
  <1>3. ASSUME NEW t \in Tickers, PagePut(t) \/ ServerIngest(t) PROVE Next
    BY <1>3 DEF PagePut, ServerIngest, Next
  <1>4. ASSUME NEW g \in DOMAIN loops, ServerWork(g) \/ ServerFinish(g) PROVE Next
    BY <1>4 DEF ServerWork, ServerFinish, Next, LoopStep
  <1>5. CASE ServerRelease \/ ServerRestart
    BY <1>5 DEF ServerRelease, ServerRestart, Next
  <1>6. CASE OtherClients
    BY <1>6 DEF OtherClients, Next
  <1> QED
    BY <1>1, <1>2, <1>3, <1>4, <1>5, <1>6 DEF PagesNext

\* Everything proved of the runner holds of the composed system.
THEOREM PagesRunTheRunner == PagesSpec => Spec
  <1>1. PagesInit => Init
    BY DEF PagesInit
  <1> QED
    BY <1>1, PagesStepIsRunnerStep, PTL DEF PagesSpec, Spec

-----------------------------------------------------------------------------
(* What a step of the runner does to the job and to the queue.             *)

\* Elems of the next state's queue, read as a set of the present one.
LEMMA ElemsOfNext ==
    Elems(pending)' = Elems(pending') /\ Elems(job.tickers)' = Elems(job'.tickers)
  BY DEF Elems

\* The drained queue is the new job.
LEMMA DrainCovers ==
    ASSUME NEW ls, DrainAfter(ls)
    PROVE  /\ job'.terminal = FALSE /\ job'.tickers = pending
           /\ Elems(job.tickers)' = Elems(pending)
  BY DEF DrainAfter, LaunchAfter, NewJob, Elems

\* A step that keeps what the queue and the running job cover keeps what is owed.
LEMMA CoveredStays ==
    ASSUME OwedIsCovered, owed' \subseteq owed,
           job'.terminal = job.terminal, job'.tickers = job.tickers,
           Elems(pending) \subseteq Elems(pending')
    PROVE  OwedIsCovered'
  BY ElemsOfNext DEF OwedIsCovered

\* A step that keeps the job, as far as the dashboard knows of it.
LEMMA ResultStays ==
    ASSUME Inv, PagesInv, dash'.gen = dash.gen, dash'.outcome = dash.outcome,
           job'.gen = job.gen, job'.kind = job.kind, job'.terminal = job.terminal,
           job'.failed = job.failed, genSeq' = genSeq
    PROVE  ForceResult'
  BY DEF PagesInv, ForceResult

\* A step that publishes a newer job.
LEMMA ResultIsOlder ==
    ASSUME Inv, PagesInv, dash'.gen = dash.gen, NEW ls, NEW kind, NEW tickers,
           LaunchAfter(ls, kind, tickers)
    PROVE  ForceResult'
  <1>1. genSeq \in Nat /\ dash.gen \in Nat /\ dash.gen <= genSeq
    BY DEF Inv, TypeOK, PagesInv, PagesTypeOK, DashType, ForceResult
  <1>2. genSeq' = genSeq + 1 /\ job'.gen = genSeq + 1
    BY DEF LaunchAfter, NewJob
  <1> QED
    BY <1>1, <1>2 DEF ForceResult

-----------------------------------------------------------------------------
(* One lemma per action: PagesInv, with the runner's Inv, is inductive.    *)

LEMMA PagesInitInv == PagesInit => PagesInv
  <1> SUFFICES ASSUME PagesInit PROVE PagesInv
    OBVIOUS
  <1>1. dash = DashInit /\ page = PageInit /\ owed = {}
    BY DEF PagesInit
  <1>2. PagesTypeOK
    BY <1>1 DEF PagesTypeOK, DashType, DashInit, PageInit, NoAnswer, Results
  <1>3. ForceJobRuns /\ ForceResult /\ DashboardNotEarly
    BY <1>1 DEF ForceJobRuns, ForceResult, DashboardNotEarly, DashInit, PagesInit, Init
  <1>4. OwedIsCovered /\ AnswerIsCautious /\ PageNotEarly
    BY <1>1 DEF OwedIsCovered, AnswerIsCautious, PageNotEarly, PageInit
  <1> QED
    BY <1>2, <1>3, <1>4 DEF PagesInv

\* A step that leaves the pages alone only has to keep the running job of the
\* dashboard and what covers the owed tickers.
LEMMA PagesUntouched ==
    ASSUME PagesInv, UNCHANGED <<dash, page>>, owed' \subseteq Tickers,
           ForceJobRuns', ForceResult', OwedIsCovered',
           page.answer # NoAnswer /\ page.watch \in owed' /\ page.putting # page.watch
               => page.watch \in owed
    PROVE  PagesInv'
  <1>1. PagesTypeOK' /\ DashboardNotEarly' /\ PageNotEarly'
    BY DEF PagesInv, PagesTypeOK, DashboardNotEarly, PageNotEarly
  <1>2. PageIsDone' <=> PageIsDone
    BY DEF PageIsDone
  <1>3. AnswerIsCautious'
    BY <1>2 DEF PagesInv, AnswerIsCautious
  <1> QED
    BY <1>1, <1>3 DEF PagesInv

\* A step of the runner that keeps its job and only adds to its queue.
LEMMA QueueGrows ==
    ASSUME Inv, PagesInv, UNCHANGED pageVars, genSeq' = genSeq,
           job'.gen = job.gen, job'.terminal = job.terminal, job'.tickers = job.tickers,
           job'.kind = job.kind, job'.failed = job.failed,
           Elems(pending) \subseteq Elems(pending')
    PROVE  PagesInv'
  <1>1. ForceJobRuns'
    BY DEF PagesInv, ForceJobRuns, pageVars
  <1>2. OwedIsCovered'
    BY CoveredStays DEF PagesInv, pageVars
  <1>3. ForceResult'
    BY ResultStays DEF pageVars
  <1> QED
    BY <1>1, <1>2, <1>3, PagesUntouched DEF PagesInv, PagesTypeOK, pageVars

\* A launch from an idle pipeline: nothing was owed, no force job was running.
LEMMA IdleFacts ==
    ASSUME Inv, PagesInv, ~Busy
    PROVE  /\ owed = {}
           /\ ~(dash.polling /\ dash.outcome = "none")
  <1>1. job.terminal /\ Elems(pending) = {}
    BY ElemsEmpty DEF Inv, NoTrappedQueue, Busy
  <1> QED
    BY <1>1 DEF PagesInv, OwedIsCovered, ForceJobRuns

LEMMA DashForceKeepsPagesInv ==
    ASSUME Inv, PagesInv, DashForce
    PROVE  PagesInv'
  <1>1. /\ dash' = [polling |-> TRUE, gen |-> genSeq', outcome |-> "none", shown |-> "none",
                    own |-> FALSE]
        /\ UNCHANGED <<page, owed>>
    BY DEF DashForce, DashInit
  <1>2. /\ job'.gen = genSeq' /\ job'.terminal = FALSE /\ genSeq' \in Nat
        /\ job'.kind = "force"
    BY DEF DashForce, ForceRefresh, Launch, LaunchAfter, NewJob, Inv, TypeOK
  <1>3. owed' = {}
    BY <1>1, IdleFacts DEF DashForce, ForceRefresh
  <1>4. PagesTypeOK'
    BY <1>1, <1>2 DEF PagesInv, PagesTypeOK, DashType, Results
  <1>5. ForceJobRuns' /\ ForceResult' /\ DashboardNotEarly'
    BY <1>1, <1>2 DEF ForceJobRuns, ForceResult, DashboardNotEarly
  <1>6. OwedIsCovered' /\ PageNotEarly'
    BY <1>1, <1>3 DEF PagesInv, OwedIsCovered, PageNotEarly
  <1>7. AnswerIsCautious'
    BY <1>1, <1>3 DEF PagesInv, AnswerIsCautious
  <1> QED
    BY <1>4, <1>5, <1>6, <1>7 DEF PagesInv

\* The POST fails: the dashboard follows nothing, whether a job runs or not.
LEMMA DashForceFailsKeepsPagesInv ==
    ASSUME Inv, PagesInv, DashForceFails
    PROVE  PagesInv'
  <1>1. /\ dash' = [polling |-> FALSE, gen |-> 0, outcome |-> "none", shown |-> "unknown",
                    own |-> FALSE]
        /\ UNCHANGED <<page, owed>>
    BY DEF DashForceFails, DashInit
  <1>2. PagesTypeOK'
    BY <1>1 DEF PagesInv, PagesTypeOK, DashType, Results
  <1>3. 0 <= genSeq'
    BY DEF DashForceFails, ForceRefresh, Launch, LaunchAfter, vars, Inv, TypeOK
  <1>4. ForceJobRuns' /\ ForceResult' /\ DashboardNotEarly' /\ PageNotEarly'
    BY <1>1, <1>3 DEF PagesInv, ForceJobRuns, ForceResult, DashboardNotEarly, PageNotEarly
  <1>5. OwedIsCovered'
    <2>1. CASE ForceRefresh
      BY <1>1, <2>1, IdleFacts DEF ForceRefresh, OwedIsCovered
    <2>2. CASE UNCHANGED vars
      BY <1>1, <2>2, CoveredStays DEF PagesInv, vars
    <2> QED
      BY <2>1, <2>2 DEF DashForceFails
  <1>6. AnswerIsCautious'
    BY <1>1 DEF PagesInv, AnswerIsCautious, PageIsDone
  <1> QED
    BY <1>2, <1>4, <1>5, <1>6 DEF PagesInv

LEMMA DashPollKeepsPagesInv ==
    ASSUME Inv, PagesInv, DashPoll
    PROVE  PagesInv'
  <1>1. /\ dash.polling /\ Status # "running" /\ UNCHANGED <<vars, page, owed>>
        /\ dash'.polling = FALSE /\ dash'.outcome = dash.outcome /\ dash'.gen = dash.gen
        /\ dash'.shown = IF Status = "error" THEN "error" ELSE "ok"
        /\ dash'.own = (dash.gen # 0 /\ job.gen = dash.gen)
    BY DEF DashPoll, DashEnds, PagesInv, PagesTypeOK, DashType
  <1>2. PagesTypeOK'
    BY DEF DashPoll, DashEnds, PagesInv, PagesTypeOK, DashType
  <1>3. job.terminal
    BY <1>1 DEF Status, Inv
  <1>4. dash.outcome # "none"
    BY <1>1, <1>3 DEF PagesInv, ForceJobRuns
  <1>5. ForceJobRuns' /\ ForceResult' /\ PageNotEarly'
    BY <1>1, <1>4, ResultStays DEF PagesInv, ForceJobRuns, PageNotEarly, vars
  <1>6. DashboardNotEarly'
    <2>1. dash'.own => dash.outcome = dash'.shown
      BY <1>1, <1>3 DEF PagesInv, ForceResult, Status
    <2> QED
      BY <1>1, <1>4, <2>1 DEF DashboardNotEarly
  <1>7. OwedIsCovered'
    BY <1>1, CoveredStays DEF PagesInv, vars
  <1>8. AnswerIsCautious'
    BY <1>1 DEF PagesInv, AnswerIsCautious, PageIsDone
  <1> QED
    BY <1>2, <1>5, <1>6, <1>7, <1>8 DEF PagesInv

\* A poll that fails ends the following, and says nothing of the job.
LEMMA DashPollFailsKeepsPagesInv ==
    ASSUME Inv, PagesInv, DashPollFails
    PROVE  PagesInv'
  <1>1. /\ UNCHANGED <<vars, page, owed>>
        /\ dash'.polling = FALSE /\ dash'.outcome = dash.outcome /\ dash'.gen = dash.gen
        /\ dash'.shown = "unknown"
    BY DEF DashPollFails, PagesInv, PagesTypeOK, DashType
  <1>2. PagesTypeOK'
    BY DEF DashPollFails, PagesInv, PagesTypeOK, DashType
  <1>3. ForceJobRuns' /\ ForceResult' /\ DashboardNotEarly' /\ PageNotEarly'
    BY <1>1, ResultStays DEF PagesInv, ForceJobRuns, DashboardNotEarly, PageNotEarly, vars
  <1>4. OwedIsCovered'
    BY <1>1, CoveredStays DEF PagesInv, vars
  <1>5. AnswerIsCautious'
    BY <1>1 DEF PagesInv, AnswerIsCautious, PageIsDone
  <1> QED
    BY <1>2, <1>3, <1>4, <1>5 DEF PagesInv

\* The page puts a ticker: its poll, if there is one, goes on.
LEMMA PagePutKeepsPagesInv ==
    ASSUME Inv, PagesInv, NEW t \in Tickers, PagePut(t)
    PROVE  PagesInv'
  <1>1. /\ page.putting = NoTicker
        /\ page' = [page EXCEPT !.putting = t]
        /\ UNCHANGED <<job, genSeq, pending, dash, owed>>
    BY DEF PagePut, AddWatchlist, runner
  <1>2. /\ page'.putting = t /\ page'.watch = page.watch /\ page'.answer = page.answer
        /\ page'.stale = page.stale /\ page'.stopped = page.stopped
    BY <1>1 DEF PagesInv, PagesTypeOK
  <1>3. PagesTypeOK'
    BY <1>1 DEF PagesInv, PagesTypeOK
  <1>4. ForceJobRuns' /\ ForceResult' /\ DashboardNotEarly' /\ PageNotEarly'
    BY <1>1, <1>2, ResultStays DEF PagesInv, ForceJobRuns, DashboardNotEarly, PageNotEarly
  <1>5. OwedIsCovered'
    BY <1>1, CoveredStays DEF PagesInv
  <1>6. AnswerIsCautious'
    BY <1>1, <1>2 DEF PagesInv, AnswerIsCautious, PageIsDone
  <1> QED
    BY <1>3, <1>4, <1>5, <1>6 DEF PagesInv

\* The PUT is answered: an answer to an older question is now stale.
LEMMA PagePutAnsweredKeepsPagesInv ==
    ASSUME Inv, PagesInv, PagePutAnswered
    PROVE  PagesInv'
  <1>1. /\ page.putting # NoTicker
        /\ UNCHANGED <<vars, dash, owed>>
        /\ page'.putting = NoTicker /\ page'.watch = page.putting /\ page'.stopped = "none"
        /\ page'.stale = (page.watch = page.putting /\ page.answer # NoAnswer)
        /\ page'.answer = IF page.watch = page.putting THEN page.answer ELSE NoAnswer
    BY DEF PagePutAnswered, PagesInv, PagesTypeOK
  <1>2. PagesTypeOK'
    <2>1. NoAnswer \in [status : {"none", "idle", "running", "error", "done"}, waits : BOOLEAN]
      BY DEF NoAnswer
    <2> QED
      BY <2>1 DEF PagePutAnswered, PagesInv, PagesTypeOK
  <1>3. ForceJobRuns' /\ ForceResult' /\ DashboardNotEarly' /\ PageNotEarly'
    BY <1>1, ResultStays DEF PagesInv, ForceJobRuns, DashboardNotEarly, PageNotEarly, vars
  <1>4. OwedIsCovered'
    BY <1>1, CoveredStays DEF PagesInv, vars
  <1>5. AnswerIsCautious'
    BY <1>1 DEF AnswerIsCautious
  <1> QED
    BY <1>2, <1>3, <1>4, <1>5 DEF PagesInv

\* The PUT fails for the page: what it was asked before is stale all the same.
LEMMA PagePutFailsKeepsPagesInv ==
    ASSUME Inv, PagesInv, PagePutFails
    PROVE  PagesInv'
  <1> DEFINE old == page.stale \/ (page.watch = page.putting /\ page.answer # NoAnswer)
  <1>1. /\ page' = [page EXCEPT !.putting = NoTicker, !.stale = old]
        /\ page.putting # NoTicker /\ UNCHANGED <<vars, dash, owed>>
    BY DEF PagePutFails, PagesInv, PagesTypeOK
  <1>2. old \in BOOLEAN
    BY DEF PagesInv, PagesTypeOK
  <1>3. page.watch = page.putting /\ page.answer # NoAnswer => old
    OBVIOUS
  <1>4. ~old => ~page.stale
    OBVIOUS
  <1> HIDE DEF old
  <1>5. /\ page'.putting = NoTicker /\ page'.watch = page.watch /\ page'.stale = old
        /\ page'.answer = page.answer /\ page'.stopped = page.stopped
    BY <1>1 DEF PagesInv, PagesTypeOK
  <1>6. PagesTypeOK'
    BY <1>1, <1>2 DEF PagesInv, PagesTypeOK
  <1>7. ForceJobRuns' /\ ForceResult' /\ DashboardNotEarly' /\ PageNotEarly'
    BY <1>1, <1>5, ResultStays DEF PagesInv, ForceJobRuns, DashboardNotEarly, PageNotEarly, vars
  <1>8. OwedIsCovered'
    BY <1>1, CoveredStays DEF PagesInv, vars
  <1>9. AnswerIsCautious'
    BY <1>1, <1>3, <1>4, <1>5 DEF PagesInv, AnswerIsCautious, PageIsDone
  <1> QED
    BY <1>6, <1>7, <1>8, <1>9 DEF PagesInv

\* A poll that fails leaves the ticker, and the page says that it could not follow.
LEMMA PagePollFailsKeepsPagesInv ==
    ASSUME Inv, PagesInv, PagePollFails
    PROVE  PagesInv'
  <1>1. /\ page' = [page EXCEPT !.watch = NoTicker, !.stale = FALSE, !.stopped = "lost"]
        /\ page.answer = NoAnswer /\ UNCHANGED <<vars, dash, owed>>
    BY DEF PagePollFails
  <1>2. page'.answer = page.answer /\ page'.stopped = "lost"
    BY <1>1 DEF PagesInv, PagesTypeOK
  <1>3. PagesTypeOK'
    BY <1>1 DEF PagesInv, PagesTypeOK
  <1>4. ForceJobRuns' /\ ForceResult' /\ DashboardNotEarly' /\ PageNotEarly'
    BY <1>1, <1>2, ResultStays DEF PagesInv, ForceJobRuns, DashboardNotEarly, PageNotEarly, vars
  <1>5. OwedIsCovered'
    BY <1>1, CoveredStays DEF PagesInv, vars
  <1>6. AnswerIsCautious'
    BY <1>1, <1>2 DEF AnswerIsCautious
  <1> QED
    BY <1>3, <1>4, <1>5, <1>6 DEF PagesInv

\* The server answers: what is owed is still queued, or running.
LEMMA PageAskKeepsPagesInv ==
    ASSUME Inv, PagesInv, PageAsk
    PROVE  PagesInv'
  <1> DEFINE ans == [status |-> Status, waits |-> page.watch \in Elems(pending)]
  <1>1. /\ page.watch # NoTicker /\ page' = [page EXCEPT !.answer = ans]
        /\ UNCHANGED <<vars, dash, owed>>
    BY DEF PageAsk
  <1>2. ans \in [status : {"none", "idle", "running", "error", "done"}, waits : BOOLEAN]
    BY DEF Status
  <1> HIDE DEF ans
  <1>3. PagesTypeOK'
    BY <1>1, <1>2 DEF PagesInv, PagesTypeOK
  <1>4. /\ page'.putting = page.putting /\ page'.watch = page.watch /\ page'.answer = ans
        /\ page'.stale = page.stale /\ page'.stopped = page.stopped
    BY <1>1 DEF PagesInv, PagesTypeOK
  <1>5. ForceJobRuns' /\ ForceResult' /\ DashboardNotEarly' /\ PageNotEarly'
    BY <1>1, <1>4, ResultStays DEF PagesInv, ForceJobRuns, DashboardNotEarly, PageNotEarly, vars
  <1>6. OwedIsCovered'
    BY <1>1, CoveredStays DEF PagesInv, vars
  <1>7. page.watch \in owed => ans.status = "running" \/ ans.waits
    <2>1. page.watch \in owed => page.watch \in Elems(pending) \/ ~job.terminal
      BY DEF PagesInv, OwedIsCovered
    <2>2. ~job.terminal => Status = "running"
      BY DEF Inv, Status
    <2> QED
      BY <2>1, <2>2 DEF ans
  <1>8. AnswerIsCautious'
    BY <1>1, <1>4, <1>7 DEF AnswerIsCautious, PageIsDone
  <1> QED
    BY <1>3, <1>5, <1>6, <1>8 DEF PagesInv

\* The page acts on the answer: it stops only if the answer allows it.
LEMMA PageHandleKeepsPagesInv ==
    ASSUME Inv, PagesInv, PageHandle
    PROVE  PagesInv'
  <1>1. page.answer # NoAnswer /\ UNCHANGED <<vars, dash, owed>>
    BY DEF PageHandle
  <1>2. NoAnswer \in [status : {"none", "idle", "running", "error", "done"}, waits : BOOLEAN]
    BY DEF NoAnswer
  <1>3. page'.answer = NoAnswer
    BY DEF PageHandle, PagesInv, PagesTypeOK
  <1>4. PageIsDone => Leaving # "early"
    BY <1>1 DEF PagesInv, AnswerIsCautious, Leaving
  <1>5. page'.stopped = IF PageIsDone THEN Leaving ELSE page.stopped
    BY DEF PageHandle, PagesInv, PagesTypeOK
  <1>6. PagesTypeOK'
    BY <1>1, <1>2 DEF PageHandle, PagesInv, PagesTypeOK, Leaving
  <1>7. ForceJobRuns' /\ ForceResult' /\ DashboardNotEarly' /\ PageNotEarly'
    BY <1>1, <1>4, <1>5, ResultStays
    DEF PagesInv, ForceJobRuns, DashboardNotEarly, PageNotEarly, vars
  <1>8. OwedIsCovered'
    BY <1>1, CoveredStays DEF PagesInv, vars
  <1>9. AnswerIsCautious'
    BY <1>3 DEF AnswerIsCautious, NoAnswer
  <1> QED
    BY <1>6, <1>7, <1>8, <1>9 DEF PagesInv

\* The PUT of the page's ticker, or of another client's, reaches the runner.
LEMMA ServerIngestKeepsPagesInv ==
    ASSUME Inv, PagesInv, NEW t \in Tickers, ServerIngest(t)
    PROVE  PagesInv'
  <1>1. /\ RequestIngest(t) /\ UNCHANGED <<dash, page>>
        /\ owed' = IF page.putting = t /\ Accepted(t) THEN owed \cup {t} ELSE owed
    BY DEF ServerIngest
  <1>2. owed' \subseteq Tickers
    BY <1>1 DEF PagesInv, PagesTypeOK
  <1>3. ForceJobRuns'
    <2>1. CASE ~Busy
      BY <1>1, <2>1, IdleFacts DEF ForceJobRuns
    <2>2. CASE Busy
      BY <1>1, <2>2 DEF RequestIngest, PagesInv, ForceJobRuns
    <2> QED
      BY <2>1, <2>2
  <1>4. OwedIsCovered'
    <2>1. CASE ~Busy
      <3>1. owed = {}
        BY <2>1, IdleFacts
      <3> QED
        BY <1>1, <3>1, ElemsOfNext DEF OwedIsCovered, Accepted
    <2>2. CASE Busy
      <3>1. /\ job' = job
            /\ \/ pending' = pending
               \/ pending' = Append(pending, t)
        BY <1>1, <2>2 DEF RequestIngest
      <3>2. Elems(pending) \subseteq Elems(pending')
        <4>1. pending \in Seq(Tickers)
          BY InvFacts
        <4>2. Elems(Append(pending, t)) = Elems(pending) \cup {t}
          BY <4>1, ElemsAppend
        <4> QED
          BY <3>1, <4>2
      <3> QED
        BY <1>1, <3>1, <3>2, ElemsOfNext DEF PagesInv, OwedIsCovered, Accepted
    <2> QED
      BY <2>1, <2>2
  <1>5. page.watch \in owed' /\ page.putting # page.watch => page.watch \in owed
    BY <1>1
  <1>6. ForceResult'
    <2>1. CASE ~Busy
      <3>1. LaunchAfter(loops, "watchlist", <<t>>)
        BY <1>1, <2>1 DEF RequestIngest, Launch
      <3> QED
        BY <1>1, <3>1, ResultIsOlder
    <2>2. CASE Busy
      BY <1>1, <2>2, ResultStays DEF RequestIngest
    <2> QED
      BY <2>1, <2>2
  <1> QED
    BY <1>1, <1>2, <1>3, <1>4, <1>5, <1>6, PagesUntouched

\* The queue becomes a job: what was owed and is not served goes with it.
LEMMA DrainKeepsOwed ==
    ASSUME NEW ls, DrainAfter(ls),
           \A t \in owed' : t \in Elems(pending)
    PROVE  OwedIsCovered'
  BY DrainCovers DEF OwedIsCovered

LEMMA ServerFinishKeepsPagesInv ==
    ASSUME Inv, PagesInv, NEW g \in DOMAIN loops, ServerFinish(g)
    PROVE  PagesInv'
  <1> DEFINE rest == [h \in DOMAIN loops \ {g} |-> loops[h]]
  <1>1. /\ FinishAndNext(g) /\ owed' = owed \ Elems(job.tickers) /\ page' = page
        /\ dash' = IF dash.gen = g THEN [dash EXCEPT !.outcome = loops[g].result] ELSE dash
    BY DEF ServerFinish
  <1>2. ~job.terminal /\ job.gen = g /\ ~sync
    BY InvFacts
  <1>3. loops[g].result \in Results /\ loops[g].result # "none"
    BY <1>1 DEF FinishAndNext, Inv, TypeOK
  <1>4. /\ dash'.polling = dash.polling /\ dash'.shown = dash.shown /\ dash'.gen = dash.gen
        /\ dash'.outcome = IF dash.gen = g THEN loops[g].result ELSE dash.outcome
        /\ dash'.own = dash.own
    BY <1>1 DEF PagesInv, PagesTypeOK, DashType
  <1>5. PagesTypeOK'
    <2>1. dash' \in DashType
      BY <1>1, <1>3 DEF PagesInv, PagesTypeOK, DashType
    <2> QED
      BY <1>1, <2>1 DEF PagesInv, PagesTypeOK
  <1>6. ForceJobRuns' /\ DashboardNotEarly' /\ PageNotEarly'
    <2>1. dash.gen = g => dash.gen # 0 /\ dash.outcome = "none"
      BY <1>2 DEF Inv, TypeOK, PagesInv, ForceResult
    <2> QED
      BY <1>1, <1>2, <1>3, <1>4, <2>1
      DEF PagesInv, ForceJobRuns, DashboardNotEarly, PageNotEarly
  <1>7. \A t \in owed' : t \in Elems(pending)
    BY <1>1, <1>2 DEF PagesInv, OwedIsCovered
  <1>8. OwedIsCovered'
    <2>1. CASE pending # <<>>
      <3>1. DrainAfter(rest)
        BY <1>1, <1>2, <2>1 DEF FinishAndNext
      <3> HIDE DEF rest
      <3> QED
        BY <1>7, <3>1, DrainKeepsOwed
    <2>2. CASE pending = <<>>
      BY <1>7, <2>2, ElemsEmpty DEF OwedIsCovered
    <2> QED
      BY <2>1, <2>2
  <1>9. AnswerIsCautious'
    BY <1>1 DEF PagesInv, AnswerIsCautious, PageIsDone
  <1>10. ForceResult'
    <2>1. CASE pending # <<>>
      <3>1. LaunchAfter(rest, "watchlist", pending)
        BY <1>1, <1>2, <2>1 DEF FinishAndNext, DrainAfter
      <3> HIDE DEF rest
      <3> QED
        BY <1>4, <3>1, ResultIsOlder
    <2>2. CASE pending = <<>>
      <3>1. /\ job' = [job EXCEPT !.terminal = TRUE, !.failed = loops[g].result = "error"]
            /\ genSeq' = genSeq
        BY <1>1, <1>2, <2>2 DEF FinishAndNext
      <3>2. /\ job'.gen = job.gen /\ job'.kind = job.kind /\ job'.terminal
            /\ job'.failed = (loops[g].result = "error")
        BY <3>1 DEF Inv, TypeOK
      <3>3. loops[g].result \in {"ok", "error"}
        BY <1>3 DEF Results
      <3> QED
        BY <1>2, <1>4, <3>1, <3>2, <3>3 DEF PagesInv, ForceResult
    <2> QED
      BY <2>1, <2>2
  <1> QED
    BY <1>5, <1>6, <1>8, <1>9, <1>10 DEF PagesInv

LEMMA ServerReleaseKeepsPagesInv ==
    ASSUME Inv, PagesInv, ServerRelease
    PROVE  PagesInv'
  <1>1. Release /\ UNCHANGED pageVars /\ job.terminal /\ UNCHANGED <<dash, page, owed>>
    BY DEF ServerRelease, Release, Inv, pageVars
  <1>2. \A t \in owed : t \in Elems(pending)
    BY <1>1 DEF PagesInv, OwedIsCovered
  <1>3. ForceJobRuns'
    BY <1>1 DEF PagesInv, ForceJobRuns
  <1>4. OwedIsCovered'
    <2>1. CASE pending # <<>>
      BY <1>1, <1>2, <2>1, DrainKeepsOwed DEF Release
    <2>2. CASE pending = <<>>
      BY <1>1, <1>2, <2>2, ElemsEmpty DEF OwedIsCovered
    <2> QED
      BY <2>1, <2>2
  <1>5. ForceResult'
    <2>1. CASE pending # <<>>
      <3>1. LaunchAfter(loops, "watchlist", pending)
        BY <1>1, <2>1 DEF Release, DrainAfter
      <3> QED
        BY <1>1, <3>1, ResultIsOlder
    <2>2. CASE pending = <<>>
      BY <1>1, <2>2, ResultStays DEF Release
    <2> QED
      BY <2>1, <2>2
  <1> QED
    BY <1>1, <1>3, <1>4, <1>5, PagesUntouched DEF PagesInv, PagesTypeOK

LEMMA ServerWorkKeepsPagesInv ==
    ASSUME Inv, PagesInv, NEW g \in DOMAIN loops, ServerWork(g)
    PROVE  PagesInv'
  <1>1. ASSUME NEW s \in Stages, ReportStep(g, s)
        PROVE  /\ job'.gen = job.gen /\ job'.terminal = job.terminal
               /\ job'.tickers = job.tickers /\ pending' = pending
               /\ job'.kind = job.kind /\ job'.failed = job.failed /\ genSeq' = genSeq
    BY <1>1 DEF ReportStep, Inv, TypeOK
  <1>2. ASSUME NEW r \in Results, ExecReturn(g, r)
        PROVE  job' = job /\ pending' = pending /\ genSeq' = genSeq
    BY <1>2 DEF ExecReturn
  <1> QED
    BY <1>1, <1>2, QueueGrows DEF ServerWork

\* Another client's call: it adds to the watchlist, or takes a free pipeline.
LEMMA OtherClientsKeepPagesInv ==
    ASSUME Inv, PagesInv, OtherClients
    PROVE  PagesInv'
  <1>1. UNCHANGED pageVars /\ UNCHANGED <<dash, page, owed>>
    BY DEF OtherClients, pageVars
  <1>2. CASE \/ \E t \in Tickers : AddWatchlist(t) \/ RemoveWatchlist(t)
             \/ Acquire
    <2>1. job' = job /\ pending' = pending /\ genSeq' = genSeq
      BY <1>2 DEF AddWatchlist, RemoveWatchlist, Acquire, runner
    <2> QED
      BY <1>1, <2>1, QueueGrows
  <1>3. CASE ForceRefresh
    <2>1. owed = {} /\ ~(dash.polling /\ dash.outcome = "none")
      BY <1>3, IdleFacts DEF ForceRefresh
    <2>2. ForceJobRuns' /\ OwedIsCovered'
      BY <1>1, <2>1 DEF ForceJobRuns, OwedIsCovered
    <2>3. LaunchAfter(loops, "force", <<>>)
      BY <1>3 DEF ForceRefresh, Launch
    <2>4. ForceResult'
      BY <1>1, <2>3, ResultIsOlder
    <2> QED
      BY <1>1, <2>1, <2>2, <2>4, PagesUntouched DEF PagesInv, PagesTypeOK
  <1> QED
    BY <1>2, <1>3 DEF OtherClients

\* A new process owes nothing, and the dashboard knows that its job was lost.
LEMMA ServerRestartKeepsPagesInv ==
    ASSUME PagesInv, ServerRestart
    PROVE  PagesInv'
  <1> DEFINE lost == IF dash.polling /\ dash.outcome = "none" THEN "lost" ELSE dash.outcome
  <1>1. /\ owed' = {} /\ page' = [page EXCEPT !.putting = NoTicker]
        /\ dash' = [dash EXCEPT !.gen = 0, !.outcome = lost]
        /\ genSeq' = 0
    BY DEF ServerRestart, Restart
  <1>2. /\ lost \in Results \cup {"lost"}
        /\ dash.polling => lost # "none"
        /\ dash.outcome # "none" => lost = dash.outcome
    BY DEF PagesInv, PagesTypeOK, DashType
  <1> HIDE DEF lost
  <1>3. /\ dash'.polling = dash.polling /\ dash'.gen = 0 /\ dash'.outcome = lost
        /\ dash'.shown = dash.shown /\ dash'.own = dash.own
        /\ page'.answer = page.answer /\ page'.watch = page.watch
        /\ page'.stopped = page.stopped
    BY <1>1 DEF PagesInv, PagesTypeOK, DashType
  <1>4. PagesTypeOK'
    BY <1>1, <1>2 DEF PagesInv, PagesTypeOK, DashType
  <1>5. ForceJobRuns' /\ ForceResult' /\ DashboardNotEarly' /\ PageNotEarly'
    BY <1>1, <1>2, <1>3
    DEF PagesInv, ForceJobRuns, ForceResult, DashboardNotEarly, PageNotEarly
  <1>6. OwedIsCovered' /\ AnswerIsCautious'
    BY <1>1, <1>3 DEF PagesInv, OwedIsCovered, AnswerIsCautious
  <1> QED
    BY <1>4, <1>5, <1>6 DEF PagesInv

LEMMA PagesNextKeepsInv ==
    ASSUME Inv, PagesInv, [PagesNext]_allVars
    PROVE  PagesInv'
  <1>1. CASE DashForce \/ DashForceFails \/ DashPoll \/ DashPollFails
    BY <1>1, DashForceKeepsPagesInv, DashForceFailsKeepsPagesInv, DashPollKeepsPagesInv,
       DashPollFailsKeepsPagesInv
  <1>2. ASSUME NEW t \in Tickers, PagePut(t) \/ ServerIngest(t) PROVE PagesInv'
    BY <1>2, PagePutKeepsPagesInv, ServerIngestKeepsPagesInv
  <1>3. CASE PagePutAnswered \/ PagePutFails \/ PageAsk \/ PageHandle \/ PagePollFails
    BY <1>3, PagePutAnsweredKeepsPagesInv, PagePutFailsKeepsPagesInv, PageAskKeepsPagesInv,
       PageHandleKeepsPagesInv, PagePollFailsKeepsPagesInv
  <1>4. ASSUME NEW g \in DOMAIN loops, ServerWork(g) \/ ServerFinish(g) PROVE PagesInv'
    BY <1>4, ServerWorkKeepsPagesInv, ServerFinishKeepsPagesInv
  <1>5. CASE ServerRelease
    BY <1>5, ServerReleaseKeepsPagesInv
  <1>6. CASE OtherClients
    BY <1>6, OtherClientsKeepPagesInv
  <1>7. CASE ServerRestart
    BY <1>7, ServerRestartKeepsPagesInv
  <1>8. CASE UNCHANGED allVars
    BY <1>8, QueueGrows DEF allVars, vars, pageVars
  <1> QED
    BY <1>1, <1>2, <1>3, <1>4, <1>5, <1>6, <1>7, <1>8 DEF PagesNext

-----------------------------------------------------------------------------
(* The theorems of the composed system.                                    *)

THEOREM PagesInvariant == PagesSpec => []PagesInv
  <1>1. PagesInit => PagesInv
    BY PagesInitInv
  <1>2. Inv /\ PagesInv /\ [PagesNext]_allVars => PagesInv'
    BY PagesNextKeepsInv
  <1> QED
    BY <1>1, <1>2, PagesRunTheRunner, InvInvariant, PTL DEF PagesSpec

\* The dashboard announces an end only after the job it started has ended, and
\* what it announces of that job is how it ended, although every request of the
\* dashboard may fail and other clients and chained jobs publish theirs.
THEOREM DashboardWaits == PagesSpec => []DashboardNotEarly
  <1>1. PagesInv => DashboardNotEarly
    BY DEF PagesInv
  <1> QED
    BY <1>1, PagesInvariant, PTL

\* The watchlist page leaves a ticker whose ingestion is queued or running only on
\* an answer older than the PUT.
THEOREM PageWaits == PagesSpec => []PageNotEarly
  <1>1. PagesInv => PageNotEarly
    BY DEF PagesInv
  <1> QED
    BY <1>1, PagesInvariant, PTL

\* With its pages and its other clients, the runner still implements the slot.
THEOREM PagesKeepTheSlot == PagesSpec => ImplementsSlot /\ []MutualExclusion
  BY PagesRunTheRunner, RunnerImplementsSlot, OneWriter, PTL
=============================================================================
