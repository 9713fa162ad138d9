------------------------------ MODULE JobRunner ------------------------------
(***************************************************************************)
(* The background pipeline runner of the API process                       *)
(* (internal/api/jobs.go), the four HTTP handlers that drive it            *)
(* (internal/api/refresh.go, internal/api/handlers.go) and the death of    *)
(* the process, whose memory is the only place this state lives.           *)
(*                                                                         *)
(* Every critical section of jobRunner.mu is one action.  The executor     *)
(* (jobFunc) is abstract here: it reports stages and returns a result.     *)
(***************************************************************************)
EXTENDS Naturals, Sequences, FiniteSets

CONSTANTS Tickers,    \* tickers of the SEC catalog (securities)
          Stages,     \* names an executor may report
          MaxCalls    \* bound: mutating HTTP calls that reach the runner

ASSUME CallsAssumption == MaxCalls \in Nat

VARIABLES watchlist,  \* table watchlist (survives a restart)
          puts,       \* tickers of PUT handlers between the INSERT and requestIngest
          job,        \* r.job: the last job published
          sync,       \* r.sync: a POST /refresh holds the pipeline
          pending,    \* r.pending: FIFO of tickers
          genSeq,     \* r.genSeq
          loops,      \* live loop goroutines: generation -> local state
          calls       \* HTTP calls so far (bounds the model)

runner == <<job, sync, pending, genSeq, loops>>
vars == <<watchlist, puts, job, sync, pending, genSeq, loops, calls>>

Kinds == {"watchlist", "force"}
Results == {"none", "ok", "error"}

Elems(s) == {s[i] : i \in DOMAIN s}

\* r.job = nil.  Like a terminal job, it does not occupy the pipeline.
NoJob == [gen |-> 0, kind |-> "none", tickers |-> <<>>, steps |-> {},
          terminal |-> TRUE, failed |-> FALSE]

\* Mutant: the steps of the previous job are not reset.
NewJobKeepsSteps(gen, kind, tickers) ==
    [gen |-> gen, kind |-> kind, tickers |-> tickers, steps |-> job.steps,
     terminal |-> FALSE, failed |-> FALSE]

NewJob(gen, kind, tickers) ==
    [gen |-> gen, kind |-> kind, tickers |-> tickers, steps |-> {},
     terminal |-> FALSE, failed |-> FALSE]

\* A goroutine just spawned by "go r.loop(st)".
NewLoop == [reported |-> {}, result |-> "none"]

\* Mutant: the synchronous refresh is forgotten.
BusyByJobOnly == ~job.terminal

Busy == sync \/ ~job.terminal

Status == IF job.kind = "none" THEN "idle"
          ELSE IF ~job.terminal THEN "running"
          ELSE IF job.failed THEN "error" ELSE "done"

Init == /\ watchlist \in SUBSET Tickers
        /\ puts = {}
        /\ job = NoJob
        /\ sync = FALSE
        /\ pending = <<>>
        /\ genSeq = 0
        /\ loops = <<>>
        /\ calls = 0

Call == /\ calls < MaxCalls
        /\ calls' = calls + 1

-----------------------------------------------------------------------------
(* Publishing a job: r.job = newJobStateLocked(...) and "go r.loop(st)".   *)

\* Mutant: the generation counter is read and not advanced.
LaunchWithoutSeq(ls, kind, tickers) ==
    /\ genSeq' = genSeq
    /\ job' = NewJob(genSeq + 1, kind, tickers)
    /\ loops' = [g \in DOMAIN ls \cup {genSeq + 1} |->
                    IF g = genSeq + 1 THEN NewLoop ELSE ls[g]]

LaunchAfter(ls, kind, tickers) ==
    /\ genSeq' = genSeq + 1
    /\ job' = NewJob(genSeq + 1, kind, tickers)
    /\ loops' = [g \in DOMAIN ls \cup {genSeq + 1} |->
                    IF g = genSeq + 1 THEN NewLoop ELSE ls[g]]

Launch(kind, tickers) == LaunchAfter(loops, kind, tickers)

\* Mutant: one job per ticker.
DrainOne(ls) ==
    /\ LaunchAfter(ls, "watchlist", <<Head(pending)>>)
    /\ pending' = Tail(pending)

\* Mutant: r.pending = nil is missing.
DrainAndKeep(ls) ==
    /\ LaunchAfter(ls, "watchlist", pending)
    /\ pending' = pending

\* nextLocked: the whole queue becomes one watchlist job.
DrainAfter(ls) ==
    /\ LaunchAfter(ls, "watchlist", pending)
    /\ pending' = <<>>

-----------------------------------------------------------------------------
(* HTTP handlers.  A call refused with 403, 404, 409 or 503 changes        *)
(* nothing and is not an action.                                           *)

\* PUT /watchlist/{ticker}: the row is committed before the runner is asked.
AddWatchlist(t) ==
    /\ Call
    /\ t \notin puts
    /\ watchlist' = watchlist \cup {t}
    /\ puts' = puts \cup {t}
    /\ UNCHANGED runner

\* Mutant: the tickers of the running job are not looked at.
RequestIngestTwice(t) ==
    /\ t \in puts
    /\ puts' = puts \ {t}
    /\ \/ /\ ~Busy
          /\ Launch("watchlist", <<t>>)
          /\ UNCHANGED <<sync, pending>>
       \/ /\ Busy
          /\ pending' = IF t \in Elems(pending) THEN pending ELSE Append(pending, t)
          /\ UNCHANGED <<job, sync, genSeq, loops>>
    /\ UNCHANGED <<watchlist, calls>>

\* requestIngest: never fails; starts a job, or queues what is not covered.
RequestIngest(t) ==
    /\ t \in puts
    /\ puts' = puts \ {t}
    /\ \/ /\ ~Busy
          /\ Launch("watchlist", <<t>>)
          /\ UNCHANGED <<sync, pending>>
       \/ /\ Busy
          /\ pending' = IF t \in Elems(job.tickers) \cup Elems(pending)
                        THEN pending
                        ELSE Append(pending, t)
          /\ UNCHANGED <<job, sync, genSeq, loops>>
    /\ UNCHANGED <<watchlist, calls>>

\* DELETE /watchlist/{ticker}: the queue and the running job are not told.
RemoveWatchlist(t) ==
    /\ Call
    /\ watchlist' = watchlist \ {t}
    /\ UNCHANGED <<puts, runner>>

\* POST /force-refresh: start(pool, "force", nil), 409 when busy.
ForceRefresh ==
    /\ Call
    /\ ~Busy
    /\ Launch("force", <<>>)
    /\ UNCHANGED <<watchlist, puts, sync, pending>>

\* POST /refresh: acquire, then the recomputation in the handler's goroutine.
Acquire ==
    /\ Call
    /\ ~Busy
    /\ sync' = TRUE
    /\ UNCHANGED <<watchlist, puts, job, pending, genSeq, loops>>

\* The deferred release of POST /refresh (success, error or panic).
Release ==
    /\ sync
    /\ sync' = FALSE
    /\ IF pending = <<>>
       THEN UNCHANGED <<job, pending, genSeq, loops>>
       ELSE DrainAfter(loops)
    /\ UNCHANGED <<watchlist, puts, calls>>

-----------------------------------------------------------------------------
(* The loop goroutine of generation g.                                     *)

\* stepReporter: publishes the stage only while g is the current generation.
ReportStep(g, s) ==
    /\ g \in DOMAIN loops
    /\ loops[g].result = "none"
    /\ s \notin loops[g].reported
    /\ loops' = [loops EXCEPT ![g].reported = @ \cup {s}]
    /\ job' = IF job.gen = g THEN [job EXCEPT !.steps = @ \cup {s}] ELSE job
    /\ UNCHANGED <<watchlist, puts, sync, pending, genSeq, calls>>

\* Mutant: the terminal state is published before finishAndNext.
ExecReturnPublishes(g, r) ==
    /\ g \in DOMAIN loops
    /\ loops[g].result = "none"
    /\ loops' = [loops EXCEPT ![g].result = r]
    /\ job' = [job EXCEPT !.terminal = TRUE]
    /\ UNCHANGED <<watchlist, puts, sync, pending, genSeq, calls>>

\* exec returns; the terminal state is not published yet.
ExecReturn(g, r) ==
    /\ g \in DOMAIN loops
    /\ loops[g].result = "none"
    /\ loops' = [loops EXCEPT ![g].result = r]
    /\ UNCHANGED <<watchlist, puts, job, sync, pending, genSeq, calls>>

\* Mutant: a job that failed is left as it is.
FinishOnlyIfOk(g) ==
    /\ g \in DOMAIN loops
    /\ loops[g].result # "none"
    /\ LET rest == [h \in DOMAIN loops \ {g} |-> loops[h]]
       IN  IF job.gen = g /\ loops[g].result = "ok" /\ pending # <<>> /\ ~sync
           THEN DrainAfter(rest)
           ELSE /\ loops' = rest
                /\ job' = IF job.gen = g /\ loops[g].result = "ok"
                          THEN [job EXCEPT !.terminal = TRUE]
                          ELSE job
                /\ UNCHANGED <<pending, genSeq>>
    /\ UNCHANGED <<watchlist, puts, sync, calls>>

\* finishAndNext: the terminal state and the chained job in one section.
FinishAndNext(g) ==
    /\ g \in DOMAIN loops
    /\ loops[g].result # "none"
    /\ LET rest == [h \in DOMAIN loops \ {g} |-> loops[h]]
       IN  IF job.gen = g /\ pending # <<>> /\ ~sync
           THEN DrainAfter(rest)
           ELSE /\ loops' = rest
                /\ job' = IF job.gen = g
                          THEN [job EXCEPT !.terminal = TRUE,
                                           !.failed = loops[g].result = "error"]
                          ELSE job
                /\ UNCHANGED <<pending, genSeq>>
    /\ UNCHANGED <<watchlist, puts, sync, calls>>

-----------------------------------------------------------------------------
\* The process ends (SIGTERM, a panic in a loop goroutine, a power cut) and
\* is started again: handlers, goroutines and runner are gone.
Restart ==
    /\ Call
    /\ puts' = {}
    /\ job' = NoJob
    /\ sync' = FALSE
    /\ pending' = <<>>
    /\ genSeq' = 0
    /\ loops' = <<>>
    /\ UNCHANGED watchlist

LoopStep(g) ==
    \/ \E s \in Stages : ReportStep(g, s)
    \/ \E r \in Results \ {"none"} : ExecReturn(g, r)
    \/ FinishAndNext(g)

Next ==
    \/ \E t \in Tickers : AddWatchlist(t) \/ RequestIngest(t) \/ RemoveWatchlist(t)
    \/ ForceRefresh
    \/ Acquire
    \/ Release
    \/ \E g \in DOMAIN loops : LoopStep(g)
    \/ Restart

Spec == Init /\ [][Next]_vars

-----------------------------------------------------------------------------
(* Properties.                                                             *)

\* The types of the variables.
TypeOK ==
    /\ watchlist \subseteq Tickers
    /\ puts \subseteq Tickers
    /\ job \in [gen : Nat, kind : Kinds \cup {"none"}, tickers : Seq(Tickers),
                steps : SUBSET Stages, terminal : BOOLEAN, failed : BOOLEAN]
    /\ sync \in BOOLEAN
    /\ pending \in Seq(Tickers)
    /\ genSeq \in Nat
    /\ DOMAIN loops \subseteq 1..genSeq
    /\ \A g \in DOMAIN loops :
          loops[g] \in [reported : SUBSET Stages, result : Results]
    /\ calls \in 0..MaxCalls

\* Two goroutines never recompute the analytic tables at the same time: no two
\* loops, and no loop beside the synchronous POST /refresh (the reason of
\* acquire, and of draining inside finishAndNext's critical section).
MutualExclusion ==
    /\ \A g, h \in DOMAIN loops : g = h
    /\ sync => DOMAIN loops = {}

\* GET /pipeline/status tells the truth: it says "running" exactly while a loop
\* lives, and that loop is the job it shows with the stages the loop reported.
StatusIsTruthful ==
    /\ Status = "running" <=> DOMAIN loops # {}
    /\ \A g \in DOMAIN loops : job.gen = g /\ job.steps = loops[g].reported

\* A queue never waits behind nothing: somebody who will drain it (a job or a
\* POST /refresh) is still to finish.
NoTrappedQueue == pending # <<>> => Busy

\* No ticker is queued twice, or queued behind the job that is ingesting it.
NoRepeatedWork ==
    /\ \A i, j \in DOMAIN pending : pending[i] = pending[j] => i = j
    /\ ~job.terminal => Elems(job.tickers) \cap Elems(pending) = {}

\* A ticker leaves the queue only with the whole queue, in the order of arrival,
\* as the tickers of one new watchlist job; or with the process.
QueueIsFIFO ==
    [][ \/ /\ Len(pending) <= Len(pending')
           /\ SubSeq(pending', 1, Len(pending)) = pending
        \/ /\ job'.gen = genSeq + 1
           /\ job'.kind = "watchlist"
           /\ job'.tickers = pending
           /\ pending' = <<>>
        \/ genSeq' = 0 ]_vars

\* A published result is final: a later report or finish of an older loop never
\* changes it, only a newer job (or the process's death) replaces it.
ResultIsFinal ==
    [][ job.terminal => \/ job' = job
                        \/ job'.gen > job.gen
                        \/ genSeq' = 0 ]_vars

\* A queued ticker is eventually taken by a job (or lost with the process), under
\* the fairness of PipelinePages.
QueueIsServed == \A t \in Tickers : t \in Elems(pending) ~> t \notin Elems(pending)

\* What the doc of requestIngest says: a requested ticker is covered by the job
\* that is running, or waits in the queue.
RequestIsCovered ==
    [][ \A t \in puts \ puts' :
          \/ t \in Elems(pending')
          \/ ~job'.terminal /\ t \in Elems(job'.tickers)
          \/ genSeq' = 0 ]_vars

-----------------------------------------------------------------------------
(* What the runner promises.  The occupants of the slot are the goroutines *)
(* that write, not the flags that say so.                                  *)

Slot == INSTANCE PipelineSlot WITH
    occupants <- DOMAIN loops \cup (IF sync THEN {0} ELSE {}),
    working <- IF job.terminal THEN {} ELSE Elems(job.tickers),
    queued <- Elems(pending),
    last <- genSeq

\* The runner implements the slot.
ImplementsSlot == Slot!SlotSpec
=============================================================================
