-------------------------- MODULE JobRunnerProofs --------------------------
(***************************************************************************)
(* What holds of the job runner for every set of tickers, every set of     *)
(* stages and any number of calls.  The argument is one inductive          *)
(* invariant, Inv: the set of live loops is a function of the published    *)
(* job (Owner), so whoever may publish a job knows that no loop lives.     *)
(***************************************************************************)
EXTENDS JobRunner, TLAPS

\* The live loop, if there is one, is the loop of the job that is shown.
Owner == DOMAIN loops = IF job.terminal THEN {} ELSE {job.gen}

Inv ==
    /\ TypeOK
    /\ Owner
    /\ job.gen <= genSeq
    /\ sync => job.terminal
    /\ job.kind = "none" => job.terminal
    /\ ~job.terminal => job.steps = loops[job.gen].reported
    /\ NoTrappedQueue
    /\ NoRepeatedWork

-----------------------------------------------------------------------------
(* The tickers of a queue.                                                 *)

LEMMA ElemsEmpty == Elems(<<>>) = {}
  BY DEF Elems

LEMMA ElemsOne == ASSUME NEW t PROVE Elems(<<t>>) = {t}
  BY DEF Elems

LEMMA ElemsAppend ==
    ASSUME NEW S, NEW q \in Seq(S), NEW t \in S
    PROVE  Elems(Append(q, t)) = Elems(q) \cup {t}
  <1>1. DOMAIN Append(q, t) = DOMAIN q \cup {Len(q) + 1}
    OBVIOUS
  <1>2. Append(q, t)[Len(q) + 1] = t
    OBVIOUS
  <1>3. \A i \in DOMAIN q : Append(q, t)[i] = q[i]
    OBVIOUS
  <1>4. Len(q) + 1 \notin DOMAIN q
    OBVIOUS
  <1> QED
    BY <1>1, <1>2, <1>3, <1>4 DEF Elems

LEMMA ElemsNone ==
    ASSUME NEW S, NEW q \in Seq(S)
    PROVE  q = <<>> <=> Elems(q) = {}
  BY DEF Elems

LEMMA ElemsType ==
    ASSUME NEW S, NEW q \in Seq(S)
    PROVE  Elems(q) \subseteq S
  BY DEF Elems

\* A ticker that is not in the queue may be appended without repeating it.
LEMMA AppendKeepsDistinct ==
    ASSUME NEW S, NEW q \in Seq(S), NEW t \in S, t \notin Elems(q),
           \A i, j \in DOMAIN q : q[i] = q[j] => i = j
    PROVE  \A i, j \in DOMAIN Append(q, t) :
              Append(q, t)[i] = Append(q, t)[j] => i = j
  <1>1. DOMAIN Append(q, t) = DOMAIN q \cup {Len(q) + 1}
    OBVIOUS
  <1>2. Append(q, t)[Len(q) + 1] = t
    OBVIOUS
  <1>3. \A i \in DOMAIN q : Append(q, t)[i] = q[i] /\ q[i] # t
    BY DEF Elems
  <1> QED
    BY <1>1, <1>2, <1>3

-----------------------------------------------------------------------------
(* Publishing a job when no loop lives.                                    *)

LEMMA LaunchKeepsInv ==
    ASSUME Inv, NEW ls, ls = <<>> \/ DOMAIN ls = {},
           NEW kind \in Kinds, NEW tickers \in Seq(Tickers),
           LaunchAfter(ls, kind, tickers),
           sync' = FALSE,
           pending' \in Seq(Tickers),
           \A i, j \in DOMAIN pending' : pending'[i] = pending'[j] => i = j,
           Elems(tickers) \cap Elems(pending') = {},
           watchlist' \subseteq Tickers, puts' \subseteq Tickers,
           calls' \in 0..MaxCalls
    PROVE  Inv'
  <1>1. DOMAIN ls = {}
    OBVIOUS
  <1>2. genSeq' = genSeq + 1 /\ genSeq \in Nat
    BY DEF LaunchAfter, Inv, TypeOK
  <1>3. job' = [gen |-> genSeq + 1, kind |-> kind, tickers |-> tickers,
                steps |-> {}, terminal |-> FALSE, failed |-> FALSE]
    BY DEF LaunchAfter, NewJob
  <1>4. DOMAIN loops' = {genSeq + 1}
    BY <1>1 DEF LaunchAfter
  <1>5. loops'[genSeq + 1] = [reported |-> {}, result |-> "none"]
    BY <1>1 DEF LaunchAfter, NewLoop
  <1>6. TypeOK'
    <2>1. job' \in [gen : Nat, kind : Kinds \cup {"none"}, tickers : Seq(Tickers),
                    steps : SUBSET Stages, terminal : BOOLEAN, failed : BOOLEAN]
      BY <1>2, <1>3
    <2>2. \A g \in DOMAIN loops' :
             loops'[g] \in [reported : SUBSET Stages, result : Results]
      BY <1>4, <1>5 DEF Results
    <2>3. genSeq' \in Nat /\ DOMAIN loops' \subseteq 1..genSeq'
      BY <1>2, <1>4
    <2> QED
      BY <2>1, <2>2, <2>3 DEF TypeOK
  <1>7. Owner' /\ (job.gen <= genSeq)'
    BY <1>2, <1>3, <1>4 DEF Owner
  <1>8. (job.kind = "none" => job.terminal)'
    BY <1>3 DEF Kinds
  <1>9. (~job.terminal => job.steps = loops[job.gen].reported)'
    BY <1>3, <1>5
  <1>10. NoTrappedQueue' /\ NoRepeatedWork'
    BY <1>3 DEF NoTrappedQueue, NoRepeatedWork, Busy
  <1> QED
    BY <1>6, <1>7, <1>8, <1>9, <1>10 DEF Inv

-----------------------------------------------------------------------------
LEMMA InitInv == Init => Inv
  <1> SUFFICES ASSUME Init PROVE Inv
    OBVIOUS
  <1>1. DOMAIN loops = {} /\ DOMAIN pending = {}
    BY DEF Init
  <1>2. job \in [gen : Nat, kind : Kinds \cup {"none"}, tickers : Seq(Tickers),
                 steps : SUBSET Stages, terminal : BOOLEAN, failed : BOOLEAN]
    BY DEF Init, NoJob
  <1>3. calls \in 0..MaxCalls
    BY CallsAssumption DEF Init
  <1>4. TypeOK
    <2>1. watchlist \subseteq Tickers /\ puts \subseteq Tickers
      BY DEF Init
    <2>2. sync \in BOOLEAN /\ genSeq \in Nat
      BY DEF Init
    <2>3. pending \in Seq(Tickers)
      BY DEF Init
    <2> QED
      BY <1>1, <1>2, <1>3, <2>1, <2>2, <2>3 DEF TypeOK
  <1>5. job.terminal /\ job.gen = 0 /\ genSeq = 0 /\ pending = <<>>
    BY DEF Init, NoJob
  <1> QED
    BY <1>1, <1>4, <1>5 DEF Inv, Owner, NoTrappedQueue, NoRepeatedWork

-----------------------------------------------------------------------------
(* One lemma per action that publishes, queues, reports or finishes.       *)

\* The queue and its length are typed, and the loops do not overlap.
LEMMA InvFacts ==
    ASSUME Inv
    PROVE  /\ pending \in Seq(Tickers)
           /\ genSeq \in Nat
           /\ job.terminal \in BOOLEAN
           /\ ~Busy => DOMAIN loops = {}
           /\ \A g \in DOMAIN loops : ~job.terminal /\ g = job.gen /\ ~sync
  BY DEF Inv, TypeOK, Owner, Busy

\* A step that leaves the runner alone cannot disturb Inv.
LEMMA SameRunnerKeepsInv ==
    ASSUME Inv, UNCHANGED runner,
           watchlist' \subseteq Tickers, puts' \subseteq Tickers,
           calls' \in 0..MaxCalls
    PROVE  Inv'
  <1>0. /\ job' = job /\ sync' = sync /\ pending' = pending
        /\ genSeq' = genSeq /\ loops' = loops
    BY DEF runner
  <1>1. TypeOK'
    <2>1. /\ job' \in [gen : Nat, kind : Kinds \cup {"none"}, tickers : Seq(Tickers),
                       steps : SUBSET Stages, terminal : BOOLEAN, failed : BOOLEAN]
          /\ sync' \in BOOLEAN /\ pending' \in Seq(Tickers) /\ genSeq' \in Nat
      BY <1>0 DEF Inv, TypeOK
    <2>2. /\ DOMAIN loops' \subseteq 1..genSeq'
          /\ \A g \in DOMAIN loops' :
                loops'[g] \in [reported : SUBSET Stages, result : Results]
      BY <1>0 DEF Inv, TypeOK
    <2> QED
      BY <2>1, <2>2 DEF TypeOK
  <1>2. Owner' /\ (job.gen <= genSeq)'
    BY <1>0 DEF Inv, Owner
  <1>3. NoTrappedQueue' /\ NoRepeatedWork'
    <2>1. NoTrappedQueue'
      BY <1>0 DEF Inv, NoTrappedQueue, Busy
    <2>2. Elems(pending)' = Elems(pending) /\ Elems(job.tickers)' = Elems(job.tickers)
      BY <1>0 DEF Elems
    <2>3. NoRepeatedWork'
      BY <1>0, <2>2 DEF Inv, NoRepeatedWork
    <2> QED
      BY <2>1, <2>3
  <1>4. /\ (sync => job.terminal)'
        /\ (job.kind = "none" => job.terminal)'
        /\ (~job.terminal => job.steps = loops[job.gen].reported)'
    BY <1>0 DEF Inv
  <1> QED
    BY <1>1, <1>2, <1>3, <1>4 DEF Inv

LEMMA AddWatchlistKeepsInv ==
    ASSUME Inv, NEW t \in Tickers, AddWatchlist(t)
    PROVE  Inv'
  <1>1. calls' \in 0..MaxCalls
    BY CallsAssumption DEF AddWatchlist, Call, Inv, TypeOK
  <1>2. /\ watchlist' \subseteq Tickers /\ puts' \subseteq Tickers
        /\ UNCHANGED runner
    BY DEF AddWatchlist, Inv, TypeOK
  <1> QED
    BY <1>1, <1>2, SameRunnerKeepsInv

LEMMA RemoveWatchlistKeepsInv ==
    ASSUME Inv, NEW t \in Tickers, RemoveWatchlist(t)
    PROVE  Inv'
  <1>1. calls' \in 0..MaxCalls
    BY CallsAssumption DEF RemoveWatchlist, Call, Inv, TypeOK
  <1>2. /\ watchlist' \subseteq Tickers /\ puts' \subseteq Tickers
        /\ UNCHANGED runner
    BY DEF RemoveWatchlist, Inv, TypeOK
  <1> QED
    BY <1>1, <1>2, SameRunnerKeepsInv

\* A launch with an empty queue: PUT and POST /force-refresh when not busy.
LEMMA IdleLaunchKeepsInv ==
    ASSUME Inv, ~Busy, NEW kind \in Kinds, NEW tickers \in Seq(Tickers),
           Launch(kind, tickers), UNCHANGED <<sync, pending>>,
           watchlist' \subseteq Tickers, puts' \subseteq Tickers,
           calls' \in 0..MaxCalls
    PROVE  Inv'
  <1>1. DOMAIN loops = {} /\ sync' = FALSE
    BY InvFacts DEF Busy, Inv, TypeOK
  <1>2. pending = <<>> /\ pending' = <<>>
    BY DEF Inv, NoTrappedQueue
  <1>3. DOMAIN pending' = {} /\ Elems(pending') = {} /\ pending' \in Seq(Tickers)
    BY <1>2, ElemsEmpty
  <1> QED
    BY <1>1, <1>3, LaunchKeepsInv DEF Launch

LEMMA RequestIngestKeepsInv ==
    ASSUME Inv, NEW t \in Tickers, RequestIngest(t)
    PROVE  Inv'
  <1>1. /\ watchlist' \subseteq Tickers /\ puts' \subseteq Tickers
        /\ calls' \in 0..MaxCalls
    BY DEF RequestIngest, Inv, TypeOK
  <1>2. CASE ~Busy
    <2>1. Launch("watchlist", <<t>>) /\ UNCHANGED <<sync, pending>>
      BY <1>2 DEF RequestIngest
    <2>2. <<t>> \in Seq(Tickers) /\ "watchlist" \in Kinds
      BY DEF Kinds
    <2> QED
      BY <1>1, <1>2, <2>1, <2>2, IdleLaunchKeepsInv
  <1>3. CASE Busy
    <2>1. UNCHANGED <<job, sync, genSeq, loops>>
      BY <1>3 DEF RequestIngest
    <2>2. CASE t \in Elems(job.tickers) \cup Elems(pending)
      <3>1. pending' = pending
        BY <1>3, <2>2 DEF RequestIngest
      <3> QED
        BY <1>1, <2>1, <3>1, SameRunnerKeepsInv DEF runner
    <2>3. CASE t \notin Elems(job.tickers) \cup Elems(pending)
      <3>1. pending' = Append(pending, t) /\ pending \in Seq(Tickers)
        BY <1>3, <2>3, InvFacts DEF RequestIngest
      <3>2. Elems(pending') = Elems(pending) \cup {t} /\ pending' \in Seq(Tickers)
        BY <3>1, ElemsAppend
      <3>3. \A i, j \in DOMAIN pending' : pending'[i] = pending'[j] => i = j
        <4>1. \A i, j \in DOMAIN pending : pending[i] = pending[j] => i = j
          BY DEF Inv, NoRepeatedWork
        <4> QED
          BY <2>3, <3>1, <4>1, AppendKeepsDistinct
      <3>4. NoRepeatedWork'
        <4>1. ~job.terminal => Elems(job.tickers) \cap Elems(pending) = {}
          BY DEF Inv, NoRepeatedWork
        <4>2. Elems(job.tickers)' = Elems(job.tickers) /\ (job.terminal)' = job.terminal
          BY <2>1 DEF Elems
        <4>3. Elems(pending)' = Elems(pending) \cup {t}
          BY <3>2 DEF Elems
        <4>4. (~job.terminal => Elems(job.tickers) \cap Elems(pending) = {})'
          BY <2>3, <4>1, <4>2, <4>3
        <4> QED
          BY <3>3, <4>4 DEF NoRepeatedWork
      <3>5. NoTrappedQueue'
        BY <1>3, <2>1 DEF NoTrappedQueue, Busy
      <3>6. TypeOK'
        BY <1>1, <2>1, <3>2 DEF Inv, TypeOK
      <3> QED
        BY <2>1, <3>4, <3>5, <3>6 DEF Inv, Owner
    <2> QED
      BY <2>2, <2>3
  <1> QED
    BY <1>2, <1>3

LEMMA ForceRefreshKeepsInv ==
    ASSUME Inv, ForceRefresh
    PROVE  Inv'
  <1>1. /\ watchlist' \subseteq Tickers /\ puts' \subseteq Tickers
        /\ calls' \in 0..MaxCalls
    BY CallsAssumption DEF ForceRefresh, Call, Inv, TypeOK
  <1>2. <<>> \in Seq(Tickers) /\ "force" \in Kinds
    BY DEF Kinds
  <1>3. Launch("force", <<>>) /\ ~Busy /\ UNCHANGED <<sync, pending>>
    BY DEF ForceRefresh
  <1> QED
    BY <1>1, <1>2, <1>3, IdleLaunchKeepsInv

LEMMA AcquireKeepsInv ==
    ASSUME Inv, Acquire
    PROVE  Inv'
  <1>1. calls' \in 0..MaxCalls
    BY CallsAssumption DEF Acquire, Call, Inv, TypeOK
  <1> QED
    BY <1>1
    DEF Acquire, Inv, TypeOK, Owner, NoTrappedQueue, NoRepeatedWork, Busy, Elems

\* The queue becomes a job when no other loop is left.
LEMMA DrainKeepsInv ==
    ASSUME Inv, NEW ls, DOMAIN ls = {}, DrainAfter(ls), sync' = FALSE,
           UNCHANGED <<watchlist, puts, calls>>
    PROVE  Inv'
  <1>1. LaunchAfter(ls, "watchlist", pending) /\ pending' = <<>>
    BY DEF DrainAfter
  <1>2. DOMAIN pending' = {} /\ Elems(pending') = {} /\ pending' \in Seq(Tickers)
    BY <1>1, ElemsEmpty
  <1>3. pending \in Seq(Tickers) /\ "watchlist" \in Kinds
    BY InvFacts DEF Kinds
  <1>4. /\ watchlist' \subseteq Tickers /\ puts' \subseteq Tickers
        /\ calls' \in 0..MaxCalls
    BY DEF Inv, TypeOK
  <1> QED
    BY <1>1, <1>2, <1>3, <1>4, LaunchKeepsInv

LEMMA ReleaseKeepsInv ==
    ASSUME Inv, Release
    PROVE  Inv'
  <1>1. DOMAIN loops = {} /\ sync' = FALSE /\ UNCHANGED <<watchlist, puts, calls>>
    BY InvFacts DEF Release
  <1>2. CASE pending = <<>>
    BY <1>1, <1>2
    DEF Release, Inv, TypeOK, Owner, NoTrappedQueue, NoRepeatedWork, Busy, Elems
  <1>3. CASE pending # <<>>
    BY <1>1, <1>3, DrainKeepsInv DEF Release
  <1> QED
    BY <1>2, <1>3

LEMMA ReportStepKeepsInv ==
    ASSUME Inv, NEW g \in DOMAIN loops, NEW s \in Stages, ReportStep(g, s)
    PROVE  Inv'
  <1>1. ~job.terminal /\ g = job.gen
    BY InvFacts
  <1>2. /\ loops' = [loops EXCEPT ![g].reported = @ \cup {s}]
        /\ job' = [job EXCEPT !.steps = @ \cup {s}]
        /\ UNCHANGED <<watchlist, puts, sync, pending, genSeq, calls>>
    BY <1>1 DEF ReportStep
  <1>3. loops[g] \in [reported : SUBSET Stages, result : Results]
    BY DEF Inv, TypeOK
  <1>4. DOMAIN loops' = DOMAIN loops
    BY <1>2
  <1>5. TypeOK'
    BY <1>2, <1>3, <1>4 DEF Inv, TypeOK
  <1>6. loops'[g].reported = loops[g].reported \cup {s}
    BY <1>2, <1>3
  <1>7. /\ job'.steps = job.steps \cup {s} /\ job'.gen = job.gen
        /\ job'.terminal = job.terminal /\ job'.kind = job.kind
        /\ job'.tickers = job.tickers
    BY <1>2 DEF Inv, TypeOK
  <1>8. NoTrappedQueue' /\ NoRepeatedWork'
    BY <1>2, <1>7 DEF Inv, NoTrappedQueue, NoRepeatedWork, Busy, Elems
  <1> QED
    BY <1>1, <1>2, <1>4, <1>5, <1>6, <1>7, <1>8 DEF Inv, Owner

LEMMA ExecReturnKeepsInv ==
    ASSUME Inv, NEW g \in DOMAIN loops, NEW r \in Results, ExecReturn(g, r)
    PROVE  Inv'
  <1>1. /\ loops' = [loops EXCEPT ![g].result = r]
        /\ UNCHANGED <<watchlist, puts, job, sync, pending, genSeq, calls>>
    BY DEF ExecReturn
  <1>2. \A h \in DOMAIN loops : loops[h] \in [reported : SUBSET Stages, result : Results]
    BY DEF Inv, TypeOK
  <1>3. DOMAIN loops' = DOMAIN loops
    BY <1>1
  <1>4. \A h \in DOMAIN loops :
           /\ loops'[h] \in [reported : SUBSET Stages, result : Results]
           /\ loops'[h].reported = loops[h].reported
    BY <1>1, <1>2
  <1>5. TypeOK'
    BY <1>1, <1>3, <1>4 DEF Inv, TypeOK
  <1> QED
    BY <1>1, <1>3, <1>4, <1>5
    DEF Inv, Owner, NoTrappedQueue, NoRepeatedWork, Busy, Elems

LEMMA FinishAndNextKeepsInv ==
    ASSUME Inv, NEW g \in DOMAIN loops, FinishAndNext(g)
    PROVE  Inv'
  <1> DEFINE rest == [h \in DOMAIN loops \ {g} |-> loops[h]]
  <1>1. ~job.terminal /\ g = job.gen /\ ~sync /\ DOMAIN rest = {}
    BY InvFacts
  <1>2. UNCHANGED <<watchlist, puts, sync, calls>> /\ sync' = FALSE
    BY <1>1 DEF FinishAndNext, Inv, TypeOK
  <1>3. CASE pending # <<>>
    <2>1. DrainAfter(rest)
      BY <1>1, <1>3 DEF FinishAndNext
    <2> HIDE DEF rest
    <2> QED
      BY <1>1, <1>2, <2>1, DrainKeepsInv
  <1>4. CASE pending = <<>>
    <2>1. /\ loops' = rest
          /\ job' = [job EXCEPT !.terminal = TRUE, !.failed = loops[g].result = "error"]
          /\ UNCHANGED <<pending, genSeq>>
      BY <1>1, <1>4 DEF FinishAndNext
    <2>2. DOMAIN loops' = {} /\ job'.terminal = TRUE /\ job'.gen = job.gen
      BY <1>1, <2>1 DEF Inv, TypeOK
    <2>3. job' \in [gen : Nat, kind : Kinds \cup {"none"}, tickers : Seq(Tickers),
                    steps : SUBSET Stages, terminal : BOOLEAN, failed : BOOLEAN]
      BY <2>1 DEF Inv, TypeOK
    <2>4. TypeOK'
      BY <1>2, <2>1, <2>2, <2>3 DEF Inv, TypeOK
    <2>5. DOMAIN pending' = {} /\ pending' = <<>>
      BY <1>4, <2>1
    <2> QED
      BY <1>2, <2>1, <2>2, <2>4, <2>5
      DEF Inv, Owner, NoTrappedQueue, NoRepeatedWork
  <1> QED
    BY <1>3, <1>4

LEMMA RestartKeepsInv ==
    ASSUME Inv, Restart
    PROVE  Inv'
  <1>1. /\ DOMAIN loops' = {} /\ DOMAIN pending' = {} /\ pending' = <<>>
        /\ genSeq' = 0 /\ sync' = FALSE
    BY DEF Restart
  <1>2. job' = [gen |-> 0, kind |-> "none", tickers |-> <<>>, steps |-> {},
                terminal |-> TRUE, failed |-> FALSE]
    BY DEF Restart, NoJob
  <1>3. TypeOK'
    <2>1. /\ watchlist' \subseteq Tickers /\ puts' \subseteq Tickers
          /\ calls' \in 0..MaxCalls
      BY CallsAssumption DEF Restart, Call, Inv, TypeOK
    <2>2. job' \in [gen : Nat, kind : Kinds \cup {"none"}, tickers : Seq(Tickers),
                    steps : SUBSET Stages, terminal : BOOLEAN, failed : BOOLEAN]
      BY <1>2
    <2>3. pending' \in Seq(Tickers)
      BY <1>1
    <2> QED
      BY <1>1, <2>1, <2>2, <2>3 DEF TypeOK
  <1> QED
    BY <1>1, <1>2, <1>3 DEF Inv, Owner, NoTrappedQueue, NoRepeatedWork

\* Inv is inductive.
LEMMA NextKeepsInv ==
    ASSUME Inv, [Next]_vars
    PROVE  Inv'
  <1>1. ASSUME NEW t \in Tickers, AddWatchlist(t) PROVE Inv'
    BY <1>1, AddWatchlistKeepsInv
  <1>2. ASSUME NEW t \in Tickers, RequestIngest(t) PROVE Inv'
    BY <1>2, RequestIngestKeepsInv
  <1>3. ASSUME NEW t \in Tickers, RemoveWatchlist(t) PROVE Inv'
    BY <1>3, RemoveWatchlistKeepsInv
  <1>4. CASE ForceRefresh
    BY <1>4, ForceRefreshKeepsInv
  <1>5. CASE Acquire
    BY <1>5, AcquireKeepsInv
  <1>6. CASE Release
    BY <1>6, ReleaseKeepsInv
  <1>7. ASSUME NEW g \in DOMAIN loops, LoopStep(g) PROVE Inv'
    BY <1>7, ReportStepKeepsInv, ExecReturnKeepsInv, FinishAndNextKeepsInv DEF LoopStep
  <1>8. CASE Restart
    BY <1>8, RestartKeepsInv
  <1>9. CASE UNCHANGED vars
    BY <1>9, SameRunnerKeepsInv DEF vars, runner, Inv, TypeOK
  <1> QED
    BY <1>1, <1>2, <1>3, <1>4, <1>5, <1>6, <1>7, <1>8, <1>9 DEF Next

-----------------------------------------------------------------------------
(* The theorems.                                                           *)

THEOREM InvInvariant == Spec => []Inv
  <1>1. Init => Inv
    BY InitInv
  <1>2. Inv /\ [Next]_vars => Inv'
    BY NextKeepsInv
  <1> QED
    BY <1>1, <1>2, PTL DEF Spec

\* The variables of the runner keep their types.
THEOREM TypeCorrect == Spec => []TypeOK
  <1>1. Inv => TypeOK
    BY DEF Inv
  <1> QED
    BY <1>1, InvInvariant, PTL

\* Never two loops, and never a loop beside POST /refresh: two goroutines never
\* recompute the analytic tables at the same time.
THEOREM OneWriter == Spec => []MutualExclusion
  <1>1. Inv => MutualExclusion
    BY DEF Inv, Owner, MutualExclusion
  <1> QED
    BY <1>1, InvInvariant, PTL

\* GET /pipeline/status says "running" exactly while a loop lives, and shows the
\* stages of that loop.
THEOREM TruthfulStatus == Spec => []StatusIsTruthful
  <1>1. Inv => StatusIsTruthful
    BY DEF Inv, Owner, StatusIsTruthful, Status
  <1> QED
    BY <1>1, InvInvariant, PTL

\* A queue always has somebody who will drain it.
THEOREM QueueHasServer == Spec => []NoTrappedQueue
  <1>1. Inv => NoTrappedQueue
    BY DEF Inv
  <1> QED
    BY <1>1, InvInvariant, PTL

\* The queue repeats no ticker and none of the running job's.
THEOREM WorkIsNotRepeated == Spec => []NoRepeatedWork
  <1>1. Inv => NoRepeatedWork
    BY DEF Inv
  <1> QED
    BY <1>1, InvInvariant, PTL

-----------------------------------------------------------------------------
(* Action properties.                                                      *)

\* A published result changes only with a newer job or a new process.
THEOREM FinalResults == Spec => ResultIsFinal
  <1> DEFINE Final == job.terminal => job' = job \/ job'.gen > job.gen \/ genSeq' = 0
  <1>1. Inv /\ [Next]_vars => [Final]_vars
    <2> SUFFICES ASSUME Inv, Next, job.terminal
                 PROVE  job' = job \/ job'.gen > job.gen \/ genSeq' = 0
      OBVIOUS
    <2>1. DOMAIN loops = {} /\ job.gen <= genSeq /\ genSeq \in Nat /\ job.gen \in Nat
      BY DEF Inv, Owner, TypeOK
    <2>2. ASSUME NEW ls, NEW kind, NEW tickers, LaunchAfter(ls, kind, tickers)
          PROVE  job'.gen > job.gen
      BY <2>1, <2>2 DEF LaunchAfter, NewJob
    <2>3. ASSUME NEW t \in Tickers, AddWatchlist(t) \/ RemoveWatchlist(t) PROVE job' = job
      BY <2>3 DEF AddWatchlist, RemoveWatchlist, runner
    <2>4. ASSUME NEW t \in Tickers, RequestIngest(t)
          PROVE  job' = job \/ job'.gen > job.gen
      BY <2>2, <2>4 DEF RequestIngest, Launch
    <2>5. CASE ForceRefresh
      BY <2>2, <2>5 DEF ForceRefresh, Launch
    <2>6. CASE Acquire
      BY <2>6 DEF Acquire
    <2>7. CASE Release
      BY <2>2, <2>7 DEF Release, DrainAfter
    <2>8. CASE Restart
      BY <2>8 DEF Restart
    <2> QED
      BY <2>1, <2>3, <2>4, <2>5, <2>6, <2>7, <2>8 DEF Next
  <1> QED
    BY <1>1, InvInvariant, PTL DEF Spec, ResultIsFinal

\* The queue only grows at its end, or becomes one watchlist job as it is.
THEOREM QueueOrder == Spec => QueueIsFIFO
  <1> DEFINE Grows == /\ Len(pending) <= Len(pending')
                      /\ SubSeq(pending', 1, Len(pending)) = pending
             Moves == /\ job'.gen = genSeq + 1
                      /\ job'.kind = "watchlist"
                      /\ job'.tickers = pending
                      /\ pending' = <<>>
  <1>1. Inv /\ [Next]_vars => [Grows \/ Moves \/ genSeq' = 0]_vars
    <2> SUFFICES ASSUME Inv, Next
                 PROVE  Grows \/ Moves \/ genSeq' = 0
      OBVIOUS
    <2>1. pending \in Seq(Tickers)
      BY InvFacts
    <2>2. pending' = pending => Grows
      BY <2>1
    <2>3. ASSUME NEW t \in Tickers, pending' = Append(pending, t) PROVE Grows
      BY <2>1, <2>3
    <2>4. ASSUME NEW ls, DrainAfter(ls) PROVE Moves
      BY <2>4 DEF DrainAfter, LaunchAfter, NewJob
    <2> HIDE DEF Grows, Moves
    <2>5. ASSUME NEW t \in Tickers, AddWatchlist(t) \/ RemoveWatchlist(t) PROVE Grows
      BY <2>2, <2>5 DEF AddWatchlist, RemoveWatchlist, runner
    <2>6. ASSUME NEW t \in Tickers, RequestIngest(t) PROVE Grows
      BY <2>2, <2>3, <2>6 DEF RequestIngest
    <2>7. CASE ForceRefresh \/ Acquire
      BY <2>2, <2>7 DEF ForceRefresh, Acquire
    <2>8. CASE Release
      BY <2>2, <2>4, <2>8 DEF Release
    <2>9. ASSUME NEW g \in DOMAIN loops, LoopStep(g) PROVE Grows \/ Moves
      BY <2>2, <2>4, <2>9 DEF LoopStep, ReportStep, ExecReturn, FinishAndNext
    <2>10. CASE Restart
      BY <2>10 DEF Restart
    <2> QED
      BY <2>5, <2>6, <2>7, <2>8, <2>9, <2>10 DEF Next
  <1> QED
    BY <1>1, InvInvariant, PTL DEF Spec, QueueIsFIFO

-----------------------------------------------------------------------------
(* The runner implements the slot: every critical section is one step of   *)
(* PipelineSlot, or leaves the slot as it is.                              *)

\* The mapping of JobRunner's instance of PipelineSlot.
Occupants == DOMAIN loops \cup (IF sync THEN {0} ELSE {})
Working == IF job.terminal THEN {} ELSE Elems(job.tickers)
Queued == Elems(pending)

\* Whoever finds the pipeline free finds the slot free, and nothing queued.
LEMMA FreeSlot ==
    ASSUME Inv, ~Busy
    PROVE  Occupants = {} /\ Working = {} /\ Queued = {} /\ pending = <<>>
  BY ElemsEmpty DEF Inv, Owner, Busy, Occupants, Working, Queued, NoTrappedQueue

\* Whoever finds the pipeline busy finds the slot taken.
LEMMA TakenSlot ==
    ASSUME Inv, Busy
    PROVE  Occupants # {}
  BY DEF Inv, Owner, Busy, Occupants

\* A launch puts one new occupant, working on the tickers of the job.
LEMMA LaunchOccupies ==
    ASSUME NEW ls, DOMAIN ls = {}, NEW kind, NEW tickers,
           LaunchAfter(ls, kind, tickers), sync' = FALSE
    PROVE  /\ genSeq' = genSeq + 1
           /\ Occupants' = {genSeq + 1}
           /\ Working' = Elems(tickers)
  <1>1. DOMAIN loops' = {genSeq + 1} /\ genSeq' = genSeq + 1
    BY DEF LaunchAfter
  <1>2. job'.terminal = FALSE /\ job'.tickers = tickers
    BY DEF LaunchAfter, NewJob
  <1> QED
    BY <1>1, <1>2 DEF Occupants, Working, Elems

LEMMA UnchangedSlot ==
    ASSUME UNCHANGED <<sync, pending, genSeq>>, DOMAIN loops' = DOMAIN loops,
           job'.terminal = job.terminal, job'.tickers = job.tickers
    PROVE  UNCHANGED <<Occupants, Working, Queued, genSeq>>
  BY DEF Occupants, Working, Queued, Elems

LEMMA SlotInitial == Init => Slot!SlotInit
  <1> SUFFICES ASSUME Init PROVE Slot!SlotInit
    OBVIOUS
  <1>1. DOMAIN loops = {} /\ ~sync /\ job.terminal /\ pending = <<>> /\ genSeq = 0
    BY DEF Init, NoJob
  <1> QED
    BY <1>1, ElemsEmpty DEF Slot!SlotInit

LEMMA RequestIngestInSlot ==
    ASSUME Inv, NEW t \in Tickers, RequestIngest(t)
    PROVE  \/ Slot!TakeForJob \/ Slot!Enqueue
           \/ UNCHANGED <<Occupants, Working, Queued, genSeq>>
  <1>1. CASE ~Busy
    <2>1. Launch("watchlist", <<t>>) /\ UNCHANGED <<sync, pending>>
      BY <1>1 DEF RequestIngest
    <2>2. DOMAIN loops = {} /\ sync' = FALSE
      BY <1>1, <2>1, InvFacts DEF Busy, Inv, TypeOK
    <2>3. genSeq' = genSeq + 1 /\ Occupants' = {genSeq + 1} /\ Working' = {t}
      BY <2>1, <2>2, LaunchOccupies, ElemsOne DEF Launch
    <2>4. Occupants = {} /\ Queued' = Queued
      BY <1>1, <2>1, FreeSlot DEF Queued, Elems
    <2> QED
      BY <2>3, <2>4
      DEF Slot!TakeForJob, Slot!StartJob, Occupants, Working, Queued
  <1>2. CASE Busy
    <2>1. UNCHANGED <<job, sync, genSeq, loops>>
      BY <1>2 DEF RequestIngest
    <2>2. CASE t \in Elems(job.tickers) \cup Elems(pending)
      BY <1>2, <2>1, <2>2, UnchangedSlot DEF RequestIngest
    <2>3. CASE t \notin Elems(job.tickers) \cup Elems(pending)
      <3>1. pending' = Append(pending, t)
        BY <1>2, <2>3 DEF RequestIngest
      <3>2. Elems(pending') = Queued \cup {t}
        BY <3>1, InvFacts, ElemsAppend DEF Queued
      <3>3. Queued' = Queued \cup {t}
        BY <3>2 DEF Queued, Elems
      <3>4. Occupants # {} /\ t \in Tickers \ Working
        BY <1>2, <2>3, TakenSlot DEF Working
      <3>5. Occupants' = Occupants /\ Working' = Working
        BY <2>1 DEF Occupants, Working, Elems
      <3> QED
        BY <2>1, <3>3, <3>4, <3>5 DEF Slot!Enqueue, Occupants, Working, Queued
    <2> QED
      BY <2>2, <2>3
  <1> QED
    BY <1>1, <1>2

\* The end of the occupant (release, or finishAndNext of the only loop).
LEMMA LeaveSlot ==
    ASSUME Inv, Busy, sync' = FALSE,
           \/ /\ pending = <<>> /\ DOMAIN loops' = {} /\ job'.terminal = TRUE
              /\ UNCHANGED <<pending, genSeq>>
           \/ /\ pending # <<>>
              /\ \E ls : DOMAIN ls = {} /\ DrainAfter(ls)
    PROVE  Slot!Leave
  <1>1. Occupants # {}
    BY TakenSlot
  <1>2. CASE pending = <<>>
    <2>1. /\ Occupants' = {} /\ Working' = {} /\ Queued = {} /\ Queued' = Queued
          /\ genSeq' = genSeq
      BY <1>2, ElemsEmpty DEF Occupants, Working, Queued, Elems
    <2> QED
      BY <1>1, <2>1 DEF Slot!Leave, Occupants, Working, Queued
  <1>3. CASE pending # <<>>
    <2>1. PICK ls : DOMAIN ls = {} /\ DrainAfter(ls)
      BY <1>3
    <2>2. /\ genSeq' = genSeq + 1 /\ Occupants' = {genSeq + 1}
          /\ Working' = Elems(pending)
      BY <2>1, LaunchOccupies DEF DrainAfter
    <2>3. Queued' = {}
      BY <2>1, ElemsEmpty DEF DrainAfter, Queued, Elems
    <2>4. Queued # {}
      BY <1>3, InvFacts, ElemsNone DEF Queued
    <2> QED
      BY <1>1, <2>2, <2>3, <2>4
      DEF Slot!Leave, Slot!StartJob, Occupants, Working, Queued
  <1> QED
    BY <1>2, <1>3

LEMMA FinishInSlot ==
    ASSUME Inv, NEW g \in DOMAIN loops, FinishAndNext(g)
    PROVE  Slot!Leave
  <1> DEFINE rest == [h \in DOMAIN loops \ {g} |-> loops[h]]
  <1>1. ~job.terminal /\ g = job.gen /\ ~sync /\ DOMAIN rest = {} /\ Busy
    BY InvFacts DEF Busy
  <1>2. sync' = FALSE
    BY <1>1 DEF FinishAndNext, Inv, TypeOK
  <1>3. pending # <<>> => DrainAfter(rest)
    BY <1>1 DEF FinishAndNext
  <1>4. pending = <<>> => /\ DOMAIN loops' = {} /\ job'.terminal = TRUE
                          /\ UNCHANGED <<pending, genSeq>>
    BY <1>1 DEF FinishAndNext, Inv, TypeOK
  <1> HIDE DEF rest
  <1> QED
    BY <1>1, <1>2, <1>3, <1>4, LeaveSlot

\* Every step of the runner is a step of the slot or a stutter of it.
LEMMA StepInSlot ==
    ASSUME Inv, [Next]_vars
    PROVE  Slot!SlotNext \/ UNCHANGED <<Occupants, Working, Queued, genSeq>>
  <1>1. ASSUME NEW t \in Tickers, AddWatchlist(t) \/ RemoveWatchlist(t)
        PROVE  UNCHANGED <<Occupants, Working, Queued, genSeq>>
    BY <1>1, UnchangedSlot DEF AddWatchlist, RemoveWatchlist, runner
  <1>2. ASSUME NEW t \in Tickers, RequestIngest(t)
        PROVE  Slot!SlotNext \/ UNCHANGED <<Occupants, Working, Queued, genSeq>>
    BY <1>2, RequestIngestInSlot DEF Slot!SlotNext
  <1>3. CASE ForceRefresh
    <2>1. ~Busy /\ LaunchAfter(loops, "force", <<>>) /\ UNCHANGED <<sync, pending>>
      BY <1>3 DEF ForceRefresh, Launch
    <2>2. DOMAIN loops = {} /\ sync' = FALSE
      BY <2>1, InvFacts DEF Busy, Inv, TypeOK
    <2>3. genSeq' = genSeq + 1 /\ Occupants' = {genSeq + 1} /\ Working' = {}
      BY <2>1, <2>2, LaunchOccupies, ElemsEmpty
    <2>4. Occupants = {} /\ Queued' = Queued
      BY <2>1, FreeSlot DEF Queued, Elems
    <2> QED
      BY <2>3, <2>4
      DEF Slot!SlotNext, Slot!TakeForJob, Slot!StartJob, Occupants, Working, Queued
  <1>4. CASE Acquire
    <2>1. Occupants = {} /\ DOMAIN loops = {}
      BY <1>4, FreeSlot, InvFacts DEF Acquire
    <2>2. Occupants' = {0}
      BY <1>4, <2>1 DEF Acquire, Occupants
    <2>3. UNCHANGED <<Working, Queued, genSeq>>
      BY <1>4 DEF Acquire, Working, Queued, Elems
    <2> QED
      BY <2>1, <2>2, <2>3
      DEF Slot!SlotNext, Slot!TakeForRefresh, Slot!Refresh, Occupants, Working, Queued
  <1>5. CASE Release
    <2>1. sync /\ sync' = FALSE /\ Busy /\ DOMAIN loops = {} /\ job.terminal = TRUE
      BY <1>5, InvFacts DEF Release, Busy, Inv, TypeOK
    <2>2. pending # <<>> => DrainAfter(loops)
      BY <1>5 DEF Release
    <2>3. pending = <<>> => /\ DOMAIN loops' = {} /\ job'.terminal = TRUE
                            /\ UNCHANGED <<pending, genSeq>>
      BY <1>5, <2>1 DEF Release
    <2> QED
      BY <2>1, <2>2, <2>3, LeaveSlot DEF Slot!SlotNext
  <1>6. ASSUME NEW g \in DOMAIN loops, LoopStep(g)
        PROVE  Slot!SlotNext \/ UNCHANGED <<Occupants, Working, Queued, genSeq>>
    <2>1. ASSUME NEW s \in Stages, ReportStep(g, s)
          PROVE  UNCHANGED <<Occupants, Working, Queued, genSeq>>
      <3>1. DOMAIN loops' = DOMAIN loops /\ UNCHANGED <<sync, pending, genSeq>>
        BY <2>1 DEF ReportStep
      <3>2. job'.terminal = job.terminal /\ job'.tickers = job.tickers
        BY <2>1 DEF ReportStep, Inv, TypeOK
      <3> QED
        BY <3>1, <3>2, UnchangedSlot
    <2>2. ASSUME NEW r \in Results, ExecReturn(g, r)
          PROVE  UNCHANGED <<Occupants, Working, Queued, genSeq>>
      BY <2>2, UnchangedSlot DEF ExecReturn
    <2> QED
      BY <1>6, <2>1, <2>2, FinishInSlot DEF LoopStep, Slot!SlotNext
  <1>7. CASE Restart
    <2>1. /\ DOMAIN loops' = {} /\ sync' = FALSE /\ pending' = <<>> /\ genSeq' = 0
          /\ job'.terminal = TRUE
      BY <1>7 DEF Restart, NoJob
    <2>2. Occupants' = {} /\ Working' = {} /\ Queued' = {}
      BY <2>1, ElemsEmpty DEF Occupants, Working, Queued, Elems
    <2> QED
      BY <2>1, <2>2 DEF Slot!SlotNext, Slot!Die, Occupants, Working, Queued
  <1>8. CASE UNCHANGED vars
    BY <1>8, UnchangedSlot DEF vars
  <1> QED
    BY <1>1, <1>2, <1>3, <1>4, <1>5, <1>6, <1>7, <1>8 DEF Next

\* The job runner implements PipelineSlot.
THEOREM RunnerImplementsSlot == Spec => ImplementsSlot
  <1>1. Init => Slot!SlotInit
    BY SlotInitial
  <1>2. Inv /\ [Next]_vars => [Slot!SlotNext]_(Slot!slotVars)
    BY StepInSlot DEF Slot!slotVars, Occupants, Working, Queued
  <1> QED
    BY <1>1, <1>2, InvInvariant, PTL DEF Spec, ImplementsSlot, Slot!SlotSpec
=============================================================================
