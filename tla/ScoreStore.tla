------------------------------ MODULE ScoreStore ------------------------------
(***************************************************************************)
(* The rows of the scores table of one security: written by the processes  *)
(* that run the scores stage (internal/pipeline/analytics.go) under the    *)
(* parameter set that each has resolved, touched by migration 017, served  *)
(* by GET /score and replayed by cmd/analytics -job backtest               *)
(* (internal/backtest/scorereplay.go).                                     *)
(***************************************************************************)
EXTENDS ScoreEngine

CONSTANTS Workers,    \* processes that run the scores stage
          Names,      \* names of parameter sets
          Parameters, \* what a row of parameter_sets may override
          Envs,       \* environments a process may start with
          Inputs,     \* what the stages before the score may have left for a date
          LastDay,    \* bound: the last day with a bar
          MaxWrites,  \* bound: scores computed
          MaxEdits    \* bound: edits of a set, restarts of a process and splits

Days == 1..LastDay
Margins == 0..100
ASSUME StoreAssumption ==
    /\ None \notin Int /\ NoSet \notin Names
    /\ \A ps \in Parameters : DOMAIN ps \subseteq Keys
    /\ LastDay \in Nat \ {0} /\ MaxWrites \in Nat /\ MaxEdits \in Nat
ASSUME InputsAssumption ==
    \A in \in Inputs :
        /\ in.price \in Int /\ {in.graham, in.dcf, in.quality, in.relative} \subseteq Int \cup {None}
        /\ {in.market.m6, in.market.m12} \subseteq Nat \cup {None}

VARIABLES sets,    \* parameter_sets: name -> its parameters, None without the row
          proc,    \* worker -> its environment and PARAMETER_SET
          pass,    \* worker -> the configuration its pass resolved, None if idle
          today,   \* date of the last bar
          split,   \* has the provider re-adjusted every bar there is?
          rows,    \* the table
          writes, edits

vars == <<sets, proc, pass, today, split, rows, writes, edits>>

(***************************************************************************)
(* The resolution of a configuration.                                      *)
(***************************************************************************)
\* resolveScoreConfig: a set that is missing or not valid is replaced by the
\* configuration of the environment, which nothing validates.
ResolveScoreConfig(p) ==
    LET env == ModelConfigFromEnv(proc[p].env)
        name == proc[p].active
        cfg == [WithParameters(env, sets[name]) EXCEPT !.set = name]
    IN  IF sets[name] = None THEN env ELSE IF Valid(cfg) THEN cfg ELSE env

(***************************************************************************)
(* The trace and the row.                                                  *)
(***************************************************************************)
\* BuildTrace21: the margin is the one the configuration gave; the weights are
\* those of the dimensions of the result.
BuildTrace(in, price, mc) == [in |-> in, price |-> price, mos |-> mc.mos, w |-> mc.w]

\* The identity of a row before migration 015 gave it the parameter set.
SameKeyOldIndex(r, s) == r.asOf = s.asOf /\ r.ver = s.ver

\* uq_scores and uq_scores_legacy_null: NULL conflicts with NULL.
SameKey(r, s) == r.asOf = s.asOf /\ r.ver = s.ver /\ r.set = s.set

\* UpsertScore.
Upsert(row) == {r \in rows : ~SameKey(r, row)} \cup {row}

\* runOneScore on an input.
Row(in, mc) ==
    LET res == CalculateScore21(in, in.price, mc.mos, mc.w)
    IN  [asOf |-> today, ver |-> 220, set |-> mc.set, score |-> res.score, signal |-> res.signal,
         trace |-> BuildTrace(in, in.price, mc), applied |-> res.mos, cfg |-> mc]

(***************************************************************************)
(* The replay.                                                             *)
(***************************************************************************)
\* A replay with the weights of the configuration in force.
RecomputeFromTraceWeights(t, mc) == CalculateScore21(t.in, t.price, t.mos, mc.w)

\* RecomputeFromTrace: everything comes from the trace, mc is provenance only.
RecomputeFromTrace(t, mc) == CalculateScore21(t.in, t.price, t.mos, t.w)

\* The adjusted close of the day of a row: what it was when the row was
\* written, or half of it after a 2:1 split.
AdjustedCloseAt(r) == IF split THEN r.trace.price \div 2 ELSE r.trace.price

\* replayFullChain on a row whose three snapshots exist: the bases come from the
\* snapshots, quality, relative and market context from the trace, and the
\* price, the margin and the weights from outside of it.
ReplayFullChain(r, mc) == CalculateScore21(r.trace.in, AdjustedCloseAt(r), mc.mos, mc.w)

\* replayOne refuses the revisions without a trace.
HasTrace(r) == r.ver \in {210, 220}

(***************************************************************************)
(* Actions.                                                                *)
(***************************************************************************)
\* The rows an older release left on the first day: one of 2.0.0, whose
\* snapshot is not a trace, or one of 2.1.0, whose trace has no margin when the
\* configuration gave 0.
LegacyRow(ver, in, mos) ==
    LET res == CalculateScore21(in, in.price, 0, DefaultModelConfig.w)
    IN  [asOf |-> 1, ver |-> ver, set |-> NoSet, score |-> res.score, signal |-> res.signal,
         trace |-> [BuildTrace(in, in.price, DefaultModelConfig) EXCEPT !.mos = mos],
         applied |-> res.mos, cfg |-> DefaultModelConfig]

Init ==
    /\ sets = [n \in Names |-> None]
    /\ proc \in [Workers -> [env : Envs, active : Names]]
    /\ pass = [p \in Workers |-> None]
    /\ today = 1 /\ split = FALSE
    /\ rows \in {{}} \cup {{LegacyRow(ver, in, None)} : ver \in {200, 210}, in \in Inputs}
    /\ writes = 0 /\ edits = 0

\* The scores stage resolves its configuration once, before the first security.
Resolve(p) ==
    /\ pass[p] = None /\ writes < MaxWrites
    /\ pass' = [pass EXCEPT ![p] = ResolveScoreConfig(p)]
    /\ UNCHANGED <<sets, proc, today, split, rows, writes, edits>>

WriteScore(p) ==
    /\ pass[p] # None /\ writes < MaxWrites
    /\ \E in \in Inputs : rows' = Upsert(Row(in, pass[p]))
    /\ pass' = [pass EXCEPT ![p] = None]
    /\ writes' = writes + 1
    /\ UNCHANGED <<sets, proc, today, split, edits>>

\* A read of the stage fails, the pass is a dry run, or the process dies.
LeavePass(p) ==
    /\ pass[p] # None
    /\ pass' = [pass EXCEPT ![p] = None]
    /\ UNCHANGED <<sets, proc, today, split, rows, writes, edits>>

\* The same process, started again with another environment.
Restart(p) ==
    /\ pass[p] = None /\ edits < MaxEdits
    /\ \E e \in Envs, n \in Names : proc' = [proc EXCEPT ![p] = [env |-> e, active |-> n]]
    /\ edits' = edits + 1
    /\ UNCHANGED <<sets, pass, today, split, rows, writes>>

\* The seeds of migration 015 and any later edit keep the id of the name.
EditSet(n) ==
    /\ edits < MaxEdits
    /\ \E ps \in Parameters : sets' = [sets EXCEPT ![n] = ps]
    /\ edits' = edits + 1
    /\ UNCHANGED <<proc, pass, today, split, rows, writes>>

NewBar ==
    /\ today < LastDay /\ today' = today + 1
    /\ UNCHANGED <<sets, proc, pass, split, rows, writes, edits>>

Split ==
    /\ ~split /\ edits < MaxEdits
    /\ split' = TRUE /\ edits' = edits + 1
    /\ UNCHANGED <<sets, proc, pass, today, rows, writes>>

\* A backfill with the margin of the configuration of the day it runs.
BackfilledOtherMargin(r) == [r EXCEPT !.trace.mos = 50]

\* Migration 017: the margin that the trace of a 2.1.0 row lacks.
Backfilled(r) == [r EXCEPT !.trace.mos = 30]

\* RunMigrations runs every file again each time a process starts.
Migrate ==
    /\ rows' = {IF r.ver = 210 /\ r.trace.mos = None THEN Backfilled(r) ELSE r : r \in rows}
    /\ rows' # rows
    /\ UNCHANGED <<sets, proc, pass, today, split, writes, edits>>

Next ==
    \/ \E p \in Workers : Resolve(p) \/ WriteScore(p) \/ LeavePass(p) \/ Restart(p)
    \/ \E n \in Names : EditSet(n)
    \/ NewBar \/ Split \/ Migrate

Spec == Init /\ [][Next]_vars

(***************************************************************************)
(* Properties.  "cfg" and "applied" are history: the configuration of the  *)
(* pass that wrote a row and the margin its calculation worked with.       *)
(***************************************************************************)
Configs == [w : [Dims -> 0..100], mos : Margins, buy : 0..100, hold : {40},
            set : Names \cup {NoSet}]
Traces == [in : Inputs, price : Int, mos : Margins \cup {None}, w : [Dims -> 0..100]]
RowType == [asOf : Days, ver : {200, 210, 220}, set : Names \cup {NoSet}, score : 0..100,
            signal : {"comprar", "mantener", "vender"}, trace : Traces, applied : 1..100,
            cfg : Configs]

\* Every variable has its type, and a score and a margin stay in their range.
TypeOK ==
    /\ \A n \in Names : sets[n] = None \/ sets[n] \in Parameters
    /\ proc \in [Workers -> [env : Envs, active : Names]]
    /\ \A p \in Workers : pass[p] = None \/ pass[p] \in Configs
    /\ today \in Days /\ split \in BOOLEAN
    /\ rows \subseteq RowType
    /\ writes \in 0..MaxWrites /\ edits \in 0..MaxEdits

\* Whatever was edited, restarted or backfilled since, a row that has a trace
\* replays to the score and the signal it stores (scorereplay.go: a difference
\* is a bug of determinism; GET /score shows the dimensions of this replay).
ReplayReproduces ==
    \A r \in rows : HasTrace(r) =>
       LET res == RecomputeFromTrace(r.trace, DefaultModelConfig)
       IN  res.score = r.score /\ res.signal = r.signal

\* A row is replaced only by a calculation of its own date, revision and set,
\* and only by one; two sets coexist on a date (ADR D26).
SetsCoexist ==
    [][writes' > writes =>
          \E new \in rows' :
             /\ \A r \in rows : <<r.asOf, r.ver, r.set>> # <<new.asOf, new.ver, new.set>> => r \in rows'
             /\ \A r \in rows' : r # new => r \in rows]_vars

\* "NO cambia el resultado de ningun replay": the backfill of migration 017
\* leaves what every row replays to as it was.
BackfillIsInvisible ==
    [][writes' = writes =>
          \A r \in rows : \E s \in rows' :
             /\ [s EXCEPT !.trace.mos = 0] = [r EXCEPT !.trace.mos = 0]
             /\ CalculateScore21(s.trace.in, s.trace.price, s.trace.mos, s.trace.w)
                  = CalculateScore21(r.trace.in, r.trace.price, r.trace.mos, r.trace.w)]_vars

\* What the doc of ReplayOptions says: without a parameter set the replay, the
\* chain included, reproduces the score with the weights of the trace.
FullChainReproduces ==
    \A r \in rows, p \in Workers : r.ver = 220 /\ ~split =>
       ReplayFullChain(r, ModelConfigFromEnv(proc[p].env)).score = r.score
=============================================================================
