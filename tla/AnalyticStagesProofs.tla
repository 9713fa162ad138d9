------------------------ MODULE AnalyticStagesProofs ------------------------
(***************************************************************************)
(* What holds of the calculation stages for every list of securities,      *)
(* every horizon and every set of workers and jobs, whatever they overlap: *)
(* the types of the tables, the date of the rows, and the completeness of  *)
(* a pass under which nobody else changed a table.                         *)
(***************************************************************************)
EXTENDS AnalyticStages, WellFoundedInduction, TLAPS

WaccRows == [sec : Securities, asOf : Dates, facts : 0..MaxDate, config : Configs]
ScoreRows == [sec : Securities, asOf : Dates, config : Configs, val : SUBSET ValuationRows,
              pfcf : SUBSET ValuationRows, metric : SUBSET MetricRows, facts : 0..MaxDate,
              growth : 0..MaxDate, peers : 0..MaxDate, trend : 0..MaxDate]
WorkerStates == [pc : {"idle", "price", "inputs", "write"}, job : Chains \cup StageNames,
                 stage : Nat, at : Nat, config : Configs, asOf : 0..MaxDate,
                 growth : SUBSET CapitalRows, val : SUBSET ValuationRows, intact : BOOLEAN,
                 pass : Nat]

\* A worker is inside its plan, and computes for a date once it has read one.
OnPlan(v) == /\ v.stage \in 1..Len(Plan(v.job))
             /\ v.at \in 1..Len(Targets)
             /\ v.pc \in {"inputs", "write"} => v.asOf \in Dates

OneRowPerKey(table) == \A a, b \in table : a.sec = b.sec /\ a.asOf = b.asOf => a = b

Typed ==
    /\ bar \in [Securities -> 0..MaxDate]
    /\ filing \in [Securities -> [Dates -> {"none"} \cup Values]]
    /\ growths \subseteq CapitalRows /\ waccs \subseteq WaccRows
    /\ valuations \subseteq ValuationRows /\ metrics \subseteq MetricRows
    /\ scores \subseteq ScoreRows
    /\ OneRowPerKey(growths) /\ OneRowPerKey(waccs)
    /\ OneRowPerKey(valuations) /\ OneRowPerKey(metrics)
    /\ \A a, b \in scores : <<a.sec, a.asOf, a.config>> = <<b.sec, b.asOf, b.config>> => a = b
    /\ w \in [Workers -> WorkerStates]
    /\ \A p \in Workers : OnPlan(w[p])

-----------------------------------------------------------------------------
(* The invariants of the chain.  They hold of every worker that nobody has *)
(* disturbed since it began: of the others they say nothing.               *)

\* growth_metrics and wacc_metrics have the same keys.
Twins == /\ \A g \in growths : \E c \in waccs : c.sec = g.sec /\ c.asOf = g.asOf
         /\ \A c \in waccs : \E g \in growths : g.sec = c.sec /\ g.asOf = c.asOf

\* No row of capital knows a filing later than its date, or is dated after the last bar.
Dated == \A r \in growths \cup waccs : r.facts <= r.asOf /\ r.asOf <= bar[r.sec]

\* The rows of the later stages are cut at their date.
Cut == /\ \A r \in metrics \cup scores : r.facts <= r.asOf /\ r.growth <= r.asOf
       /\ \A r \in metrics : r.series <= r.asOf

\* The bars only go forward under a worker that has read one.
HeldDates ==
    \A p \in Workers : w[p].pc \in {"inputs", "write"} => w[p].asOf <= bar[SecOf(p)]

\* What a worker has read is still so when it writes.
Held(p) ==
    /\ w[p].pc \in {"inputs", "write"} => w[p].asOf = bar[SecOf(p)]
    /\ w[p].pc = "write" /\ StageOf(p) = "valuation" =>
           w[p].growth = LatestRow(growths, SecOf(p))
    /\ w[p].pc = "write" /\ StageOf(p) = "scores" =>
           w[p].val = Rows(valuations, SecOf(p), w[p].asOf)

ReadsHold == \A p \in Workers \ disturbed : Held(p)

ChainInv == Twins /\ Dated /\ Cut /\ HeldDates /\ ReadsHold

\* A step of p leaves alone what the other workers rely on, or disturbs them.
Spares(p) ==
    \/ /\ UNCHANGED <<market, tables>>
       /\ \A q \in Workers : q # p /\ q \notin disturbed' => q \notin disturbed
    \/ \A q \in Workers : q # p /\ q \notin disturbed' => w[q].pc = "idle"

-----------------------------------------------------------------------------
(* What a chain has done so far: the rows of the securities it has passed. *)

Now(s) == FactsAsOf(s, bar[s])
FreshGrowth(s) == [sec |-> s, asOf |-> bar[s], facts |-> Now(s)]
FreshWacc(s) == [sec |-> s, asOf |-> bar[s], facts |-> Now(s), config |-> "set"]
FreshValuation(s) == [sec |-> s, asOf |-> bar[s], growth |-> bar[s], wacc |-> bar[s],
                      filed |-> Now(s), configs |-> {"set"}]
OfPass(m, s) == /\ m.facts = Now(s)
                /\ OfPassOrMissing(m.series, Now(s)) /\ OfPassOrMissing(m.growth, bar[s])

GrowthDone(s) == FreshGrowth(s) \in growths /\ FreshWacc(s) \in waccs
ValuationDone(s) ==
    Computable(s, Now(s)) => Rows(valuations, s, bar[s]) = {FreshValuation(s)}
MetricsDone(s) == \E m \in MetricRows : Rows(metrics, s, bar[s]) = {m} /\ OfPass(m, s)

Done(k, s) == /\ k = 1 => GrowthDone(s)
              /\ k = 2 => ValuationDone(s)
              /\ k = 3 => MetricsDone(s)
              /\ k = 4 => ScoredByThisPass(s)

\* A worker in state v has passed the target i of stage k.
Passed(v, k, i) == k < v.stage \/ (k = v.stage /\ i < v.at)

InChain(v) == v.pc # "idle" /\ v.intact /\ v.job \in {"refresh", "watchlist"}

PassOf(p) ==
    InChain(w[p]) =>
        /\ w[p].config = "set"
        /\ \A k \in 1..4 : \A i \in DOMAIN Targets :
              Passed(w[p], k, i) /\ bar[Targets[i]] > 0 => Done(k, Targets[i])

PassInv == \A p \in Workers \ disturbed : PassOf(p)

-----------------------------------------------------------------------------
(* Dates: the largest of a bounded set of naturals.                        *)

LEMMA LeastOf ==
    ASSUME NEW T \in SUBSET Nat, T # {}
    PROVE  \E x \in T : \A y \in T : x <= y
  <1>1. PICK x \in T : \A y \in T : ~(<<y, x>> \in OpToRel(<, Nat))
    BY WFMin, NatLessThanWellFounded
  <1>2. \A y \in T : ~(y < x)
    BY <1>1 DEF OpToRel
  <1> QED
    BY <1>2

\* The least upper bound of a bounded set is in it.
LEMMA MaxOf ==
    ASSUME NEW n \in Nat, NEW S \in SUBSET (0..n), S # {}
    PROVE  Max(S) \in S /\ \A y \in S : y <= Max(S)
  <1> DEFINE U == {b \in 0..n : \A x \in S : x <= b}
  <1>1. n \in U /\ U \in SUBSET Nat
    OBVIOUS
  <1>2. PICK m \in U : \A y \in U : m <= y
    BY <1>1, LeastOf
  <1>3. m \in S
    <2>1. CASE m = 0
      <3>1. PICK x \in S : TRUE
        OBVIOUS
      <3> QED
        BY <1>2, <2>1, <3>1
    <2>2. CASE m > 0
      <3>1. m - 1 \notin U
        BY <1>2, <2>2
      <3>2. PICK x \in S : ~(x <= m - 1)
        BY <3>1, <2>2
      <3> QED
        BY <3>2, <1>2
    <2> QED
      BY <1>2, <2>1, <2>2
  <1>4. \E x \in S : \A y \in S : x >= y
    BY <1>2, <1>3
  <1> QED
    BY <1>4 DEF Max

LEMMA LastIs ==
    ASSUME NEW S \in SUBSET (0..MaxDate)
    PROVE  /\ Last(S) \in 0..MaxDate
           /\ Last(S) \in S \cup {0}
           /\ \A x \in S : x <= Last(S)
  <1>1. S \cup {0} \in SUBSET (0..MaxDate) /\ S \cup {0} # {} /\ MaxDate \in Nat
    BY StagesAssumption
  <1>2. Max(S \cup {0}) \in S \cup {0} /\ \A y \in S \cup {0} : y <= Max(S \cup {0})
    BY <1>1, MaxOf
  <1> QED
    BY <1>1, <1>2 DEF Last

\* The facts that are filed on a date are of that date or before.
LEMMA FactsBounded ==
    ASSUME NEW s, NEW d \in 0..MaxDate
    PROVE  FactsAsOf(s, d) \in 0..MaxDate /\ FactsAsOf(s, d) <= d
  <1> DEFINE S == {e \in Dates : e <= d /\ filing[s][e] # "none"}
  <1>1. S \in SUBSET (0..MaxDate) /\ MaxDate \in Nat
    BY StagesAssumption DEF Dates
  <1>2. Last(S) \in 0..MaxDate /\ Last(S) \in S \cup {0}
    BY <1>1, LastIs
  <1>3. FactsAsOf(s, d) = Last(S)
    BY DEF FactsAsOf
  <1>4. \A x \in S : x <= d
    OBVIOUS
  <1> HIDE DEF S
  <1> QED
    BY <1>1, <1>2, <1>3, <1>4

\* The date of the newest of some rows.
LEMMA DateBounded ==
    ASSUME NEW rows, \A r \in rows : r.asOf \in 0..MaxDate
    PROVE  /\ DateOf(rows) \in 0..MaxDate
           /\ DateOf(rows) \in {r.asOf : r \in rows} \cup {0}
           /\ \A r \in rows : r.asOf <= DateOf(rows)
  <1> DEFINE S == {r.asOf : r \in rows}
  <1>1. S \in SUBSET (0..MaxDate)
    OBVIOUS
  <1>2. \A r \in rows : r.asOf \in S
    OBVIOUS
  <1>3. DateOf(rows) = Last(S)
    BY DEF DateOf
  <1> HIDE DEF S
  <1>4. Last(S) \in 0..MaxDate /\ Last(S) \in S \cup {0} /\ \A x \in S : x <= Last(S)
    BY <1>1, LastIs
  <1> QED
    BY <1>2, <1>3, <1>4 DEF S

-----------------------------------------------------------------------------
(* Tables.                                                                 *)

LEMMA UpsertIs ==
    ASSUME NEW R, NEW table \in SUBSET R, NEW row \in R, OneRowPerKey(table)
    PROVE  /\ Upsert(table, row) \subseteq R
           /\ OneRowPerKey(Upsert(table, row))
           /\ Rows(Upsert(table, row), row.sec, row.asOf) = {row}
           /\ \A s, d : s # row.sec \/ d # row.asOf
                  => Rows(Upsert(table, row), s, d) = Rows(table, s, d)
  BY DEF Upsert, Rows, OneRowPerKey

LEMMA UpsertTyped ==
    ASSUME NEW R, NEW table, table \subseteq R, OneRowPerKey(table), NEW row \in R,
           NEW next, next = Upsert(table, row) \/ next = table
    PROVE  next \subseteq R /\ OneRowPerKey(next)
  <1>1. Upsert(table, row) \subseteq R /\ OneRowPerKey(Upsert(table, row))
    BY UpsertIs
  <1> QED
    BY <1>1

-----------------------------------------------------------------------------
(* The plan of a worker.                                                   *)

LEMMA TargetsAre ==
    /\ Len(Targets) \in Nat /\ Len(Targets) >= 1
    /\ DOMAIN Targets = 1..Len(Targets)
    /\ \A i \in 1..Len(Targets) : Targets[i] \in Securities
  BY StagesAssumption DEF Securities

LEMMA StagesAre ==
    /\ Len(Stages) = 4 /\ DOMAIN Stages = 1..4
    /\ Stages[1] = "growth" /\ Stages[2] = "valuation"
    /\ Stages[3] = "metrics" /\ Stages[4] = "scores"
    /\ StageNames = {"growth", "valuation", "metrics", "scores"}
  <1>1. /\ Len(Stages) = 4 /\ DOMAIN Stages = 1..4
        /\ Stages[1] = "growth" /\ Stages[2] = "valuation"
        /\ Stages[3] = "metrics" /\ Stages[4] = "scores"
    BY DEF Stages
  <1>2. 1..4 = {1, 2, 3, 4}
    OBVIOUS
  <1> QED
    BY <1>1, <1>2 DEF StageNames

LEMMA PlanIs ==
    ASSUME NEW job \in Chains \cup StageNames
    PROVE  /\ Len(Plan(job)) \in 1..4
           /\ \A k \in 1..Len(Plan(job)) : Plan(job)[k] \in StageNames
           /\ job \in Chains => Plan(job) = Stages
  <1>1. CASE job \in Chains
    <2>1. 1..4 = {1, 2, 3, 4}
      OBVIOUS
    <2> QED
      BY <1>1, <2>1, StagesAre DEF Plan
  <1>2. CASE job \notin Chains
    <2>1. Plan(job) = <<job>> /\ job \in StageNames
      BY <1>2 DEF Plan
    <2> QED
      BY <1>2, <2>1
  <1> QED
    BY <1>1, <1>2

LEMMA FirstOnPlan == 1 \in 1..Len(Plan("refresh")) /\ 1 \in 1..Len(Targets)
  <1>1. "refresh" \in Chains
    BY DEF Chains
  <1> QED
    BY <1>1, PlanIs, StagesAre, TargetsAre

\* A worker that has not begun, or that has died.
LEMMA IdleTyped ==
    ASSUME NEW b \in BOOLEAN, NEW n \in Nat, NEW v,
           v = [pc |-> "idle", job |-> "refresh", stage |-> 1, at |-> 1, config |-> "env",
                asOf |-> 0, growth |-> {}, val |-> {}, intact |-> b, pass |-> n]
    PROVE  v \in WorkerStates /\ OnPlan(v) /\ v.pc = "idle" /\ v.intact = b
  <1>1. 0 \in 0..MaxDate /\ "refresh" \in Chains /\ "env" \in Configs
    BY StagesAssumption DEF Chains, Configs
  <1>2. 1 \in 1..Len(Plan("refresh")) /\ 1 \in 1..Len(Targets)
    BY FirstOnPlan
  <1>3. v \in WorkerStates
    BY <1>1 DEF WorkerStates
  <1>4. v.pc = "idle" /\ v.job = "refresh" /\ v.stage = 1 /\ v.at = 1
    OBVIOUS
  <1>5. OnPlan(v)
    BY <1>2, <1>4 DEF OnPlan
  <1> QED
    BY <1>3, <1>4, <1>5

LEMMA DeadTyped ==
    ASSUME NEW b \in BOOLEAN, NEW n \in Nat, NEW v,
           v = [IdleWorker EXCEPT !.intact = b, !.pass = n]
    PROVE  v \in WorkerStates /\ OnPlan(v) /\ v.pc = "idle" /\ v.intact = b
  <1>1. v = [pc |-> "idle", job |-> "refresh", stage |-> 1, at |-> 1, config |-> "env",
             asOf |-> 0, growth |-> {}, val |-> {}, intact |-> b, pass |-> n]
    BY DEF IdleWorker
  <1> QED
    BY <1>1, IdleTyped

\* A worker that is done with a security goes on with the next one, with the
\* next stage, or leaves.
LEMMA AfterIs ==
    ASSUME NEW v \in WorkerStates, OnPlan(v)
    PROVE  /\ After(v) \in WorkerStates
           /\ OnPlan(After(v))
           /\ After(v).intact = v.intact
           /\ \/ /\ v.at < Len(Targets)
                 /\ After(v).pc = "price" /\ After(v).job = v.job
                 /\ After(v).stage = v.stage /\ After(v).at = v.at + 1
                 /\ After(v).config = v.config
              \/ /\ v.at = Len(Targets) /\ v.stage < Len(Plan(v.job))
                 /\ After(v).pc = "price" /\ After(v).job = v.job
                 /\ After(v).stage = v.stage + 1 /\ After(v).at = 1
                 /\ After(v).config = ConfigOf(v.job, Plan(v.job)[v.stage + 1])
              \/ /\ v.at = Len(Targets) /\ v.stage = Len(Plan(v.job))
                 /\ After(v).pc = "idle"
  <1>0. /\ v.at \in 1..Len(Targets) /\ Len(Targets) \in Nat
        /\ v.stage \in 1..Len(Plan(v.job)) /\ Len(Plan(v.job)) \in 1..4
        /\ 0 \in 0..MaxDate /\ v.intact \in BOOLEAN /\ v.pass \in Nat
    BY TargetsAre, PlanIs, StagesAssumption DEF OnPlan, WorkerStates
  <1> DEFINE fresh == [v EXCEPT !.pc = "price", !.asOf = 0, !.growth = {}, !.val = {}]
  <1>1. /\ fresh \in WorkerStates /\ fresh.pc = "price" /\ fresh.job = v.job
        /\ fresh.stage = v.stage /\ fresh.at = v.at /\ fresh.config = v.config
        /\ fresh.intact = v.intact
    BY <1>0 DEF WorkerStates
  <1>2. CASE v.at < Len(Targets)
    <2>1. After(v) = [fresh EXCEPT !.at = v.at + 1]
      BY <1>2 DEF After
    <2> HIDE DEF fresh
    <2> QED
      BY <1>0, <1>1, <1>2, <2>1 DEF WorkerStates, OnPlan
  <1>3. CASE v.at = Len(Targets) /\ v.stage < Len(Plan(v.job))
    <2> DEFINE c == ConfigOf(v.job, Plan(v.job)[v.stage + 1])
    <2>1. After(v) = [fresh EXCEPT !.at = 1, !.stage = v.stage + 1, !.config = c]
      BY <1>0, <1>3 DEF After
    <2>2. c \in Configs
      BY DEF ConfigOf, Configs
    <2> HIDE DEF fresh, c
    <2>3. After(v) \in WorkerStates
      <3>1. v.stage + 1 \in Nat /\ 1 \in Nat
        BY <1>0
      <3> QED
        BY <1>1, <2>1, <2>2, <3>1 DEF WorkerStates
    <2>4. /\ After(v).pc = "price" /\ After(v).job = v.job /\ After(v).config = c
          /\ After(v).stage = v.stage + 1 /\ After(v).at = 1 /\ After(v).intact = v.intact
      BY <1>1, <2>1 DEF WorkerStates
    <2>5. OnPlan(After(v))
      BY <1>0, <1>3, <2>4 DEF OnPlan
    <2> QED
      BY <1>3, <2>3, <2>4, <2>5 DEF c
  <1>4. CASE v.at = Len(Targets) /\ v.stage = Len(Plan(v.job))
    <2>1. After(v) = [IdleWorker EXCEPT !.intact = v.intact, !.pass = v.pass]
      BY <1>0, <1>4 DEF After
    <2> HIDE DEF fresh
    <2>2. /\ After(v) \in WorkerStates /\ OnPlan(After(v))
          /\ After(v).pc = "idle" /\ After(v).intact = v.intact
      BY <1>0, <2>1, DeadTyped
    <2> QED
      BY <1>4, <2>2
  <1> QED
    BY <1>0, <1>2, <1>3, <1>4

\* What the worker p does in the walk: a new state v of p, the others as they were.
LEMMA OneWorkerMoves ==
    ASSUME Typed, NEW p \in Workers, NEW v, w' = [w EXCEPT ![p] = v]
    PROVE  /\ w'[p] = v
           /\ \A q \in Workers : q # p => w'[q] = w[q]
           /\ v \in WorkerStates => w' \in [Workers -> WorkerStates]
           /\ v \in WorkerStates /\ OnPlan(v) => \A q \in Workers : OnPlan(w'[q])
  BY DEF Typed

\* The security a worker is at.
LEMMA SecIs ==
    ASSUME Typed, NEW p \in Workers
    PROVE  /\ w[p] \in WorkerStates /\ OnPlan(w[p])
           /\ SecOf(p) \in Securities /\ bar[SecOf(p)] \in 0..MaxDate
           /\ StageOf(p) \in StageNames
           /\ w[p].asOf \in 0..MaxDate
  <1>1. w[p] \in WorkerStates /\ OnPlan(w[p])
    BY DEF Typed
  <1>2. SecOf(p) \in Securities
    BY <1>1, TargetsAre DEF SecOf, OnPlan
  <1>3. StageOf(p) \in StageNames
    BY <1>1, PlanIs DEF StageOf, OnPlan, WorkerStates
  <1> QED
    BY <1>1, <1>2, <1>3 DEF Typed, WorkerStates

\* A worker that leaves a security leaves it typed.
LEMMA LeavesTyped ==
    ASSUME Typed, NEW p \in Workers, Leave(p) \/ Skip(p)
    PROVE  w' \in [Workers -> WorkerStates] /\ \A q \in Workers : OnPlan(w'[q])
  <1>1. w[p] \in WorkerStates /\ OnPlan(w[p])
    BY SecIs
  <1>2. ASSUME NEW v \in WorkerStates, OnPlan(v), w' = [w EXCEPT ![p] = After(v)]
        PROVE  w' \in [Workers -> WorkerStates] /\ \A q \in Workers : OnPlan(w'[q])
    BY <1>2, AfterIs, OneWorkerMoves
  <1>3. [w[p] EXCEPT !.intact = FALSE] \in WorkerStates
    BY <1>1 DEF WorkerStates
  <1>4. OnPlan([w[p] EXCEPT !.intact = FALSE])
    BY <1>1 DEF WorkerStates, OnPlan
  <1> QED
    BY <1>1, <1>2, <1>3, <1>4 DEF Leave, Skip

-----------------------------------------------------------------------------
(* The rows that are written have their types.                             *)

LEMMA CapitalRowsTyped ==
    ASSUME Typed, NEW s \in Securities, NEW d \in Dates, NEW c \in Configs
    PROVE  /\ GrowthRow(s, d) \in CapitalRows /\ WaccRow(s, d, c) \in WaccRows
           /\ GrowthRow(s, d).facts <= d /\ WaccRow(s, d, c).facts <= d
  <1>1. FactsAsOf(s, d) \in 0..MaxDate /\ FactsAsOf(s, d) <= d
    BY FactsBounded DEF Dates
  <1> QED
    BY <1>1 DEF GrowthRow, WaccRow, CapitalRows, WaccRows

LEMMA GrowthAsOfBounded ==
    ASSUME Typed, NEW s, NEW d \in 0..MaxDate
    PROVE  /\ GrowthAsOf(s, d) \in 0..MaxDate
           /\ \A g \in growths : g.sec = s /\ g.asOf <= d => g.asOf <= GrowthAsOf(s, d)
           /\ GrowthAsOf(s, d) <= d
  <1> DEFINE S == {g \in growths : g.sec = s /\ g.asOf <= d}
  <1>1. \A r \in S : r.asOf \in 0..MaxDate
    BY DEF Typed, CapitalRows, Dates
  <1>2. GrowthAsOf(s, d) = DateOf(S)
    BY DEF GrowthAsOf, DateOf
  <1>3. \A r \in S : r.asOf <= d
    OBVIOUS
  <1>4. \A g \in growths : g.sec = s /\ g.asOf <= d => g \in S
    OBVIOUS
  <1> HIDE DEF S
  <1>5. /\ DateOf(S) \in 0..MaxDate /\ DateOf(S) \in {r.asOf : r \in S} \cup {0}
        /\ \A r \in S : r.asOf <= DateOf(S)
    BY <1>1, DateBounded
  <1> QED
    BY <1>2, <1>3, <1>4, <1>5

LEMMA MetricRowTyped ==
    ASSUME Typed, NEW s \in Securities, NEW d \in Dates,
           NEW series \in MayMiss(FactsAsOf(s, d)), NEW growth \in MayMiss(GrowthAsOf(s, d))
    PROVE  /\ MetricRow(s, d, series, growth) \in MetricRows
           /\ FactsAsOf(s, d) <= d /\ series <= d /\ growth <= d
           /\ OfPassOrMissing(series, FactsAsOf(s, d))
           /\ OfPassOrMissing(growth, GrowthAsOf(s, d))
  <1>1. /\ FactsAsOf(s, d) \in 0..MaxDate /\ FactsAsOf(s, d) <= d
        /\ GrowthAsOf(s, d) \in 0..MaxDate /\ GrowthAsOf(s, d) <= d
    BY FactsBounded, GrowthAsOfBounded DEF Dates
  <1>2. 0 \in 0..MaxDate /\ 0 <= d
    BY StagesAssumption DEF Dates
  <1>3. series \in {FactsAsOf(s, d), 0} /\ growth \in {GrowthAsOf(s, d), 0}
    BY DEF MayMiss
  <1> QED
    BY <1>1, <1>2, <1>3 DEF MetricRow, MetricRows, OfPassOrMissing

LEMMA ValuationRowTyped ==
    ASSUME Typed, NEW s \in Securities, NEW v \in WorkerStates, v.asOf \in Dates
    PROVE  ValuationRow(s, v) \in ValuationRows
  <1> DEFINE wacc == LatestRow(waccs, s)
             infos == {FactsAsOf(s, v.asOf)} \cup {r.facts : r \in v.growth \cup wacc}
             confs == {v.config} \cup {r.config : r \in wacc}
  <1>1. wacc \subseteq WaccRows /\ v.growth \subseteq CapitalRows
    BY DEF LatestRow, Typed, WorkerStates
  <1>2. DateOf(v.growth) \in 0..MaxDate /\ DateOf(wacc) \in 0..MaxDate
    BY <1>1, DateBounded DEF WaccRows, CapitalRows, Dates
  <1>3. Last(infos) \in 0..MaxDate
    <2>1. FactsAsOf(s, v.asOf) \in 0..MaxDate
      BY FactsBounded DEF Dates
    <2>2. infos \in SUBSET (0..MaxDate)
      BY <1>1, <2>1 DEF WaccRows, CapitalRows
    <2> HIDE DEF infos
    <2> QED
      BY <2>2, LastIs
  <1>4. confs \in SUBSET Configs
    BY <1>1 DEF WaccRows, WorkerStates
  <1>5. ValuationRow(s, v) =
          [sec |-> s, asOf |-> v.asOf, growth |-> DateOf(v.growth), wacc |-> DateOf(wacc),
           filed |-> Last(infos), configs |-> confs]
    BY DEF ValuationRow
  <1> HIDE DEF wacc, infos, confs
  <1> QED
    BY <1>2, <1>3, <1>4, <1>5 DEF ValuationRows

LEMMA ScoreRowTyped ==
    ASSUME Typed, NEW s \in Securities, NEW v \in WorkerStates, v.asOf \in Dates,
           NEW trend \in Trends(s)
    PROVE  ScoreRow(s, v, trend) \in ScoreRows
  <1>1. /\ v.val \in SUBSET ValuationRows /\ v.config \in Configs
        /\ trend \in 0..MaxDate
    BY StagesAssumption DEF WorkerStates, Typed, Trends
  <1>2. Rows(valuations, s, v.asOf) \in SUBSET ValuationRows
    BY DEF Rows, Typed
  <1>3. Rows(metrics, s, v.asOf) \in SUBSET MetricRows
    BY DEF Rows, Typed
  <1>4. FactsAsOf(s, v.asOf) \in 0..MaxDate /\ GrowthAsOf(s, v.asOf) \in 0..MaxDate
    BY FactsBounded, GrowthAsOfBounded DEF Dates
  <1>5. PeersSeen(s) \in 0..MaxDate
    <2> DEFINE S == {m \in metrics : m.sec # s}
    <2>1. \A r \in S : r.asOf \in 0..MaxDate
      BY DEF Typed, MetricRows, Dates
    <2>2. PeersSeen(s) = DateOf(S)
      BY DEF PeersSeen, DateOf
    <2> HIDE DEF S
    <2> QED
      BY <2>1, <2>2, DateBounded
  <1> QED
    BY <1>1, <1>2, <1>3, <1>4, <1>5 DEF ScoreRow, ScoreRows

-----------------------------------------------------------------------------
(* Typed is inductive.                                                     *)

LEMMA TypedInit == Init => Typed
  <1> SUFFICES ASSUME Init PROVE Typed
    OBVIOUS
  <1>1. IdleWorker \in WorkerStates /\ OnPlan(IdleWorker)
    BY IdleTyped DEF IdleWorker
  <1>2. w \in [Workers -> WorkerStates] /\ \A p \in Workers : OnPlan(w[p])
    BY <1>1 DEF Init
  <1>3. bar \in [Securities -> 0..MaxDate]
    BY StagesAssumption DEF Init
  <1>4. filing \in [Securities -> [Dates -> {"none"} \cup Values]]
    BY DEF Init
  <1> QED
    BY <1>2, <1>3, <1>4 DEF Init, Typed, OneRowPerKey

\* The walk of a worker leaves the tables and the market typed.
LEMMA WalkTyped ==
    ASSUME Typed, UNCHANGED <<market, growths, waccs, valuations, metrics, scores>>,
           w' \in [Workers -> WorkerStates], \A q \in Workers : OnPlan(w'[q])
    PROVE  Typed'
  BY DEF Typed, market, OneRowPerKey, OnPlan

LEMMA BeginTyped ==
    ASSUME Typed, NEW p \in Workers, NEW job \in Jobs[p], Begin(p, job)
    PROVE  Typed'
  <1> DEFINE c == ConfigOf(job, Plan(job)[1])
             n == w[p].pass + 1
             v == [IdleWorker EXCEPT !.pc = "price", !.job = job, !.config = c, !.pass = n]
  <1>1. w' = [w EXCEPT ![p] = v]
    BY DEF Begin
  <1>2. job \in Chains \cup StageNames /\ 0 \in 0..MaxDate /\ n \in Nat
    BY StagesAssumption, SecIs DEF WorkerStates
  <1>3. c \in Configs
    BY DEF ConfigOf, Configs
  <1> HIDE DEF c, n
  <1>4. v \in WorkerStates /\ v.pc = "price" /\ v.job = job /\ v.stage = 1 /\ v.at = 1
    BY <1>2, <1>3 DEF IdleWorker, WorkerStates
  <1> HIDE DEF v
  <1>5. OnPlan(v)
    <2>1. 1 \in 1..Len(Plan(job)) /\ 1 \in 1..Len(Targets)
      <3>1. Len(Plan(job)) \in 1..4
        BY <1>2, PlanIs
      <3>2. 1 \in 1..Len(Plan(job))
        BY <3>1
      <3> QED
        BY <3>2, FirstOnPlan
    <2>2. v.stage \in 1..Len(Plan(v.job)) /\ v.at \in 1..Len(Targets)
      BY <1>4, <2>1
    <2>3. v.pc \notin {"inputs", "write"}
      BY <1>4
    <2> QED
      BY <2>2, <2>3 DEF OnPlan
  <1> QED
    BY <1>1, <1>4, <1>5, OneWorkerMoves, WalkTyped DEF Begin, tables

LEMMA ReadsTyped ==
    ASSUME Typed, NEW p \in Workers, ReadPrice(p) \/ ReadGrowth(p) \/ ReadValuation(p)
    PROVE  Typed'
  <1>0. w[p] \in WorkerStates /\ OnPlan(w[p]) /\ SecOf(p) \in Securities
        /\ bar[SecOf(p)] \in 0..MaxDate
    BY SecIs
  <1>1. UNCHANGED <<market, growths, waccs, valuations, metrics, scores>>
    BY DEF ReadPrice, ReadGrowth, ReadValuation, tables
  <1>2. ASSUME NEW v \in WorkerStates, OnPlan(v), w' = [w EXCEPT ![p] = v] PROVE Typed'
    BY <1>1, <1>2, OneWorkerMoves, WalkTyped
  <1>3. CASE ReadPrice(p)
    <2>1. CASE bar[SecOf(p)] = 0
      BY <1>1, <1>3, <2>1, LeavesTyped, WalkTyped DEF ReadPrice
    <2>2. CASE bar[SecOf(p)] # 0
      <3> DEFINE pc == IF StageOf(p) \in {"valuation", "scores"} THEN "inputs" ELSE "write"
                 v == [w[p] EXCEPT !.asOf = bar[SecOf(p)], !.pc = pc]
      <3>1. w' = [w EXCEPT ![p] = v]
        BY <1>3, <2>2 DEF ReadPrice, Typed
      <3>2. v \in WorkerStates
        BY <1>0 DEF WorkerStates
      <3>3. bar[SecOf(p)] \in Dates
        BY <1>0, <2>2, StagesAssumption DEF Dates
      <3>4. OnPlan(v)
        BY <1>0, <3>3 DEF OnPlan, WorkerStates
      <3> HIDE DEF v
      <3> QED
        BY <1>2, <3>1, <3>2, <3>4
    <2> QED
      BY <2>1, <2>2
  <1>4. CASE ReadGrowth(p)
    <2> DEFINE rows == LatestRow(growths, SecOf(p))
               v == [w[p] EXCEPT !.growth = rows, !.pc = "write"]
    <2>1. w' = [w EXCEPT ![p] = v] /\ w[p].pc = "inputs"
      BY <1>4 DEF ReadGrowth, Typed
    <2>2. rows \in SUBSET CapitalRows
      BY DEF LatestRow, Typed
    <2> HIDE DEF rows
    <2>3. v \in WorkerStates
      BY <1>0, <2>2 DEF WorkerStates
    <2>4. OnPlan(v)
      BY <1>0, <2>1 DEF OnPlan, WorkerStates
    <2> HIDE DEF v
    <2> QED
      BY <1>2, <2>1, <2>3, <2>4
  <1>5. CASE ReadValuation(p)
    <2> DEFINE rows == Rows(valuations, SecOf(p), w[p].asOf)
               v == [w[p] EXCEPT !.val = rows, !.pc = "write"]
    <2>1. w' = [w EXCEPT ![p] = v] /\ w[p].pc = "inputs"
      BY <1>5 DEF ReadValuation, Typed
    <2>2. rows \in SUBSET ValuationRows
      BY DEF Rows, Typed
    <2> HIDE DEF rows
    <2>3. v \in WorkerStates
      BY <1>0, <2>2 DEF WorkerStates
    <2>4. OnPlan(v)
      BY <1>0, <2>1 DEF OnPlan, WorkerStates
    <2> HIDE DEF v
    <2> QED
      BY <1>2, <2>1, <2>3, <2>4
  <1> QED
    BY <1>3, <1>4, <1>5

LEMMA WritesTyped ==
    ASSUME Typed, NEW p \in Workers,
           WriteGrowth(p) \/ WriteValuation(p) \/ WriteMetrics(p) \/ WriteScore(p)
    PROVE  Typed'
  <1> DEFINE s == SecOf(p)
             d == w[p].asOf
  <1>0. /\ w[p] \in WorkerStates /\ s \in Securities /\ d \in Dates
        /\ w[p].config \in Configs
    BY SecIs
    DEF WriteGrowth, WriteValuation, WriteMetrics, WriteScore, OnPlan, WorkerStates
  <1>1. /\ bar' = bar /\ filing' = filing
        /\ w' \in [Workers -> WorkerStates] /\ \A q \in Workers : OnPlan(w'[q])
    BY LeavesTyped DEF WriteGrowth, WriteValuation, WriteMetrics, WriteScore, market
  <1> HIDE DEF s, d
  <1>2. CASE WriteGrowth(p)
    <2>1. /\ growths' = Upsert(growths, GrowthRow(s, d))
          /\ waccs' = Upsert(waccs, WaccRow(s, d, w[p].config))
          /\ UNCHANGED <<valuations, metrics, scores>>
      BY <1>2 DEF WriteGrowth, s, d
    <2>2. GrowthRow(s, d) \in CapitalRows /\ WaccRow(s, d, w[p].config) \in WaccRows
      BY <1>0, CapitalRowsTyped
    <2>3. growths' \subseteq CapitalRows /\ OneRowPerKey(growths')
      <3>1. growths \subseteq CapitalRows /\ OneRowPerKey(growths)
        BY DEF Typed
      <3> QED
        BY <2>1, <2>2, <3>1, UpsertTyped
    <2>4. waccs' \subseteq WaccRows /\ OneRowPerKey(waccs')
      <3>1. waccs \subseteq WaccRows /\ OneRowPerKey(waccs)
        BY DEF Typed
      <3> QED
        BY <2>1, <2>2, <3>1, UpsertTyped
    <2> QED
      BY <1>1, <2>1, <2>3, <2>4 DEF Typed, OneRowPerKey, OnPlan
  <1>3. CASE WriteValuation(p)
    <2>1. /\ \/ valuations' = Upsert(valuations, ValuationRow(s, w[p]))
             \/ valuations' = valuations
          /\ UNCHANGED <<growths, waccs, metrics, scores>>
      BY <1>3 DEF WriteValuation, s, d
    <2>2. ValuationRow(s, w[p]) \in ValuationRows
      BY <1>0, ValuationRowTyped DEF d
    <2>3. valuations' \subseteq ValuationRows /\ OneRowPerKey(valuations')
      BY <2>1, <2>2, UpsertTyped DEF Typed
    <2> QED
      BY <1>1, <2>1, <2>3 DEF Typed, OneRowPerKey, OnPlan
  <1>4. CASE WriteMetrics(p)
    <2>1. PICK series \in MayMiss(FactsAsOf(s, d)), growth \in MayMiss(GrowthAsOf(s, d)) :
             metrics' = Upsert(metrics, MetricRow(s, d, series, growth))
      BY <1>4 DEF WriteMetrics, s, d
    <2>4. UNCHANGED <<growths, waccs, valuations, scores>>
      BY <1>4 DEF WriteMetrics
    <2>2. metrics' \subseteq MetricRows /\ OneRowPerKey(metrics')
      <3>1. metrics \subseteq MetricRows /\ OneRowPerKey(metrics)
        BY DEF Typed
      <3>2. MetricRow(s, d, series, growth) \in MetricRows
        BY <1>0, MetricRowTyped
      <3> QED
        BY <2>1, <3>1, <3>2, UpsertTyped
    <2> QED
      BY <1>1, <2>4, <2>2 DEF Typed, OneRowPerKey, OnPlan
  <1>5. CASE WriteScore(p)
    <2>0. PICK trend \in Trends(s) :
             scores' = {r \in scores : <<r.sec, r.asOf, r.config>> # <<s, d, w[p].config>>}
                       \cup {ScoreRow(s, w[p], trend)}
      BY <1>5 DEF WriteScore, s, d
    <2> DEFINE row == ScoreRow(s, w[p], trend)
    <2>1. /\ scores' = {r \in scores : <<r.sec, r.asOf, r.config>> # <<s, d, w[p].config>>}
                       \cup {row}
          /\ UNCHANGED <<growths, waccs, valuations, metrics>>
      BY <1>5, <2>0 DEF WriteScore
    <2>2. row \in ScoreRows
      BY <1>0, ScoreRowTyped DEF d
    <2>3. row.sec = s /\ row.asOf = d /\ row.config = w[p].config
      BY DEF ScoreRow, d
    <2> HIDE DEF row
    <2>4. scores' \subseteq ScoreRows
      BY <2>1, <2>2 DEF Typed
    <2>5. \A a, b \in scores' :
              <<a.sec, a.asOf, a.config>> = <<b.sec, b.asOf, b.config>> => a = b
      BY <2>1, <2>3 DEF Typed
    <2> QED
      BY <1>1, <2>1, <2>4, <2>5 DEF Typed, OneRowPerKey, OnPlan
  <1> QED
    BY <1>2, <1>3, <1>4, <1>5

LEMMA FailuresTyped ==
    ASSUME Typed, NEW p \in Workers, StepFails(p) \/ Crash(p)
    PROVE  Typed'
  <1>1. UNCHANGED <<market, growths, waccs, valuations, metrics, scores>>
    BY DEF StepFails, Crash, tables
  <1>2. CASE StepFails(p)
    BY <1>1, <1>2, LeavesTyped, WalkTyped DEF StepFails
  <1>3. CASE Crash(p)
    <2> DEFINE v == [IdleWorker EXCEPT !.intact = FALSE, !.pass = w[p].pass]
    <2>1. w[p].pass \in Nat /\ w' = [w EXCEPT ![p] = v]
      BY <1>3, SecIs DEF WorkerStates, Crash
    <2>2. v \in WorkerStates /\ OnPlan(v)
      BY <2>1, DeadTyped
    <2> HIDE DEF v
    <2> QED
      BY <1>1, <2>1, <2>2, OneWorkerMoves, WalkTyped
  <1> QED
    BY <1>2, <1>3

LEMMA WorldTyped ==
    ASSUME Typed, NEW s \in Securities, NewBar(s) \/ NewFiling(s)
    PROVE  Typed'
  <1>1. UNCHANGED <<growths, waccs, valuations, metrics, scores, w>>
    BY DEF NewBar, NewFiling, tables
  <1>2. bar' \in [Securities -> 0..MaxDate]
    <2>1. CASE NewBar(s)
      <3>1. PICK d \in Dates : bar' = [bar EXCEPT ![s] = d]
        BY <2>1 DEF NewBar
      <3>2. d \in 0..MaxDate
        BY StagesAssumption DEF Dates
      <3> QED
        BY <3>1, <3>2 DEF Typed
    <2>2. CASE NewFiling(s)
      BY <2>2 DEF NewFiling, Typed
    <2> QED
      BY <2>1, <2>2
  <1>3. filing' \in [Securities -> [Dates -> {"none"} \cup Values]]
    <2>1. CASE NewBar(s)
      BY <2>1 DEF NewBar, Typed
    <2>2. CASE NewFiling(s)
      <3>1. PICK d \in Dates : \E v \in Values :
               filing' = [filing EXCEPT ![s] = [filing[s] EXCEPT ![d] = v]]
        BY <2>2 DEF NewFiling, Typed
      <3>2. PICK v \in Values :
               filing' = [filing EXCEPT ![s] = [filing[s] EXCEPT ![d] = v]]
        BY <3>1
      <3> QED
        BY <3>2 DEF Typed
    <2> QED
      BY <2>1, <2>2
  <1> QED
    BY <1>1, <1>2, <1>3 DEF Typed, OneRowPerKey, OnPlan

LEMMA TypedNext == Typed /\ [Next]_vars => Typed'
  <1> SUFFICES ASSUME Typed, [Next]_vars PROVE Typed'
    OBVIOUS
  <1>1. ASSUME NEW p \in Workers, NEW job \in Jobs[p], Begin(p, job) PROVE Typed'
    BY <1>1, BeginTyped
  <1>2. ASSUME NEW p \in Workers, ReadPrice(p) \/ ReadGrowth(p) \/ ReadValuation(p)
        PROVE  Typed'
    BY <1>2, ReadsTyped
  <1>3. ASSUME NEW p \in Workers,
               WriteGrowth(p) \/ WriteValuation(p) \/ WriteMetrics(p) \/ WriteScore(p)
        PROVE  Typed'
    BY <1>3, WritesTyped
  <1>4. ASSUME NEW p \in Workers, StepFails(p) \/ Crash(p) PROVE Typed'
    BY <1>4, FailuresTyped
  <1>5. ASSUME NEW s \in Securities, NewBar(s) \/ NewFiling(s) PROVE Typed'
    BY <1>5, WorldTyped
  <1>6. CASE UNCHANGED vars
    <2>1. /\ UNCHANGED <<market, growths, waccs, valuations, metrics, scores>>
          /\ w' = w
      BY <1>6 DEF vars, market
    <2>2. w' \in [Workers -> WorkerStates] /\ \A q \in Workers : OnPlan(w'[q])
      BY <2>1 DEF Typed
    <2> QED
      BY <2>1, <2>2, WalkTyped
  <1> QED
    BY <1>1, <1>2, <1>3, <1>4, <1>5, <1>6 DEF Next, Step

LEMMA TypedAlways == Spec => []Typed
  <1>1. Init => Typed
    BY TypedInit
  <1>2. Typed /\ [Next]_vars => Typed'
    BY TypedNext
  <1> QED
    BY <1>1, <1>2, PTL DEF Spec

\* Every table has one row per key, of its type, whatever the workers overlap.
THEOREM TypeCorrect == Spec => []TypeOK
  <1>1. Typed => TypeOK
    BY DEF Typed, TypeOK, OneRowPerKey, WaccRows, ScoreRows
  <1> QED
    BY <1>1, TypedAlways, PTL

-----------------------------------------------------------------------------
(* ChainInv is inductive.                                                  *)

\* The other workers, when p moves.
LEMMA OthersHold ==
    ASSUME ReadsHold, NEW p \in Workers, Spares(p),
           \A q \in Workers : q # p => w'[q] = w[q]
    PROVE  \A q \in Workers \ disturbed' : q # p => Held(q)'
  <1> SUFFICES ASSUME NEW q \in Workers \ disturbed', q # p PROVE Held(q)'
    OBVIOUS
  <1>1. w'[q] = w[q]
    OBVIOUS
  <1>2. CASE w[q].pc = "idle"
    BY <1>1, <1>2 DEF Held
  <1>3. CASE w[q].pc # "idle"
    <2>1. UNCHANGED <<market, tables>> /\ q \notin disturbed
      BY <1>3 DEF Spares
    <2>2. SecOf(q)' = SecOf(q) /\ StageOf(q)' = StageOf(q)
      BY <1>1 DEF SecOf, StageOf
    <2>3. bar' = bar /\ growths' = growths /\ valuations' = valuations
      BY <2>1 DEF market, tables
    <2>4. /\ LatestRow(growths, SecOf(q))' = LatestRow(growths, SecOf(q))
          /\ Rows(valuations, SecOf(q), w[q].asOf)' = Rows(valuations, SecOf(q), w[q].asOf)
      BY <1>1, <2>2, <2>3 DEF LatestRow, Rows
    <2>5. Held(q)
      BY <2>1 DEF ReadsHold
    <2> QED
      BY <1>1, <2>2, <2>3, <2>4, <2>5 DEF Held
  <1> QED
    BY <1>2, <1>3

\* A worker with nothing in its hands.
LEMMA EmptyHands ==
    ASSUME Typed, ReadsHold, HeldDates, NEW p \in Workers, Spares(p), UNCHANGED market,
           NEW v, w' = [w EXCEPT ![p] = v], v.pc \in {"idle", "price"}
    PROVE  ReadsHold' /\ HeldDates'
  <1>1. w'[p] = v /\ \A q \in Workers : q # p => w'[q] = w[q]
    BY OneWorkerMoves
  <1>2. \A q \in Workers \ disturbed' : q # p => Held(q)'
    BY <1>1, OthersHold
  <1>3. Held(p)'
    BY <1>1 DEF Held
  <1>4. HeldDates'
    BY <1>1 DEF HeldDates, SecOf, market
  <1> QED
    BY <1>2, <1>3, <1>4 DEF ReadsHold

LEMMA LeavesFree ==
    ASSUME Typed, ReadsHold, HeldDates, NEW p \in Workers, Spares(p), UNCHANGED market,
           Leave(p) \/ Skip(p)
    PROVE  ReadsHold' /\ HeldDates'
  <1>1. w[p] \in WorkerStates /\ OnPlan(w[p])
    BY SecIs
  <1>2. ASSUME NEW v \in WorkerStates, OnPlan(v), w' = [w EXCEPT ![p] = After(v)]
        PROVE  ReadsHold' /\ HeldDates'
    <2>1. After(v).pc \in {"idle", "price"}
      BY <1>2, AfterIs
    <2> QED
      BY <1>2, <2>1, EmptyHands
  <1>3. [w[p] EXCEPT !.intact = FALSE] \in WorkerStates
    BY <1>1 DEF WorkerStates
  <1>4. OnPlan([w[p] EXCEPT !.intact = FALSE])
    BY <1>1 DEF WorkerStates, OnPlan
  <1> QED
    BY <1>1, <1>2, <1>3, <1>4 DEF Leave, Skip

\* The tables keep what ChainInv says of them when they and the market stay.
LEMMA TablesStay ==
    ASSUME ChainInv, UNCHANGED <<market, tables>>
    PROVE  Twins' /\ Dated' /\ Cut'
  BY DEF ChainInv, Twins, Dated, Cut, market, tables

LEMMA BeginChain ==
    ASSUME Typed, ChainInv, NEW p \in Workers, NEW job \in Jobs[p], Begin(p, job)
    PROVE  ChainInv'
  <1> DEFINE v == [IdleWorker EXCEPT !.pc = "price", !.job = job,
                                     !.config = ConfigOf(job, Plan(job)[1]),
                                     !.pass = w[p].pass + 1]
  <1>1. w' = [w EXCEPT ![p] = v] /\ UNCHANGED <<market, tables>> /\ Spares(p)
    BY DEF Begin, Spares
  <1>2. v.pc = "price"
    BY DEF IdleWorker
  <1> HIDE DEF v
  <1>3. ReadsHold' /\ HeldDates'
    BY <1>1, <1>2, EmptyHands DEF ChainInv
  <1> QED
    BY <1>1, <1>3, TablesStay DEF ChainInv

LEMMA ReadsChain ==
    ASSUME Typed, ChainInv, NEW p \in Workers,
           ReadPrice(p) \/ ReadGrowth(p) \/ ReadValuation(p)
    PROVE  ChainInv'
  <1>0. w[p] \in WorkerStates /\ bar[SecOf(p)] \in 0..MaxDate /\ ReadsHold /\ HeldDates
    BY SecIs DEF ChainInv
  <1>1. UNCHANGED <<market, tables>> /\ disturbed' = disturbed /\ Spares(p) /\ UNCHANGED market
    BY DEF ReadPrice, ReadGrowth, ReadValuation, Spares
  <1>2. Twins' /\ Dated' /\ Cut'
    BY <1>1, TablesStay
  <1>7. ASSUME NEW v, w' = [w EXCEPT ![p] = v],
               v.job = w[p].job, v.stage = w[p].stage, v.at = w[p].at
        PROVE  /\ w'[p] = v /\ SecOf(p)' = SecOf(p) /\ StageOf(p)' = StageOf(p) /\ bar' = bar
               /\ growths' = growths /\ valuations' = valuations
               /\ (p \notin disturbed => Held(p)') => ReadsHold'
               /\ (v.asOf <= bar[SecOf(p)]) => HeldDates'
    <2>1. w'[p] = v /\ \A q \in Workers : q # p => w'[q] = w[q]
      BY <1>7, OneWorkerMoves
    <2>2. SecOf(p)' = SecOf(p) /\ StageOf(p)' = StageOf(p) /\ bar' = bar
      BY <1>1, <1>7, <2>1 DEF SecOf, StageOf, market
    <2>3. \A q \in Workers \ disturbed' : q # p => Held(q)'
      BY <1>0, <1>1, <2>1, OthersHold
    <2>4. (p \notin disturbed => Held(p)') => ReadsHold'
      BY <1>1, <2>3 DEF ReadsHold
    <2>5. ASSUME v.asOf <= bar[SecOf(p)] PROVE HeldDates'
      <3>1. \A q \in Workers : q # p => SecOf(q)' = SecOf(q)
        BY <2>1 DEF SecOf
      <3> QED
        BY <1>0, <2>1, <2>2, <2>5, <3>1 DEF HeldDates
    <2>6. growths' = growths /\ valuations' = valuations
      BY <1>1 DEF tables
    <2> QED
      BY <2>1, <2>2, <2>4, <2>5, <2>6
  <1>3. CASE ReadPrice(p) /\ bar[SecOf(p)] = 0
    <2>1. ReadsHold' /\ HeldDates'
      BY <1>0, <1>1, <1>3, LeavesFree DEF ReadPrice
    <2> QED
      BY <1>2, <2>1 DEF ChainInv
  <1>4. CASE ReadPrice(p) /\ bar[SecOf(p)] # 0
    <2> DEFINE pc == IF StageOf(p) \in {"valuation", "scores"} THEN "inputs" ELSE "write"
               v == [w[p] EXCEPT !.asOf = bar[SecOf(p)], !.pc = pc]
    <2>1. w' = [w EXCEPT ![p] = v]
      BY <1>4 DEF ReadPrice, Typed
    <2>2. v.pc = pc /\ v.asOf = bar[SecOf(p)] /\ v.job = w[p].job
          /\ v.stage = w[p].stage /\ v.at = w[p].at
      BY <1>0 DEF WorkerStates
    <2> HIDE DEF v
    <2>3. w'[p] = v /\ SecOf(p)' = SecOf(p) /\ StageOf(p)' = StageOf(p) /\ bar' = bar
      BY <1>7, <2>1, <2>2
    <2>4. Held(p)'
      <3>1. v.pc = "write" => StageOf(p) \notin {"valuation", "scores"}
        BY <2>2
      <3> QED
        BY <2>2, <2>3, <3>1 DEF Held
    <2>5. v.asOf <= bar[SecOf(p)]
      BY <1>0, <2>2
    <2>6. ReadsHold' /\ HeldDates'
      BY <1>7, <2>1, <2>2, <2>4, <2>5
    <2> QED
      BY <1>2, <2>6 DEF ChainInv
  <1>5. CASE ReadGrowth(p)
    <2> DEFINE rows == LatestRow(growths, SecOf(p))
               v == [w[p] EXCEPT !.growth = rows, !.pc = "write"]
    <2>1. w' = [w EXCEPT ![p] = v] /\ w[p].pc = "inputs" /\ StageOf(p) = "valuation"
      BY <1>5 DEF ReadGrowth, Typed
    <2> HIDE DEF rows
    <2>2. v.pc = "write" /\ v.asOf = w[p].asOf /\ v.job = w[p].job
          /\ v.stage = w[p].stage /\ v.at = w[p].at /\ v.growth = rows
      BY <1>0 DEF WorkerStates
    <2> HIDE DEF v
    <2>3. /\ w'[p] = v /\ SecOf(p)' = SecOf(p) /\ StageOf(p)' = StageOf(p) /\ bar' = bar
          /\ growths' = growths
      BY <1>7, <2>1, <2>2
    <2>4. rows = LatestRow(growths, SecOf(p))'
      BY <2>2, <2>3 DEF rows, LatestRow
    <2>5. p \notin disturbed => Held(p)'
      <3>1. p \notin disturbed => Held(p)
        BY <1>0 DEF ReadsHold
      <3> QED
        BY <2>1, <2>2, <2>3, <2>4, <3>1 DEF Held
    <2>6. v.asOf <= bar[SecOf(p)]
      BY <1>0, <2>1, <2>2 DEF HeldDates
    <2>7. ReadsHold' /\ HeldDates'
      BY <1>7, <2>1, <2>2, <2>5, <2>6
    <2> QED
      BY <1>2, <2>7 DEF ChainInv
  <1>6. CASE ReadValuation(p)
    <2> DEFINE rows == Rows(valuations, SecOf(p), w[p].asOf)
               v == [w[p] EXCEPT !.val = rows, !.pc = "write"]
    <2>1. w' = [w EXCEPT ![p] = v] /\ w[p].pc = "inputs" /\ StageOf(p) = "scores"
      BY <1>6 DEF ReadValuation, Typed
    <2> HIDE DEF rows
    <2>2. v.pc = "write" /\ v.asOf = w[p].asOf /\ v.job = w[p].job
          /\ v.stage = w[p].stage /\ v.at = w[p].at /\ v.val = rows
      BY <1>0 DEF WorkerStates
    <2> HIDE DEF v
    <2>3. /\ w'[p] = v /\ SecOf(p)' = SecOf(p) /\ StageOf(p)' = StageOf(p) /\ bar' = bar
          /\ valuations' = valuations
      BY <1>7, <2>1, <2>2
    <2>4. rows = Rows(valuations, SecOf(p), w[p].asOf)'
      BY <2>2, <2>3 DEF rows, Rows
    <2>5. p \notin disturbed => Held(p)'
      <3>1. p \notin disturbed => Held(p)
        BY <1>0 DEF ReadsHold
      <3> QED
        BY <2>1, <2>2, <2>3, <2>4, <3>1 DEF Held
    <2>6. v.asOf <= bar[SecOf(p)]
      BY <1>0, <2>1, <2>2 DEF HeldDates
    <2>7. ReadsHold' /\ HeldDates'
      BY <1>7, <2>1, <2>2, <2>5, <2>6
    <2> QED
      BY <1>2, <2>7 DEF ChainInv
  <1> QED
    BY <1>3, <1>4, <1>5, <1>6

\* The newest rows of growth and of WACC have the same date, the last bar or before.
LEMMA TwinDates ==
    ASSUME Typed, Twins, Dated, NEW s \in Securities
    PROVE  /\ DateOf(LatestRow(growths, s)) = DateOf(LatestRow(waccs, s))
           /\ DateOf(LatestRow(growths, s)) <= bar[s]
  <1> DEFINE gs == LatestRow(growths, s)
             cs == LatestRow(waccs, s)
  <1>1. \A g \in gs : \E c \in cs : c.asOf = g.asOf
    BY DEF Twins, LatestRow
  <1>2. \A c \in cs : \E g \in gs : g.asOf = c.asOf
    BY DEF Twins, LatestRow
  <1>3. \A g \in gs : g.asOf \in 0..MaxDate /\ g.asOf <= bar[s]
    BY DEF LatestRow, Typed, Dated, CapitalRows, Dates
  <1>4. bar[s] \in 0..MaxDate
    BY DEF Typed
  <1> HIDE DEF gs, cs
  <1>5. {g.asOf : g \in gs} = {c.asOf : c \in cs}
    BY <1>1, <1>2
  <1>6. DateOf(gs) = DateOf(cs)
    BY <1>5 DEF DateOf
  <1>7. DateOf(gs) \in {g.asOf : g \in gs} \cup {0}
    BY <1>3, DateBounded
  <1>8. DateOf(gs) <= bar[s]
    BY <1>3, <1>4, <1>7
  <1> QED
    BY <1>6, <1>8 DEF gs, cs

\* The row a valuation writes is of its date.
LEMMA ValuationOfItsDate ==
    ASSUME Typed, Twins, Dated, NEW s \in Securities, NEW v \in WorkerStates,
           v.asOf \in Dates, v.asOf = bar[s], v.growth = LatestRow(growths, s)
    PROVE  /\ ValuationRow(s, v).growth = ValuationRow(s, v).wacc
           /\ ValuationRow(s, v).growth <= ValuationRow(s, v).asOf
           /\ ValuationRow(s, v).filed <= ValuationRow(s, v).asOf
  <1> DEFINE wacc == LatestRow(waccs, s)
             infos == {FactsAsOf(s, v.asOf)} \cup {r.facts : r \in v.growth \cup wacc}
  <1>1. /\ ValuationRow(s, v).growth = DateOf(v.growth)
        /\ ValuationRow(s, v).wacc = DateOf(wacc)
        /\ ValuationRow(s, v).filed = Last(infos)
        /\ ValuationRow(s, v).asOf = v.asOf
    BY DEF ValuationRow
  <1>2. v.asOf \in 0..MaxDate /\ v.asOf \in Nat
    BY StagesAssumption DEF Dates
  <1>3. infos \in SUBSET (0..MaxDate) /\ \A f \in infos : f <= v.asOf
    <2>1. FactsAsOf(s, v.asOf) \in 0..MaxDate /\ FactsAsOf(s, v.asOf) <= v.asOf
      BY <1>2, FactsBounded
    <2>2. \A r \in v.growth \cup wacc :
             r.facts \in 0..MaxDate /\ r.asOf \in 0..MaxDate /\ r.facts <= r.asOf /\ r.asOf <= v.asOf
      BY DEF LatestRow, Typed, Dated, CapitalRows, WaccRows, Dates
    <2>3. \A r \in v.growth \cup wacc : r.facts <= v.asOf
      BY <1>2, <2>2
    <2> QED
      BY <2>1, <2>2, <2>3
  <1> HIDE DEF infos
  <1>4. Last(infos) \in infos \cup {0}
    BY <1>3, LastIs
  <1>5. Last(infos) <= v.asOf
    <2>1. CASE Last(infos) = 0
      BY <1>2, <2>1
    <2>2. CASE Last(infos) \in infos
      <3>1. \A f \in infos : f <= v.asOf
        BY <1>3
      <3> QED
        BY <2>2, <3>1
    <2> QED
      BY <1>4, <2>1, <2>2
  <1> QED
    BY <1>1, <1>5, TwinDates

\* What a worker holds when it writes: the date is the last bar's, or an older one
\* when a bar has arrived since.
LEMMA WriterHolds ==
    ASSUME Typed, ChainInv, NEW p \in Workers, w[p].pc = "write"
    PROVE  /\ w[p] \in WorkerStates /\ SecOf(p) \in Securities
           /\ w[p].asOf \in Dates /\ w[p].asOf <= bar[SecOf(p)]
           /\ w[p].config \in Configs
           /\ p \notin disturbed =>
                 /\ w[p].asOf = bar[SecOf(p)]
                 /\ StageOf(p) = "valuation" => w[p].growth = LatestRow(growths, SecOf(p))
                 /\ StageOf(p) = "scores" => w[p].val = Rows(valuations, SecOf(p), w[p].asOf)
  BY SecIs DEF ChainInv, ReadsHold, Held, HeldDates, OnPlan, WorkerStates

\* A write disturbs all the others, and leaves its own worker with empty hands.
LEMMA WritesSpare ==
    ASSUME Typed, ChainInv, NEW p \in Workers, UNCHANGED market,
           Leave(p), Disturb(Workers \ {p})
    PROVE  Spares(p) /\ ReadsHold' /\ HeldDates'
  <1>1. Spares(p)
    BY DEF Spares, Disturb
  <1> QED
    BY <1>1, LeavesFree DEF ChainInv

LEMMA WriteGrowthChain ==
    ASSUME Typed, ChainInv, NEW p \in Workers, WriteGrowth(p)
    PROVE  ChainInv'
  <1> DEFINE s == SecOf(p)
             d == w[p].asOf
             g == GrowthRow(s, d)
             c == WaccRow(s, d, w[p].config)
  <1>1. /\ s \in Securities /\ d \in Dates /\ d <= bar[s] /\ w[p].config \in Configs
        /\ growths' = Upsert(growths, g) /\ waccs' = Upsert(waccs, c)
        /\ bar' = bar /\ UNCHANGED <<metrics, scores>>
    BY WriterHolds DEF WriteGrowth, market
  <1>2. ReadsHold' /\ HeldDates'
    BY WritesSpare DEF WriteGrowth
  <1>3. /\ g.sec = s /\ g.asOf = d /\ g.facts <= d
        /\ c.sec = s /\ c.asOf = d /\ c.facts <= d
    BY <1>1, CapitalRowsTyped DEF GrowthRow, WaccRow
  <1> HIDE DEF s, d, g, c
  <1>4. \A r \in growths' : r = g \/ (r \in growths /\ ~(r.sec = s /\ r.asOf = d))
    BY <1>1, <1>3 DEF Upsert, Rows
  <1>5. \A r \in waccs' : r = c \/ (r \in waccs /\ ~(r.sec = s /\ r.asOf = d))
    BY <1>1, <1>3 DEF Upsert, Rows
  <1>6. /\ g \in growths' /\ c \in waccs'
        /\ \A r \in growths : (r.sec = s /\ r.asOf = d) \/ r \in growths'
        /\ \A r \in waccs : (r.sec = s /\ r.asOf = d) \/ r \in waccs'
    BY <1>1, <1>3 DEF Upsert, Rows
  <1>7. Twins'
    BY <1>3, <1>4, <1>5, <1>6 DEF ChainInv, Twins
  <1>8. Dated'
    BY <1>1, <1>3, <1>4, <1>5 DEF ChainInv, Dated
  <1>9. Cut'
    BY <1>1 DEF ChainInv, Cut
  <1> QED
    BY <1>2, <1>7, <1>8, <1>9 DEF ChainInv

LEMMA WriteValuationChain ==
    ASSUME Typed, ChainInv, NEW p \in Workers, WriteValuation(p)
    PROVE  ChainInv'
  <1>1. bar' = bar /\ UNCHANGED <<growths, waccs, metrics, scores>>
    BY DEF WriteValuation, market
  <1>2. ReadsHold' /\ HeldDates'
    BY WritesSpare DEF WriteValuation
  <1> QED
    BY <1>1, <1>2 DEF ChainInv, Twins, Dated, Cut

LEMMA WriteMetricsChain ==
    ASSUME Typed, ChainInv, NEW p \in Workers, WriteMetrics(p)
    PROVE  ChainInv'
  <1> DEFINE s == SecOf(p)
             d == w[p].asOf
  <1>1. /\ s \in Securities /\ d \in Dates
        /\ bar' = bar /\ UNCHANGED <<growths, waccs, scores>>
    BY WriterHolds DEF WriteMetrics, market
  <1>2. ReadsHold' /\ HeldDates'
    BY WritesSpare DEF WriteMetrics
  <1>3. PICK series \in MayMiss(FactsAsOf(s, d)), growth \in MayMiss(GrowthAsOf(s, d)) :
           metrics' = Upsert(metrics, MetricRow(s, d, series, growth))
    BY DEF WriteMetrics
  <1> DEFINE row == MetricRow(s, d, series, growth)
  <1> HIDE DEF s, d
  <1>4. row.facts <= row.asOf /\ row.series <= row.asOf /\ row.growth <= row.asOf
    BY <1>1, MetricRowTyped DEF MetricRow
  <1> HIDE DEF row
  <1>5. \A r \in metrics' : r = row \/ r \in metrics
    BY <1>3 DEF Upsert, row
  <1>6. Cut'
    BY <1>1, <1>4, <1>5 DEF ChainInv, Cut
  <1> QED
    BY <1>1, <1>2, <1>6 DEF ChainInv, Twins, Dated

LEMMA WriteScoreChain ==
    ASSUME Typed, ChainInv, NEW p \in Workers, WriteScore(p)
    PROVE  ChainInv'
  <1> DEFINE s == SecOf(p)
  <1>1. /\ w[p].asOf \in Dates
        /\ bar' = bar /\ UNCHANGED <<growths, waccs, metrics>>
    BY WriterHolds DEF WriteScore, market
  <1>2. ReadsHold' /\ HeldDates'
    BY WritesSpare DEF WriteScore
  <1>3. PICK trend \in Trends(s) : \A r \in scores' : r = ScoreRow(s, w[p], trend) \/ r \in scores
    BY DEF WriteScore
  <1> DEFINE row == ScoreRow(s, w[p], trend)
  <1>4. row.facts <= row.asOf /\ row.growth <= row.asOf
    <2>1. /\ row.asOf = w[p].asOf /\ row.facts = FactsAsOf(s, w[p].asOf)
          /\ row.growth = GrowthAsOf(s, w[p].asOf)
      BY DEF ScoreRow
    <2>2. w[p].asOf \in 0..MaxDate
      BY <1>1 DEF Dates
    <2> HIDE DEF row, s
    <2> QED
      BY <2>1, <2>2, FactsBounded, GrowthAsOfBounded
  <1> HIDE DEF s, row
  <1>5. Cut'
    BY <1>1, <1>3, <1>4 DEF ChainInv, Cut, row
  <1> QED
    BY <1>1, <1>2, <1>5 DEF ChainInv, Twins, Dated

LEMMA FailuresChain ==
    ASSUME Typed, ChainInv, NEW p \in Workers, StepFails(p) \/ Crash(p)
    PROVE  ChainInv'
  <1>1. UNCHANGED <<market, tables>> /\ UNCHANGED market /\ Spares(p)
    BY DEF StepFails, Crash, Spares
  <1>2. ReadsHold' /\ HeldDates'
    <2>1. CASE StepFails(p)
      BY <1>1, <2>1, LeavesFree DEF StepFails, ChainInv
    <2>2. CASE Crash(p)
      <3>1. w[p].pass \in Nat
        BY SecIs DEF WorkerStates
      <3> QED
        BY <1>1, <2>2, <3>1, DeadTyped, EmptyHands DEF Crash, ChainInv
    <2> QED
      BY <2>1, <2>2
  <1> QED
    BY <1>1, <1>2, TablesStay DEF ChainInv

\* The market moves: bars only go forward, and every pass under way is disturbed.
LEMMA WorldChain ==
    ASSUME Typed, ChainInv, NEW s \in Securities, NewBar(s) \/ NewFiling(s)
    PROVE  ChainInv'
  <1>1. /\ UNCHANGED <<growths, waccs, metrics, scores, w>>
        /\ \A q \in Workers \ disturbed' : w[q].pc = "idle"
    BY DEF NewBar, NewFiling, tables, Disturb
  <1>2. \A t \in Securities : bar[t] <= bar'[t] /\ bar'[t] \in 0..MaxDate
    <2>1. \A t \in Securities : bar[t] \in 0..MaxDate /\ bar[t] <= bar[t]
      BY StagesAssumption DEF Typed
    <2>2. CASE NewBar(s)
      <3>1. PICK d \in Dates : d > bar[s] /\ bar' = [bar EXCEPT ![s] = d]
        BY <2>2 DEF NewBar
      <3>2. d \in 0..MaxDate /\ bar[s] <= d
        BY <2>1, <3>1, StagesAssumption DEF Dates
      <3>3. \A t \in Securities : bar'[t] = IF t = s THEN d ELSE bar[t]
        BY <3>1 DEF Typed
      <3> QED
        BY <2>1, <3>2, <3>3
    <2>3. CASE NewFiling(s)
      BY <2>1, <2>3 DEF NewFiling
    <2> QED
      BY <2>2, <2>3
  <1>3. ReadsHold'
    BY <1>1 DEF ReadsHold, Held
  <1>4. HeldDates'
    <2> SUFFICES ASSUME NEW p \in Workers, w[p].pc \in {"inputs", "write"}
                 PROVE  w[p].asOf <= bar'[SecOf(p)]
      BY <1>1 DEF HeldDates, SecOf
    <2>1. SecOf(p) \in Securities /\ bar[SecOf(p)] \in 0..MaxDate /\ w[p].asOf \in 0..MaxDate
      BY SecIs
    <2>2. w[p].asOf <= bar[SecOf(p)]
      BY DEF ChainInv, HeldDates
    <2>3. bar[SecOf(p)] <= bar'[SecOf(p)] /\ bar'[SecOf(p)] \in 0..MaxDate
      BY <1>2, <2>1
    <2> QED
      BY <2>1, <2>2, <2>3
  <1>5. Twins' /\ Cut'
    BY <1>1 DEF ChainInv, Twins, Cut
  <1>6. \A r \in growths \cup waccs :
           r.sec \in Securities /\ r.asOf \in 0..MaxDate /\ r.facts \in 0..MaxDate
    BY DEF Typed, CapitalRows, WaccRows, Dates
  <1>7. \A t \in Securities : bar[t] \in 0..MaxDate
    BY DEF Typed
  <1>8. Dated'
    BY <1>1, <1>2, <1>6, <1>7 DEF ChainInv, Dated
  <1> QED
    BY <1>3, <1>4, <1>5, <1>8 DEF ChainInv

LEMMA ChainInit == Init => ChainInv
  BY DEF Init, IdleWorker, ChainInv, Twins, Dated, Cut, HeldDates, ReadsHold, Held

LEMMA ChainNext == Typed /\ ChainInv /\ [Next]_vars => ChainInv'
  <1> SUFFICES ASSUME Typed, ChainInv, [Next]_vars PROVE ChainInv'
    OBVIOUS
  <1>1. ASSUME NEW p \in Workers, NEW job \in Jobs[p], Begin(p, job) PROVE ChainInv'
    BY <1>1, BeginChain
  <1>2. ASSUME NEW p \in Workers, ReadPrice(p) \/ ReadGrowth(p) \/ ReadValuation(p)
        PROVE  ChainInv'
    BY <1>2, ReadsChain
  <1>3. ASSUME NEW p \in Workers,
               WriteGrowth(p) \/ WriteValuation(p) \/ WriteMetrics(p) \/ WriteScore(p)
        PROVE  ChainInv'
    BY <1>3, WriteGrowthChain, WriteValuationChain, WriteMetricsChain, WriteScoreChain
  <1>4. ASSUME NEW p \in Workers, StepFails(p) \/ Crash(p) PROVE ChainInv'
    BY <1>4, FailuresChain
  <1>5. ASSUME NEW s \in Securities, NewBar(s) \/ NewFiling(s) PROVE ChainInv'
    BY <1>5, WorldChain
  <1>6. CASE UNCHANGED vars
    <2>1. UNCHANGED <<market, tables>> /\ bar' = bar /\ w' = w /\ disturbed' = disturbed
      BY <1>6 DEF vars, market, tables
    <2>2. growths' = growths /\ valuations' = valuations
      BY <2>1 DEF tables
    <2>3. ReadsHold' /\ HeldDates'
      BY <2>1, <2>2
      DEF ChainInv, ReadsHold, Held, HeldDates, SecOf, StageOf, LatestRow, Rows
    <2> QED
      BY <2>1, <2>3, TablesStay DEF ChainInv
  <1> QED
    BY <1>1, <1>2, <1>3, <1>4, <1>5, <1>6 DEF Next, Step

LEMMA ChainAlways == Spec => []ChainInv
  <1>1. Init => ChainInv
    BY ChainInit
  <1>2. Typed /\ ChainInv /\ [Next]_vars => ChainInv'
    BY ChainNext
  <1> QED
    BY <1>1, <1>2, TypedAlways, PTL DEF Spec

\* A step of one worker leaves the others where they are.
LEMMA StepMovesOne ==
    ASSUME Typed, NEW p \in Workers, Step(p), NEW q \in Workers, q # p
    PROVE  w'[q] = w[q]
  BY DEF Typed, Step, Begin, ReadPrice, ReadGrowth, ReadValuation, WriteGrowth, WriteValuation,
     WriteMetrics, WriteScore, StepFails, Crash, Leave, Skip

\* Whoever moves has made a step of its own.
LEMMA OwnStep ==
    ASSUME Typed, [Next]_vars, NEW p \in Workers, w'[p] # w[p]
    PROVE  Step(p)
  <1>1. ~(\E s \in Securities : NewBar(s) \/ NewFiling(s)) /\ ~(UNCHANGED vars)
    BY DEF NewBar, NewFiling, vars
  <1>2. PICK q \in Workers : Step(q)
    BY <1>1 DEF Next
  <1> QED
    BY <1>2, StepMovesOne

\* What an undisturbed worker writes is of the date it writes for.
LEMMA WritesOfTheirDate ==
    ASSUME Typed, ChainInv, [Next]_vars,
           NEW p \in Workers \ disturbed, w[p].pc = "write", w'[p].pc # "write"
    PROVE  /\ \A v \in valuations' \ valuations :
                 v.growth = v.wacc /\ v.growth <= v.asOf /\ v.filed <= v.asOf
           /\ \A r \in scores' \ scores : r.trend <= r.asOf
  <1> DEFINE s == SecOf(p)
  <1>1. Step(p)
    BY OwnStep
  <1>2. /\ w[p] \in WorkerStates /\ s \in Securities /\ w[p].asOf \in Dates
        /\ w[p].asOf = bar[s]
        /\ StageOf(p) = "valuation" => w[p].growth = LatestRow(growths, s)
    BY WriterHolds
  <1>3. CASE WriteValuation(p)
    <2> DEFINE row == ValuationRow(s, w[p])
    <2>1. scores' = scores /\ \A v \in valuations' : v = row \/ v \in valuations
      BY <1>3 DEF WriteValuation, Upsert
    <2>2. w[p].growth = LatestRow(growths, s)
      BY <1>2, <1>3 DEF WriteValuation
    <2> HIDE DEF s
    <2>3. row.growth = row.wacc /\ row.growth <= row.asOf /\ row.filed <= row.asOf
      BY <1>2, <2>2, ValuationOfItsDate DEF ChainInv
    <2> HIDE DEF row
    <2> QED
      BY <2>1, <2>3
  <1>4. CASE WriteScore(p)
    <2>1. PICK trend \in Trends(s) :
             \A r \in scores' : r = ScoreRow(s, w[p], trend) \/ r \in scores
      BY <1>4 DEF WriteScore
    <2>2. valuations' = valuations
      BY <1>4 DEF WriteScore
    <2> DEFINE row == ScoreRow(s, w[p], trend)
    <2>3. row.trend = trend /\ row.asOf = w[p].asOf
      BY DEF ScoreRow
    <2> HIDE DEF row, s
    <2>4. row.trend <= row.asOf
      BY <1>2, <2>3, StagesAssumption DEF Trends, Dates
    <2> QED
      BY <2>1, <2>2, <2>4 DEF row
  <1>5. CASE ~WriteValuation(p) /\ ~WriteScore(p)
    BY <1>1, <1>5
    DEF Step, Begin, ReadPrice, ReadGrowth, ReadValuation, WriteGrowth, WriteMetrics,
        StepFails, Crash, tables
  <1> QED
    BY <1>3, <1>4, <1>5

\* No row of growth, WACC, metrics or scores knows a filing later than its date,
\* whatever overlaps; what a pass that nobody disturbed writes knows no later bar
\* either, and its valuations join the growth and the WACC of one calculation.
THEOREM ChainDates == Spec => ChainIsOfItsDate
  <1> DEFINE Body ==
        /\ \A r \in growths' \cup waccs' \cup metrics' \cup scores' : r.facts <= r.asOf
        /\ \A r \in metrics' \cup scores' : r.growth <= r.asOf
        /\ \A r \in metrics' : r.series <= r.asOf
        /\ \A p \in Workers \ disturbed : w[p].pc = "write" /\ w'[p].pc # "write" =>
              /\ \A v \in valuations' \ valuations :
                    v.growth = v.wacc /\ v.growth <= v.asOf /\ v.filed <= v.asOf
              /\ \A r \in scores' \ scores : r.trend <= r.asOf
  <1>1. Typed /\ ChainInv /\ ChainInv' /\ [Next]_vars => Body
    <2> SUFFICES ASSUME Typed, ChainInv, ChainInv', [Next]_vars PROVE Body
      OBVIOUS
    <2>1. /\ \A r \in growths' \cup waccs' \cup metrics' \cup scores' : r.facts <= r.asOf
          /\ \A r \in metrics' \cup scores' : r.growth <= r.asOf
          /\ \A r \in metrics' : r.series <= r.asOf
      BY DEF ChainInv, Dated, Cut
    <2> QED
      BY <2>1, WritesOfTheirDate
  <1> QED
    BY <1>1, TypedAlways, ChainAlways, PTL DEF Spec, ChainIsOfItsDate

-----------------------------------------------------------------------------
(* A complete pass.  Done(k, s) is what stage k leaves for the security s; *)
(* StepDone says that a step has done what the worker passes with it.      *)

StepDone(p) ==
    InChain(w[p]) =>
        \A k \in 1..4 : \A i \in DOMAIN Targets :
            /\ Passed(w[p], k, i) \/ (k = w[p].stage /\ i = w[p].at)
            /\ bar'[Targets[i]] > 0
            => Done(k, Targets[i])'

\* The chains run the four stages with the active set.
LEMMA ChainPlan ==
    ASSUME Typed, NEW p \in Workers, InChain(w[p])
    PROVE  /\ w[p].stage \in 1..4 /\ w[p].at \in 1..Len(Targets)
           /\ Plan(w[p].job) = Stages /\ Len(Plan(w[p].job)) = 4
           /\ StageOf(p) = Stages[w[p].stage]
           /\ \A stage \in StageNames : ConfigOf(w[p].job, stage) = "set"
           /\ SecOf(p) = Targets[w[p].at]
  <1>1. w[p].job \in Chains /\ w[p].job \in {"refresh", "watchlist"}
    BY DEF InChain, Chains
  <1>2. Plan(w[p].job) = Stages /\ Len(Plan(w[p].job)) = 4
    BY <1>1, PlanIs, StagesAre
  <1>3. \A stage \in StageNames : ConfigOf(w[p].job, stage) = "set"
    BY <1>1 DEF ConfigOf
  <1> QED
    BY <1>2, <1>3, SecIs DEF OnPlan, StageOf, SecOf

\* What is fresh depends on the market alone, and what is done on one table each.
LEMMA PartsStay ==
    ASSUME UNCHANGED market, NEW s
    PROVE  /\ (bar[s])' = bar[s] /\ Now(s)' = Now(s)
           /\ FreshGrowth(s)' = FreshGrowth(s) /\ FreshWacc(s)' = FreshWacc(s)
           /\ FreshValuation(s)' = FreshValuation(s) /\ \A m : OfPass(m, s)' <=> OfPass(m, s)
           /\ Computable(s, Now(s))' <=> Computable(s, Now(s))
           /\ UNCHANGED <<growths, waccs>> => (GrowthDone(s)' <=> GrowthDone(s))
           /\ UNCHANGED valuations => (ValuationDone(s)' <=> ValuationDone(s))
           /\ UNCHANGED metrics => (MetricsDone(s)' <=> MetricsDone(s))
           /\ UNCHANGED scores => (ScoredByThisPass(s)' <=> ScoredByThisPass(s))
  <1>1. FactsAsOf(s, bar[s])' = FactsAsOf(s, bar[s]) /\ (bar[s])' = bar[s]
    BY DEF market, FactsAsOf
  <1>2. Now(s)' = Now(s)
    BY <1>1 DEF Now
  <1>3. /\ FreshGrowth(s)' = FreshGrowth(s) /\ FreshWacc(s)' = FreshWacc(s)
        /\ FreshValuation(s)' = FreshValuation(s) /\ \A m : OfPass(m, s)' <=> OfPass(m, s)
    BY <1>1, <1>2 DEF FreshGrowth, FreshWacc, FreshValuation, OfPass, OfPassOrMissing
  <1>4. Computable(s, Now(s))' <=> Computable(s, Now(s))
    BY <1>2 DEF Computable, market
  <1>5. UNCHANGED <<growths, waccs>> => (GrowthDone(s)' <=> GrowthDone(s))
    BY <1>3 DEF GrowthDone
  <1>6. UNCHANGED valuations => (ValuationDone(s)' <=> ValuationDone(s))
    <2>1. UNCHANGED valuations => Rows(valuations, s, bar[s])' = Rows(valuations, s, bar[s])
      BY <1>1 DEF Rows
    <2> QED
      BY <1>3, <1>4, <2>1 DEF ValuationDone
  <1>7. UNCHANGED metrics => (MetricsDone(s)' <=> MetricsDone(s))
    <2>1. UNCHANGED metrics => Rows(metrics, s, bar[s])' = Rows(metrics, s, bar[s])
      BY <1>1 DEF Rows
    <2> QED
      BY <1>3, <2>1 DEF MetricsDone
  <1>8. UNCHANGED scores => (ScoredByThisPass(s)' <=> ScoredByThisPass(s))
    <2>1. UNCHANGED scores => Rows(scores, s, bar[s])' = Rows(scores, s, bar[s])
      BY <1>1 DEF Rows
    <2> QED
      BY <1>1, <2>1 DEF ScoredByThisPass, OfPassOrMissing, Computable, market
  <1> QED
    BY <1>1, <1>2, <1>3, <1>4, <1>5, <1>6, <1>7, <1>8

\* The tables and the market decide what is done.
LEMMA DoneStays ==
    ASSUME UNCHANGED <<market, tables>>, NEW k, NEW s
    PROVE  Done(k, s)' <=> Done(k, s)
  BY PartsStay DEF Done, tables

\* The other workers, when p moves.
LEMMA OthersPass ==
    ASSUME PassInv, NEW p \in Workers, Spares(p),
           \A q \in Workers : q # p => w'[q] = w[q]
    PROVE  \A q \in Workers \ disturbed' : q # p => PassOf(q)'
  <1> SUFFICES ASSUME NEW q \in Workers \ disturbed', q # p, InChain(w'[q])
               PROVE  /\ w'[q].config = "set"
                      /\ \A k \in 1..4 : \A i \in DOMAIN Targets :
                           Passed(w'[q], k, i) /\ bar'[Targets[i]] > 0 => Done(k, Targets[i])'
    BY DEF PassOf
  <1>1. w'[q] = w[q] /\ w[q].pc # "idle"
    BY DEF InChain
  <1>2. UNCHANGED <<market, tables>> /\ q \notin disturbed
    BY <1>1 DEF Spares
  <1>3. /\ w[q].config = "set"
        /\ \A k \in 1..4 : \A i \in DOMAIN Targets :
              Passed(w[q], k, i) /\ bar[Targets[i]] > 0 => Done(k, Targets[i])
    BY <1>1, <1>2 DEF PassInv, PassOf
  <1>4. \A k \in 1..4 : \A i \in DOMAIN Targets : Done(k, Targets[i])' <=> Done(k, Targets[i])
    BY <1>2, DoneStays
  <1>5. bar' = bar
    BY <1>2 DEF market
  <1> QED
    BY <1>1, <1>3, <1>4, <1>5

\* A worker that leaves a security with its stage done keeps PassInv.
LEMMA LeavesPassed ==
    ASSUME Typed, PassInv, NEW p \in Workers, w[p].pc # "idle", Spares(p),
           p \in disturbed => p \in disturbed', Leave(p), p \notin disturbed => StepDone(p)
    PROVE  PassInv'
  <1>1. w[p] \in WorkerStates /\ OnPlan(w[p]) /\ w' = [w EXCEPT ![p] = After(w[p])]
    BY SecIs DEF Leave
  <1>2. /\ w'[p] = After(w[p])
        /\ \A q \in Workers \ disturbed' : q # p => PassOf(q)'
    BY <1>1, OneWorkerMoves, OthersPass
  <1> SUFFICES ASSUME InChain(w'[p]), p \notin disturbed, StepDone(p)
               PROVE  /\ w'[p].config = "set"
                      /\ \A k \in 1..4 : \A i \in DOMAIN Targets :
                           Passed(w'[p], k, i) /\ bar'[Targets[i]] > 0 => Done(k, Targets[i])'
    BY <1>2 DEF PassInv, PassOf
  <1>3. After(w[p]).pc # "idle" /\ After(w[p]).intact = w[p].intact
    BY <1>1, <1>2, AfterIs DEF InChain
  <1>4. After(w[p]).job = w[p].job
    BY <1>1, <1>3, AfterIs
  <1>5. InChain(w[p])
    BY <1>2, <1>3, <1>4 DEF InChain
  <1>6. /\ w[p].stage \in 1..4 /\ w[p].at \in 1..Len(Targets) /\ Len(Targets) \in Nat
        /\ Len(Plan(w[p].job)) = 4 /\ DOMAIN Targets = 1..Len(Targets)
        /\ \A k \in 1..4 : ConfigOf(w[p].job, Plan(w[p].job)[k]) = "set"
    BY <1>5, ChainPlan, TargetsAre, PlanIs, StagesAre
  <1>7. w[p].config = "set"
    BY <1>5 DEF PassInv, PassOf
  <1>8. CASE w[p].at < Len(Targets)
    <2>1. /\ After(w[p]).stage = w[p].stage /\ After(w[p]).at = w[p].at + 1
          /\ After(w[p]).config = w[p].config
      BY <1>1, <1>6, <1>8, AfterIs
    <2>2. \A k \in 1..4 : \A i \in DOMAIN Targets :
             Passed(After(w[p]), k, i) =>
                 Passed(w[p], k, i) \/ (k = w[p].stage /\ i = w[p].at)
      BY <1>6, <2>1 DEF Passed
    <2> QED
      BY <1>2, <1>5, <1>7, <2>1, <2>2 DEF StepDone
  <1>9. CASE w[p].at = Len(Targets)
    <2>1. /\ After(w[p]).stage = w[p].stage + 1 /\ After(w[p]).at = 1
          /\ w[p].stage < 4
          /\ After(w[p]).config = ConfigOf(w[p].job, Plan(w[p].job)[w[p].stage + 1])
      BY <1>1, <1>3, <1>6, <1>9, AfterIs
    <2>2. After(w[p]).config = "set"
      BY <1>6, <2>1
    <2>3. \A k \in 1..4 : \A i \in DOMAIN Targets :
             Passed(After(w[p]), k, i) =>
                 Passed(w[p], k, i) \/ (k = w[p].stage /\ i = w[p].at)
      BY <1>6, <1>9, <2>1 DEF Passed
    <2> QED
      BY <1>2, <1>5, <2>2, <2>3 DEF StepDone
  <1> QED
    BY <1>6, <1>8, <1>9

\* A worker that leaves its last security has scored them all.
LEMMA LeavesComplete ==
    ASSUME Typed, NEW p \in Workers, w[p].pc # "idle", Leave(p), StepDone(p), Finishes(p)
    PROVE  \A s \in Securities : bar'[s] > 0 => ScoredByThisPass(s)'
  <1>1. w[p] \in WorkerStates /\ OnPlan(w[p]) /\ w' = [w EXCEPT ![p] = After(w[p])]
    BY SecIs DEF Leave
  <1>2. w'[p] = After(w[p])
    BY <1>1, OneWorkerMoves
  <1>3. InChain(w[p])
    BY <1>1, <1>2, AfterIs DEF Finishes, InChain
  <1>4. /\ w[p].stage \in 1..4 /\ w[p].at \in 1..Len(Targets) /\ Len(Targets) \in Nat
        /\ Len(Plan(w[p].job)) = 4 /\ DOMAIN Targets = 1..Len(Targets)
    BY <1>3, ChainPlan, TargetsAre
  <1>5. w[p].stage = 4 /\ w[p].at = Len(Targets)
    BY <1>1, <1>2, <1>4, AfterIs DEF Finishes
  <1>6. \A i \in DOMAIN Targets : Passed(w[p], 4, i) \/ (4 = w[p].stage /\ i = w[p].at)
    BY <1>4, <1>5 DEF Passed
  <1>7. \A i \in DOMAIN Targets : bar'[Targets[i]] > 0 => Done(4, Targets[i])'
    BY <1>3, <1>6 DEF StepDone
  <1>8. \A i \in DOMAIN Targets : bar'[Targets[i]] > 0 => ScoredByThisPass(Targets[i])'
    BY <1>7 DEF Done
  <1> QED
    BY <1>8 DEF Securities

-----------------------------------------------------------------------------
(* Each stage does what the next ones need.                                *)

\* A worker without a price for its security has nothing to do.
LEMMA NoPriceDone ==
    ASSUME Typed, PassInv, NEW p \in Workers \ disturbed, ReadPrice(p), bar[SecOf(p)] = 0
    PROVE  StepDone(p)
  <1> SUFFICES ASSUME InChain(w[p]), NEW k \in 1..4, NEW i \in DOMAIN Targets,
                      Passed(w[p], k, i) \/ (k = w[p].stage /\ i = w[p].at),
                      bar'[Targets[i]] > 0
               PROVE  Done(k, Targets[i])'
    BY DEF StepDone
  <1>1. UNCHANGED <<market, tables>>
    BY DEF ReadPrice
  <1>2. bar[Targets[i]] > 0
    BY <1>1 DEF market
  <1>3. i # w[p].at
    BY <1>2 DEF SecOf
  <1>4. Done(k, Targets[i])
    BY <1>2, <1>3 DEF PassInv, PassOf
  <1> QED
    BY <1>1, <1>4, DoneStays

\* What a worker of a chain finds when it writes at its stage.
LEMMA ChainWrites ==
    ASSUME Typed, ChainInv, PassInv, NEW p \in Workers \ disturbed, InChain(w[p]),
           w[p].pc = "write", UNCHANGED market
    PROVE  /\ w[p] \in WorkerStates /\ SecOf(p) \in Securities
           /\ w[p].asOf \in Dates /\ w[p].asOf = bar[SecOf(p)] /\ w[p].config = "set"
           /\ w[p].stage \in 1..4 /\ StageOf(p) = Stages[w[p].stage]
           /\ \A k \in 1..4 : k < w[p].stage => Done(k, SecOf(p))
           /\ \A k \in 1..4 : \A i \in DOMAIN Targets :
                 /\ Passed(w[p], k, i) \/ (k = w[p].stage /\ i = w[p].at)
                 /\ bar'[Targets[i]] > 0
                 => /\ k <= w[p].stage
                    /\ k < w[p].stage => Done(k, Targets[i])
                    /\ Targets[i] # SecOf(p) => Done(k, Targets[i])
  <1>1. /\ w[p] \in WorkerStates /\ SecOf(p) \in Securities
        /\ w[p].asOf \in Dates /\ w[p].asOf = bar[SecOf(p)]
    BY WriterHolds
  <1>2. /\ w[p].stage \in 1..4 /\ StageOf(p) = Stages[w[p].stage]
        /\ w[p].at \in DOMAIN Targets /\ SecOf(p) = Targets[w[p].at]
    BY ChainPlan, TargetsAre
  <1>3. /\ w[p].config = "set"
        /\ \A k \in 1..4 : \A i \in DOMAIN Targets :
              Passed(w[p], k, i) /\ bar[Targets[i]] > 0 => Done(k, Targets[i])
    BY DEF PassInv, PassOf
  <1>4. bar[SecOf(p)] > 0
    BY <1>1 DEF Dates
  <1>5. \A k \in 1..4 : k < w[p].stage => Done(k, SecOf(p))
    BY <1>2, <1>3, <1>4 DEF Passed
  <1>6. ASSUME NEW k \in 1..4, NEW i \in DOMAIN Targets, bar'[Targets[i]] > 0,
               Passed(w[p], k, i) \/ (k = w[p].stage /\ i = w[p].at)
        PROVE  /\ k <= w[p].stage
               /\ k < w[p].stage => Done(k, Targets[i])
               /\ Targets[i] # SecOf(p) => Done(k, Targets[i])
    <2>1. bar[Targets[i]] > 0
      BY <1>6 DEF market
    <2>2. k <= w[p].stage
      BY <1>2, <1>6 DEF Passed
    <2>3. k < w[p].stage => Passed(w[p], k, i)
      BY DEF Passed
    <2>4. Targets[i] # SecOf(p) => Passed(w[p], k, i)
      BY <1>2, <1>6
    <2> QED
      BY <1>3, <2>1, <2>2, <2>3, <2>4
  <1> QED
    BY <1>1, <1>2, <1>3, <1>5, <1>6

LEMMA WriteGrowthDone ==
    ASSUME Typed, ChainInv, PassInv, NEW p \in Workers \ disturbed, WriteGrowth(p)
    PROVE  StepDone(p)
  <1> SUFFICES ASSUME InChain(w[p]), NEW k \in 1..4, NEW i \in DOMAIN Targets,
                      Passed(w[p], k, i) \/ (k = w[p].stage /\ i = w[p].at),
                      bar'[Targets[i]] > 0
               PROVE  Done(k, Targets[i])'
    BY DEF StepDone
  <1> DEFINE s == SecOf(p)
             t == Targets[i]
  <1>1. w[p].pc = "write" /\ StageOf(p) = "growth" /\ UNCHANGED market
    BY DEF WriteGrowth
  <1>2. /\ w[p].asOf = bar[s] /\ w[p].config = "set"
        /\ k = 1 /\ (t # s => Done(k, t))
    BY <1>1, ChainWrites, StagesAre
  <1>3. /\ growths' = Upsert(growths, FreshGrowth(s))
        /\ waccs' = Upsert(waccs, FreshWacc(s))
    BY <1>2 DEF WriteGrowth, GrowthRow, WaccRow, FreshGrowth, FreshWacc, Now
  <1>4. FreshGrowth(t)' = FreshGrowth(t) /\ FreshWacc(t)' = FreshWacc(t)
    BY <1>1, PartsStay
  <1>5. /\ FreshGrowth(s).sec = s /\ FreshWacc(s).sec = s
        /\ FreshGrowth(t).sec = t /\ FreshWacc(t).sec = t
    BY DEF FreshGrowth, FreshWacc
  <1> HIDE DEF s, t
  <1>6. FreshGrowth(t) \in growths' /\ FreshWacc(t) \in waccs'
    <2>1. CASE t = s
      BY <1>3, <2>1 DEF Upsert
    <2>2. CASE t # s
      BY <1>2, <1>3, <1>5, <2>2 DEF Upsert, Rows, Done, GrowthDone
    <2> QED
      BY <2>1, <2>2
  <1>7. GrowthDone(t)'
    BY <1>4, <1>6 DEF GrowthDone
  <1> QED
    BY <1>2, <1>7 DEF Done, t

\* After its growth stage, a security's newest rows are those of the pass.
LEMMA NewestIsFresh ==
    ASSUME Typed, Dated, NEW s \in Securities, bar[s] \in Dates, GrowthDone(s)
    PROVE  /\ LatestRow(growths, s) = {FreshGrowth(s)}
           /\ LatestRow(waccs, s) = {FreshWacc(s)}
  <1>1. /\ FreshGrowth(s).sec = s /\ FreshGrowth(s).asOf = bar[s]
        /\ FreshWacc(s).sec = s /\ FreshWacc(s).asOf = bar[s]
    BY DEF FreshGrowth, FreshWacc
  <1>2. FreshGrowth(s) \in growths /\ FreshWacc(s) \in waccs
    BY DEF GrowthDone
  <1>3. \A r \in growths \cup waccs : r.asOf \in Nat /\ (r.sec = s => r.asOf <= bar[s])
    BY DEF Typed, Dated, CapitalRows, WaccRows, Dates
  <1>4. OneRowPerKey(growths) /\ OneRowPerKey(waccs) /\ bar[s] \in Nat
    BY DEF Typed, Dates
  <1>5. LatestRow(growths, s) = {FreshGrowth(s)}
    <2>1. \A r \in growths : r.sec = s /\ bar[s] <= r.asOf => r = FreshGrowth(s)
      BY <1>1, <1>2, <1>3, <1>4 DEF OneRowPerKey
    <2> QED
      BY <1>1, <1>2, <1>3, <2>1 DEF LatestRow
  <1>6. LatestRow(waccs, s) = {FreshWacc(s)}
    <2>1. \A r \in waccs : r.sec = s /\ bar[s] <= r.asOf => r = FreshWacc(s)
      BY <1>1, <1>2, <1>3, <1>4 DEF OneRowPerKey
    <2> QED
      BY <1>1, <1>2, <1>3, <2>1 DEF LatestRow
  <1> QED
    BY <1>5, <1>6

LEMMA ValuationIsFresh ==
    ASSUME Typed, Dated, NEW s \in Securities, NEW v \in WorkerStates, v.asOf \in Dates,
           v.asOf = bar[s], v.growth = LatestRow(growths, s), v.config = "set",
           GrowthDone(s)
    PROVE  ValuationRow(s, v) = FreshValuation(s)
  <1> DEFINE wacc == LatestRow(waccs, s)
             infos == {FactsAsOf(s, v.asOf)} \cup {r.facts : r \in v.growth \cup wacc}
             confs == {v.config} \cup {r.config : r \in wacc}
  <1>1. v.growth = {FreshGrowth(s)} /\ wacc = {FreshWacc(s)}
    BY NewestIsFresh
  <1>2. /\ FreshGrowth(s).asOf = bar[s] /\ FreshGrowth(s).facts = Now(s)
        /\ FreshWacc(s).asOf = bar[s] /\ FreshWacc(s).facts = Now(s)
        /\ FreshWacc(s).config = "set"
    BY DEF FreshGrowth, FreshWacc
  <1>3. Now(s) \in 0..MaxDate /\ FactsAsOf(s, v.asOf) = Now(s)
    BY FactsBounded DEF Now, Dates
  <1>4. infos = {Now(s)} /\ confs = {"set"}
    BY <1>1, <1>2, <1>3
  <1>5. ValuationRow(s, v) =
          [sec |-> s, asOf |-> v.asOf, growth |-> DateOf(v.growth), wacc |-> DateOf(wacc),
           filed |-> Last(infos), configs |-> confs]
    BY DEF ValuationRow
  <1> HIDE DEF wacc, infos, confs
  <1>6. DateOf(v.growth) = bar[s] /\ DateOf(wacc) = bar[s]
    <2>1. bar[s] \in 1..MaxDate /\ bar[s] \in 0..MaxDate
      BY StagesAssumption DEF Dates
    <2>2. ASSUME NEW rows, NEW x, rows = {x}, x.asOf = bar[s]
          PROVE  DateOf(rows) = bar[s]
      BY <2>1, <2>2, DateBounded
    <2> QED
      BY <1>1, <1>2, <2>2
  <1>7. Last(infos) = Now(s)
    <2>1. infos \in SUBSET (0..MaxDate)
      BY <1>3, <1>4
    <2>2. Last(infos) \in infos \cup {0} /\ \A x \in infos : x <= Last(infos)
      BY <2>1, LastIs
    <2> QED
      BY <1>3, <1>4, <2>2
  <1> QED
    BY <1>4, <1>5, <1>6, <1>7 DEF FreshValuation

\* The growth row of the pass is the one that a calculation of its date reads.
LEMMA FreshGrowthSeen ==
    ASSUME Typed, NEW s \in Securities, bar[s] \in Dates, GrowthDone(s)
    PROVE  GrowthAsOf(s, bar[s]) = bar[s]
  <1>1. bar[s] \in 1..MaxDate /\ bar[s] \in 0..MaxDate
    BY StagesAssumption DEF Dates
  <1>2. /\ FreshGrowth(s) \in growths
        /\ FreshGrowth(s).sec = s /\ FreshGrowth(s).asOf = bar[s]
    BY DEF GrowthDone, FreshGrowth
  <1>3. /\ GrowthAsOf(s, bar[s]) \in 0..MaxDate
        /\ \A g \in growths : g.sec = s /\ g.asOf <= bar[s] => g.asOf <= GrowthAsOf(s, bar[s])
        /\ GrowthAsOf(s, bar[s]) <= bar[s]
    BY <1>1, GrowthAsOfBounded
  <1>4. FreshGrowth(s).asOf <= GrowthAsOf(s, bar[s])
    BY <1>1, <1>2, <1>3
  <1> QED
    BY <1>1, <1>2, <1>3, <1>4

LEMMA WriteValuationDone ==
    ASSUME Typed, ChainInv, PassInv, NEW p \in Workers \ disturbed, WriteValuation(p)
    PROVE  StepDone(p)
  <1> SUFFICES ASSUME InChain(w[p]), NEW k \in 1..4, NEW i \in DOMAIN Targets,
                      Passed(w[p], k, i) \/ (k = w[p].stage /\ i = w[p].at),
                      bar'[Targets[i]] > 0
               PROVE  Done(k, Targets[i])'
    BY DEF StepDone
  <1> DEFINE s == SecOf(p)
             t == Targets[i]
             row == FreshValuation(s)
  <1>1. /\ w[p].pc = "write" /\ StageOf(p) = "valuation" /\ UNCHANGED market
        /\ UNCHANGED <<growths, waccs>>
    BY DEF WriteValuation
  <1>2. /\ w[p] \in WorkerStates /\ s \in Securities
        /\ w[p].asOf \in Dates /\ w[p].asOf = bar[s] /\ w[p].config = "set"
        /\ w[p].stage = 2 /\ k <= 2 /\ Done(1, s)
        /\ k < 2 => Done(k, t)
        /\ t # s => Done(k, t)
    <2>1. w[p].stage = 2
      BY <1>1, ChainWrites, StagesAre
    <2> QED
      BY <1>1, <2>1, ChainWrites
  <1>3. CASE k = 1
    BY <1>1, <1>2, <1>3, PartsStay DEF Done
  <1>4. CASE k = 2
    <2>1. ValuationRow(s, w[p]) = row
      <3>1. w[p].growth = LatestRow(growths, s)
        BY <1>1, WriterHolds
      <3>2. GrowthDone(s) /\ Dated
        BY <1>2 DEF Done, ChainInv
      <3> HIDE DEF s, row
      <3> QED
        BY <1>2, <3>1, <3>2, ValuationIsFresh DEF row
    <2>2. FactsAsOf(s, w[p].asOf) = Now(s)
      BY <1>2 DEF Now
    <2>3. /\ Computable(s, Now(s)) => valuations' = Upsert(valuations, row)
          /\ ~Computable(s, Now(s)) => valuations' = valuations
      BY <2>1, <2>2 DEF WriteValuation
    <2>4. /\ (bar[t])' = bar[t] /\ FreshValuation(t)' = FreshValuation(t)
          /\ (Computable(t, Now(t))' <=> Computable(t, Now(t)))
      BY <1>1, PartsStay
    <2>5. row.sec = s /\ row.asOf = bar[s] /\ row \in ValuationRows
      <3>1. ValuationRow(s, w[p]) \in ValuationRows
        BY <1>2, ValuationRowTyped
      <3> QED
        BY <2>1, <3>1 DEF FreshValuation
    <2>6. valuations \in SUBSET ValuationRows /\ OneRowPerKey(valuations)
      BY DEF Typed
    <2> HIDE DEF row
    <2>7. /\ Rows(Upsert(valuations, row), s, bar[s]) = {row}
          /\ \A o, d : o # s \/ d # bar[s] =>
                Rows(Upsert(valuations, row), o, d) = Rows(valuations, o, d)
      <3>1. /\ Rows(Upsert(valuations, row), row.sec, row.asOf) = {row}
            /\ \A o, d : o # row.sec \/ d # row.asOf =>
                  Rows(Upsert(valuations, row), o, d) = Rows(valuations, o, d)
        BY DEF Upsert, Rows
      <3> QED
        BY <2>5, <3>1
    <2> HIDE DEF s, t
    <2>8. Computable(t, Now(t)) => Rows(valuations', t, bar[t]) = {FreshValuation(t)}
      <3>1. CASE t = s
        BY <2>3, <2>7, <3>1 DEF row
      <3>2. CASE t # s
        <4>1. Rows(valuations', t, bar[t]) = Rows(valuations, t, bar[t])
          BY <2>3, <2>7, <3>2
        <4>2. ValuationDone(t)
          BY <1>2, <1>4, <3>2 DEF Done
        <4> QED
          BY <4>1, <4>2 DEF ValuationDone
      <3> QED
        BY <3>1, <3>2
    <2>9. Rows(valuations, t, bar[t])' = Rows(valuations', t, bar[t])
      BY <2>4 DEF Rows
    <2>10. ValuationDone(t)'
      BY <2>4, <2>8, <2>9 DEF ValuationDone
    <2> QED
      BY <1>4, <2>10 DEF Done, t
  <1> QED
    BY <1>2, <1>3, <1>4

LEMMA WriteMetricsDone ==
    ASSUME Typed, ChainInv, PassInv, NEW p \in Workers \ disturbed, WriteMetrics(p)
    PROVE  StepDone(p)
  <1> SUFFICES ASSUME InChain(w[p]), NEW k \in 1..4, NEW i \in DOMAIN Targets,
                      Passed(w[p], k, i) \/ (k = w[p].stage /\ i = w[p].at),
                      bar'[Targets[i]] > 0
               PROVE  Done(k, Targets[i])'
    BY DEF StepDone
  <1> DEFINE s == SecOf(p)
             t == Targets[i]
  <1>1. /\ w[p].pc = "write" /\ StageOf(p) = "metrics" /\ UNCHANGED market
        /\ UNCHANGED <<growths, waccs, valuations>>
    BY DEF WriteMetrics
  <1>2. /\ s \in Securities /\ w[p].asOf \in Dates /\ w[p].asOf = bar[s]
        /\ w[p].stage = 3 /\ k <= 3 /\ Done(1, s)
        /\ k < 3 => Done(k, t)
        /\ t # s => Done(k, t)
    <2>1. w[p].stage = 3
      BY <1>1, ChainWrites, StagesAre
    <2> QED
      BY <1>1, <2>1, ChainWrites
  <1>3. CASE k \in {1, 2}
    BY <1>1, <1>2, <1>3, PartsStay DEF Done
  <1>4. CASE k = 3
    <2>1. GrowthAsOf(s, bar[s]) = bar[s]
      BY <1>2, FreshGrowthSeen DEF Done
    <2>2. PICK series \in MayMiss(FactsAsOf(s, bar[s])), growth \in MayMiss(GrowthAsOf(s, bar[s])) :
             metrics' = Upsert(metrics, MetricRow(s, bar[s], series, growth))
      BY <1>2 DEF WriteMetrics
    <2> DEFINE row == MetricRow(s, bar[s], series, growth)
    <2>3. (bar[t])' = bar[t] /\ \A m : OfPass(m, t)' <=> OfPass(m, t)
      BY <1>1, PartsStay
    <2>4. row.sec = s /\ row.asOf = bar[s] /\ row \in MetricRows /\ OfPass(row, s)
      <3>1. /\ row \in MetricRows
            /\ OfPassOrMissing(series, FactsAsOf(s, bar[s]))
            /\ OfPassOrMissing(growth, GrowthAsOf(s, bar[s]))
        BY <1>2, MetricRowTyped
      <3>2. /\ row.sec = s /\ row.asOf = bar[s] /\ row.facts = FactsAsOf(s, bar[s])
            /\ row.series = series /\ row.growth = growth
        BY DEF MetricRow
      <3> HIDE DEF row
      <3> QED
        BY <2>1, <3>1, <3>2 DEF OfPass, Now
    <2> HIDE DEF row
    <2>6. /\ Rows(metrics', s, bar[s]) = {row}
          /\ \A o, d : o # s \/ d # bar[s] => Rows(metrics', o, d) = Rows(metrics, o, d)
      <3>1. /\ Rows(Upsert(metrics, row), row.sec, row.asOf) = {row}
            /\ \A o, d : o # row.sec \/ d # row.asOf =>
                  Rows(Upsert(metrics, row), o, d) = Rows(metrics, o, d)
        BY DEF Upsert, Rows
      <3>2. metrics' = Upsert(metrics, row)
        BY <2>2 DEF row
      <3> QED
        BY <2>4, <3>1, <3>2
    <2> HIDE DEF s, t
    <2>7. \E m \in MetricRows : Rows(metrics', t, bar[t]) = {m} /\ OfPass(m, t)
      <3>1. CASE t = s
        BY <2>4, <2>6, <3>1
      <3>2. CASE t # s
        BY <1>2, <1>4, <2>6, <3>2 DEF Done, MetricsDone
      <3> QED
        BY <3>1, <3>2
    <2>8. Rows(metrics, t, bar[t])' = Rows(metrics', t, bar[t])
      BY <2>3 DEF Rows
    <2>9. MetricsDone(t)'
      BY <2>3, <2>7, <2>8 DEF MetricsDone
    <2> QED
      BY <1>4, <2>9 DEF Done, t
  <1> QED
    BY <1>2, <1>3, <1>4

LEMMA WriteScoreDone ==
    ASSUME Typed, ChainInv, PassInv, NEW p \in Workers \ disturbed, WriteScore(p)
    PROVE  StepDone(p)
  <1> SUFFICES ASSUME InChain(w[p]), NEW k \in 1..4, NEW i \in DOMAIN Targets,
                      Passed(w[p], k, i) \/ (k = w[p].stage /\ i = w[p].at),
                      bar'[Targets[i]] > 0
               PROVE  Done(k, Targets[i])'
    BY DEF StepDone
  <1> DEFINE s == SecOf(p)
             t == Targets[i]
  <1>1. /\ w[p].pc = "write" /\ StageOf(p) = "scores" /\ UNCHANGED market
        /\ UNCHANGED <<growths, waccs, valuations, metrics>>
    BY DEF WriteScore
  <1>2. /\ s \in Securities /\ w[p].asOf \in Dates /\ w[p].asOf = bar[s]
        /\ w[p].config = "set"
        /\ Done(1, s) /\ Done(2, s) /\ Done(3, s)
        /\ k < 4 => Done(k, t)
        /\ t # s => Done(k, t)
    <2>1. w[p].stage = 4
      BY <1>1, ChainWrites, StagesAre
    <2> QED
      BY <1>1, <2>1, ChainWrites
  <1>3. CASE k \in {1, 2, 3}
    BY <1>1, <1>2, <1>3, PartsStay DEF Done
  <1>4. CASE k = 4
    <2>0. PICK trend \in Trends(s) :
             scores' = {r \in scores : <<r.sec, r.asOf, r.config>>
                                        # <<s, bar[s], "set">>} \cup {ScoreRow(s, w[p], trend)}
      BY <1>2 DEF WriteScore
    <2> DEFINE row == ScoreRow(s, w[p], trend)
    <2>1. scores' = {r \in scores : <<r.sec, r.asOf, r.config>>
                                      # <<s, bar[s], "set">>} \cup {row}
      BY <2>0
    <2>2. /\ row.sec = s /\ row.asOf = bar[s] /\ row.config = "set"
          /\ row.growth = bar[s] /\ row.facts = Now(s) /\ OfPassOrMissing(row.trend, bar[s])
          /\ \E m \in MetricRows : row.metric = {m} /\ OfPass(m, s)
          /\ Computable(s, Now(s)) => row.val = {FreshValuation(s)} /\ row.pfcf = {FreshValuation(s)}
      <3>1. GrowthAsOf(s, bar[s]) = bar[s]
        BY <1>2, FreshGrowthSeen DEF Done
      <3>2. \E m \in MetricRows : Rows(metrics, s, bar[s]) = {m} /\ OfPass(m, s)
        BY <1>2 DEF Done, MetricsDone
      <3>3. Computable(s, Now(s)) => Rows(valuations, s, bar[s]) = {FreshValuation(s)}
        BY <1>2 DEF Done, ValuationDone
      <3>4. w[p].val = Rows(valuations, s, bar[s])
        BY <1>1, <1>2, WriterHolds
      <3>5. OfPassOrMissing(trend, bar[s])
        BY DEF Trends, OfPassOrMissing
      <3>6. /\ row.sec = s /\ row.asOf = w[p].asOf /\ row.config = w[p].config
            /\ row.growth = GrowthAsOf(s, w[p].asOf) /\ row.facts = FactsAsOf(s, w[p].asOf)
            /\ row.trend = trend /\ row.metric = Rows(metrics, s, w[p].asOf)
            /\ row.val = w[p].val /\ row.pfcf = Rows(valuations, s, w[p].asOf)
        BY DEF ScoreRow
      <3> HIDE DEF row, s
      <3> QED
        BY <1>2, <3>1, <3>2, <3>3, <3>4, <3>5, <3>6 DEF Now
    <2>3. /\ (bar[t])' = bar[t] /\ Now(t)' = Now(t)
          /\ FactsAsOf(t, bar[t])' = Now(t)
          /\ (Computable(t, Now(t))' <=> Computable(t, Now(t)))
      BY <1>1, PartsStay DEF Now
    <2> HIDE DEF row
    <2>4. \E r \in Rows(scores', t, bar[t]) :
             /\ r.config = "set" /\ r.growth = bar[t] /\ r.facts = Now(t)
             /\ OfPassOrMissing(r.trend, bar[t])
             /\ \E m \in MetricRows : r.metric = {m} /\ OfPass(m, t)
             /\ Computable(t, Now(t)) =>
                    r.val = {FreshValuation(t)} /\ r.pfcf = {FreshValuation(t)}
      <3> HIDE DEF s, t
      <3>1. CASE t = s
        <4>1. row \in Rows(scores', s, bar[s])
          BY <2>1, <2>2 DEF Rows
        <4> QED
          BY <2>2, <3>1, <4>1
      <3>2. CASE t # s
        <4>1. ScoredByThisPass(t)
          BY <1>2, <1>4, <3>2 DEF Done
        <4>2. Rows(scores, t, bar[t]) \subseteq Rows(scores', t, bar[t])
          BY <2>1, <3>2 DEF Rows
        <4> QED
          BY <4>1, <4>2 DEF ScoredByThisPass, OfPass, FreshValuation, Now
      <3> QED
        BY <3>1, <3>2
    <2>5. Rows(scores, t, bar[t])' = Rows(scores', t, bar[t])
      BY <2>3 DEF Rows
    <2>6. ScoredByThisPass(t)'
      <3>1. Computable(t, FactsAsOf(t, bar[t]))' <=> Computable(t, Now(t))
        BY <2>3 DEF Now
      <3> HIDE DEF t
      <3> QED
        BY <2>3, <2>4, <2>5, <3>1 DEF ScoredByThisPass, OfPass, OfPassOrMissing, FreshValuation
    <2> QED
      BY <1>4, <2>6 DEF Done, t
  <1> QED
    BY <1>2, <1>3, <1>4

-----------------------------------------------------------------------------
(* PassInv is inductive beside ChainInv.                                   *)

\* A worker that goes on with the security it is at, and the tables as they were.
LEMMA StandsPassed ==
    ASSUME Typed, PassInv, NEW p \in Workers, w[p].pc # "idle",
           UNCHANGED <<market, tables>>, disturbed' = disturbed,
           NEW v, w' = [w EXCEPT ![p] = v],
           v.job = w[p].job, v.stage = w[p].stage, v.at = w[p].at,
           v.config = w[p].config, v.intact = w[p].intact
    PROVE  PassInv'
  <1>1. Spares(p) /\ w'[p] = v /\ \A q \in Workers : q # p => w'[q] = w[q]
    BY OneWorkerMoves DEF Spares
  <1>2. \A q \in Workers \ disturbed' : q # p => PassOf(q)'
    BY <1>1, OthersPass
  <1> SUFFICES ASSUME InChain(w'[p]), p \notin disturbed
               PROVE  /\ w'[p].config = "set"
                      /\ \A k \in 1..4 : \A i \in DOMAIN Targets :
                           Passed(w'[p], k, i) /\ bar'[Targets[i]] > 0 => Done(k, Targets[i])'
    BY <1>2 DEF PassInv, PassOf
  <1>3. InChain(w[p])
    BY <1>1 DEF InChain
  <1>4. /\ w[p].config = "set"
        /\ \A k \in 1..4 : \A i \in DOMAIN Targets :
              Passed(w[p], k, i) /\ bar[Targets[i]] > 0 => Done(k, Targets[i])
    BY <1>3 DEF PassInv, PassOf
  <1>5. \A k \in 1..4 : \A i \in DOMAIN Targets : Done(k, Targets[i])' <=> Done(k, Targets[i])
    BY DoneStays
  <1>6. bar' = bar /\ \A k, i : Passed(w'[p], k, i) <=> Passed(w[p], k, i)
    BY <1>1 DEF market, Passed
  <1> QED
    BY <1>1, <1>4, <1>5, <1>6

LEMMA BeginPassed ==
    ASSUME Typed, PassInv, NEW p \in Workers, NEW job \in Jobs[p], Begin(p, job)
    PROVE  PassInv'
  <1> DEFINE c == ConfigOf(job, Plan(job)[1])
             v == [IdleWorker EXCEPT !.pc = "price", !.job = job, !.config = c,
                                     !.pass = w[p].pass + 1]
  <1>1. w' = [w EXCEPT ![p] = v] /\ Spares(p)
    BY DEF Begin, Spares
  <1>2. w'[p] = v /\ \A q \in Workers \ disturbed' : q # p => PassOf(q)'
    BY <1>1, OneWorkerMoves, OthersPass
  <1>3. v.job = job /\ v.stage = 1 /\ v.at = 1 /\ v.config = c
    BY DEF IdleWorker
  <1>4. job \in {"refresh", "watchlist"} => c = "set"
    BY DEF ConfigOf
  <1> HIDE DEF v, c
  <1>5. \A k \in 1..4 : \A i \in DOMAIN Targets : ~Passed(v, k, i)
    BY <1>3, TargetsAre DEF Passed
  <1>6. PassOf(p)'
    BY <1>2, <1>3, <1>4, <1>5 DEF PassOf, InChain
  <1> QED
    BY <1>2, <1>6 DEF PassInv

LEMMA ReadsPassed ==
    ASSUME Typed, PassInv, NEW p \in Workers,
           ReadPrice(p) \/ ReadGrowth(p) \/ ReadValuation(p)
    PROVE  PassInv'
  <1>0. w[p] \in WorkerStates /\ w[p].pc # "idle"
    BY SecIs DEF ReadPrice, ReadGrowth, ReadValuation
  <1>1. UNCHANGED <<market, tables>> /\ disturbed' = disturbed /\ Spares(p)
    BY DEF ReadPrice, ReadGrowth, ReadValuation, Spares
  <1>2. CASE ReadPrice(p) /\ bar[SecOf(p)] = 0
    BY <1>0, <1>1, <1>2, NoPriceDone, LeavesPassed DEF ReadPrice
  <1>3. CASE ReadPrice(p) /\ bar[SecOf(p)] # 0
    <2> DEFINE pc == IF StageOf(p) \in {"valuation", "scores"} THEN "inputs" ELSE "write"
               v == [w[p] EXCEPT !.asOf = bar[SecOf(p)], !.pc = pc]
    <2>1. w' = [w EXCEPT ![p] = v]
      BY <1>3 DEF ReadPrice, Typed
    <2>2. /\ v.job = w[p].job /\ v.stage = w[p].stage /\ v.at = w[p].at
          /\ v.config = w[p].config /\ v.intact = w[p].intact
      BY <1>0 DEF WorkerStates
    <2> HIDE DEF v
    <2> QED
      BY <1>0, <1>1, <2>1, <2>2, StandsPassed
  <1>4. CASE ReadGrowth(p)
    <2> DEFINE v == [w[p] EXCEPT !.growth = LatestRow(growths, SecOf(p)), !.pc = "write"]
    <2>1. w' = [w EXCEPT ![p] = v]
      BY <1>4 DEF ReadGrowth, Typed
    <2>2. /\ v.job = w[p].job /\ v.stage = w[p].stage /\ v.at = w[p].at
          /\ v.config = w[p].config /\ v.intact = w[p].intact
      BY <1>0 DEF WorkerStates
    <2> HIDE DEF v
    <2> QED
      BY <1>0, <1>1, <2>1, <2>2, StandsPassed
  <1>5. CASE ReadValuation(p)
    <2> DEFINE rows == Rows(valuations, SecOf(p), w[p].asOf)
               v == [w[p] EXCEPT !.val = rows, !.pc = "write"]
    <2>1. w' = [w EXCEPT ![p] = v]
      BY <1>5 DEF ReadValuation, Typed
    <2>2. /\ v.job = w[p].job /\ v.stage = w[p].stage /\ v.at = w[p].at
          /\ v.config = w[p].config /\ v.intact = w[p].intact
      BY <1>0 DEF WorkerStates
    <2> HIDE DEF v
    <2> QED
      BY <1>0, <1>1, <2>1, <2>2, StandsPassed
  <1> QED
    BY <1>2, <1>3, <1>4, <1>5

LEMMA WritesPassed ==
    ASSUME Typed, ChainInv, PassInv, NEW p \in Workers,
           WriteGrowth(p) \/ WriteValuation(p) \/ WriteMetrics(p) \/ WriteScore(p)
    PROVE  /\ w[p].pc # "idle" /\ Leave(p)
           /\ p \notin disturbed => StepDone(p)
           /\ PassInv'
  <1>1. p \notin disturbed => StepDone(p)
    BY WriteGrowthDone, WriteValuationDone, WriteMetricsDone, WriteScoreDone
  <1>2. /\ w[p].pc # "idle" /\ Leave(p) /\ UNCHANGED market
        /\ Disturb(Workers \ {p})
    BY DEF WriteGrowth, WriteValuation, WriteMetrics, WriteScore
  <1>3. Spares(p) /\ (p \in disturbed => p \in disturbed')
    BY <1>2, WritesSpare DEF Disturb
  <1> QED
    BY <1>1, <1>2, <1>3, LeavesPassed

\* A pass that has lost a security, or a process that died, is no longer intact.
LEMMA FailuresLose ==
    ASSUME Typed, NEW p \in Workers, StepFails(p) \/ Crash(p)
    PROVE  ~w'[p].intact /\ \A q \in Workers : q # p => w'[q] = w[q]
  <1>1. w[p] \in WorkerStates /\ OnPlan(w[p]) /\ w[p].pass \in Nat
    BY SecIs DEF WorkerStates
  <1>2. CASE StepFails(p)
    <2> DEFINE v == [w[p] EXCEPT !.intact = FALSE]
    <2>1. w' = [w EXCEPT ![p] = After(v)]
      BY <1>2 DEF StepFails, Skip
    <2>2. v \in WorkerStates /\ v.intact = FALSE
      BY <1>1 DEF WorkerStates
    <2>3. OnPlan(v)
      BY <1>1 DEF WorkerStates, OnPlan
    <2> HIDE DEF v
    <2>4. After(v).intact = FALSE
      BY <2>2, <2>3, AfterIs
    <2> QED
      BY <2>1, <2>4, OneWorkerMoves
  <1>3. CASE Crash(p)
    BY <1>1, <1>3, DeadTyped, OneWorkerMoves DEF Crash
  <1> QED
    BY <1>2, <1>3

LEMMA FailuresPassed ==
    ASSUME Typed, PassInv, NEW p \in Workers, StepFails(p) \/ Crash(p)
    PROVE  PassInv'
  <1>1. Spares(p)
    BY DEF StepFails, Crash, Spares
  <1>2. ~w'[p].intact /\ \A q \in Workers \ disturbed' : q # p => PassOf(q)'
    BY <1>1, FailuresLose, OthersPass
  <1>3. PassOf(p)'
    BY <1>2 DEF PassOf, InChain
  <1> QED
    BY <1>2, <1>3 DEF PassInv

LEMMA PassNext == Typed /\ ChainInv /\ PassInv /\ [Next]_vars => PassInv'
  <1> SUFFICES ASSUME Typed, ChainInv, PassInv, [Next]_vars PROVE PassInv'
    OBVIOUS
  <1>1. ASSUME NEW p \in Workers, NEW job \in Jobs[p], Begin(p, job) PROVE PassInv'
    BY <1>1, BeginPassed
  <1>2. ASSUME NEW p \in Workers, ReadPrice(p) \/ ReadGrowth(p) \/ ReadValuation(p)
        PROVE  PassInv'
    BY <1>2, ReadsPassed
  <1>3. ASSUME NEW p \in Workers,
               WriteGrowth(p) \/ WriteValuation(p) \/ WriteMetrics(p) \/ WriteScore(p)
        PROVE  PassInv'
    BY <1>3, WritesPassed
  <1>4. ASSUME NEW p \in Workers, StepFails(p) \/ Crash(p) PROVE PassInv'
    BY <1>4, FailuresPassed
  <1>5. ASSUME NEW s \in Securities, NewBar(s) \/ NewFiling(s) PROVE PassInv'
    <2>1. w' = w /\ \A q \in Workers \ disturbed' : w[q].pc = "idle"
      BY <1>5 DEF NewBar, NewFiling, Disturb
    <2> QED
      BY <2>1 DEF PassInv, PassOf, InChain
  <1>6. CASE UNCHANGED vars
    <2>1. UNCHANGED <<market, tables>> /\ w' = w /\ bar' = bar /\ disturbed' = disturbed
      BY <1>6 DEF vars, market, tables
    <2>2. \A k \in 1..4 : \A i \in DOMAIN Targets : Done(k, Targets[i])' <=> Done(k, Targets[i])
      BY <2>1, DoneStays
    <2> QED
      BY <2>1, <2>2 DEF PassInv, PassOf
  <1> QED
    BY <1>1, <1>2, <1>3, <1>4, <1>5, <1>6 DEF Next, Step

LEMMA PassAlways == Spec => []PassInv
  <1>1. Init => PassInv
    BY DEF Init, PassInv, PassOf, InChain, IdleWorker
  <1>2. Typed /\ ChainInv /\ PassInv /\ [Next]_vars => PassInv'
    BY PassNext
  <1> QED
    BY <1>1, <1>2, TypedAlways, ChainAlways, PTL DEF Spec

\* Only a worker that leaves its last security finishes a chain.
LEMMA FinishesComplete ==
    ASSUME Typed, ChainInv, PassInv, [Next]_vars, NEW p \in Workers, Finishes(p)
    PROVE  \A s \in Securities : bar'[s] > 0 => ScoredByThisPass(s)'
  <1>0. w[p].pc # "idle" /\ w'[p].pc = "idle" /\ w'[p].intact /\ p \notin disturbed
    BY DEF Finishes
  <1>1. Step(p)
    BY <1>0, OwnStep
  <1>2. CASE \E job \in Jobs[p] : Begin(p, job)
    BY <1>0, <1>2 DEF Begin
  <1>4. CASE ReadPrice(p) /\ bar[SecOf(p)] = 0
    BY <1>0, <1>4, NoPriceDone, LeavesComplete DEF ReadPrice
  <1>5. CASE (ReadPrice(p) /\ bar[SecOf(p)] # 0) \/ ReadGrowth(p) \/ ReadValuation(p)
    <2>1. w[p] \in WorkerStates
      BY SecIs
    <2>2. w'[p].pc \in {"inputs", "write"}
      BY <1>5, <2>1 DEF ReadPrice, ReadGrowth, ReadValuation, Typed, WorkerStates
    <2> QED
      BY <1>0, <2>2
  <1>6. CASE WriteGrowth(p) \/ WriteValuation(p) \/ WriteMetrics(p) \/ WriteScore(p)
    BY <1>0, <1>6, WritesPassed, LeavesComplete
  <1>7. CASE StepFails(p) \/ Crash(p)
    BY <1>0, <1>7, FailuresLose
  <1> QED
    BY <1>1, <1>2, <1>4, <1>5, <1>6, <1>7 DEF Step

\* The market does not move in the step that finishes a chain.
LEMMA FinishesKeepsMarket ==
    ASSUME [Next]_vars, NEW p \in Workers, Finishes(p)
    PROVE  bar' = bar
  <1>1. w' # w
    BY DEF Finishes
  <1> QED
    BY <1>1
    DEF Next, Step, NewBar, NewFiling, vars, market, Begin, ReadPrice, ReadGrowth,
        ReadValuation, WriteGrowth, WriteValuation, WriteMetrics, WriteScore, StepFails, Crash,
        tables

\* A chain that ends with no security lost, and under which nobody else changed a
\* table, leaves every priced security with a score computed from the rows of that pass.
THEOREM PassesComplete == Spec => PassIsComplete
  <1>1. Typed /\ ChainInv /\ PassInv /\ [Next]_vars =>
           [\A p \in Workers : Finishes(p) =>
               \A s \in Securities : bar[s] > 0 => ScoredByThisPass(s)']_vars
    <2> SUFFICES ASSUME Typed, ChainInv, PassInv, [Next]_vars,
                        NEW p \in Workers, Finishes(p), NEW s \in Securities, bar[s] > 0
                 PROVE  ScoredByThisPass(s)'
      OBVIOUS
    <2>1. bar' = bar
      BY FinishesKeepsMarket
    <2> QED
      BY <2>1, FinishesComplete
  <1> QED
    BY <1>1, TypedAlways, ChainAlways, PassAlways, PTL DEF Spec, PassIsComplete
=============================================================================
