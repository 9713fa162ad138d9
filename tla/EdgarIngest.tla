----------------------------- MODULE EdgarIngest -----------------------------
(***************************************************************************)
(* The EDGAR job: target resolution, the staging table and the             *)
(* normalisation of companyfacts payloads into fundamentals                *)
(* (cmd/collector/main.go, internal/pipeline/collector.go,                 *)
(* internal/storage/staging.go, internal/collect/edgar/normalize.go).      *)
(*                                                                         *)
(* A run is one execution of RunEdgarJob: a collector process, or the      *)
(* edgar stage of a force refresh of the API.  One action is one call to   *)
(* SEC or one database transaction.  A payload is abstract: what matters   *)
(* is which concepts a dictionary version reads in it.                     *)
(***************************************************************************)
EXTENDS Naturals, Sequences, FiniteSets, SequencesExt

CONSTANTS Classes,        \* tickers of the SEC catalog; numbers in ticker order
          CIKs,           \* companies; numbers, none of them a class
          CikOf,          \* the company of each class
          Priced,         \* classes with rows in daily_prices
          Barren,         \* companies whose payload has no canonical 10-K fact
          Concepts,       \* canonical concepts
          Produces,       \* dictionary version -> concepts it reads in a payload
          Undated,        \* concepts whose facts come without a fiscal year
          DefaultCompany, \* the target of a run without companies
          Runs,           \* executions of the job
          Args,           \* run -> [fresh, dict, staged, companies]
          PendingLimit,   \* limit of NormalizePending (5 in the code)
          Faults          \* what may fail: "catalog", "lookup", "download", "db", "crash"

Dicts == DOMAIN Produces
Securities == Classes \cup CIKs     \* without catalog the CIK stands for the ticker

ASSUME IngestAssumption ==
    /\ Classes \subseteq Nat /\ CIKs \subseteq Nat /\ Classes \cap CIKs = {}
    /\ CikOf \in [Classes -> CIKs]
    /\ Priced \subseteq Classes
    /\ Barren \subseteq CIKs
    /\ Produces \in [Dicts -> (SUBSET Concepts) \ {{}}]  \* a payload it reads nothing in is Barren
    /\ Undated \subseteq Concepts
    /\ DefaultCompany \in Classes
    /\ Args \in [Runs -> [fresh : BOOLEAN, dict : Dicts, staged : BOOLEAN,
                          companies : Seq(Securities)]]
    /\ PendingLimit \in Nat \ {0}
    /\ Faults \subseteq {"catalog", "lookup", "download", "db", "crash"}

VARIABLES staging,  \* edgar_staging: rows [id, cik, ticker, normalized]
          nextId,   \* its BIGSERIAL
          facts,    \* fundamentals: security -> concept -> dictionaries of its rows
          run       \* the local state of every run

vars == <<staging, nextId, facts, run>>
tables == <<staging, nextId, facts>>

CompanyOf(s) == IF s \in Classes THEN CikOf[s] ELSE s

NoFacts == [c \in Concepts |-> <<>>]
HasFacts(s) == facts[s] # NoFacts

\* ORDER BY: the numbers of a finite set, the least first.
Ascending(S) ==
    CHOOSE f \in [1..Cardinality(S) -> S] :
        \A i, j \in 1..Cardinality(S) : i < j => f[i] < f[j]

\* alone (history): no other run was active while this one was.
Idle == [pc |-> "idle", targets |-> <<>>, at |-> 1, catalog |-> FALSE, sec |-> DefaultCompany,
         queue |-> <<>>, failed |-> FALSE, succeeded |-> {}, alone |-> TRUE]

\* A call succeeds, or may fail.
Outcomes(fault) == IF fault \in Faults THEN BOOLEAN ELSE {TRUE}

Active(r) == run[r].pc \notin {"idle", "ended", "dead"}
Target(r) == run[r].targets[run[r].at]

Init == /\ staging = {}
        /\ nextId = 1
        /\ facts = [s \in Securities |-> NoFacts]
        /\ run = [r \in Runs |-> Idle]

-----------------------------------------------------------------------------
(* What a run does next.                                                   *)

\* The target is over: the loop of runEdgarJobWithClient goes on, or ends.
AfterTarget(r, ok) ==
    [run[r] EXCEPT !.pc = IF run[r].at = Len(run[r].targets) THEN "ended" ELSE "resolve",
                   !.at = @ + 1,
                   !.queue = <<>>,
                   !.failed = FALSE,
                   !.succeeded = IF ok THEN @ \cup {run[r].at} ELSE @]

\* A staging row is over: NormalizePending goes on with the next and keeps the
\* first error; NormalizeStaging of the own row is a batch of one.
AfterRow(r, ok) ==
    IF Tail(run[r].queue) = <<>>
    THEN AfterTarget(r, ok /\ ~run[r].failed)
    ELSE [run[r] EXCEPT !.pc = "load",
                        !.queue = Tail(@),
                        !.failed = @ \/ ~ok]

\* The universe selector -universe staged.
StagedUniverse == {row.cik : row \in {s \in staging : s.normalized}}

-----------------------------------------------------------------------------
(* Resolution of targets and classes.                                      *)

\* Lower is better: prices, then fundamentals, then nothing.
ClassLevel(s) == IF s \in Priced THEN 0 ELSE IF HasFacts(s) THEN 1 ELSE 2

\* Mutant: the fundamentals are looked at before the prices.
FundamentalsFirst(candidates, lookup) ==
    LET level(s) == IF ~lookup THEN 2
                    ELSE IF HasFacts(s) THEN 0 ELSE IF s \in Priced THEN 1 ELSE 2
    IN  CHOOSE s \in candidates : \A t \in candidates :
            level(s) < level(t) \/ (level(s) = level(t) /\ s <= t)

\* Without lookup every class is at the same level.
PreferredClass(candidates, lookup) ==
    LET level(s) == IF lookup THEN ClassLevel(s) ELSE 2
    IN  CHOOSE s \in candidates : \A t \in candidates :
            level(s) < level(t) \/ (level(s) = level(t) /\ s <= t)

Candidates(target) == IF target \in CIKs
                      THEN {s \in Classes : CikOf[s] = target}
                      ELSE {target}

\* main resolves the targets; runEdgarJobWithClient applies the default to an
\* empty list and asks SEC for the catalog, without which it goes on.
Begin(r) ==
    /\ run[r].pc = "idle"
    /\ \E catalog \in Outcomes("catalog") :
          LET named == IF Args[r].staged THEN Ascending(StagedUniverse)
                       ELSE Args[r].companies
              others == {q \in Runs \ {r} : Active(q)}
          IN  run' = [q \in Runs |->
                 IF q = r THEN [run[r] EXCEPT !.pc = "resolve",
                                              !.catalog = catalog,
                                              !.targets = IF named = <<>> THEN <<DefaultCompany>>
                                                          ELSE named,
                                              !.alone = others = {}]
                 ELSE [run[q] EXCEPT !.alone = @ /\ q \notin others]]
    /\ UNCHANGED tables

\* A ticker needs the catalog; a CIK without catalog is its own ticker.
Resolve(r) ==
    /\ run[r].pc = "resolve"
    /\ \/ /\ Target(r) \in Classes /\ ~run[r].catalog
          /\ run' = [run EXCEPT ![r] = AfterTarget(r, FALSE)]
       \/ /\ Target(r) \in CIKs \/ run[r].catalog
          /\ \E lookup \in Outcomes("lookup") :
                LET candidates == IF run[r].catalog THEN Candidates(Target(r)) ELSE {}
                IN  run' = [run EXCEPT
                       ![r].sec = IF candidates = {} THEN Target(r)
                                  ELSE PreferredClass(candidates, lookup),
                       ![r].pc = IF Args[r].fresh THEN "reset" ELSE "download"]
    /\ UNCHANGED tables

-----------------------------------------------------------------------------
(* Staging.                                                                *)

\* Mutant: only the pending rows are deleted.
ResetPendingOnly(r) ==
    /\ run[r].pc = "reset"
    /\ staging' = {row \in staging : row.cik # CompanyOf(run[r].sec) \/ row.normalized}
    /\ run' = [run EXCEPT ![r].pc = "download"]
    /\ UNCHANGED <<nextId, facts>>

\* ingestCompanyFresh: DeleteStagingByCIK, pending or not.
Reset(r) ==
    /\ run[r].pc = "reset"
    /\ staging' = {row \in staging : row.cik # CompanyOf(run[r].sec)}
    /\ run' = [run EXCEPT ![r].pc = "download"]
    /\ UNCHANGED <<nextId, facts>>

\* GetCompanyFacts, with its retries.
Download(r) ==
    /\ run[r].pc = "download"
    /\ \E ok \in Outcomes("download") :
          run' = [run EXCEPT ![r] = IF ok THEN [@ EXCEPT !.pc = "insert"]
                                    ELSE AfterTarget(r, FALSE)]
    /\ UNCHANGED tables

\* Mutant: the insert has no ON CONFLICT.
InsertAlways(r) ==
    /\ run[r].pc = "insert"
    /\ staging' = staging \cup {[id |-> nextId, cik |-> CompanyOf(run[r].sec),
                                 ticker |-> run[r].sec, normalized |-> FALSE]}
    /\ nextId' = nextId + 1
    /\ run' = [run EXCEPT ![r].pc = "load", ![r].queue = <<nextId>>]
    /\ UNCHANGED facts

\* InsertStaging: ON CONFLICT DO NOTHING on the pseudo-accession of the CIK.
Insert(r) ==
    /\ run[r].pc = "insert"
    /\ LET cik == CompanyOf(run[r].sec)
       IN  IF \E row \in staging : row.cik = cik
           THEN /\ run' = [run EXCEPT ![r].pc = "list"]
                /\ UNCHANGED <<staging, nextId>>
           ELSE /\ staging' = staging \cup {[id |-> nextId, cik |-> cik,
                                             ticker |-> run[r].sec, normalized |-> FALSE]}
                /\ nextId' = nextId + 1
                /\ run' = [run EXCEPT ![r].pc = "load", ![r].queue = <<nextId>>]
    /\ UNCHANGED facts

\* Mutant: the pending rows are not reprocessed.
ListNothing(r) ==
    /\ run[r].pc = "list"
    /\ run' = [run EXCEPT ![r] = AfterTarget(r, TRUE)]
    /\ UNCHANGED tables

\* NormalizePending: the oldest pending rows, of any company.
ListPending(r) ==
    /\ run[r].pc = "list"
    /\ LET ids == Ascending({row.id : row \in {s \in staging : ~s.normalized}})
           batch == SubSeq(ids, 1, IF Len(ids) < PendingLimit THEN Len(ids) ELSE PendingLimit)
       IN  run' = [run EXCEPT ![r] = IF batch = <<>> THEN AfterTarget(r, TRUE)
                                     ELSE [@ EXCEPT !.pc = "load", !.queue = batch]]
    /\ UNCHANGED tables

-----------------------------------------------------------------------------
(* NormalizeStaging: a read, then one transaction.                         *)

\* GetStagingByID and the canonicalisation in memory.
Load(r) ==
    /\ run[r].pc = "load"
    /\ \/ \E row \in staging :
             /\ row.id = Head(run[r].queue)
             /\ row.cik \notin Barren
             /\ run' = [run EXCEPT ![r].pc = "write", ![r].sec = row.ticker]
       \/ /\ ~\E row \in staging : row.id = Head(run[r].queue) /\ row.cik \notin Barren
          /\ run' = [run EXCEPT ![r] = AfterRow(r, FALSE)]
    /\ UNCHANGED tables

\* UpsertFundamentals.  The unique key holds a nullable fiscal_year, and NULLs
\* are distinct: a fact without fiscal year never conflicts with its own row.
Upserted(old, dict) ==
    [c \in Concepts |-> IF c \notin Produces[dict] THEN old[c]
                        ELSE IF c \in Undated THEN Append(old[c], dict)
                        ELSE <<dict>>]

\* Mutant: the row is marked by company and not by id.
WriteByCompany(r) ==
    /\ run[r].pc = "write"
    /\ LET mine == {row \in staging : row.cik = CompanyOf(run[r].sec)}
       IN  IF mine = {}
           THEN /\ run' = [run EXCEPT ![r] = AfterRow(r, FALSE)]
                /\ UNCHANGED <<staging, facts>>
           ELSE /\ staging' = (staging \ mine) \cup {[row EXCEPT !.normalized = TRUE] : row \in mine}
                /\ facts' = [facts EXCEPT ![run[r].sec] = Upserted(@, Args[r].dict)]
                /\ run' = [run EXCEPT ![r] = AfterRow(r, TRUE)]
    /\ UNCHANGED nextId

\* The transaction: fundamentals and the mark commit together.  When the row is
\* gone MarkStagingNormalized fails and everything rolls back.
Write(r) ==
    /\ run[r].pc = "write"
    /\ LET mine == {row \in staging : row.id = Head(run[r].queue)}
       IN  IF mine = {}
           THEN /\ run' = [run EXCEPT ![r] = AfterRow(r, FALSE)]
                /\ UNCHANGED <<staging, facts>>
           ELSE /\ staging' = (staging \ mine) \cup {[row EXCEPT !.normalized = TRUE] : row \in mine}
                /\ facts' = [facts EXCEPT ![run[r].sec] = Upserted(@, Args[r].dict)]
                /\ run' = [run EXCEPT ![r] = AfterRow(r, TRUE)]
    /\ UNCHANGED nextId

-----------------------------------------------------------------------------
\* The database refuses a statement (also: the context of the run is over).
DatabaseFails(r) ==
    /\ "db" \in Faults
    /\ \/ /\ run[r].pc \in {"reset", "insert", "list"}
          /\ run' = [run EXCEPT ![r] = AfterTarget(r, FALSE)]
       \/ /\ run[r].pc \in {"load", "write"}
          /\ run' = [run EXCEPT ![r] = AfterRow(r, FALSE)]
    /\ UNCHANGED tables

\* The process dies; an open transaction rolls back.
Crash(r) ==
    /\ "crash" \in Faults
    /\ Active(r)
    /\ run' = [run EXCEPT ![r].pc = "dead"]
    /\ UNCHANGED tables

RunStep(r) ==
    \/ Resolve(r) \/ Reset(r) \/ Download(r) \/ Insert(r)
    \/ ListPending(r) \/ Load(r) \/ Write(r)
    \/ DatabaseFails(r) \/ Crash(r)

Next == \E r \in Runs : Begin(r) \/ RunStep(r)

Spec == Init /\ [][Next]_vars

-----------------------------------------------------------------------------
(* Properties.                                                             *)

\* The types of the variables; at most one staging row per company.
TypeOK ==
    /\ \A row \in staging :
          /\ row \in [id : 1..(nextId - 1), cik : CIKs, ticker : Securities, normalized : BOOLEAN]
          /\ \A other \in staging : other.cik = row.cik => other = row
    /\ nextId \in Nat \ {0}
    /\ facts \in [Securities -> [Concepts -> Seq(Dicts)]]
    /\ \A r \in Runs :
          /\ run[r].pc \in {"idle", "resolve", "reset", "download", "insert", "list",
                            "load", "write", "ended", "dead"}
          /\ run[r].targets \in Seq(Securities)
          /\ run[r].at \in 1..(Len(run[r].targets) + 1)
          /\ run[r].catalog \in BOOLEAN
          /\ run[r].sec \in Securities
          /\ run[r].queue \in Seq(1..(nextId - 1))
          /\ run[r].failed \in BOOLEAN
          /\ run[r].succeeded \subseteq 1..(run[r].at - 1)
          /\ run[r].alone \in BOOLEAN

\* A row marked normalized has its facts, under the ticker the row carries,
\* whatever runs delete, insert and normalise at the same time: the mark commits
\* with the facts or not at all (NormalizeStaging).
NormalizedHasFacts == \A row \in staging : row.normalized => HasFacts(row.ticker)

\* Rows of the next state whose facts are written and that were staged before a row.
WrittenBefore(row) == {s.id : s \in {t \in staging' : t.normalized /\ t.id < row.id}}

\* A company that a run which was alone counts as ingested has facts then, on
\* whichever path it succeeded: own row, row of an earlier run left pending by a
\* crash, or nothing pending.  NormalizePending takes the oldest rows of any
\* company, so one case is left: the row of the company still waits, behind a
\* full batch of older rows, and every row of that batch has its facts.
SuccessIsIngested ==
    [][ \A r \in Runs : run[r].alone /\ run'[r].succeeded # run[r].succeeded =>
          LET company == CompanyOf(Target(r))
          IN  \/ \E s \in Securities : CompanyOf(s) = company /\ facts'[s] # NoFacts
              \/ \E row \in staging' : /\ row.cik = company /\ ~row.normalized
                                       /\ Cardinality(WrittenBefore(row)) >= PendingLimit ]_vars

\* A fresh run that was alone and counts a company as ingested leaves every
\* concept of its dictionary rewritten with that dictionary (RunEdgarJobFresh).
FreshIsFresh ==
    [][ \A r \in Runs : Args[r].fresh /\ run[r].alone /\ run'[r].succeeded # run[r].succeeded =>
          \A c \in Produces[Args[r].dict] :
              /\ facts'[run[r].sec][c] # <<>>
              /\ Last(facts'[run[r].sec][c]) = Args[r].dict ]_vars

\* A fresh run by CIK that was alone leaves the company with fundamentals under a class that
\* has prices, if there is one: a company has a score only when both meet
\* (resolveCompany: deterministic, with continuity).
FactsMeetPrices ==
    \A r \in Runs : \A i \in run[r].succeeded :
        LET priced == {s \in Priced : CikOf[s] = run[r].targets[i]}
        IN  Args[r].fresh /\ run[r].alone /\ priced # {} => \E s \in priced : HasFacts(s)

\* What the doc of StagedNormalizedCIKsSQL says: the universe is exactly the
\* companies whose fundamentals the canonicalizer wrote.
UniverseIsIngested ==
    (\A r \in Runs : ~Active(r)) =>
        StagedUniverse = {CompanyOf(s) : s \in {t \in Securities : HasFacts(t)}}
=============================================================================
