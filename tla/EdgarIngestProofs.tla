--------------------------- MODULE EdgarIngestProofs ---------------------------
(***************************************************************************)
(* What holds of the ingestion job for every catalog, every number of runs *)
(* and every fault that the model knows.                                   *)
(***************************************************************************)
EXTENDS EdgarIngest, FiniteSetTheorems, FunctionTheorems, SequenceTheorems,
        WellFoundedInduction, TLAPS

Busy == {"resolve", "reset", "download", "insert", "list", "load", "write"}
Pcs == Busy \cup {"idle", "ended", "dead"}
StagingRows == [id : Nat \ {0}, cik : CIKs, ticker : Securities, normalized : BOOLEAN]
RunStates == [pc : Pcs, targets : Seq(Securities), at : Nat, catalog : BOOLEAN,
              sec : Securities, queue : Seq(Nat), failed : BOOLEAN,
              succeeded : SUBSET Nat, alone : BOOLEAN]

\* A run is inside its list of targets, and has a row to process when it processes one.
OnCourse(v) == /\ v.at \in 1..(Len(v.targets) + 1)
               /\ v.pc \in Busy => v.at <= Len(v.targets)
               /\ v.pc \in {"load", "write"} => v.queue # <<>>
               /\ v.pc = "idle" => v.at = 1 /\ v.queue = <<>>
               /\ v.succeeded \subseteq 1..(v.at - 1)

\* The serial has given out these numbers.
Issued(queue, n) == \A i \in DOMAIN queue : queue[i] \in 1..(n - 1)

Typed ==
    /\ staging \in SUBSET StagingRows /\ IsFiniteSet(staging)
    /\ \A row \in staging : row.id < nextId /\ row.cik = CompanyOf(row.ticker)
    /\ \A row, other \in staging : row.cik = other.cik \/ row.id = other.id => row = other
    /\ nextId \in Nat \ {0}
    /\ facts \in [Securities -> [Concepts -> Seq(Dicts)]]
    /\ run \in [Runs -> RunStates]
    /\ \A r \in Runs : OnCourse(run[r]) /\ Issued(run[r].queue, nextId)

-----------------------------------------------------------------------------
(* ORDER BY: a finite set of numbers has an ascending enumeration.         *)

LEMMA LeastOf ==
    ASSUME NEW T \in SUBSET Nat, T # {}
    PROVE  \E x \in T : \A y \in T : x <= y
  <1>1. PICK x \in T : \A y \in T : ~(<<y, x>> \in OpToRel(<, Nat))
    BY WFMin, NatLessThanWellFounded
  <1>2. \A y \in T : ~(y < x)
    BY <1>1 DEF OpToRel
  <1> QED
    BY <1>2

Increasing(f, n) == \A i, j \in 1..n : i < j => f[i] < f[j]

\* One element more at the front: the least one.
LEMMA LeastFirst ==
    ASSUME NEW S \in SUBSET Nat, IsFiniteSet(S), NEW n \in Nat, Cardinality(S) = n + 1,
           \A R \in SUBSET Nat : IsFiniteSet(R) /\ Cardinality(R) = n
               => \E g \in [1..n -> R] : Increasing(g, n)
    PROVE  \E f \in [1..(n + 1) -> S] : Increasing(f, n + 1)
  <1>1. S # {}
    BY FS_EmptySet
  <1>2. PICK x \in S : \A y \in S : x <= y
    BY <1>1, LeastOf
  <1>3. IsFiniteSet(S \ {x}) /\ Cardinality(S \ {x}) = n
    BY FS_RemoveElement
  <1>4. PICK g \in [1..n -> S \ {x}] : Increasing(g, n)
    BY <1>3
  <1> DEFINE f == [i \in 1..(n + 1) |-> IF i = 1 THEN x ELSE g[i - 1]]
  <1>5. \A i \in 1..n : g[i] \in S /\ x < g[i]
    <2>1. \A i \in 1..n : g[i] \in S /\ g[i] # x
      BY <1>4
    <2>2. \A y \in S : y # x => x < y
      BY <1>2
    <2> QED
      BY <2>1, <2>2
  <1>6. \A i \in 1..(n + 1) : i # 1 => i - 1 \in 1..n
    OBVIOUS
  <1>7. f \in [1..(n + 1) -> S]
    BY <1>5, <1>6
  <1>8. ASSUME NEW i \in 1..(n + 1), NEW j \in 1..(n + 1), i < j PROVE f[i] < f[j]
    <2>1. j # 1 /\ f[j] = g[j - 1]
      BY <1>8
    <2>2. CASE i = 1
      BY <1>5, <1>6, <2>1, <2>2
    <2>3. CASE i # 1
      <3>1. f[i] = g[i - 1] /\ i - 1 \in 1..n /\ j - 1 \in 1..n /\ i - 1 < j - 1
        BY <1>6, <1>8, <2>1, <2>3
      <3> QED
        BY <1>4, <2>1, <3>1 DEF Increasing
    <2> QED
      BY <2>2, <2>3
  <1> QED
    BY <1>7, <1>8 DEF Increasing

LEMMA AscendingExists ==
    ASSUME NEW S \in SUBSET Nat, IsFiniteSet(S)
    PROVE  \E f \in [1..Cardinality(S) -> S] : Increasing(f, Cardinality(S))
  <1> DEFINE Ordered(n) == \A R \in SUBSET Nat : IsFiniteSet(R) /\ Cardinality(R) = n
                              => \E g \in [1..n -> R] : Increasing(g, n)
             Bad == {n \in Nat : ~Ordered(n)}
  <1>1. Ordered(0)
    <2>1. ASSUME NEW R \in SUBSET Nat PROVE \E g \in [1..0 -> R] : Increasing(g, 0)
      <3>1. [i \in 1..0 |-> i] \in [1..0 -> R]
        OBVIOUS
      <3>2. Increasing([i \in 1..0 |-> i], 0)
        BY DEF Increasing
      <3> QED
        BY <3>1, <3>2
    <2> QED
      BY <2>1
  <1>2. ASSUME NEW n \in Nat, Ordered(n) PROVE Ordered(n + 1)
    BY <1>2, LeastFirst
  <1>3. Bad = {}
    <2>1. SUFFICES ASSUME Bad # {} PROVE FALSE
      OBVIOUS
    <2>2. PICK n \in Bad : \A m \in Bad : n <= m
      BY <2>1, LeastOf
    <2>3. n # 0
      BY <1>1
    <2>4. n - 1 \in Nat /\ n - 1 \notin Bad
      BY <2>2, <2>3
    <2>5. Ordered(n - 1)
      BY <2>4
    <2>6. Ordered((n - 1) + 1)
      BY <1>2, <2>4, <2>5
    <2>7. (n - 1) + 1 = n
      OBVIOUS
    <2> QED
      BY <2>6, <2>7
  <1>4. Cardinality(S) \in Nat
    BY FS_CardinalityType
  <1>5. Ordered(Cardinality(S))
    BY <1>3, <1>4
  <1> QED
    BY <1>5

\* It has every element, each one once.
LEMMA AscendingIs ==
    ASSUME NEW S \in SUBSET Nat, IsFiniteSet(S)
    PROVE  /\ Ascending(S) \in Seq(S) /\ Len(Ascending(S)) = Cardinality(S)
           /\ \A x \in S : \E i \in 1..Len(Ascending(S)) : Ascending(S)[i] = x
           /\ Increasing(Ascending(S), Cardinality(S))
  <1> DEFINE n == Cardinality(S)
             f == Ascending(S)
  <1>1. n \in Nat
    BY FS_CardinalityType
  <1>2. f \in [1..n -> S] /\ Increasing(f, n)
    BY AscendingExists DEF Ascending, Increasing
  <1> HIDE DEF n, f
  <1>3. f \in Injection(1..n, S)
    <2>1. \A i, j \in 1..n : f[i] = f[j] => i = j
      <3>1. \A i \in 1..n : f[i] \in Nat
        BY <1>2
      <3> QED
        BY <1>1, <1>2, <3>1 DEF Increasing
    <2> QED
      BY <1>2, <2>1 DEF Injection, IsInjective
  <1>4. IsFiniteSet(1..n) /\ Cardinality(1..n) = n
    BY <1>1, FS_Interval
  <1>5. f \in Surjection(1..n, S)
    BY <1>3, <1>4, FS_Injection DEF n
  <1>6. \A x \in S : \E i \in 1..n : f[i] = x
    BY <1>5 DEF Surjection
  <1>7. f \in Seq(S) /\ Len(f) = n
    BY <1>1, <1>2
  <1> QED
    BY <1>2, <1>6, <1>7 DEF n, f

-----------------------------------------------------------------------------
(* The walk of a run.                                                      *)

LEMMA QueueTail ==
    ASSUME NEW q \in Seq(Nat), q # <<>>
    PROVE  /\ Head(q) = q[1] /\ 1 \in DOMAIN q
           /\ Tail(q) \in Seq(Nat)
           /\ \A i \in DOMAIN Tail(q) : i + 1 \in DOMAIN q /\ Tail(q)[i] = q[i + 1]
           /\ \A i \in DOMAIN q : i = 1 \/ (i - 1 \in DOMAIN Tail(q) /\ Tail(q)[i - 1] = q[i])
           /\ \A n : Issued(q, n) => Issued(Tail(q), n)
           /\ Tail(q) = <<>> => DOMAIN q = {1}
  <1>1. Tail(q) \in Seq(Nat) /\ Len(Tail(q)) = Len(q) - 1 /\ Len(q) \in Nat \ {0}
        /\ \A i \in 1..Len(Tail(q)) : Tail(q)[i] = q[i + 1]
    BY HeadTailProperties
  <1>2. DOMAIN q = 1..Len(q) /\ DOMAIN Tail(q) = 1..(Len(q) - 1)
    BY <1>1
  <1>3. \A i \in DOMAIN Tail(q) : i + 1 \in DOMAIN q /\ Tail(q)[i] = q[i + 1]
    BY <1>1, <1>2
  <1>4. \A i \in DOMAIN q : i = 1 \/ (i - 1 \in DOMAIN Tail(q) /\ Tail(q)[i - 1] = q[i])
    BY <1>1, <1>2
  <1>5. Tail(q) = <<>> => DOMAIN q = {1}
    <2>1. Tail(q) = <<>> => Len(Tail(q)) = 0
      BY <1>1, EmptySeq
    <2>2. Tail(q) = <<>> => Len(q) = 1
      BY <1>1, <2>1
    <2> QED
      BY <1>2, <2>2
  <1>6. Head(q) = q[1] /\ 1 \in DOMAIN q
    BY <1>1, <1>2
  <1>7. \A n : Issued(q, n) => Issued(Tail(q), n)
    BY <1>3 DEF Issued
  <1> QED
    BY <1>1, <1>3, <1>4, <1>5, <1>6, <1>7

LEMMA RunIs ==
    ASSUME Typed, NEW r \in Runs
    PROVE  /\ run[r] \in RunStates /\ OnCourse(run[r]) /\ Issued(run[r].queue, nextId)
           /\ Active(r) <=> run[r].pc \in Busy
           /\ run[r].pc \in Busy => /\ run[r].at \in DOMAIN run[r].targets
                                    /\ Target(r) \in Securities
  <1>1. run[r] \in RunStates /\ OnCourse(run[r]) /\ Issued(run[r].queue, nextId)
    BY DEF Typed
  <1>2. Active(r) <=> run[r].pc \in Busy
    BY <1>1 DEF Active, RunStates, Pcs, Busy
  <1>3. run[r].targets \in Seq(Securities) /\ run[r].at \in Nat
    BY <1>1 DEF RunStates
  <1>4. run[r].pc \in Busy => run[r].at \in DOMAIN run[r].targets
    BY <1>1, <1>3 DEF OnCourse
  <1> QED
    BY <1>1, <1>2, <1>3, <1>4 DEF Target

\* What is left of a run when its target is over.
Over(old, v, ok) ==
    /\ v.pc \in {"ended", "resolve"} /\ v.targets = old.targets /\ v.at = old.at + 1
    /\ v.catalog = old.catalog /\ v.sec = old.sec /\ v.queue = <<>> /\ v.failed = FALSE
    /\ v.succeeded = IF ok THEN old.succeeded \cup {old.at} ELSE old.succeeded
    /\ v.alone = old.alone

\* And when it goes on with the next row.
Onward(old, v, ok) ==
    /\ Tail(old.queue) # <<>>
    /\ v.pc = "load" /\ v.targets = old.targets /\ v.at = old.at
    /\ v.catalog = old.catalog /\ v.sec = old.sec /\ v.queue = Tail(old.queue)
    /\ v.failed = (old.failed \/ ~ok) /\ v.succeeded = old.succeeded
    /\ v.alone = old.alone

LEMMA AfterTargetIs ==
    ASSUME Typed, NEW r \in Runs, run[r].pc \in Busy, NEW ok \in BOOLEAN
    PROVE  /\ AfterTarget(r, ok) \in RunStates /\ OnCourse(AfterTarget(r, ok))
           /\ Issued(AfterTarget(r, ok).queue, nextId)
           /\ Over(run[r], AfterTarget(r, ok), ok)
  <1> DEFINE old == run[r]
             pc == IF old.at = Len(old.targets) THEN "ended" ELSE "resolve"
             done == IF ok THEN old.succeeded \cup {old.at} ELSE old.succeeded
             v == AfterTarget(r, ok)
  <1>1. old \in RunStates /\ OnCourse(old) /\ old.at <= Len(old.targets)
    BY RunIs DEF OnCourse
  <1>2. /\ old.at \in Nat \ {0} /\ Len(old.targets) \in Nat
        /\ old.succeeded \subseteq 1..(old.at - 1)
    BY <1>1 DEF OnCourse, RunStates
  <1>3. v = [old EXCEPT !.pc = pc, !.at = old.at + 1, !.queue = <<>>, !.failed = FALSE,
                        !.succeeded = done]
    BY <1>1 DEF AfterTarget, RunStates
  <1>4. pc \in Pcs /\ pc \in {"ended", "resolve"} /\ done \in SUBSET Nat
        /\ done \subseteq 1..old.at
    BY <1>2 DEF Pcs, Busy
  <1> HIDE DEF pc, done
  <1>5. v \in RunStates
    <2>1. old.at + 1 \in Nat /\ <<>> \in Seq(Nat)
      BY <1>2
    <2> QED
      BY <1>1, <1>3, <1>4, <2>1 DEF RunStates
  <1>6. /\ v.pc = pc /\ v.targets = old.targets /\ v.at = old.at + 1
        /\ v.catalog = old.catalog /\ v.sec = old.sec /\ v.queue = <<>> /\ v.failed = FALSE
        /\ v.succeeded = done /\ v.alone = old.alone
    BY <1>1, <1>3 DEF RunStates
  <1> HIDE DEF v
  <1>7. Over(old, v, ok)
    BY <1>4, <1>6 DEF Over, done
  <1>8. OnCourse(v)
    <2>1. pc = "resolve" => old.at + 1 <= Len(old.targets)
      BY <1>1, <1>2 DEF pc
    <2> QED
      BY <1>1, <1>2, <1>4, <1>6, <2>1 DEF OnCourse, Busy
  <1>9. Issued(v.queue, nextId)
    BY <1>6 DEF Issued
  <1> QED
    BY <1>5, <1>7, <1>8, <1>9 DEF v, old

LEMMA AfterRowIs ==
    ASSUME Typed, NEW r \in Runs, run[r].pc \in {"load", "write"}, NEW ok \in BOOLEAN
    PROVE  /\ AfterRow(r, ok) \in RunStates /\ OnCourse(AfterRow(r, ok))
           /\ Issued(AfterRow(r, ok).queue, nextId)
           /\ \/ /\ Tail(run[r].queue) = <<>>
                 /\ Over(run[r], AfterRow(r, ok), ok /\ ~run[r].failed)
              \/ Onward(run[r], AfterRow(r, ok), ok)
  <1> DEFINE old == run[r]
             v == AfterRow(r, ok)
  <1>1. /\ old \in RunStates /\ OnCourse(old) /\ Issued(old.queue, nextId)
        /\ old.queue # <<>> /\ old.pc \in Busy
    BY RunIs DEF OnCourse, Busy
  <1>2. /\ old.queue \in Seq(Nat) /\ old.failed \in BOOLEAN /\ "load" \in Pcs /\ "load" \in Busy
    BY <1>1 DEF RunStates, Pcs, Busy
  <1>3. Tail(old.queue) \in Seq(Nat) /\ Issued(Tail(old.queue), nextId)
    BY <1>1, <1>2, QueueTail
  <1>4. CASE Tail(old.queue) = <<>>
    <2>1. v = AfterTarget(r, ok /\ ~old.failed)
      BY <1>4 DEF AfterRow
    <2>2. (ok /\ ~old.failed) \in BOOLEAN
      OBVIOUS
    <2> QED
      BY <1>1, <1>4, <2>1, <2>2, AfterTargetIs
  <1>5. CASE Tail(old.queue) # <<>>
    <2> DEFINE failed == old.failed \/ ~ok
    <2>1. v = [old EXCEPT !.pc = "load", !.queue = Tail(old.queue), !.failed = failed]
      BY <1>1, <1>5 DEF AfterRow, RunStates
    <2>2. failed \in BOOLEAN
      OBVIOUS
    <2> HIDE DEF failed
    <2>3. v \in RunStates
      BY <1>1, <1>2, <1>3, <2>1, <2>2 DEF RunStates
    <2>4. /\ v.pc = "load" /\ v.targets = old.targets /\ v.at = old.at
          /\ v.catalog = old.catalog /\ v.sec = old.sec /\ v.queue = Tail(old.queue)
          /\ v.failed = failed /\ v.succeeded = old.succeeded
          /\ v.alone = old.alone
      BY <1>1, <2>1 DEF RunStates
    <2> HIDE DEF v
    <2>5. Onward(old, v, ok)
      BY <1>5, <2>4 DEF Onward, failed
    <2>6. OnCourse(v)
      BY <1>1, <1>5, <2>4 DEF OnCourse, Busy
    <2> QED
      BY <1>3, <2>3, <2>4, <2>5, <2>6 DEF v
  <1> QED
    BY <1>4, <1>5

\* One run moves, the others stay.
LEMMA OneRunMoves ==
    ASSUME Typed, NEW r \in Runs, NEW v, run' = [run EXCEPT ![r] = v]
    PROVE  /\ run'[r] = v /\ \A q \in Runs \ {r} : run'[q] = run[q]
           /\ v \in RunStates => run' \in [Runs -> RunStates]
  BY DEF Typed

\* A new state of a run, within the tables as they are.
LEMMA RunTyped ==
    ASSUME Typed, NEW r \in Runs, NEW v \in RunStates, OnCourse(v), Issued(v.queue, nextId),
           run' = [run EXCEPT ![r] = v], UNCHANGED tables
    PROVE  Typed'
  <1>1. /\ run'[r] = v /\ \A q \in Runs \ {r} : run'[q] = run[q]
        /\ run' \in [Runs -> RunStates]
    BY OneRunMoves
  <1>2. \A q \in Runs : OnCourse(run'[q]) /\ Issued(run'[q].queue, nextId)
    BY <1>1 DEF Typed
  <1>3. staging' = staging /\ nextId' = nextId /\ facts' = facts
    BY DEF tables
  <1> QED
    BY <1>1, <1>2, <1>3 DEF Typed, OnCourse, Issued, CompanyOf

-----------------------------------------------------------------------------
(* Typed is inductive.                                                     *)

LEMMA TypedInit == Init => Typed
  <1> SUFFICES ASSUME Init PROVE Typed
    OBVIOUS
  <1>1. Idle \in RunStates /\ Idle.queue = <<>> /\ Idle.pc = "idle" /\ Idle.at = 1
        /\ Idle.targets = <<>> /\ Idle.succeeded = {}
    BY IngestAssumption DEF Idle, RunStates, Pcs, Securities
  <1>2. OnCourse(Idle)
    BY <1>1, EmptySeq DEF OnCourse, Busy
  <1>3. Issued(Idle.queue, nextId)
    BY <1>1 DEF Issued
  <1>4. run \in [Runs -> RunStates] /\ \A r \in Runs : OnCourse(run[r]) /\ Issued(run[r].queue, nextId)
    BY <1>1, <1>2, <1>3 DEF Init
  <1>5. facts \in [Securities -> [Concepts -> Seq(Dicts)]]
    BY DEF Init, NoFacts
  <1> QED
    BY <1>4, <1>5, FS_EmptySet DEF Init, Typed

\* The targets of a run: the staged universe, the companies named, or the default.
TargetsOf(r) ==
    LET named == IF Args[r].staged THEN Ascending(StagedUniverse) ELSE Args[r].companies
    IN  IF named = <<>> THEN <<DefaultCompany>> ELSE named

LEMMA TargetsTyped ==
    ASSUME Typed, NEW r \in Runs
    PROVE  TargetsOf(r) \in Seq(Securities) /\ Len(TargetsOf(r)) >= 1
  <1> DEFINE named == IF Args[r].staged THEN Ascending(StagedUniverse) ELSE Args[r].companies
  <1>1. named \in Seq(Securities)
    <2>1. CASE Args[r].staged
      <3>1. StagedUniverse \in SUBSET Nat /\ StagedUniverse \subseteq Securities
        <4>1. \A row \in staging : row.cik \in CIKs
          BY DEF Typed, StagingRows
        <4>2. StagedUniverse \subseteq CIKs
          BY <4>1 DEF StagedUniverse
        <4> QED
          BY <4>2, IngestAssumption DEF Securities
      <3>2. IsFiniteSet(StagedUniverse)
        <4> DEFINE D == {s \in staging : s.normalized}
                   f == [row \in D |-> row.cik]
        <4>1. IsFiniteSet(D)
          BY FS_Subset DEF Typed
        <4>2. StagedUniverse = {row.cik : row \in D}
          BY DEF StagedUniverse
        <4> HIDE DEF D
        <4>3. f \in Surjection(D, {row.cik : row \in D})
          BY DEF Surjection
        <4> QED
          BY <4>1, <4>2, <4>3, FS_Surjection
      <3>3. Ascending(StagedUniverse) \in Seq(StagedUniverse)
        BY <3>1, <3>2, AscendingIs
      <3> QED
        BY <2>1, <3>1, <3>3, SeqMonotonic
    <2>2. CASE ~Args[r].staged
      BY <2>2, IngestAssumption
    <2> QED
      BY <2>1, <2>2
  <1>2. TargetsOf(r) = IF named = <<>> THEN <<DefaultCompany>> ELSE named
    BY DEF TargetsOf
  <1> HIDE DEF named
  <1>3. CASE named = <<>>
    <2>1. DefaultCompany \in Securities
      BY IngestAssumption DEF Securities
    <2>2. TargetsOf(r) = <<DefaultCompany>>
      BY <1>2, <1>3
    <2> QED
      BY <2>1, <2>2
  <1>4. CASE named # <<>>
    <2>1. TargetsOf(r) = named
      BY <1>2, <1>4
    <2>2. Len(named) \in Nat /\ Len(named) # 0
      BY <1>1, <1>4, EmptySeq, LenProperties
    <2> QED
      BY <1>1, <2>1, <2>2
  <1> QED
    BY <1>3, <1>4

\* A run begins; the runs it finds under way are no longer alone.
LEMMA BeginIs ==
    ASSUME Typed, NEW r \in Runs, Begin(r)
    PROVE  /\ run[r].pc = "idle" /\ UNCHANGED tables
           /\ \E catalog \in Outcomes("catalog") :
                 LET others == {q \in Runs \ {r} : Active(q)}
                 IN  run'[r] = [run[r] EXCEPT !.pc = "resolve", !.catalog = catalog,
                                              !.targets = TargetsOf(r), !.alone = (others = {})]
           /\ \A q \in Runs \ {r} :
                 run'[q] = [run[q] EXCEPT !.alone = (run[q].alone /\ ~Active(q))]
           /\ DOMAIN run' = Runs
  <1> DEFINE others == {q \in Runs \ {r} : Active(q)}
  <1>1. PICK catalog \in Outcomes("catalog") :
           run' = [q \in Runs |->
                     IF q = r THEN [run[r] EXCEPT !.pc = "resolve", !.catalog = catalog,
                                                  !.targets = TargetsOf(r), !.alone = (others = {})]
                     ELSE [run[q] EXCEPT !.alone = @ /\ q \notin others]]
    BY DEF Begin, TargetsOf
  <1>2. \A q \in Runs \ {r} :
           [run[q] EXCEPT !.alone = @ /\ q \notin others]
           = [run[q] EXCEPT !.alone = (run[q].alone /\ ~Active(q))]
    <2>1. ASSUME NEW q \in Runs \ {r}
          PROVE  (run[q].alone /\ q \notin others) = (run[q].alone /\ ~Active(q))
      OBVIOUS
    <2>2. \A q \in Runs \ {r} : run[q] \in RunStates
      BY DEF Typed
    <2> HIDE DEF others
    <2> QED
      BY <2>1, <2>2 DEF RunStates
  <1>3. run[r].pc = "idle" /\ UNCHANGED tables
    BY DEF Begin
  <1> HIDE DEF others
  <1> QED
    BY <1>1, <1>2, <1>3 DEF others

LEMMA BeginTyped ==
    ASSUME Typed, NEW r \in Runs, Begin(r)
    PROVE  /\ Typed'
           /\ run'[r].pc = "resolve" /\ run'[r].alone = (\A q \in Runs \ {r} : ~Active(q))
           /\ run'[r].catalog \in Outcomes("catalog")
           /\ run'[r].succeeded = {}
           /\ \A q \in Runs \ {r} :
                 /\ run'[q].pc = run[q].pc /\ run'[q].targets = run[q].targets
                 /\ run'[q].at = run[q].at /\ run'[q].catalog = run[q].catalog
                 /\ run'[q].sec = run[q].sec /\ run'[q].queue = run[q].queue
                 /\ run'[q].failed = run[q].failed /\ run'[q].succeeded = run[q].succeeded
                 /\ run'[q].alone = (run[q].alone /\ ~Active(q))
  <1> DEFINE others == {q \in Runs \ {r} : Active(q)}
  <1>1. PICK catalog \in Outcomes("catalog") :
           run'[r] = [run[r] EXCEPT !.pc = "resolve", !.catalog = catalog,
                                    !.targets = TargetsOf(r), !.alone = (others = {})]
    BY BeginIs
  <1>2. run[r] \in RunStates /\ OnCourse(run[r]) /\ run[r].pc = "idle"
        /\ Issued(run[r].queue, nextId)
    BY RunIs, BeginIs
  <1>3. catalog \in BOOLEAN /\ (others = {}) \in BOOLEAN /\ "resolve" \in Pcs
        /\ TargetsOf(r) \in Seq(Securities) /\ Len(TargetsOf(r)) >= 1
        /\ Len(TargetsOf(r)) \in Nat
    <2>1. TargetsOf(r) \in Seq(Securities) /\ Len(TargetsOf(r)) >= 1
      BY TargetsTyped
    <2>2. Len(TargetsOf(r)) \in Nat
      BY <2>1
    <2>3. catalog \in BOOLEAN
      BY DEF Outcomes
    <2> QED
      BY <2>1, <2>2, <2>3 DEF Pcs, Busy
  <1> DEFINE v == run'[r]
             a == (others = {})
             ts == TargetsOf(r)
  <1>4. a = (\A q \in Runs \ {r} : ~Active(q))
    OBVIOUS
  <1> HIDE DEF others, a, ts
  <1>5. v = [run[r] EXCEPT !.pc = "resolve", !.catalog = catalog, !.targets = ts, !.alone = a]
    BY <1>1 DEF a, ts
  <1>6. a \in BOOLEAN /\ ts \in Seq(Securities) /\ Len(ts) >= 1 /\ Len(ts) \in Nat
    BY <1>3 DEF a, ts
  <1> HIDE DEF v
  <1>7. v \in RunStates
    BY <1>2, <1>3, <1>5, <1>6 DEF RunStates
  <1>8. /\ v.pc = "resolve" /\ v.targets = ts /\ v.at = 1 /\ v.queue = <<>>
        /\ v.alone = a /\ v.catalog = catalog /\ v.succeeded = run[r].succeeded
    BY <1>2, <1>5 DEF RunStates, OnCourse
  <1>9. v.succeeded = {}
    BY <1>2, <1>8 DEF OnCourse
  <1>10. OnCourse(v) /\ Issued(v.queue, nextId)
    BY <1>6, <1>8, <1>9 DEF OnCourse, Issued
  <1>11. \A q \in Runs \ {r} :
            /\ run'[q] \in RunStates
            /\ run'[q].pc = run[q].pc /\ run'[q].targets = run[q].targets
            /\ run'[q].at = run[q].at /\ run'[q].catalog = run[q].catalog
            /\ run'[q].sec = run[q].sec /\ run'[q].queue = run[q].queue
            /\ run'[q].failed = run[q].failed /\ run'[q].succeeded = run[q].succeeded
            /\ run'[q].alone = (run[q].alone /\ ~Active(q))
    <2> TAKE q \in Runs \ {r}
    <2> DEFINE b == run[q].alone /\ ~Active(q)
    <2>1. run[q] \in RunStates /\ b \in BOOLEAN
      BY DEF Typed
    <2>2. run'[q] = [run[q] EXCEPT !.alone = b]
      BY BeginIs
    <2> HIDE DEF b
    <2>3. /\ run'[q] \in RunStates
          /\ run'[q].pc = run[q].pc /\ run'[q].targets = run[q].targets
          /\ run'[q].at = run[q].at /\ run'[q].catalog = run[q].catalog
          /\ run'[q].sec = run[q].sec /\ run'[q].queue = run[q].queue
          /\ run'[q].failed = run[q].failed /\ run'[q].succeeded = run[q].succeeded
          /\ run'[q].alone = b
      BY <2>1, <2>2 DEF RunStates
    <2> QED
      BY <2>3 DEF b
  <1>12. \A q \in Runs \ {r} : OnCourse(run'[q]) /\ Issued(run'[q].queue, nextId)
    BY <1>11 DEF Typed, OnCourse
  <1>13. run' \in [Runs -> RunStates]
    <2>1. \A q \in Runs : run'[q] \in RunStates
      BY <1>7, <1>11 DEF v
    <2>2. PICK c : run' = [q \in Runs |-> c[q]]
      BY DEF Begin
    <2> QED
      BY <2>1, <2>2
  <1>14. staging' = staging /\ nextId' = nextId /\ facts' = facts
    BY BeginIs DEF tables
  <1>15. Typed'
    BY <1>10, <1>12, <1>13, <1>14 DEF Typed, v, OnCourse, Issued, CompanyOf
  <1> QED
    BY <1>4, <1>8, <1>9, <1>11, <1>15 DEF v

\* A candidate with the least level, and of these the first by ticker.
LEMMA PreferredIs ==
    ASSUME NEW candidates \in SUBSET Classes, candidates # {}, NEW lookup \in BOOLEAN
    PROVE  /\ PreferredClass(candidates, lookup) \in candidates
           /\ lookup /\ candidates \cap Priced # {} =>
                  PreferredClass(candidates, lookup) \in Priced
  <1> DEFINE level(s) == IF lookup THEN ClassLevel(s) ELSE 2
             levels == {l \in 0..2 : \E s \in candidates : level(s) = l}
             Best(s) == \A t \in candidates :
                           level(s) < level(t) \/ (level(s) = level(t) /\ s <= t)
  <1>1. \A s \in candidates : level(s) \in 0..2 /\ s \in Nat
    BY IngestAssumption DEF ClassLevel
  <1>2. PreferredClass(candidates, lookup) = CHOOSE s \in candidates : Best(s)
    BY DEF PreferredClass
  <1>3. \A s \in candidates : lookup /\ s \in Priced <=> level(s) = 0
    BY DEF ClassLevel
  <1> HIDE DEF level
  <1>4. PICK l \in levels : \A k \in levels : l <= k
    <2>1. levels # {} /\ levels \in SUBSET Nat
      BY <1>1
    <2> QED
      BY <2>1, LeastOf
  <1> DEFINE T == {s \in candidates : level(s) = l}
  <1>5. T # {} /\ T \in SUBSET Nat
    BY <1>1, <1>4
  <1>6. PICK s \in T : \A t \in T : s <= t
    BY <1>5, LeastOf
  <1>7. Best(s)
    <2>1. ASSUME NEW t \in candidates
          PROVE  level(s) < level(t) \/ (level(s) = level(t) /\ s <= t)
      <3>1. level(t) \in levels /\ l <= level(t) /\ level(t) \in 0..2 /\ l \in 0..2
        BY <1>1, <1>4
      <3>2. level(t) = l => t \in T
        OBVIOUS
      <3> QED
        BY <1>6, <3>1, <3>2
    <2> QED
      BY <2>1
  <1> DEFINE best == CHOOSE c \in candidates : Best(c)
  <1>8. best \in candidates /\ Best(best)
    BY <1>6, <1>7
  <1>9. lookup /\ candidates \cap Priced # {} => best \in Priced
    <2> SUFFICES ASSUME lookup, NEW t \in candidates \cap Priced PROVE best \in Priced
      OBVIOUS
    <2>1. level(t) = 0 /\ level(best) \in 0..2
      BY <1>1, <1>3, <1>8
    <2>2. level(best) < level(t) \/ level(best) = level(t)
      BY <1>8
    <2>3. level(best) = 0
      BY <2>1, <2>2
    <2> QED
      BY <1>3, <1>8, <2>3
  <1> QED
    BY <1>2, <1>8, <1>9

\* The class that a target resolves to is of its company, and has prices if one has.
LEMMA ResolveIs ==
    ASSUME Typed, NEW r \in Runs, Resolve(r)
    PROVE  /\ run[r].pc = "resolve" /\ UNCHANGED tables
           /\ \/ run' = [run EXCEPT ![r] = AfterTarget(r, FALSE)]
              \/ \E s \in Securities :
                    /\ run' = [run EXCEPT ![r].sec = s,
                                          ![r].pc = IF Args[r].fresh THEN "reset" ELSE "download"]
                    /\ CompanyOf(s) = CompanyOf(Target(r))
                    /\ run[r].catalog /\ "lookup" \notin Faults
                       /\ {c \in Priced : CikOf[c] = Target(r)} # {}
                       => s \in {c \in Priced : CikOf[c] = Target(r)} \/ Target(r) \notin CIKs
  <1>1. run[r].pc = "resolve" /\ UNCHANGED tables
    BY DEF Resolve
  <1>2. Target(r) \in Securities /\ Classes \cap CIKs = {}
        /\ \A c \in Classes : CikOf[c] \in CIKs
    BY <1>1, RunIs, IngestAssumption DEF Busy
  <1>3. CASE run' = [run EXCEPT ![r] = AfterTarget(r, FALSE)]
    BY <1>1, <1>3
  <1>4. CASE run' # [run EXCEPT ![r] = AfterTarget(r, FALSE)]
    <2> DEFINE cs == IF run[r].catalog THEN Candidates(Target(r)) ELSE {}
               s(lookup) == IF cs = {} THEN Target(r) ELSE PreferredClass(cs, lookup)
    <2>1. PICK lookup \in Outcomes("lookup") :
             run' = [run EXCEPT ![r].sec = s(lookup),
                                ![r].pc = IF Args[r].fresh THEN "reset" ELSE "download"]
      BY <1>4 DEF Resolve
    <2>2. Target(r) \in CIKs \/ run[r].catalog
      BY <1>4 DEF Resolve
    <2>3. lookup \in BOOLEAN /\ ("lookup" \notin Faults => lookup = TRUE)
      BY DEF Outcomes
    <2>4. cs \in SUBSET Classes
      BY <1>2 DEF Candidates, Securities
    <2>5. \A c \in cs : CompanyOf(c) = CompanyOf(Target(r))
      BY <1>2 DEF Candidates, CompanyOf
    <2>6. CASE cs = {}
      <3>1. s(lookup) = Target(r)
        BY <2>6
      <3>2. run[r].catalog /\ Target(r) \in CIKs => {c \in Priced : CikOf[c] = Target(r)} = {}
        BY <2>6, IngestAssumption DEF Candidates
      <3> QED
        BY <1>1, <1>2, <2>1, <3>1, <3>2
    <2>7. CASE cs # {}
      <3>1. /\ s(lookup) \in cs
            /\ lookup /\ cs \cap Priced # {} => s(lookup) \in Priced
        BY <2>3, <2>4, <2>7, PreferredIs
      <3>2. ASSUME run[r].catalog, "lookup" \notin Faults, Target(r) \in CIKs,
                   {c \in Priced : CikOf[c] = Target(r)} # {}
            PROVE  s(lookup) \in {c \in Priced : CikOf[c] = Target(r)}
        <4>1. cs = {c \in Classes : CikOf[c] = Target(r)}
          BY <3>2 DEF Candidates
        <4>2. cs \cap Priced # {}
          BY <3>2, <4>1, IngestAssumption
        <4> QED
          BY <2>3, <3>1, <3>2, <4>1, <4>2
      <3>3. s(lookup) \in Securities /\ CompanyOf(s(lookup)) = CompanyOf(Target(r))
        BY <2>4, <2>5, <3>1 DEF Securities
      <3> HIDE DEF s, cs
      <3> QED
        BY <1>1, <2>1, <3>2, <3>3
    <2> QED
      BY <2>6, <2>7
  <1> QED
    BY <1>3, <1>4

-----------------------------------------------------------------------------
(* A run goes from one call to the next.                                   *)

Moved(r, pc, s, q) ==
    run' = [run EXCEPT ![r] = [run[r] EXCEPT !.pc = pc, !.sec = s, !.queue = q]]

LEMMA MovedIs ==
    ASSUME Typed, NEW r \in Runs, run[r].pc \in Busy,
           NEW pc \in Busy \cup {"dead"}, NEW s \in Securities, NEW q \in Seq(Nat),
           pc \in {"load", "write"} => q # <<>>,
           Moved(r, pc, s, q)
    PROVE  /\ run' \in [Runs -> RunStates] /\ \A o \in Runs \ {r} : run'[o] = run[o]
           /\ OnCourse(run'[r])
           /\ run'[r].pc = pc /\ run'[r].sec = s /\ run'[r].queue = q
           /\ run'[r].targets = run[r].targets /\ run'[r].at = run[r].at
           /\ run'[r].catalog = run[r].catalog /\ run'[r].failed = run[r].failed
           /\ run'[r].succeeded = run[r].succeeded /\ run'[r].alone = run[r].alone
           /\ Target(r)' = Target(r)
  <1> DEFINE v == [run[r] EXCEPT !.pc = pc, !.sec = s, !.queue = q]
  <1>1. run[r] \in RunStates /\ OnCourse(run[r]) /\ pc \in Pcs /\ pc # "idle"
    BY RunIs DEF Pcs, Busy
  <1>2. v \in RunStates
    BY <1>1 DEF RunStates
  <1>3. /\ v.pc = pc /\ v.sec = s /\ v.queue = q
        /\ v.targets = run[r].targets /\ v.at = run[r].at
        /\ v.catalog = run[r].catalog /\ v.failed = run[r].failed
        /\ v.succeeded = run[r].succeeded /\ v.alone = run[r].alone
    BY <1>1 DEF RunStates
  <1>4. run' = [run EXCEPT ![r] = v]
    BY DEF Moved
  <1> HIDE DEF v
  <1>5. run'[r] = v /\ run' \in [Runs -> RunStates] /\ \A o \in Runs \ {r} : run'[o] = run[o]
    BY <1>2, <1>4, OneRunMoves
  <1>6. OnCourse(v)
    BY <1>1, <1>3 DEF OnCourse
  <1>7. Target(r)' = Target(r)
    BY <1>3, <1>5 DEF Target
  <1> QED
    BY <1>3, <1>5, <1>6, <1>7

LEMMA MovedTyped ==
    ASSUME Typed, NEW r \in Runs, run[r].pc \in Busy,
           NEW pc \in Busy \cup {"dead"}, NEW s \in Securities, NEW q \in Seq(Nat),
           pc \in {"load", "write"} => q # <<>>, Issued(q, nextId),
           Moved(r, pc, s, q), UNCHANGED tables
    PROVE  Typed'
  <1>1. /\ run' \in [Runs -> RunStates] /\ \A o \in Runs \ {r} : run'[o] = run[o]
        /\ OnCourse(run'[r]) /\ run'[r].queue = q
    BY MovedIs
  <1>2. \A o \in Runs : OnCourse(run'[o]) /\ Issued(run'[o].queue, nextId)
    BY <1>1 DEF Typed
  <1>3. staging' = staging /\ nextId' = nextId /\ facts' = facts
    BY DEF tables
  <1> QED
    BY <1>1, <1>2, <1>3 DEF Typed, OnCourse, Issued, CompanyOf

\* The steps of a run, each with what it moves.
LEMMA QueueIs ==
    ASSUME Typed, NEW r \in Runs
    PROVE  /\ run[r].queue \in Seq(Nat) /\ Issued(run[r].queue, nextId)
           /\ run[r].sec \in Securities
           /\ run[r].pc \in {"load", "write"} =>
                 /\ run[r].queue # <<>>
                 /\ Head(run[r].queue) \in 1..(nextId - 1)
  <1>1. /\ run[r].queue \in Seq(Nat) /\ Issued(run[r].queue, nextId)
        /\ run[r].sec \in Securities /\ OnCourse(run[r])
    BY RunIs DEF RunStates
  <1>2. run[r].pc \in {"load", "write"} => run[r].queue # <<>>
    BY <1>1 DEF OnCourse
  <1>3. run[r].queue # <<>> => Head(run[r].queue) \in 1..(nextId - 1)
    BY <1>1, QueueTail DEF Issued
  <1> QED
    BY <1>1, <1>2, <1>3

LEMMA ResetIs ==
    ASSUME Typed, NEW r \in Runs, Reset(r)
    PROVE  /\ run[r].pc = "reset"
           /\ Moved(r, "download", run[r].sec, run[r].queue)
           /\ staging' = {row \in staging : row.cik # CompanyOf(run[r].sec)}
           /\ UNCHANGED <<nextId, facts>>
  <1>1. run[r] \in RunStates
    BY RunIs
  <1>2. [run[r] EXCEPT !.pc = "download"]
        = [run[r] EXCEPT !.pc = "download", !.sec = run[r].sec, !.queue = run[r].queue]
    BY <1>1 DEF RunStates
  <1>3. run' = [run EXCEPT ![r] = [run[r] EXCEPT !.pc = "download"]]
    BY DEF Reset, Typed
  <1> QED
    BY <1>2, <1>3 DEF Reset, Moved

LEMMA DownloadIs ==
    ASSUME Typed, NEW r \in Runs, Download(r)
    PROVE  /\ run[r].pc = "download" /\ UNCHANGED tables
           /\ \/ Moved(r, "insert", run[r].sec, run[r].queue)
              \/ run' = [run EXCEPT ![r] = AfterTarget(r, FALSE)]
  <1>1. run[r] \in RunStates
    BY RunIs
  <1>2. [run[r] EXCEPT !.pc = "insert"]
        = [run[r] EXCEPT !.pc = "insert", !.sec = run[r].sec, !.queue = run[r].queue]
    BY <1>1 DEF RunStates
  <1>3. \/ run' = [run EXCEPT ![r] = [run[r] EXCEPT !.pc = "insert"]]
        \/ run' = [run EXCEPT ![r] = AfterTarget(r, FALSE)]
    BY DEF Download, Typed
  <1> QED
    BY <1>2, <1>3 DEF Download, Moved

LEMMA InsertIs ==
    ASSUME Typed, NEW r \in Runs, Insert(r)
    PROVE  LET cik == CompanyOf(run[r].sec)
           IN  /\ run[r].pc = "insert" /\ UNCHANGED facts
               /\ \/ /\ \E row \in staging : row.cik = cik
                     /\ Moved(r, "list", run[r].sec, run[r].queue)
                     /\ UNCHANGED <<staging, nextId>>
                  \/ /\ \A row \in staging : row.cik # cik
                     /\ Moved(r, "load", run[r].sec, <<nextId>>)
                     /\ staging' = staging \cup {[id |-> nextId, cik |-> cik,
                                                  ticker |-> run[r].sec, normalized |-> FALSE]}
                     /\ nextId' = nextId + 1
  <1>1. run[r] \in RunStates
    BY RunIs
  <1>2. [run[r] EXCEPT !.pc = "list"]
        = [run[r] EXCEPT !.pc = "list", !.sec = run[r].sec, !.queue = run[r].queue]
    BY <1>1 DEF RunStates
  <1>3. [run[r] EXCEPT !.pc = "load", !.queue = <<nextId>>]
        = [run[r] EXCEPT !.pc = "load", !.sec = run[r].sec, !.queue = <<nextId>>]
    BY <1>1 DEF RunStates
  <1>4. CASE \E row \in staging : row.cik = CompanyOf(run[r].sec)
    <2>1. run' = [run EXCEPT ![r] = [run[r] EXCEPT !.pc = "list"]]
          /\ UNCHANGED <<staging, nextId>>
      BY <1>4 DEF Insert, Typed
    <2> QED
      BY <1>2, <1>4, <2>1 DEF Insert, Moved
  <1>5. CASE ~\E row \in staging : row.cik = CompanyOf(run[r].sec)
    <2>1. /\ run' = [run EXCEPT ![r] = [run[r] EXCEPT !.pc = "load", !.queue = <<nextId>>]]
          /\ staging' = staging \cup {[id |-> nextId, cik |-> CompanyOf(run[r].sec),
                                       ticker |-> run[r].sec, normalized |-> FALSE]}
          /\ nextId' = nextId + 1
      BY <1>5 DEF Insert, Typed
    <2> QED
      BY <1>3, <1>5, <2>1 DEF Insert, Moved
  <1> QED
    BY <1>4, <1>5

PendingIds == {row.id : row \in {s \in staging : ~s.normalized}}

InBatch(id, queue) == \E i \in DOMAIN queue : queue[i] = id

\* A full batch of rows that are older than a row.
OlderBatch(S, id, queue) ==
    /\ Cardinality(S) = PendingLimit
    /\ \A x \in S : x < id /\ InBatch(x, queue)

\* The batch of NormalizePending is of pending rows; a pending row that it leaves out
\* is younger than a full batch.
LEMMA ListIs ==
    ASSUME Typed, NEW r \in Runs, ListPending(r)
    PROVE  /\ run[r].pc = "list" /\ UNCHANGED tables
           /\ \/ /\ run' = [run EXCEPT ![r] = AfterTarget(r, TRUE)]
                 /\ PendingIds = {}
              \/ \E batch \in Seq(Nat) :
                    /\ batch # <<>> /\ Moved(r, "load", run[r].sec, batch)
                    /\ \A i \in DOMAIN batch : batch[i] \in PendingIds
                    /\ \A id \in PendingIds :
                          InBatch(id, batch) \/ \E S \in SUBSET Nat : OlderBatch(S, id, batch)
  <1> DEFINE ids == Ascending(PendingIds)
             n == IF Len(ids) < PendingLimit THEN Len(ids) ELSE PendingLimit
             batch == SubSeq(ids, 1, n)
  <1>1. PendingIds \in SUBSET Nat /\ IsFiniteSet(PendingIds)
    <2> DEFINE D == {s \in staging : ~s.normalized}
               f == [row \in D |-> row.id]
    <2>1. IsFiniteSet(D)
      BY FS_Subset DEF Typed
    <2>2. PendingIds = {row.id : row \in D} /\ \A row \in D : row.id \in Nat
      BY DEF PendingIds, Typed, StagingRows
    <2> HIDE DEF D
    <2>3. f \in Surjection(D, {row.id : row \in D})
      BY DEF Surjection
    <2> QED
      BY <2>1, <2>2, <2>3, FS_Surjection
  <1>2. /\ ids \in Seq(PendingIds) /\ Len(ids) = Cardinality(PendingIds)
        /\ \A x \in PendingIds : \E i \in 1..Len(ids) : ids[i] = x
        /\ Increasing(ids, Len(ids))
    BY <1>1, AscendingIs
  <1>3. Len(ids) \in Nat /\ PendingLimit \in Nat \ {0} /\ n \in 0..Len(ids)
    BY <1>2, IngestAssumption
  <1>4. /\ run[r].pc = "list" /\ UNCHANGED tables
        /\ run' = [run EXCEPT ![r] = IF batch = <<>> THEN AfterTarget(r, TRUE)
                                     ELSE [run[r] EXCEPT !.pc = "load", !.queue = batch]]
    BY DEF ListPending, PendingIds, Typed
  <1> HIDE DEF ids
  <1>5. /\ batch \in Seq(PendingIds) /\ Len(batch) = n
        /\ \A i \in 1..n : batch[i] = ids[i]
    <2>1. \A i \in 1..n : ids[i] \in PendingIds
      BY <1>2, <1>3
    <2>2. n \in Int /\ 1 \in Int
      BY <1>3
    <2> HIDE DEF n
    <2>3. /\ batch \in Seq(PendingIds)
          /\ Len(batch) = IF 1 <= n THEN n - 1 + 1 ELSE 0
          /\ \A i \in 1..(n - 1 + 1) : batch[i] = ids[1 + i - 1]
      BY <2>1, <2>2, SubSeqProperties
    <2>4. n \in Nat
      BY <1>3 DEF n
    <2> HIDE DEF batch
    <2> QED
      BY <2>3, <2>4
  <1>6. batch \in Seq(Nat)
    BY <1>1, <1>5, SeqMonotonic
  <1>7. DOMAIN batch = 1..n /\ \A i \in DOMAIN batch : batch[i] \in PendingIds
    BY <1>5
  <1>8. n = Len(ids) \/ n = PendingLimit
    BY <1>3
  <1> HIDE DEF n, batch
  <1>9. CASE batch = <<>>
    <2>1. n = 0
      BY <1>5, <1>9, EmptySeq
    <2>2. Len(ids) = 0
      BY <1>3, <2>1 DEF n
    <2>3. PendingIds = {}
      BY <1>2, <2>2
    <2> QED
      BY <1>4, <1>9, <2>3
  <1>10. CASE batch # <<>>
    <2>1. run[r] \in RunStates
      BY RunIs
    <2>2. [run[r] EXCEPT !.pc = "load", !.queue = batch]
          = [run[r] EXCEPT !.pc = "load", !.sec = run[r].sec, !.queue = batch]
      BY <2>1 DEF RunStates
    <2>3. Moved(r, "load", run[r].sec, batch)
      BY <1>4, <1>10, <2>2 DEF Moved
    <2>4. ASSUME NEW id \in PendingIds
          PROVE  InBatch(id, batch) \/ \E S \in SUBSET Nat : OlderBatch(S, id, batch)
      <3>1. PICK k \in 1..Len(ids) : ids[k] = id
        BY <1>2
      <3>2. CASE k \in 1..n
        BY <1>5, <1>7, <3>1, <3>2 DEF InBatch
      <3>3. CASE k \notin 1..n
        <4> DEFINE first == [i \in 1..n |-> ids[i]]
                   S == {ids[i] : i \in 1..n}
        <4>1. n = PendingLimit /\ n < k /\ n \in Nat
          BY <1>3, <1>8, <3>1, <3>3
        <4>2. /\ \A i \in 1..Len(ids) : ids[i] \in Nat
              /\ 1..n \subseteq 1..Len(ids)
          <5>1. \A i \in 1..Len(ids) : ids[i] \in PendingIds
            BY <1>2
          <5>2. 1..n \subseteq 1..Len(ids)
            BY <1>3
          <5> QED
            BY <1>1, <5>1, <5>2
        <4>3. ASSUME NEW i \in 1..n PROVE ids[i] < id /\ InBatch(ids[i], batch)
          <5>1. i \in 1..Len(ids) /\ i < k
            BY <4>1, <4>2
          <5>2. ids[i] < id
            BY <1>2, <3>1, <5>1 DEF Increasing
          <5>3. i \in DOMAIN batch /\ batch[i] = ids[i]
            BY <1>5, <1>7
          <5> QED
            BY <5>2, <5>3 DEF InBatch
        <4>4. first \in Surjection(1..n, S)
          BY DEF Surjection
        <4>5. first \in Injection(1..n, S)
          <5>1. \A i, j \in 1..n : ids[i] = ids[j] => i = j
            BY <1>2, <1>3, <4>1, <4>2 DEF Increasing
          <5>2. \A i, j \in 1..n : first[i] = first[j] => i = j
            BY <5>1
          <5> QED
            BY <4>4, <5>2 DEF Injection, Surjection, IsInjective
        <4>6. IsFiniteSet(1..n) /\ Cardinality(1..n) = n
          BY <4>1, FS_Interval
        <4>7. Cardinality(S) = PendingLimit
          <5> HIDE DEF first, S
          <5> QED
            BY <4>1, <4>4, <4>5, <4>6, FS_Surjection
        <4>8. S \in SUBSET Nat /\ \A x \in S : x < id /\ InBatch(x, batch)
          BY <4>2, <4>3
        <4> HIDE DEF S
        <4> QED
          BY <4>7, <4>8 DEF OlderBatch
      <3> QED
        BY <3>2, <3>3
    <2> QED
      BY <1>4, <1>6, <1>7, <1>10, <2>3, <2>4
  <1> QED
    BY <1>9, <1>10

LEMMA ResolvedMoves ==
    ASSUME Typed, NEW r \in Runs, NEW s, NEW pc,
           run' = [run EXCEPT ![r].sec = s, ![r].pc = pc]
    PROVE  Moved(r, pc, s, run[r].queue)
  <1>1. run[r] \in RunStates
    BY RunIs
  <1>2. [run[r] EXCEPT !.sec = s, !.pc = pc]
        = [run[r] EXCEPT !.pc = pc, !.sec = s, !.queue = run[r].queue]
    BY <1>1 DEF RunStates
  <1>3. run' = [run EXCEPT ![r] = [run[r] EXCEPT !.sec = s, !.pc = pc]]
    BY DEF Typed
  <1> QED
    BY <1>2, <1>3 DEF Moved

LEMMA LoadIs ==
    ASSUME Typed, NEW r \in Runs, Load(r)
    PROVE  /\ run[r].pc = "load" /\ UNCHANGED tables
           /\ \/ run' = [run EXCEPT ![r] = AfterRow(r, FALSE)]
              \/ \E row \in staging : /\ row.id = Head(run[r].queue)
                                      /\ Moved(r, "write", row.ticker, run[r].queue)
  <1>1. run[r] \in RunStates
    BY RunIs
  <1>2. ASSUME NEW row \in staging, row.id = Head(run[r].queue),
               run' = [run EXCEPT ![r].pc = "write", ![r].sec = row.ticker]
        PROVE  Moved(r, "write", row.ticker, run[r].queue)
    <2>1. [run[r] EXCEPT !.pc = "write", !.sec = row.ticker]
          = [run[r] EXCEPT !.pc = "write", !.sec = row.ticker, !.queue = run[r].queue]
      BY <1>1 DEF RunStates
    <2>2. run' = [run EXCEPT ![r] = [run[r] EXCEPT !.pc = "write", !.sec = row.ticker]]
      BY <1>2 DEF Typed
    <2> QED
      BY <2>1, <2>2 DEF Moved
  <1> QED
    BY <1>2 DEF Load

\* The transaction finds its row and commits, or rolls back.
LEMMA WriteIs ==
    ASSUME Typed, NEW r \in Runs, Write(r)
    PROVE  /\ run[r].pc = "write" /\ UNCHANGED nextId
           /\ \/ /\ run' = [run EXCEPT ![r] = AfterRow(r, FALSE)]
                 /\ UNCHANGED <<staging, facts>>
              \/ /\ run' = [run EXCEPT ![r] = AfterRow(r, TRUE)]
                 /\ \E row \in staging :
                       /\ row.id = Head(run[r].queue)
                       /\ staging' = (staging \ {row}) \cup {[row EXCEPT !.normalized = TRUE]}
                 /\ facts' = [facts EXCEPT ![run[r].sec] =
                                  Upserted(facts[run[r].sec], Args[r].dict)]
  <1> DEFINE mine == {row \in staging : row.id = Head(run[r].queue)}
  <1>1. run[r].pc = "write" /\ UNCHANGED nextId
    BY DEF Write
  <1>2. CASE mine = {}
    BY <1>1, <1>2 DEF Write
  <1>3. CASE mine # {}
    <2>1. /\ staging' = (staging \ mine) \cup {[row EXCEPT !.normalized = TRUE] : row \in mine}
          /\ facts' = [facts EXCEPT ![run[r].sec] = Upserted(facts[run[r].sec], Args[r].dict)]
          /\ run' = [run EXCEPT ![r] = AfterRow(r, TRUE)]
      BY <1>3, QueueIs DEF Write, Typed
    <2>2. PICK row \in mine : TRUE
      BY <1>3
    <2>3. mine = {row}
      BY <2>2 DEF Typed
    <2>4. row \in staging /\ row.id = Head(run[r].queue)
      BY <2>2
    <2> HIDE DEF mine
    <2>5. staging' = (staging \ {row}) \cup {[row EXCEPT !.normalized = TRUE]}
      BY <2>1, <2>3
    <2> QED
      BY <1>1, <2>1, <2>4, <2>5
  <1> QED
    BY <1>2, <1>3

LEMMA UpsertedIs ==
    ASSUME NEW old \in [Concepts -> Seq(Dicts)], NEW dict \in Dicts
    PROVE  /\ Upserted(old, dict) \in [Concepts -> Seq(Dicts)]
           /\ Upserted(old, dict) # NoFacts
           /\ \A c \in Produces[dict] : /\ Upserted(old, dict)[c] # <<>>
                                        /\ Last(Upserted(old, dict)[c]) = dict
  <1>1. Produces[dict] \in (SUBSET Concepts) \ {{}}
    BY IngestAssumption
  <1>2. <<dict>> \in Seq(Dicts) /\ Len(<<dict>>) = 1 /\ <<dict>>[1] = dict
    OBVIOUS
  <1>3. \A c \in Concepts : /\ Append(old[c], dict) \in Seq(Dicts)
                            /\ Len(Append(old[c], dict)) = Len(old[c]) + 1
                            /\ Append(old[c], dict)[Len(old[c]) + 1] = dict
                            /\ Len(old[c]) \in Nat
    BY AppendProperties
  <1>4. Upserted(old, dict) \in [Concepts -> Seq(Dicts)]
    BY <1>2, <1>3 DEF Upserted
  <1>5. ASSUME NEW c \in Produces[dict]
        PROVE  Upserted(old, dict)[c] # <<>> /\ Last(Upserted(old, dict)[c]) = dict
    <2>1. c \in Concepts
      BY <1>1
    <2>2. \/ Upserted(old, dict)[c] = Append(old[c], dict)
          \/ Upserted(old, dict)[c] = <<dict>>
      BY <2>1 DEF Upserted
    <2>3. Append(old[c], dict) # <<>> /\ Last(Append(old[c], dict)) = dict
      BY <1>3, <2>1, EmptySeq DEF Last
    <2>4. <<dict>> # <<>> /\ Last(<<dict>>) = dict
      BY <1>2, EmptySeq DEF Last
    <2> QED
      BY <2>2, <2>3, <2>4
  <1>6. Upserted(old, dict) # NoFacts
    <2>1. PICK c \in Produces[dict] : TRUE
      BY <1>1
    <2>2. NoFacts[c] = <<>>
      BY <1>1, <2>1 DEF NoFacts
    <2> QED
      BY <1>5, <2>2
  <1> QED
    BY <1>4, <1>5, <1>6

LEMMA DatabaseFailsIs ==
    ASSUME Typed, NEW r \in Runs, DatabaseFails(r)
    PROVE  /\ UNCHANGED tables
           /\ \/ /\ run[r].pc \in {"reset", "insert", "list"}
                 /\ run' = [run EXCEPT ![r] = AfterTarget(r, FALSE)]
              \/ /\ run[r].pc \in {"load", "write"}
                 /\ run' = [run EXCEPT ![r] = AfterRow(r, FALSE)]
  BY DEF DatabaseFails

LEMMA CrashIs ==
    ASSUME Typed, NEW r \in Runs, Crash(r)
    PROVE  /\ run[r].pc \in Busy /\ UNCHANGED tables
           /\ Moved(r, "dead", run[r].sec, run[r].queue)
  <1>1. run[r] \in RunStates
    BY RunIs
  <1>2. [run[r] EXCEPT !.pc = "dead"]
        = [run[r] EXCEPT !.pc = "dead", !.sec = run[r].sec, !.queue = run[r].queue]
    BY <1>1 DEF RunStates
  <1>3. run' = [run EXCEPT ![r] = [run[r] EXCEPT !.pc = "dead"]]
    BY DEF Crash, Typed
  <1>4. run[r].pc \in Busy /\ UNCHANGED tables
    BY RunIs DEF Crash
  <1> QED
    BY <1>2, <1>3, <1>4 DEF Moved

-----------------------------------------------------------------------------

\* A run whose target, or whose row, is over.
LEMMA OverTyped ==
    ASSUME Typed, NEW r \in Runs, run[r].pc \in Busy, UNCHANGED tables, NEW ok \in BOOLEAN,
           \/ run' = [run EXCEPT ![r] = AfterTarget(r, ok)]
           \/ /\ run[r].pc \in {"load", "write"}
              /\ run' = [run EXCEPT ![r] = AfterRow(r, ok)]
    PROVE  Typed'
  <1>1. CASE run' = [run EXCEPT ![r] = AfterTarget(r, ok)]
    BY <1>1, AfterTargetIs, RunTyped
  <1>2. CASE run[r].pc \in {"load", "write"} /\ run' = [run EXCEPT ![r] = AfterRow(r, ok)]
    BY <1>2, AfterRowIs, RunTyped
  <1> QED
    BY <1>1, <1>2

LEMMA WalkTyped ==
    ASSUME Typed, NEW r \in Runs,
           \/ Resolve(r) \/ Download(r) \/ ListPending(r) \/ Load(r)
           \/ DatabaseFails(r) \/ Crash(r)
    PROVE  Typed'
  <1>1. run[r].queue \in Seq(Nat) /\ Issued(run[r].queue, nextId) /\ run[r].sec \in Securities
    BY QueueIs
  <1>2. CASE Resolve(r)
    <2>1. run[r].pc = "resolve" /\ run[r].pc \in Busy /\ UNCHANGED tables
      BY <1>2, ResolveIs DEF Busy
    <2>2. CASE run' = [run EXCEPT ![r] = AfterTarget(r, FALSE)]
      BY <2>1, <2>2, OverTyped
    <2>3. CASE run' # [run EXCEPT ![r] = AfterTarget(r, FALSE)]
      <3> DEFINE pc == IF Args[r].fresh THEN "reset" ELSE "download"
      <3>1. PICK s \in Securities : run' = [run EXCEPT ![r].sec = s, ![r].pc = pc]
        BY <1>2, <2>3, ResolveIs
      <3>2. Moved(r, pc, s, run[r].queue)
        BY <3>1, ResolvedMoves
      <3>3. pc \in Busy \cup {"dead"} /\ pc \notin {"load", "write"}
        BY DEF Busy
      <3> HIDE DEF pc
      <3> QED
        BY <1>1, <2>1, <3>2, <3>3, MovedTyped
    <2> QED
      BY <2>2, <2>3
  <1>3. CASE Download(r)
    <2>1. run[r].pc \in Busy /\ UNCHANGED tables /\ "insert" \in Busy
      BY <1>3, DownloadIs DEF Busy
    <2> QED
      BY <1>1, <1>3, <2>1, DownloadIs, OverTyped, MovedTyped
  <1>4. CASE ListPending(r)
    <2>1. run[r].pc \in Busy /\ UNCHANGED tables /\ "load" \in Busy
      BY <1>4, ListIs DEF Busy
    <2>2. ASSUME NEW batch \in Seq(Nat), batch # <<>>, Moved(r, "load", run[r].sec, batch),
                 \A i \in DOMAIN batch : batch[i] \in PendingIds
          PROVE  Typed'
      <3>1. \A id \in PendingIds : id \in 1..(nextId - 1)
        BY DEF PendingIds, Typed, StagingRows
      <3>2. Issued(batch, nextId)
        BY <2>2, <3>1 DEF Issued
      <3> QED
        BY <1>1, <2>1, <2>2, <3>2, MovedTyped
    <2> QED
      BY <1>4, <2>1, <2>2, ListIs, OverTyped
  <1>5. CASE Load(r)
    <2>1. run[r].pc \in Busy /\ run[r].pc = "load" /\ UNCHANGED tables /\ "write" \in Busy
          /\ run[r].queue # <<>>
      BY <1>5, LoadIs, QueueIs DEF Busy
    <2>2. \A row \in staging : row.ticker \in Securities
      BY DEF Typed, StagingRows
    <2> QED
      BY <1>1, <1>5, <2>1, <2>2, LoadIs, OverTyped, MovedTyped
  <1>6. CASE DatabaseFails(r)
    <2>1. run[r].pc \in Busy /\ UNCHANGED tables
      BY <1>6, DatabaseFailsIs DEF Busy
    <2> QED
      BY <1>6, <2>1, DatabaseFailsIs, OverTyped
  <1>7. CASE Crash(r)
    BY <1>1, <1>7, CrashIs, MovedTyped
  <1> QED
    BY <1>2, <1>3, <1>4, <1>5, <1>6, <1>7

LEMMA ResetTyped ==
    ASSUME Typed, NEW r \in Runs, Reset(r)
    PROVE  Typed'
  <1>1. run[r].pc \in Busy /\ "download" \in Busy
        /\ run[r].queue \in Seq(Nat) /\ run[r].sec \in Securities
    BY ResetIs, QueueIs DEF Busy
  <1>2. /\ run' \in [Runs -> RunStates] /\ \A o \in Runs \ {r} : run'[o] = run[o]
        /\ OnCourse(run'[r]) /\ run'[r].queue = run[r].queue
    BY <1>1, ResetIs, MovedIs
  <1>3. staging' \subseteq staging /\ nextId' = nextId /\ facts' = facts
    BY ResetIs
  <1>4. IsFiniteSet(staging')
    BY <1>3, FS_Subset DEF Typed
  <1>5. \A o \in Runs : OnCourse(run'[o]) /\ Issued(run'[o].queue, nextId)
    BY <1>2 DEF Typed
  <1> QED
    BY <1>2, <1>3, <1>4, <1>5 DEF Typed, OnCourse, Issued, CompanyOf

LEMMA InsertTyped ==
    ASSUME Typed, NEW r \in Runs, Insert(r)
    PROVE  Typed'
  <1> DEFINE cik == CompanyOf(run[r].sec)
             new == [id |-> nextId, cik |-> cik, ticker |-> run[r].sec, normalized |-> FALSE]
  <1>1. /\ run[r].pc \in Busy /\ "list" \in Busy /\ "load" \in Busy
        /\ run[r].queue \in Seq(Nat) /\ Issued(run[r].queue, nextId)
        /\ run[r].sec \in Securities /\ nextId \in Nat \ {0}
    BY InsertIs, QueueIs DEF Busy, Typed
  <1> HIDE DEF new
  <1>2. CASE Moved(r, "list", run[r].sec, run[r].queue) /\ UNCHANGED <<staging, nextId>>
    BY <1>1, <1>2, InsertIs, MovedTyped DEF tables
  <1>3. CASE /\ \A row \in staging : row.cik # cik
             /\ Moved(r, "load", run[r].sec, <<nextId>>)
             /\ staging' = staging \cup {new}
             /\ nextId' = nextId + 1
    <2>1. <<nextId>> \in Seq(Nat) /\ <<nextId>> # <<>> /\ DOMAIN <<nextId>> = {1}
          /\ <<nextId>>[1] = nextId
      BY <1>1
    <2>2. /\ run' \in [Runs -> RunStates] /\ \A o \in Runs \ {r} : run'[o] = run[o]
          /\ OnCourse(run'[r]) /\ run'[r].queue = <<nextId>>
      <3> DEFINE q == <<nextId>>
      <3>1. /\ Moved(r, "load", run[r].sec, q) /\ "load" \in Busy \cup {"dead"}
            /\ q \in Seq(Nat) /\ q # <<>>
        BY <1>1, <1>3, <2>1
      <3> HIDE DEF cik, q
      <3>2. /\ run' \in [Runs -> RunStates] /\ \A o \in Runs \ {r} : run'[o] = run[o]
            /\ OnCourse(run'[r]) /\ run'[r].queue = q
        BY <1>1, <3>1, MovedIs
      <3> QED
        BY <3>2 DEF q
    <2>3. Issued(<<nextId>>, nextId + 1)
      BY <1>1, <2>1 DEF Issued
    <2>4. \A o \in Runs \ {r} : Issued(run[o].queue, nextId + 1)
      <3>1. \A o \in Runs : Issued(run[o].queue, nextId)
        BY DEF Typed
      <3> QED
        BY <1>1, <3>1 DEF Issued
    <2>5. \A o \in Runs : OnCourse(run'[o]) /\ Issued(run'[o].queue, nextId')
      BY <1>3, <2>2, <2>3, <2>4 DEF Typed
    <2>6. cik \in CIKs
      BY <1>1, IngestAssumption DEF CompanyOf, Securities
    <2>7. /\ new \in StagingRows /\ new.id = nextId /\ new.cik = cik
          /\ new.cik = CompanyOf(new.ticker)
      BY <1>1, <2>6 DEF StagingRows, new
    <2> HIDE DEF cik
    <2>8. IsFiniteSet(staging')
      BY <1>3, FS_AddElement DEF Typed
    <2>9. staging' \in SUBSET StagingRows
      BY <1>3, <2>7 DEF Typed
    <2>10. \A row \in staging : row.id < nextId /\ row.id \in Nat
      BY DEF Typed, StagingRows
    <2>11. \A row \in staging' : row.id < nextId' /\ row.cik = CompanyOf(row.ticker)
      BY <1>1, <1>3, <2>7, <2>10 DEF Typed
    <2>12. \A row, other \in staging' : row.cik = other.cik \/ row.id = other.id => row = other
      <3>1. \A row \in staging : row.cik # new.cik /\ row.id # new.id
        BY <1>1, <1>3, <2>7, <2>10
      <3> QED
        BY <1>3, <3>1 DEF Typed
    <2>13. nextId' \in Nat \ {0}
      BY <1>1, <1>3
    <2>14. facts' = facts
      BY InsertIs
    <2> QED
      BY <2>2, <2>5, <2>8, <2>9, <2>11, <2>12, <2>13, <2>14
      DEF Typed, OnCourse, Issued, CompanyOf
  <1> QED
    BY <1>2, <1>3, InsertIs DEF new

\* The mark of a row changes nothing else of the table.
LEMMA MarkIs ==
    ASSUME Typed, NEW row \in staging,
           staging' = (staging \ {row}) \cup {[row EXCEPT !.normalized = TRUE]}
    PROVE  /\ staging' \in SUBSET StagingRows /\ IsFiniteSet(staging')
           /\ \A new \in staging' : \E old \in staging :
                 /\ new.id = old.id /\ new.cik = old.cik /\ new.ticker = old.ticker
                 /\ new.normalized => old.normalized \/ old = row
           /\ \A old \in staging : \E new \in staging' :
                 /\ new.id = old.id /\ new.cik = old.cik /\ new.ticker = old.ticker
                 /\ old.normalized \/ old = row => new.normalized
           /\ \A a, b \in staging' : a.cik = b.cik \/ a.id = b.id => a = b
  <1> DEFINE new == [row EXCEPT !.normalized = TRUE]
  <1>1. /\ new \in StagingRows /\ new.id = row.id /\ new.cik = row.cik
        /\ new.ticker = row.ticker /\ new.normalized
    BY DEF Typed, StagingRows
  <1> HIDE DEF new
  <1>2. staging' = (staging \ {row}) \cup {new}
    BY DEF new
  <1>3. staging' \in SUBSET StagingRows
    BY <1>1, <1>2 DEF Typed
  <1>4. IsFiniteSet(staging \ {row})
    BY FS_RemoveElement DEF Typed
  <1>5. IsFiniteSet(staging')
    BY <1>2, <1>4, FS_AddElement
  <1>6. \A x \in staging' : \E old \in staging :
           /\ x.id = old.id /\ x.cik = old.cik /\ x.ticker = old.ticker
           /\ x.normalized => old.normalized \/ old = row
    BY <1>1, <1>2
  <1>7. \A old \in staging : \E x \in staging' :
           /\ x.id = old.id /\ x.cik = old.cik /\ x.ticker = old.ticker
           /\ old.normalized \/ old = row => x.normalized
    BY <1>1, <1>2
  <1>8. \A a, b \in staging' : a.cik = b.cik \/ a.id = b.id => a = b
    BY <1>1, <1>2 DEF Typed
  <1> QED
    BY <1>3, <1>5, <1>6, <1>7, <1>8

LEMMA WriteTyped ==
    ASSUME Typed, NEW r \in Runs, Write(r)
    PROVE  Typed'
  <1>1. run[r].pc = "write" /\ run[r].pc \in Busy /\ run[r].sec \in Securities
        /\ nextId' = nextId
    BY WriteIs, QueueIs DEF Busy
  <1>2. CASE run' = [run EXCEPT ![r] = AfterRow(r, FALSE)] /\ UNCHANGED <<staging, facts>>
    BY <1>1, <1>2, OverTyped DEF tables
  <1>3. CASE /\ run' = [run EXCEPT ![r] = AfterRow(r, TRUE)]
             /\ facts' = [facts EXCEPT ![run[r].sec] = Upserted(facts[run[r].sec], Args[r].dict)]
             /\ \E row \in staging :
                   /\ row.id = Head(run[r].queue)
                   /\ staging' = (staging \ {row}) \cup {[row EXCEPT !.normalized = TRUE]}
    <2>1. /\ staging' \in SUBSET StagingRows /\ IsFiniteSet(staging')
          /\ \A new \in staging' : \E old \in staging :
                new.id = old.id /\ new.cik = old.cik /\ new.ticker = old.ticker
          /\ \A a, b \in staging' : a.cik = b.cik \/ a.id = b.id => a = b
      <3>1. PICK row \in staging :
               staging' = (staging \ {row}) \cup {[row EXCEPT !.normalized = TRUE]}
        BY <1>3
      <3>2. /\ staging' \in SUBSET StagingRows /\ IsFiniteSet(staging')
            /\ \A new \in staging' : \E old \in staging :
                  /\ new.id = old.id /\ new.cik = old.cik /\ new.ticker = old.ticker
                  /\ new.normalized => old.normalized \/ old = row
            /\ \A a, b \in staging' : a.cik = b.cik \/ a.id = b.id => a = b
        BY <3>1, MarkIs
      <3> QED
        BY <3>2
    <2>2. \A new \in staging' : new.id < nextId /\ new.cik = CompanyOf(new.ticker)
      BY <2>1 DEF Typed
    <2>3. facts' \in [Securities -> [Concepts -> Seq(Dicts)]]
      <3>1. Upserted(facts[run[r].sec], Args[r].dict) \in [Concepts -> Seq(Dicts)]
        BY <1>1, UpsertedIs, IngestAssumption DEF Typed
      <3>2. facts \in [Securities -> [Concepts -> Seq(Dicts)]]
        BY DEF Typed
      <3> QED
        BY <1>3, <3>1, <3>2
    <2>4. /\ run' \in [Runs -> RunStates]
          /\ \A o \in Runs : OnCourse(run'[o]) /\ Issued(run'[o].queue, nextId)
      <3>1. /\ AfterRow(r, TRUE) \in RunStates /\ OnCourse(AfterRow(r, TRUE))
            /\ Issued(AfterRow(r, TRUE).queue, nextId)
        BY <1>1, AfterRowIs
      <3> QED
        BY <1>3, <3>1, OneRunMoves DEF Typed
    <2> QED
      BY <1>1, <2>1, <2>2, <2>3, <2>4 DEF Typed, OnCourse, Issued, CompanyOf
  <1> QED
    BY <1>2, <1>3, WriteIs

LEMMA TypedNext == Typed /\ [Next]_vars => Typed'
  <1> SUFFICES ASSUME Typed, [Next]_vars PROVE Typed'
    OBVIOUS
  <1>1. ASSUME NEW r \in Runs, Begin(r) PROVE Typed'
    BY <1>1, BeginTyped
  <1>2. ASSUME NEW r \in Runs, RunStep(r) PROVE Typed'
    BY <1>2, WalkTyped, ResetTyped, InsertTyped, WriteTyped DEF RunStep
  <1>3. CASE UNCHANGED vars
    BY <1>3 DEF vars, Typed, OnCourse, Issued, CompanyOf
  <1> QED
    BY <1>1, <1>2, <1>3 DEF Next

LEMMA TypedAlways == Spec => []Typed
  <1>1. Init => Typed
    BY TypedInit
  <1>2. Typed /\ [Next]_vars => Typed'
    BY TypedNext
  <1> QED
    BY <1>1, <1>2, PTL DEF Spec

\* The tables and the local states of the runs keep their types, and no company
\* has two staging rows, whatever runs overlap and fail (InsertStaging).
THEOREM TypeCorrect == Spec => []TypeOK
  <1>1. Typed => TypeOK
    <2> SUFFICES ASSUME Typed PROVE TypeOK
      OBVIOUS
    <2>1. \A row \in staging :
             row \in [id : 1..(nextId - 1), cik : CIKs, ticker : Securities, normalized : BOOLEAN]
      BY DEF Typed, StagingRows
    <2>2. ASSUME NEW r \in Runs
          PROVE  /\ run[r].pc \in {"idle", "resolve", "reset", "download", "insert", "list",
                                   "load", "write", "ended", "dead"}
                 /\ run[r].targets \in Seq(Securities)
                 /\ run[r].at \in 1..(Len(run[r].targets) + 1)
                 /\ run[r].catalog \in BOOLEAN
                 /\ run[r].sec \in Securities
                 /\ run[r].queue \in Seq(1..(nextId - 1))
                 /\ run[r].failed \in BOOLEAN
                 /\ run[r].succeeded \subseteq 1..(run[r].at - 1)
                 /\ run[r].alone \in BOOLEAN
      <3>1. run[r] \in RunStates /\ OnCourse(run[r]) /\ Issued(run[r].queue, nextId)
        BY RunIs
      <3>2. run[r].queue \in Seq(Nat)
        BY <3>1 DEF RunStates
      <3>3. run[r].queue \in Seq(1..(nextId - 1))
        <4> DEFINE q == run[r].queue
        <4>1. Len(q) \in Nat /\ q \in [1..Len(q) -> Nat]
          BY <3>2, LenProperties
        <4>2. \A i \in 1..Len(q) : q[i] \in 1..(nextId - 1)
          BY <3>1, <4>1 DEF Issued
        <4> HIDE DEF q
        <4>3. q \in [1..Len(q) -> 1..(nextId - 1)]
          BY <4>1, <4>2
        <4>4. q \in Seq(1..(nextId - 1))
          BY <4>1, <4>3, SeqDef
        <4> QED
          BY <4>4 DEF q
      <3> QED
        BY <3>1, <3>3 DEF RunStates, OnCourse, Pcs, Busy
    <2> QED
      BY <2>1, <2>2 DEF TypeOK, Typed
  <1> QED
    BY <1>1, TypedAlways, PTL

-----------------------------------------------------------------------------
(* What a step of a run does to its own state and to the tables, field by  *)
(* field: the cases of the proofs below.                                   *)

PricedOf(target) == {s \in Priced : CikOf[s] = target}

\* The run goes on inside its target.
Goes(r, pc, s, q) ==
    /\ run'[r].pc = pc /\ run'[r].sec = s /\ run'[r].queue = q
    /\ run'[r].targets = run[r].targets /\ run'[r].at = run[r].at
    /\ run'[r].catalog = run[r].catalog /\ run'[r].failed = run[r].failed
    /\ run'[r].succeeded = run[r].succeeded /\ run'[r].alone = run[r].alone
    /\ Target(r)' = Target(r)

Resolved(r) ==
    /\ run[r].pc = "resolve" /\ UNCHANGED tables
    /\ \E s \in Securities :
          /\ Goes(r, IF Args[r].fresh THEN "reset" ELSE "download", s, run[r].queue)
          /\ CompanyOf(s) = CompanyOf(Target(r))
          /\ run[r].catalog /\ "lookup" \notin Faults /\ PricedOf(Target(r)) # {}
                => s \in PricedOf(Target(r))

Emptied(r) ==
    /\ run[r].pc = "reset" /\ Goes(r, "download", run[r].sec, run[r].queue)
    /\ staging' = {row \in staging : row.cik # CompanyOf(run[r].sec)}
    /\ UNCHANGED <<nextId, facts>>

Downloaded(r) ==
    /\ run[r].pc = "download" /\ UNCHANGED tables
    /\ Goes(r, "insert", run[r].sec, run[r].queue)

Found(r) ==
    /\ run[r].pc = "insert" /\ UNCHANGED tables
    /\ \E row \in staging : row.cik = CompanyOf(run[r].sec)
    /\ Goes(r, "list", run[r].sec, run[r].queue)

Inserted(r) ==
    /\ run[r].pc = "insert" /\ UNCHANGED facts
    /\ \A row \in staging : row.cik # CompanyOf(run[r].sec)
    /\ \E new \in StagingRows, q \in Seq(Nat) :
          /\ new.id = nextId /\ new.cik = CompanyOf(run[r].sec)
          /\ new.ticker = run[r].sec /\ ~new.normalized
          /\ staging' = staging \cup {new}
          /\ Goes(r, "load", run[r].sec, q)
          /\ DOMAIN q = {1} /\ q[1] = nextId /\ Head(q) = nextId /\ Tail(q) = <<>>

NonePending(r) ==
    /\ run[r].pc = "list" /\ UNCHANGED tables
    /\ PendingIds = {} /\ Over(run[r], run'[r], TRUE)

Listed(r) ==
    /\ run[r].pc = "list" /\ UNCHANGED tables
    /\ \E batch \in Seq(Nat) :
          /\ Goes(r, "load", run[r].sec, batch)
          /\ \A id \in PendingIds :
                InBatch(id, batch) \/ \E S \in SUBSET Nat : OlderBatch(S, id, batch)

Loaded(r) ==
    /\ run[r].pc = "load" /\ UNCHANGED tables
    /\ \E row \in staging : /\ row.id = Head(run[r].queue)
                            /\ Goes(r, "write", row.ticker, run[r].queue)

Committed(r) ==
    /\ run[r].pc = "write"
    /\ \E row \in staging :
          /\ row.id = Head(run[r].queue)
          /\ staging' = (staging \ {row}) \cup {[row EXCEPT !.normalized = TRUE]}
    /\ facts' = [facts EXCEPT ![run[r].sec] = Upserted(facts[run[r].sec], Args[r].dict)]
    /\ \/ Tail(run[r].queue) = <<>> /\ Over(run[r], run'[r], ~run[r].failed)
       \/ Onward(run[r], run'[r], TRUE)

Failed(r) ==
    /\ UNCHANGED tables
    /\ \/ Over(run[r], run'[r], FALSE)
       \/ run[r].pc \in {"load", "write"} /\ Onward(run[r], run'[r], FALSE)

Died(r) == UNCHANGED tables /\ Goes(r, "dead", run[r].sec, run[r].queue)

Stepped(r) ==
    \/ Resolved(r) \/ Emptied(r) \/ Downloaded(r) \/ Found(r) \/ Inserted(r)
    \/ NonePending(r) \/ Listed(r) \/ Loaded(r) \/ Committed(r)
    \/ Failed(r) \/ Died(r)

LEMMA MovedGoes ==
    ASSUME Typed, NEW r \in Runs, run[r].pc \in Busy,
           NEW pc \in Busy \cup {"dead"}, NEW s \in Securities, NEW q \in Seq(Nat),
           pc \in {"load", "write"} => q # <<>>,
           Moved(r, pc, s, q)
    PROVE  Goes(r, pc, s, q) /\ \A o \in Runs \ {r} : run'[o] = run[o]
  BY MovedIs DEF Goes

\* The target, or the row, of a run is over.
LEMMA OverIs ==
    ASSUME Typed, NEW r \in Runs, run[r].pc \in Busy, NEW ok \in BOOLEAN
    PROVE  /\ run' = [run EXCEPT ![r] = AfterTarget(r, ok)] =>
                 /\ Over(run[r], run'[r], ok)
                 /\ \A o \in Runs \ {r} : run'[o] = run[o]
           /\ run[r].pc \in {"load", "write"} /\ run' = [run EXCEPT ![r] = AfterRow(r, ok)] =>
                 /\ \/ /\ Tail(run[r].queue) = <<>>
                       /\ Over(run[r], run'[r], ok /\ ~run[r].failed)
                    \/ Onward(run[r], run'[r], ok)
                 /\ \A o \in Runs \ {r} : run'[o] = run[o]
  <1>1. ASSUME run' = [run EXCEPT ![r] = AfterTarget(r, ok)]
        PROVE  Over(run[r], run'[r], ok) /\ \A o \in Runs \ {r} : run'[o] = run[o]
    BY <1>1, AfterTargetIs, OneRunMoves
  <1>2. ASSUME run[r].pc \in {"load", "write"}, run' = [run EXCEPT ![r] = AfterRow(r, ok)]
        PROVE  /\ \/ /\ Tail(run[r].queue) = <<>>
                     /\ Over(run[r], run'[r], ok /\ ~run[r].failed)
                  \/ Onward(run[r], run'[r], ok)
               /\ \A o \in Runs \ {r} : run'[o] = run[o]
    BY <1>2, AfterRowIs, OneRunMoves
  <1> QED
    BY <1>1, <1>2

\* A failure is never a success.
LEMMA FailedIs ==
    ASSUME Typed, NEW r \in Runs, run[r].pc \in Busy, UNCHANGED tables,
           \/ run' = [run EXCEPT ![r] = AfterTarget(r, FALSE)]
           \/ /\ run[r].pc \in {"load", "write"}
              /\ run' = [run EXCEPT ![r] = AfterRow(r, FALSE)]
    PROVE  Failed(r) /\ \A o \in Runs \ {r} : run'[o] = run[o]
  <1>1. FALSE \in BOOLEAN /\ (FALSE /\ ~run[r].failed) = FALSE
    OBVIOUS
  <1>2. CASE run' = [run EXCEPT ![r] = AfterTarget(r, FALSE)]
    BY <1>1, <1>2, OverIs DEF Failed
  <1>3. CASE run[r].pc \in {"load", "write"} /\ run' = [run EXCEPT ![r] = AfterRow(r, FALSE)]
    <2>1. /\ \/ Over(run[r], run'[r], FALSE /\ ~run[r].failed)
             \/ Onward(run[r], run'[r], FALSE)
          /\ \A o \in Runs \ {r} : run'[o] = run[o]
      BY <1>1, <1>3, OverIs
    <2>2. Over(run[r], run'[r], FALSE /\ ~run[r].failed) => Over(run[r], run'[r], FALSE)
      BY DEF Over
    <2> QED
      BY <1>3, <2>1, <2>2 DEF Failed
  <1> QED
    BY <1>2, <1>3

LEMMA ResolveSteps ==
    ASSUME Typed, NEW r \in Runs, Resolve(r)
    PROVE  (Resolved(r) \/ Failed(r)) /\ \A o \in Runs \ {r} : run'[o] = run[o]
  <1>1. /\ run[r].pc = "resolve" /\ run[r].pc \in Busy /\ UNCHANGED tables
        /\ run[r].queue \in Seq(Nat)
    BY ResolveIs, QueueIs DEF Busy
  <1>2. CASE run' = [run EXCEPT ![r] = AfterTarget(r, FALSE)]
    BY <1>1, <1>2, FailedIs
  <1>3. CASE run' # [run EXCEPT ![r] = AfterTarget(r, FALSE)]
    <2> DEFINE pc == IF Args[r].fresh THEN "reset" ELSE "download"
    <2>1. PICK s \in Securities :
             /\ run' = [run EXCEPT ![r].sec = s, ![r].pc = pc]
             /\ CompanyOf(s) = CompanyOf(Target(r))
             /\ run[r].catalog /\ "lookup" \notin Faults /\ PricedOf(Target(r)) # {}
                => s \in PricedOf(Target(r)) \/ Target(r) \notin CIKs
      BY <1>3, ResolveIs DEF PricedOf
    <2>2. PricedOf(Target(r)) # {} => Target(r) \in CIKs
      <3>1. \A c \in Priced : CikOf[c] \in CIKs
        BY IngestAssumption
      <3> HIDE DEF pc
      <3> QED
        BY <3>1 DEF PricedOf
    <2>3. Moved(r, pc, s, run[r].queue)
      BY <2>1, ResolvedMoves
    <2>4. pc \in Busy \cup {"dead"} /\ pc \notin {"load", "write"}
      BY DEF Busy
    <2>5. Goes(r, pc, s, run[r].queue) /\ \A o \in Runs \ {r} : run'[o] = run[o]
      <3> HIDE DEF pc
      <3> QED
        BY <1>1, <2>3, <2>4, MovedGoes
    <2> QED
      BY <1>1, <2>1, <2>2, <2>5 DEF Resolved
  <1> QED
    BY <1>2, <1>3

LEMMA InsertSteps ==
    ASSUME Typed, NEW r \in Runs, Insert(r)
    PROVE  (Found(r) \/ Inserted(r)) /\ \A o \in Runs \ {r} : run'[o] = run[o]
  <1> DEFINE new == [id |-> nextId, cik |-> CompanyOf(run[r].sec),
                     ticker |-> run[r].sec, normalized |-> FALSE]
             q == <<nextId>>
  <1>1. /\ run[r].pc = "insert" /\ run[r].pc \in Busy /\ UNCHANGED facts
        /\ run[r].queue \in Seq(Nat) /\ run[r].sec \in Securities
        /\ "list" \in Busy \cup {"dead"} /\ "load" \in Busy \cup {"dead"} /\ nextId \in Nat \ {0}
    BY InsertIs, QueueIs DEF Busy, Typed
  <1>2. CompanyOf(run[r].sec) \in CIKs
    BY <1>1, IngestAssumption DEF CompanyOf, Securities
  <1>3. /\ new \in StagingRows /\ new.id = nextId /\ new.cik = CompanyOf(run[r].sec)
        /\ new.ticker = run[r].sec /\ ~new.normalized
    BY <1>1, <1>2 DEF StagingRows
  <1>4. /\ q \in Seq(Nat) /\ q # <<>> /\ DOMAIN q = {1} /\ q[1] = nextId /\ Head(q) = nextId
        /\ Tail(q) = <<>>
    BY <1>1
  <1>5. \/ /\ \E row \in staging : row.cik = CompanyOf(run[r].sec)
           /\ Moved(r, "list", run[r].sec, run[r].queue)
           /\ UNCHANGED <<staging, nextId>>
        \/ /\ \A row \in staging : row.cik # CompanyOf(run[r].sec)
           /\ Moved(r, "load", run[r].sec, q)
           /\ staging' = staging \cup {new}
    BY InsertIs
  <1> HIDE DEF new, q
  <1>6. CASE /\ \E row \in staging : row.cik = CompanyOf(run[r].sec)
             /\ Moved(r, "list", run[r].sec, run[r].queue)
             /\ UNCHANGED <<staging, nextId>>
    <2>1. Goes(r, "list", run[r].sec, run[r].queue) /\ \A o \in Runs \ {r} : run'[o] = run[o]
      BY <1>1, <1>6, MovedGoes
    <2> QED
      BY <1>1, <1>6, <2>1 DEF Found, tables
  <1>7. CASE /\ \A row \in staging : row.cik # CompanyOf(run[r].sec)
             /\ Moved(r, "load", run[r].sec, q)
             /\ staging' = staging \cup {new}
    <2>1. Goes(r, "load", run[r].sec, q) /\ \A o \in Runs \ {r} : run'[o] = run[o]
      BY <1>1, <1>4, <1>7, MovedGoes
    <2> QED
      BY <1>1, <1>3, <1>4, <1>7, <2>1 DEF Inserted
  <1> QED
    BY <1>5, <1>6, <1>7

LEMMA ListSteps ==
    ASSUME Typed, NEW r \in Runs, ListPending(r)
    PROVE  (NonePending(r) \/ Listed(r)) /\ \A o \in Runs \ {r} : run'[o] = run[o]
  <1>1. /\ run[r].pc = "list" /\ run[r].pc \in Busy /\ UNCHANGED tables
        /\ run[r].sec \in Securities /\ "load" \in Busy \cup {"dead"}
    BY ListIs, QueueIs DEF Busy
  <1>2. CASE run' = [run EXCEPT ![r] = AfterTarget(r, TRUE)] /\ PendingIds = {}
    BY <1>1, <1>2, OverIs DEF NonePending
  <1>3. ASSUME NEW batch \in Seq(Nat), batch # <<>>, Moved(r, "load", run[r].sec, batch),
               \A id \in PendingIds :
                   InBatch(id, batch) \/ \E S \in SUBSET Nat : OlderBatch(S, id, batch)
        PROVE  Listed(r) /\ \A o \in Runs \ {r} : run'[o] = run[o]
    <2>1. Goes(r, "load", run[r].sec, batch) /\ \A o \in Runs \ {r} : run'[o] = run[o]
      BY <1>1, <1>3, MovedGoes
    <2> QED
      BY <1>1, <1>3, <2>1 DEF Listed
  <1> QED
    BY <1>2, <1>3, ListIs

LEMMA LoadSteps ==
    ASSUME Typed, NEW r \in Runs, Load(r)
    PROVE  (Loaded(r) \/ Failed(r)) /\ \A o \in Runs \ {r} : run'[o] = run[o]
  <1>1. /\ run[r].pc = "load" /\ run[r].pc \in Busy /\ UNCHANGED tables
        /\ run[r].queue \in Seq(Nat) /\ run[r].queue # <<>> /\ "write" \in Busy \cup {"dead"}
    BY LoadIs, QueueIs DEF Busy
  <1>2. CASE run' = [run EXCEPT ![r] = AfterRow(r, FALSE)]
    BY <1>1, <1>2, FailedIs
  <1>3. ASSUME NEW row \in staging, row.id = Head(run[r].queue),
               Moved(r, "write", row.ticker, run[r].queue)
        PROVE  Loaded(r) /\ \A o \in Runs \ {r} : run'[o] = run[o]
    <2>1. row.ticker \in Securities
      BY DEF Typed, StagingRows
    <2>2. Goes(r, "write", row.ticker, run[r].queue) /\ \A o \in Runs \ {r} : run'[o] = run[o]
      BY <1>1, <1>3, <2>1, MovedGoes
    <2> QED
      BY <1>1, <1>3, <2>2 DEF Loaded
  <1> QED
    BY <1>2, <1>3, LoadIs

LEMMA WriteSteps ==
    ASSUME Typed, NEW r \in Runs, Write(r)
    PROVE  (Committed(r) \/ Failed(r)) /\ \A o \in Runs \ {r} : run'[o] = run[o]
  <1>1. run[r].pc = "write" /\ run[r].pc \in Busy /\ UNCHANGED nextId
    BY WriteIs DEF Busy
  <1>2. CASE run' = [run EXCEPT ![r] = AfterRow(r, FALSE)] /\ UNCHANGED <<staging, facts>>
    BY <1>1, <1>2, FailedIs DEF tables
  <1>3. CASE /\ run' = [run EXCEPT ![r] = AfterRow(r, TRUE)]
             /\ \E row \in staging :
                   /\ row.id = Head(run[r].queue)
                   /\ staging' = (staging \ {row}) \cup {[row EXCEPT !.normalized = TRUE]}
             /\ facts' = [facts EXCEPT ![run[r].sec] =
                              Upserted(facts[run[r].sec], Args[r].dict)]
    <2>1. /\ \/ /\ Tail(run[r].queue) = <<>>
                /\ Over(run[r], run'[r], TRUE /\ ~run[r].failed)
             \/ Onward(run[r], run'[r], TRUE)
          /\ \A o \in Runs \ {r} : run'[o] = run[o]
      BY <1>1, <1>3, OverIs
    <2>2. Over(run[r], run'[r], TRUE /\ ~run[r].failed) => Over(run[r], run'[r], ~run[r].failed)
      BY DEF Over
    <2> QED
      BY <1>1, <1>3, <2>1, <2>2 DEF Committed
  <1> QED
    BY <1>2, <1>3, WriteIs

LEMMA StepIs ==
    ASSUME Typed, NEW r \in Runs, RunStep(r)
    PROVE  Typed' /\ Stepped(r) /\ run[r].pc \in Busy /\ \A o \in Runs \ {r} : run'[o] = run[o]
  <1>1. Typed'
    BY TypedNext DEF Next
  <1>2. CASE Resolve(r) \/ Insert(r) \/ ListPending(r) \/ Load(r) \/ Write(r)
    <2>1. run[r].pc \in Busy
      BY <1>2, ResolveIs, InsertIs, ListIs, LoadIs, WriteIs DEF Busy
    <2> QED
      BY <1>1, <1>2, <2>1, ResolveSteps, InsertSteps, ListSteps, LoadSteps, WriteSteps
      DEF Stepped
  <1>3. CASE Reset(r)
    <2>1. /\ run[r].pc = "reset" /\ run[r].pc \in Busy /\ "download" \in Busy \cup {"dead"}
          /\ run[r].queue \in Seq(Nat) /\ run[r].sec \in Securities
          /\ Moved(r, "download", run[r].sec, run[r].queue)
      BY <1>3, ResetIs, QueueIs DEF Busy
    <2>2. /\ Goes(r, "download", run[r].sec, run[r].queue)
          /\ \A o \in Runs \ {r} : run'[o] = run[o]
      BY <2>1, MovedGoes
    <2> QED
      BY <1>1, <1>3, <2>1, <2>2, ResetIs DEF Emptied, Stepped
  <1>4. CASE Download(r)
    <2>1. /\ run[r].pc = "download" /\ run[r].pc \in Busy /\ "insert" \in Busy \cup {"dead"}
          /\ run[r].queue \in Seq(Nat) /\ run[r].sec \in Securities /\ UNCHANGED tables
      BY <1>4, DownloadIs, QueueIs DEF Busy
    <2>2. CASE Moved(r, "insert", run[r].sec, run[r].queue)
      <3>1. /\ Goes(r, "insert", run[r].sec, run[r].queue)
            /\ \A o \in Runs \ {r} : run'[o] = run[o]
        BY <2>1, <2>2, MovedGoes
      <3> QED
        BY <1>1, <2>1, <3>1 DEF Downloaded, Stepped
    <2>3. CASE run' = [run EXCEPT ![r] = AfterTarget(r, FALSE)]
      BY <1>1, <2>1, <2>3, FailedIs DEF Stepped
    <2> QED
      BY <1>4, <2>2, <2>3, DownloadIs
  <1>5. CASE DatabaseFails(r)
    <2>1. run[r].pc \in Busy /\ UNCHANGED tables
      BY <1>5, DatabaseFailsIs DEF Busy
    <2> QED
      BY <1>1, <1>5, <2>1, DatabaseFailsIs, FailedIs DEF Stepped
  <1>6. CASE Crash(r)
    <2>1. /\ run[r].pc \in Busy /\ UNCHANGED tables /\ "dead" \in Busy \cup {"dead"}
          /\ "dead" \notin {"load", "write"}
          /\ run[r].queue \in Seq(Nat) /\ run[r].sec \in Securities
          /\ Moved(r, "dead", run[r].sec, run[r].queue)
      BY <1>6, CrashIs, QueueIs
    <2>2. Goes(r, "dead", run[r].sec, run[r].queue) /\ \A o \in Runs \ {r} : run'[o] = run[o]
      BY <2>1, MovedGoes
    <2> QED
      BY <1>1, <2>1, <2>2 DEF Died, Stepped
  <1> QED
    BY <1>2, <1>3, <1>4, <1>5, <1>6 DEF RunStep

\* Where a step counts its target as a success.
LEMMA SuccessIs ==
    ASSUME NEW r \in Runs, Stepped(r), run'[r].succeeded # run[r].succeeded
    PROVE  /\ \/ NonePending(r)
              \/ Committed(r) /\ Tail(run[r].queue) = <<>> /\ ~run[r].failed
           /\ run'[r].succeeded = run[r].succeeded \cup {run[r].at}
  <1>1. CASE NonePending(r)
    BY <1>1 DEF NonePending, Over
  <1>2. CASE Committed(r)
    BY <1>2 DEF Committed, Over, Onward
  <1>3. CASE Resolved(r) \/ Emptied(r) \/ Downloaded(r) \/ Found(r)
    BY <1>3 DEF Resolved, Emptied, Downloaded, Found, Goes
  <1>4. CASE Inserted(r) \/ Listed(r) \/ Loaded(r) \/ Died(r)
    BY <1>4 DEF Inserted, Listed, Loaded, Died, Goes
  <1>5. CASE Failed(r)
    BY <1>5 DEF Failed, Over, Onward
  <1> QED
    BY <1>1, <1>2, <1>3, <1>4, <1>5 DEF Stepped

\* No step changes what a run was asked for, nor whether it is alone.
LEMMA StepKeeps ==
    ASSUME NEW r \in Runs, Stepped(r)
    PROVE  /\ run'[r].alone = run[r].alone /\ run'[r].targets = run[r].targets
           /\ run'[r].catalog = run[r].catalog
  <1>1. CASE Resolved(r) \/ Emptied(r) \/ Downloaded(r) \/ Found(r)
    BY <1>1 DEF Resolved, Emptied, Downloaded, Found, Goes
  <1>2. CASE Inserted(r) \/ Listed(r) \/ Loaded(r) \/ Died(r)
    BY <1>2 DEF Inserted, Listed, Loaded, Died, Goes
  <1>3. CASE NonePending(r) \/ Committed(r) \/ Failed(r)
    BY <1>3 DEF NonePending, Committed, Failed, Over, Onward
  <1> QED
    BY <1>1, <1>2, <1>3 DEF Stepped

-----------------------------------------------------------------------------
(* The rows and the facts across a step.                                   *)

SameRow(a, b) == a.id = b.id /\ a.cik = b.cik /\ a.ticker = b.ticker

\* A row is new, or was there before; only the row of a commit becomes normalized.
LEMMA RowsBefore ==
    ASSUME Typed, NEW r \in Runs, Stepped(r), NEW row \in staging'
    PROVE  \/ Inserted(r) /\ row.id = nextId /\ row.cik = CompanyOf(run[r].sec) /\ ~row.normalized
           \/ \E old \in staging :
                 /\ SameRow(row, old)
                 /\ row.normalized =>
                       old.normalized \/ (Committed(r) /\ old.id = Head(run[r].queue))
  <1>1. CASE Inserted(r)
    <2>1. PICK new \in StagingRows :
             /\ new.id = nextId /\ new.cik = CompanyOf(run[r].sec) /\ ~new.normalized
             /\ staging' = staging \cup {new}
      BY <1>1 DEF Inserted
    <2>2. CASE row = new
      BY <1>1, <2>1, <2>2
    <2>3. CASE row \in staging
      BY <2>3 DEF SameRow
    <2> QED
      BY <2>1, <2>2, <2>3
  <1>2. CASE Committed(r)
    <2>1. PICK done \in staging :
             /\ done.id = Head(run[r].queue)
             /\ staging' = (staging \ {done}) \cup {[done EXCEPT !.normalized = TRUE]}
      BY <1>2 DEF Committed
    <2>2. \A new \in staging' : \E old \in staging :
             /\ new.id = old.id /\ new.cik = old.cik /\ new.ticker = old.ticker
             /\ new.normalized => old.normalized \/ old = done
      BY <2>1, MarkIs
    <2>3. PICK old \in staging :
             /\ row.id = old.id /\ row.cik = old.cik /\ row.ticker = old.ticker
             /\ row.normalized => old.normalized \/ old = done
      BY <2>2
    <2>4. SameRow(row, old)
      BY <2>3 DEF SameRow
    <2>5. row.normalized => old.normalized \/ (Committed(r) /\ old.id = Head(run[r].queue))
      BY <1>2, <2>1, <2>3
    <2> QED
      BY <2>4, <2>5
  <1>3. CASE ~Inserted(r) /\ ~Committed(r)
    <2>1. staging' \subseteq staging
      BY <1>3 DEF Stepped, Resolved, Emptied, Downloaded, Found, NonePending, Listed, Loaded,
                  Failed, Died, tables
    <2>2. row \in staging /\ SameRow(row, row)
      BY <2>1 DEF SameRow
    <2> QED
      BY <2>2
  <1> QED
    BY <1>1, <1>2, <1>3

\* Only a reset deletes rows, and those of one company; a commit normalizes its row.
LEMMA RowsAfter ==
    ASSUME Typed, NEW r \in Runs, Stepped(r), NEW row \in staging, ~Emptied(r)
    PROVE  \E new \in staging' : /\ SameRow(new, row)
                                 /\ row.normalized => new.normalized
                                 /\ Committed(r) /\ row.id = Head(run[r].queue) => new.normalized
  <1>1. CASE Committed(r)
    <2>1. PICK done \in staging :
             /\ done.id = Head(run[r].queue)
             /\ staging' = (staging \ {done}) \cup {[done EXCEPT !.normalized = TRUE]}
      BY <1>1 DEF Committed
    <2>2. \A old \in staging : \E new \in staging' :
             /\ new.id = old.id /\ new.cik = old.cik /\ new.ticker = old.ticker
             /\ old.normalized \/ old = done => new.normalized
      BY <2>1, MarkIs
    <2>3. row.id = Head(run[r].queue) => row = done
      BY <2>1 DEF Typed
    <2> QED
      BY <2>2, <2>3 DEF SameRow
  <1>2. CASE ~Committed(r)
    <2>1. staging \subseteq staging'
      BY <1>2 DEF Stepped, Resolved, Downloaded, Found, Inserted, NonePending, Listed, Loaded,
                  Failed, Died, tables
    <2> QED
      BY <1>2, <2>1 DEF SameRow
  <1> QED
    BY <1>1, <1>2

\* Facts are rewritten and never deleted.
LEMMA FactsStay ==
    ASSUME Typed, NEW r \in Runs, Stepped(r)
    PROVE  /\ \A s \in Securities : HasFacts(s) => HasFacts(s)'
           /\ Committed(r) => /\ facts'[run[r].sec] # NoFacts
                              /\ \A c \in Produces[Args[r].dict] :
                                    /\ facts'[run[r].sec][c] # <<>>
                                    /\ Last(facts'[run[r].sec][c]) = Args[r].dict
           /\ ~Committed(r) => facts' = facts
  <1>1. CASE Committed(r)
    <2> DEFINE s == run[r].sec
    <2>1. s \in Securities /\ facts[s] \in [Concepts -> Seq(Dicts)] /\ Args[r].dict \in Dicts
      BY QueueIs, IngestAssumption DEF Typed
    <2>2. facts' = [facts EXCEPT ![s] = Upserted(facts[s], Args[r].dict)]
      BY <1>1 DEF Committed
    <2>3. facts \in [Securities -> [Concepts -> Seq(Dicts)]]
      BY DEF Typed
    <2> HIDE DEF s
    <2>4. facts'[s] = Upserted(facts[s], Args[r].dict)
      BY <2>1, <2>2, <2>3
    <2>5. \A t \in Securities : t # s => facts'[t] = facts[t]
      BY <2>1, <2>2, <2>3
    <2>6. /\ facts'[s] # NoFacts
          /\ \A c \in Produces[Args[r].dict] :
                facts'[s][c] # <<>> /\ Last(facts'[s][c]) = Args[r].dict
      BY <2>1, <2>4, UpsertedIs
    <2>7. \A t \in Securities : HasFacts(t) => HasFacts(t)'
      BY <2>5, <2>6 DEF HasFacts
    <2> QED
      BY <1>1, <2>6, <2>7 DEF s
  <1>2. CASE ~Committed(r)
    <2>1. facts' = facts
      BY <1>2 DEF Stepped, Resolved, Emptied, Downloaded, Found, Inserted, NonePending, Listed,
                  Loaded, Failed, Died, tables
    <2> QED
      BY <1>2, <2>1 DEF HasFacts
  <1> QED
    BY <1>1, <1>2

-----------------------------------------------------------------------------
(* A mark and its facts.                                                   *)

\* The row under transaction carries the ticker under which the facts are written.
WritesItsRow ==
    \A r \in Runs : run[r].pc = "write" =>
        \A row \in staging : row.id = Head(run[r].queue) => row.ticker = run[r].sec

LEMMA WritesItsRowNext == Typed /\ WritesItsRow /\ [Next]_vars => WritesItsRow'
  <1> SUFFICES ASSUME Typed, WritesItsRow, [Next]_vars PROVE WritesItsRow'
    OBVIOUS
  <1>1. ASSUME NEW b \in Runs, Begin(b) PROVE WritesItsRow'
    <2>1. UNCHANGED staging
      BY <1>1, BeginIs DEF tables
    <2>2. /\ run'[b].pc = "resolve"
          /\ \A o \in Runs \ {b} : /\ run'[o].pc = run[o].pc /\ run'[o].sec = run[o].sec
                                   /\ run'[o].queue = run[o].queue
      BY <1>1, BeginTyped
    <2> QED
      BY <2>1, <2>2 DEF WritesItsRow
  <1>2. ASSUME NEW r \in Runs, RunStep(r) PROVE WritesItsRow'
    <2>1. /\ Typed' /\ Stepped(r) /\ run[r].pc \in Busy
          /\ \A o \in Runs \ {r} : run'[o] = run[o]
      BY <1>2, StepIs
    <2>2. ASSUME NEW o \in Runs \ {r}, run'[o].pc = "write", NEW row \in staging',
                 row.id = Head(run'[o].queue)
          PROVE  row.ticker = run'[o].sec
      <3>1. run'[o] = run[o] /\ Head(run[o].queue) \in 1..(nextId - 1) /\ nextId \in Nat
        BY <2>1, <2>2, QueueIs DEF Typed
      <3>2. row.id # nextId
        BY <2>2, <3>1
      <3>3. PICK old \in staging : SameRow(row, old)
        BY <2>1, <3>2, RowsBefore
      <3> QED
        BY <2>2, <3>1, <3>3 DEF SameRow, WritesItsRow
    <2>3. ASSUME run'[r].pc = "write", NEW row \in staging', row.id = Head(run'[r].queue)
          PROVE  row.ticker = run'[r].sec
      <3>1. Loaded(r)
        BY <2>1, <2>3 DEF Stepped, Resolved, Emptied, Downloaded, Found, Inserted, NonePending,
                          Listed, Committed, Failed, Died, Goes, Over, Onward
      <3>2. PICK own \in staging : /\ own.id = Head(run[r].queue) /\ run'[r].sec = own.ticker
                                   /\ run'[r].queue = run[r].queue
        BY <3>1 DEF Loaded, Goes
      <3>3. staging' = staging
        BY <3>1 DEF Loaded, tables
      <3>4. row = own
        BY <2>3, <3>2, <3>3 DEF Typed
      <3> QED
        BY <3>2, <3>4
    <2> QED
      BY <2>2, <2>3 DEF WritesItsRow
  <1>3. CASE UNCHANGED vars
    BY <1>3 DEF vars, WritesItsRow
  <1> QED
    BY <1>1, <1>2, <1>3 DEF Next

LEMMA NormalizedNext ==
    Typed /\ WritesItsRow /\ NormalizedHasFacts /\ [Next]_vars => NormalizedHasFacts'
  <1> SUFFICES ASSUME Typed, WritesItsRow, NormalizedHasFacts, [Next]_vars
               PROVE  NormalizedHasFacts'
    OBVIOUS
  <1>1. ASSUME NEW b \in Runs, Begin(b) PROVE NormalizedHasFacts'
    BY <1>1, BeginIs DEF tables, NormalizedHasFacts, HasFacts
  <1>2. ASSUME NEW r \in Runs, RunStep(r) PROVE NormalizedHasFacts'
    <2>1. Stepped(r)
      BY <1>2, StepIs
    <2>2. ASSUME NEW row \in staging', row.normalized PROVE HasFacts(row.ticker)'
      <3>1. PICK old \in staging :
               /\ SameRow(row, old)
               /\ old.normalized \/ (Committed(r) /\ old.id = Head(run[r].queue))
        BY <2>1, <2>2, RowsBefore
      <3>2. old.ticker \in Securities /\ row.ticker = old.ticker
        BY <3>1 DEF SameRow, Typed, StagingRows
      <3>3. CASE old.normalized
        <4>1. HasFacts(old.ticker)
          BY <3>3 DEF NormalizedHasFacts
        <4>2. facts'[old.ticker] # NoFacts
          BY <2>1, <3>2, <4>1, FactsStay DEF HasFacts
        <4> QED
          BY <3>2, <4>2 DEF HasFacts
      <3>4. CASE Committed(r) /\ old.id = Head(run[r].queue)
        <4>1. old.ticker = run[r].sec
          BY <3>4 DEF Committed, WritesItsRow
        <4>2. facts'[run[r].sec] # NoFacts
          BY <2>1, <3>4, FactsStay
        <4> QED
          BY <3>2, <4>1, <4>2 DEF HasFacts
      <3> QED
        BY <3>1, <3>3, <3>4
    <2> QED
      BY <2>2 DEF NormalizedHasFacts
  <1>3. CASE UNCHANGED vars
    BY <1>3 DEF vars, NormalizedHasFacts, HasFacts
  <1> QED
    BY <1>1, <1>2, <1>3 DEF Next

LEMMA WritesItsRowAlways == Spec => [](WritesItsRow /\ NormalizedHasFacts)
  <1>1. Init => WritesItsRow /\ NormalizedHasFacts
    BY DEF Init, Idle, WritesItsRow, NormalizedHasFacts
  <1>2. /\ Typed /\ WritesItsRow /\ NormalizedHasFacts /\ [Next]_vars
        => (WritesItsRow /\ NormalizedHasFacts)'
    BY WritesItsRowNext, NormalizedNext
  <1> QED
    BY <1>1, <1>2, TypedAlways, PTL DEF Spec

\* A staging row marked normalized has its facts, however the runs interleave, fail
\* and crash: the mark commits with the facts or not at all (NormalizeStaging).
THEOREM MarkedRowsHaveFacts == Spec => []NormalizedHasFacts
  BY WritesItsRowAlways, PTL

-----------------------------------------------------------------------------
(* Runs that are alone.                                                    *)

\* A run that is alone is the only one under way.
Solo == \A r \in Runs : run[r].alone /\ Active(r) => \A q \in Runs \ {r} : ~Active(q)

LEMMA SoloNext == Typed /\ Solo /\ [Next]_vars => Solo'
  <1> SUFFICES ASSUME Typed, Solo, [Next]_vars PROVE Solo'
    OBVIOUS
  <1>1. ASSUME NEW b \in Runs, Begin(b) PROVE Solo'
    <2>1. /\ run'[b].pc = "resolve" /\ run'[b].alone = (\A q \in Runs \ {b} : ~Active(q))
          /\ \A q \in Runs \ {b} : /\ run'[q].pc = run[q].pc
                                   /\ run'[q].alone = (run[q].alone /\ ~Active(q))
      BY <1>1, BeginTyped
    <2>2. \A q \in Runs \ {b} : Active(q)' <=> Active(q)
      BY <2>1 DEF Active
    <2>3. ASSUME NEW q \in Runs \ {b}, run'[q].alone PROVE ~Active(q)'
      <3>1. run[q].alone /\ ~Active(q)
        BY <2>1, <2>3
      <3> QED
        BY <2>2, <3>1
    <2>4. run'[b].alone => \A q \in Runs \ {b} : ~Active(q)'
      BY <2>1, <2>2
    <2> QED
      BY <2>3, <2>4 DEF Solo
  <1>2. ASSUME NEW r \in Runs, RunStep(r) PROVE Solo'
    <2>1. /\ Stepped(r) /\ run[r].pc \in Busy /\ \A o \in Runs \ {r} : run'[o] = run[o]
      BY <1>2, StepIs
    <2>2. Active(r) /\ \A o \in Runs \ {r} : Active(o)' <=> Active(o)
      BY <2>1 DEF Active, Busy
    <2>3. run'[r].alone = run[r].alone
      BY <2>1, StepKeeps
    <2>4. ASSUME NEW o \in Runs \ {r}, run'[o].alone PROVE ~Active(o)'
      BY <2>1, <2>2, <2>4 DEF Solo
    <2>5. run'[r].alone => \A q \in Runs \ {r} : ~Active(q)'
      BY <2>2, <2>3 DEF Solo
    <2> QED
      BY <2>4, <2>5 DEF Solo
  <1>3. CASE UNCHANGED vars
    BY <1>3 DEF vars, Solo, Active
  <1> QED
    BY <1>1, <1>2, <1>3 DEF Next

LEMMA SoloAlways == Spec => []Solo
  <1>1. Init => Solo
    BY DEF Init, Idle, Solo, Active
  <1>2. Typed /\ Solo /\ [Next]_vars => Solo'
    BY SoloNext
  <1> QED
    BY <1>1, <1>2, TypedAlways, PTL DEF Spec

\* When a run steps, a run that is alone is this one, or is not under way.
LEMMA AloneSteps ==
    ASSUME Typed, Solo, NEW r \in Runs, RunStep(r), NEW o \in Runs, o # r, run'[o].alone
    PROVE  run'[o] = run[o] /\ run[o].pc \notin Busy /\ run'[o].pc \notin Busy
  <1>1. run'[o] = run[o] /\ run[r].pc \in Busy
    BY StepIs
  <1>2. ~Active(o) \/ ~Active(r)
    BY <1>1 DEF Solo
  <1> QED
    BY <1>1, <1>2, RunIs

\* When a run begins, a run that is alone is this one, or is not under way.
LEMMA AloneBegins ==
    ASSUME Typed, NEW b \in Runs, Begin(b), NEW o \in Runs, run'[o].alone
    PROVE  IF o = b THEN run'[o].pc = "resolve" ELSE run'[o].pc \notin Busy
  <1>1. CASE o = b
    BY <1>1, BeginTyped
  <1>2. CASE o # b
    <2>1. run'[o].pc = run[o].pc /\ run'[o].alone = (run[o].alone /\ ~Active(o))
      BY <1>2, BeginTyped
    <2>2. ~Active(o)
      BY <2>1
    <2> QED
      BY <1>2, <2>1, <2>2, RunIs
  <1> QED
    BY <1>1, <1>2

\* The class that a run resolved is of the company of its target.
OnTarget == \A r \in Runs : run[r].pc \in {"reset", "download", "insert", "list"} =>
                CompanyOf(run[r].sec) = CompanyOf(Target(r))

LEMMA OnTargetNext == Typed /\ OnTarget /\ [Next]_vars => OnTarget'
  <1> SUFFICES ASSUME Typed, OnTarget, [Next]_vars PROVE OnTarget'
    OBVIOUS
  <1>1. ASSUME NEW b \in Runs, Begin(b) PROVE OnTarget'
    <2>1. /\ run'[b].pc = "resolve"
          /\ \A o \in Runs \ {b} :
                /\ run'[o].pc = run[o].pc /\ run'[o].targets = run[o].targets
                /\ run'[o].at = run[o].at /\ run'[o].sec = run[o].sec
      BY <1>1, BeginTyped
    <2>2. \A o \in Runs \ {b} : Target(o)' = Target(o)
      BY <2>1 DEF Target
    <2> QED
      BY <2>1, <2>2 DEF OnTarget, CompanyOf
  <1>2. ASSUME NEW r \in Runs, RunStep(r) PROVE OnTarget'
    <2>1. /\ Stepped(r) /\ \A o \in Runs \ {r} : run'[o] = run[o]
      BY <1>2, StepIs
    <2>2. \A o \in Runs \ {r} : Target(o)' = Target(o)
      BY <2>1 DEF Target
    <2>3. \A o \in Runs \ {r} : run'[o].pc \in {"reset", "download", "insert", "list"} =>
              CompanyOf(run'[o].sec) = CompanyOf(Target(o)')
      BY <2>1, <2>2 DEF OnTarget
    <2>4. run'[r].pc \in {"reset", "download", "insert", "list"} =>
              CompanyOf(run'[r].sec) = CompanyOf(Target(r)')
      <3>1. CASE Resolved(r) \/ Emptied(r) \/ Downloaded(r) \/ Found(r)
        BY <3>1 DEF Resolved, Emptied, Downloaded, Found, Goes, OnTarget
      <3>2. CASE ~(Resolved(r) \/ Emptied(r) \/ Downloaded(r) \/ Found(r))
        <4>1. run'[r].pc \in {"load", "write", "ended", "resolve", "dead"}
          BY <2>1, <3>2 DEF Stepped, Inserted, NonePending, Listed, Loaded, Committed, Failed,
                            Died, Goes, Over, Onward
        <4> QED
          BY <4>1
      <3> QED
        BY <3>1, <3>2
    <2> QED
      BY <2>3, <2>4 DEF OnTarget, CompanyOf
  <1>3. CASE UNCHANGED vars
    BY <1>3 DEF vars, OnTarget, Target, CompanyOf
  <1> QED
    BY <1>1, <1>2, <1>3 DEF Next

-----------------------------------------------------------------------------
(* A fresh run.                                                            *)

\* A fresh run that is alone meets no row of its company, and processes only its own.
Fresh(r) == /\ run[r].pc # "list"
            /\ run[r].pc \in {"download", "insert"} =>
                  \A row \in staging : row.cik # CompanyOf(Target(r))
            /\ run[r].pc \in {"load", "write"} => Tail(run[r].queue) = <<>>
FreshWalk == \A r \in Runs : Args[r].fresh /\ run[r].alone => Fresh(r)

LEMMA FreshStep ==
    ASSUME Typed, OnTarget, FreshWalk, NEW r \in Runs, RunStep(r), Args[r].fresh, run'[r].alone
    PROVE  Fresh(r)'
  <1>1. Stepped(r) /\ run[r].pc \in Busy
    BY StepIs
  <1>2. run[r].alone
    BY <1>1, StepKeeps
  <1>3. Fresh(r)
    BY <1>2 DEF FreshWalk
  <1>4. CASE Resolved(r)
    <2>1. run'[r].pc = "reset"
      BY <1>4 DEF Resolved, Goes
    <2> QED
      BY <2>1 DEF Fresh
  <1>5. CASE Emptied(r)
    <2>1. run'[r].pc = "download" /\ Target(r)' = Target(r)
          /\ staging' = {row \in staging : row.cik # CompanyOf(run[r].sec)}
          /\ CompanyOf(run[r].sec) = CompanyOf(Target(r))
      BY <1>5 DEF Emptied, Goes, OnTarget
    <2> QED
      BY <2>1 DEF Fresh, CompanyOf
  <1>6. CASE Downloaded(r)
    <2>1. run'[r].pc = "insert" /\ Target(r)' = Target(r) /\ staging' = staging
          /\ run[r].pc = "download"
      BY <1>6 DEF Downloaded, Goes, tables
    <2> QED
      BY <1>3, <2>1 DEF Fresh, CompanyOf
  <1>7. CASE Found(r)
    BY <1>3, <1>7 DEF Found, Fresh, OnTarget
  <1>8. CASE Inserted(r)
    <2>1. run'[r].pc = "load" /\ Tail(run'[r].queue) = <<>>
      BY <1>8 DEF Inserted, Goes
    <2> QED
      BY <2>1 DEF Fresh
  <1>9. CASE NonePending(r) \/ Listed(r)
    BY <1>3, <1>9 DEF NonePending, Listed, Fresh
  <1>10. CASE Loaded(r)
    <2>1. run'[r].pc = "write" /\ run'[r].queue = run[r].queue /\ run[r].pc = "load"
      BY <1>10 DEF Loaded, Goes
    <2> QED
      BY <1>3, <2>1 DEF Fresh
  <1>11. CASE Committed(r) \/ Failed(r) \/ Died(r)
    <2>1. run'[r].pc \in {"ended", "resolve", "dead"}
      BY <1>3, <1>11 DEF Committed, Failed, Died, Over, Onward, Goes, Fresh
    <2> QED
      BY <2>1 DEF Fresh
  <1> QED
    BY <1>1, <1>4, <1>5, <1>6, <1>7, <1>8, <1>9, <1>10, <1>11 DEF Stepped

LEMMA FreshNext == Typed /\ Solo /\ OnTarget /\ FreshWalk /\ [Next]_vars => FreshWalk'
  <1> SUFFICES ASSUME Typed, Solo, OnTarget, FreshWalk, [Next]_vars PROVE FreshWalk'
    OBVIOUS
  <1>1. ASSUME NEW b \in Runs, Begin(b) PROVE FreshWalk'
    <2>1. \A o \in Runs : run'[o].alone =>
             run'[o].pc \notin {"list", "download", "insert", "load", "write"}
      BY <1>1, AloneBegins DEF Busy
    <2> QED
      BY <2>1 DEF FreshWalk, Fresh
  <1>2. ASSUME NEW r \in Runs, RunStep(r) PROVE FreshWalk'
    <2>1. ASSUME NEW o \in Runs \ {r}, run'[o].alone PROVE Fresh(o)'
      <3>1. run'[o].pc \notin {"list", "download", "insert", "load", "write"}
        BY <1>2, <2>1, AloneSteps DEF Busy
      <3> QED
        BY <3>1 DEF Fresh
    <2>2. Args[r].fresh /\ run'[r].alone => Fresh(r)'
      BY <1>2, FreshStep
    <2> QED
      BY <2>1, <2>2 DEF FreshWalk
  <1>3. CASE UNCHANGED vars
    BY <1>3 DEF vars, FreshWalk, Fresh, Target, CompanyOf
  <1> QED
    BY <1>1, <1>2, <1>3 DEF Next

LEMMA FreshAlways == Spec => [](OnTarget /\ FreshWalk)
  <1>1. Init => OnTarget /\ FreshWalk
    BY DEF Init, Idle, OnTarget, FreshWalk, Fresh
  <1>2. Typed /\ Solo /\ OnTarget /\ FreshWalk /\ [Next]_vars => (OnTarget /\ FreshWalk)'
    BY OnTargetNext, FreshNext
  <1> QED
    BY <1>1, <1>2, TypedAlways, SoloAlways, PTL DEF Spec

\* What a success of a fresh run was: the commit of its own row.
LEMMA FreshSucceeds ==
    ASSUME Typed, FreshWalk, NEW r \in Runs, RunStep(r), Args[r].fresh, run[r].alone,
           run'[r].succeeded # run[r].succeeded
    PROVE  /\ Committed(r) /\ Tail(run[r].queue) = <<>>
           /\ run'[r].succeeded = run[r].succeeded \cup {run[r].at}
  <1>1. Stepped(r) /\ run[r].pc \in Busy /\ Fresh(r)
    BY StepIs DEF FreshWalk
  <1>2. NonePending(r) \/ (Committed(r) /\ Tail(run[r].queue) = <<>>)
    BY <1>1, SuccessIs
  <1>3. Committed(r) /\ Tail(run[r].queue) = <<>>
    BY <1>1, <1>2 DEF NonePending, Fresh
  <1> QED
    BY <1>1, <1>3, SuccessIs

\* A fresh run that was alone and counts a company as ingested has rewritten every
\* concept of its dictionary with that dictionary (RunEdgarJobFresh).
THEOREM FreshRewrites == Spec => FreshIsFresh
  <1> DEFINE P(r) == Args[r].fresh /\ run[r].alone /\ run'[r].succeeded # run[r].succeeded =>
                        \A c \in Produces[Args[r].dict] :
                            /\ facts'[run[r].sec][c] # <<>>
                            /\ Last(facts'[run[r].sec][c]) = Args[r].dict
             All == \A r \in Runs : P(r)
  <1>1. Typed /\ FreshWalk /\ [Next]_vars => [All]_vars
    <2> SUFFICES ASSUME Typed, FreshWalk, Next, NEW r \in Runs PROVE P(r)
      BY DEF All
    <2>1. ASSUME NEW b \in Runs, Begin(b) PROVE run'[r].succeeded = run[r].succeeded
      <3>1. CASE r = b
        <4>1. run'[r].succeeded = {} /\ run[r].pc = "idle"
          BY <2>1, <3>1, BeginTyped, BeginIs
        <4>2. run[r].succeeded \subseteq 1..0
          BY <4>1, RunIs DEF OnCourse
        <4>3. 1..0 = {}
          OBVIOUS
        <4> QED
          BY <4>1, <4>2, <4>3
      <3>2. CASE r # b
        <4>1. \A q \in Runs \ {b} : run'[q].succeeded = run[q].succeeded
          BY <2>1, BeginTyped
        <4> QED
          BY <3>2, <4>1
      <3> QED
        BY <3>1, <3>2
    <2>2. ASSUME NEW o \in Runs, RunStep(o) PROVE P(r)
      <3>1. CASE o = r
        <4> SUFFICES ASSUME Args[r].fresh, run[r].alone, run'[r].succeeded # run[r].succeeded
                     PROVE  \A c \in Produces[Args[r].dict] :
                               /\ facts'[run[r].sec][c] # <<>>
                               /\ Last(facts'[run[r].sec][c]) = Args[r].dict
          OBVIOUS
        <4>1. Committed(r) /\ Stepped(r)
          BY <2>2, <3>1, FreshSucceeds, StepIs
        <4> QED
          BY <4>1, FactsStay
      <3>2. CASE o # r
        <4>1. run'[r] = run[r]
          BY <2>2, <3>2, StepIs
        <4> QED
          BY <4>1
      <3> QED
        BY <3>1, <3>2
    <2> QED
      BY <2>1, <2>2 DEF Next
  <1>2. Typed /\ FreshWalk /\ [Next]_vars => [\A r \in Runs : P(r)]_vars
    BY <1>1
  <1> QED
    BY <1>2, TypedAlways, FreshAlways, PTL DEF Spec, FreshIsFresh

-----------------------------------------------------------------------------
(* The success of a run.                                                   *)

\* A row of a table has its facts; it has them or is still in a batch.
Written(id, rows) == \E row \in rows : row.id = id /\ row.normalized
Reached(id, queue, rows) == Written(id, rows) \/ InBatch(id, queue)

\* A row behind a full batch of older rows, each of them written or still in it.
WaitsBehind(S, id, queue, rows) ==
    /\ Cardinality(S) = PendingLimit
    /\ \A x \in S : x < id /\ Reached(x, queue, rows)

\* The row of the company, once the run that is alone found it or inserted it, is
\* normalized, in the batch of the run or behind a full one as long as no row of it failed.
OwnRow(r, row) == row.cik = CompanyOf(Target(r))
Served(row, queue, rows) == \/ row.normalized \/ InBatch(row.id, queue)
                            \/ \E S \in SUBSET Nat : WaitsBehind(S, row.id, queue, rows)
Kept(r) == /\ run[r].pc = "list" => \E row \in staging : OwnRow(r, row)
           /\ run[r].pc \in {"load", "write"} /\ ~run[r].failed =>
                 \E row \in staging : OwnRow(r, row) /\ Served(row, run[r].queue, staging)
KeepsItsRow == \A r \in Runs : run[r].alone => Kept(r)

\* The commit of a row takes it out of the batch, and leaves the others in.
LEMMA CommitReaches ==
    ASSUME Typed, NEW r \in Runs, Committed(r), NEW id \in Nat,
           Reached(id, run[r].queue, staging)
    PROVE  Reached(id, Tail(run[r].queue), staging')
  <1>1. Stepped(r) /\ ~Emptied(r)
    BY DEF Stepped, Committed, Emptied
  <1>2. ASSUME NEW row \in staging, row.id = id,
               row.normalized \/ id = Head(run[r].queue)
        PROVE  Written(id, staging')
    <2>1. PICK new \in staging' : SameRow(new, row) /\ new.normalized
      BY <1>1, <1>2, RowsAfter
    <2> QED
      BY <1>2, <2>1 DEF Written, SameRow
  <1>3. CASE Written(id, staging)
    BY <1>2, <1>3 DEF Written, Reached
  <1>4. CASE id = Head(run[r].queue)
    <2>1. \E row \in staging : row.id = id
      BY <1>4 DEF Committed
    <2> QED
      BY <1>2, <1>4, <2>1 DEF Reached
  <1>5. CASE InBatch(id, run[r].queue) /\ id # Head(run[r].queue)
    <2> DEFINE q == run[r].queue
    <2>1. q \in Seq(Nat) /\ q # <<>>
      BY QueueIs DEF Committed
    <2>2. PICK i \in DOMAIN q : q[i] = id
      BY <1>5 DEF InBatch
    <2>3. id # Head(q)
      BY <1>5
    <2> HIDE DEF q
    <2>4. i - 1 \in DOMAIN Tail(q) /\ Tail(q)[i - 1] = id
      BY <2>1, <2>2, <2>3, QueueTail
    <2> QED
      BY <2>4 DEF InBatch, Reached, q
  <1> QED
    BY <1>3, <1>4, <1>5 DEF Reached

\* A row that the batch serves is served after the commit of another, or of itself.
LEMMA CommitKeeps ==
    ASSUME Typed, Typed', NEW r \in Runs, Committed(r), NEW row \in staging,
           Served(row, run[r].queue, staging)
    PROVE  \E new \in staging' : /\ SameRow(new, row)
                                 /\ Served(new, Tail(run[r].queue), staging')
  <1>1. Stepped(r) /\ ~Emptied(r)
    BY DEF Stepped, Committed, Emptied
  <1>2. PICK new \in staging' : SameRow(new, row) /\ (row.normalized => new.normalized)
    BY <1>1, RowsAfter
  <1>3. new.id = row.id /\ row.id \in Nat
    BY <1>2 DEF SameRow, Typed, StagingRows
  <1>4. CASE row.normalized
    BY <1>2, <1>4 DEF Served
  <1>5. CASE InBatch(row.id, run[r].queue)
    <2>1. Reached(row.id, Tail(run[r].queue), staging')
      BY <1>3, <1>5, CommitReaches DEF Reached
    <2>2. CASE InBatch(row.id, Tail(run[r].queue))
      BY <1>2, <1>3, <2>2 DEF Served
    <2>3. CASE Written(row.id, staging')
      <3>1. new.normalized
        BY <1>3, <2>3 DEF Written, Typed
      <3> QED
        BY <1>2, <3>1 DEF Served
    <2> QED
      BY <2>1, <2>2, <2>3 DEF Reached
  <1>6. ASSUME NEW S \in SUBSET Nat, WaitsBehind(S, row.id, run[r].queue, staging)
        PROVE  WaitsBehind(S, new.id, Tail(run[r].queue), staging')
    BY <1>3, <1>6, CommitReaches DEF WaitsBehind
  <1> QED
    BY <1>2, <1>4, <1>5, <1>6 DEF Served

LEMMA KeptStep ==
    ASSUME Typed, OnTarget, KeepsItsRow, NEW r \in Runs, RunStep(r), run'[r].alone
    PROVE  Kept(r)'
  <1>1. Stepped(r) /\ run[r].pc \in Busy /\ Typed'
    BY StepIs
  <1>2. run[r].alone
    BY <1>1, StepKeeps
  <1>3. Kept(r)
    BY <1>2 DEF KeepsItsRow
  <1>4. CASE Resolved(r) \/ Emptied(r) \/ Downloaded(r) \/ NonePending(r) \/ Died(r)
    <2>1. run'[r].pc \in {"reset", "download", "insert", "ended", "resolve", "dead"}
      BY <1>4 DEF Resolved, Emptied, Downloaded, NonePending, Died, Goes, Over
    <2> QED
      BY <2>1 DEF Kept
  <1>5. CASE Found(r)
    <2>1. /\ run'[r].pc = "list" /\ Target(r)' = Target(r) /\ staging' = staging
          /\ \E row \in staging : row.cik = CompanyOf(run[r].sec)
          /\ CompanyOf(run[r].sec) = CompanyOf(Target(r))
      BY <1>5 DEF Found, Goes, tables, OnTarget
    <2> QED
      BY <2>1 DEF Kept, OwnRow, CompanyOf
  <1>6. CASE Inserted(r)
    <2>1. PICK new \in staging', q \in Seq(Nat) :
             /\ new.id = nextId /\ new.cik = CompanyOf(run[r].sec)
             /\ Goes(r, "load", run[r].sec, q) /\ DOMAIN q = {1} /\ q[1] = nextId
      BY <1>6 DEF Inserted
    <2>2. /\ run'[r].pc = "load" /\ run'[r].queue = q /\ Target(r)' = Target(r)
          /\ CompanyOf(run[r].sec) = CompanyOf(Target(r))
      BY <1>6, <2>1 DEF Inserted, Goes, OnTarget
    <2>3. Served(new, q, staging')
      BY <2>1 DEF InBatch, Served
    <2>4. OwnRow(r, new)'
      BY <2>1, <2>2 DEF OwnRow, CompanyOf
    <2>5. \E row \in staging' : OwnRow(r, row)' /\ Served(row, run'[r].queue, staging')
      BY <2>2, <2>3, <2>4
    <2> QED
      BY <2>2, <2>5 DEF Kept, OwnRow, Served, WaitsBehind, Reached, Written, InBatch
  <1>7. CASE Listed(r)
    <2>1. PICK batch \in Seq(Nat) :
             /\ Goes(r, "load", run[r].sec, batch)
             /\ \A id \in PendingIds :
                   InBatch(id, batch) \/ \E S \in SUBSET Nat : OlderBatch(S, id, batch)
      BY <1>7 DEF Listed
    <2>2. /\ run[r].pc = "list" /\ run'[r].pc = "load" /\ run'[r].queue = batch
          /\ Target(r)' = Target(r) /\ staging' = staging
      BY <1>7, <2>1 DEF Listed, Goes, tables
    <2>3. PICK row \in staging : OwnRow(r, row)
      BY <1>3, <2>2 DEF Kept
    <2>4. row.normalized \/ row.id \in PendingIds
      BY DEF PendingIds
    <2>5. \A S : OlderBatch(S, row.id, batch) => WaitsBehind(S, row.id, batch, staging)
      BY DEF OlderBatch, WaitsBehind, Reached
    <2>6. Served(row, batch, staging)
      BY <2>1, <2>4, <2>5 DEF Served
    <2>7. OwnRow(r, row)'
      BY <2>2, <2>3 DEF OwnRow, CompanyOf
    <2>8. \E own \in staging' : OwnRow(r, own)' /\ Served(own, run'[r].queue, staging')
      BY <2>2, <2>6, <2>7
    <2> QED
      BY <2>2, <2>8 DEF Kept, OwnRow, Served, WaitsBehind, Reached, Written, InBatch
  <1>8. CASE Loaded(r)
    <2>1. /\ run[r].pc = "load" /\ run'[r].pc = "write" /\ run'[r].queue = run[r].queue
          /\ run'[r].failed = run[r].failed /\ Target(r)' = Target(r) /\ staging' = staging
      BY <1>8 DEF Loaded, Goes, tables
    <2> QED
      BY <1>3, <2>1 DEF Kept, Served, WaitsBehind, Reached, Written, InBatch, OwnRow, CompanyOf
  <1>9. CASE Committed(r)
    <2>1. CASE Over(run[r], run'[r], ~run[r].failed)
      BY <2>1 DEF Over, Kept
    <2>2. CASE Onward(run[r], run'[r], TRUE)
      <3>1. SUFFICES ASSUME ~run'[r].failed
                     PROVE  \E row \in staging' :
                               /\ OwnRow(r, row)'
                               /\ Served(row, run'[r].queue, staging')
        BY <2>2 DEF Onward, Kept, OwnRow, Served, WaitsBehind, Reached, Written, InBatch
      <3>2. /\ ~run[r].failed /\ run[r].pc = "write" /\ run'[r].queue = Tail(run[r].queue)
            /\ Target(r)' = Target(r)
        BY <1>9, <2>2, <3>1 DEF Onward, Committed, Target
      <3>3. PICK own \in staging : OwnRow(r, own) /\ Served(own, run[r].queue, staging)
        BY <1>3, <3>2 DEF Kept
      <3>4. PICK new \in staging' : /\ SameRow(new, own)
                                    /\ Served(new, Tail(run[r].queue), staging')
        BY <1>1, <1>9, <3>3, CommitKeeps
      <3>5. OwnRow(r, new)'
        BY <3>2, <3>3, <3>4 DEF OwnRow, SameRow, CompanyOf
      <3> QED
        BY <3>2, <3>4, <3>5
    <2> QED
      BY <1>9, <2>1, <2>2 DEF Committed
  <1>10. CASE Failed(r)
    <2>1. run'[r].pc \in {"ended", "resolve"} \/ (run'[r].pc = "load" /\ run'[r].failed)
      BY <1>10 DEF Failed, Over, Onward
    <2> QED
      BY <2>1 DEF Kept
  <1> QED
    BY <1>1, <1>4, <1>5, <1>6, <1>7, <1>8, <1>9, <1>10 DEF Stepped

LEMMA KeptNext ==
    Typed /\ Solo /\ OnTarget /\ KeepsItsRow /\ [Next]_vars => KeepsItsRow'
  <1> SUFFICES ASSUME Typed, Solo, OnTarget, KeepsItsRow, [Next]_vars
               PROVE  KeepsItsRow'
    OBVIOUS
  <1>1. ASSUME NEW b \in Runs, Begin(b) PROVE KeepsItsRow'
    <2>1. \A o \in Runs : run'[o].alone => run'[o].pc \notin {"list", "load", "write"}
      BY <1>1, AloneBegins DEF Busy
    <2> QED
      BY <2>1 DEF KeepsItsRow, Kept
  <1>2. ASSUME NEW r \in Runs, RunStep(r) PROVE KeepsItsRow'
    <2>1. ASSUME NEW o \in Runs \ {r}, run'[o].alone PROVE Kept(o)'
      <3>1. run'[o].pc \notin {"list", "load", "write"}
        BY <1>2, <2>1, AloneSteps DEF Busy
      <3> QED
        BY <3>1 DEF Kept
    <2>2. run'[r].alone => Kept(r)'
      BY <1>2, KeptStep
    <2> QED
      BY <2>1, <2>2 DEF KeepsItsRow
  <1>3. CASE UNCHANGED vars
    BY <1>3 DEF vars, KeepsItsRow, Kept, Served, WaitsBehind, Reached, Written, OwnRow, InBatch,
                Target, CompanyOf
  <1> QED
    BY <1>1, <1>2, <1>3 DEF Next

LEMMA KeptAlways == Spec => []KeepsItsRow
  <1>1. Init => KeepsItsRow
    BY DEF Init, Idle, KeepsItsRow, Kept
  <1>2. Typed /\ Solo /\ OnTarget /\ KeepsItsRow /\ [Next]_vars => KeepsItsRow'
    BY KeptNext
  <1> QED
    BY <1>1, <1>2, TypedAlways, SoloAlways, FreshAlways, PTL DEF Spec

\* The company has facts in the table, under one of its tickers.
Ingested(company, table) ==
    \E s \in Securities : CompanyOf(s) = company /\ table[s] # NoFacts

\* The row of the company waits behind a full batch that is written.
Overtaken(company) ==
    \E row \in staging' : /\ row.cik = company /\ ~row.normalized
                          /\ Cardinality(WrittenBefore(row)) >= PendingLimit

\* Rows that are written before a row: as many as the batch it waits behind.
LEMMA BatchIsWritten ==
    ASSUME Typed', NEW row \in staging', NEW S \in SUBSET Nat,
           WaitsBehind(S, row.id, <<>>, staging')
    PROVE  Cardinality(WrittenBefore(row)) >= PendingLimit
  <1>1. \A x \in S : x < row.id /\ Written(x, staging')
    BY DEF WaitsBehind, Reached, InBatch
  <1>2. S \subseteq WrittenBefore(row)
    BY <1>1 DEF WrittenBefore, Written
  <1>3. row.id \in Nat /\ \A s \in staging' : s.id \in Nat
    BY DEF Typed, StagingRows
  <1>4. WrittenBefore(row) \in SUBSET Nat /\ \A x \in WrittenBefore(row) : x <= row.id
    BY <1>3 DEF WrittenBefore
  <1>5. IsFiniteSet(WrittenBefore(row))
    BY <1>3, <1>4, FS_BoundedSetOfNaturals
  <1>6. Cardinality(S) <= Cardinality(WrittenBefore(row)) /\ Cardinality(S) = PendingLimit
    BY <1>2, <1>5, FS_Subset DEF WaitsBehind
  <1>7. Cardinality(WrittenBefore(row)) \in Nat /\ PendingLimit \in Nat
    BY <1>5, FS_CardinalityType, IngestAssumption
  <1> QED
    BY <1>6, <1>7

\* A success that a step adds is a success of a company that has facts, or waits.
LEMMA SuccessStep ==
    ASSUME Typed, NormalizedHasFacts, NormalizedHasFacts', KeepsItsRow,
           NEW r \in Runs, RunStep(r), run[r].alone, run'[r].succeeded # run[r].succeeded
    PROVE  Ingested(CompanyOf(Target(r)), facts') \/ Overtaken(CompanyOf(Target(r)))
  <1>1. Stepped(r) /\ run[r].pc \in Busy /\ Typed'
    BY StepIs
  <1>2. \/ NonePending(r)
        \/ Committed(r) /\ Tail(run[r].queue) = <<>> /\ ~run[r].failed
    BY <1>1, SuccessIs
  <1>3. Kept(r)
    BY DEF KeepsItsRow
  <1>4. ASSUME NEW row \in staging', row.cik = CompanyOf(Target(r)), row.normalized
        PROVE  Ingested(CompanyOf(Target(r)), facts')
    <2>1. facts'[row.ticker] # NoFacts
      BY <1>4 DEF NormalizedHasFacts, HasFacts
    <2>2. row.ticker \in Securities /\ row.cik = CompanyOf(row.ticker)
      BY <1>1 DEF Typed, StagingRows, CompanyOf
    <2> QED
      BY <1>4, <2>1, <2>2 DEF Ingested
  <1>5. CASE NonePending(r)
    <2>1. PICK row \in staging : OwnRow(r, row)
      BY <1>3, <1>5 DEF NonePending, Kept
    <2>2. row.normalized /\ row \in staging'
      BY <1>5 DEF NonePending, PendingIds, tables
    <2> QED
      BY <1>4, <2>1, <2>2 DEF OwnRow
  <1>6. CASE Committed(r) /\ Tail(run[r].queue) = <<>> /\ ~run[r].failed
    <2>1. PICK own \in staging : OwnRow(r, own) /\ Served(own, run[r].queue, staging)
      BY <1>3, <1>6 DEF Committed, Kept
    <2>2. PICK new \in staging' : SameRow(new, own) /\ Served(new, <<>>, staging')
      BY <1>1, <1>6, <2>1, CommitKeeps
    <2>3. new.cik = CompanyOf(Target(r))
      BY <2>1, <2>2 DEF OwnRow, SameRow
    <2>4. CASE new.normalized
      BY <1>4, <2>3, <2>4
    <2>5. CASE ~new.normalized
      <3>1. ~InBatch(new.id, <<>>)
        BY DEF InBatch
      <3>2. PICK S \in SUBSET Nat : WaitsBehind(S, new.id, <<>>, staging')
        BY <2>2, <2>5, <3>1 DEF Served
      <3>3. Cardinality(WrittenBefore(new)) >= PendingLimit
        BY <1>1, <3>2, BatchIsWritten
      <3> QED
        BY <2>3, <2>5, <3>3 DEF Overtaken
    <2> QED
      BY <2>4, <2>5
  <1> QED
    BY <1>2, <1>5, <1>6

\* A company that a run which was alone counts as ingested has facts, on whichever path it
\* succeeded, or its row waits behind a full batch of older rows that all have theirs: for
\* every catalog, however many rows of other companies are pending (ingestCompany,
\* NormalizePending).
THEOREM SuccessMeansFacts == Spec => SuccessIsIngested
  <1> DEFINE P(r) == run[r].alone /\ run'[r].succeeded # run[r].succeeded =>
                        \/ Ingested(CompanyOf(Target(r)), facts')
                        \/ Overtaken(CompanyOf(Target(r)))
             All == \A r \in Runs : P(r)
  <1>1. Typed /\ NormalizedHasFacts /\ NormalizedHasFacts' /\ KeepsItsRow /\ [Next]_vars
        => [All]_vars
    <2> SUFFICES ASSUME Typed, NormalizedHasFacts, NormalizedHasFacts', KeepsItsRow, Next,
                        NEW r \in Runs
                 PROVE  P(r)
      BY DEF All
    <2>1. ASSUME NEW b \in Runs, Begin(b) PROVE run'[r].succeeded = run[r].succeeded
      <3>1. CASE r = b
        <4>1. run'[r].succeeded = {} /\ run[r].pc = "idle"
          BY <2>1, <3>1, BeginTyped, BeginIs
        <4>2. run[r].succeeded \subseteq 1..0
          BY <4>1, RunIs DEF OnCourse
        <4>3. 1..0 = {}
          OBVIOUS
        <4> QED
          BY <4>1, <4>2, <4>3
      <3>2. CASE r # b
        <4>1. \A q \in Runs \ {b} : run'[q].succeeded = run[q].succeeded
          BY <2>1, BeginTyped
        <4> QED
          BY <3>2, <4>1
      <3> QED
        BY <3>1, <3>2
    <2>2. ASSUME NEW o \in Runs, RunStep(o) PROVE P(r)
      <3>1. CASE o = r
        BY <2>2, <3>1, SuccessStep
      <3>2. CASE o # r
        <4>1. run'[r] = run[r]
          BY <2>2, <3>2, StepIs
        <4> QED
          BY <4>1
      <3> QED
        BY <3>1, <3>2
    <2> QED
      BY <2>1, <2>2 DEF Next
  <1>2. All => \A r \in Runs : run[r].alone /\ run'[r].succeeded # run[r].succeeded =>
          LET company == CompanyOf(Target(r))
          IN  \/ \E s \in Securities : CompanyOf(s) = company /\ facts'[s] # NoFacts
              \/ \E row \in staging' : /\ row.cik = company /\ ~row.normalized
                                       /\ Cardinality(WrittenBefore(row)) >= PendingLimit
    BY DEF Ingested, Overtaken
  <1> HIDE DEF All
  <1> QED
    BY <1>1, <1>2, TypedAlways, WritesItsRowAlways, KeptAlways, PTL DEF Spec, SuccessIsIngested

-----------------------------------------------------------------------------
(* Facts and prices.                                                       *)

\* A run by CIK walks under a class with prices, if the company has one.
OnPriced(r) ==
    PricedOf(Target(r)) # {} =>
        /\ run[r].pc \in {"reset", "download", "insert"} => run[r].sec \in PricedOf(Target(r))
        /\ run[r].pc \in {"load", "write"} /\ Args[r].fresh /\ run[r].alone =>
              \A row \in staging : row.id = Head(run[r].queue) =>
                  row.ticker \in PricedOf(Target(r))
PricedWalk == \A r \in Runs : run[r].pc \in Busy => run[r].catalog /\ OnPriced(r)

LEMMA PricedStep ==
    ASSUME "lookup" \notin Faults, Typed, FreshWalk, PricedWalk,
           NEW r \in Runs, RunStep(r), run'[r].pc \in Busy
    PROVE  run'[r].catalog /\ OnPriced(r)'
  <1>1. Stepped(r) /\ run[r].pc \in Busy
    BY StepIs
  <1>2. run[r].catalog /\ OnPriced(r) /\ run'[r].catalog = run[r].catalog
        /\ run'[r].alone = run[r].alone
    BY <1>1, StepKeeps DEF PricedWalk
  <1>3. Args[r].fresh /\ run[r].alone => Fresh(r)
    BY DEF FreshWalk
  <1>4. CASE Resolved(r)
    <2>1. /\ run'[r].pc \in {"reset", "download"} /\ Target(r)' = Target(r)
          /\ PricedOf(Target(r)) # {} => run'[r].sec \in PricedOf(Target(r))
      BY <1>2, <1>4 DEF Resolved, Goes
    <2> QED
      BY <1>2, <2>1 DEF OnPriced, PricedOf
  <1>5. CASE Emptied(r) \/ Downloaded(r)
    <2>1. /\ run[r].pc \in {"reset", "download"} /\ run'[r].pc \in {"download", "insert"}
          /\ Target(r)' = Target(r) /\ run'[r].sec = run[r].sec
      BY <1>5 DEF Emptied, Downloaded, Goes
    <2> QED
      BY <1>2, <2>1 DEF OnPriced, PricedOf
  <1>6. CASE Inserted(r)
    <2>1. PICK new \in StagingRows, q \in Seq(Nat) :
             /\ new.ticker = run[r].sec /\ staging' = staging \cup {new}
             /\ Goes(r, "load", run[r].sec, q) /\ Head(q) = nextId
      BY <1>6 DEF Inserted
    <2>2. /\ run[r].pc = "insert" /\ run'[r].pc = "load" /\ Target(r)' = Target(r)
          /\ run'[r].queue = q
      BY <1>6, <2>1 DEF Inserted, Goes
    <2>3. \A row \in staging' : row.id = Head(run'[r].queue) => row.ticker = run[r].sec
      BY <2>1, <2>2 DEF Typed, StagingRows
    <2>4. PricedOf(Target(r)) # {} => run[r].sec \in PricedOf(Target(r))
      BY <1>2, <2>2 DEF OnPriced
    <2>5. PricedOf(Target(r)') # {} =>
              \A row \in staging' : row.id = Head(run'[r].queue) =>
                  row.ticker \in PricedOf(Target(r)')
      BY <2>2, <2>3, <2>4
    <2> QED
      BY <1>2, <2>2, <2>5 DEF OnPriced, PricedOf
  <1>7. CASE Loaded(r)
    <2>1. /\ run[r].pc = "load" /\ run'[r].pc = "write" /\ Target(r)' = Target(r)
          /\ run'[r].queue = run[r].queue /\ staging' = staging
      BY <1>7 DEF Loaded, Goes, tables
    <2> QED
      BY <1>2, <2>1 DEF OnPriced, PricedOf
  <1>8. CASE \/ Listed(r)
             \/ /\ Onward(run[r], run'[r], TRUE) \/ Onward(run[r], run'[r], FALSE)
                /\ run[r].pc \in {"load", "write"}
    <2>1. ~(Args[r].fresh /\ run[r].alone) /\ run'[r].pc = "load"
      BY <1>3, <1>8 DEF Fresh, Listed, Goes, Onward
    <2> QED
      BY <1>2, <2>1 DEF OnPriced
  <1>9. CASE run'[r].pc \in {"list", "resolve"}
    BY <1>2, <1>9 DEF OnPriced
  <1>10. CASE Found(r) \/ NonePending(r) \/ Committed(r) \/ Failed(r) \/ Died(r)
    <2>1. \/ run'[r].pc \in {"list", "resolve", "ended", "dead"}
          \/ /\ Onward(run[r], run'[r], TRUE) \/ Onward(run[r], run'[r], FALSE)
             /\ run[r].pc \in {"load", "write"}
      BY <1>10 DEF Found, NonePending, Committed, Failed, Died, Goes, Over
    <2>2. "ended" \notin Busy /\ "dead" \notin Busy
      BY DEF Busy
    <2> QED
      BY <1>8, <1>9, <2>1, <2>2
  <1> QED
    BY <1>1, <1>4, <1>5, <1>6, <1>7, <1>8, <1>10 DEF Stepped

LEMMA PricedNext ==
    ASSUME "lookup" \notin Faults, "catalog" \notin Faults
    PROVE  Typed /\ Solo /\ FreshWalk /\ PricedWalk /\ [Next]_vars => PricedWalk'
  <1> SUFFICES ASSUME Typed, Solo, FreshWalk, PricedWalk, [Next]_vars PROVE PricedWalk'
    OBVIOUS
  <1>1. ASSUME NEW b \in Runs, Begin(b) PROVE PricedWalk'
    <2>1. run'[b].pc = "resolve" /\ run'[b].catalog \in {TRUE}
      <3>1. run'[b].pc = "resolve" /\ run'[b].catalog \in Outcomes("catalog")
        BY <1>1, BeginTyped
      <3> QED
        BY <3>1 DEF Outcomes
    <2>2. OnPriced(b)'
      BY <2>1 DEF OnPriced
    <2>3. ASSUME NEW o \in Runs \ {b}, run'[o].pc \in Busy
          PROVE  run'[o].catalog /\ OnPriced(o)'
      <3>1. /\ run'[o].pc = run[o].pc /\ run'[o].targets = run[o].targets
            /\ run'[o].at = run[o].at /\ run'[o].catalog = run[o].catalog
            /\ run'[o].sec = run[o].sec
        BY <1>1, BeginTyped
      <3>2. ~run'[o].alone
        BY <1>1, <2>3, AloneBegins
      <3>3. run[o].catalog /\ OnPriced(o) /\ Target(o)' = Target(o)
        BY <2>3, <3>1 DEF PricedWalk, Target
      <3> QED
        BY <3>1, <3>2, <3>3 DEF OnPriced, PricedOf
    <2> QED
      BY <2>1, <2>2, <2>3 DEF PricedWalk
  <1>2. ASSUME NEW r \in Runs, RunStep(r) PROVE PricedWalk'
    <2>1. ASSUME NEW o \in Runs \ {r}, run'[o].pc \in Busy
          PROVE  run'[o].catalog /\ OnPriced(o)'
      <3>1. run'[o] = run[o]
        BY <1>2, StepIs
      <3>2. ~run'[o].alone
        BY <1>2, <2>1, AloneSteps
      <3>3. run[o].catalog /\ OnPriced(o) /\ Target(o)' = Target(o)
        BY <2>1, <3>1 DEF PricedWalk, Target
      <3> QED
        BY <3>1, <3>2, <3>3 DEF OnPriced, PricedOf
    <2>2. run'[r].pc \in Busy => run'[r].catalog /\ OnPriced(r)'
      BY <1>2, PricedStep
    <2> QED
      BY <2>1, <2>2 DEF PricedWalk
  <1>3. CASE UNCHANGED vars
    BY <1>3 DEF vars, PricedWalk, OnPriced, PricedOf, Target
  <1> QED
    BY <1>1, <1>2, <1>3 DEF Next

LEMMA PricedAlways ==
    ASSUME "lookup" \notin Faults, "catalog" \notin Faults
    PROVE  Spec => []PricedWalk
  <1>1. Init => PricedWalk
    BY DEF Init, Idle, PricedWalk, Busy
  <1>2. Typed /\ Solo /\ FreshWalk /\ PricedWalk /\ [Next]_vars => PricedWalk'
    BY PricedNext
  <1> QED
    BY <1>1, <1>2, TypedAlways, SoloAlways, FreshAlways, PTL DEF Spec

MeetsPrices(r, i) ==
    LET priced == PricedOf(run[r].targets[i])
    IN  Args[r].fresh /\ run[r].alone /\ priced # {} => \E s \in priced : HasFacts(s)

LEMMA PricesNext ==
    /\ Typed /\ WritesItsRow /\ FreshWalk /\ PricedWalk /\ FactsMeetPrices /\ [Next]_vars
    => FactsMeetPrices'
  <1> SUFFICES ASSUME Typed, WritesItsRow, FreshWalk, PricedWalk, FactsMeetPrices, [Next]_vars
               PROVE  FactsMeetPrices'
    OBVIOUS
  <1>1. \A r \in Runs : \A i \in run[r].succeeded : MeetsPrices(r, i)
    BY DEF FactsMeetPrices, MeetsPrices, PricedOf
  <1>2. ASSUME NEW b \in Runs, Begin(b) PROVE FactsMeetPrices'
    <2>1. UNCHANGED facts
      BY <1>2, BeginIs DEF tables
    <2>2. /\ run'[b].succeeded = {}
          /\ \A o \in Runs \ {b} :
                /\ run'[o].succeeded = run[o].succeeded /\ run'[o].targets = run[o].targets
                /\ run'[o].alone => run[o].alone
      BY <1>2, BeginTyped
    <2> QED
      BY <1>1, <2>1, <2>2 DEF FactsMeetPrices, MeetsPrices, PricedOf, HasFacts
  <1>3. ASSUME NEW r \in Runs, RunStep(r) PROVE FactsMeetPrices'
    <2>1. /\ Stepped(r) /\ run[r].pc \in Busy /\ \A o \in Runs \ {r} : run'[o] = run[o]
      BY <1>3, StepIs
    <2>2. run'[r].targets = run[r].targets /\ run'[r].alone = run[r].alone
      BY <2>1, StepKeeps
    <2>3. ASSUME NEW o \in Runs, NEW i \in run'[o].succeeded, Args[o].fresh, run'[o].alone,
                 PricedOf(run'[o].targets[i]) # {}
          PROVE  \E s \in PricedOf(run'[o].targets[i]) : facts'[s] # NoFacts
      <3>1. run[o].alone /\ run'[o].targets = run[o].targets
        BY <2>1, <2>2, <2>3
      <3>2. CASE i \in run[o].succeeded
        <4>1. PICK s \in PricedOf(run[o].targets[i]) : HasFacts(s)
          BY <1>1, <2>3, <3>1, <3>2 DEF MeetsPrices
        <4>2. s \in Securities
          BY IngestAssumption DEF PricedOf, Securities
        <4>3. facts'[s] # NoFacts
          BY <2>1, <4>1, <4>2, FactsStay DEF HasFacts
        <4> QED
          BY <3>1, <4>1, <4>3
      <3>3. CASE i \notin run[o].succeeded
        <4>1. o = r
          BY <2>1, <2>3, <3>3
        <4>2. /\ Committed(r) /\ Tail(run[r].queue) = <<>>
              /\ run'[r].succeeded = run[r].succeeded \cup {run[r].at}
          BY <1>3, <2>3, <3>1, <3>3, <4>1, FreshSucceeds
        <4>3. i = run[r].at /\ run[o].targets[i] = Target(r)
          BY <2>3, <3>3, <4>1, <4>2 DEF Target
        <4>4. PICK row \in staging : row.id = Head(run[r].queue)
          BY <4>2 DEF Committed
        <4>5. row.ticker = run[r].sec /\ OnPriced(r) /\ run[r].pc = "write"
          BY <2>1, <4>2, <4>4 DEF Committed, WritesItsRow, PricedWalk
        <4>6. run[r].sec \in PricedOf(Target(r))
          BY <2>3, <3>1, <4>1, <4>3, <4>4, <4>5 DEF OnPriced
        <4>7. facts'[run[r].sec] # NoFacts
          BY <2>1, <4>2, FactsStay
        <4> QED
          BY <3>1, <4>1, <4>3, <4>6, <4>7
      <3> QED
        BY <3>2, <3>3
    <2> QED
      BY <2>3 DEF FactsMeetPrices, PricedOf, HasFacts
  <1>4. CASE UNCHANGED vars
    BY <1>4 DEF vars, FactsMeetPrices, HasFacts
  <1> QED
    BY <1>2, <1>3, <1>4 DEF Next

\* If SEC gives the catalog and the database answers the lookup of classes, a fresh run by
\* CIK that was alone leaves the company with fundamentals under a class that has prices,
\* whenever it has one (resolveCompany).
THEOREM FactsReachPrices ==
    ASSUME "lookup" \notin Faults, "catalog" \notin Faults
    PROVE  Spec => []FactsMeetPrices
  <1>1. Init => FactsMeetPrices
    BY DEF Init, Idle, FactsMeetPrices
  <1>2. Spec => []PricedWalk
    BY PricedAlways
  <1>3. /\ Typed /\ WritesItsRow /\ FreshWalk /\ PricedWalk /\ FactsMeetPrices /\ [Next]_vars
        => FactsMeetPrices'
    BY PricesNext
  <1> QED
    BY <1>1, <1>2, <1>3, TypedAlways, WritesItsRowAlways, FreshAlways, PTL DEF Spec
=============================================================================
