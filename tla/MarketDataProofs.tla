-------------------------- MODULE MarketDataProofs --------------------------
(***************************************************************************)
(* What the bars and the reference data of a security keep for any number  *)
(* of jobs, days, splits, sectors and betas.                               *)
(***************************************************************************)
EXTENDS MarketData, WellFoundedInduction, TLAPS

\* What a job that is about to store a reference has in its hands.
Reference(j) ==
    job[j].pc = "store_reference" =>
        /\ job[j].got.beta # None => job[j].got.beta \in Nat
        /\ job[j].asOf \in Days

\* The part of the state that the history and its cache depend on.
Inv ==
    /\ day \in Days
    /\ DOMAIN job = Jobs
    /\ \A j \in Jobs : Reference(j)
    /\ DOMAIN history = Days
    /\ CacheHasRow

LEMMA CachedIsAValue ==
    ASSUME MarketAssumption, NEW b \in Nat
    PROVE  Cached(b) # None
<1>1. Cached(b) \in Nat
  BY DEF Cached
<1> QED
  BY <1>1 DEF MarketAssumption

LEMMA InitInv ==
    ASSUME MarketAssumption, Init
    PROVE  Inv
BY DEF Init, Inv, Reference, Idle, CacheHasRow, MarketAssumption, Days

\* A step that moves a job to some pc other than store_reference, or leaves the
\* jobs alone, keeps what the others hold.
LEMMA OthersKeepTheirReference ==
    ASSUME Inv, NEW j \in Jobs, NEW pc, NEW got, pc # "store_reference", Goto(j, pc, got)
    PROVE  DOMAIN job' = Jobs /\ \A i \in Jobs : Reference(i)'
<1>1. DOMAIN job' = Jobs
  BY DEF Goto, Inv
<1>2. ASSUME NEW i \in Jobs
      PROVE  Reference(i)'
  <2>1. CASE i = j
    BY <2>1 DEF Goto, Inv, Reference
  <2>2. CASE i # j
    <3>1. job'[i] = job[i]
      BY <2>2 DEF Goto, Inv
    <3> QED
      BY <3>1 DEF Inv, Reference, Days
  <2> QED
    BY <2>1, <2>2
<1> QED
  BY <1>1, <1>2

LEMMA NextInv ==
    ASSUME MarketAssumption, Inv, [Next]_vars
    PROVE  Inv'
<1> USE DEF Inv
<1>k. ASSUME UNCHANGED <<beta, history>>
      PROVE  CacheHasRow' /\ DOMAIN history' = Days
  BY <1>k DEF CacheHasRow, Days
<1>j. ASSUME UNCHANGED job
      PROVE  DOMAIN job' = Jobs /\ \A i \in Jobs : Reference(i)'
  BY <1>j DEF Reference, Days
<1>1. CASE NextDay
  <2>1. day' \in Days
    BY <1>1 DEF NextDay, Days, MarketAssumption
  <2> QED
    BY <1>1, <2>1, <1>k, <1>j DEF NextDay, tables
<1>2. CASE Trade
  BY <1>2, <1>k, <1>j DEF Trade, tables, Days
<1>3. CASE FillIn
  BY <1>3, <1>k, <1>j DEF FillIn, tables, Days
<1>4. CASE Split
  BY <1>4, <1>k, <1>j DEF Split, tables, Days
<1>5. ASSUME NEW j \in Jobs, Start(j)
      PROVE  Inv'
  <2>1. DOMAIN job' = Jobs /\ \A i \in Jobs : Reference(i)'
    BY <1>5 DEF Start, Reference, Days
  <2> QED
    BY <1>5, <2>1, <1>k DEF Start, sources, tables, Days
<1>6. ASSUME NEW j \in Jobs, FetchHistory(j)
      PROVE  Inv'
  <2>1. DOMAIN job' = Jobs /\ \A i \in Jobs : Reference(i)'
    BY <1>6, OthersKeepTheirReference DEF FetchHistory
  <2> QED
    BY <1>6, <2>1, <1>k DEF FetchHistory, sources, tables, Days
<1>7. ASSUME NEW j \in Jobs, StoreHistory(j)
      PROVE  Inv'
  <2>1. DOMAIN job' = Jobs /\ \A i \in Jobs : Reference(i)'
    BY <1>7, OthersKeepTheirReference DEF StoreHistory
  <2> QED
    BY <1>7, <2>1, <1>k DEF StoreHistory, sources, Days
<1>8. ASSUME NEW j \in Jobs, FetchQuote(j)
      PROVE  Inv'
  <2>1. DOMAIN job' = Jobs /\ \A i \in Jobs : Reference(i)'
    BY <1>8, OthersKeepTheirReference DEF FetchQuote
  <2> QED
    BY <1>8, <2>1, <1>k DEF FetchQuote, sources, tables, Days
<1>9. ASSUME NEW j \in Jobs, StoreQuote(j)
      PROVE  Inv'
  <2>1. DOMAIN job' = Jobs /\ \A i \in Jobs : Reference(i)'
    BY <1>9, OthersKeepTheirReference DEF StoreQuote
  <2> QED
    BY <1>9, <2>1, <1>k DEF StoreQuote, sources, Days
<1>10. ASSUME NEW j \in Jobs, FetchReference(j)
       PROVE  Inv'
  <2> PICK yahoo \in YahooAnswers, finviz \in Sectors \cup {None} :
        LET ref == Resolved(yahoo, finviz) IN
        job' = [job EXCEPT ![j].pc = IF ref.sector = None /\ ref.beta = None
                                     THEN "idle" ELSE "store_reference",
                           ![j].got = IF ref.sector = None /\ ref.beta = None
                                      THEN None ELSE ref,
                           ![j].asOf = day]
    BY <1>10 DEF FetchReference
  <2> DEFINE ref == Resolved(yahoo, finviz)
  <2>1. ref.beta # None => ref.beta \in Nat
    BY DEF Resolved, YahooAnswers, ValidBeta, MarketAssumption
  <2>2. DOMAIN job' = Jobs
    OBVIOUS
  <2>3. ASSUME NEW i \in Jobs
        PROVE  Reference(i)'
    <3>1. CASE i # j
      <4>1. job'[i] = job[i]
        BY <3>1
      <4> QED
        BY <4>1 DEF Reference, Days
    <3>2. CASE i = j /\ ref.sector = None /\ ref.beta = None
      BY <3>2 DEF Reference
    <3>3. CASE i = j /\ ~(ref.sector = None /\ ref.beta = None)
      <4>1. job'[i].got = ref /\ job'[i].asOf = day
        BY <3>3
      <4> QED
        BY <4>1, <2>1 DEF Reference, Days
    <3> QED
      BY <3>1, <3>2, <3>3
  <2> QED
    BY <1>10, <2>2, <2>3, <1>k DEF FetchReference, sources, tables, Days
<1>11. ASSUME NEW j \in Jobs, StoreReference(j)
       PROVE  Inv'
  <2>1. DOMAIN job' = Jobs /\ \A i \in Jobs : Reference(i)'
    BY <1>11, OthersKeepTheirReference DEF StoreReference
  <2> DEFINE ref == job[j].got
             asOf == job[j].asOf
  <2>2. day' = day /\ asOf \in Days /\ (ref.beta # None => ref.beta \in Nat)
    BY <1>11 DEF StoreReference, sources, Reference
  <2>3. CASE UNCHANGED <<beta, history>>
    BY <2>1, <2>2, <2>3, <1>k DEF Days
  <2>4. CASE beta' = BetaAfter(ref) /\ history' = BetaHistoryAfter(ref, asOf)
    <3>1. CASE ref.beta = None
      BY <2>1, <2>2, <2>4, <3>1, <1>k DEF BetaAfter, BetaHistoryAfter, Days
    <3>2. CASE ref.beta # None
      <4>1. history' = [history EXCEPT ![asOf] = ref.beta] /\ beta' = Cached(ref.beta)
        BY <2>4, <3>2 DEF BetaAfter, BetaHistoryAfter
      <4>2. DOMAIN history' = Days /\ history'[asOf] = ref.beta
        BY <4>1, <2>2
      <4>3. CacheHasRow'
        BY <4>1, <4>2, <2>2, <3>2 DEF CacheHasRow, Days
      <4> QED
        BY <2>1, <2>2, <4>2, <4>3 DEF Days
    <3> QED
      BY <3>1, <3>2
  <2> QED
    BY <1>11, <2>3, <2>4 DEF StoreReference
<1>12. ASSUME NEW j \in Jobs, Die(j)
       PROVE  Inv'
  <2>1. DOMAIN job' = Jobs /\ \A i \in Jobs : Reference(i)'
    BY <1>12, OthersKeepTheirReference DEF Die
  <2> QED
    BY <1>12, <2>1, <1>k DEF Die, sources, tables, Days
<1>13. CASE UNCHANGED vars
  BY <1>13, <1>k, <1>j DEF vars, Days
<1> QED
  BY <1>1, <1>2, <1>3, <1>4, <1>5, <1>6, <1>7, <1>8, <1>9, <1>10, <1>11, <1>12, <1>13 DEF Next

\* Whatever the jobs do at the same time and wherever one of them dies, the beta
\* of the catalog is the rounded value of an observation in the history.
THEOREM CacheIsObserved == MarketAssumption => (Spec => []CacheHasRow)
<1> SUFFICES ASSUME MarketAssumption PROVE Spec => []CacheHasRow
  OBVIOUS
<1>1. Init => Inv
  BY InitInv
<1>2. Inv /\ [Next]_vars => Inv'
  BY NextInv
<1>3. Inv => CacheHasRow
  BY DEF Inv
<1> QED
  BY <1>1, <1>2, <1>3, PTL DEF Spec

\* Nothing but the transaction of a reference writes the cache or the history.
LEMMA OnlyReferencesWriteBeta ==
    ASSUME [Next]_vars, ~\E j \in Jobs : StoreReference(j)
    PROVE  UNCHANGED <<beta, history>>
<1>1. CASE NextDay \/ Trade \/ FillIn \/ Split
  BY <1>1 DEF NextDay, Trade, FillIn, Split, tables
<1>2. ASSUME NEW j \in Jobs, Start(j) \/ FetchHistory(j) \/ FetchQuote(j) \/ FetchReference(j) \/ Die(j)
      PROVE  UNCHANGED <<beta, history>>
  BY <1>2 DEF Start, FetchHistory, FetchQuote, FetchReference, Die, tables
<1>3. ASSUME NEW j \in Jobs, StoreHistory(j) \/ StoreQuote(j)
      PROVE  UNCHANGED <<beta, history>>
  BY <1>3 DEF StoreHistory, StoreQuote
<1>4. CASE UNCHANGED vars
  BY <1>4 DEF vars
<1> QED
  BY <1>1, <1>2, <1>3, <1>4 DEF Next

LEMMA StepKeepsBeta ==
    ASSUME MarketAssumption, Inv, [Next]_vars
    PROVE  /\ beta # None => beta' # None
           /\ \A d \in Days : history[d] # None => history'[d] # None
<1>1. CASE ~\E j \in Jobs : StoreReference(j)
  BY <1>1, OnlyReferencesWriteBeta
<1>2. ASSUME NEW j \in Jobs, StoreReference(j)
      PROVE  /\ beta # None => beta' # None
             /\ \A d \in Days : history[d] # None => history'[d] # None
  <2> DEFINE ref == job[j].got
             asOf == job[j].asOf
  <2>1. ref.beta # None => ref.beta \in Nat
    BY <1>2 DEF StoreReference, Inv, Reference
  <2>2. CASE UNCHANGED <<beta, history>>
    BY <2>2
  <2>3. CASE beta' = BetaAfter(ref) /\ history' = BetaHistoryAfter(ref, asOf)
    <3>1. CASE ref.beta = None
      BY <2>3, <3>1 DEF BetaAfter, BetaHistoryAfter
    <3>2. CASE ref.beta # None
      <4>1. beta' # None
        BY <2>1, <2>3, <3>2, CachedIsAValue DEF BetaAfter
      <4>2. history' = [history EXCEPT ![asOf] = ref.beta]
        BY <2>3, <3>2 DEF BetaHistoryAfter
      <4>3. \A d \in Days : history[d] # None => history'[d] # None
        BY <4>2, <3>2 DEF Inv
      <4> QED
        BY <4>1, <4>3
    <3> QED
      BY <3>1, <3>2
  <2> QED
    BY <1>2, <2>2, <2>3 DEF StoreReference
<1> QED
  BY <1>1, <1>2

\* A temporary gap of the source never takes away a beta that is known, of the
\* catalog or of a day of the history.
THEOREM KnownBetaSurvives == MarketAssumption => (Spec => BetaSurvives)
<1> SUFFICES ASSUME MarketAssumption PROVE Spec => BetaSurvives
  OBVIOUS
<1>1. Init => Inv
  BY InitInv
<1>2. Inv /\ [Next]_vars => Inv'
  BY NextInv
<1>3. Inv /\ [Next]_vars => [/\ beta # None => beta' # None
                             /\ \A d \in Days : history[d] # None => history'[d] # None]_vars
  BY StepKeepsBeta
<1> QED
  BY <1>1, <1>2, <1>3, PTL DEF Spec, BetaSurvives

-----------------------------------------------------------------------------
(* The types, and what each job has in its hands.                          *)

\* A set of days has its last one.
LEMMA LastOfDays ==
    ASSUME NEW S \in SUBSET Days, S # {}, MarketAssumption
    PROVE  Max(S) \in S
<1> DEFINE Left == {LastDay - d : d \in S}
<1>1. LastDay \in Nat /\ \A d \in S : d \in Nat /\ d <= LastDay
  BY DEF Days, MarketAssumption
<1>2. Left \in SUBSET Nat /\ Left # {}
  BY <1>1
<1>3. PICK least \in Left : \A n \in Left : ~(<<n, least>> \in OpToRel(<, Nat))
  <2> HIDE DEF Left
  <2> QED
    BY <1>2, WFMin, NatLessThanWellFounded
<1>4. PICK last \in S : least = LastDay - last
  OBVIOUS
<1>5. ASSUME NEW d \in S PROVE last >= d
  <2>1. LastDay - d \in Left /\ LastDay - d \in Nat /\ least \in Nat
    BY <1>2
  <2>2. ~(LastDay - d < least)
    BY <1>3, <2>1 DEF OpToRel
  <2> QED
    BY <1>1, <1>4, <2>2
<1>6. \E x \in S : \A y \in S : x >= y
  BY <1>5
<1> QED
  BY <1>6 DEF Max

\* What each kind of download leaves in the hands of its job.
HeldHistory(j) == job[j].pc = "store_history" =>
                      job[j].got.days \subseteq Days /\ job[j].got.adjusted \in 0 .. MaxSplits
HeldQuote(j) == job[j].pc = "store_quote" => job[j].got.on \in Days
HeldReference(j) == job[j].pc = "store_reference" =>
                        /\ job[j].got.sector \in Sectors \cup {None}
                        /\ job[j].got.beta \in Betas \cup {None}
                        /\ job[j].asOf \in Days

Held(j) == HeldHistory(j) /\ HeldQuote(j) /\ HeldReference(j)

\* A bar of the chart has the adjusted close of a chart.
ChartAdjusts == \A d \in Days : bars[d] # None /\ bars[d].source = "yahoo" => bars[d].adjusted # Raw

Typed == TypeOK /\ DOMAIN job = Jobs /\ (\A j \in Jobs : Held(j)) /\ ChartAdjusts

\* The jobs that a step of j does not touch keep what they hold.
LEMMA HandsOfOthers ==
    ASSUME Typed, NEW j \in Jobs, DOMAIN job' = Jobs,
           \A i \in Jobs \ {j} : job'[i] = job[i], Held(j)'
    PROVE  \A i \in Jobs : Held(i)'
<1> SUFFICES ASSUME NEW i \in Jobs, i # j PROVE Held(i)'
  OBVIOUS
<1>1. job'[i] = job[i] /\ Held(i)
  BY DEF Typed
<1> QED
  BY <1>1 DEF Held, HeldHistory, HeldQuote, HeldReference

LEMMA HandsAfterGoto ==
    ASSUME Typed, NEW j \in Jobs, NEW pc, NEW got, Goto(j, pc, got),
           pc \notin {"store_history", "store_quote", "store_reference"}
    PROVE  DOMAIN job' = Jobs /\ \A i \in Jobs : Held(i)'
<1>1. DOMAIN job' = Jobs /\ job'[j].pc = pc /\ \A i \in Jobs \ {j} : job'[i] = job[i]
  BY DEF Typed, Goto
<1>2. Held(j)'
  BY <1>1 DEF Held, HeldHistory, HeldQuote, HeldReference
<1> QED
  BY <1>1, <1>2, HandsOfOthers

LEMMA TypedInit ==
    ASSUME MarketAssumption, Init
    PROVE  Typed
<1>1. 1 \in Days /\ 0 \in 0 .. MaxSplits
  BY DEF MarketAssumption, Days
<1>2. TypeOK
  BY <1>1 DEF Init, TypeOK
<1>3. DOMAIN job = Jobs /\ \A j \in Jobs : Held(j)
  BY DEF Init, Idle, Held, HeldHistory, HeldQuote, HeldReference
<1> QED
  BY <1>2, <1>3 DEF Typed, ChartAdjusts, Init

\* The bars after the transaction of a download, and after that of a quote: a
\* bar of the chart stays one.
Stays(d) == bars[d] # None /\ bars[d].source = "yahoo" =>
                bars'[d] # None /\ bars'[d].source = "yahoo" /\ bars'[d].adjusted # Raw

LEMMA BarsAfterHistory ==
    ASSUME MarketAssumption, Typed, NEW got, got.adjusted \in 0 .. MaxSplits,
           bars' = HistoryAfter(got)
    PROVE  bars' \in [Days -> Bars \cup {None}] /\ ChartAdjusts' /\ \A d \in Days : Stays(d)
<1> DEFINE bar == [close |-> "chart", adjusted |-> got.adjusted, source |-> "yahoo"]
<1>1. bar \in Bars /\ bar.source = "yahoo" /\ bar.adjusted # Raw
  BY DEF Bars, Raw, MarketAssumption
<1>2. bars \in [Days -> Bars \cup {None}] /\ ChartAdjusts
  BY DEF Typed, TypeOK
<1>3. bars' = [d \in Days |-> IF d \in got.days THEN bar ELSE bars[d]]
  BY DEF HistoryAfter
<1> HIDE DEF bar
<1>4. bars' \in [Days -> Bars \cup {None}]
  BY <1>1, <1>2, <1>3
<1>5. bar # None
  BY <1>1 DEF MarketAssumption
<1>6. \A d \in Days : Stays(d)
  BY <1>1, <1>2, <1>3, <1>5 DEF Stays, ChartAdjusts
<1>7. ChartAdjusts'
  BY <1>1, <1>2, <1>3 DEF ChartAdjusts, Days
<1> QED
  BY <1>4, <1>6, <1>7

LEMMA BarsAfterQuote ==
    ASSUME MarketAssumption, Typed, NEW on \in Days, bars' = QuoteAfter(on)
    PROVE  bars' \in [Days -> Bars \cup {None}] /\ ChartAdjusts' /\ \A d \in Days : Stays(d)
<1> DEFINE quote == [close |-> "quote", adjusted |-> Raw, source |-> "yahoo_quote"]
           closed == [bars[on] EXCEPT !.close = "quote"]
<1>1. bars \in [Days -> Bars \cup {None}] /\ ChartAdjusts
  BY DEF Typed, TypeOK
<1>2. quote \in Bars /\ quote.source # "yahoo"
  BY DEF Bars
<1>3. bars[on] # None => /\ closed \in Bars /\ closed.source = bars[on].source
                         /\ closed.adjusted = bars[on].adjusted
  BY <1>1 DEF Bars
<1>4. \A d \in Days : bars'[d] = IF d # on THEN bars[d]
                                 ELSE IF bars[on] = None THEN quote ELSE closed
  BY <1>1 DEF QuoteAfter
<1>5. DOMAIN bars' = Days /\ bars' = [d \in Days |-> bars'[d]]
  BY <1>1 DEF QuoteAfter
<1> HIDE DEF quote, closed
<1>6. bars' \in [Days -> Bars \cup {None}]
  BY <1>1, <1>2, <1>3, <1>4, <1>5
<1>7. bars[on] # None => closed # None
  BY <1>3 DEF MarketAssumption
<1>8. \A d \in Days : Stays(d)
  BY <1>1, <1>2, <1>3, <1>4, <1>7 DEF Stays, ChartAdjusts
<1>9. ChartAdjusts'
  <2> SUFFICES ASSUME NEW d \in Days, bars'[d] # None, bars'[d].source = "yahoo"
               PROVE  bars'[d].adjusted # Raw
    BY DEF ChartAdjusts, Days
  <2> QED
    BY <1>1, <1>2, <1>3, <1>4 DEF ChartAdjusts
<1> QED
  BY <1>6, <1>8, <1>9

LEMMA TypedSame ==
    ASSUME MarketAssumption, Typed, UNCHANGED <<day, chart, splits, sector, beta, history>>,
           DOMAIN job' = Jobs, \A i \in Jobs : Held(i)',
           UNCHANGED bars \/ (bars' \in [Days -> Bars \cup {None}] /\ ChartAdjusts')
    PROVE  Typed'
<1>1. TypeOK'
  BY DEF Typed, TypeOK
<1>2. ChartAdjusts'
  BY DEF Typed, ChartAdjusts
<1> QED
  BY <1>1, <1>2 DEF Typed

LEMMA TypedSource ==
    ASSUME MarketAssumption, Typed, NextDay \/ Trade \/ FillIn \/ Split
    PROVE  Typed' /\ UNCHANGED <<bars, history>>
<1>1. UNCHANGED <<bars, sector, beta, history, job>>
  BY DEF NextDay, Trade, FillIn, Split, tables
<1>2. \A j \in Jobs : Held(j)'
  BY <1>1 DEF Typed, Held, HeldHistory, HeldQuote, HeldReference, Days
<1>3. day' \in Days
  BY DEF NextDay, Trade, FillIn, Split, Typed, TypeOK, Days, MarketAssumption
<1>4. splits' \in 0 .. MaxSplits
  BY DEF NextDay, Trade, FillIn, Split, Typed, TypeOK, MarketAssumption
<1>5. chart' \in [Days -> {"none", "open", "closed"}]
  BY DEF NextDay, Trade, FillIn, Split, Typed, TypeOK
<1>6. TypeOK' /\ ChartAdjusts'
  BY <1>1, <1>3, <1>4, <1>5 DEF Typed, TypeOK, ChartAdjusts, Days
<1> QED
  BY <1>1, <1>2, <1>6 DEF Typed

LEMMA TypedStart ==
    ASSUME MarketAssumption, Typed, NEW j \in Jobs, Start(j) \/ Die(j)
    PROVE  Typed'
<1>1. DOMAIN job' = Jobs /\ \A i \in Jobs : Held(i)'
  <2>1. CASE Start(j)
    <3>1. DOMAIN job' = Jobs /\ job'[j].pc = "history" /\ \A i \in Jobs \ {j} : job'[i] = job[i]
      BY <2>1 DEF Start, Typed
    <3>2. Held(j)'
      BY <3>1 DEF Held, HeldHistory, HeldQuote, HeldReference
    <3> QED
      BY <3>1, <3>2, HandsOfOthers
  <2>2. CASE Die(j)
    BY <2>2, HandsAfterGoto DEF Die
  <2> QED
    BY <2>1, <2>2
<1> QED
  BY <1>1, TypedSame DEF Start, Die, sources, tables

LEMMA TypedFetch ==
    ASSUME MarketAssumption, Typed, NEW j \in Jobs, FetchHistory(j) \/ FetchQuote(j)
    PROVE  Typed'
<1>1. ASSUME Goto(j, "reference", None)
      PROVE  DOMAIN job' = Jobs /\ \A i \in Jobs : Held(i)'
  BY <1>1, HandsAfterGoto
<1>2. ASSUME NEW days \in SUBSET Days, Goto(j, "store_history", [days |-> days, adjusted |-> splits])
      PROVE  DOMAIN job' = Jobs /\ \A i \in Jobs : Held(i)'
  <2>1. /\ DOMAIN job' = Jobs /\ job'[j].pc = "store_history"
        /\ job'[j].got = [days |-> days, adjusted |-> splits]
        /\ \A i \in Jobs \ {j} : job'[i] = job[i]
    BY <1>2 DEF Goto, Typed
  <2>2. Held(j)'
    BY <2>1 DEF Held, HeldHistory, HeldQuote, HeldReference, Typed, TypeOK, Days
  <2> QED
    BY <2>1, <2>2, HandsOfOthers
<1>3. ASSUME NEW on \in Days, Goto(j, "store_quote", [on |-> on])
      PROVE  DOMAIN job' = Jobs /\ \A i \in Jobs : Held(i)'
  <2>1. /\ DOMAIN job' = Jobs /\ job'[j].pc = "store_quote" /\ job'[j].got = [on |-> on]
        /\ \A i \in Jobs \ {j} : job'[i] = job[i]
    BY <1>3 DEF Goto, Typed
  <2>2. Held(j)'
    BY <2>1 DEF Held, HeldHistory, HeldQuote, HeldReference, Days
  <2> QED
    BY <2>1, <2>2, HandsOfOthers
<1>4. DOMAIN job' = Jobs /\ \A i \in Jobs : Held(i)'
  <2>1. CASE FetchHistory(j)
    <3> DEFINE closed == {d \in Days : InRange(d) /\ chart[d] = "closed"}
    <3>1. closed \in SUBSET Days
      OBVIOUS
    <3>2. Goto(j, "store_history", [days |-> closed, adjusted |-> splits]) \/ Goto(j, "reference", None)
      BY <2>1 DEF FetchHistory
    <3> QED
      BY <1>1, <1>2, <3>1, <3>2
  <2>2. CASE FetchQuote(j)
    <3> DEFINE listed == {d \in Days : InRange(d) /\ chart[d] # "none"}
    <3>1. listed # {} => Max(listed) \in Days
      <4>1. listed \in SUBSET Days
        OBVIOUS
      <4>2. listed # {} => Max(listed) \in listed
        BY <4>1, LastOfDays
      <4> QED
        BY <4>1, <4>2
    <3>2. (listed # {} /\ Goto(j, "store_quote", [on |-> Max(listed)])) \/ Goto(j, "reference", None)
      BY <2>2 DEF FetchQuote
    <3> QED
      BY <1>1, <1>3, <3>1, <3>2
  <2> QED
    BY <2>1, <2>2
<1> QED
  BY <1>4, TypedSame DEF FetchHistory, FetchQuote, sources, tables

LEMMA TypedStore ==
    ASSUME MarketAssumption, Typed, NEW j \in Jobs, StoreHistory(j) \/ StoreQuote(j)
    PROVE  Typed' /\ (UNCHANGED bars \/ \A d \in Days : Stays(d))
<1>1. DOMAIN job' = Jobs /\ \A i \in Jobs : Held(i)'
  BY HandsAfterGoto DEF StoreHistory, StoreQuote
<1>2. Held(j) /\ UNCHANGED <<day, chart, splits, sector, beta, history>>
  BY DEF Typed, StoreHistory, StoreQuote, sources
<1>3. CASE UNCHANGED bars
  BY <1>1, <1>2, <1>3, TypedSame
<1>4. CASE StoreHistory(j) /\ bars' = HistoryAfter(job[j].got)
  <2>1. job[j].got.adjusted \in 0 .. MaxSplits
    BY <1>2, <1>4 DEF Held, HeldHistory, StoreHistory
  <2>2. bars' \in [Days -> Bars \cup {None}] /\ ChartAdjusts' /\ \A d \in Days : Stays(d)
    BY <1>4, <2>1, BarsAfterHistory
  <2> QED
    BY <1>1, <1>2, <2>2, TypedSame
<1>5. CASE StoreQuote(j) /\ bars' = QuoteAfter(job[j].got.on)
  <2>1. job[j].got.on \in Days
    BY <1>2, <1>5 DEF Held, HeldQuote, StoreQuote
  <2>2. bars' \in [Days -> Bars \cup {None}] /\ ChartAdjusts' /\ \A d \in Days : Stays(d)
    BY <1>5, <2>1, BarsAfterQuote
  <2> QED
    BY <1>1, <1>2, <2>2, TypedSame
<1> QED
  BY <1>3, <1>4, <1>5 DEF StoreHistory, StoreQuote

LEMMA TypedFetchReference ==
    ASSUME MarketAssumption, Typed, NEW j \in Jobs, FetchReference(j)
    PROVE  Typed'
<1> PICK yahoo \in YahooAnswers, finviz \in Sectors \cup {None} :
       LET ref == Resolved(yahoo, finviz) IN
       job' = [job EXCEPT ![j].pc = IF ref.sector = None /\ ref.beta = None
                                    THEN "idle" ELSE "store_reference",
                          ![j].got = IF ref.sector = None /\ ref.beta = None
                                     THEN None ELSE ref,
                          ![j].asOf = day]
  BY DEF FetchReference
<1> DEFINE ref == Resolved(yahoo, finviz)
<1>1. ref.sector \in Sectors \cup {None} /\ ref.beta \in Betas \cup {None}
  BY DEF Resolved, YahooAnswers
<1>2. /\ DOMAIN job' = Jobs /\ \A i \in Jobs \ {j} : job'[i] = job[i]
      /\ job'[j].pc = "idle" \/ (job'[j].pc = "store_reference" /\ job'[j].got = ref)
      /\ job'[j].asOf = day
  BY DEF Typed
<1> HIDE DEF ref
<1>3. Held(j)'
  BY <1>1, <1>2 DEF Held, HeldHistory, HeldQuote, HeldReference, Typed, TypeOK, Days
<1>4. \A i \in Jobs : Held(i)'
  BY <1>2, <1>3, HandsOfOthers
<1> QED
  BY <1>2, <1>4, TypedSame DEF FetchReference, sources, tables

LEMMA TypedStoreReference ==
    ASSUME MarketAssumption, Typed, NEW j \in Jobs, StoreReference(j)
    PROVE  Typed'
<1> DEFINE ref == job[j].got
<1>1. DOMAIN job' = Jobs /\ \A i \in Jobs : Held(i)'
  BY HandsAfterGoto DEF StoreReference
<1>2. /\ UNCHANGED <<day, chart, splits, bars>>
      /\ ref.sector \in Sectors \cup {None} /\ ref.beta \in Betas \cup {None}
      /\ job[j].asOf \in Days
  BY DEF Typed, StoreReference, sources, Held, HeldReference
<1>3. CASE UNCHANGED <<sector, beta, history>>
  BY <1>1, <1>2, <1>3, TypedSame
<1>4. CASE /\ Storable(ref) /\ sector' = ref.sector /\ beta' = BetaAfter(ref)
           /\ history' = BetaHistoryAfter(ref, job[j].asOf)
  <2>1. TypeOK
    BY DEF Typed
  <2>2. /\ beta' \in {Cached(b) : b \in Betas} \cup {None} /\ (beta' # None => beta' > 0)
        /\ history' \in [Days -> Betas \cup {None}]
    <3>1. CASE ref.beta = None
      BY <1>4, <2>1, <3>1 DEF BetaAfter, BetaHistoryAfter, TypeOK
    <3>2. CASE ref.beta # None
      <4>1. ref.beta \in Betas /\ beta' = Cached(ref.beta) /\ Cached(ref.beta) > 0
        BY <1>2, <1>4, <3>2 DEF BetaAfter, Storable
      <4>2. history' = [history EXCEPT ![job[j].asOf] = ref.beta]
        BY <1>4, <3>2 DEF BetaHistoryAfter
      <4> QED
        BY <1>2, <2>1, <4>1, <4>2 DEF TypeOK
    <3> QED
      BY <3>1, <3>2
  <2>3. TypeOK'
    BY <1>2, <1>4, <2>1, <2>2 DEF TypeOK, Days
  <2>4. ChartAdjusts'
    BY <1>2 DEF Typed, ChartAdjusts, Days
  <2> QED
    BY <1>1, <2>3, <2>4 DEF Typed
<1> QED
  BY <1>3, <1>4 DEF StoreReference

LEMMA TypedNext ==
    ASSUME MarketAssumption, Typed, [Next]_vars
    PROVE  Typed' /\ (UNCHANGED bars \/ \A d \in Days : Stays(d))
<1>1. CASE NextDay \/ Trade \/ FillIn \/ Split
  BY <1>1, TypedSource
<1>2. ASSUME NEW j \in Jobs, Start(j) \/ Die(j)
      PROVE  Typed' /\ UNCHANGED bars
  BY <1>2, TypedStart DEF Start, Die, tables
<1>3. ASSUME NEW j \in Jobs, FetchHistory(j) \/ FetchQuote(j)
      PROVE  Typed' /\ UNCHANGED bars
  BY <1>3, TypedFetch DEF FetchHistory, FetchQuote, tables
<1>4. ASSUME NEW j \in Jobs, StoreHistory(j) \/ StoreQuote(j)
      PROVE  Typed' /\ (UNCHANGED bars \/ \A d \in Days : Stays(d))
  BY <1>4, TypedStore
<1>5. ASSUME NEW j \in Jobs, FetchReference(j)
      PROVE  Typed' /\ UNCHANGED bars
  BY <1>5, TypedFetchReference DEF FetchReference, tables
<1>6. ASSUME NEW j \in Jobs, StoreReference(j)
      PROVE  Typed' /\ UNCHANGED bars
  BY <1>6, TypedStoreReference DEF StoreReference
<1>7. CASE UNCHANGED vars
  <2>1. \A i \in Jobs : Held(i)'
    BY <1>7 DEF vars, Typed, Held, HeldHistory, HeldQuote, HeldReference, Days
  <2> QED
    BY <1>7, <2>1, TypedSame DEF vars, Typed
<1> QED
  BY <1>1, <1>2, <1>3, <1>4, <1>5, <1>6, <1>7 DEF Next

LEMMA TypedAlways == MarketAssumption => (Spec => []Typed)
<1> SUFFICES ASSUME MarketAssumption PROVE Spec => []Typed
  OBVIOUS
<1>1. Init => Typed
  BY TypedInit
<1>2. Typed /\ [Next]_vars => Typed'
  BY TypedNext
<1> QED
  BY <1>1, <1>2, PTL DEF Spec

\* The tables have their types: a bar has a close and an adjusted close of a
\* download or of a quote, and a cached beta is never the 0 to which a small one
\* rounds (storage/securities.go:142-190, storage/daily_prices.go:22-60).
THEOREM TypeCorrect == MarketAssumption => (Spec => []TypeOK)
<1> SUFFICES ASSUME MarketAssumption PROVE Spec => []TypeOK
  OBVIOUS
<1>1. Typed => TypeOK
  BY DEF Typed
<1> QED
  BY <1>1, TypedAlways, PTL

\* A bar that the chart gave stays a bar of the chart with its adjusted close,
\* whatever the two jobs download and store (storage/daily_prices.go:47-60).
THEOREM BarsOfTheChartStay == MarketAssumption => (Spec => ChartBarsStay)
<1> SUFFICES ASSUME MarketAssumption PROVE Spec => ChartBarsStay
  OBVIOUS
<1> DEFINE Kept == \A d \in Days : bars[d] # None /\ bars[d].source = "yahoo" =>
                      /\ bars'[d] # None /\ bars'[d].source = "yahoo"
                      /\ bars'[d].adjusted # Raw
<1>1. Typed /\ [Next]_vars => [Kept]_vars
  <2> SUFFICES ASSUME Typed, [Next]_vars PROVE Kept
    OBVIOUS
  <2>1. CASE UNCHANGED bars
    BY <2>1 DEF Typed, ChartAdjusts
  <2>2. CASE \A d \in Days : Stays(d)
    BY <2>2 DEF Stays
  <2> QED
    BY <2>1, <2>2, TypedNext
<1> QED
  BY <1>1, TypedAlways, PTL DEF Spec, ChartBarsStay

-----------------------------------------------------------------------------
(* The beta of a past day.                                                 *)

\* A beta of a day depends on the history up to that day alone.
LEMMA ReadingIsCausal ==
    ASSUME MarketAssumption, NEW h, NEW k, NEW d \in Days,
           \A e \in Days : e <= d => h[e] = k[e]
    PROVE  BetaAsOf(h, d) = BetaAsOf(k, d)
<1> DEFINE known == {e \in Days : e <= d /\ h[e] # None}
<1>1. known = {e \in Days : e <= d /\ k[e] # None}
  OBVIOUS
<1>2. CASE known = {}
  BY <1>1, <1>2 DEF BetaAsOf
<1>3. CASE known # {}
  <2>1. Max(known) \in known
    <3>1. known \in SUBSET Days
      OBVIOUS
    <3> HIDE DEF known
    <3> QED
      BY <1>3, <3>1, LastOfDays
  <2>2. h[Max(known)] = k[Max(known)]
    BY <2>1
  <2> QED
    BY <1>1, <1>3, <2>2 DEF BetaAsOf
<1> QED
  BY <1>2, <1>3

\* A day that has passed changes its beta only by an observation made on it or
\* before: an observation of today never informs a valuation of yesterday
\* (storage/betahistory.go:33-46).
THEOREM PastIsSettled == MarketAssumption => (Spec => PastBetaIsSettled)
<1> SUFFICES ASSUME MarketAssumption PROVE Spec => PastBetaIsSettled
  OBVIOUS
<1> DEFINE Settled == \A d \in Days : d < day /\ BetaAsOf(history', d) # BetaAsOf(history, d) =>
                         \E j \in Jobs : job[j].pc = "store_reference" /\ job[j].asOf <= d
<1>1. Typed /\ [Next]_vars => [Settled]_vars
  <2> SUFFICES ASSUME Typed, [Next]_vars, NEW d \in Days,
                      BetaAsOf(history', d) # BetaAsOf(history, d)
               PROVE  \E j \in Jobs : job[j].pc = "store_reference" /\ job[j].asOf <= d
    OBVIOUS
  <2>1. PICK j \in Jobs : StoreReference(j)
    BY OnlyReferencesWriteBeta
  <2>2. job[j].pc = "store_reference" /\ job[j].asOf \in Days
    BY <2>1 DEF StoreReference, Typed, Held, HeldReference
  <2>3. ASSUME ~(job[j].asOf <= d) PROVE FALSE
    <3>1. \A e \in Days : e <= d => e # job[j].asOf
      BY <2>3
    <3>2. history' = history \/ history' = [history EXCEPT ![job[j].asOf] = job[j].got.beta]
      BY <2>1 DEF StoreReference, BetaHistoryAfter
    <3>3. \A e \in Days : e <= d => history'[e] = history[e]
      BY <3>1, <3>2 DEF Typed, TypeOK
    <3> QED
      BY <3>3, ReadingIsCausal
  <2> QED
    BY <2>2, <2>3
<1> QED
  BY <1>1, TypedAlways, PTL DEF Spec, PastBetaIsSettled
=============================================================================
