--------------------------- MODULE ScoreStoreProofs ---------------------------
(***************************************************************************)
(* For every number of processes, sets, dates, configurations and inputs:  *)
(* a stored trace replays to its score, two parameter sets coexist, and    *)
(* the backfill of migration 017 is invisible.                             *)
(***************************************************************************)
EXTENDS ScoreStore, FiniteSetTheorems, WellFoundedInduction, TLAPS

\* The fields of a row and of its trace, whatever they hold.
Shaped(r) ==
    /\ r = [asOf |-> r.asOf, ver |-> r.ver, set |-> r.set, score |-> r.score,
            signal |-> r.signal, trace |-> r.trace, applied |-> r.applied, cfg |-> r.cfg]
    /\ r.trace = [in |-> r.trace.in, price |-> r.trace.price, mos |-> r.trace.mos, w |-> r.trace.w]

\* What a row replays to.
Replayed(r) == CalculateScore21(r.trace.in, r.trace.price, r.trace.mos, r.trace.w)

\* The inductive invariant: the shape of the rows is what lets the backfill
\* replace one field of a trace and nothing else.
Inv ==
    /\ writes \in Nat
    /\ \A r \in rows : Shaped(r) /\ Replayed(r).score = r.score /\ Replayed(r).signal = r.signal

(***************************************************************************)
(* A missing margin, a margin of 0 and one of 30 score alike.              *)
(***************************************************************************)
LEMMA MissingMargin ==
    ASSUME NEW in, NEW price, NEW w
    PROVE  /\ CalculateScore21(in, price, None, w) = CalculateScore21(in, price, 30, w)
           /\ CalculateScore21(in, price, 0, w) = CalculateScore21(in, price, 30, w)
<1>1. EffectiveMos(None) = 30
  <2>1. None \notin 1..100
    BY StoreAssumption
  <2>. QED BY <2>1 DEF EffectiveMos
<1>2. EffectiveMos(0) = 30 /\ EffectiveMos(30) = 30
  BY DEF EffectiveMos
<1>. QED BY <1>1, <1>2 DEF CalculateScore21

(***************************************************************************)
(* The rows the actions build.                                             *)
(***************************************************************************)
LEMMA WrittenRow ==
    ASSUME NEW in, NEW mc
    PROVE  /\ Shaped(Row(in, mc))
           /\ Replayed(Row(in, mc)).score = Row(in, mc).score
           /\ Replayed(Row(in, mc)).signal = Row(in, mc).signal
BY DEF Shaped, Replayed, Row, BuildTrace

LEMMA LegacyReplays ==
    ASSUME NEW ver, NEW in
    PROVE  LET r == LegacyRow(ver, in, None)
           IN  Shaped(r) /\ Replayed(r).score = r.score /\ Replayed(r).signal = r.signal
<1>. DEFINE r == LegacyRow(ver, in, None)
<1>1. r.trace = [in |-> in, price |-> in.price, mos |-> None, w |-> DefaultModelConfig.w]
  BY DEF LegacyRow, BuildTrace
<1>2. /\ r.score = CalculateScore21(in, in.price, 0, DefaultModelConfig.w).score
      /\ r.signal = CalculateScore21(in, in.price, 0, DefaultModelConfig.w).signal
  BY DEF LegacyRow
<1>3. Replayed(r) = CalculateScore21(in, in.price, 0, DefaultModelConfig.w)
  BY <1>1, MissingMargin DEF Replayed
<1>4. Shaped(r)
  BY <1>1 DEF Shaped, LegacyRow
<1>. QED BY <1>2, <1>3, <1>4

\* The backfilled row differs from the row in its margin, and replays alike.
LEMMA BackfilledRow ==
    ASSUME NEW r, Shaped(r), r.trace.mos = None
    PROVE  /\ Shaped(Backfilled(r)) /\ Replayed(Backfilled(r)) = Replayed(r)
           /\ Backfilled(r).score = r.score /\ Backfilled(r).signal = r.signal
           /\ [Backfilled(r) EXCEPT !.trace.mos = 0] = [r EXCEPT !.trace.mos = 0]
<1>. DEFINE b == Backfilled(r)
<1>1. b.trace = [in |-> r.trace.in, price |-> r.trace.price, mos |-> 30, w |-> r.trace.w]
  BY DEF Backfilled, Shaped
<1>2. b = [asOf |-> r.asOf, ver |-> r.ver, set |-> r.set, score |-> r.score,
           signal |-> r.signal, trace |-> b.trace, applied |-> r.applied, cfg |-> r.cfg]
  BY DEF Backfilled, Shaped
<1>3. Replayed(b) = Replayed(r)
  BY <1>1, MissingMargin DEF Replayed
<1>4. Shaped(b)
  BY <1>1, <1>2 DEF Shaped
<1>5. [b EXCEPT !.trace.mos = 0] = [r EXCEPT !.trace.mos = 0]
  BY <1>1, <1>2 DEF Shaped
<1>. QED BY <1>2, <1>3, <1>4, <1>5

(***************************************************************************)
(* The invariant.                                                          *)
(***************************************************************************)
LEMMA InvInit == Init => Inv
<1>. SUFFICES ASSUME Init PROVE Inv
  OBVIOUS
<1>1. writes \in Nat
  BY DEF Init
<1>2. ASSUME NEW r \in rows
      PROVE  Shaped(r) /\ Replayed(r).score = r.score /\ Replayed(r).signal = r.signal
  <2>1. PICK ver \in {200, 210}, in \in Inputs : r = LegacyRow(ver, in, None)
    BY DEF Init
  <2>. QED BY <2>1, LegacyReplays
<1>. QED BY <1>1, <1>2 DEF Inv

LEMMA InvNext == Inv /\ [Next]_vars => Inv'
<1>. SUFFICES ASSUME Inv, [Next]_vars PROVE Inv'
  OBVIOUS
<1>1. CASE rows' = rows /\ writes' = writes
  BY <1>1 DEF Inv
<1>2. ASSUME NEW p \in Workers, WriteScore(p) PROVE Inv'
  <2>1. writes' \in Nat
    BY <1>2 DEF WriteScore, Inv
  <2>2. PICK in \in Inputs : rows' = Upsert(Row(in, pass[p]))
    BY <1>2 DEF WriteScore
  <2>3. ASSUME NEW r \in rows'
        PROVE  Shaped(r) /\ Replayed(r).score = r.score /\ Replayed(r).signal = r.signal
    <3>1. CASE r \in rows
      BY <3>1 DEF Inv
    <3>2. CASE r = Row(in, pass[p])
      BY <3>2, WrittenRow
    <3>. QED BY <2>2, <3>1, <3>2 DEF Upsert
  <2>. QED BY <2>1, <2>3 DEF Inv
<1>3. CASE Migrate
  <2>1. writes' \in Nat
    BY <1>3 DEF Migrate, Inv
  <2>2. ASSUME NEW r \in rows'
        PROVE  Shaped(r) /\ Replayed(r).score = r.score /\ Replayed(r).signal = r.signal
    <3>1. PICK s \in rows : r = IF s.ver = 210 /\ s.trace.mos = None THEN Backfilled(s) ELSE s
      BY <1>3 DEF Migrate
    <3>2. Shaped(s) /\ Replayed(s).score = s.score /\ Replayed(s).signal = s.signal
      BY DEF Inv
    <3>3. CASE s.trace.mos = None
      BY <3>1, <3>2, <3>3, BackfilledRow
    <3>. QED BY <3>1, <3>2, <3>3
  <2>. QED BY <2>1, <2>2 DEF Inv
<1>4. CASE Next
  BY <1>1, <1>2, <1>3, <1>4 DEF Next, Resolve, LeavePass, Restart, EditSet, NewBar, Split
<1>. QED BY <1>1, <1>4 DEF vars

LEMMA InvAlways == Spec => []Inv
<1>. QED BY InvInit, InvNext, PTL DEF Spec

(***************************************************************************)
(* The theorems.                                                           *)
(***************************************************************************)
\* Whatever was edited, restarted, split or backfilled since it was written, a
\* row with a trace replays to the score and the signal it stores.
THEOREM TraceReplays == Spec => []ReplayReproduces
<1>1. Inv => ReplayReproduces
  BY DEF Inv, ReplayReproduces, Replayed, RecomputeFromTrace
<1>. QED BY <1>1, InvAlways, PTL

\* A calculation replaces at most the row of its own date, revision and set.
THEOREM RowsOfSetsCoexist == Spec => SetsCoexist
<1>. DEFINE Kept == writes' > writes =>
               \E new \in rows' :
                  /\ \A r \in rows : <<r.asOf, r.ver, r.set>> # <<new.asOf, new.ver, new.set>> => r \in rows'
                  /\ \A r \in rows' : r # new => r \in rows
<1>1. Inv /\ [Next]_vars => [Kept]_vars
  <2>. SUFFICES ASSUME Inv, [Next]_vars, writes' > writes PROVE Kept
    OBVIOUS
  <2>1. writes' # writes
    BY DEF Inv
  <2>2. PICK p \in Workers : WriteScore(p)
    BY <2>1 DEF Next, vars, Resolve, LeavePass, Restart, EditSet, NewBar, Split, Migrate
  <2>3. PICK in \in Inputs : rows' = Upsert(Row(in, pass[p]))
    BY <2>2 DEF WriteScore
  <2>. DEFINE new == Row(in, pass[p])
  <2>4. new \in rows'
    BY <2>3 DEF Upsert
  <2>5. \A r \in rows : <<r.asOf, r.ver, r.set>> # <<new.asOf, new.ver, new.set>> => r \in rows'
    BY <2>3 DEF Upsert, SameKey
  <2>6. \A r \in rows' : r # new => r \in rows
    BY <2>3 DEF Upsert
  <2>. HIDE DEF new
  <2>. QED BY <2>4, <2>5, <2>6
<1>. QED BY <1>1, InvAlways, PTL DEF Spec, SetsCoexist

\* No step that is not a calculation, the migration included, changes what a
\* row replays to, or anything else of it than the margin of its trace.
THEOREM BackfillKeepsReplays == Spec => BackfillIsInvisible
<1>. DEFINE Kept == writes' = writes =>
               \A r \in rows : \E s \in rows' :
                  /\ [s EXCEPT !.trace.mos = 0] = [r EXCEPT !.trace.mos = 0]
                  /\ CalculateScore21(s.trace.in, s.trace.price, s.trace.mos, s.trace.w)
                       = CalculateScore21(r.trace.in, r.trace.price, r.trace.mos, r.trace.w)
<1>1. Inv /\ [Next]_vars => [Kept]_vars
  <2>. SUFFICES ASSUME Inv, [Next]_vars, writes' = writes PROVE Kept
    OBVIOUS
  <2>1. CASE rows' = rows
    BY <2>1
  <2>2. CASE Migrate
    <3>. SUFFICES ASSUME NEW r \in rows
                  PROVE  \E s \in rows' :
                            /\ [s EXCEPT !.trace.mos = 0] = [r EXCEPT !.trace.mos = 0]
                            /\ Replayed(s) = Replayed(r)
      BY DEF Replayed
    <3>1. Shaped(r)
      BY DEF Inv
    <3>2. CASE r.ver = 210 /\ r.trace.mos = None
      <4>1. Backfilled(r) \in rows'
        BY <2>2, <3>2 DEF Migrate
      <4>. QED BY <3>1, <3>2, <4>1, BackfilledRow
    <3>3. CASE ~(r.ver = 210 /\ r.trace.mos = None)
      <4>1. r \in rows'
        BY <2>2, <3>3 DEF Migrate
      <4>. QED BY <4>1
    <3>. QED BY <3>2, <3>3
  <2>3. ASSUME NEW p \in Workers, WriteScore(p) PROVE FALSE
    BY <2>3 DEF WriteScore, Inv
  <2>. QED BY <2>1, <2>2, <2>3 DEF Next, vars, Resolve, LeavePass, Restart, EditSet, NewBar, Split
<1>. QED BY <1>1, InvAlways, PTL DEF Spec, BackfillIsInvisible

(***************************************************************************)
(* A sum of numbers.                                                       *)
(***************************************************************************)
\* Induction up to a bound, over a set of numbers.
LEMMA UpTo ==
    ASSUME NEW bound \in Nat, NEW P, 0 \in P,
           \A n \in 1..bound : n - 1 \in P => n \in P
    PROVE  \A n \in 0..bound : n \in P
<1>. DEFINE Bad == {n \in 0..bound : n \notin P}
<1>. SUFFICES ASSUME Bad # {} PROVE FALSE
  OBVIOUS
<1>1. Bad \in SUBSET Nat
  OBVIOUS
<1>2. PICK least \in Bad : \A n \in Bad : ~(<<n, least>> \in OpToRel(<, Nat))
  BY <1>1, WFMin, NatLessThanWellFounded
<1>3. \A n \in Bad : ~(n < least)
  BY <1>1, <1>2 DEF OpToRel
<1>4. least \in 1..bound /\ least - 1 \in 0..bound /\ least - 1 < least
  OBVIOUS
<1>5. least - 1 \in P
  BY <1>3, <1>4
<1>. QED BY <1>4, <1>5

LEMMA SumIsNat ==
    ASSUME NEW S, IsFiniteSet(S), NEW w, \A d \in S : w[d] \in Nat
    PROVE  Sum(w, S) \in Nat
<1>. DEFINE Next1(s) == CHOOSE x \in s : TRUE
            Small(n) == {s \in SUBSET S : Cardinality(s) <= n}
            Upper(n, f) == f = [s \in Small(n) |-> IF s = {} THEN 0
                                                   ELSE w[Next1(s)] + f[s \ {Next1(s)}]]
            size == Cardinality(S)
            P == {n \in 0..size : \E f : Upper(n, f)}
<1>1. size \in Nat /\ \A s \in SUBSET S : IsFiniteSet(s) /\ Cardinality(s) \in 0..size
  BY FS_CardinalityType, FS_Subset
<1>2. \A s \in SUBSET S : Cardinality(s) = 0 <=> s = {}
  BY <1>1, FS_EmptySet
<1>3. \A s \in SUBSET S : s # {} =>
         /\ Next1(s) \in s /\ s \ {Next1(s)} \in SUBSET S
         /\ Cardinality(s \ {Next1(s)}) = Cardinality(s) - 1
  BY <1>1, FS_RemoveElement
<1>. HIDE DEF Next1
<1>4. 0 \in P
  <2>1. Small(0) = {{}}
    BY <1>1, <1>2
  <2>2. Upper(0, [s \in Small(0) |-> 0])
    BY <2>1
  <2>. HIDE DEF Upper
  <2>. QED BY <1>1, <2>2
<1>5. ASSUME NEW n \in 1..size, n - 1 \in P PROVE n \in P
  <2>1. PICK f : Upper(n - 1, f)
    BY <1>5
  <2>. DEFINE g == [s \in Small(n) |-> IF s = {} THEN 0 ELSE w[Next1(s)] + f[s \ {Next1(s)}]]
  <2>2. ASSUME NEW s \in Small(n), s # {}
        PROVE  g[s \ {Next1(s)}] = f[s \ {Next1(s)}]
    <3>. DEFINE t == s \ {Next1(s)}
    <3>1. t \in Small(n - 1) /\ t \in Small(n)
      BY <1>1, <1>3, <2>2
    <3>. QED BY <2>1, <3>1
  <2>3. Upper(n, g)
    BY <2>2
  <2>. HIDE DEF Upper, g
  <2>. QED BY <2>3
<1>6. \E f : Upper(size, f)
  <2>1. size \in P
    <3>. HIDE DEF P
    <3>. QED BY <1>1, <1>4, <1>5, UpTo
  <2>. QED BY <2>1
<1>7. Small(size) = SUBSET S
  BY <1>1
<1>. DEFINE iter == CHOOSE f : f = [s \in SUBSET S |-> IF s = {} THEN 0
                                                  ELSE w[Next1(s)] + f[s \ {Next1(s)}]]
<1>8. iter = [s \in SUBSET S |-> IF s = {} THEN 0 ELSE w[Next1(s)] + iter[s \ {Next1(s)}]]
  BY <1>6, <1>7
<1>9. Sum(w, S) = iter[S]
  BY DEF Sum, MapThenSumSet, MapThenFoldSet, Next1
<1>. HIDE DEF iter
<1>. DEFINE Q == {n \in 0..size : \A s \in SUBSET S : Cardinality(s) = n => iter[s] \in Nat}
<1>10. 0 \in Q
  BY <1>1, <1>2, <1>8
<1>11. ASSUME NEW n \in 1..size, n - 1 \in Q PROVE n \in Q
  <2>. SUFFICES ASSUME NEW s \in SUBSET S, Cardinality(s) = n PROVE iter[s] \in Nat
    OBVIOUS
  <2>1. s # {}
    BY <1>2
  <2>2. iter[s] = w[Next1(s)] + iter[s \ {Next1(s)}] /\ w[Next1(s)] \in Nat
    BY <1>3, <1>8, <2>1
  <2>3. iter[s \ {Next1(s)}] \in Nat
    BY <1>3, <1>11, <2>1
  <2>. QED BY <2>2, <2>3
<1>12. size \in Q
  <2>. HIDE DEF Q
  <2>. QED BY <1>1, <1>10, <1>11, UpTo
<1>. QED BY <1>9, <1>12

(***************************************************************************)
(* The types: a score and a margin stay in their range.                    *)
(***************************************************************************)
Weights == [Dims -> 0..100]

LEMMA ScoreIntrinsicIs ==
    ASSUME NEW price \in Int, NEW intrinsic \in Int \cup {None}, NEW mos \in 1..100
    PROVE  ScoreIntrinsic(price, intrinsic, mos) \in Nat \cup {None}
<1>1. CASE intrinsic = None \/ price <= 0 \/ intrinsic <= 0
  BY <1>1 DEF ScoreIntrinsic
<1>2. CASE intrinsic \in Int /\ price > 0 /\ intrinsic > 0
  <2>1. CASE price >= intrinsic \/ 100 * price <= intrinsic * (100 - mos)
    BY <1>2, <2>1 DEF ScoreIntrinsic
  <2>2. CASE ~(price >= intrinsic) /\ ~(100 * price <= intrinsic * (100 - mos))
    <3>1. intrinsic * mos \in Nat \ {0} /\ 1000000 * (intrinsic - price) \in Nat
      BY <1>2, <2>2
    <3>2. (1000000 * (intrinsic - price)) \div (intrinsic * mos) \in Nat
      BY <3>1
    <3>3. intrinsic # None
      BY <1>2, StoreAssumption
    <3>. QED BY <1>2, <2>2, <3>2, <3>3 DEF ScoreIntrinsic
  <2>. QED BY <2>1, <2>2
<1>. QED BY <1>1, <1>2

LEMMA ScoreTrendIs ==
    ASSUME NEW sma, NEW m6 \in Nat \cup {None}, NEW m12 \in Nat \cup {None}
    PROVE  ScoreTrend(sma, m6, m12) \in Nat
<1>. DEFINE ms == {i \in {6, 12} : (IF i = 6 THEN m6 ELSE m12) # None}
            total == IF ms = {6, 12} THEN m6 + m12 ELSE IF ms = {6} THEN 2 * m6 ELSE 2 * m12
<1>1. TrendBase(sma) \in Nat
  BY DEF TrendBase
<1>2. (6 \in ms <=> m6 # None) /\ (12 \in ms <=> m12 # None)
  OBVIOUS
<1>3. ms # {} => total \in Nat
  BY <1>2
<1>. HIDE DEF total
<1>4. ScoreTrend(sma, m6, m12) = IF ms = {} THEN 100 * TrendBase(sma)
                                 ELSE 70 * TrendBase(sma) + 15 * total
  BY DEF ScoreTrend, total
<1>. HIDE DEF ms
<1>. QED BY <1>1, <1>3, <1>4

LEMMA DimensionsAre ==
    ASSUME NEW in \in Inputs, NEW mos \in 1..100, NEW d \in Dims
    PROVE  Dimensions(in, in.price, mos)[d] \in Nat \cup {None}
<1>1. /\ in.price \in Int /\ in.graham \in Int \cup {None} /\ in.dcf \in Int \cup {None}
      /\ in.quality \in Int \cup {None} /\ in.relative \in Int \cup {None}
      /\ in.market.m6 \in Nat \cup {None} /\ in.market.m12 \in Nat \cup {None}
  BY InputsAssumption
<1>2. /\ ScoreIntrinsic(in.price, in.graham, mos) \in Nat \cup {None}
      /\ ScoreIntrinsic(in.price, in.dcf, mos) \in Nat \cup {None}
  BY <1>1, ScoreIntrinsicIs
<1>3. Clamped(in.quality) \in Nat \cup {None} /\ Clamped(in.relative) \in Nat \cup {None}
  BY <1>1 DEF Clamped
<1>4. ScoreMarketContext(in.market) \in Nat \cup {None}
  BY <1>1, ScoreTrendIs DEF ScoreMarketContext
<1>. QED BY <1>2, <1>3, <1>4 DEF Dimensions

LEMMA ResultIs ==
    ASSUME NEW in \in Inputs, NEW mos, NEW w \in Weights
    PROVE  LET res == CalculateScore21(in, in.price, mos, w)
           IN  /\ res.score \in 0..100 /\ res.mos \in 1..100
               /\ res.signal \in {"comprar", "mantener", "vender"}
<1>. DEFINE effective == EffectiveMos(mos)
            dims == Dimensions(in, in.price, effective)
            valid == ValidDims(dims)
            product == [d \in valid |-> dims[d] * w[d]]
            total == Sum(product, valid)
            used == Sum(w, valid)
<1>1. effective \in 1..100
  BY DEF EffectiveMos
<1>2. IsFiniteSet(valid) /\ valid \subseteq Dims
  <2>1. IsFiniteSet(Dims)
    <3>1. IsFiniteSet({"graham"})
      BY FS_Singleton
    <3>2. IsFiniteSet({"graham"} \cup {"dcf"})
      BY <3>1, FS_AddElement
    <3>3. IsFiniteSet({"graham"} \cup {"dcf"} \cup {"quality"})
      BY <3>2, FS_AddElement
    <3>4. IsFiniteSet({"graham"} \cup {"dcf"} \cup {"quality"} \cup {"relative"})
      BY <3>3, FS_AddElement
    <3>5. IsFiniteSet({"graham"} \cup {"dcf"} \cup {"quality"} \cup {"relative"}
                        \cup {"market_context"})
      BY <3>4, FS_AddElement
    <3>6. Dims = {"graham"} \cup {"dcf"} \cup {"quality"} \cup {"relative"}
                   \cup {"market_context"}
      BY DEF Dims
    <3>. QED BY <3>5, <3>6
  <2>. QED BY <2>1, FS_Subset DEF ValidDims
<1>3. \A d \in valid : dims[d] \in Nat /\ w[d] \in Nat
  <2>. SUFFICES ASSUME NEW d \in valid PROVE dims[d] \in Nat /\ w[d] \in Nat
    OBVIOUS
  <2>1. d \in Dims /\ dims[d] # None
    BY DEF ValidDims
  <2>2. dims[d] \in Nat \cup {None}
    BY <1>1, <2>1, DimensionsAre
  <2>. QED BY <2>1, <2>2 DEF Weights
<1>. HIDE DEF dims, effective, valid
<1>4. total \in Nat /\ used \in Nat
  <2>1. \A d \in valid : product[d] \in Nat
    BY <1>3
  <2>. HIDE DEF product
  <2>. QED BY <1>2, <1>3, <2>1, SumIsNat
<1>5. Weighted(dims, w).total = total /\ Weighted(dims, w).used = used
  BY DEF Weighted, valid
<1>. HIDE DEF total, used
<1>6. Final(total, used) \in 0..100
  <2>1. CASE used = 0
    BY <2>1 DEF Final
  <2>2. CASE used # 0
    <3>1. 200 * used \in Nat \ {0} /\ 2 * total + 100 * used \in Nat
      BY <1>4, <2>2
    <3>2. (2 * total + 100 * used) \div (200 * used) \in Nat
      BY <3>1
    <3>. QED BY <2>2, <3>2 DEF Final
  <2>. QED BY <2>1, <2>2
<1>. DEFINE res == CalculateScore21(in, in.price, mos, w)
<1>7. /\ res.score = Final(total, used) /\ res.mos = effective
      /\ res.signal = SignalForScore(res.score)
  BY <1>5 DEF CalculateScore21, dims, effective
<1>. QED BY <1>1, <1>6, <1>7 DEF SignalForScore

\* Whatever an environment and a set hold, what they resolve to is in range.
LEMMA DefaultIs == DefaultModelConfig \in Configs
<1>1. DefaultModelConfig.w \in Weights
  BY DEF DefaultModelConfig, Weights, Dims
<1>. QED BY <1>1 DEF DefaultModelConfig, Configs, Margins, Weights

LEMMA EnvironmentIs ==
    ASSUME NEW env
    PROVE  ModelConfigFromEnv(env) \in Configs
<1>. DEFINE c == DefaultModelConfig
            weights == [c.w EXCEPT !["market_context"] = Ranged(env.market, @)]
            mos == Ranged(env.mos, c.mos)
<1>1. c \in Configs
  BY DefaultIs
<1>2. weights \in [Dims -> 0..100] /\ mos \in Margins
  BY <1>1 DEF Configs, Ranged, Margins, Dims
<1>3. ModelConfigFromEnv(env) = [c EXCEPT !.mos = mos, !.w = weights]
  BY <1>1 DEF ModelConfigFromEnv, Configs
<1>4. c = [w |-> c.w, mos |-> c.mos, buy |-> c.buy, hold |-> c.hold, set |-> c.set]
  BY DEF DefaultModelConfig
<1>. HIDE DEF c, weights, mos
<1>5. ModelConfigFromEnv(env) = [w |-> weights, mos |-> mos, buy |-> c.buy, hold |-> c.hold,
                                 set |-> c.set]
  BY <1>3, <1>4
<1>. QED BY <1>1, <1>2, <1>5 DEF Configs

LEMMA OverriddenIs ==
    ASSUME NEW c \in Configs, NEW ps, NEW name \in Names
    PROVE  [WithParameters(c, ps) EXCEPT !.set = name] \in Configs
<1>. DEFINE v(key, below) == IF key \in DOMAIN ps THEN Ranged(ps[key], below) ELSE below
            weights == [d \in Dims |-> v(d, c.w[d])]
<1>1. weights \in [Dims -> 0..100] /\ v("mos", c.mos) \in Margins /\ v("buy", c.buy) \in 0..100
  BY DEF Configs, Ranged, Margins
<1>2. WithParameters(c, ps) = [c EXCEPT !.w = weights, !.mos = v("mos", c.mos),
                                        !.buy = v("buy", c.buy)]
  BY DEF WithParameters, Configs
<1>. HIDE DEF weights, v
<1>. QED BY <1>1, <1>2 DEF Configs

LEMMA ResolvedIs ==
    ASSUME NEW p, proc[p].active \in Names
    PROVE  ResolveScoreConfig(p) \in Configs
<1>. DEFINE env == ModelConfigFromEnv(proc[p].env)
            cfg == [WithParameters(env, sets[proc[p].active]) EXCEPT !.set = proc[p].active]
<1>1. env \in Configs /\ cfg \in Configs
  BY EnvironmentIs, OverriddenIs
<1>. QED BY <1>1 DEF ResolveScoreConfig

\* The rows that are written.
LEMMA RowIs ==
    ASSUME today \in Days, NEW in \in Inputs, NEW mc \in Configs
    PROVE  Row(in, mc) \in RowType
<1>. DEFINE res == CalculateScore21(in, in.price, mc.mos, mc.w)
            trace == BuildTrace(in, in.price, mc)
<1>1. mc.w \in Weights /\ mc.mos \in Margins /\ mc.set \in Names \cup {NoSet}
  BY DEF Configs, Weights
<1>2. /\ res.score \in 0..100 /\ res.mos \in 1..100
      /\ res.signal \in {"comprar", "mantener", "vender"}
  BY <1>1, ResultIs
<1>3. trace \in Traces
  BY <1>1, InputsAssumption DEF BuildTrace, Traces, Weights
<1>4. Row(in, mc) = [asOf |-> today, ver |-> 220, set |-> mc.set, score |-> res.score,
                     signal |-> res.signal, trace |-> trace, applied |-> res.mos, cfg |-> mc]
  BY DEF Row
<1>. HIDE DEF res, trace
<1>. QED BY <1>1, <1>2, <1>3, <1>4 DEF RowType

LEMMA LegacyIs ==
    ASSUME NEW ver \in {200, 210}, NEW in \in Inputs
    PROVE  LegacyRow(ver, in, None) \in RowType
<1>. DEFINE mc == DefaultModelConfig
            res == CalculateScore21(in, in.price, 0, mc.w)
            trace == [BuildTrace(in, in.price, mc) EXCEPT !.mos = None]
<1>1. mc \in Configs /\ mc.w \in Weights /\ 1 \in Days
  BY DefaultIs, StoreAssumption DEF Configs, Weights, Days
<1>2. /\ res.score \in 0..100 /\ res.mos \in 1..100
      /\ res.signal \in {"comprar", "mantener", "vender"}
  BY <1>1, ResultIs
<1>3. trace \in Traces
  BY <1>1, InputsAssumption DEF BuildTrace, Traces, Weights
<1>4. LegacyRow(ver, in, None) =
        [asOf |-> 1, ver |-> ver, set |-> NoSet, score |-> res.score,
         signal |-> res.signal, trace |-> trace, applied |-> res.mos, cfg |-> mc]
  BY DEF LegacyRow
<1>. HIDE DEF res, trace, mc
<1>. QED BY <1>1, <1>2, <1>3, <1>4 DEF RowType

LEMMA BackfilledIs ==
    ASSUME NEW r \in RowType
    PROVE  Backfilled(r) \in RowType
<1>. DEFINE trace == [r.trace EXCEPT !.mos = 30]
<1>1. trace \in Traces
  BY DEF RowType, Traces, Margins
<1>2. Backfilled(r) = [r EXCEPT !.trace = trace]
  BY DEF Backfilled, RowType
<1>. HIDE DEF trace
<1>. QED BY <1>1, <1>2 DEF RowType

LEMMA TypesInit == Init => TypeOK
<1>. SUFFICES ASSUME Init PROVE TypeOK
  OBVIOUS
<1>1. 1 \in Days /\ 0 \in 0..MaxWrites /\ 0 \in 0..MaxEdits
  BY StoreAssumption DEF Days
<1>2. rows \subseteq RowType
  BY LegacyIs DEF Init
<1>3. \A p \in Workers : pass[p] = None
  BY DEF Init
<1>4. \A n \in Names : sets[n] = None
  BY DEF Init
<1>5. today = 1 /\ split = FALSE /\ writes = 0 /\ edits = 0
      /\ proc \in [Workers -> [env : Envs, active : Names]]
  BY DEF Init
<1>. QED BY <1>1, <1>2, <1>3, <1>4, <1>5 DEF TypeOK

LEMMA TypesNext == TypeOK /\ [Next]_vars => TypeOK'
<1>. SUFFICES ASSUME TypeOK, [Next]_vars PROVE TypeOK'
  OBVIOUS
<1>1. ASSUME NEW p \in Workers, Resolve(p) PROVE TypeOK'
  <2>1. proc[p].active \in Names
    BY DEF TypeOK
  <2>2. ResolveScoreConfig(p) \in Configs
    BY <2>1, ResolvedIs
  <2>3. \A q \in Workers : pass'[q] = None \/ pass'[q] \in Configs
    BY <1>1, <2>2 DEF Resolve, TypeOK
  <2>. QED BY <1>1, <2>3 DEF Resolve, TypeOK, Days
<1>2. ASSUME NEW p \in Workers, WriteScore(p) PROVE TypeOK'
  <2>1. PICK in \in Inputs : rows' = Upsert(Row(in, pass[p]))
    BY <1>2 DEF WriteScore
  <2>2. pass[p] \in Configs /\ today \in Days
    BY <1>2 DEF WriteScore, TypeOK
  <2>3. Row(in, pass[p]) \in RowType
    BY <2>2, RowIs
  <2>4. rows' \subseteq RowType
    BY <2>1, <2>3 DEF Upsert, TypeOK
  <2>5. writes' \in 0..MaxWrites
    BY <1>2, StoreAssumption DEF WriteScore, TypeOK
  <2>6. \A q \in Workers : pass'[q] = None \/ pass'[q] \in Configs
    BY <1>2 DEF WriteScore, TypeOK
  <2>. QED BY <1>2, <2>4, <2>5, <2>6 DEF WriteScore, TypeOK, Days
<1>3. ASSUME NEW p \in Workers, LeavePass(p) PROVE TypeOK'
  <2>1. \A q \in Workers : pass'[q] = None \/ pass'[q] \in Configs
    BY <1>3 DEF LeavePass, TypeOK
  <2>. QED BY <1>3, <2>1 DEF LeavePass, TypeOK, Days
<1>4. ASSUME NEW p \in Workers, Restart(p) PROVE TypeOK'
  <2>1. proc' \in [Workers -> [env : Envs, active : Names]]
    BY <1>4 DEF Restart, TypeOK
  <2>2. edits' \in 0..MaxEdits
    BY <1>4, StoreAssumption DEF Restart, TypeOK
  <2>. QED BY <1>4, <2>1, <2>2 DEF Restart, TypeOK, Days
<1>5. ASSUME NEW n \in Names, EditSet(n) PROVE TypeOK'
  <2>1. \A m \in Names : sets'[m] = None \/ sets'[m] \in Parameters
    BY <1>5 DEF EditSet, TypeOK
  <2>2. edits' \in 0..MaxEdits
    BY <1>5, StoreAssumption DEF EditSet, TypeOK
  <2>. QED BY <1>5, <2>1, <2>2 DEF EditSet, TypeOK, Days
<1>6. CASE NewBar
  BY <1>6, StoreAssumption DEF NewBar, TypeOK, Days
<1>7. CASE Split
  <2>1. edits' \in 0..MaxEdits
    BY <1>7, StoreAssumption DEF Split, TypeOK
  <2>. QED BY <1>7, <2>1 DEF Split, TypeOK, Days
<1>8. CASE Migrate
  <2>1. rows' \subseteq RowType
    BY <1>8, BackfilledIs DEF Migrate, TypeOK
  <2>. QED BY <1>8, <2>1 DEF Migrate, TypeOK, Days
<1>9. CASE UNCHANGED vars
  BY <1>9 DEF vars, TypeOK, Days
<1>. QED BY <1>1, <1>2, <1>3, <1>4, <1>5, <1>6, <1>7, <1>8, <1>9 DEF Next

\* Whatever a set or an environment asks for, a stored score is within 0..100,
\* the margin it was computed with within 1..100, and the configuration that a
\* pass resolved within the ranges of modelcfg (calculateScore21, EnvFloatRange,
\* paramFloat).
THEOREM TypeCorrect == Spec => []TypeOK
<1>. QED BY TypesInit, TypesNext, PTL DEF Spec
=============================================================================
