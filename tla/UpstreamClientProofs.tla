------------------------- MODULE UpstreamClientProofs -------------------------
(***************************************************************************)
(* The budget of requests, the attempts and the waits of a client, for any *)
(* budget, any interval, any number of attempts and any Retry-After.       *)
(***************************************************************************)
EXTENDS UpstreamClient, WellFoundedInduction, TLAPS

-----------------------------------------------------------------------------
(* Two recursive definitions.                                              *)

\* Induction up to a bound, over a set of numbers.
LEMMA UpTo ==
    ASSUME NEW bound \in Nat, NEW P, 0 \in P,
           \A n \in 1 .. bound : n - 1 \in P => n \in P
    PROVE  \A n \in 0 .. bound : n \in P
  <1> DEFINE Bad == {n \in 0 .. bound : n \notin P}
  <1> SUFFICES ASSUME Bad # {} PROVE FALSE
    OBVIOUS
  <1>1. Bad \in SUBSET Nat
    OBVIOUS
  <1>2. PICK least \in Bad : \A n \in Bad : ~(<<n, least>> \in OpToRel(<, Nat))
    BY <1>1, WFMin, NatLessThanWellFounded
  <1>3. \A n \in Bad : ~(n < least)
    BY <1>1, <1>2 DEF OpToRel
  <1>4. least \in 0 .. bound /\ least \notin P
    OBVIOUS
  <1>5. least \in 1 .. bound /\ least - 1 \in 0 .. bound /\ least - 1 < least
    BY <1>4
  <1>6. least - 1 \in P
    BY <1>3, <1>5
  <1> QED
    BY <1>4, <1>5, <1>6

LEMMA DoubledExists ==
    \E f : f = [n \in 0 .. MaxRetries |-> IF n = 0 THEN RetryBase ELSE 2 * f[n - 1]]
  <1> DEFINE Upper(m, f) == f = [n \in 0 .. m |-> IF n = 0 THEN RetryBase ELSE 2 * f[n - 1]]
             P == {m \in 0 .. MaxRetries : \E f : Upper(m, f)}
  <1>1. MaxRetries \in Nat
    BY ClientAssumption
  <1>2. 0 \in P
    <2>1. Upper(0, [n \in 0 .. 0 |-> RetryBase])
      OBVIOUS
    <2> HIDE DEF Upper
    <2> QED
      BY <1>1, <2>1
  <1>3. ASSUME NEW m \in 1 .. MaxRetries, m - 1 \in P PROVE m \in P
    <2>1. PICK f : Upper(m - 1, f)
      BY <1>3
    <2> DEFINE g == [n \in 0 .. m |-> IF n = m THEN 2 * f[m - 1] ELSE f[n]]
    <2>2. \A n \in 0 .. m : g[n] = IF n = 0 THEN RetryBase ELSE 2 * g[n - 1]
      <3> SUFFICES ASSUME NEW n \in 0 .. m
                   PROVE  g[n] = IF n = 0 THEN RetryBase ELSE 2 * g[n - 1]
        OBVIOUS
      <3>1. CASE n = m
        BY <3>1
      <3>2. CASE n # m
        <4>1. n \in 0 .. (m - 1) /\ f[n] = IF n = 0 THEN RetryBase ELSE 2 * f[n - 1]
          BY <2>1, <3>2
        <4>2. n # 0 => g[n - 1] = f[n - 1]
          BY <4>1
        <4> QED
          BY <3>2, <4>1, <4>2
      <3> QED
        BY <3>1, <3>2
    <2>3. Upper(m, g)
      BY <2>2
    <2> HIDE DEF Upper, g
    <2> QED
      BY <1>3, <2>3
  <1>4. MaxRetries \in P
    <2> HIDE DEF P
    <2> QED
      BY <1>1, <1>2, <1>3, UpTo
  <1> QED
    BY <1>4

\* The exponential backoff is a number of ticks.
LEMMA DoubledIs == \A n \in 0 .. MaxRetries : Doubled[n] \in Nat
  <1> DEFINE P == {n \in 0 .. MaxRetries : Doubled[n] \in Nat}
  <1>1. MaxRetries \in Nat /\ RetryBase \in Nat
    BY ClientAssumption
  <1>2. Doubled = [n \in 0 .. MaxRetries |-> IF n = 0 THEN RetryBase ELSE 2 * Doubled[n - 1]]
    BY DoubledExists DEF Doubled
  <1>3. \A n \in 0 .. MaxRetries : Doubled[n] = IF n = 0 THEN RetryBase ELSE 2 * Doubled[n - 1]
    BY <1>2
  <1>4. 0 \in P
    BY <1>1, <1>3
  <1>5. ASSUME NEW n \in 1 .. MaxRetries, n - 1 \in P PROVE n \in P
    BY <1>3, <1>5
  <1>6. \A n \in 0 .. MaxRetries : n \in P
    <2> HIDE DEF P
    <2> QED
      BY <1>1, <1>4, <1>5, UpTo
  <1> QED
    BY <1>6

Second == Rps * Interval

LEMMA SecondIs == Second \in Nat /\ Second >= 1 /\ Window = 0 .. (Second - 1)
  <1>1. Rps \in Nat /\ Interval \in Nat /\ Rps >= 1 /\ Interval >= 1
    BY ClientAssumption
  <1>2. Rps * Interval \in Nat /\ Rps * Interval >= 1
    BY <1>1
  <1> QED
    BY <1>2 DEF Second, Window

LEMMA SentWithinExists ==
    ASSUME NEW history \in [Window -> Nat]
    PROVE  \E f : f = [n \in 0 .. Second |-> IF n = 0 THEN 0 ELSE f[n - 1] + history[n - 1]]
  <1> DEFINE Upper(m, f) == f = [n \in 0 .. m |-> IF n = 0 THEN 0 ELSE f[n - 1] + history[n - 1]]
             P == {m \in 0 .. Second : \E f : Upper(m, f)}
  <1>1. Second \in Nat
    BY SecondIs
  <1> HIDE DEF Second
  <1>2. 0 \in P
    <2>1. Upper(0, [n \in 0 .. 0 |-> 0])
      OBVIOUS
    <2> HIDE DEF Upper
    <2> QED
      BY <1>1, <2>1
  <1>3. ASSUME NEW m \in 1 .. Second, m - 1 \in P PROVE m \in P
    <2>1. PICK f : Upper(m - 1, f)
      BY <1>3
    <2> DEFINE g == [n \in 0 .. m |-> IF n = m THEN f[m - 1] + history[m - 1] ELSE f[n]]
    <2>2. \A n \in 0 .. m : g[n] = IF n = 0 THEN 0 ELSE g[n - 1] + history[n - 1]
      <3> SUFFICES ASSUME NEW n \in 0 .. m
                   PROVE  g[n] = IF n = 0 THEN 0 ELSE g[n - 1] + history[n - 1]
        OBVIOUS
      <3>1. CASE n = m
        BY <3>1
      <3>2. CASE n # m
        <4>1. n \in 0 .. (m - 1) /\ f[n] = IF n = 0 THEN 0 ELSE f[n - 1] + history[n - 1]
          BY <2>1, <3>2
        <4>2. n # 0 => g[n - 1] = f[n - 1]
          BY <4>1
        <4> QED
          BY <3>2, <4>1, <4>2
      <3> QED
        BY <3>1, <3>2
    <2>3. Upper(m, g)
      BY <2>2
    <2> HIDE DEF Upper, g
    <2> QED
      BY <1>3, <2>3
  <1>4. Second \in P
    <2> HIDE DEF P
    <2> QED
      BY <1>1, <1>2, <1>3, UpTo
  <1> QED
    BY <1>4

\* The requests of the last ticks, summed one age after the other.
LEMMA SentWithinIs ==
    ASSUME NEW history \in [Window -> Nat]
    PROVE  /\ SentWithin(history)[0] = 0
           /\ \A n \in 1 .. Second :
                 SentWithin(history)[n] = SentWithin(history)[n - 1] + history[n - 1]
           /\ \A n \in 0 .. Second : SentWithin(history)[n] \in Nat
  <1> DEFINE s == SentWithin(history)
             P == {n \in 0 .. Second : s[n] \in Nat}
  <1>1. Second \in Nat /\ Window = 0 .. (Second - 1)
    BY SecondIs
  <1>2. s = [n \in 0 .. Second |-> IF n = 0 THEN 0 ELSE s[n - 1] + history[n - 1]]
    BY SentWithinExists DEF SentWithin, Second
  <1> HIDE DEF s, Second
  <1>3. \A n \in 0 .. Second : s[n] = IF n = 0 THEN 0 ELSE s[n - 1] + history[n - 1]
    BY <1>2
  <1>4. s[0] = 0 /\ \A n \in 1 .. Second : s[n] = s[n - 1] + history[n - 1]
    BY <1>1, <1>3
  <1>5. 0 \in P
    BY <1>1, <1>4
  <1>6. ASSUME NEW n \in 1 .. Second, n - 1 \in P PROVE n \in P
    <2>1. history[n - 1] \in Nat
      BY <1>1
    <2> QED
      BY <1>4, <1>6, <2>1
  <1>7. \A n \in 0 .. Second : n \in P
    <2> HIDE DEF P
    <2> QED
      BY <1>1, <1>5, <1>6, UpTo
  <1> QED
    BY <1>4, <1>7 DEF s

-----------------------------------------------------------------------------
(* The invariant: the types, the attempts and the waits of the GET.        *)

Calls == [pc : {"limiter", "do", "answer", "backoff", "ended"}, url : Urls,
          attempt : 1 .. MaxRetries, wait : Nat,
          result : {"none", "failed", "aborted"} \cup Answers,
          asked : [Urls -> Nat], answer : [Urls -> Answers \cup {"none"}]]

Typed ==
    /\ phase \in 0 .. (Interval - 1)
    /\ token \in BOOLEAN /\ cancelled \in BOOLEAN
    /\ call \in Calls /\ WithinAWait(call.wait)
    /\ sent \in [Window -> Nat]
    /\ form \in Forms
    /\ quiet \in Nat /\ WithinAWait(quiet)
    /\ rest \in Nat /\ WithinAWait(rest)

\* An attempt is counted before its request leaves.
Counted ==
    /\ \A u \in Urls : call.asked[u] <= MaxRetries
    /\ call.pc \in {"limiter", "do"} => call.asked[call.url] < call.attempt
    /\ call.pc \in {"answer", "backoff"} => call.asked[call.url] <= call.attempt
    /\ call.pc = "backoff" => call.attempt < MaxRetries
    /\ call.url = "primary" => call.asked["alternate"] = 0

\* What allows the request that comes next.
Allowed ==
    /\ call.url = "alternate" => call.answer["primary"] = "gone"
    /\ ~cancelled /\ call.pc \in {"limiter", "do", "backoff"} /\ call.asked[call.url] > 0
          => call.answer[call.url] \in Retryable

\* The client owes no more than what is left of the wait.
Silent ==
    /\ call.pc = "backoff" => Owed <= call.wait
    /\ call.pc \in {"limiter", "do", "answer"} => Owed = 0

CallInv == Typed /\ Counted /\ Allowed /\ Silent

LEMMA WaitsAre ==
    /\ 0 \in Waits /\ RetryAfters \subseteq Waits /\ Waits \subseteq Nat
    /\ \A n \in 0 .. MaxRetries : Doubled[n] \in Waits
    /\ \A w \in Waits : WithinAWait(w)
  <1>1. 0 \in Waits /\ RetryAfters \subseteq Waits
    BY ClientAssumption DEF Waits
  <1>2. \A n \in 0 .. MaxRetries : Doubled[n] \in Waits
    BY DEF Waits
  <1>3. Waits \subseteq Nat
    BY ClientAssumption, DoubledIs DEF Waits
  <1>4. \A w \in Waits : WithinAWait(w)
    BY <1>3 DEF WithinAWait
  <1> QED
    BY <1>1, <1>2, <1>3, <1>4

\* What is owed is one of the two observations, or nothing.
LEMMA OwedIs ==
    ASSUME Typed
    PROVE  Owed \in Nat /\ WithinAWait(Owed)
  BY WaitsAre DEF Typed, Owed, WithinAWait

\* The waits that an answer may leave.
HeardAfter ==
    /\ form' \in Forms
    /\ quiet' \in Nat /\ WithinAWait(quiet')
    /\ rest' \in Nat /\ WithinAWait(rest')

LEMMA LessIs ==
    ASSUME NEW n \in Nat
    PROVE  Less(n) \in Nat /\ Less(n) <= n /\ (WithinAWait(n) => WithinAWait(Less(n)))
           /\ \A m \in Nat : m <= n => Less(m) <= Less(n)
  BY WaitsAre DEF Less, WithinAWait

\* The call after a step that ends it.
Finishes(c, d) == d \in Calls /\ d.pc = "ended" /\ d.wait = c.wait /\ d.asked = c.asked
                  /\ d.answer = c.answer /\ d.url = c.url

\* The call after a step that goes on with it.
Proceeds(c, d, pc, attempt, wait) ==
    /\ d \in Calls /\ d.pc = pc /\ d.attempt = attempt /\ d.wait = wait
    /\ d.asked = c.asked /\ d.answer = c.answer /\ d.url = c.url

LEMMA EndedIs ==
    ASSUME NEW c \in Calls, NEW result \in {"failed", "aborted"} \cup Answers
    PROVE  Finishes(c, Ended(c, result))
  BY DEF Calls, Ended, Finishes

LEMMA TransientIs ==
    ASSUME NEW c \in Calls, NEW explicit \in RetryAfters
    PROVE  \/ Finishes(c, AfterTransient(c, explicit))
           \/ /\ c.attempt < MaxRetries
              /\ \E wait \in Waits :
                    /\ Proceeds(c, AfterTransient(c, explicit), "backoff", c.attempt, wait)
                    /\ wait = Backoff(c.attempt, explicit)
  <1>1. CASE c.attempt < MaxRetries
    <2> DEFINE wait == Backoff(c.attempt, explicit)
    <2>1. c.attempt \in 1 .. MaxRetries /\ c.attempt - 1 \in 0 .. MaxRetries /\ explicit \in Nat
      BY ClientAssumption DEF Calls
    <2>2. wait \in Waits /\ wait \in Nat
      BY <2>1, WaitsAre, DoubledIs DEF Backoff
    <2>3. AfterTransient(c, explicit) = [c EXCEPT !.pc = "backoff", !.wait = wait]
      BY <1>1 DEF AfterTransient
    <2>5. wait = Backoff(c.attempt, explicit)
      OBVIOUS
    <2> HIDE DEF wait
    <2>4. Proceeds(c, AfterTransient(c, explicit), "backoff", c.attempt, wait)
      BY <2>2, <2>3 DEF Proceeds, Calls
    <2> QED
      BY <1>1, <2>2, <2>4, <2>5
  <1>2. CASE ~(c.attempt < MaxRetries)
    BY <1>2, EndedIs DEF AfterTransient
  <1> QED
    BY <1>1, <1>2

LEMMA GoneIs ==
    ASSUME NEW c \in Calls
    PROVE  \/ Finishes(c, AfterGone(c))
           \/ /\ c.url = "primary" /\ AfterGone(c) \in Calls
              /\ AfterGone(c).pc = "limiter" /\ AfterGone(c).url = "alternate"
              /\ AfterGone(c).attempt = 1 /\ AfterGone(c).wait = c.wait
              /\ AfterGone(c).asked = c.asked /\ AfterGone(c).answer = c.answer
  <1>1. CASE c.url = "primary"
    <2>1. AfterGone(c) = [c EXCEPT !.pc = "limiter", !.url = "alternate", !.attempt = 1]
      BY <1>1 DEF AfterGone
    <2>2. 1 \in 1 .. MaxRetries /\ "alternate" \in Urls
      BY ClientAssumption DEF Urls
    <2> QED
      BY <1>1, <2>1, <2>2 DEF Calls
  <1>2. CASE c.url # "primary"
    BY <1>2, EndedIs DEF AfterGone, Answers
  <1> QED
    BY <1>1, <1>2

LEMMA TickKeeps ==
    ASSUME CallInv, Tick
    PROVE  CallInv' /\ call'.asked = call.asked /\ call'.pc = call.pc
  <1>1. /\ call \in Calls /\ call.wait \in Nat /\ quiet \in Nat /\ rest \in Nat
        /\ WithinAWait(call.wait) /\ WithinAWait(quiet) /\ WithinAWait(rest)
        /\ cancelled' = cancelled /\ form' = form /\ form \in Forms
    BY DEF CallInv, Typed, Calls, Tick
  <1>2. /\ call' = [call EXCEPT !.wait = Less(call.wait)]
        /\ quiet' = Less(quiet) /\ rest' = Less(rest)
    BY DEF Tick
  <1>3. /\ Less(call.wait) \in Nat /\ WithinAWait(Less(call.wait))
        /\ Less(quiet) \in Nat /\ WithinAWait(Less(quiet))
        /\ Less(rest) \in Nat /\ WithinAWait(Less(rest))
    BY <1>1, LessIs
  <1>4. /\ call' \in Calls /\ call'.wait = Less(call.wait) /\ call'.pc = call.pc
        /\ call'.url = call.url /\ call'.attempt = call.attempt
        /\ call'.asked = call.asked /\ call'.answer = call.answer
    BY <1>1, <1>2, <1>3 DEF Calls
  <1>5. Typed'
    <2>1. phase' \in 0 .. (Interval - 1)
      BY ClientAssumption DEF CallInv, Typed, Tick
    <2>2. token' \in BOOLEAN
      BY DEF CallInv, Typed, Tick, TokenAfter
    <2>3. sent' \in [Window -> Nat]
      <3>1. \A age \in Window : age # 0 => age - 1 \in Window
        BY SecondIs
      <3> QED
        BY <3>1 DEF CallInv, Typed, Tick
    <2>4. /\ WithinAWait(call.wait)' <=> WithinAWait(call'.wait)
          /\ WithinAWait(quiet)' <=> WithinAWait(quiet')
          /\ WithinAWait(rest)' <=> WithinAWait(rest')
      BY DEF WithinAWait
    <2> QED
      BY <1>1, <1>2, <1>3, <1>4, <2>1, <2>2, <2>3, <2>4 DEF CallInv, Typed
  <1>6. Counted'
    BY <1>4 DEF CallInv, Counted
  <1>7. Allowed'
    BY <1>1, <1>4 DEF CallInv, Allowed
  <1>8. Silent'
    <2>1. Owed' = Less(Owed)
      BY <1>1, <1>2 DEF Owed, Less
    <2>2. Owed \in Nat
      BY OwedIs DEF CallInv
    <2>3. (Owed = 0 => Less(Owed) = 0) /\ (Owed <= call.wait => Less(Owed) <= Less(call.wait))
      BY <1>1, <2>2 DEF Less
    <2> QED
      BY <1>4, <2>1, <2>3 DEF CallInv, Silent
  <1> QED
    BY <1>4, <1>5, <1>6, <1>7, <1>8 DEF CallInv

LEMMA SendIs ==
    ASSUME CallInv, Send
    PROVE  /\ call' \in Calls /\ call'.pc = "answer" /\ call'.wait = call.wait
           /\ call'.url = call.url /\ call'.attempt = call.attempt /\ call'.answer = call.answer
           /\ call'.asked = [call.asked EXCEPT ![call.url] = @ + 1]
           /\ \A u \in Urls : call'.asked[u] = IF u = call.url THEN call.asked[u] + 1
                                               ELSE call.asked[u]
  <1> DEFINE asked == [call.asked EXCEPT ![call.url] = @ + 1]
  <1>1. call \in Calls /\ call.url \in Urls /\ call.asked \in [Urls -> Nat]
    BY DEF CallInv, Typed, Calls
  <1>2. asked \in [Urls -> Nat]
        /\ \A u \in Urls : asked[u] = IF u = call.url THEN call.asked[u] + 1 ELSE call.asked[u]
    BY <1>1
  <1>3. call' = [call EXCEPT !.pc = "answer", !.asked = asked]
    BY <1>1 DEF Send, Calls
  <1> HIDE DEF asked
  <1>4. /\ call' \in Calls /\ call'.pc = "answer" /\ call'.wait = call.wait
        /\ call'.url = call.url /\ call'.attempt = call.attempt /\ call'.answer = call.answer
        /\ call'.asked = asked
    BY <1>1, <1>2, <1>3 DEF Calls
  <1> QED
    BY <1>2, <1>4 DEF asked

LEMMA SendKeeps ==
    ASSUME CallInv, Send
    PROVE  CallInv'
  <1>1. /\ call' \in Calls /\ call'.pc = "answer" /\ call'.wait = call.wait
        /\ call'.url = call.url /\ call'.attempt = call.attempt /\ call'.answer = call.answer
        /\ \A u \in Urls : call'.asked[u] = IF u = call.url THEN call.asked[u] + 1
                                            ELSE call.asked[u]
    BY SendIs
  <1>2. /\ call.pc = "do" /\ cancelled' = cancelled /\ phase' = phase /\ token' = token
        /\ UNCHANGED heard /\ sent' = [sent EXCEPT ![0] = @ + 1]
    BY DEF Send
  <1>3. /\ call.attempt \in 1 .. MaxRetries /\ call.url \in Urls
        /\ call.asked \in [Urls -> Nat] /\ call'.asked \in [Urls -> Nat]
    BY <1>1 DEF CallInv, Typed, Calls
  <1>4. Typed'
    <2>1. sent' \in [Window -> Nat]
      BY <1>2, SecondIs DEF CallInv, Typed
    <2> QED
      BY <1>1, <1>2, <2>1 DEF CallInv, Typed, WithinAWait, heard
  <1>5. Counted'
    BY <1>1, <1>2, <1>3, ClientAssumption DEF CallInv, Counted, Urls
  <1>6. Allowed'
    BY <1>1 DEF CallInv, Allowed
  <1>7. Silent'
    BY <1>1, <1>2 DEF CallInv, Silent, Owed, heard
  <1> QED
    BY <1>4, <1>5, <1>6, <1>7 DEF CallInv

\* A step that ends the GET keeps the invariant.
LEMMA FinishKeeps ==
    ASSUME CallInv, NEW c \in Calls, Finishes(c, call'),
           c.wait = call.wait, c.asked = call.asked, c.url = call.url,
           c.url = "alternate" => c.answer["primary"] = "gone",
           UNCHANGED <<phase, cancelled, sent>>, token' \in BOOLEAN, HeardAfter
    PROVE  CallInv'
  <1>1. /\ call' \in Calls /\ call'.pc = "ended" /\ call'.wait = call.wait
        /\ call'.asked = call.asked /\ call'.url = call.url /\ call'.answer = c.answer
    BY DEF Finishes
  <1>2. Typed'
    BY <1>1 DEF CallInv, Typed, WithinAWait, HeardAfter
  <1>3. Counted'
    BY <1>1 DEF CallInv, Counted
  <1>4. Allowed'
    BY <1>1 DEF Allowed
  <1>5. Silent'
    BY <1>1 DEF Silent
  <1> QED
    BY <1>2, <1>3, <1>4, <1>5 DEF CallInv

\* And so does one that waits for the next attempt.
LEMMA BackoffKeeps ==
    ASSUME CallInv, NEW c \in Calls, NEW wait \in Waits,
           Proceeds(c, call', "backoff", call.attempt, wait),
           c.asked = call.asked, c.url = call.url,
           c.url = "alternate" => c.answer["primary"] = "gone",
           call.asked[call.url] <= call.attempt, call.attempt < MaxRetries,
           ~cancelled => c.answer[c.url] \in Retryable,
           UNCHANGED <<phase, cancelled, sent, token>>,
           HeardAfter, Owed' <= wait
    PROVE  CallInv'
  <1>1. /\ call' \in Calls /\ call'.pc = "backoff" /\ call'.wait = wait
        /\ call'.asked = call.asked /\ call'.url = call.url /\ call'.answer = c.answer
        /\ call'.attempt = call.attempt
    BY DEF Proceeds
  <1>2. Typed'
    <2>1. WithinAWait(wait)
      BY WaitsAre
    <2> QED
      BY <1>1, <2>1 DEF CallInv, Typed, WithinAWait, HeardAfter
  <1>3. Counted'
    BY <1>1 DEF CallInv, Counted
  <1>4. Allowed'
    BY <1>1 DEF Allowed
  <1>5. Silent'
    BY <1>1 DEF Silent
  <1> QED
    BY <1>2, <1>3, <1>4, <1>5 DEF CallInv

LEMMA ReceiveKeeps ==
    ASSUME CallInv, NEW answer \in Answers, NEW f \in Forms, NEW asks \in RetryAfters,
           Receive(answer, f, asks)
    PROVE  CallInv' /\ call'.asked = call.asked /\ call'.pc # "do"
  <1> DEFINE c == [call EXCEPT !.answer[call.url] = answer]
             answers == [call.answer EXCEPT ![call.url] = answer]
  <1>1. /\ call \in Calls /\ call.url \in Urls /\ call.asked \in [Urls -> Nat]
        /\ call.answer \in [Urls -> Answers \cup {"none"}]
    BY DEF CallInv, Typed, Calls
  <1>2. /\ answers \in [Urls -> Answers \cup {"none"}] /\ answers[call.url] = answer
        /\ call.url = "alternate" => answers["primary"] = call.answer["primary"]
    BY <1>1 DEF Urls
  <1>3. c = [call EXCEPT !.answer = answers]
    BY <1>1 DEF Calls
  <1> HIDE DEF c, answers
  <1>4. /\ c \in Calls /\ c.pc = call.pc /\ c.url = call.url /\ c.attempt = call.attempt
        /\ c.wait = call.wait /\ c.asked = call.asked /\ c.answer = answers
    BY <1>1, <1>2, <1>3 DEF Calls
  <1>5. /\ call.pc = "answer" /\ ~cancelled /\ form' = f /\ (f = "none" => asks = 0)
        /\ \E explicit \in ParseRetryAfter(f, asks) : call' = AfterAnswer(c, answer, explicit)
        /\ IF answer \in Retryable /\ call.attempt < MaxRetries
           THEN quiet' = asks /\ rest' = Doubled[call.attempt - 1]
           ELSE quiet' = 0 /\ rest' = 0
        /\ UNCHANGED <<phase, token, cancelled, sent>>
    BY DEF Receive, c
  <1>6. asks \in Nat /\ 0 \in RetryAfters /\ WithinAWait(asks) /\ WithinAWait(0)
        /\ Doubled[call.attempt - 1] \in Nat /\ WithinAWait(Doubled[call.attempt - 1])
    <2>1. call.attempt - 1 \in 0 .. MaxRetries
      BY <1>1, ClientAssumption DEF Calls
    <2> QED
      BY <2>1, ClientAssumption, WaitsAre, DoubledIs
  <1>7. HeardAfter /\ token' \in BOOLEAN
    BY <1>5, <1>6 DEF CallInv, Typed, HeardAfter
  <1>13. PICK explicit \in ParseRetryAfter(f, asks) : call' = AfterAnswer(c, answer, explicit)
    BY <1>5
  <1>14. explicit \in RetryAfters
    BY <1>6 DEF ParseRetryAfter
  <1>8. c.url = "alternate" => c.answer["primary"] = "gone"
    BY <1>2, <1>4 DEF CallInv, Allowed
  <1>9. CASE Finishes(c, call')
    <2>1. CallInv'
      BY <1>4, <1>5, <1>7, <1>8, <1>9, FinishKeeps
    <2> QED
      BY <1>4, <1>9, <2>1 DEF Finishes
  <1>10. CASE answer \in Retryable /\ ~Finishes(c, call')
    <2>1. call' = AfterTransient(c, explicit)
      <3>1. answer # "gone"
        BY <1>10 DEF Retryable
      <3>2. AfterAnswer(c, answer, explicit) = AfterTransient(c, explicit)
        BY <1>10, <3>1 DEF AfterAnswer
      <3> QED
        BY <1>13, <3>2
    <2>2. PICK wait \in Waits :
              /\ Proceeds(c, call', "backoff", call.attempt, wait)
              /\ wait = Backoff(call.attempt, explicit)
      BY <1>4, <1>10, <1>14, <2>1, TransientIs
    <2>3. call.attempt < MaxRetries
      BY <1>4, <1>10, <1>14, <2>1, TransientIs
    <2>4. call.asked[call.url] <= call.attempt
      BY <1>5 DEF CallInv, Counted
    <2>5. Owed' <= wait /\ c.answer[c.url] \in Retryable
      <3>1. quiet' = asks /\ rest' = Doubled[call.attempt - 1]
        BY <1>5, <1>10, <2>3
      <3>2. f \in {"none", "date"} => wait = Doubled[call.attempt - 1]
        BY <2>2, <1>13 DEF ParseRetryAfter, Backoff
      <3>3. f = "seconds" => asks <= wait
        <4>1. CASE f = "seconds" /\ asks > 0
          BY <2>2, <1>6, <1>13, <4>1 DEF ParseRetryAfter, Backoff
        <4>2. CASE asks = 0
          BY <4>2, WaitsAre
        <4> QED
          BY <1>6, <4>1, <4>2
      <3>4. Owed' <= wait
        BY <1>5, <1>6, <3>1, <3>2, <3>3, WaitsAre DEF Owed, Forms
      <3> QED
        BY <1>2, <1>4, <1>10, <3>4
    <2>6. CallInv'
      BY <1>4, <1>5, <1>7, <1>8, <2>2, <2>3, <2>4, <2>5, BackoffKeeps
    <2> QED
      BY <1>4, <2>2, <2>6 DEF Proceeds
  <1>11. CASE answer = "gone" /\ ~Finishes(c, call')
    <2>1. call' = AfterGone(c)
      BY <1>13, <1>11 DEF AfterAnswer, Retryable
    <2>2. /\ c.url = "primary" /\ call' \in Calls
          /\ call'.pc = "limiter" /\ call'.url = "alternate"
          /\ call'.attempt = 1 /\ call'.wait = c.wait
          /\ call'.asked = c.asked /\ call'.answer = c.answer
      BY <1>4, <1>11, <2>1, GoneIs
    <2>3. Owed' = 0
      BY <1>5, <1>11 DEF Owed, Retryable
    <2>4. call'.asked["alternate"] = 0
      BY <1>4, <2>2 DEF CallInv, Counted
    <2>5. call'.answer["primary"] = "gone"
      BY <1>2, <1>4, <1>11, <2>2
    <2>6. Typed'
      BY <1>4, <1>5, <1>7, <2>2 DEF CallInv, Typed, WithinAWait, HeardAfter
    <2>7. Counted'
      BY <1>4, <2>2, <2>4 DEF CallInv, Counted
    <2>8. Allowed' /\ Silent'
      BY <2>2, <2>3, <2>4, <2>5 DEF Allowed, Silent
    <2> QED
      BY <1>4, <2>2, <2>6, <2>7, <2>8 DEF CallInv
  <1>12. CASE answer \notin Retryable /\ answer # "gone"
    <2>1. call' = Ended(c, answer)
      BY <1>13, <1>12 DEF AfterAnswer
    <2> QED
      BY <1>4, <1>9, <2>1, EndedIs
  <1> QED
    BY <1>9, <1>10, <1>11, <1>12

LEMMA DoFailsKeeps ==
    ASSUME CallInv, DoFails
    PROVE  CallInv' /\ call'.asked = call.asked /\ call'.pc # "do"
  <1>1. /\ call \in Calls /\ cancelled /\ call.pc \in {"do", "answer"}
        /\ UNCHANGED <<phase, token, cancelled, sent, heard>>
    BY DEF CallInv, Typed, DoFails
  <1>2. /\ Owed = 0 /\ token' \in BOOLEAN
        /\ call.url = "alternate" => call.answer["primary"] = "gone"
        /\ call.asked[call.url] <= call.attempt
    <2>1. call.attempt \in Nat /\ call.asked[call.url] \in Nat
      BY <1>1 DEF Calls
    <2> QED
      BY <1>1, <2>1 DEF CallInv, Typed, Counted, Allowed, Silent
  <1>3. Owed' = 0 /\ HeardAfter
    BY <1>1, <1>2 DEF CallInv, Typed, HeardAfter, Owed, heard
  <1>4. CASE Finishes(call, call')
    <2>1. CallInv'
      BY <1>1, <1>2, <1>3, <1>4, FinishKeeps
    <2> QED
      BY <1>4, <2>1 DEF Finishes
  <1>5. CASE call' = AfterTransient(call, 0) /\ ~Finishes(call, call')
    <2>1. 0 \in RetryAfters
      BY ClientAssumption
    <2>2. PICK wait \in Waits : Proceeds(call, call', "backoff", call.attempt, wait)
      BY <1>1, <1>5, <2>1, TransientIs
    <2>3. call.attempt < MaxRetries
      BY <1>1, <1>5, <2>1, TransientIs
    <2>4. Owed' <= wait
      BY <1>3, WaitsAre
    <2>5. CallInv'
      BY <1>1, <1>2, <1>3, <2>2, <2>3, <2>4, BackoffKeeps
    <2> QED
      BY <2>2, <2>5 DEF Proceeds
  <1>6. CASE call' = Ended(call, "broken")
    BY <1>1, <1>4, <1>6, EndedIs DEF Answers
  <1> QED
    BY <1>4, <1>5, <1>6 DEF DoFails

LEMMA RetryKeeps ==
    ASSUME CallInv, Retry
    PROVE  CallInv' /\ call'.asked = call.asked /\ call'.pc # "do"
  <1>1. /\ call \in Calls /\ call.pc = "backoff" /\ call.wait = 0 /\ call.attempt < MaxRetries
        /\ call' = [call EXCEPT !.pc = "limiter", !.attempt = @ + 1]
        /\ UNCHANGED <<phase, token, cancelled, sent, heard>>
    BY DEF CallInv, Typed, Counted, Retry
  <1>2. call.attempt + 1 \in 1 .. MaxRetries /\ call.attempt \in Nat
    BY <1>1, ClientAssumption DEF Calls
  <1>3. /\ call' \in Calls /\ call'.pc = "limiter" /\ call'.attempt = call.attempt + 1
        /\ call'.wait = call.wait /\ call'.asked = call.asked /\ call'.url = call.url
        /\ call'.answer = call.answer
    BY <1>1, <1>2 DEF Calls
  <1>4. Typed'
    BY <1>1, <1>3 DEF CallInv, Typed, WithinAWait, heard
  <1>5. Counted'
    <2>1. call.asked[call.url] \in Nat
      BY <1>1 DEF Calls
    <2> QED
      BY <1>1, <1>2, <1>3, <2>1 DEF CallInv, Counted
  <1>6. Allowed'
    BY <1>1, <1>3 DEF CallInv, Allowed
  <1>7. Silent'
    <2>1. Owed = 0
      BY <1>1, OwedIs DEF CallInv, Silent
    <2>2. Owed' = Owed
      BY <1>1 DEF Owed, heard
    <2> QED
      BY <1>3, <2>1, <2>2 DEF Silent
  <1> QED
    BY <1>3, <1>4, <1>5, <1>6, <1>7 DEF CallInv

LEMMA TakeTokenKeeps ==
    ASSUME CallInv, TakeToken
    PROVE  CallInv' /\ call'.asked = call.asked /\ call'.pc = "do"
  <1>1. /\ call \in Calls /\ call.pc = "limiter" /\ token' = FALSE
        /\ call' = [call EXCEPT !.pc = "do"]
        /\ UNCHANGED <<phase, cancelled, sent, heard>>
    BY DEF CallInv, Typed, TakeToken
  <1>2. /\ call' \in Calls /\ call'.pc = "do" /\ call'.attempt = call.attempt
        /\ call'.wait = call.wait /\ call'.asked = call.asked /\ call'.url = call.url
        /\ call'.answer = call.answer
    BY <1>1 DEF Calls
  <1>3. Typed'
    BY <1>1, <1>2 DEF CallInv, Typed, WithinAWait, heard
  <1>4. Counted' /\ Allowed' /\ Silent'
    BY <1>1, <1>2 DEF CallInv, Counted, Allowed, Silent, Owed, heard
  <1> QED
    BY <1>2, <1>3, <1>4 DEF CallInv

LEMMA AbortWaitKeeps ==
    ASSUME CallInv, AbortWait
    PROVE  CallInv' /\ call'.asked = call.asked /\ call'.pc # "do"
  <1>1. /\ call \in Calls /\ call' = Ended(call, "aborted")
        /\ UNCHANGED <<phase, token, cancelled, sent, heard>>
    BY DEF CallInv, Typed, AbortWait
  <1>2. Finishes(call, call')
    BY <1>1, EndedIs
  <1>3. /\ HeardAfter /\ token' \in BOOLEAN
        /\ call.url = "alternate" => call.answer["primary"] = "gone"
    BY <1>1 DEF CallInv, Typed, Allowed, HeardAfter, heard
  <1>4. CallInv'
    BY <1>1, <1>2, <1>3, FinishKeeps
  <1> QED
    BY <1>2, <1>4 DEF Finishes

LEMMA StartKeeps ==
    ASSUME CallInv, Start
    PROVE  CallInv' /\ (\A u \in Urls : call'.asked[u] = 0) /\ call'.pc # "do"
  <1>1. /\ call' = NewGet /\ form' = "none" /\ quiet' = 0 /\ rest' = 0
        /\ UNCHANGED <<phase, token, cancelled, sent>>
    BY DEF Start
  <1>2. 1 \in 1 .. MaxRetries /\ MaxRetries \in Nat
    BY ClientAssumption
  <1>3. NewGet \in Calls /\ NewGet.pc = "limiter" /\ NewGet.url = "primary" /\ NewGet.attempt = 1
        /\ NewGet.wait = 0 /\ \A u \in Urls : NewGet.asked[u] = 0
    BY <1>2 DEF NewGet, Calls, Urls
  <1>4. WithinAWait(0)
    BY WaitsAre
  <1>5. Typed'
    BY <1>1, <1>3, <1>4 DEF CallInv, Typed, WithinAWait, Forms
  <1>6. Counted' /\ Allowed' /\ Silent'
    BY <1>1, <1>2, <1>3 DEF Counted, Allowed, Silent, Urls, Owed
  <1> QED
    BY <1>1, <1>3, <1>5, <1>6 DEF CallInv

LEMMA CancelKeeps ==
    ASSUME CallInv, Cancel
    PROVE  CallInv' /\ call' = call
  BY DEF CallInv, Typed, Counted, Allowed, Silent, Cancel, WithinAWait, Owed, heard

LEMMA CallInvInit == Init => CallInv
  <1> SUFFICES ASSUME Init PROVE CallInv
    OBVIOUS
  <1> DEFINE get == [NewGet EXCEPT !.pc = "ended"]
  <1>1. /\ 1 \in 1 .. MaxRetries /\ MaxRetries \in Nat /\ 0 \in 0 .. (Interval - 1)
    BY ClientAssumption
  <1>2. get \in Calls /\ get.pc = "ended" /\ get.url = "primary" /\ get.attempt = 1
        /\ get.wait = 0 /\ \A u \in Urls : get.asked[u] = 0
    BY <1>1 DEF NewGet, Calls, Urls
  <1>3. /\ call = get /\ phase = 0 /\ sent = [age \in Window |-> 0]
        /\ form = "none" /\ quiet = 0 /\ rest = 0
        /\ token = FALSE /\ cancelled = FALSE
    BY DEF Init
  <1> HIDE DEF get
  <1>4. WithinAWait(0)
    BY WaitsAre
  <1>5. Typed
    BY <1>1, <1>2, <1>3, <1>4 DEF Typed, Forms
  <1>6. Counted /\ Allowed /\ Silent
    BY <1>1, <1>2, <1>3 DEF Counted, Allowed, Silent, Urls
  <1> QED
    BY <1>5, <1>6 DEF CallInv

LEMMA CallInvNext ==
    ASSUME CallInv, [Next]_vars
    PROVE  CallInv'
  <1>1. CASE Tick
    BY <1>1, TickKeeps
  <1>2. CASE Cancel
    BY <1>2, CancelKeeps
  <1>3. CASE Start
    BY <1>3, StartKeeps
  <1>4. CASE TakeToken
    BY <1>4, TakeTokenKeeps
  <1>5. CASE AbortWait
    BY <1>5, AbortWaitKeeps
  <1>6. CASE Send
    BY <1>6, SendKeeps
  <1>7. CASE DoFails
    BY <1>7, DoFailsKeeps
  <1>8. CASE Retry
    BY <1>8, RetryKeeps
  <1>9. CASE \E answer \in Answers, f \in Forms, asks \in RetryAfters :
                Receive(answer, f, asks)
    BY <1>9, ReceiveKeeps
  <1>10. CASE UNCHANGED vars
    BY <1>10 DEF vars, CallInv, Typed, Counted, Allowed, Silent, WithinAWait, Owed
  <1> QED
    BY <1>1, <1>2, <1>3, <1>4, <1>5, <1>6, <1>7, <1>8, <1>9, <1>10 DEF Next, Client

\* In every behaviour the call is the one the code builds: its attempts are
\* counted before they leave, and its waits are one of the waits there are.
THEOREM CallIsSound == Spec => []CallInv
  <1>1. CallInv /\ [Next]_vars => CallInv'
    BY CallInvNext
  <1> QED
    BY CallInvInit, <1>1, PTL DEF Spec

\* The variables have their types, and no URL of a GET is asked more often than
\* maxRetries (edgar/client.go:154-209).
THEOREM TypeCorrect == Spec => []TypeOK
  <1>1. CallInv => TypeOK
    <2> SUFFICES ASSUME CallInv PROVE TypeOK
      OBVIOUS
    <2>1. call.asked \in [Urls -> 0 .. MaxRetries]
      <3>1. \A u \in Urls : call.asked[u] \in 0 .. MaxRetries
        BY ClientAssumption DEF CallInv, Typed, Counted, Calls
      <3> QED
        BY <3>1 DEF CallInv, Typed, Calls
    <2> QED
      BY <2>1 DEF CallInv, Typed, Calls, TypeOK
  <1> QED
    BY CallIsSound, <1>1, PTL

\* A URL is asked again only after an answer that may pass, no more often than
\* maxRetries, and the alternate one only after a 404 of the primary one
\* (edgar/client.go:107-125 and 154-209).
THEOREM AttemptsAreAllowed == Spec => RetriesAreTransient
  <1> DEFINE Asks == \A u \in Urls : call'.asked[u] > call.asked[u] =>
                        /\ call.asked[u] > 0 => call.answer[u] \in Retryable
                        /\ u = "alternate" => call.answer["primary"] = "gone"
                        /\ call'.asked[u] <= MaxRetries
  <1>1. CallInv /\ [Next]_vars => [Asks]_vars
    <2> SUFFICES ASSUME CallInv, [Next]_vars, NEW u \in Urls, call'.asked[u] > call.asked[u]
                 PROVE  /\ call.asked[u] > 0 => call.answer[u] \in Retryable
                        /\ u = "alternate" => call.answer["primary"] = "gone"
                        /\ call'.asked[u] <= MaxRetries
      OBVIOUS
    <2>1. call.asked[u] \in Nat /\ call.asked[call.url] \in Nat /\ call.attempt \in 1 .. MaxRetries
          /\ ~(call.asked[u] > call.asked[u]) /\ ~(0 > call.asked[u])
      BY DEF CallInv, Typed, Calls
    <2>2. CASE Send
      <3>1. call'.asked[u] = IF u = call.url THEN call.asked[u] + 1 ELSE call.asked[u]
        BY <2>2, SendIs
      <3>2. u = call.url /\ call'.asked[u] = call.asked[u] + 1
        BY <2>1, <3>1
      <3>3. call.pc = "do" /\ ~cancelled
        BY <2>2 DEF Send
      <3>4. call.asked[u] < call.attempt
        BY <3>2, <3>3 DEF CallInv, Counted
      <3>5. call'.asked[u] <= MaxRetries
        BY <2>1, <3>2, <3>4, ClientAssumption
      <3> QED
        BY <3>2, <3>3, <3>5 DEF CallInv, Allowed
    <2>3. CASE Tick
      BY <2>1, <2>3, TickKeeps
    <2>4. CASE Cancel
      BY <2>1, <2>4, CancelKeeps
    <2>5. CASE Start
      BY <2>1, <2>5, StartKeeps
    <2>6. CASE TakeToken
      BY <2>1, <2>6, TakeTokenKeeps
    <2>7. CASE AbortWait
      BY <2>1, <2>7, AbortWaitKeeps
    <2>8. CASE DoFails
      BY <2>1, <2>8, DoFailsKeeps
    <2>9. CASE Retry
      BY <2>1, <2>9, RetryKeeps
    <2>10. CASE \E answer \in Answers, f \in Forms, asks \in RetryAfters :
                Receive(answer, f, asks)
      BY <2>1, <2>10, ReceiveKeeps
    <2>11. CASE UNCHANGED vars
      BY <2>1, <2>11 DEF vars
    <2> QED
      BY <2>2, <2>3, <2>4, <2>5, <2>6, <2>7, <2>8, <2>9, <2>10, <2>11 DEF Next, Client
  <1> QED
    BY CallIsSound, <1>1, PTL DEF Spec, RetriesAreTransient

\* No retry is sent before the seconds that a Retry-After asked for, nor, without
\* one or with a date, before the client's own backoff: for every Retry-After,
\* every backoff and every number that wraps around (edgar/client.go:189-243).
THEOREM WaitsAreHonored == Spec => RetryAfterIsHonored
  <1>1. CallInv /\ [Next]_vars => [Send => Owed = 0]_vars
    BY DEF CallInv, Silent, Send
  <1> QED
    BY CallIsSound, <1>1, PTL DEF Spec, RetryAfterIsHonored

-----------------------------------------------------------------------------
(* The budget.                                                             *)

\* The requests the client may still send before the ticker fires again: one
\* for the token that waits, one for the token it took.
Stock == (IF token THEN 1 ELSE 0) + (IF call.pc = "do" THEN 1 ELSE 0)

\* Since the n-th firing before the last one, n tokens were given out beside the
\* two that could be held at that firing; a firing that finds a token is lost.
Budget ==
    \A k \in 0 .. Second, n \in Nat :
        k <= phase + n * Interval => SentWithin(sent)[k] + Stock <= n + 2

\* A tick ages every request by one.
LEMMA TickAges ==
    ASSUME CallInv, Tick
    PROVE  /\ SentWithin(sent')[0] = 0
           /\ \A k \in 1 .. Second : SentWithin(sent')[k] = SentWithin(sent)[k - 1]
  <1> DEFINE old == SentWithin(sent)
             new == SentWithin(sent')
             P == {k \in 0 .. (Second - 1) : new[k + 1] = old[k]}
  <1>1. /\ Second \in Nat /\ Second >= 1 /\ Window = 0 .. (Second - 1)
    BY SecondIs
  <1>2. sent \in [Window -> Nat] /\ sent' \in [Window -> Nat]
    BY TickKeeps DEF CallInv, Typed
  <1>3. /\ old[0] = 0 /\ \A k \in 1 .. Second : old[k] = old[k - 1] + sent[k - 1]
        /\ new[0] = 0 /\ \A k \in 1 .. Second : new[k] = new[k - 1] + sent'[k - 1]
    BY <1>2, SentWithinIs
  <1>4. \A age \in Window : sent'[age] = IF age = 0 THEN 0 ELSE sent[age - 1]
    BY DEF Tick
  <1> HIDE DEF old, new, Second
  <1>5. 0 \in P
    BY <1>1, <1>3, <1>4
  <1>6. ASSUME NEW k \in 1 .. (Second - 1), k - 1 \in P PROVE k \in P
    <2>1. new[k + 1] = new[k] + sent'[k] /\ sent'[k] = sent[k - 1]
      BY <1>1, <1>3, <1>4
    <2>2. new[k] = old[k - 1]
      BY <1>6
    <2>3. old[k] = old[k - 1] + sent[k - 1]
      BY <1>1, <1>3
    <2> QED
      BY <1>1, <2>1, <2>2, <2>3
  <1>7. \A k \in 0 .. (Second - 1) : k \in P
    <2>1. Second - 1 \in Nat
      BY <1>1
    <2> HIDE DEF P
    <2> QED
      BY <1>5, <1>6, <2>1, UpTo
  <1>8. ASSUME NEW k \in 1 .. Second PROVE new[k] = old[k - 1]
    <2>1. k - 1 \in P /\ (k - 1) + 1 = k
      BY <1>1, <1>7
    <2> QED
      BY <2>1
  <1> QED
    BY <1>3, <1>8 DEF old, new

\* A request that leaves adds one to every count.
LEMMA SendAdds ==
    ASSUME CallInv, Send
    PROVE  /\ SentWithin(sent')[0] = 0
           /\ \A k \in 1 .. Second : SentWithin(sent')[k] = SentWithin(sent)[k] + 1
  <1> DEFINE old == SentWithin(sent)
             new == SentWithin(sent')
             P == {k \in 0 .. (Second - 1) : new[k + 1] = old[k + 1] + 1}
  <1>1. /\ Second \in Nat /\ Second >= 1 /\ Window = 0 .. (Second - 1)
    BY SecondIs
  <1>2. sent \in [Window -> Nat] /\ sent' \in [Window -> Nat]
    BY SendKeeps DEF CallInv, Typed
  <1>3. /\ old[0] = 0 /\ \A k \in 1 .. Second : old[k] = old[k - 1] + sent[k - 1]
        /\ new[0] = 0 /\ \A k \in 1 .. Second : new[k] = new[k - 1] + sent'[k - 1]
        /\ \A k \in 0 .. Second : old[k] \in Nat
    BY <1>2, SentWithinIs
  <1>4. \A age \in Window : sent'[age] = IF age = 0 THEN sent[0] + 1 ELSE sent[age]
    BY <1>2 DEF Send
  <1> HIDE DEF old, new, Second
  <1>5. 0 \in P
    <2>1. /\ new[1] = new[0] + sent'[0] /\ old[1] = old[0] + sent[0]
          /\ sent'[0] = sent[0] + 1 /\ sent[0] \in Nat
      BY <1>1, <1>2, <1>3, <1>4
    <2> QED
      BY <1>1, <1>3, <2>1
  <1>6. ASSUME NEW k \in 1 .. (Second - 1), k - 1 \in P PROVE k \in P
    <2>1. /\ new[k + 1] = new[k] + sent'[k] /\ sent'[k] = sent[k]
          /\ old[k + 1] = old[k] + sent[k] /\ old[k] \in Nat /\ sent[k] \in Nat
      BY <1>1, <1>2, <1>3, <1>4
    <2>2. new[k] = old[k] + 1
      BY <1>6
    <2> QED
      BY <1>1, <2>1, <2>2
  <1>7. \A k \in 0 .. (Second - 1) : k \in P
    <2>1. Second - 1 \in Nat
      BY <1>1
    <2> HIDE DEF P
    <2> QED
      BY <1>5, <1>6, <2>1, UpTo
  <1>8. ASSUME NEW k \in 1 .. Second PROVE new[k] = old[k] + 1
    <2>1. k - 1 \in P /\ (k - 1) + 1 = k
      BY <1>1, <1>7
    <2> QED
      BY <2>1
  <1> QED
    BY <1>3, <1>8 DEF old, new

LEMMA BudgetTick ==
    ASSUME CallInv, Budget, Tick
    PROVE  Budget'
  <1> DEFINE Upper(n) == n * Interval
             old == SentWithin(sent)
             new == SentWithin(sent')
  <1>1. /\ Interval \in Nat /\ Interval >= 1 /\ Second \in Nat
        /\ phase \in 0 .. (Interval - 1)
    BY ClientAssumption, SecondIs DEF CallInv, Typed
  <1>2. new[0] = 0 /\ \A k \in 1 .. Second : new[k] = old[k - 1]
    BY TickAges
  <1>3. \A k \in 0 .. Second : old[k] \in Nat
    BY SentWithinIs DEF CallInv, Typed
  <1>4. /\ Stock \in 0 .. 2 /\ Stock' \in 0 .. 2 /\ Stock' <= Stock + 1
        /\ phase' # 0 => Stock' = Stock
    BY TickKeeps DEF Stock, Tick, TokenAfter, CallInv, Typed
  <1>5. phase' = (phase + 1) % Interval
    BY DEF Tick
  <1>6. phase' = IF phase = Interval - 1 THEN 0 ELSE phase + 1
    BY <1>1, <1>5
  <1>7. \A n \in Nat : Upper(n) \in Nat
    BY <1>1
  <1>8. \A n \in Nat \ {0} : Upper(n) = Upper(n - 1) + Interval
    BY <1>1
  <1>9. Upper(0) = 0
    BY <1>1
  <1>10. \A k \in 0 .. Second, n \in Nat : k <= phase + Upper(n) => old[k] + Stock <= n + 2
    BY DEF Budget
  <1> SUFFICES ASSUME NEW k \in 0 .. Second, NEW n \in Nat, k <= phase' + Upper(n)
               PROVE  new[k] + Stock' <= n + 2
    BY DEF Budget
  <1> HIDE DEF Upper, old, new, Second, Stock
  <1>11. CASE k = 0
    BY <1>2, <1>4, <1>11
  <1>12. CASE k # 0 /\ phase = Interval - 1 /\ n = 0
    <2>1. k <= phase' + Upper(0) /\ phase' = 0
      BY <1>6, <1>12
    <2> QED
      BY <1>1, <1>9, <1>12, <2>1
  <1>13. CASE k # 0 /\ phase = Interval - 1 /\ n # 0
    <2>1. /\ k - 1 \in 0 .. Second /\ n - 1 \in Nat /\ new[k] = old[k - 1]
          /\ Upper(n) = Upper(n - 1) + Interval /\ Upper(n - 1) \in Nat
      BY <1>1, <1>2, <1>7, <1>8, <1>13
    <2>2. k - 1 <= phase + Upper(n - 1)
      BY <1>1, <1>6, <1>13, <2>1
    <2>3. old[k - 1] + Stock <= (n - 1) + 2 /\ old[k - 1] \in Nat
      BY <1>3, <1>10, <2>1, <2>2
    <2> QED
      BY <1>4, <2>1, <2>3
  <1>14. CASE k # 0 /\ phase # Interval - 1
    <2>1. /\ k - 1 \in 0 .. Second /\ new[k] = old[k - 1] /\ Upper(n) \in Nat
      BY <1>1, <1>2, <1>7, <1>14
    <2>2. k - 1 <= phase + Upper(n) /\ phase' # 0
      BY <1>1, <1>6, <1>14, <2>1
    <2>3. old[k - 1] + Stock <= n + 2 /\ old[k - 1] \in Nat
      BY <1>3, <1>10, <2>1, <2>2
    <2> QED
      BY <1>4, <2>1, <2>2, <2>3
  <1> QED
    BY <1>11, <1>12, <1>13, <1>14

LEMMA BudgetSend ==
    ASSUME CallInv, Budget, Send
    PROVE  Budget'
  <1> DEFINE Upper(n) == n * Interval
             old == SentWithin(sent)
             new == SentWithin(sent')
  <1>1. new[0] = 0 /\ \A k \in 1 .. Second : new[k] = old[k] + 1
    BY SendAdds
  <1>2. Second \in Nat /\ \A k \in 0 .. Second : old[k] \in Nat
    BY SecondIs, SentWithinIs DEF CallInv, Typed
  <1>3. phase' = phase
    BY DEF Send
  <1>4. Stock \in 0 .. 2 /\ Stock' \in 0 .. 2 /\ Stock' + 1 = Stock
    BY SendIs DEF Stock, Send
  <1>5. \A k \in 0 .. Second, n \in Nat : k <= phase + Upper(n) => old[k] + Stock <= n + 2
    BY DEF Budget
  <1> SUFFICES ASSUME NEW k \in 0 .. Second, NEW n \in Nat, k <= phase' + Upper(n)
               PROVE  new[k] + Stock' <= n + 2
    BY DEF Budget
  <1> HIDE DEF Upper, old, new, Second, Stock
  <1>6. CASE k = 0
    BY <1>1, <1>4, <1>6
  <1>7. CASE k # 0
    <2>1. new[k] = old[k] + 1 /\ old[k] + Stock <= n + 2 /\ old[k] \in Nat
      BY <1>1, <1>2, <1>3, <1>5, <1>7
    <2>2. \A a, b, c, d \in Nat : d = a + 1 /\ b + 1 = c /\ a + c <= n + 2 => d + b <= n + 2
      OBVIOUS
    <2>3. new[k] \in Nat
      BY <2>1
    <2>4. Stock \in Nat /\ Stock' \in Nat
      BY <1>4
    <2> QED
      BY <1>4, <2>1, <2>2, <2>3, <2>4, Zenon
  <1> QED
    BY <1>6, <1>7

\* A step that is neither sends nothing and holds no more than before.
LEMMA BudgetOthers ==
    ASSUME CallInv, Budget, [Next]_vars, ~Tick, ~Send
    PROVE  Budget'
  <1>1. Stock \in 0 .. 2 /\ Stock' \in 0 .. 2 /\ Stock' <= Stock
        /\ phase' = phase /\ sent' = sent
    <2>1. CASE Cancel
      BY <2>1 DEF Cancel, Stock
    <2>2. CASE Start
      BY <2>2, StartKeeps DEF Start, Stock
    <2>3. CASE TakeToken
      BY <2>3, TakeTokenKeeps DEF TakeToken, Stock
    <2>4. CASE AbortWait
      BY <2>4, AbortWaitKeeps DEF AbortWait, Stock
    <2>5. CASE DoFails
      BY <2>5, DoFailsKeeps DEF DoFails, Stock
    <2>6. CASE Retry
      BY <2>6, RetryKeeps DEF Retry, Stock
    <2>7. CASE \E answer \in Answers, f \in Forms, asks \in RetryAfters :
                Receive(answer, f, asks)
      BY <2>7, ReceiveKeeps DEF Receive, Stock
    <2>8. CASE UNCHANGED vars
      BY <2>8 DEF vars, Stock
    <2> QED
      BY <2>1, <2>2, <2>3, <2>4, <2>5, <2>6, <2>7, <2>8 DEF Next, Client
  <1> DEFINE Upper(n) == n * Interval
             old == SentWithin(sent)
  <1>2. Second \in Nat /\ \A k \in 0 .. Second : old[k] \in Nat
    BY SecondIs, SentWithinIs DEF CallInv, Typed
  <1>3. \A k \in 0 .. Second, n \in Nat : k <= phase + Upper(n) => old[k] + Stock <= n + 2
    BY DEF Budget
  <1>4. SentWithin(sent') = old
    BY <1>1
  <1> SUFFICES ASSUME NEW k \in 0 .. Second, NEW n \in Nat, k <= phase + Upper(n)
               PROVE  old[k] + Stock' <= n + 2
    BY <1>1, <1>4 DEF Budget
  <1> HIDE DEF Upper, old, Second, Stock
  <1> QED
    BY <1>1, <1>2, <1>3

LEMMA BudgetInit == Init => Budget
  <1> SUFFICES ASSUME Init, NEW k \in 0 .. Second, NEW n \in Nat
               PROVE  SentWithin(sent)[k] + Stock <= n + 2
    BY DEF Budget
  <1> DEFINE s == SentWithin(sent)
             P == {j \in 0 .. Second : s[j] = 0}
  <1>1. Second \in Nat /\ Window = 0 .. (Second - 1)
    BY SecondIs
  <1>2. sent \in [Window -> Nat] /\ \A age \in Window : sent[age] = 0
    BY DEF Init
  <1>3. s[0] = 0 /\ \A j \in 1 .. Second : s[j] = s[j - 1] + sent[j - 1]
    BY <1>2, SentWithinIs
  <1>4. Stock = 0
    BY DEF Stock, Init, NewGet
  <1> HIDE DEF s, Second, Stock
  <1>5. 0 \in P
    BY <1>1, <1>3
  <1>6. ASSUME NEW j \in 1 .. Second, j - 1 \in P PROVE j \in P
    <2>1. sent[j - 1] = 0
      BY <1>1, <1>2
    <2> QED
      BY <1>3, <1>6, <2>1
  <1>7. \A j \in 0 .. Second : j \in P
    <2> HIDE DEF P
    <2> QED
      BY <1>1, <1>5, <1>6, UpTo
  <1>8. s[k] = 0
    BY <1>7
  <1> QED
    BY <1>4, <1>8 DEF s

\* In any second no more than two requests above the budget leave the client,
\* its retries and its requests to the alternate path included
\* (edgar/client.go:245-274).
THEOREM RateStaysBounded == Spec => []RateIsBounded
  <1>1. Init => CallInv /\ Budget
    BY CallInvInit, BudgetInit
  <1>2. CallInv /\ Budget /\ [Next]_vars => (CallInv /\ Budget)'
    BY CallInvNext, BudgetTick, BudgetSend, BudgetOthers
  <1>3. CallInv /\ Budget => RateIsBounded
    <2> SUFFICES ASSUME CallInv, Budget PROVE RateIsBounded
      OBVIOUS
    <2>1. Second \in Nat /\ Rps \in Nat /\ phase \in Nat /\ Second \in 0 .. Second
      BY ClientAssumption, SecondIs DEF CallInv, Typed
    <2>2. Second <= phase + Rps * Interval
      BY <2>1 DEF Second
    <2>3. SentWithin(sent)[Second] + Stock <= Rps + 2
      BY <2>1, <2>2 DEF Budget
    <2>4. Stock \in 0 .. 2 /\ SentWithin(sent)[Second] \in Nat
      BY <2>1, SentWithinIs DEF Stock, CallInv, Typed
    <2>5. SentWithin(sent)[Second] <= Rps + 2
      BY <2>1, <2>3, <2>4
    <2> QED
      BY <2>5 DEF RateIsBounded, Requests, Second
  <1> QED
    BY <1>1, <1>2, <1>3, PTL DEF Spec
=============================================================================
