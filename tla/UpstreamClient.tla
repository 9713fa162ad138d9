--------------------------- MODULE UpstreamClient ---------------------------
(***************************************************************************)
(* One GET after another through one client of an upstream service: the    *)
(* rate limiter, the attempts, the backoff and the alternate path.         *)
(*                                                                         *)
(* internal/collect/edgar/client.go is the module's reference.  The Yahoo  *)
(* and BLS clients carry the same get, backoff and rateLimiter, without an *)
(* alternate path; a call that never answers "gone" is theirs.             *)
(*                                                                         *)
(* Time passes in ticks.  The ticker of the limiter fires every Interval   *)
(* ticks, so that a second is Rps * Interval ticks.  Any step of the       *)
(* client may take any number of ticks.                                    *)
(***************************************************************************)
EXTENDS Naturals

CONSTANTS
    Rps,          \* the requests a second the limiter is created with
    Interval,     \* the ticks between two firings of its ticker
    MaxRetries,   \* the attempts of one URL, the first one included
    RetryBase,    \* the ticks of the first backoff
    RetryAfters   \* the ticks that a Retry-After header may ask for, 0 for no header

ASSUME ClientAssumption ==
    /\ Rps \in Nat \ {0} /\ Interval \in Nat \ {0} /\ MaxRetries \in Nat \ {0}
    /\ RetryBase \in Nat \ {0} /\ RetryAfters \subseteq Nat /\ 0 \in RetryAfters

VARIABLES
    phase,      \* ticks since the ticker last fired
    token,      \* whether a firing of the ticker waits in its channel, which holds one
    cancelled,  \* whether the context of the job is done
    call,       \* the GET in progress, or the last one
    sent,       \* observation: how many requests left the client each number of ticks ago, for a second
    form,       \* observation: the form of the Retry-After of the last transient answer
    quiet,      \* observation: the ticks during which the upstream asked this GET to send nothing
    rest        \* observation: the ticks left of the client's own backoff after that answer

heard == <<form, quiet, rest>>
vars == <<phase, token, cancelled, call, sent, form, quiet, rest>>

Urls == {"primary", "alternate"}

\* The answers of the upstream: a body, a body that breaks off while it is read,
\* no connection, 429 or 5xx, 404, and any other status.
Answers == {"ok", "broken", "down", "busy", "gone", "refused"}

Retryable == {"down", "busy"}

\* No Retry-After, or one that is not above zero; a number of seconds; the date
\* that HTTP allows too; more seconds than a Duration holds.
Forms == {"none", "seconds", "date", "beyond"}

Window == 0 .. (Rps * Interval - 1)

NewGet ==
    [pc |-> "limiter", url |-> "primary", attempt |-> 1, wait |-> 0, result |-> "none",
     asked |-> [u \in Urls |-> 0], answer |-> [u \in Urls |-> "none"]]

Init ==
    /\ phase = 0
    /\ token = FALSE
    /\ cancelled = FALSE
    /\ call = [NewGet EXCEPT !.pc = "ended"]
    /\ sent = [age \in Window |-> 0]
    /\ form = "none" /\ quiet = 0 /\ rest = 0

-----------------------------------------------------------------------------
\* The ticker: a firing that finds its channel full is lost.

TokenAfter(fires) == token \/ fires

Less(n) == IF n = 0 THEN 0 ELSE n - 1

Tick ==
    /\ phase' = (phase + 1) % Interval
    /\ token' = TokenAfter(phase' = 0)
    /\ sent' = [age \in Window |-> IF age = 0 THEN 0 ELSE sent[age - 1]]
    /\ call' = [call EXCEPT !.wait = Less(@)]
    /\ quiet' = Less(quiet) /\ rest' = Less(rest)
    /\ UNCHANGED <<cancelled, form>>

Cancel ==
    /\ ~cancelled
    /\ cancelled' = TRUE
    /\ UNCHANGED <<phase, token, call, sent, heard>>

-----------------------------------------------------------------------------
\* The client.

Start ==
    /\ call.pc = "ended"
    /\ call' = NewGet
    /\ form' = "none" /\ quiet' = 0 /\ rest' = 0
    /\ UNCHANGED <<phase, token, cancelled, sent>>

\* rateLimiter.wait: a token that is there is taken even if the context is done.
TakeToken ==
    /\ call.pc = "limiter"
    /\ token
    /\ token' = FALSE
    /\ call' = [call EXCEPT !.pc = "do"]
    /\ UNCHANGED <<phase, cancelled, sent, heard>>

Ended(c, result) == [c EXCEPT !.pc = "ended", !.result = result]

AbortWait ==
    /\ call.pc = "backoff" \/ (call.pc = "limiter" /\ ~token)
    /\ cancelled
    /\ call' = Ended(call, "aborted")
    /\ UNCHANGED <<phase, token, cancelled, sent, heard>>

\* httpClient.Do sends nothing under a context that is done.
Send ==
    /\ call.pc = "do"
    /\ ~cancelled
    /\ call' = [call EXCEPT !.pc = "answer", !.asked[call.url] = @ + 1]
    /\ sent' = [sent EXCEPT ![0] = @ + 1]
    /\ UNCHANGED <<phase, token, cancelled, heard>>

\* retryBase * (1 << n)
Doubled[n \in 0 .. MaxRetries] == IF n = 0 THEN RetryBase ELSE 2 * Doubled[n - 1]

\* parseRetryAfter, with a number that is not above zero as the 0 that backoff takes
\* it for: a date becomes 0, and a product of seconds and time.Second that does not
\* fit wraps around, to no wait or to some other one.
ParseRetryAfter(f, asks) ==
    CASE f = "seconds" -> {asks}
      [] f = "beyond" -> RetryAfters
      [] OTHER -> {0}

\* Mutant: the backoff knows nothing of Retry-After.
BackoffExponential(attempt, explicit) == Doubled[attempt - 1]

Backoff(attempt, explicit) == IF explicit > 0 THEN explicit ELSE Doubled[attempt - 1]

\* Mutant: one attempt too many.
AfterTransientOneMore(c, explicit) ==
    IF c.attempt <= MaxRetries
    THEN [c EXCEPT !.pc = "backoff", !.wait = Backoff(c.attempt, explicit)]
    ELSE Ended(c, "failed")

\* What follows an attempt that failed in passing: a wait and one attempt more.
AfterTransient(c, explicit) ==
    IF c.attempt < MaxRetries
    THEN [c EXCEPT !.pc = "backoff", !.wait = Backoff(c.attempt, explicit)]
    ELSE Ended(c, "failed")

\* Mutant: the alternate path is asked without waiting for the limiter.
AfterGoneUnlimited(c) ==
    IF c.url = "primary"
    THEN [c EXCEPT !.pc = "do", !.url = "alternate", !.attempt = 1]
    ELSE Ended(c, "gone")

\* GetCompanyFacts asks the alternate path when the primary one answers 404.
AfterGone(c) ==
    IF c.url = "primary"
    THEN [c EXCEPT !.pc = "limiter", !.url = "alternate", !.attempt = 1]
    ELSE Ended(c, "gone")

\* Mutant: every status but 404 is retried.
AfterAnswerRetriesAll(c, answer, explicit) ==
    CASE answer = "ok" -> Ended(c, answer)
      [] answer = "gone" -> AfterGone(c)
      [] OTHER -> AfterTransient(c, explicit)

AfterAnswer(c, answer, explicit) ==
    CASE answer \in Retryable -> AfterTransient(c, explicit)
      [] answer = "gone" -> AfterGone(c)
      [] OTHER -> Ended(c, answer)

\* Only an answer carries headers, so a connection that failed asks for nothing.
Receive(answer, f, asks) ==
    /\ call.pc = "answer"
    /\ IF f = "none" THEN asks = 0 ELSE asks > 0 /\ answer = "busy"
    /\ ~cancelled
    /\ \E explicit \in ParseRetryAfter(f, asks) :
          call' = AfterAnswer([call EXCEPT !.answer[call.url] = answer], answer, explicit)
    /\ form' = f
    /\ IF answer \in Retryable /\ call.attempt < MaxRetries
       THEN quiet' = asks /\ rest' = Doubled[call.attempt - 1]
       ELSE quiet' = 0 /\ rest' = 0
    /\ UNCHANGED <<phase, token, cancelled, sent>>

\* Under a context that is done the request fails before it leaves, or fails
\* while it waits for its answer or reads its body.
DoFails ==
    /\ call.pc \in {"do", "answer"}
    /\ cancelled
    /\ call' \in {AfterTransient(call, 0)} \cup
                 (IF call.pc = "answer" THEN {Ended(call, "broken")} ELSE {})
    /\ UNCHANGED <<phase, token, cancelled, sent, heard>>

\* Mutant: a retry is not counted.
RetryUncounted ==
    /\ call.pc = "backoff"
    /\ call.wait = 0
    /\ call' = [call EXCEPT !.pc = "limiter"]
    /\ UNCHANGED <<phase, token, cancelled, sent, heard>>

\* The timer of a backoff fired.
Retry ==
    /\ call.pc = "backoff"
    /\ call.wait = 0
    /\ call' = [call EXCEPT !.pc = "limiter", !.attempt = @ + 1]
    /\ UNCHANGED <<phase, token, cancelled, sent, heard>>

Client ==
    \/ Start \/ TakeToken \/ AbortWait \/ Send \/ DoFails \/ Retry
    \/ \E answer \in Answers, f \in Forms, asks \in RetryAfters : Receive(answer, f, asks)

Next == Tick \/ Cancel \/ Client

Spec == Init /\ [][Next]_vars

\* Time passes, the scheduler runs the client, and httpClient.Timeout answers
\* what the upstream does not.
Fairness == WF_vars(Tick) /\ WF_vars(Client)

FairSpec == Spec /\ Fairness

-----------------------------------------------------------------------------
Waits == RetryAfters \cup {Doubled[n] : n \in 0 .. MaxRetries}
WithinAWait(ticks) == \E wait \in Waits : ticks \in 0 .. wait

TypeOK ==
    /\ phase \in 0 .. (Interval - 1)
    /\ token \in BOOLEAN /\ cancelled \in BOOLEAN
    /\ call.pc \in {"limiter", "do", "answer", "backoff", "ended"}
    /\ call.url \in Urls
    /\ call.attempt \in 1 .. MaxRetries
    /\ WithinAWait(call.wait)
    /\ call.result \in {"none", "failed", "aborted"} \cup Answers
    /\ call.asked \in [Urls -> 0 .. MaxRetries]
    /\ call.answer \in [Urls -> Answers \cup {"none"}]
    /\ sent \in [Window -> Nat]
    /\ form \in Forms /\ WithinAWait(quiet) /\ WithinAWait(rest)

\* How many of the requests of a history left in its last n ticks.
SentWithin(history) ==
    LET within[n \in 0 .. Rps * Interval] ==
            IF n = 0 THEN 0 ELSE within[n - 1] + history[n - 1]
    IN  within

Requests == SentWithin(sent)[Rps * Interval]

\* In any second no more than two requests above the budget leave the client,
\* the retries and the requests to the alternate path included: one whose token
\* was taken and that had not left yet, and one for the token that waited in the
\* channel (edgar/client.go:245-274).
RateIsBounded == Requests <= Rps + 2

\* A URL is asked again within a GET only after an answer that may pass, and
\* never more often than maxRetries; the alternate one only after a 404
\* (edgar/client.go:107-125 and 154-209).
RetriesAreTransient ==
    [][\A u \in Urls : call'.asked[u] > call.asked[u] =>
          /\ call.asked[u] > 0 => call.answer[u] \in Retryable
          /\ u = "alternate" => call.answer["primary"] = "gone"
          /\ call'.asked[u] <= MaxRetries]_vars

\* What the client still owes before it may send again: the rest of the seconds
\* that it read, or of its own backoff where it read none.  After a number that
\* wrapped around it owes nothing.
Owed == CASE form = "seconds" -> quiet
          [] form = "beyond" -> 0
          [] OTHER -> rest

\* A retry is not sent before the seconds that a Retry-After asked for, nor,
\* without a Retry-After, before the client's own backoff, whatever the limiter,
\* the attempts and the delays do.  A Retry-After with a date is not honored: the
\* client reads 0 and waits for its own backoff, so quiet may be positive when it
\* sends (edgar/client.go:189-198 and 214-243).
RetryAfterIsHonored ==
    [][Send => Owed = 0]_vars

\* Every GET ends, and one whose context is done ends as well.
GetEnds == call.pc # "ended" ~> call.pc = "ended"
=============================================================================
