---------------------------- MODULE TushareCalls ----------------------------
(***************************************************************************)
(* Calling Tushare: TushareMarketDataClient._call_tushare and              *)
(* _wait_for_rate_limit (backend/app/data/tushare_client.py).              *)
(*                                                                         *)
(* A client makes one call at a time.  Each attempt is first admitted by   *)
(* the rate limiter, which counts admissions in a window that starts anew  *)
(* when it is a minute old; then sent; a retryable error is followed by a  *)
(* backoff and another attempt.  Everything that happens is reported to    *)
(* the retry event handler, a function of the caller that may raise: it    *)
(* appends to a log file.                                                  *)
(***************************************************************************)
EXTENDS Integers, Sequences, FiniteSets

CONSTANTS
  MaxRetries,        \* max_retries, at least 1
  Limit,             \* rate_limit_per_minute; 0 is no limit
  Minute,            \* the 60 seconds of the window, in ticks
  RetrySleep,        \* retry_sleep_seconds, in ticks
  MaxCalls,          \* bound on the calls made
  MaxHandlerFaults,  \* bound on the events whose handler raises
  MaxTime            \* bound on the ticks that pass outside of sleeps

ASSUME CallsAssumption ==
  /\ MaxRetries \in Nat \ {0}
  /\ Limit \in Nat
  /\ Minute \in Nat \ {0}
  /\ RetrySleep \in Nat
  /\ {MaxCalls, MaxHandlerFaults, MaxTime} \subseteq Nat

VARIABLES
  now,           \* the monotonic clock
  windowStart,   \* _rate_limit_window_started_at
  windowCount,   \* _rate_limit_call_count
  pc, attempt,   \* where the call in progress is
  wake,          \* when the sleep in progress may end
  error,         \* the exception being handled
  outcome,       \* what the last call gave its caller
  log,           \* the events of the last call that were recorded
  calls, handlerFaults,
  admitted,      \* history: when attempts passed the limiter
  sent,          \* history: when the provider was called
  first,         \* history: Len(sent) when the last call began
  seen           \* history: what the provider answered to the last call

windowVars == <<windowStart, windowCount, admitted>>
callVars == <<attempt, wake, error, outcome, log, calls, handlerFaults, first>>
vars == <<now, windowVars, pc, callVars, sent, seen>>

ProviderErrors == {"rate", "permission", "other"}

\* Mutant: permission errors are retried.
AlwaysRetryable(e) == TRUE

\* An error is the class _map_tushare_error puts it in, by its wording: whatever
\* mentions neither a limit nor permission is "other", a network error.
Retryable(e) == e # "permission"

\* Mutant: one attempt too many.
MayRetryOnceMore == Retryable(error) /\ attempt <= MaxRetries

MayRetry == Retryable(error) /\ attempt < MaxRetries

\* Mutant: the sleep is the same after every attempt.
ConstantBackoff(n) == RetrySleep

Backoff(n) == RetrySleep * 2 ^ (n - 1)

\* Powers of two are natural numbers and grow, which the provers have to be told.
ASSUME BackoffAssumption ==
  \A n \in 1..MaxRetries : Backoff(n) \in Nat /\ \A m \in 1..n : Backoff(m) <= Backoff(n)

Later(t) == IF now < t THEN t ELSE now

Report(status) == log' = Append(log, status)

-----------------------------------------------------------------------------
(* _wait_for_rate_limit *)

\* Mutant: a window is renewed as soon as it is used up.
WindowOverEarly == now - windowStart >= Minute \/ windowCount >= Limit

WindowOver == now - windowStart >= Minute

Admit ==
  /\ pc = "pace"
  /\ \/ /\ Limit = 0
        /\ UNCHANGED <<windowStart, windowCount>>
     \/ /\ Limit > 0 /\ WindowOver
        /\ windowStart' = now /\ windowCount' = 1
     \/ /\ Limit > 0 /\ ~WindowOver /\ windowCount < Limit
        /\ windowCount' = windowCount + 1
        /\ UNCHANGED windowStart
  /\ pc' = "admitted"
  /\ admitted' = Append(admitted, now)
  /\ UNCHANGED <<now, callVars, sent, seen>>

\* The window is used up: report, and sleep until it is a minute old.
Pace ==
  /\ pc = "pace"
  /\ Limit > 0 /\ ~WindowOver /\ windowCount >= Limit
  /\ Report("rate_limited_sleep")
  /\ wake' = windowStart + Minute
  /\ pc' = "pacing"
  /\ UNCHANGED <<now, windowVars, attempt, error, outcome, calls, handlerFaults, first, sent, seen>>

Paced ==
  /\ pc = "pacing"
  /\ now' = Later(wake)
  /\ windowStart' = now'
  /\ windowCount' = 1
  /\ pc' = "admitted"
  /\ admitted' = Append(admitted, now')
  /\ UNCHANGED <<callVars, sent, seen>>

-----------------------------------------------------------------------------
(* _call_tushare *)

Call ==
  /\ pc = "idle"
  /\ calls < MaxCalls
  /\ calls' = calls + 1
  /\ pc' = "pace"
  /\ attempt' = 1
  /\ outcome' = "none"
  /\ log' = << >>
  /\ first' = Len(sent)
  /\ seen' = {}
  /\ UNCHANGED <<now, windowVars, wake, error, handlerFaults, sent>>

Send ==
  /\ pc = "admitted"
  /\ sent' = Append(sent, now)
  /\ pc' = "sent"
  /\ UNCHANGED <<now, windowVars, callVars, seen>>

Answer ==
  /\ pc = "sent"
  /\ seen' = seen \cup {"answer"}
  /\ pc' = "answered"
  /\ UNCHANGED <<now, windowVars, callVars, sent>>

ProviderRaises(e) ==
  /\ pc = "sent"
  /\ seen' = seen \cup {e}
  /\ error' = e
  /\ pc' = "caught"
  /\ UNCHANGED <<now, windowVars, attempt, wake, outcome, log, calls, handlerFaults, first, sent>>

Return ==
  /\ pc = "answered"
  /\ IF attempt > 1 THEN Report("succeeded_after_retry") ELSE UNCHANGED log
  /\ outcome' = "value"
  /\ pc' = "idle"
  /\ UNCHANGED <<now, windowVars, attempt, wake, error, calls, handlerFaults, first, sent, seen>>

\* Mutant: the event of the last attempt says that there will be another one.
FailSilently ==
  /\ pc = "caught"
  /\ ~MayRetry
  /\ Report("retrying")
  /\ outcome' = error
  /\ pc' = "idle"
  /\ UNCHANGED <<now, windowVars, attempt, wake, error, calls, handlerFaults, first, sent, seen>>

\* Mutant: a retryable error of the last attempt is neither raised nor retried.
FailIfRefused ==
  /\ pc = "caught"
  /\ ~Retryable(error)
  /\ Report("failed")
  /\ outcome' = error
  /\ pc' = "idle"
  /\ UNCHANGED <<now, windowVars, attempt, wake, error, calls, handlerFaults, first, sent, seen>>

Fail ==
  /\ pc = "caught"
  /\ ~MayRetry
  /\ Report("failed")
  /\ outcome' = error
  /\ pc' = "idle"
  /\ UNCHANGED <<now, windowVars, attempt, wake, error, calls, handlerFaults, first, sent, seen>>

Retry ==
  /\ pc = "caught"
  /\ MayRetry
  /\ Report("retrying")
  /\ wake' = now + Backoff(attempt)
  /\ pc' = "backoff"
  /\ UNCHANGED <<now, windowVars, attempt, error, outcome, calls, handlerFaults, first, sent, seen>>

NextAttempt ==
  /\ pc = "backoff"
  /\ now' = Later(wake)
  /\ attempt' = attempt + 1
  /\ pc' = "pace"
  /\ UNCHANGED <<windowVars, wake, error, outcome, log, calls, handlerFaults, first, sent, seen>>

\* The handler raises inside the try block, which reports a sleep or a success:
\* the exception is handled as one of the provider's, by its wording.
HandlerRaisesInside ==
  /\ handlerFaults < MaxHandlerFaults
  /\ \/ pc = "pace" /\ Limit > 0 /\ ~WindowOver /\ windowCount >= Limit
     \/ pc = "answered" /\ attempt > 1
  /\ handlerFaults' = handlerFaults + 1
  /\ error' \in {"permission", "other"}
  /\ pc' = "caught"
  /\ UNCHANGED <<now, windowVars, attempt, wake, outcome, log, calls, first, sent, seen>>

\* The handler raises while an exception is handled: the caller gets its error.
HandlerRaisesOutside ==
  /\ handlerFaults < MaxHandlerFaults
  /\ pc = "caught"
  /\ handlerFaults' = handlerFaults + 1
  /\ outcome' = "handlerError"
  /\ pc' = "idle"
  /\ UNCHANGED <<now, windowVars, attempt, wake, error, log, calls, first, sent, seen>>

-----------------------------------------------------------------------------

Tick ==
  /\ now < MaxTime
  /\ now' = now + 1
  /\ UNCHANGED <<windowVars, pc, callVars, sent, seen>>

Init ==
  /\ now = 0
  /\ windowStart = 0 /\ windowCount = 0 /\ admitted = << >>
  /\ pc = "idle" /\ attempt = 0 /\ wake = 0 /\ error = "none" /\ outcome = "none"
  /\ log = << >> /\ calls = 0 /\ handlerFaults = 0 /\ first = 0
  /\ sent = << >>
  /\ seen = {}

Step ==
  \/ Admit \/ Pace \/ Paced \/ Send \/ Answer \/ Return \/ Fail \/ Retry \/ NextAttempt
  \/ \E e \in ProviderErrors : ProviderRaises(e)
  \/ HandlerRaisesInside \/ HandlerRaisesOutside

Next == Call \/ Step \/ Tick

\* The thread that made a call goes on with it; the provider answers or the
\* connection fails.
Fairness == WF_vars(Step)

Spec == Init /\ [][Next]_vars /\ Fairness

-----------------------------------------------------------------------------
(* Properties *)

Points == {"idle", "pace", "pacing", "admitted", "sent", "answered", "caught", "backoff"}
Statuses == {"rate_limited_sleep", "succeeded_after_retry", "retrying", "failed"}

\* Every variable keeps its type; a window never holds more than Limit calls and
\* no attempt follows the last one.
TypeOK ==
  /\ {now, windowStart, wake, calls, handlerFaults, first} \subseteq Nat
  /\ windowCount \in 0..Limit
  /\ pc \in Points
  /\ attempt \in 0..MaxRetries
  /\ error \in ProviderErrors \cup {"none"}
  /\ outcome \in ProviderErrors \cup {"none", "value", "handlerError"}
  /\ log \in Seq(Statuses)
  /\ admitted \in Seq(Nat) /\ sent \in Seq(Nat)
  /\ seen \subseteq ProviderErrors \cup {"answer"}

\* What the limiter does guarantee, although its windows start when they please
\* and an admitted call may be sent late: no minute sees more than twice the
\* limit, retries included (_wait_for_rate_limit).
PacedByWindow ==
  Limit > 0 => \A i \in 1..(Len(sent) - 2 * Limit) : sent[i + 2 * Limit] - sent[i] >= Minute

\* A call is sent at most MaxRetries times, each time after at least the backoff of
\* the attempt before (docs/design/chip-factor-production-plan-2026q1.md:772),
\* also when the limiter or a failing handler comes in between.
BackoffRespected ==
  /\ Len(sent) - first <= MaxRetries
  /\ \A i \in (first + 1)..(Len(sent) - 1) : sent[i + 1] - sent[i] >= RetrySleep * 2 ^ (i - first - 1)

\* The last event of a call tells how it ended, and "retrying" was reported once
\* for each further attempt (as long as the handler did not raise to the caller).
Events(status) == {i \in DOMAIN log : log[i] = status}

EventsTellOutcome ==
  pc = "idle" /\ calls > 0 /\ outcome # "handlerError" =>
    /\ Cardinality(Events("retrying")) = attempt - 1
    /\ Events("failed") = IF outcome = "value" THEN {} ELSE {Len(log)}
    /\ outcome = "value" /\ attempt > 1 => log[Len(log)] = "succeeded_after_retry"

\* The provider is not called again for a call it refused permission, nor for one
\* it answered, unless the handler raised in between
\* (docs/RELIABILITY.md, Retry Policy).
NotAskedAgain ==
  [][(sent' # sent) =>
       /\ "permission" \notin seen
       /\ "answer" \in seen => handlerFaults > 0]_vars

\* Whatever is asked again is asked for a reason, in its time and not too often.
RetriesAreJustified == [](TypeOK /\ BackoffRespected) /\ NotAskedAgain

\* Every call returns or raises.
EveryCallEnds == (pc # "idle") ~> (pc = "idle")
=============================================================================
