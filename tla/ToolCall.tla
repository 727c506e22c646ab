------------------------------ MODULE ToolCall ------------------------------
(* BaseAgent.call_tool of agents/base_worker.py, called by several threads on *)
(* the same agent, with the agent's RateLimiter and CircuitBreaker of         *)
(* infrastructure/resilience.py.                                              *)
(*                                                                            *)
(* The code compares times only by their distance to time.time(), so a time   *)
(* is kept as an age that Tick advances and that stops growing at the window  *)
(* or at the recovery timeout, past which no comparison tells ages apart.     *)
(* Each section under a lock, each tool execution and the record that follows *)
(* it is one step.  The two first guards of call_tool (agent initialised,     *)
(* tool allowed) and success_count and the metrics, which nothing reads back  *)
(* here, are left out: they change no state of this module.  failure_count is *)
(* capped: while the breaker is open or half-open its value decides nothing,  *)
(* closing resets it, and a closed breaker is below the threshold.            *)
EXTENDS Integers, Sequences, FiniteSets

CONSTANTS
    Callers,            \* threads that call tools of this agent
    MaxRetries,         \* call_tool(max_retries), 1
    FailureThreshold,   \* CircuitBreaker(failure_threshold), 3 in main.py
    RecoveryTimeout,    \* CircuitBreaker(recovery_timeout), in ticks
    HalfOpenMaxCalls,   \* CircuitBreaker(half_open_max_calls), 1
    MaxRequests,        \* RateLimiter(max_requests)
    Window,             \* RateLimiter(window_seconds), in ticks
    CountCap            \* bound: failure_count saturates here

ASSUME BreakerAssumption ==
    /\ FailureThreshold \in Nat \ {0}
    /\ RecoveryTimeout \in Nat \ {0}
    /\ HalfOpenMaxCalls \in Nat \ {0}
    /\ CountCap \in Nat /\ CountCap >= FailureThreshold
ASSUME LimiterAssumption ==
    /\ MaxRequests \in Nat \ {0}
    /\ Window \in Nat \ {0}
ASSUME RetryAssumption == MaxRetries \in Nat

VARIABLES
    state,              \* CircuitBreaker.state
    failure_count,      \* CircuitBreaker.failure_count
    half_open_calls,    \* CircuitBreaker.half_open_calls
    lastFailure,        \* age of last_failure_time
    stamps,             \* ages of RateLimiter._timestamps
    pc,                 \* where each caller is in call_tool
    attempt,            \* its loop variable
    granted,            \* history: requests the limiter allowed, by age
    opened              \* history: age of the last change to OPEN

breaker == <<state, failure_count, half_open_calls, lastFailure, opened>>
limiter == <<stamps, granted>>
vars == <<breaker, limiter, pc, attempt>>

States == {"closed", "open", "half_open"}
Labels == {"idle", "limit", "admit", "run", "exhausted"}

Init ==
    /\ state = "closed"
    /\ failure_count = 0
    /\ half_open_calls = 0
    /\ lastFailure = RecoveryTimeout
    /\ opened = RecoveryTimeout
    /\ stamps = <<>>
    /\ granted = [a \in 0..(Window - 1) |-> 0]
    /\ pc = [c \in Callers |-> "idle"]
    /\ attempt = [c \in Callers |-> 0]

Least(a, b) == IF a <= b THEN a ELSE b
Goto(c, l) == pc' = [pc EXCEPT ![c] = l]

-----------------------------------------------------------------------------
(* Time. *)

Tick ==
    /\ lastFailure' = Least(lastFailure + 1, RecoveryTimeout)
    /\ opened' = Least(opened + 1, RecoveryTimeout)
    /\ stamps' = [i \in DOMAIN stamps |-> Least(stamps[i] + 1, Window)]
    /\ granted' = [a \in 0..(Window - 1) |-> IF a = 0 THEN 0 ELSE granted[a - 1]]
    /\ UNCHANGED <<state, failure_count, half_open_calls, pc, attempt>>

-----------------------------------------------------------------------------
(* RateLimiter.allow *)

InWindowShort(a) == a + 1 < Window                \* mutant
InWindowLong(a) == a <= Window                    \* mutant
InWindow(a) == a < Window                         \* now - t < window_seconds

\* Those of the first n timestamps that are in the window, in their order.
Kept[n \in 0..Len(stamps)] ==
    IF n = 0 THEN <<>>
    ELSE IF InWindow(stamps[n]) THEN Append(Kept[n - 1], stamps[n]) ELSE Kept[n - 1]

Begin(c) ==
    /\ pc[c] = "idle"
    /\ Goto(c, "limit")
    /\ attempt' = [attempt EXCEPT ![c] = 0]
    /\ UNCHANGED <<breaker, limiter>>

\* allow(): old timestamps are dropped whether or not the request is let through.
Limit(c) ==
    /\ pc[c] = "limit"
    /\ LET kept == Kept[Len(stamps)]
           room == Len(kept) < MaxRequests
       IN  /\ stamps' = IF room THEN Append(kept, 0) ELSE kept
           /\ granted' = IF room THEN [granted EXCEPT ![0] = @ + 1] ELSE granted
           /\ Goto(c, IF room THEN "admit" ELSE "idle")
    /\ UNCHANGED <<breaker, attempt>>

-----------------------------------------------------------------------------
(* CircuitBreaker *)

NeverRecovers == FALSE                            \* mutant
RecoveryElapsed == lastFailure >= RecoveryTimeout

\* can_execute(): nothing ever increments half_open_calls, so that a half-open breaker
\* admits every call.
MayExecute ==
    \/ state = "closed"
    \/ state = "open" /\ RecoveryElapsed
    \/ state = "half_open" /\ half_open_calls < HalfOpenMaxCalls

Admit(c) ==
    /\ pc[c] = "admit"
    /\ Goto(c, IF MayExecute THEN "run" ELSE "idle")
    /\ IF state = "open" /\ RecoveryElapsed
       THEN /\ state' = "half_open"
            /\ half_open_calls' = 0
       ELSE UNCHANGED <<state, half_open_calls>>
    /\ UNCHANGED <<failure_count, lastFailure, opened, limiter, attempt>>

ClosesAlways == state # "closed"                  \* mutant
ClosesOnSuccess == state = "half_open"
CountKept == failure_count                        \* mutant
CountOnClose == 0

TakenBack == IF failure_count > 0 THEN failure_count - 1 ELSE 0

\* record_success(): closes a half-open breaker; otherwise takes one failure back.
RecordSuccess ==
    /\ state' = IF ClosesOnSuccess THEN "closed" ELSE state
    /\ failure_count' = IF ClosesOnSuccess THEN CountOnClose ELSE TakenBack
    /\ UNCHANGED <<half_open_calls, lastFailure, opened>>

\* record_failure(): a failure while OPEN restarts the recovery timeout.
RecordFailure ==
    LET n == Least(failure_count + 1, CountCap)
        opens == state = "half_open" \/ n >= FailureThreshold
    IN  /\ failure_count' = n
        /\ lastFailure' = 0
        /\ state' = IF opens THEN "open" ELSE state
        /\ opened' = IF opens /\ state # "open" THEN 0 ELSE opened
        /\ UNCHANGED half_open_calls

-----------------------------------------------------------------------------
(* call_tool past its guards. *)

Leave(c) == Goto(c, "idle")

\* The registry has no such tool: the call ends with nothing recorded, and a breaker
\* that it turned half-open stays so.
Unregistered(c) ==
    /\ pc[c] = "run" /\ attempt[c] = 0
    /\ Leave(c)
    /\ UNCHANGED <<breaker, limiter, attempt>>

Succeed(c) ==
    /\ pc[c] = "run"
    /\ RecordSuccess
    /\ Leave(c)
    /\ UNCHANGED <<limiter, attempt>>

\* One more turn of the loop, or out of it.
NextAttempt(c) ==
    /\ Goto(c, IF attempt[c] < MaxRetries THEN "run" ELSE "exhausted")
    /\ attempt' = [attempt EXCEPT ![c] = Least(@ + 1, MaxRetries)]

\* The tool answered success = False: nothing is recorded for the attempt.
Refuse(c) ==
    /\ pc[c] = "run"
    /\ NextAttempt(c)
    /\ UNCHANGED <<breaker, limiter>>

\* The tool raised: every attempt that raises counts.
Raise(c) ==
    /\ pc[c] = "run"
    /\ RecordFailure
    /\ NextAttempt(c)
    /\ UNCHANGED <<limiter>>

\* After the loop one failure more is recorded, whatever the attempts recorded.
GiveUp(c) ==
    /\ pc[c] = "exhausted"
    /\ RecordFailure
    /\ Leave(c)
    /\ UNCHANGED <<limiter, attempt>>

\* What a caller does once it has called: everything but Begin.
Proceed(c) ==
    \/ Limit(c) \/ Admit(c)
    \/ Unregistered(c) \/ Succeed(c) \/ Refuse(c) \/ Raise(c) \/ GiveUp(c)

Next == Tick \/ \E c \in Callers : Begin(c) \/ Proceed(c)

Spec == Init /\ [][Next]_vars

\* Time passes and a call that was begun comes to its end; nobody has to begin one.
FairSpec == Spec /\ WF_vars(Tick) /\ \A c \in Callers : WF_vars(Proceed(c))

-----------------------------------------------------------------------------
(* Properties. *)

\* In every window of Window ticks the limiter lets at most MaxRequests through.
GrantedUpTo[a \in 0..Window] == IF a = 0 THEN 0 ELSE GrantedUpTo[a - 1] + granted[a - 1]
Recent == GrantedUpTo[Window]
WindowBound == Recent <= MaxRequests

\* A request is refused only when the window that ends now really is full: requests
\* refused before, and those older than the window, do not count.
RefusalJustified ==
    [][\A c \in Callers : pc[c] = "limit" /\ pc'[c] = "idle" => Recent = MaxRequests]_vars

\* From the moment the breaker opens no call is admitted before the recovery timeout
\* has passed, whatever the calls admitted earlier report meanwhile.
NoEarlyAdmission ==
    [][\A c \in Callers : pc[c] = "admit" /\ pc'[c] = "run" => opened >= RecoveryTimeout]_vars

\* A closed breaker is always short of the threshold: it never stays closed on a count
\* left over from before it opened.
ClosedBelowThreshold == state = "closed" => failure_count < FailureThreshold

\* An open breaker does not stay open for ever while callers keep asking.
OpenRecovers ==
    ([]<>(\E c \in Callers : pc[c] = "admit")) => (state = "open" ~> state # "open")
=============================================================================
