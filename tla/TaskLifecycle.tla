--------------------------- MODULE TaskLifecycle ---------------------------
(* What the task pipeline of infrastructure/async_pipeline.py promises about  *)
(* one task, without queue, threads or counters: an accepted task is live,    *)
(* each failed attempt is counted, it succeeds before the attempts run out or *)
(* is dead-lettered exactly when they do, and its fate is final.  A retry     *)
(* that finds the queue full loses the task: that is part of what the code    *)
(* does, and the only way out of "live" that neither completes nor reports.   *)
EXTENDS Naturals

CONSTANTS
    Tasks,        \* the tasks that producers may submit
    MaxRetries    \* AsyncTask.max_retries

VARIABLES
    fate,         \* fate[t]: where task t is in its life
    attempts      \* attempts[t]: failed attempts of t so far

vars == <<fate, attempts>>

Fates == {"absent", "live", "completed", "dead", "lost"}

Init ==
    /\ fate = [t \in Tasks |-> "absent"]
    /\ attempts = [t \in Tasks |-> 0]

Accept(t) ==
    /\ fate[t] = "absent"
    /\ fate' = [fate EXCEPT ![t] = "live"]
    /\ UNCHANGED attempts

Complete(t) ==
    /\ fate[t] = "live"
    /\ attempts[t] < MaxRetries
    /\ fate' = [fate EXCEPT ![t] = "completed"]
    /\ UNCHANGED attempts

FailAttempt(t) ==
    /\ fate[t] = "live"
    /\ attempts[t] + 1 < MaxRetries
    /\ attempts' = [attempts EXCEPT ![t] = @ + 1]
    /\ UNCHANGED fate

Exhaust(t) ==
    /\ fate[t] = "live"
    /\ attempts[t] + 1 = MaxRetries
    /\ attempts' = [attempts EXCEPT ![t] = @ + 1]
    /\ fate' = [fate EXCEPT ![t] = "dead"]

\* Only a task that has failed before is ever put back, so only such a task is lost.
Lose(t) ==
    /\ fate[t] = "live"
    /\ attempts[t] \in 1..(MaxRetries - 1)
    /\ fate' = [fate EXCEPT ![t] = "lost"]
    /\ UNCHANGED attempts

Next ==
    \E t \in Tasks : Accept(t) \/ Complete(t) \/ FailAttempt(t) \/ Exhaust(t) \/ Lose(t)

Spec == Init /\ [][Next]_vars
=============================================================================
