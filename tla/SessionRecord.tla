--------------------------- MODULE SessionRecord ----------------------------
(* What the checkpoints of infrastructure/state_persistence.py promise of a   *)
(* session, without agents, files under way, sandboxes or permits: steps      *)
(* begin in the order of the plan, only the one begun last can end, and every *)
(* transition, the final verdict too, is on record before the next one is     *)
(* made, unless the record was lost.  A session is no success if a step is    *)
(* known to have failed, and a process that died changes nothing any more.    *)
EXTENDS Naturals

CONSTANTS
    StepIds          \* the steps of the plan, by their numbers

VARIABLES
    steps,           \* steps[i]: what the session knows of step i
    plan,            \* its verdict on the whole
    record,          \* what a later process could load
    alive            \* the process has not died

vars == <<steps, plan, record, alive>>

Lost == [readable |-> FALSE]
Current == [readable |-> TRUE, steps |-> steps, plan |-> plan]

\* Nothing has happened that a readable record does not tell.
UpToDate == record \in {Lost, Current}

Init ==
    /\ steps = [i \in StepIds |-> "pending"]
    /\ plan = "none"
    /\ record = Lost
    /\ alive = TRUE

\* A step may be passed over: then it stays pending.
Begin(i) ==
    /\ alive /\ UpToDate /\ plan = "none"
    /\ \A j \in StepIds : j >= i => steps[j] = "pending"
    /\ steps' = [steps EXCEPT ![i] = "running"]
    /\ UNCHANGED <<plan, record, alive>>

End(i, outcome) ==
    /\ alive /\ UpToDate /\ plan = "none"
    /\ steps[i] = "running"
    /\ \A j \in StepIds : j > i => steps[j] = "pending"
    /\ steps' = [steps EXCEPT ![i] = outcome]
    /\ UNCHANGED <<plan, record, alive>>

Conclude(verdict) ==
    /\ alive /\ UpToDate /\ plan = "none"
    /\ verdict = "success" => \A i \in StepIds : steps[i] # "failed"
    /\ plan' = verdict
    /\ UNCHANGED <<steps, record, alive>>

Lose ==
    /\ alive /\ record # Lost
    /\ record' = Lost
    /\ UNCHANGED <<steps, plan, alive>>

\* A record is written where none can be read: it never replaces an older one in one step.
Save ==
    /\ alive /\ record = Lost
    /\ record' = Current
    /\ UNCHANGED <<steps, plan, alive>>

Die ==
    /\ alive
    /\ alive' = FALSE
    /\ UNCHANGED <<steps, plan, record>>

Next ==
    \/ \E i \in StepIds : Begin(i) \/ \E outcome \in {"completed", "failed"} : End(i, outcome)
    \/ \E verdict \in {"success", "failure"} : Conclude(verdict)
    \/ Lose \/ Save \/ Die

Spec == Init /\ [][Next]_vars
=============================================================================
