---------------------------- MODULE Coordinator ----------------------------
(* Coordinator.execute of agents/coordinator.py on one session, with the      *)
(* checkpoints that infrastructure/state_persistence.py writes, in a process  *)
(* that may crash at any point.                                               *)
(*                                                                            *)
(* A save truncates the session's file and then writes it: a crash or a       *)
(* failed dump in between leaves a file that load() cannot parse.  That the   *)
(* file can be opened is assumed.  A step's result, the timings and the text  *)
(* of errors are abstracted to whether the step completed.  Steps run one     *)
(* after another: the loop awaits only between steps, on its own event loop.  *)
EXTENDS Naturals, Sequences

CONSTANTS
    Plan,            \* Plan[k]: the expert type of step k
    Degrade,         \* DEGRADE_MAP, a function on expert types
    MaxConcurrent    \* ConcurrencyController(max_concurrent)

ASSUME PlanAssumption == Plan \in Seq(STRING)
ASSUME DegradeAssumption == Degrade \in [DOMAIN Degrade -> STRING]
ASSUME PermitAssumption == MaxConcurrent \in Nat \ {0}

VARIABLES
    agents,          \* the expert types in agent_map
    pc, k,           \* where execute() is, and in which step
    steps,           \* session_state.steps[i].status
    plan,            \* session_state.plan_success
    results,         \* step_results: the status each result carries
    file,            \* the session's checkpoint file
    initialized,     \* expert types whose agent is initialised
    sandboxes,       \* SandboxPool: the steps whose sandbox exists
    permits,         \* free permits of the ConcurrencyController
    returned,        \* history: steps whose agent, their own or a fallback, returned a result
    interrupted      \* history: the step whose agent ran at the crash, or 0

session == <<steps, plan, results>>
process == <<initialized, sandboxes, permits>>
history == <<returned, interrupted>>
vars == <<agents, pc, k, session, file, process, history>>

StepIds == DOMAIN Plan
Types == {Plan[i] : i \in StepIds}
SaveLabels == {"save_init", "save_run", "save_end", "save_final"}
WriteLabels == {"write_init", "write_run", "write_end", "write_final"}

NoFile == [readable |-> FALSE]
Snapshot == [readable |-> TRUE, steps |-> steps, plan |-> plan]

Init ==
    /\ agents \in SUBSET Types
    /\ pc = "idle"
    /\ k = 1
    /\ steps = [i \in StepIds |-> "pending"]
    /\ plan = "none"
    /\ results = <<>>
    /\ file = NoFile
    /\ initialized = {}
    /\ sandboxes = {}
    /\ permits = MaxConcurrent
    /\ returned = {}
    /\ interrupted = 0

-----------------------------------------------------------------------------
(* StatePersistence.save and checkpoint: truncate, then write. *)

Execute ==
    /\ pc = "idle"
    /\ pc' = "save_init"
    /\ UNCHANGED <<agents, k, session, file, process, history>>

Opened(l) ==
    CASE l = "save_init" -> "write_init" [] l = "save_run" -> "write_run"
      [] l = "save_end" -> "write_end"   [] l = "save_final" -> "write_final"
Written(l) ==
    CASE l = "write_init" -> "dispatch" [] l = "write_run" -> "run"
      [] l = "write_end" -> "destroy"   [] l = "write_final" -> "done"

Open ==
    /\ pc \in SaveLabels
    /\ file' = NoFile
    /\ pc' = Opened(pc)
    /\ UNCHANGED <<agents, k, session, process, history>>

Dump ==
    /\ pc \in WriteLabels
    /\ file' = Snapshot
    /\ pc' = Written(pc)
    /\ UNCHANGED <<agents, k, session, process, history>>

\* The exception of a failed dump is swallowed: the session goes on without a file.
DumpFails ==
    /\ pc \in WriteLabels
    /\ pc' = Written(pc)
    /\ UNCHANGED <<agents, k, session, file, process, history>>

-----------------------------------------------------------------------------
(* _execute_steps_async *)

Type == Plan[k]
Report(s) == results' = Append(results, s)
SetStep(s) == steps' = [steps EXCEPT ![k] = s]

CheckpointAfterRun == "run"                       \* mutant
AfterAssign == "save_run"

\* The agent exists: take a permit, initialise it for this step, mark the step RUNNING.
\* acquire() waits 30 s at most, and nobody looks whether it got one.
Assign ==
    /\ pc = "dispatch"
    /\ k <= Len(Plan)
    /\ Type \in agents
    /\ permits' = IF permits > 0 THEN permits - 1 ELSE 0
    /\ sandboxes' = IF Type \in initialized THEN sandboxes ELSE sandboxes \cup {k}
    /\ initialized' = initialized \cup {Type}
    /\ SetStep("running")
    /\ pc' = AfterAssign
    /\ UNCHANGED <<agents, k, plan, results, file, history>>

\* No such agent: _try_degrade_agent runs another one, which nobody initialised, and the
\* session state does not hear of the step either way.
DegradeStep ==
    /\ pc = "dispatch"
    /\ k <= Len(Plan)
    /\ Type \notin agents
    /\ \E s \in {"completed", "failed"} :
        /\ s = "completed" => Type \in DOMAIN Degrade /\ Degrade[Type] \in agents
        /\ Report(s)
        /\ returned' = IF s = "completed" THEN returned \cup {k} ELSE returned
    /\ k' = k + 1
    /\ UNCHANGED <<agents, pc, steps, plan, file, process, interrupted>>

RunSucceeds ==
    /\ pc = "run"
    /\ Report("completed")
    /\ SetStep("completed")
    /\ returned' = returned \cup {k}
    /\ pc' = "save_end"
    /\ UNCHANGED <<agents, k, plan, file, process, interrupted>>

RerunUnbounded == "save_run"                      \* mutant
AfterAgentError == "retry"

\* An AgentError gets one more run, any other exception none.
RunRaisesAgentError ==
    /\ pc = "run"
    /\ pc' = AfterAgentError
    /\ UNCHANGED <<agents, k, session, file, process, history>>

RunFails ==
    /\ pc \in {"run", "retry"}
    /\ Report("failed")
    /\ SetStep("failed")
    /\ pc' = "save_end"
    /\ UNCHANGED <<agents, k, plan, file, process, history>>

\* The retried run is reported as completed; its StepState stays RUNNING.
RetrySucceeds ==
    /\ pc = "retry"
    /\ Report("completed")
    /\ returned' = returned \cup {k}
    /\ pc' = "save_end"
    /\ UNCHANGED <<agents, k, steps, plan, file, process, interrupted>>

DestroyedOnSuccess == results[Len(results)] = "completed"     \* mutant
Destroyed == TRUE

PermitBack == permits + 1

\* The two finally blocks: destroy the agent, give the permit back.
Destroy ==
    /\ pc = "destroy"
    /\ initialized' = IF Destroyed THEN initialized \ {Type} ELSE initialized
    /\ sandboxes' = IF Destroyed THEN sandboxes \ {k} ELSE sandboxes
    /\ permits' = PermitBack
    /\ k' = k + 1
    /\ pc' = "dispatch"
    /\ UNCHANGED <<agents, session, file, history>>

-----------------------------------------------------------------------------
(* The end of execute. *)

LastStepFailed == results # <<>> /\ results[Len(results)] = "failed"     \* mutant
HasFailedStep == \E i \in DOMAIN results : results[i] = "failed"

\* plan_success is set in memory after the final decision, just before the last save.
Decide ==
    /\ pc = "dispatch"
    /\ k > Len(Plan)
    /\ plan' = IF HasFailedStep THEN "failure" ELSE "success"
    /\ pc' = "save_final"
    /\ UNCHANGED <<agents, k, steps, results, file, process, history>>

\* A KeyError of auto_resolve_pending leaves execute() before plan_success is set: no last
\* save, and the process lives on.
DecideRaises ==
    /\ pc = "dispatch"
    /\ k > Len(Plan)
    /\ pc' = "raised"
    /\ UNCHANGED <<agents, k, session, file, process, history>>

\* The process dies: memory is gone, the file stays as it is.
Crash ==
    /\ pc \notin {"idle", "done", "raised", "down"}
    /\ pc' = "down"
    /\ interrupted' = IF pc \in {"run", "retry"} THEN k ELSE 0
    /\ initialized' = {}
    /\ sandboxes' = {}
    /\ permits' = MaxConcurrent
    /\ UNCHANGED <<agents, k, session, file, returned>>

Work ==
    \/ Open \/ Dump \/ DumpFails
    \/ Assign \/ DegradeStep
    \/ RunSucceeds \/ RunRaisesAgentError \/ RunFails \/ RetrySucceeds
    \/ Destroy \/ Decide \/ DecideRaises

Next == Execute \/ Work \/ Crash

Spec == Init /\ [][Next]_vars

\* A started session is executed on as long as its process lives: agents return or raise.
FairSpec == Spec /\ WF_vars(Work)

-----------------------------------------------------------------------------
(* CheckpointManager.resume and get_next_step, asked after a crash or an exception. *)

Stopped == pc \in {"raised", "down"}

Resumable == file.readable /\ file.plan = "none"

ResumesRunning(s) == s # "completed"              \* mutant
ToDo(s) == s \in {"pending", "failed"}

\* The step that get_next_step offers, 0 for None.
NextStep ==
    LET todo == {i \in StepIds : ToDo(file.steps[i])}
    IN  IF todo = {} THEN 0 ELSE CHOOSE i \in todo : \A j \in todo : i <= j

-----------------------------------------------------------------------------
(* Properties. *)

\* A readable checkpoint agrees with the session in memory on every step but the one
\* under way, and on that one it lags by the one transition not yet written.
CheckpointLag ==
    pc # "down" /\ file.readable =>
        \A i \in StepIds :
            \/ file.steps[i] = steps[i]
            \/ i = k /\ pc = "save_run" /\ steps[i] = "running"
            \/ i = k /\ pc = "save_end" /\ file.steps[i] = "running"

\* Whatever stopped the session, a resume repeats the work of no agent of the plan: a step
\* that has returned a result and is offered again was done by a fallback, whose result
\* the StepState never hears of (such a step is repeated).
OnlyFallbacksRepeated ==
    Stopped /\ Resumable /\ NextStep \in returned => Plan[NextStep] \notin agents

\* Between two steps no agent is initialised, no sandbox is left and every permit is back,
\* whichever way the step ended; during a step only its own sandbox exists.
ResourcesReturned ==
    /\ sandboxes \subseteq {k}
    /\ pc \in {"dispatch", "save_final", "done", "raised"} =>
        /\ initialized = {}
        /\ sandboxes = {}
        /\ permits = MaxConcurrent

\* Every step of the coordinator is a transition of the session's promised record, made
\* when the one before it is on record, or the loss or writing of that record, or invisible.
Record == INSTANCE SessionRecord WITH record <- file, alive <- (pc # "down")
ImplementsRecord == Record!Spec

\* A started session ends: every retry, degradation and failed write leads on.
SessionEnds == (pc = "save_init") ~> (pc \in {"done", "raised", "down"})

\* RESUME_PROJECT.md: a checkpoint before and after each step supports recovery from an
\* interruption, so the step that was interrupted is the one to resume with.
InterruptedStepResumed ==
    pc = "down" /\ interrupted # 0 /\ Resumable => NextStep = interrupted
=============================================================================
