------------------------------ MODULE Harness ------------------------------
(* HarnessOrchestrator.execute_plan of infrastructure/harness.py, called      *)
(* once: the batches, the thread pool, the collection of results under a      *)
(* timeout, and for each task the retries, the degraded agent, the lifecycle  *)
(* of its agent type and the sandbox that BaseAgent.initialize creates and    *)
(* destroy releases (agents/base_worker.py, memory/memory_hub.py).            *)
(*                                                                            *)
(* A timed-out future is not cancelled: its task goes on in the pool, through *)
(* later batches.  An agent object has no lock; initialize() and destroy()    *)
(* are two steps each, so two tasks that share an agent interleave in them.   *)
EXTENDS Naturals, Sequences, FiniteSets, SequencesExt

CONSTANTS
    Plan,             \* the tasks in the order the priority queue gives them
    AgentType,        \* ScheduledTask.agent_type
    DependsOn,        \* ScheduledTask.depends_on
    AgentMaps,        \* the agent maps a caller may pass, by the types in them
    Registrations,    \* the sets of types register_agent() may have seen before
    Degrade,          \* FallbackStrategy.DEGRADE_MAP
    MaxRetries,       \* ScheduledTask.max_retries
    MaxWorkers,       \* ResourceController.max_concurrent, the size of the pool
    EnableParallel,   \* HarnessOrchestrator.enable_parallel
    NoAgent, NoTask   \* nothing looked up, no sandbox

Tasks == ToSet(Plan)
Types == {AgentType[t] : t \in Tasks}

ASSUME PlanAssumption ==
    /\ \A t \in Tasks : DependsOn[t] \subseteq Tasks /\ IsFiniteSet(DependsOn[t])
    /\ \A i, j \in DOMAIN Plan : Plan[i] = Plan[j] => i = j
    /\ Plan \in Seq(Tasks) /\ Plan # <<>>
ASSUME AgentAssumption == AgentMaps \subseteq SUBSET Types /\ Registrations \subseteq SUBSET Types
ASSUME NobodyAssumption == NoAgent \notin Types /\ NoTask \notin Tasks
ASSUME BoundAssumption == MaxRetries \in Nat /\ MaxWorkers \in Nat \ {0}

VARIABLES
    agent_map,        \* the types in execute_plan's agent_map
    registered,       \* AgentLifecycleManager: the types that have a history
    lifecycle,        \* AgentLifecycleManager._states
    main,             \* where execute_plan is
    depth, pos,       \* its batch, and the place in the plan of the batch's current task
    pool,             \* the executor's queue of tasks no worker has taken
    pc,               \* where _execute_single is, for each task
    attempt,          \* its loop variable
    agent,            \* the agent it uses
    outcome,          \* the status it returned, or "raised"
    reported,         \* the status of the task in all_results
    initialized,      \* BaseAgent.initialized, by type
    sandbox,          \* BaseAgent.sandbox: the task it was created for
    sandboxes         \* SandboxPool: the tasks whose sandbox is in it

plan  == <<agent_map, main, depth, pos, reported>>
cycle == <<registered, lifecycle>>
single == <<pc, attempt, agent, outcome>>
boxes == <<initialized, sandbox, sandboxes>>
vars  == <<plan, cycle, pool, single, boxes>>

Working == {"start", "check", "create", "run", "release", "clear"}

Init ==
    /\ agent_map \in AgentMaps
    /\ registered \in Registrations
    /\ lifecycle = [a \in Types |-> "uninitialized"]
    /\ main = "idle"
    /\ depth = 0
    /\ pos = 1
    /\ pool = <<>>
    /\ pc = [t \in Tasks |-> "idle"]
    /\ attempt = [t \in Tasks |-> 0]
    /\ agent = [t \in Tasks |-> NoAgent]
    /\ outcome = [t \in Tasks |-> "none"]
    /\ reported = [t \in Tasks |-> "none"]
    /\ initialized = [a \in Types |-> FALSE]
    /\ sandbox = [a \in Types |-> NoTask]
    /\ sandboxes = {}

-----------------------------------------------------------------------------
(* execute_plan: one batch for each number of dependencies. *)

Depth(t) == Cardinality(DependsOn[t])
Depths == {Depth(t) : t \in Tasks}
Batch(d) == {i \in DOMAIN Plan : Depth(Plan[i]) = d}      \* its places in the plan

FirstOfUnsorted(ds) ==                            \* mutant
    Depth(Plan[CHOOSE i \in DOMAIN Plan : Depth(Plan[i]) \in ds
                   /\ \A j \in 1..(i - 1) : Depth(Plan[j]) \notin ds])
FirstOf(ds) == CHOOSE d \in ds : \A e \in ds : d <= e

Parallel(d) == EnableParallel /\ Cardinality(Batch(d)) > 1
EnterBatch(ds) ==
    LET d == FirstOf(ds)
    IN  /\ depth' = d
        /\ pos' = Min(Batch(d))
        /\ main' = IF Parallel(d) THEN "submit" ELSE "serial"

\* The rest of the batch, and the depths whose batches are still to come.
Later == {i \in Batch(depth) : i > pos}
Ahead == {Depth(t) : t \in {u \in Tasks : reported[u] = "none"}} \ {depth}

\* What follows the task at pos has been dealt with.
Advance ==
    IF Later # {} THEN pos' = Min(Later) /\ UNCHANGED <<main, depth>>
    ELSE IF Ahead # {} THEN EnterBatch(Ahead)
    ELSE main' = "shutdown" /\ UNCHANGED <<depth, pos>>

ExecutePlan ==
    /\ main = "idle"
    /\ registered' = registered \cup agent_map
    /\ lifecycle' = [a \in Types |-> IF a \in agent_map THEN "uninitialized" ELSE lifecycle[a]]
    /\ EnterBatch(Depths)
    /\ UNCHANGED <<agent_map, reported, pool, single, boxes>>

Current == Plan[pos]
Report(s) == reported' = [reported EXCEPT ![Current] = s]

Submit ==
    /\ main = "submit"
    /\ pool' = Append(pool, Current)
    /\ pc' = [pc EXCEPT ![Current] = "queued"]
    /\ IF Later # {} THEN pos' = Min(Later) /\ main' = main
       ELSE pos' = Min(Batch(depth)) /\ main' = "collect"
    /\ UNCHANGED <<agent_map, depth, reported, cycle, attempt, agent, outcome, boxes>>

Collect ==
    /\ main = "collect"
    /\ pc[Current] = "done"
    /\ Report(IF outcome[Current] = "completed" THEN "completed" ELSE "failed")
    /\ Advance
    /\ UNCHANGED <<agent_map, cycle, pool, single, boxes>>

TimedOutCompleted == "completed"                  \* mutant
TimedOut == "failed"

\* result(timeout) raised: the task is reported and left running.
CollectTimeout ==
    /\ main = "collect"
    /\ pc[Current] # "done"
    /\ Report(TimedOut)
    /\ Advance
    /\ UNCHANGED <<agent_map, cycle, pool, single, boxes>>

SerialStart ==
    /\ main = "serial"
    /\ pc[Current] = "idle"
    /\ pc' = [pc EXCEPT ![Current] = "start"]
    /\ UNCHANGED <<plan, cycle, pool, attempt, agent, outcome, boxes>>

\* On the caller's own thread an exception ends execute_plan, pool and all.
SerialEnd ==
    /\ main = "serial"
    /\ pc[Current] = "done"
    /\ IF outcome[Current] = "raised"
       THEN main' = "raised" /\ UNCHANGED <<depth, pos, reported>>
       ELSE Report(outcome[Current]) /\ Advance
    /\ UNCHANGED <<agent_map, cycle, pool, single, boxes>>

NoWait == TRUE                                    \* mutant
PoolDrained == \A t \in Tasks : pc[t] = "done"

\* shutdown(wait=True): queued and late tasks are run to their end first.
Shutdown ==
    /\ main = "shutdown"
    /\ PoolDrained
    /\ main' = "returned"
    /\ UNCHANGED <<agent_map, depth, pos, reported, cycle, pool, single, boxes>>

Main ==
    \/ Submit \/ Collect \/ SerialStart \/ SerialEnd \/ Shutdown

-----------------------------------------------------------------------------
(* _execute_single, on a worker of the pool or on the caller's thread. *)

InPool(t) == Parallel(Depth(t))
Busy == {t \in Tasks : InPool(t) /\ pc[t] \in Working}

WorkerTakes(t) ==
    /\ pool # <<>> /\ t = Head(pool)
    /\ Cardinality(Busy) < MaxWorkers
    /\ pool' = Tail(pool)
    /\ pc' = [pc EXCEPT ![t] = "start"]
    /\ UNCHANGED <<plan, cycle, attempt, agent, outcome, boxes>>

Goto(t, l) == pc' = [pc EXCEPT ![t] = l]
Transition(t, s) == lifecycle' = [lifecycle EXCEPT ![AgentType[t]] = s]
End(t, o) == Goto(t, "done") /\ outcome' = [outcome EXCEPT ![t] = o]

\* transition() stores the state and then fails on the history it does not find.
StartUnregistered(t) ==
    /\ pc[t] = "start"
    /\ AgentType[t] \notin registered
    /\ Transition(t, "running")
    /\ End(t, "raised")
    /\ UNCHANGED <<plan, registered, pool, attempt, agent, boxes>>

Use(t, a, s) ==
    /\ Transition(t, s)
    /\ agent' = [agent EXCEPT ![t] = a]
    /\ Goto(t, "check")
    /\ UNCHANGED outcome

StartTask(t) ==
    LET a == AgentType[t]
        CanDegrade == a \in DOMAIN Degrade /\ Degrade[a] \in agent_map
    IN  /\ pc[t] = "start"
        /\ a \in registered
        /\ \/ a \in agent_map /\ Use(t, a, "running")
           \/ a \notin agent_map /\ CanDegrade /\ Use(t, Degrade[a], "degrading")
           \/ /\ a \notin agent_map /\ ~CanDegrade
              /\ Transition(t, "failed") /\ End(t, "failed")
              /\ UNCHANGED agent
        /\ UNCHANGED <<plan, registered, pool, attempt, boxes>>

\* initialize(): an agent found initialised keeps the sandbox it has.
InitializeCheck(t) ==
    /\ pc[t] = "check"
    /\ Goto(t, IF initialized[agent[t]] THEN "run" ELSE "create")
    /\ UNCHANGED <<plan, cycle, pool, attempt, agent, outcome, boxes>>

InitializeCreate(t) ==
    /\ pc[t] = "create"
    /\ sandboxes' = sandboxes \cup {t}
    /\ sandbox' = [sandbox EXCEPT ![agent[t]] = t]
    /\ initialized' = [initialized EXCEPT ![agent[t]] = TRUE]
    /\ Goto(t, "run")
    /\ UNCHANGED <<plan, cycle, pool, attempt, agent, outcome>>

RunReturns(t) ==
    /\ pc[t] = "run"
    /\ Goto(t, "release")
    /\ UNCHANGED <<plan, cycle, pool, attempt, agent, outcome, boxes>>

CanRetry(t) == attempt[t] < MaxRetries
AttemptKept(t) == attempt[t]                      \* mutant
NextAttempt(t) == attempt[t] + 1

\* The agent stays initialised and keeps its sandbox, also after the last attempt.
RunRaises(t) ==
    /\ pc[t] = "run"
    /\ \/ /\ CanRetry(t)
          /\ attempt' = [attempt EXCEPT ![t] = NextAttempt(t)]
          /\ Transition(t, "retrying")
          /\ Goto(t, "check")
          /\ UNCHANGED outcome
       \/ /\ ~CanRetry(t)
          /\ Transition(t, "failed")
          /\ End(t, "failed")
          /\ UNCHANGED attempt
    /\ UNCHANGED <<plan, registered, pool, agent, boxes>>

ReleasedNone(t) == {}                             \* mutant
Released(t) == {sandbox[agent[t]]}

\* destroy(): the sandbox the agent has now goes, whoever it was created for.
DestroyRelease(t) ==
    /\ pc[t] = "release"
    /\ sandboxes' = sandboxes \ Released(t)
    /\ Goto(t, "clear")
    /\ UNCHANGED <<plan, cycle, pool, attempt, agent, outcome, initialized, sandbox>>

DestroyClear(t) ==
    /\ pc[t] = "clear"
    /\ initialized' = [initialized EXCEPT ![agent[t]] = FALSE]
    /\ Transition(t, "completed")
    /\ End(t, "completed")
    /\ UNCHANGED <<plan, registered, pool, attempt, agent, sandbox, sandboxes>>

Single(t) ==
    \/ WorkerTakes(t)
    \/ StartUnregistered(t) \/ StartTask(t)
    \/ InitializeCheck(t) \/ InitializeCreate(t)
    \/ RunReturns(t) \/ RunRaises(t)
    \/ DestroyRelease(t) \/ DestroyClear(t)

Next == ExecutePlan \/ Main \/ CollectTimeout \/ \E t \in Tasks : Single(t)

Spec == Init /\ [][Next]_vars

\* The caller's thread and the workers keep being scheduled and agents return or raise;
\* a timeout need not happen.
FairSpec == Spec /\ WF_vars(Main) /\ \A t \in Tasks : WF_vars(Single(t))

-----------------------------------------------------------------------------
(* Properties. *)

Started(t) == pc[t] \notin {"idle", "queued"}

\* No task starts before every task with fewer dependencies is in the results, however
\* the batches overlap in the pool.
BatchOrder ==
    [][\A t, u \in Tasks :
        ~Started(t) /\ Started(t)' /\ Cardinality(DependsOn[u]) < Cardinality(DependsOn[t])
            => reported[u] # "none"]_vars

\* The plan never claims a success that no agent delivered.
HonestReport == \A t \in Tasks : reported[t] = "completed" => outcome[t] = "completed"

\* execute_plan returns to no running worker: every task has ended, and the lifecycle of
\* an agent type that one task used says how.
SettledAtReturn ==
    main = "returned" => \A t \in Tasks :
        /\ outcome[t] # "none"
        /\ (\A u \in Tasks \ {t} : AgentType[u] # AgentType[t]) /\ outcome[t] # "raised" =>
               lifecycle[AgentType[t]] = outcome[t]

Alone(t) == \A u \in Tasks \ {t} : agent[u] # agent[t]

\* A task whose agent no other task uses runs in the sandbox made for it, and leaves it
\* in the pool at the end only if its last attempt failed.
SandboxPerTask ==
    \A t \in Tasks : Alone(t) /\ agent[t] # NoAgent =>
        /\ pc[t] = "run" => sandbox[agent[t]] = t /\ t \in sandboxes
        /\ pc[t] = "done" /\ t \in sandboxes => outcome[t] = "failed"

\* A plan that was started ends, with late tasks, retries and a full pool.
PlanReturns == (main # "idle") ~> (main \in {"returned", "raised"})
=============================================================================
