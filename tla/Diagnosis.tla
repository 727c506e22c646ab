----------------------------- MODULE Diagnosis ------------------------------
(* One diagnosis from order id to report: run_task of main.py, the plan agent *)
(* with its cache, the five experts run by the coordinator, the decision, and *)
(* the approval engine.  The coordinator takes one of five permits for each   *)
(* step, so several tasks may share these objects: Workers are the threads    *)
(* that run tasks (main.py and the interactive shell have one).               *)
(*                                                                            *)
(* A session is the number of the task that drew it.  The facts an expert     *)
(* leaves in the session's memory are kept as the order whose rows they are.  *)
(* Time is what approval ids tell apart: a submission has the id of the last  *)
(* one or the next, drawn as it is filed.  ApprovalEngine has no lock: what a *)
(* worker or a reviewer has taken up is its own until it writes the status.   *)
(* Checkpoints, permits and sandboxes are those of Coordinator.               *)
EXTENDS Naturals, FiniteSets, Experts

CONSTANTS
    Orders, Workers,
    Cases,           \* the rows an order may have
    Rosters,         \* the sets of experts that agent_map may hold
    MaxTasks,        \* bound: tasks
    MaxFaults,       \* bound: runs of an expert that raise
    MaxReviews       \* bound: calls of approve, reject and escalate

Types == <<"order", "payment", "risk", "reconciliation", "operation">>
Tasks == 1..MaxTasks
Ids == 0..MaxTasks

ASSUME OrderAssumption == "no order" \notin Orders
ASSUME RosterAssumption == Rosters \subseteq SUBSET {Types[i] : i \in DOMAIN Types}
ASSUME BoundAssumption == {MaxTasks, MaxFaults, MaxReviews} \subseteq Nat

VARIABLES
    rows, agents,    \* mock_db, agent_map
    asked,           \* the orders of the tasks begun
    cached,          \* PlanAgent._cache: the task whose plan an order has, 0 for none
    stamped,         \* the session_id in the plan that a task built
    work,            \* what each worker does
    facts,           \* struct_redis: the order whose row is under a session's key
    now,             \* the time of the last submission
    pending,         \* ApprovalEngine._pending: the task whose request has an id, 0 for none
    request,         \* the requests of the tasks
    inHand,          \* calls of approve, reject and escalate that have yet to write a status
    reports,         \* the reports of the tasks
    died,            \* history: tasks whose execute raised
    faults, reviews

engine == <<now, pending, request, inHand>>
vars == <<rows, agents, asked, cached, stamped, work, facts, engine, reports, died, faults, reviews>>

NoOrder == "no order"
Kinds == {"order", "payment", "risk"}
Verdicts == {"approved", "rejected", "escalated"}
Idle == [at |-> "idle", task |-> 0]
NoRequest == [status |-> "none", id |-> 0]
NoReport == [session |-> 0]

Init ==
    /\ rows \in [Orders -> Cases] /\ agents \in Rosters
    /\ asked = <<>>
    /\ cached = [o \in Orders |-> 0] /\ stamped = [n \in Tasks |-> 0]
    /\ work = [w \in Workers |-> Idle]
    /\ facts = [s \in Tasks |-> [d \in Kinds |-> NoOrder]]
    /\ now = 0
    /\ pending = [i \in Ids |-> 0]
    /\ request = [n \in Tasks |-> NoRequest]
    /\ inHand = {}
    /\ reports = [n \in Tasks |-> NoReport]
    /\ died = {} /\ faults = 0 /\ reviews = 0

-----------------------------------------------------------------------------
(* run_task and PlanAgent.run. *)

LastPlan(o) == IF Range(cached) = {0} THEN 0 ELSE CHOOSE n \in Range(cached) : n > 0   \* mutant
CachedPlan(o) == cached[o]

\* A cached plan younger than CACHE_TTL is the same object for every task that gets it:
\* each writes its own session and order into it.
Begin(w, o, fresh) ==
    LET n == Len(asked) + 1
        p == IF fresh THEN CachedPlan(o) ELSE n
    IN
    /\ work[w] = Idle /\ n \in Tasks
    /\ fresh => CachedPlan(o) # 0
    /\ asked' = Append(asked, o)
    /\ cached' = [cached EXCEPT ![o] = p]
    /\ stamped' = [stamped EXCEPT ![p] = n]
    /\ work' = [work EXCEPT ![w] = [at |-> "planned", task |-> n, plan |-> p]]
    /\ UNCHANGED <<rows, agents, facts, engine, reports, died, faults, reviews>>

\* Coordinator.execute copies the plan, with the order and session it has by then.
Execute(w) ==
    /\ work[w].at = "planned"
    /\ work' = [work EXCEPT ![w] =
                  [at |-> "step", task |-> @.task, session |-> stamped[@.plan], results |-> <<>>]]
    /\ UNCHANGED <<rows, agents, asked, cached, stamped, facts, engine, reports, died, faults, reviews>>

-----------------------------------------------------------------------------
(* The steps, in the plan's order. *)

Order(w) == asked[work[w].session]
Step(w) == Types[Len(work[w].results) + 1]
InStep(w) == work[w].at = "step" /\ Len(work[w].results) < Len(Types)
Fallback == [payment |-> "order", risk |-> "payment", reconciliation |-> "order",
             operation |-> "reconciliation"]

Done(w, r) == work' = [work EXCEPT ![w].results = Append(@, r)]
Completed(r) == [status |-> "completed", expert |-> r.expert, code |-> r.code, risk |-> r.risk, says |-> r.says]
Failed(type) == [status |-> "failed", expert |-> type, code |-> None, risk |-> None, says |-> None]

OneKey(s) == 1                                    \* mutant
Key(s) == s

FactOf(s, d) == facts[Key(s)][d]
RiskFact(s) == IF FactOf(s, "risk") = NoOrder THEN None ELSE RiskOf(rows[FactOf(s, "risk")])
PaymentFact(s) == IF FactOf(s, "payment") = NoOrder THEN None ELSE Primary(rows[FactOf(s, "payment")]).status

\* An expert reads the row of the order and leaves it in the session's memory; the
\* operation agent reads what the others left.
RunExpert(w) ==
    LET s == work[w].session IN
    /\ InStep(w) /\ Step(w) \in agents
    /\ IF Step(w) = "operation"
       THEN Done(w, Completed(OperationResult(Advice(RiskFact(s), PaymentFact(s)))))
       ELSE Done(w, Completed(ExpertResult(Step(w), rows[Order(w)])))
    /\ facts' = IF Step(w) \in Kinds
                THEN [facts EXCEPT ![Key(s)][Step(w)] = Order(w)] ELSE facts
    /\ UNCHANGED <<rows, agents, asked, cached, stamped, engine, reports, died, faults, reviews>>

HasFallback(type) == type \in DOMAIN Fallback /\ Fallback[type] \in agents

\* An expert that raises, and raises again in the retry that an AgentError gets, or a
\* fallback that raises: a failed step.
ExpertFails(w) ==
    /\ InStep(w)
    /\ Step(w) \in agents \/ HasFallback(Step(w))
    /\ faults < MaxFaults
    /\ Done(w, Failed(Step(w)))
    /\ faults' = faults + 1
    /\ UNCHANGED <<rows, agents, asked, cached, stamped, facts, engine, reports, died, reviews>>

\* _try_degrade_agent: another expert, asked with no order and the step's id for a session,
\* so that what it leaves in memory is under a key no task reads.
Degrade(w) ==
    /\ InStep(w) /\ Step(w) \notin agents
    /\ IF HasFallback(Step(w))
       THEN Done(w, Completed(ExpertResult(Fallback[Step(w)], NoRows)))
       ELSE Done(w, Failed(Step(w)))
    /\ UNCHANGED <<rows, agents, asked, cached, stamped, facts, engine, reports, died, faults, reviews>>

-----------------------------------------------------------------------------
(* _make_final_decision and ApprovalEngine. *)

\* RISK_APPROVAL_MAP: what is not approved at once.
WaitsForApproval(level) == level # "low"

\* From here to the report a worker has a list of ids, and what it has popped of it.
Goes(w, label, listed, held) ==
    work' = [work EXCEPT ![w] =
               [at |-> label, task |-> @.task, session |-> @.session, results |-> @.results,
                listed |-> listed, held |-> held]]

\* submit() files the request under its id, or approves it at once.
Submit(w) ==
    LET n == work[w].task
        d == Decide(work[w].results)
        waits == d.approval /\ WaitsForApproval(d.risk)
    IN
    /\ work[w].at = "step" /\ Len(work[w].results) = Len(Types)
    /\ now' \in {now} \cup (IF d.approval THEN {now + 1} ELSE {})
    /\ request' = IF d.approval
                  THEN [request EXCEPT ![n] =
                          [status |-> IF waits THEN "pending" ELSE "approved", id |-> now']]
                  ELSE request
    /\ pending' = IF waits THEN [pending EXCEPT ![now'] = n] ELSE pending
    /\ Goes(w, "submitted", {}, 0)
    /\ UNCHANGED <<rows, agents, asked, cached, stamped, facts, inHand, reports, died, faults, reviews>>

\* The status is read after submit() returned: a request that somebody has escalated
\* meanwhile is left to wait.
TestStatus(w) ==
    /\ work[w].at = "submitted"
    /\ Goes(w, IF request[work[w].task].status = "pending" THEN "list" ELSE "resolve", {}, 0)
    /\ UNCHANGED <<rows, agents, asked, cached, stamped, facts, engine, reports, died, faults, reviews>>

OlderIds == {i \in DOMAIN pending : pending[i] # 0 /\ i < now}     \* mutant
PendingIds == {i \in DOMAIN pending : pending[i] # 0}

\* auto_resolve_pending takes the ids that are pending, whosever they are ...
ListPending(w) ==
    /\ work[w].at = "list"
    /\ Goes(w, "resolve", PendingIds, 0)
    /\ UNCHANGED <<rows, agents, asked, cached, stamped, facts, engine, reports, died, faults, reviews>>

Oldest(ids) == CHOOSE i \in ids : \A j \in ids : i <= j

\* ... pops one after the other, the escalated ones too ...
PopOne(w) ==
    LET i == Oldest(work[w].listed) IN
    /\ work[w].at = "resolve" /\ work[w].listed # {}
    /\ pending[i] # 0
    /\ pending' = [pending EXCEPT ![i] = 0]
    /\ Goes(w, "approve", work[w].listed \ {i}, pending[i])
    /\ UNCHANGED <<rows, agents, asked, cached, stamped, facts, now, request, inHand, reports, died,
                   faults, reviews>>

\* ... and approves what it popped.
ApproveOne(w) ==
    /\ work[w].at = "approve"
    /\ request' = [request EXCEPT ![work[w].held].status = "approved"]
    /\ Goes(w, "resolve", work[w].listed, 0)
    /\ UNCHANGED <<rows, agents, asked, cached, stamped, facts, now, pending, inHand, reports, died,
                   faults, reviews>>

\* What execute raises ends the task; the shell that called it goes on.
Caught(w) ==
    /\ died' = died \cup {work[w].task}
    /\ work' = [work EXCEPT ![w] = Idle]

\* Somebody else has resolved the next id: pop() raises KeyError and so does execute.
ResolveRaises(w) ==
    /\ work[w].at = "resolve" /\ work[w].listed # {}
    /\ pending[Oldest(work[w].listed)] = 0
    /\ Caught(w)
    /\ UNCHANGED <<rows, agents, asked, cached, stamped, facts, engine, reports, faults, reviews>>

\* The report is made whatever became of the request.
Report(w) ==
    LET results == work[w].results IN
    /\ work[w].at = "resolve" /\ work[w].listed = {}
    /\ reports' = [reports EXCEPT ![work[w].task] =
         [session |-> work[w].session, decision |-> Decide(results), steps |-> results,
          success |-> \A i \in DOMAIN results : results[i].status = "completed"]]
    /\ work' = [work EXCEPT ![w] = Idle]
    /\ UNCHANGED <<rows, agents, asked, cached, stamped, facts, engine, died, faults, reviews>>

\* approve and reject pop a request, escalate only gets it, for whoever reviews ...
TakeUp(i, verdict) ==
    /\ reviews < MaxReviews /\ pending[i] # 0
    /\ reviews' = reviews + 1
    /\ inHand' = inHand \cup {[review |-> reviews', task |-> pending[i], verdict |-> verdict]}
    /\ pending' = [pending EXCEPT ![i] = IF verdict = "escalated" THEN @ ELSE 0]
    /\ UNCHANGED <<rows, agents, asked, cached, stamped, work, facts, now, request, reports, died, faults>>

\* ... and the status is written later, whatever it has become.
Settle(h) ==
    /\ request' = [request EXCEPT ![h.task].status = h.verdict]
    /\ inHand' = inHand \ {h}
    /\ UNCHANGED <<rows, agents, asked, cached, stamped, work, facts, now, pending, reports, died,
                   faults, reviews>>

Next ==
    \/ \E w \in Workers :
        \/ \E o \in Orders, fresh \in BOOLEAN : Begin(w, o, fresh)
        \/ Execute(w)
        \/ RunExpert(w) \/ ExpertFails(w) \/ Degrade(w)
        \/ Submit(w) \/ TestStatus(w)
        \/ ListPending(w) \/ PopOne(w) \/ ApproveOne(w) \/ ResolveRaises(w)
        \/ Report(w)
    \/ \E i \in Ids, verdict \in Verdicts : TakeUp(i, verdict)
    \/ \E h \in inHand : Settle(h)

Spec == Init /\ [][Next]_vars

-----------------------------------------------------------------------------
(* Properties. *)

Reported == {n \in Tasks : reports[n] # NoReport}
Own(n, i) == reports[n].steps[i].status = "completed" /\ reports[n].steps[i].expert = Types[i]

\* A task reports on the order it was asked about, though it may run in the session of
\* another task that got the same plan.
ReportOnOrderAsked == \A n \in Reported : asked[reports[n].session] = asked[n]

\* What the operation agent advises fits the payment and the risk of the order asked
\* about whenever those steps were completed by their own experts: no other session's
\* facts get in.
AdviceMatchesOrder ==
    \A n \in Reported :
        (\A i \in {2, 3, 5} : Own(n, i)) =>
            LET r == rows[asked[n]]
            IN  reports[n].steps[5].says = Advice(RiskOf(r), Primary(r).status)

\* A high-risk order is decided without approval only for the code of its payment, or
\* because the risk expert did not answer.
HighRiskUnreviewed ==
    \A n \in Reported :
        LET r == rows[asked[n]]
        IN  RiskOf(r) = "high" /\ ~reports[n].decision.approval =>
                \/ Primary(r).code \in DOMAIN Rules /\ ~Rules[Primary(r).code].approval
                \/ ~Own(n, 3)

Overwritten(n) == \E m \in Tasks \ {n} : request[m].status # "none" /\ request[m].id = request[n].id

\* Popped by auto_resolve_pending, approve or reject, its status still to be written.
Taken(n) ==
    \/ \E w \in Workers : work[w].at = "approve" /\ work[w].held = n
    \/ \E h \in inHand : h.task = n /\ h.verdict # "escalated"

\* No task reports with its request PENDING, unless somebody has popped it and is about to
\* settle it, or one submitted at the same time took its id.  What is still filed while
\* nobody works was left by a task that died, or somebody escalated it.
RequestsSettled ==
    /\ \A n \in Reported :
        reports[n].decision.approval =>
            request[n].status \in Verdicts \/ Taken(n) \/ Overwritten(n)
    /\ (\A w \in Workers : work[w] = Idle) =>
        \A i \in DOMAIN pending :
            pending[i] # 0 => pending[i] \in died \/ request[pending[i]].status = "escalated"
=============================================================================
