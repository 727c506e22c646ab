-------------------------- MODULE DiagnosisProofs ---------------------------
(* Proofs about Diagnosis for every set of orders and workers, every content  *)
(* of the tables, every roster and every bound.  A plan that tasks share is   *)
(* only ever stamped by tasks of its order, so the session they run in, its   *)
(* facts and the results of the steps are all about that order; and a request *)
(* is listed by its own task before that task reports.                        *)
EXTENDS Diagnosis, TLAPS, SequenceTheorems, FiniteSetTheorems

Begun == 1..Len(asked)
Busy == {w \in Workers : work[w].at # "idle"}
AtEndLabels == {"submitted", "list", "resolve", "approve"}
Stepping == {w \in Workers : work[w].at \in {"step"} \cup AtEndLabels}
Deciding == {w \in Workers : work[w].at \in AtEndLabels}

\* What an expert can answer, over all the rows there are.
AllRows == Cases \cup {NoRows}
Experts == {"order", "payment", "risk", "reconciliation", "operation"}
CodeValues == {None} \cup {Primary(r).code : r \in AllRows}
RiskValues == {None} \cup {RiskOf(r) : r \in AllRows}
PaymentValues == {None} \cup {Primary(r).status : r \in AllRows}
SaysValues ==
    {None} \cup {ExpertResult(t, r).says : t \in Experts \ {"operation"}, r \in AllRows}
        \cup {Advice(level, p) : level \in RiskValues, p \in PaymentValues}
StepResults ==
    [status : {"completed", "failed"}, expert : Experts, code : CodeValues, risk : RiskValues,
     says : SaysValues]

WithPlan == [at : {"planned"}, task : Tasks, plan : Tasks]
InSteps == [at : {"step"}, task : Tasks, session : Tasks, results : Seq(StepResults)]
AtEnd == [at : AtEndLabels, task : Tasks, session : Tasks, results : Seq(StepResults),
          listed : SUBSET Ids, held : Ids]
Works == {Idle} \cup WithPlan \cup InSteps \cup AtEnd

TypeOK ==
    /\ rows \in [Orders -> Cases] /\ agents \subseteq Experts
    /\ asked \in Seq(Orders) /\ Len(asked) <= MaxTasks
    /\ cached \in [Orders -> Ids] /\ stamped \in [Tasks -> Ids]
    /\ work \in [Workers -> Works]
    /\ \A w \in Stepping : Len(work[w].results) <= 5
    /\ facts \in [Tasks -> [Kinds -> Orders \cup {NoOrder}]]
    /\ now \in Nat
    /\ pending \in [Ids -> Ids]
    /\ request \in [Tasks -> [status : {"none", "pending", "approved", "rejected", "escalated"}, id : Ids]]
    /\ \A h \in inHand : h.task \in Tasks /\ h.verdict \in Verdicts
    /\ died \subseteq Tasks
    /\ reports = [n \in Tasks |-> reports[n]]

\* A task is run by one worker, before it has reported or died.
Tasked ==
    /\ \A w \in Busy : /\ work[w].task \in Begun
                       /\ reports[work[w].task] = NoReport
                       /\ work[w].task \notin died
    /\ \A v, w \in Busy : work[v].task = work[w].task => v = w
    /\ \A w \in Busy \ Deciding : request[work[w].task] = NoRequest
    /\ \A n \in Tasks \ Begun : reports[n] = NoReport /\ request[n] = NoRequest /\ n \notin died

\* A plan belongs to the order of the task that built it, and so does every session
\* stamped into it.
Planned ==
    /\ \A o \in Orders : cached[o] # 0 =>
        cached[o] \in Begun /\ asked[cached[o]] = o /\ stamped[cached[o]] # 0
    /\ \A p \in Tasks : stamped[p] # 0 =>
        p \in Begun /\ stamped[p] \in Begun /\ asked[stamped[p]] = asked[p]
    /\ \A w \in Workers : work[w].at = "planned" =>
        stamped[work[w].plan] # 0 /\ asked[work[w].plan] = asked[work[w].task]
    /\ \A w \in Stepping : work[w].session \in Begun /\ asked[work[w].session] = asked[work[w].task]
    /\ \A n \in Reported :
        n \in Begun /\ reports[n].session \in Begun /\ asked[reports[n].session] = asked[n]

\* The facts of a session, and the results of steps run in it, are about its order.
OwnStep(results, i) == results[i].status = "completed" /\ results[i].expert = Types[i]
OneFaithful(o, row, kept, results, i) ==
    /\ OwnStep(results, i) /\ i <= 4 => results[i] = Completed(ExpertResult(Types[i], row))
    /\ OwnStep(results, i) /\ i <= 3 => kept[Types[i]] = o
    /\ OwnStep(results, i) /\ i = 5 /\ OwnStep(results, 2) /\ OwnStep(results, 3) =>
        results[i].says = Advice(RiskOf(row), Primary(row).status)
    /\ i # 3 => results[i].risk = None
    /\ i # 3 /\ (i = 2 => ~OwnStep(results, i)) => results[i].code = None
FaithfulTo(o, row, kept, results) == \A i \in DOMAIN results : OneFaithful(o, row, kept, results, i)
Faithful(s, results) == FaithfulTo(asked[s], rows[asked[s]], facts[s], results)
Answered ==
    /\ \A s \in Tasks, d \in Kinds : facts[s][d] # NoOrder => s \in Begun /\ facts[s][d] = asked[s]
    /\ \A w \in Stepping : Faithful(work[w].session, work[w].results)
    /\ \A n \in Reported :
        /\ Faithful(reports[n].session, reports[n].steps)
        /\ reports[n].steps \in Seq(StepResults) /\ Len(reports[n].steps) = 5
        /\ reports[n].decision = Decide(reports[n].steps)

\* A request that waits is filed under its id, or somebody has popped it, or its id is taken;
\* while it is filed, its task is at work and has it on its list, or died.
Open(n) == request[n].status \in {"pending", "escalated"}
Waiting(n) == request[n].status = "pending"
Submitted == {n \in Tasks : request[n].status # "none"}
Filed ==
    /\ now <= Cardinality(Submitted)
    /\ \A i \in Ids, n \in Tasks : pending[i] = n => request[n].id = i /\ Open(n) /\ ~Taken(n)
    /\ \A n \in Tasks : Waiting(n) => pending[request[n].id] = n \/ Taken(n) \/ Overwritten(n)
    /\ \A w \in Workers : work[w].at = "approve" => work[w].held \in Submitted
    /\ \A h \in inHand : h.task \in Submitted
Followed ==
    /\ \A i \in Ids :
        \/ pending[i] \in {0} \cup died \cup {work[w].task : w \in Deciding}
        \/ ~Waiting(pending[i])
    /\ \A w \in Deciding :
        /\ Len(work[w].results) = 5
        /\ Decide(work[w].results).approval => work[w].task \in Submitted
        /\ work[w].at \in {"resolve", "approve"} /\ Waiting(work[w].task) =>
            \A i \in Ids : pending[i] = work[w].task => i \in work[w].listed
    /\ \A n \in Reported :
        /\ reports[n].decision.approval => n \in Submitted
        /\ Waiting(n) => \A i \in Ids : pending[i] # n

Requested == Filed /\ Followed

IInv == TypeOK /\ Tasked /\ Planned /\ Answered /\ Requested
-----------------------------------------------------------------------------
(* What a worker does, by where it is, and how its record changes. *)

LEMMA BoundFacts == MaxTasks \in Nat
BY BoundAssumption

\* Each label goes with one kind of record.
LEMMA WorkCases ==
    ASSUME TypeOK, NEW w \in Workers
    PROVE  /\ work[w].at \in {"idle", "planned", "step"} \cup AtEndLabels
           /\ work[w].at = "idle" <=> work[w] = Idle
           /\ work[w].at = "planned" => work[w] \in WithPlan
           /\ work[w].at = "step" => work[w] \in InSteps
           /\ work[w].at \in AtEndLabels => work[w] \in AtEnd
BY DEF TypeOK, Works, WithPlan, InSteps, AtEnd, AtEndLabels, Idle

\* The other workers go on with what they had.
Others(w) == \A v \in Workers \ {w} : work'[v] = work[v]
Becomes(w, r) == work' \in [Workers -> Works] /\ work'[w] = r /\ Others(w)

LEMMA OthersFacts ==
    ASSUME NEW w \in Workers, NEW r, Becomes(w, r)
    PROVE  /\ work' \in [Workers -> Works] /\ work'[w] = r
           /\ \A v \in Workers \ {w} : work'[v] = work[v]
           /\ \A v \in Busy' \ {w} : v \in Busy /\ work'[v] = work[v]
           /\ \A v \in Stepping' \ {w} : v \in Stepping /\ work'[v] = work[v]
           /\ \A v \in Deciding' \ {w} : v \in Deciding /\ work'[v] = work[v]
           /\ r.at \in {"idle", "planned", "step"} => w \notin Deciding'
           /\ r.at \in {"idle", "planned"} => w \notin Stepping'
           /\ r.at = "idle" => w \notin Busy'
BY DEF Becomes, Others, Busy, Stepping, Deciding, AtEndLabels

LEMMA Replaced ==
    ASSUME TypeOK, NEW w \in Workers, NEW r \in Works, work' = [work EXCEPT ![w] = r]
    PROVE  Becomes(w, r)
BY DEF TypeOK, Becomes, Others

LEMMA ExceptResults ==
    ASSUME NEW y \in InSteps, NEW e
    PROVE  [y EXCEPT !.results = e] = [at |-> "step", task |-> y.task, session |-> y.session, results |-> e]
<1>1. PICK a, b, c, d : y = [at |-> a, task |-> b, session |-> c, results |-> d] /\ a = "step"
  BY DEF InSteps
<1>2. QED
  BY <1>1

\* A step that is over adds its result and nothing else.
LEMMA DoneFacts ==
    ASSUME TypeOK, NEW w \in Workers, InStep(w), NEW r \in StepResults, Done(w, r)
    PROVE  /\ Becomes(w, [at |-> "step", task |-> work[w].task, session |-> work[w].session,
                          results |-> Append(work[w].results, r)])
           /\ Append(work[w].results, r) \in Seq(StepResults)
           /\ Len(Append(work[w].results, r)) = Len(work[w].results) + 1
           /\ Len(work[w].results) \in 0..4
<1> DEFINE x == [at |-> "step", task |-> work[w].task, session |-> work[w].session,
                 results |-> Append(work[w].results, r)]
<1>1. work[w] \in InSteps
  BY WorkCases DEF InStep
<1>2. work[w].results \in Seq(StepResults) /\ work[w].task \in Tasks /\ work[w].session \in Tasks
  BY <1>1 DEF InSteps
<1> HIDE DEF x
<1>3. /\ Append(work[w].results, r) \in Seq(StepResults)
      /\ Len(Append(work[w].results, r)) = Len(work[w].results) + 1
  BY <1>2, AppendProperties
<1>4. x \in InSteps
  BY <1>2, <1>3 DEF x, InSteps
<1>5. [work[w] EXCEPT !.results = Append(@, r)] = x
  BY <1>1, ExceptResults DEF x
<1>6. work' = [work EXCEPT ![w] = x]
  BY <1>5 DEF Done
<1>7. Becomes(w, x)
  BY <1>4, <1>6, Replaced DEF Works
<1>8. PICK n \in Nat : n = Len(work[w].results)
  BY <1>2, LenProperties
<1>9. Len(work[w].results) \in 0..4
  <2>1. Len(Types) = 5
    BY DEF Types
  <2>2. n < Len(Types)
    BY <1>8 DEF InStep
  <2>3. n \in 0..4
    BY <2>1, <2>2
  <2>4. QED
    BY <1>8, <2>3
<1>10. QED
  BY <1>3, <1>7, <1>9 DEF x

\* What an expert answers is a result.
LEMMA ExpertResults ==
    ASSUME NEW r \in AllRows
    PROVE  /\ \A t \in Experts \ {"operation"} : Completed(ExpertResult(t, r)) \in StepResults
           /\ \A t \in Experts : Failed(t) \in StepResults
           /\ \A level \in RiskValues, p \in PaymentValues :
                Completed(OperationResult(Advice(level, p))) \in StepResults
<1>1. ASSUME NEW t \in Experts \ {"operation"} PROVE Completed(ExpertResult(t, r)) \in StepResults
  <2>1. ExpertResult(t, r).says \in SaysValues
    BY <1>1 DEF SaysValues
  <2>2. /\ ExpertResult(t, r).code \in CodeValues /\ ExpertResult(t, r).risk \in RiskValues
        /\ ExpertResult(t, r).expert \in Experts
    BY <1>1 DEF ExpertResult, OrderResult, PaymentResult, RiskResult, ReconResult, Result,
                Experts, CodeValues, RiskValues
  <2>3. QED
    BY <2>1, <2>2 DEF Completed, StepResults
<1>2. ASSUME NEW t \in Experts PROVE Failed(t) \in StepResults
  BY <1>2 DEF Failed, StepResults, CodeValues, RiskValues, SaysValues
<1>3. ASSUME NEW level \in RiskValues, NEW p \in PaymentValues
      PROVE  Completed(OperationResult(Advice(level, p))) \in StepResults
  <2>1. Advice(level, p) \in SaysValues
    BY <1>3 DEF SaysValues
  <2>2. QED
    BY <2>1 DEF Completed, OperationResult, Result, StepResults, CodeValues, RiskValues, Experts
<1>4. QED
  BY <1>1, <1>2, <1>3

\* A new task is the next number; the plan is its own or the cached one.
PlanOf(o, fresh) == IF fresh THEN cached[o] ELSE Len(asked) + 1
LEMMA BeginFacts ==
    ASSUME TypeOK, NEW w \in Workers, NEW o \in Orders, NEW fresh \in BOOLEAN, Begin(w, o, fresh)
    PROVE  /\ Len(asked') = Len(asked) + 1 /\ Len(asked') \in Tasks \ Begun
           /\ Begun' = Begun \cup {Len(asked')}
           /\ asked' \in Seq(Orders)
           /\ \A i \in Begun : asked'[i] = asked[i]
           /\ asked'[Len(asked')] = o
           /\ PlanOf(o, fresh) \in Tasks
           /\ cached' = [cached EXCEPT ![o] = PlanOf(o, fresh)]
           /\ stamped' = [stamped EXCEPT ![PlanOf(o, fresh)] = Len(asked')]
           /\ Becomes(w, [at |-> "planned", task |-> Len(asked'), plan |-> PlanOf(o, fresh)])
<1> DEFINE n == Len(asked) + 1
           p == PlanOf(o, fresh)
<1>1. asked \in Seq(Orders) /\ Len(asked) \in Nat
  BY LenProperties DEF TypeOK
<1>2. n \in Tasks /\ asked' = Append(asked, o)
  BY DEF Begin
<1>3. /\ asked' \in Seq(Orders) /\ Len(asked') = n
      /\ \A i \in 1..Len(asked) : asked'[i] = asked[i]
      /\ asked'[n] = o
  BY <1>1, <1>2, AppendProperties
<1>4. Begun' = Begun \cup {n} /\ n \notin Begun
  BY <1>1, <1>3 DEF Begun
<1>5. p \in Tasks
  <2>1. CASE fresh
    BY <2>1, BoundFacts DEF PlanOf, Begin, CachedPlan, TypeOK, Ids, Tasks
  <2>2. CASE ~fresh
    BY <1>2, <2>2 DEF PlanOf
  <2>3. QED
    BY <2>1, <2>2
<1>6. work' = [work EXCEPT ![w] = [at |-> "planned", task |-> n, plan |-> p]]
  BY DEF Begin, PlanOf, CachedPlan
<1>7. [at |-> "planned", task |-> n, plan |-> p] \in Works
  BY <1>2, <1>5 DEF Works, WithPlan
<1>8. Becomes(w, [at |-> "planned", task |-> n, plan |-> p])
  BY <1>6, <1>7, Replaced
<1>9. cached' = [cached EXCEPT ![o] = p] /\ stamped' = [stamped EXCEPT ![p] = n]
  BY DEF Begin, PlanOf, CachedPlan
<1> HIDE DEF p
<1>10. QED
  BY <1>2, <1>3, <1>4, <1>5, <1>8, <1>9 DEF Begun, p

\* The session is the one stamped into the plan by then.
LEMMA ExecuteFacts ==
    ASSUME TypeOK, Planned, NEW w \in Workers, Execute(w)
    PROVE  /\ work[w] \in WithPlan /\ stamped[work[w].plan] \in Begun
           /\ Becomes(w, [at |-> "step", task |-> work[w].task,
                          session |-> stamped[work[w].plan], results |-> <<>>])
<1>1. work[w] \in WithPlan
  BY WorkCases DEF Execute
<1>2. stamped[work[w].plan] \in Begun
  BY <1>1 DEF Planned, Execute, WithPlan
<1>3. Begun \subseteq Tasks
  BY BoundFacts, LenProperties DEF Begun, Tasks, TypeOK
<1>4. [at |-> "step", task |-> work[w].task, session |-> stamped[work[w].plan], results |-> <<>>] \in Works
  BY <1>1, <1>2, <1>3, EmptySeq DEF WithPlan, Works, InSteps
<1>5. QED
  BY <1>1, <1>2, <1>4, Replaced DEF Execute

\* The order that a session is about has rows.
LEMMA OrderFacts ==
    ASSUME TypeOK, Planned, NEW w \in Workers, InStep(w)
    PROVE  /\ work[w] \in InSteps /\ work[w].session \in Begun
           /\ Begun \subseteq Tasks
           /\ Order(w) \in Orders /\ rows[Order(w)] \in AllRows
           /\ Step(w) \in Experts /\ Step(w) = Types[Len(work[w].results) + 1]
<1>1. work[w] \in InSteps /\ w \in Stepping
  BY WorkCases DEF InStep, Stepping, AtEndLabels
<1>2. work[w].session \in Begun
  BY <1>1 DEF Planned
<1>3. Len(asked) \in Nat /\ Begun \subseteq Tasks
  BY BoundFacts, LenProperties DEF Begun, Tasks, TypeOK
<1>4. Order(w) \in Orders
  BY <1>2, <1>3, ElementOfSeq DEF Begun, Order, TypeOK
<1>5. rows[Order(w)] \in AllRows
  BY <1>4 DEF TypeOK, AllRows
<1>6. PICK n \in Nat : n = Len(work[w].results)
  BY <1>1, LenProperties DEF InSteps
<1>7. Step(w) \in Experts
  <2>1. Len(Types) = 5 /\ n < Len(Types)
    BY <1>6 DEF Types, InStep
  <2>2. n + 1 \in 1..5
    BY <2>1
  <2>3. \A i \in 1..5 : Types[i] \in Experts
    BY DEF Types, Experts
  <2>4. QED
    BY <1>6, <2>2, <2>3 DEF Step
<1>8. QED
  BY <1>1, <1>2, <1>3, <1>4, <1>5, <1>7 DEF Step

\* The three ways through a step add a result.
TakeStep(w) == RunExpert(w) \/ ExpertFails(w) \/ Degrade(w)
Answers(w, r) ==
    \/ /\ RunExpert(w) /\ Step(w) # "operation"
       /\ r = Completed(ExpertResult(Step(w), rows[Order(w)]))
    \/ /\ RunExpert(w) /\ Step(w) = "operation"
       /\ r = Completed(OperationResult(Advice(RiskFact(work[w].session), PaymentFact(work[w].session))))
    \/ r = Failed(Step(w)) /\ facts' = facts
    \/ /\ Step(w) \in DOMAIN Fallback /\ facts' = facts
       /\ r = Completed(ExpertResult(Fallback[Step(w)], NoRows))

LEMMA StepFacts ==
    ASSUME TypeOK, Planned, NEW w \in Workers, TakeStep(w)
    PROVE  InStep(w) /\ \E r \in StepResults : Done(w, r) /\ Answers(w, r)
<1>1. InStep(w)
  BY DEF TakeStep, RunExpert, ExpertFails, Degrade
<1>2. /\ work[w] \in InSteps /\ work[w].session \in Tasks
      /\ rows[Order(w)] \in AllRows /\ Step(w) \in Experts
  BY <1>1, OrderFacts
<1>3. NoRows \in AllRows
  BY DEF AllRows
<1>4. CASE ExpertFails(w)
  <2>1. Failed(Step(w)) \in StepResults
    BY <1>2, <1>3, ExpertResults
  <2>2. QED
    BY <1>1, <1>4, <2>1 DEF ExpertFails, Answers
<1>5. CASE Degrade(w)
  <2>1. CASE HasFallback(Step(w))
    <3>1. Step(w) \in DOMAIN Fallback /\ Fallback[Step(w)] \in Experts \ {"operation"}
      BY <2>1 DEF HasFallback, Fallback, Experts
    <3>2. Completed(ExpertResult(Fallback[Step(w)], NoRows)) \in StepResults
      BY <1>3, <3>1, ExpertResults
    <3>3. QED
      BY <1>1, <1>5, <2>1, <3>1, <3>2 DEF Degrade, Answers
  <2>2. CASE ~HasFallback(Step(w))
    <3>1. Failed(Step(w)) \in StepResults
      BY <1>2, <1>3, ExpertResults
    <3>2. QED
      BY <1>1, <1>5, <2>2, <3>1 DEF Degrade, Answers
  <2>3. QED
    BY <2>1, <2>2
<1>6. CASE RunExpert(w)
  <2> DEFINE s == work[w].session
  <2>1. CASE Step(w) = "operation"
    <3>1. RiskFact(s) \in RiskValues
      BY <1>2 DEF RiskFact, RiskValues, FactOf, Key, TypeOK, Kinds, AllRows
    <3>2. PaymentFact(s) \in PaymentValues
      BY <1>2 DEF PaymentFact, PaymentValues, FactOf, Key, TypeOK, Kinds, AllRows
    <3>3. Completed(OperationResult(Advice(RiskFact(s), PaymentFact(s)))) \in StepResults
      BY <1>3, <3>1, <3>2, ExpertResults
    <3>4. QED
      BY <1>1, <1>6, <2>1, <3>3 DEF RunExpert, Answers
  <2>2. CASE Step(w) # "operation"
    <3>1. Completed(ExpertResult(Step(w), rows[Order(w)])) \in StepResults
      BY <1>2, <2>2, ExpertResults
    <3>2. QED
      BY <1>1, <1>6, <2>2, <3>1 DEF RunExpert, Answers
  <2>3. QED
    BY <2>1, <2>2
<1>7. QED
  BY <1>4, <1>5, <1>6 DEF TakeStep

\* The record of a worker that has submitted.
Ended(x, label, ids, m) ==
    [at |-> label, task |-> x.task, session |-> x.session, results |-> x.results, listed |-> ids,
     held |-> m]

LEMMA EndedType ==
    ASSUME NEW x \in InSteps \cup AtEnd, NEW label \in AtEndLabels, NEW ids \in SUBSET Ids, NEW m \in Ids
    PROVE  Ended(x, label, ids, m) \in AtEnd
BY DEF InSteps, AtEnd, Ended

\* The decision is taken on all the results, and the request gets the present id.
Decision(w) == Decide(work[w].results)
Waits(w) == Decision(w).approval /\ WaitsForApproval(Decision(w).risk)
LEMMA SubmitFacts ==
    ASSUME TypeOK, NEW w \in Workers, Submit(w)
    PROVE  /\ work[w] \in InSteps /\ Len(work[w].results) = 5
           /\ Becomes(w, Ended(work[w], "submitted", {}, 0))
<1>1. work[w] \in InSteps
  BY WorkCases DEF Submit
<1>2. Len(work[w].results) = 5
  BY DEF Submit, Types
<1> DEFINE x == Ended(work[w], "submitted", {}, 0)
<1>3. x \in Works
  <2>1. {} \in SUBSET Ids /\ 0 \in Ids /\ "submitted" \in AtEndLabels
    BY BoundFacts DEF Ids, AtEndLabels
  <2>2. QED
    BY <1>1, <2>1, EndedType DEF Works
<1>4. work' = [work EXCEPT ![w] = x]
  BY DEF Submit, Goes, Ended
<1>5. QED
  BY <1>1, <1>2, <1>3, <1>4, Replaced

\* A nonempty set of naturals has a least element.  The sets 0..(n - 1) stand for the
\* numbers, because finite sets are well founded under strict inclusion.
LEMMA NatMin ==
    ASSUME NEW S \in SUBSET Nat, S # {}
    PROVE  \E m \in S : \A n \in S : m <= n
<1> DEFINE R == StrictSubsetOrdering(Nat)
           Below == {0..(n - 1) : n \in S}
<1>1. IsWellFoundedOn(R, FiniteSubsetsOf(Nat))
  BY FS_StrictSubsetOrderingWellFounded
<1>2. Below \subseteq FiniteSubsetsOf(Nat)
  <2> SUFFICES ASSUME NEW n \in S PROVE 0..(n - 1) \in FiniteSubsetsOf(Nat)
    OBVIOUS
  <2>1. n \in Nat
    OBVIOUS
  <2>2. IsFiniteSet(0..(n - 1))
    BY <2>1, FS_Interval
  <2>3. QED
    BY <2>1, <2>2 DEF FiniteSubsetsOf
<1>3. PICK X \in Below : \A Y \in Below : <<Y, X>> \notin R
  <2> HIDE DEF R, Below
  <2>1. Below # {}
    BY DEF Below
  <2>2. QED
    BY <1>1, <1>2, <2>1, WFMin
<1>4. PICK m \in S : X = 0..(m - 1)
  OBVIOUS
<1>5. ASSUME NEW n \in S, n < m PROVE FALSE
  <2>1. m \in Nat /\ n \in Nat
    OBVIOUS
  <2>2. 0..(n - 1) \subseteq 0..(m - 1)
    BY <1>5, <2>1
  <2>3. n \in 0..(m - 1) /\ n \notin 0..(n - 1)
    BY <1>5, <2>1
  <2>4. <<0..(n - 1), 0..(m - 1)>> \in R
    BY <2>1, <2>2, <2>3 DEF StrictSubsetOrdering
  <2>5. QED
    BY <1>3, <1>4, <2>4
<1>6. QED
  BY <1>5

\* The next id to resolve is one of those listed.
LEMMA OldestFacts ==
    ASSUME NEW ids \in SUBSET Ids, ids # {}
    PROVE  Oldest(ids) \in ids
<1>1. ids \in SUBSET Nat
  BY BoundFacts DEF Ids
<1>2. \E i \in ids : \A j \in ids : i <= j
  BY <1>1, NatMin
<1>3. QED
  BY <1>2 DEF Oldest

\* On the way to its report a worker changes what it is at, its list and what it has popped.
Resolves(w) == TestStatus(w) \/ ListPending(w) \/ PopOne(w) \/ ApproveOne(w)
ResolvedTo(w, x) ==
    \/ /\ TestStatus(w) /\ work[w].at = "submitted"
       /\ x = Ended(work[w], IF request[work[w].task].status = "pending" THEN "list" ELSE "resolve", {}, 0)
    \/ /\ ListPending(w) /\ work[w].at = "list"
       /\ x = Ended(work[w], "resolve", PendingIds, 0)
    \/ \E i \in Ids :
          /\ PopOne(w) /\ work[w].at = "resolve" /\ i = Oldest(work[w].listed) /\ i \in work[w].listed
          /\ pending[i] \in Tasks
          /\ x = Ended(work[w], "approve", work[w].listed \ {i}, pending[i])
    \/ /\ ApproveOne(w) /\ work[w].at = "approve"
       /\ x = Ended(work[w], "resolve", work[w].listed, 0)

LEMMA ResolveFacts ==
    ASSUME TypeOK, NEW w \in Workers, Resolves(w)
    PROVE  work[w] \in AtEnd /\ \E x \in AtEnd : ResolvedTo(w, x) /\ Becomes(w, x)
<1>1. work[w] \in AtEnd /\ work[w].at \in AtEndLabels
  BY WorkCases DEF Resolves, TestStatus, ListPending, PopOne, ApproveOne, AtEndLabels
<1>2. work[w].listed \in SUBSET Ids /\ work[w].held \in Ids /\ PendingIds \in SUBSET Ids /\ 0 \in Ids
  BY <1>1, BoundFacts DEF AtEnd, PendingIds, TypeOK, Ids
<1>3. {"list", "resolve", "approve"} \subseteq AtEndLabels
  BY DEF AtEndLabels
<1>4. ASSUME NEW x \in AtEnd, work' = [work EXCEPT ![w] = x] PROVE Becomes(w, x)
  BY <1>4, Replaced DEF Works
<1>5. CASE TestStatus(w)
  <2> DEFINE x == Ended(work[w], IF request[work[w].task].status = "pending" THEN "list" ELSE "resolve",
                        {}, 0)
  <2>1. x \in AtEnd
    BY <1>1, <1>2, <1>3, EndedType
  <2>2. work' = [work EXCEPT ![w] = x]
    BY <1>5 DEF TestStatus, Goes, Ended
  <2>3. ResolvedTo(w, x)
    BY <1>5 DEF TestStatus, ResolvedTo
  <2>4. QED
    BY <1>1, <1>4, <2>1, <2>2, <2>3
<1>6. CASE ListPending(w)
  <2> DEFINE x == Ended(work[w], "resolve", PendingIds, 0)
  <2>1. x \in AtEnd
    BY <1>1, <1>2, <1>3, EndedType
  <2>2. work' = [work EXCEPT ![w] = x]
    BY <1>6 DEF ListPending, Goes, Ended
  <2>3. ResolvedTo(w, x)
    BY <1>6 DEF ListPending, ResolvedTo
  <2>4. QED
    BY <1>1, <1>4, <2>1, <2>2, <2>3
<1>7. CASE PopOne(w)
  <2> DEFINE i == Oldest(work[w].listed)
             x == Ended(work[w], "approve", work[w].listed \ {i}, pending[i])
  <2>1. i \in work[w].listed /\ i \in Ids
    BY <1>2, <1>7, OldestFacts DEF PopOne
  <2>2. pending[i] \in Tasks /\ pending[i] \in Ids
    BY <1>7, <2>1, BoundFacts DEF PopOne, TypeOK, Ids, Tasks
  <2>3. work' = [work EXCEPT ![w] = x]
    BY <1>7 DEF PopOne, Goes, Ended
  <2>4. ResolvedTo(w, x)
    <3>1. work[w].at = "resolve"
      BY <1>7 DEF PopOne
    <3>2. QED
      BY <1>7, <2>1, <2>2, <3>1 DEF ResolvedTo
  <2> HIDE DEF i
  <2>5. x \in AtEnd
    BY <1>1, <1>2, <1>3, <2>2, EndedType
  <2>6. QED
    BY <1>1, <1>4, <2>3, <2>4, <2>5
<1>8. CASE ApproveOne(w)
  <2> DEFINE x == Ended(work[w], "resolve", work[w].listed, 0)
  <2>1. x \in AtEnd
    BY <1>1, <1>2, <1>3, EndedType
  <2>2. work' = [work EXCEPT ![w] = x]
    BY <1>8 DEF ApproveOne, Goes, Ended
  <2>3. ResolvedTo(w, x)
    BY <1>8 DEF ApproveOne, ResolvedTo
  <2>4. QED
    BY <1>1, <1>4, <2>1, <2>2, <2>3
<1>9. QED
  BY <1>5, <1>6, <1>7, <1>8 DEF Resolves

\* A task that reports or dies frees its worker.
LEMMA LeaveFacts ==
    ASSUME TypeOK, NEW w \in Workers, ResolveRaises(w) \/ Report(w)
    PROVE  work[w] \in AtEnd /\ work[w].at = "resolve" /\ Becomes(w, Idle)
<1>1. work[w] \in AtEnd /\ work[w].at = "resolve"
  BY WorkCases DEF ResolveRaises, Report, AtEndLabels
<1>2. work' = [work EXCEPT ![w] = Idle]
  BY DEF ResolveRaises, Report, Caught
<1>3. QED
  BY <1>1, <1>2, Replaced DEF Works

\* What it leaves, if anything, is the report on its own task.
LEMMA ReportFacts ==
    ASSUME TypeOK, NEW w \in Workers, ResolveRaises(w) \/ Report(w)
    PROVE  /\ work[w].task \in Tasks
           /\ reports' = [n \in Tasks |-> reports'[n]]
           /\ \A n \in Tasks \ {work[w].task} : reports'[n] = reports[n]
           /\ ResolveRaises(w) => reports' = reports
           /\ Report(w) => reports'[work[w].task] =
                [session |-> work[w].session, decision |-> Decide(work[w].results),
                 steps |-> work[w].results,
                 success |-> \A i \in DOMAIN work[w].results : work[w].results[i].status = "completed"]
<1> DEFINE r == [session |-> work[w].session, decision |-> Decide(work[w].results),
                 steps |-> work[w].results,
                 success |-> \A i \in DOMAIN work[w].results : work[w].results[i].status = "completed"]
           t == work[w].task
<1>1. t \in Tasks
  BY LeaveFacts DEF AtEnd
<1>2. CASE ResolveRaises(w)
  <2>1. reports' = reports /\ ~Report(w)
    BY <1>2 DEF ResolveRaises, Report
  <2>2. QED
    BY <1>1, <2>1 DEF TypeOK
<1>3. CASE Report(w)
  <2>1. reports' = [reports EXCEPT ![t] = r] /\ ~ResolveRaises(w)
    BY <1>3 DEF ResolveRaises, Report
  <2> HIDE DEF r, t
  <2>2. /\ DOMAIN reports = Tasks /\ DOMAIN reports' = Tasks
        /\ reports' = [n \in Tasks |-> reports'[n]]
    BY <2>1 DEF TypeOK
  <2>3. reports'[t] = r /\ \A n \in Tasks \ {t} : reports'[n] = reports[n]
    BY <1>1, <2>1, <2>2
  <2>4. QED
    BY <1>1, <2>1, <2>2, <2>3 DEF r, t
<1>4. QED
  BY <1>2, <1>3
-----------------------------------------------------------------------------
(* Types. *)

Statuses == {"none", "pending", "approved", "rejected", "escalated"}
Request == [status : Statuses, id : Ids]

\* The clock of the approvals moves only with a submission, of which each task makes one.
LEMMA NowFacts ==
    ASSUME TypeOK, Tasked, Requested, NEW w \in Workers, Submit(w)
    PROVE  /\ work[w].task \in Tasks /\ request[work[w].task] = NoRequest
           /\ now' \in Ids /\ now' <= Cardinality(Submitted')
<1> DEFINE n == work[w].task
<1>1. work[w] \in InSteps /\ n \in Tasks /\ w \in Busy \ Deciding
  BY SubmitFacts DEF InSteps, Busy, Deciding, AtEndLabels
<1>2. request[n] = NoRequest /\ n \notin Submitted
  BY <1>1 DEF Tasked, Submitted, NoRequest
<1>3. /\ IsFiniteSet(Tasks) /\ Cardinality(Tasks) = MaxTasks
      /\ \A S \in SUBSET Tasks : IsFiniteSet(S) /\ Cardinality(S) \in Nat /\ Cardinality(S) <= MaxTasks
  <2>1. IsFiniteSet(Tasks) /\ Cardinality(Tasks) = MaxTasks
    BY BoundFacts, FS_Interval DEF Tasks
  <2>2. QED
    BY <2>1, FS_Subset, FS_CardinalityType
<1>4. Submitted \in SUBSET Tasks /\ Submitted' \in SUBSET Tasks
  BY DEF Submitted
<1>5. CASE Decision(w).approval
  <2>1. now' \in {now, now + 1}
    BY <1>5 DEF Submit, Decision
  <2>2. request' = [request EXCEPT ![n] = [status |-> IF Waits(w) THEN "pending" ELSE "approved", id |-> now']]
    BY <1>5 DEF Submit, Decision, Waits
  <2>3. Submitted' = Submitted \cup {n}
    BY <1>1, <2>2 DEF Submitted, TypeOK
  <2>4. Cardinality(Submitted') = Cardinality(Submitted) + 1
    BY <1>2, <1>3, <1>4, <2>3, FS_AddElement
  <2>5. Cardinality(Submitted) \in Nat /\ Cardinality(Submitted') <= MaxTasks
    BY <1>3, <1>4
  <2>6. now' \in Nat /\ now' <= Cardinality(Submitted')
    BY <2>1, <2>4, <2>5 DEF Requested, Filed, Followed, TypeOK
  <2>7. now' \in Ids
    BY <2>4, <2>5, <2>6, BoundFacts DEF Ids
  <2>8. QED
    BY <1>1, <1>2, <2>6, <2>7
<1>6. CASE ~Decision(w).approval
  <2>1. now' = now /\ request' = request
    BY <1>6 DEF Submit, Decision
  <2>2. Submitted' = Submitted
    BY <2>1 DEF Submitted
  <2>3. Cardinality(Submitted) \in Nat /\ Cardinality(Submitted) <= MaxTasks
    BY <1>3, <1>4
  <2>4. now' \in Ids /\ now' <= Cardinality(Submitted')
    BY <2>1, <2>2, <2>3, BoundFacts DEF Requested, Filed, Followed, TypeOK, Ids
  <2>5. QED
    BY <1>1, <1>2, <2>4
<1>7. QED
  BY <1>5, <1>6

\* A status is written for a task.
LEMMA StatusFacts ==
    ASSUME TypeOK, NEW m \in Tasks, NEW st \in Statuses, request' = [request EXCEPT ![m].status = st]
    PROVE  /\ request' \in [Tasks -> Request]
           /\ request'[m] = [status |-> st, id |-> request[m].id]
           /\ \A n \in Tasks \ {m} : request'[n] = request[n]
<1>1. request \in [Tasks -> Request]
  BY DEF TypeOK, Request, Statuses
<1>2. [request[m] EXCEPT !.status = st] = [status |-> st, id |-> request[m].id]
  BY <1>1 DEF Request
<1>3. QED
  BY <1>1, <1>2 DEF Request

\* Every step keeps the types.
LEMMA TypeStep ==
    ASSUME TypeOK, Tasked, Planned, Requested, [Next]_vars
    PROVE  TypeOK'
<1> USE BoundFacts DEF engine
<1>1. ASSUME NEW w \in Workers, NEW o \in Orders, NEW fresh \in BOOLEAN, Begin(w, o, fresh)
      PROVE  TypeOK'
  <2>1. /\ asked' \in Seq(Orders) /\ PlanOf(o, fresh) \in Tasks /\ Len(asked') \in Tasks
        /\ cached' = [cached EXCEPT ![o] = PlanOf(o, fresh)]
        /\ stamped' = [stamped EXCEPT ![PlanOf(o, fresh)] = Len(asked')]
        /\ Becomes(w, [at |-> "planned", task |-> Len(asked'), plan |-> PlanOf(o, fresh)])
    BY <1>1, BeginFacts
  <2>2. work' \in [Workers -> Works] /\ \A v \in Stepping' : v \in Stepping /\ work'[v] = work[v]
    BY <2>1, OthersFacts
  <2>3. Len(asked') <= MaxTasks /\ Len(asked') \in Ids /\ PlanOf(o, fresh) \in Ids
    BY <2>1 DEF Tasks, Ids
  <2>4. cached' \in [Orders -> Ids] /\ stamped' \in [Tasks -> Ids]
    BY <2>1, <2>3 DEF TypeOK
  <2>5. UNCHANGED <<rows, agents, facts, engine, died, reports>>
    BY <1>1 DEF Begin
  <2>6. QED
    BY <2>1, <2>2, <2>3, <2>4, <2>5 DEF TypeOK
<1>2. ASSUME NEW w \in Workers, Execute(w) PROVE TypeOK'
  <2> DEFINE x == [at |-> "step", task |-> work[w].task, session |-> stamped[work[w].plan], results |-> <<>>]
  <2>1. Becomes(w, x)
    BY <1>2, ExecuteFacts
  <2>2. /\ work' \in [Workers -> Works] /\ work'[w] = x
        /\ \A v \in Stepping' \ {w} : v \in Stepping /\ work'[v] = work[v]
    BY <2>1, OthersFacts
  <2>3. Len(work'[w].results) <= 5
    BY <2>2
  <2>4. QED
    BY <1>2, <2>2, <2>3 DEF Execute, TypeOK
<1>3. ASSUME NEW w \in Workers, TakeStep(w) PROVE TypeOK'
  <2>1. PICK r \in StepResults : InStep(w) /\ Done(w, r)
    BY <1>3, StepFacts
  <2> DEFINE x == [at |-> "step", task |-> work[w].task, session |-> work[w].session,
                   results |-> Append(work[w].results, r)]
  <2>2. Becomes(w, x) /\ Len(x.results) <= 5
    <3>1. /\ Becomes(w, x) /\ Len(work[w].results) \in 0..4
          /\ Len(Append(work[w].results, r)) = Len(work[w].results) + 1
      BY <2>1, DoneFacts
    <3>2. Len(Append(work[w].results, r)) <= 5
      <4>1. PICK n \in 0..4 : n = Len(work[w].results)
        BY <3>1
      <4>2. QED
        BY <3>1, <4>1
    <3>3. QED
      BY <3>1, <3>2
  <2>3. /\ work' \in [Workers -> Works] /\ work'[w] = x
        /\ \A v \in Stepping' \ {w} : v \in Stepping /\ work'[v] = work[v]
    <3> HIDE DEF x
    <3>1. QED
      BY <2>2, OthersFacts
  <2>4. facts' \in [Tasks -> [Kinds -> Orders \cup {NoOrder}]]
    <3>1. CASE RunExpert(w) /\ Step(w) \in Kinds
      <4>1. Order(w) \in Orders /\ work[w].session \in Tasks
        BY <2>1, OrderFacts
      <4>2. facts' = [facts EXCEPT ![work[w].session][Step(w)] = Order(w)]
        BY <3>1 DEF RunExpert, Key
      <4>3. QED
        BY <3>1, <4>1, <4>2 DEF TypeOK
    <3>2. CASE ~(RunExpert(w) /\ Step(w) \in Kinds)
      BY <1>3, <3>2 DEF TakeStep, RunExpert, ExpertFails, Degrade, TypeOK
    <3>3. QED
      BY <3>1, <3>2
  <2>5. UNCHANGED <<rows, agents, asked, cached, stamped, engine, died, reports>>
    BY <1>3 DEF TakeStep, RunExpert, ExpertFails, Degrade
  <2>6. \A v \in Stepping' : Len(work'[v].results) <= 5
    <3> HIDE DEF x
    <3>1. QED
      BY <2>2, <2>3 DEF TypeOK
  <2>7. QED
    BY <2>3, <2>4, <2>5, <2>6 DEF TypeOK
<1>4. ASSUME NEW w \in Workers, Submit(w) PROVE TypeOK'
  <2> DEFINE x == Ended(work[w], "submitted", {}, 0)
  <2>1. Becomes(w, x) /\ x.results = work[w].results /\ Len(work[w].results) = 5
    BY <1>4, SubmitFacts DEF Ended
  <2>2. now' \in Ids /\ work[w].task \in Tasks
    BY <1>4, NowFacts
  <2> HIDE DEF x
  <2>3. /\ work' \in [Workers -> Works] /\ work'[w] = x
        /\ \A v \in Stepping' \ {w} : v \in Stepping /\ work'[v] = work[v]
    BY <2>1, OthersFacts
  <2>4. \A v \in Stepping' : Len(work'[v].results) <= 5
    <3>1. Len(work'[w].results) = 5
      BY <2>1, <2>3
    <3>2. Len(work'[w].results) <= 5
      BY <3>1
    <3>3. QED
      BY <2>3, <3>2 DEF TypeOK
  <2>5. pending' \in [Ids -> Ids] /\ now' \in Nat
    <3>1. work[w].task \in Ids
      BY <2>2 DEF Tasks, Ids
    <3>2. pending' = [pending EXCEPT ![now'] = work[w].task] \/ pending' = pending
      BY <1>4 DEF Submit
    <3>3. now' \in Nat
      BY <2>2 DEF Ids
    <3>4. QED
      BY <2>2, <3>1, <3>2, <3>3 DEF TypeOK
  <2>6. request' \in [Tasks -> Request]
    <3>1. \A st \in {"pending", "approved"} : [status |-> st, id |-> now'] \in Request
      BY <2>2 DEF Request, Statuses
    <3>2. \/ request' = request
          \/ \E st \in {"pending", "approved"} :
                request' = [request EXCEPT ![work[w].task] = [status |-> st, id |-> now']]
      BY <1>4 DEF Submit
    <3>3. request \in [Tasks -> Request]
      BY DEF TypeOK, Request, Statuses
    <3>4. QED
      BY <2>2, <3>1, <3>2, <3>3
  <2>7. UNCHANGED <<rows, agents, asked, cached, stamped, facts, inHand, died, reports>>
    BY <1>4 DEF Submit
  <2>8. QED
    BY <2>3, <2>4, <2>5, <2>6, <2>7 DEF TypeOK, Request, Statuses
<1>5. ASSUME NEW w \in Workers, Resolves(w) PROVE TypeOK'
  <2>1. PICK x \in AtEnd : ResolvedTo(w, x) /\ Becomes(w, x) /\ work[w] \in AtEnd
    BY <1>5, ResolveFacts
  <2>2. x.results = work[w].results /\ w \in Stepping
    BY <2>1 DEF ResolvedTo, Ended, Stepping, AtEndLabels
  <2>3. /\ work' \in [Workers -> Works] /\ work'[w] = x
        /\ \A v \in Stepping' \ {w} : v \in Stepping /\ work'[v] = work[v]
    BY <2>1, OthersFacts
  <2>4. \A v \in Stepping' : Len(work'[v].results) <= 5
    BY <2>2, <2>3 DEF TypeOK
  <2>5. UNCHANGED <<rows, agents, asked, cached, stamped, facts, now, inHand, died, reports>>
    BY <1>5 DEF Resolves, TestStatus, ListPending, PopOne, ApproveOne
  <2>6. pending' \in [Ids -> Ids]
    <3>1. pending' = pending \/ \E i : pending' = [pending EXCEPT ![i] = 0]
      BY <1>5 DEF Resolves, TestStatus, ListPending, PopOne, ApproveOne
    <3>2. 0 \in Ids
      BY DEF Ids
    <3>3. QED
      BY <3>1, <3>2 DEF TypeOK
  <2>7. request' \in [Tasks -> Request]
    <3>1. CASE ApproveOne(w)
      <4>1. work[w].held \in Tasks
        BY <3>1 DEF ApproveOne, Requested, Filed, Submitted
      <4>2. request' = [request EXCEPT ![work[w].held].status = "approved"] /\ "approved" \in Statuses
        BY <3>1 DEF ApproveOne, Statuses
      <4>3. QED
        BY <4>1, <4>2, StatusFacts
    <3>2. CASE ~ApproveOne(w)
      BY <1>5, <3>2 DEF Resolves, TestStatus, ListPending, PopOne, TypeOK, Request, Statuses
    <3>3. QED
      BY <3>1, <3>2
  <2>8. QED
    BY <2>3, <2>4, <2>5, <2>6, <2>7 DEF TypeOK, Request, Statuses
<1>7. ASSUME NEW w \in Workers, ResolveRaises(w) \/ Report(w) PROVE TypeOK'
  <2>1. Becomes(w, Idle) /\ work[w].task \in Tasks
    BY <1>7, LeaveFacts DEF AtEnd
  <2>2. work' \in [Workers -> Works] /\ \A v \in Stepping' : v \in Stepping /\ work'[v] = work[v]
    BY <2>1, OthersFacts DEF Idle
  <2>3. reports' = [n \in Tasks |-> reports'[n]]
    BY <1>7, ReportFacts
  <2>4. UNCHANGED <<rows, agents, asked, cached, stamped, facts, engine>> /\ died' \subseteq Tasks
    BY <1>7, <2>1 DEF ResolveRaises, Caught, Report, TypeOK
  <2>5. QED
    BY <2>2, <2>3, <2>4 DEF TypeOK
<1>8. ASSUME NEW i \in Ids, NEW verdict \in Verdicts, TakeUp(i, verdict) PROVE TypeOK'
  <2>1. pending' \in [Ids -> Ids] /\ pending[i] \in Tasks
    BY <1>8 DEF TakeUp, TypeOK, Ids, Tasks
  <2>2. \A h \in inHand' : h.task \in Tasks /\ h.verdict \in Verdicts
    BY <1>8, <2>1 DEF TakeUp, TypeOK
  <2>3. QED
    BY <1>8, <2>1, <2>2 DEF TakeUp, TypeOK, Stepping
<1>9. ASSUME NEW h \in inHand, Settle(h) PROVE TypeOK'
  <2>1. h.task \in Tasks /\ h.verdict \in Statuses
    BY DEF TypeOK, Verdicts, Statuses
  <2>2. request' \in [Tasks -> Request]
    BY <1>9, <2>1, StatusFacts DEF Settle
  <2>3. QED
    BY <1>9, <2>2 DEF Settle, TypeOK, Stepping, Request, Statuses
<1>10. CASE UNCHANGED vars
  BY <1>10 DEF vars, TypeOK, Stepping
<1>11. QED
  BY <1>1, <1>2, <1>3, <1>4, <1>5, <1>7, <1>8, <1>9, <1>10 DEF Next, TakeStep, Resolves

-----------------------------------------------------------------------------
(* Who is at work, where and for which task, after each action. *)

SameTasks == \A v \in Workers : work'[v].task = work[v].task
SameSessions == SameTasks /\ \A v \in Workers : work'[v].session = work[v].session
SameResults == SameSessions /\ \A v \in Workers : work'[v].results = work[v].results

LEMMA BeginMove ==
    ASSUME TypeOK, NEW w \in Workers, NEW o \in Orders, NEW fresh \in BOOLEAN, Begin(w, o, fresh)
    PROVE  /\ w \notin Busy /\ Busy' = Busy \cup {w} /\ Stepping' = Stepping /\ Deciding' = Deciding
           /\ work'[w] = [at |-> "planned", task |-> Len(asked'), plan |-> PlanOf(o, fresh)]
           /\ \A v \in Workers \ {w} : work'[v] = work[v]
<1> DEFINE x == [at |-> "planned", task |-> Len(asked'), plan |-> PlanOf(o, fresh)]
<1>1. Becomes(w, x) /\ x.at = "planned"
  BY BeginFacts
<1>2. work[w] = Idle
  BY DEF Begin
<1> HIDE DEF x
<1>3. work'[w] = x /\ \A v \in Workers \ {w} : work'[v] = work[v]
  BY <1>1, OthersFacts
<1>4. QED
  BY <1>1, <1>2, <1>3 DEF Busy, Stepping, Deciding, Idle, x, AtEndLabels

LEMMA ExecuteMove ==
    ASSUME TypeOK, Planned, NEW w \in Workers, Execute(w)
    PROVE  /\ Busy' = Busy /\ Stepping' = Stepping \cup {w} /\ Deciding' = Deciding
           /\ w \in Busy \ Deciding /\ w \notin Stepping /\ SameTasks
           /\ work'[w].at = "step" /\ work'[w].results = <<>>
           /\ work'[w].session = stamped[work[w].plan]
           /\ \A v \in Workers \ {w} : work'[v] = work[v]
<1> DEFINE x == [at |-> "step", task |-> work[w].task, session |-> stamped[work[w].plan], results |-> <<>>]
<1>1. Becomes(w, x) /\ x.at = "step" /\ x.task = work[w].task
  BY ExecuteFacts
<1>2. work[w].at = "planned"
  BY DEF Execute
<1> HIDE DEF x
<1>3. work'[w] = x /\ \A v \in Workers \ {w} : work'[v] = work[v]
  BY <1>1, OthersFacts
<1>4. /\ Busy' = Busy /\ Stepping' = Stepping \cup {w} /\ Deciding' = Deciding
      /\ w \in Busy \ Deciding /\ w \notin Stepping
  BY <1>1, <1>2, <1>3 DEF Busy, Stepping, Deciding, AtEndLabels
<1>5. SameTasks
  BY <1>1, <1>3 DEF SameTasks
<1>6. QED
  BY <1>3, <1>4, <1>5 DEF x

LEMMA StepMove ==
    ASSUME TypeOK, Planned, NEW w \in Workers, TakeStep(w), NEW r \in StepResults, Done(w, r)
    PROVE  /\ Busy' = Busy /\ Stepping' = Stepping /\ Deciding' = Deciding
           /\ w \in Busy \ Deciding /\ w \in Stepping /\ SameSessions
           /\ work'[w].results = Append(work[w].results, r)
           /\ \A v \in Workers \ {w} : work'[v] = work[v]
<1> DEFINE x == [at |-> "step", task |-> work[w].task, session |-> work[w].session,
                 results |-> Append(work[w].results, r)]
<1>1. InStep(w)
  BY StepFacts
<1>2. /\ Becomes(w, x) /\ x.at = "step" /\ x.task = work[w].task /\ x.session = work[w].session
      /\ x.results = Append(work[w].results, r)
  BY <1>1, DoneFacts
<1>3. work[w].at = "step"
  BY <1>1 DEF InStep
<1> HIDE DEF x
<1>4. work'[w] = x /\ \A v \in Workers \ {w} : work'[v] = work[v]
  BY <1>2, OthersFacts
<1>5. /\ Busy' = Busy /\ Stepping' = Stepping /\ Deciding' = Deciding
      /\ w \in Busy \ Deciding /\ w \in Stepping
  BY <1>2, <1>3, <1>4 DEF Busy, Stepping, Deciding, AtEndLabels
<1>6. SameSessions
  BY <1>2, <1>4 DEF SameSessions, SameTasks
<1>7. QED
  BY <1>2, <1>4, <1>5, <1>6

LEMMA SubmitMove ==
    ASSUME TypeOK, NEW w \in Workers, Submit(w)
    PROVE  /\ Busy' = Busy /\ Stepping' = Stepping /\ Deciding' = Deciding \cup {w}
           /\ w \in Busy \ Deciding /\ w \in Stepping /\ SameResults
           /\ work'[w].at = "submitted"
           /\ Len(work[w].results) = 5
           /\ \A v \in Workers \ {w} : work'[v] = work[v]
<1> DEFINE x == Ended(work[w], "submitted", {}, 0)
<1>1. Becomes(w, x) /\ Len(work[w].results) = 5
  BY SubmitFacts
<1>2. /\ x.at = "submitted" /\ x.task = work[w].task
      /\ x.session = work[w].session /\ x.results = work[w].results
  BY DEF Ended
<1>3. work[w].at = "step"
  BY DEF Submit
<1> HIDE DEF x
<1>4. work'[w] = x /\ \A v \in Workers \ {w} : work'[v] = work[v]
  BY <1>1, OthersFacts
<1>5. /\ Busy' = Busy /\ Stepping' = Stepping /\ Deciding' = Deciding \cup {w}
      /\ w \in Busy \ Deciding /\ w \in Stepping
  BY <1>2, <1>3, <1>4 DEF Busy, Stepping, Deciding, AtEndLabels
<1>6. SameResults
  BY <1>2, <1>4 DEF SameResults, SameSessions, SameTasks
<1>7. QED
  BY <1>1, <1>2, <1>4, <1>5, <1>6

\* Between its submission and its report a worker keeps its task, session and results.
LEMMA ResolveMove ==
    ASSUME TypeOK, NEW w \in Workers, Resolves(w)
    PROVE  /\ Busy' = Busy /\ Stepping' = Stepping /\ Deciding' = Deciding
           /\ w \in Deciding /\ SameResults
           /\ ResolvedTo(w, work'[w])
           /\ \A v \in Workers \ {w} : work'[v] = work[v]
<1>1. PICK x \in AtEnd : ResolvedTo(w, x) /\ Becomes(w, x) /\ work[w] \in AtEnd
  BY ResolveFacts
<1>2. work'[w] = x /\ \A v \in Workers \ {w} : work'[v] = work[v]
  BY <1>1, OthersFacts
<1>3. x.task = work[w].task /\ x.session = work[w].session /\ x.results = work[w].results
  BY <1>1 DEF ResolvedTo, Ended
<1>4. x.at \in AtEndLabels /\ work[w].at \in AtEndLabels
  BY <1>1 DEF AtEnd
<1>5. Busy' = Busy /\ Stepping' = Stepping /\ Deciding' = Deciding /\ w \in Deciding
  BY <1>2, <1>4 DEF Busy, Stepping, Deciding, AtEndLabels
<1>6. SameResults
  BY <1>2, <1>3 DEF SameResults, SameSessions, SameTasks
<1>7. QED
  BY <1>1, <1>2, <1>5, <1>6

LEMMA LeaveMove ==
    ASSUME TypeOK, NEW w \in Workers, ResolveRaises(w) \/ Report(w)
    PROVE  /\ Busy' = Busy \ {w} /\ Stepping' = Stepping \ {w} /\ Deciding' = Deciding \ {w}
           /\ w \in Deciding /\ work[w] \in AtEnd /\ work[w].at = "resolve"
           /\ \A v \in Workers \ {w} : work'[v] = work[v]
<1>1. Becomes(w, Idle) /\ work[w] \in AtEnd /\ work[w].at = "resolve"
  BY LeaveFacts
<1>2. work'[w] = Idle /\ \A v \in Workers \ {w} : work'[v] = work[v]
  BY <1>1, OthersFacts
<1>3. QED
  BY <1>1, <1>2 DEF Busy, Stepping, Deciding, Idle, AtEndLabels

-----------------------------------------------------------------------------
(* Tasks and plans. *)

\* Every step keeps tasks apart, and what is not begun has left no trace.
LEMMA TaskedStep ==
    ASSUME TypeOK, Tasked, Planned, Requested, [Next]_vars
    PROVE  Tasked'
<1> USE DEF Tasked
<1>1. ASSUME NEW w \in Workers, NEW o \in Orders, NEW fresh \in BOOLEAN, Begin(w, o, fresh)
      PROVE  Tasked'
  <2> DEFINE n == Len(asked')
  <2>1. n \in Tasks \ Begun /\ Begun' = Begun \cup {n}
    BY <1>1, BeginFacts
  <2>2. /\ w \notin Busy /\ Busy' = Busy \cup {w} /\ Deciding' = Deciding
        /\ work'[w].task = n /\ \A v \in Workers \ {w} : work'[v] = work[v]
    <3>1. /\ w \notin Busy /\ Busy' = Busy \cup {w} /\ Deciding' = Deciding
          /\ work'[w] = [at |-> "planned", task |-> Len(asked'), plan |-> PlanOf(o, fresh)]
          /\ \A v \in Workers \ {w} : work'[v] = work[v]
      BY <1>1, BeginMove
    <3>2. QED
      BY <3>1
  <2>3. UNCHANGED <<reports, request, died>>
    BY <1>1 DEF Begin, engine
  <2> HIDE DEF n
  <2>4. \A v \in Busy : v \in Workers \ {w} /\ work'[v] = work[v]
    BY <2>2 DEF Busy
  <2>5. QED
    BY <2>1, <2>2, <2>3, <2>4
<1>2. ASSUME NEW w \in Workers, Execute(w) PROVE Tasked'
  <2>1. Busy' = Busy /\ Deciding' = Deciding /\ SameTasks
    BY <1>2, ExecuteMove
  <2>2. UNCHANGED <<asked, reports, request, died>>
    BY <1>2 DEF Execute, engine
  <2>3. QED
    BY <2>1, <2>2 DEF SameTasks, Begun, Busy
<1>3. ASSUME NEW w \in Workers, TakeStep(w) PROVE Tasked'
  <2>1. Busy' = Busy /\ Deciding' = Deciding /\ SameTasks
    BY <1>3, StepFacts, StepMove DEF SameSessions
  <2>2. UNCHANGED <<asked, reports, request, died>>
    BY <1>3 DEF TakeStep, RunExpert, ExpertFails, Degrade, engine
  <2>3. QED
    BY <2>1, <2>2 DEF SameTasks, Begun, Busy
<1>4. ASSUME NEW w \in Workers, Submit(w) PROVE Tasked'
  <2> DEFINE n == work[w].task
  <2>1. Busy' = Busy /\ Deciding' = Deciding \cup {w} /\ w \in Busy /\ SameTasks
    BY <1>4, SubmitMove DEF SameResults, SameSessions
  <2>2. UNCHANGED <<asked, reports, died>>
    BY <1>4 DEF Submit
  <2>3. n \in Begun /\ \A v \in Busy \ {w} : work[v].task # n
    BY <2>1
  <2>4. \A m \in Tasks \ {n} : request'[m] = request[m]
    BY <1>4 DEF Submit, TypeOK
  <2> HIDE DEF n
  <2>5. \A v \in Busy' \ Deciding' : work[v].task \in Tasks \ {n}
    BY <2>1, <2>3, BoundFacts, LenProperties DEF TypeOK, Begun, Tasks
  <2>6. \A m \in Tasks \ Begun : m \in Tasks \ {n}
    BY <2>3
  <2>7. QED
    BY <2>1, <2>2, <2>3, <2>4, <2>5, <2>6 DEF SameTasks, Begun, Busy
<1>5. ASSUME NEW m \in Submitted, NEW st \in Statuses,
             Busy' = Busy, Deciding' = Deciding, SameTasks, UNCHANGED <<asked, reports, died>>,
             request' = [request EXCEPT ![m].status = st]
      PROVE  Tasked'
  <2>1. /\ m \in Tasks /\ request[m] # NoRequest
        /\ \A n \in Tasks \ {m} : request'[n] = request[n]
    <3>1. m \in Tasks /\ request[m] # NoRequest
      BY DEF Submitted, NoRequest
    <3>2. QED
      BY <1>5, <3>1, StatusFacts
  <2>2. m \in Begun /\ \A v \in Busy \ Deciding : work[v].task # m
    BY <2>1
  <2>3. \A v \in Busy \ Deciding : work[v].task \in Tasks \ {m}
    BY <2>2, BoundFacts, LenProperties DEF TypeOK, Begun, Tasks
  <2>4. QED
    BY <1>5, <2>1, <2>2, <2>3 DEF SameTasks, Begun, Busy
<1>6. ASSUME NEW w \in Workers, Resolves(w) PROVE Tasked'
  <2>1. Busy' = Busy /\ Deciding' = Deciding /\ SameTasks
    BY <1>6, ResolveMove DEF SameResults, SameSessions
  <2>2. UNCHANGED <<asked, reports, died>>
    BY <1>6 DEF Resolves, TestStatus, ListPending, PopOne, ApproveOne
  <2>3. CASE ApproveOne(w)
    <3>1. /\ work[w].held \in Submitted /\ "approved" \in Statuses
          /\ request' = [request EXCEPT ![work[w].held].status = "approved"]
      BY <2>3 DEF ApproveOne, Requested, Filed, Statuses
    <3>2. QED
      BY <1>5, <2>1, <2>2, <3>1
  <2>4. CASE ~ApproveOne(w)
    <3>1. request' = request
      BY <1>6, <2>4 DEF Resolves, TestStatus, ListPending, PopOne, engine
    <3>2. QED
      BY <2>1, <2>2, <3>1 DEF SameTasks, Begun, Busy
  <2>5. QED
    BY <2>3, <2>4
<1>8. ASSUME NEW w \in Workers, ResolveRaises(w) \/ Report(w) PROVE Tasked'
  <2> DEFINE n == work[w].task
  <2>1. /\ Busy' = Busy \ {w} /\ Deciding' = Deciding \ {w} /\ w \in Deciding
        /\ \A v \in Workers \ {w} : work'[v] = work[v]
    BY <1>8, LeaveMove
  <2>2. UNCHANGED <<asked, request>> /\ died' \subseteq died \cup {n}
        /\ \A m \in Tasks \ {n} : reports'[m] = reports[m]
    BY <1>8, ReportFacts DEF ResolveRaises, Caught, Report, engine
  <2>3. w \in Busy /\ n \in Begun /\ \A v \in Busy \ {w} : work[v].task # n
    BY <2>1 DEF Busy, Deciding, AtEndLabels
  <2> HIDE DEF n
  <2>4. \A v \in Busy' : v \in Busy /\ work'[v] = work[v] /\ work[v].task \in Tasks \ {n}
    BY <2>1, <2>3, BoundFacts, LenProperties DEF TypeOK, Begun, Tasks, Busy
  <2>5. \A v \in Busy' \ Deciding' : v \in Busy \ Deciding
    BY <2>1
  <2>6. QED
    BY <2>1, <2>2, <2>3, <2>4, <2>5 DEF Begun
<1>9. ASSUME NEW i \in Ids, NEW verdict \in Verdicts, TakeUp(i, verdict) PROVE Tasked'
  BY <1>9 DEF TakeUp, Begun, Busy, Deciding
<1>10. ASSUME NEW h \in inHand, Settle(h) PROVE Tasked'
  <2>1. /\ UNCHANGED <<asked, reports, died, work>>
        /\ request' = [request EXCEPT ![h.task].status = h.verdict]
    BY <1>10 DEF Settle
  <2>2. h.task \in Submitted /\ h.verdict \in Statuses
    BY DEF Requested, Filed, TypeOK, Verdicts, Statuses
  <2>3. Busy' = Busy /\ Deciding' = Deciding /\ SameTasks
    BY <2>1 DEF Busy, Deciding, SameTasks, AtEndLabels
  <2>4. QED
    BY <1>5, <2>1, <2>2, <2>3
<1>11. CASE UNCHANGED vars
  BY <1>11 DEF vars, engine, Begun, Busy, Deciding
<1>12. QED
  BY <1>1, <1>2, <1>3, <1>4, <1>6, <1>8, <1>9, <1>10, <1>11 DEF Next, TakeStep, Resolves

\* Every step keeps plans and sessions with their orders.
LEMMA PlannedStep ==
    ASSUME TypeOK, Tasked, Planned, [Next]_vars
    PROVE  Planned'
<1>a. ASSUME NEW w \in Workers, NEW o \in Orders, NEW fresh \in BOOLEAN, Begin(w, o, fresh)
      PROVE  /\ Len(asked') \in Tasks \ Begun /\ Begun' = Begun \cup {Len(asked')}
             /\ \A i \in Begun : asked'[i] = asked[i]
             /\ asked'[Len(asked')] = o /\ PlanOf(o, fresh) \in Tasks
             /\ cached' = [cached EXCEPT ![o] = PlanOf(o, fresh)]
             /\ stamped' = [stamped EXCEPT ![PlanOf(o, fresh)] = Len(asked')]
  <2>1. Len(asked') \in Tasks \ Begun /\ Begun' = Begun \cup {Len(asked')}
    BY <1>a, BeginFacts
  <2>2. \A i \in Begun : asked'[i] = asked[i]
    BY <1>a, BeginFacts
  <2>3. asked'[Len(asked')] = o
    BY <1>a, BeginFacts
  <2>4. PlanOf(o, fresh) \in Tasks
    BY <1>a, BeginFacts
  <2>5. cached' = [cached EXCEPT ![o] = PlanOf(o, fresh)]
    <3>1. Len(asked') = Len(asked) + 1
      BY <1>a, BeginFacts
    <3>2. QED
      BY <1>a, <3>1 DEF Begin, PlanOf, CachedPlan
  <2>6. stamped' = [stamped EXCEPT ![PlanOf(o, fresh)] = Len(asked')]
    <3>1. Len(asked') = Len(asked) + 1
      BY <1>a, BeginFacts
    <3>2. QED
      BY <1>a, <3>1 DEF Begin, PlanOf, CachedPlan
  <2>7. QED
    BY <2>1, <2>2, <2>3, <2>4, <2>5, <2>6
<1> USE DEF Planned
<1>0. Begun \subseteq Tasks
  BY BoundFacts, LenProperties DEF TypeOK, Begun, Tasks
<1>1. ASSUME NEW w \in Workers, NEW o \in Orders, NEW fresh \in BOOLEAN, Begin(w, o, fresh)
      PROVE  Planned'
  <2> DEFINE n == Len(asked')
             p == PlanOf(o, fresh)
  <2>1. /\ n \in Tasks \ Begun /\ Begun' = Begun \cup {n}
        /\ \A i \in Begun : asked'[i] = asked[i]
        /\ asked'[n] = o /\ p \in Tasks
        /\ cached' = [cached EXCEPT ![o] = p] /\ stamped' = [stamped EXCEPT ![p] = n]
    BY <1>1, <1>a
  <2>2. /\ w \notin Stepping /\ Stepping' = Stepping
        /\ work'[w] = [at |-> "planned", task |-> n, plan |-> p]
        /\ \A v \in Workers \ {w} : work'[v] = work[v]
    <3>1. w \notin Busy
      BY <1>1, BeginMove
    <3>2. QED
      BY <1>1, <3>1, BeginMove DEF Busy, Stepping, AtEndLabels
  <2>3. p = n \/ (p = cached[o] /\ cached[o] # 0)
    BY <1>1, BeginFacts DEF PlanOf, Begin, CachedPlan
  <2>4. p \in Begun' /\ asked'[p] = o
    BY <2>1, <2>3
  <2>5. UNCHANGED reports
    BY <1>1 DEF Begin
  <2>6. n # 0 /\ 0 \notin Begun
    BY <2>1 DEF Begun, Tasks
  <2> HIDE DEF n, p
  <2>7. stamped'[p] = n /\ \A q \in Tasks \ {p} : stamped'[q] = stamped[q]
    BY <2>1 DEF TypeOK
  <2>8. cached'[o] = p /\ \A u \in Orders \ {o} : cached'[u] = cached[u]
    BY <2>1 DEF TypeOK
  <2>9. \A u \in Orders : cached'[u] # 0 =>
          cached'[u] \in Begun' /\ asked'[cached'[u]] = u /\ stamped'[cached'[u]] # 0
    BY <1>0, <2>1, <2>4, <2>6, <2>7, <2>8
  <2>10. \A q \in Tasks : stamped'[q] # 0 =>
          q \in Begun' /\ stamped'[q] \in Begun' /\ asked'[stamped'[q]] = asked'[q]
    BY <2>1, <2>4, <2>7
  <2>11. ASSUME NEW v \in Workers, work'[v].at = "planned"
         PROVE  stamped'[work'[v].plan] # 0 /\ asked'[work'[v].plan] = asked'[work'[v].task]
    <3>1. CASE v = w
      BY <2>1, <2>2, <2>4, <2>6, <2>7, <3>1
    <3>2. CASE v # w
      <4>1. work[v].at = "planned" /\ work'[v] = work[v] /\ work[v] \in WithPlan /\ v \in Busy
        BY <2>2, <2>11, <3>2, WorkCases DEF Busy
      <4>2. work[v].plan \in Begun /\ work[v].plan \in Tasks /\ work[v].task \in Begun
        BY <4>1 DEF WithPlan, Tasked
      <4>3. QED
        BY <2>1, <2>6, <2>7, <4>1, <4>2
    <3>3. QED
      BY <3>1, <3>2
  <2>12. ASSUME NEW v \in Stepping'
         PROVE  work'[v].session \in Begun' /\ asked'[work'[v].session] = asked'[work'[v].task]
    <3>1. v \in Stepping /\ v \in Busy /\ work'[v] = work[v]
      BY <2>2 DEF Stepping, Busy, AtEndLabels
    <3>2. QED
      BY <2>1, <3>1 DEF Tasked
  <2>13. \A m \in Reported' :
          m \in Begun' /\ reports'[m].session \in Begun' /\ asked'[reports'[m].session] = asked'[m]
    BY <2>1, <2>5 DEF Reported
  <2>14. QED
    BY <2>9, <2>10, <2>11, <2>12, <2>13
<1>2. ASSUME NEW w \in Workers, Execute(w) PROVE Planned'
  <2>1. /\ UNCHANGED <<asked, cached, stamped, reports>> /\ work[w].at = "planned"
        /\ Begun' = Begun
    BY <1>2 DEF Execute, Begun
  <2>2. /\ Stepping' = Stepping \cup {w} /\ work'[w].at = "step" /\ work'[w].task = work[w].task
        /\ work'[w].session = stamped[work[w].plan] /\ w \notin Stepping
        /\ \A v \in Workers \ {w} : work'[v] = work[v]
    BY <1>2, ExecuteMove DEF SameTasks
  <2>3. work[w] \in WithPlan
    BY <1>2, ExecuteFacts
  <2>4. work'[w].session \in Begun' /\ asked'[work'[w].session] = asked'[work'[w].task]
    BY <2>1, <2>2, <2>3 DEF WithPlan
  <2>5. \A v \in Stepping : v \in Workers \ {w}
    BY <2>2 DEF Stepping, AtEndLabels
  <2>6. QED
    BY <2>1, <2>2, <2>4, <2>5 DEF Reported
<1>3. ASSUME NEW w \in Workers, UNCHANGED <<asked, cached, stamped, reports>>,
             Stepping' = Stepping, w \in Stepping, w \in Stepping', SameSessions,
             \A v \in Workers \ {w} : work'[v] = work[v]
      PROVE  Planned'
  <2>1. \A v \in Workers : work'[v].at = "planned" => work'[v] = work[v]
    BY <1>3 DEF Stepping, AtEndLabels
  <2>2. QED
    BY <1>3, <2>1 DEF Reported, SameSessions, SameTasks, Begun, Stepping, AtEndLabels
<1>4. ASSUME NEW w \in Workers, TakeStep(w) PROVE Planned'
  <2>1. UNCHANGED <<asked, cached, stamped, reports>>
    BY <1>4 DEF TakeStep, RunExpert, ExpertFails, Degrade
  <2>2. QED
    BY <1>3, <1>4, <2>1, StepFacts, StepMove
<1>5. ASSUME NEW w \in Workers, Submit(w) PROVE Planned'
  <2>1. UNCHANGED <<asked, cached, stamped, reports>>
    BY <1>5 DEF Submit
  <2>2. QED
    BY <1>3, <1>5, <2>1, SubmitMove DEF SameResults
<1>6. ASSUME NEW w \in Workers, Resolves(w) PROVE Planned'
  <2>1. UNCHANGED <<asked, cached, stamped, reports>>
    BY <1>6 DEF Resolves, TestStatus, ListPending, PopOne, ApproveOne
  <2>2. Stepping' = Stepping /\ w \in Stepping /\ SameSessions /\ \A v \in Workers \ {w} : work'[v] = work[v]
    BY <1>6, ResolveMove DEF SameResults, Deciding, Stepping, AtEndLabels
  <2>3. QED
    BY <1>3, <2>1, <2>2
<1>7. ASSUME NEW w \in Workers, ResolveRaises(w) \/ Report(w) PROVE Planned'
  <2> DEFINE n == work[w].task
  <2>1. /\ UNCHANGED <<asked, cached, stamped>> /\ Begun' = Begun
        /\ \A m \in Tasks \ {n} : reports'[m] = reports[m]
    BY <1>7, ReportFacts DEF ResolveRaises, Report, Begun
  <2>2. /\ Stepping' = Stepping \ {w} /\ w \in Deciding
        /\ \A v \in Workers \ {w} : work'[v] = work[v]
    BY <1>7, LeaveMove
  <2>3. w \in Stepping /\ w \in Busy /\ work'[w].at = "idle" /\ n \in Tasks
    <3>1. Becomes(w, Idle) /\ work[w] \in AtEnd
      BY <1>7, LeaveFacts
    <3>2. QED
      BY <2>2, <3>1, OthersFacts DEF Stepping, Deciding, Busy, Idle, AtEnd, AtEndLabels
  <2>4. n \in Begun /\ work[w].session \in Begun /\ asked[work[w].session] = asked[n]
    BY <2>3 DEF Tasked
  <2>5. n \in Reported' => reports'[n].session = work[w].session
    <3>1. reports[n] = NoReport
      BY <2>3 DEF Tasked
    <3>2. CASE ResolveRaises(w)
      BY <3>1, <3>2 DEF ResolveRaises, Reported
    <3>3. CASE Report(w)
      <4>1. reports'[work[w].task] =
              [session |-> work[w].session, decision |-> Decide(work[w].results),
               steps |-> work[w].results,
               success |-> \A i \in DOMAIN work[w].results : work[w].results[i].status = "completed"]
        BY <3>3, ReportFacts
      <4>2. QED
        BY <4>1
    <3>4. QED
      BY <1>7, <3>2, <3>3
  <2> HIDE DEF n
  <2>6. \A v \in Stepping' : v \in Stepping /\ work'[v] = work[v]
    BY <2>2 DEF Stepping, AtEndLabels
  <2>7. \A v \in Workers : work'[v].at = "planned" => work'[v] = work[v]
    BY <2>2, <2>3
  <2>8. \A m \in Reported' : m # n => m \in Reported /\ reports'[m] = reports[m]
    BY <2>1 DEF Reported
  <2>9. QED
    BY <2>1, <2>4, <2>5, <2>6, <2>7, <2>8
<1>8. ASSUME UNCHANGED <<asked, cached, stamped, work, reports>> PROVE Planned'
  BY <1>8 DEF Begun, Stepping, Reported, AtEndLabels
<1>9. ASSUME NEW i \in Ids, NEW verdict \in Verdicts, TakeUp(i, verdict) PROVE Planned'
  BY <1>8, <1>9 DEF TakeUp
<1>10. ASSUME NEW h \in inHand, Settle(h) PROVE Planned'
  BY <1>8, <1>10 DEF Settle
<1>11. CASE UNCHANGED vars
  BY <1>8, <1>11 DEF vars
<1>12. QED
  BY <1>1, <1>2, <1>4, <1>5, <1>6, <1>7, <1>9, <1>10, <1>11 DEF Next, TakeStep, Resolves
-----------------------------------------------------------------------------
(* Facts and answers. *)

LEMMA TypesFacts ==
    /\ Types[1] = "order" /\ Types[2] = "payment" /\ Types[3] = "risk"
    /\ Types[4] = "reconciliation" /\ Types[5] = "operation"
BY DEF Types

\* What a session has kept about its order stays with it.
LEMMA FaithfulGrows ==
    ASSUME NEW o, NEW row, NEW kept, NEW later, NEW results \in Seq(StepResults),
           \A d \in Kinds : kept[d] = o => later[d] = o,
           FaithfulTo(o, row, kept, results)
    PROVE  FaithfulTo(o, row, later, results)
<1> SUFFICES ASSUME NEW i \in DOMAIN results PROVE OneFaithful(o, row, later, results, i)
  BY DEF FaithfulTo
<1>1. OneFaithful(o, row, kept, results, i)
  BY DEF FaithfulTo
<1>2. i \in Nat /\ i >= 1
  <2>1. PICK n \in Nat : n = Len(results) /\ DOMAIN results = 1..n
    BY LenProperties
  <2>2. QED
    BY <2>1
<1>3. i <= 3 => Types[i] \in Kinds
  <2>1. i <= 3 => i \in {1, 2, 3}
    BY <1>2
  <2>2. QED
    BY <2>1, TypesFacts DEF Kinds
<1>4. QED
  BY <1>1, <1>3 DEF OneFaithful

\* The steps before the last read the same from a longer list.
LEMMA FaithfulAppend ==
    ASSUME NEW o, NEW row, NEW kept, NEW results \in Seq(StepResults), NEW r \in StepResults,
           Len(results) \in 0..4, FaithfulTo(o, row, kept, results),
           OneFaithful(o, row, kept, Append(results, r), Len(results) + 1)
    PROVE  FaithfulTo(o, row, kept, Append(results, r))
<1> DEFINE all == Append(results, r)
<1>1. PICK n \in 0..4 : n = Len(results) /\ DOMAIN results = 1..n
  BY LenProperties
<1>2. /\ all \in Seq(StepResults) /\ Len(all) = n + 1
      /\ \A i \in 1..n : all[i] = results[i]
      /\ DOMAIN all = 1..(n + 1)
  <2>1. /\ all \in Seq(StepResults) /\ Len(all) = Len(results) + 1
        /\ \A i \in 1..Len(results) : all[i] = results[i]
    BY AppendProperties
  <2>2. DOMAIN all = 1..Len(all)
    BY <2>1, LenProperties
  <2>3. QED
    BY <1>1, <2>1, <2>2
<1> HIDE DEF all
<1>3. ASSUME NEW i \in 1..n PROVE OneFaithful(o, row, kept, all, i)
  <2>1. OneFaithful(o, row, kept, results, i) /\ i # 5
    BY <1>1 DEF FaithfulTo
  <2>2. all[i] = results[i]
    BY <1>2
  <2>3. QED
    BY <2>1, <2>2 DEF OneFaithful, OwnStep
<1>4. OneFaithful(o, row, kept, all, n + 1)
  BY <1>1 DEF all
<1>5. \A i \in 1..(n + 1) : i \in 1..n \/ i = n + 1
  BY <1>1
<1>6. QED
  BY <1>2, <1>3, <1>4, <1>5 DEF FaithfulTo, all

\* The facts after a step: those there were, and that of the session's order.
LEMMA FactsAfter ==
    ASSUME TypeOK, Planned, NEW w \in Workers, TakeStep(w)
    PROVE  /\ \A m \in Tasks, d \in Kinds :
                facts'[m][d] = facts[m][d] \/ (m = work[w].session /\ facts'[m][d] = asked[m])
           /\ RunExpert(w) /\ Step(w) \in Kinds => facts'[work[w].session][Step(w)] = asked[work[w].session]
<1>1. InStep(w) /\ work[w].session \in Tasks
  <2>1. InStep(w)
    BY StepFacts
  <2>2. QED
    BY <2>1, OrderFacts
<1>2. CASE RunExpert(w) /\ Step(w) \in Kinds
  <2>1. facts' = [facts EXCEPT ![work[w].session][Step(w)] = asked[work[w].session]]
    BY <1>2 DEF RunExpert, Key, Order
  <2>2. facts \in [Tasks -> [Kinds -> Orders \cup {NoOrder}]]
    BY DEF TypeOK
  <2> DEFINE s == work[w].session
             k == Step(w)
             e == asked[s]
  <2>3. s \in Tasks /\ k \in Kinds /\ facts' = [facts EXCEPT ![s][k] = e]
    BY <1>1, <1>2, <2>1
  <2> HIDE DEF s, k, e
  <2>4. facts'[s] = [facts[s] EXCEPT ![k] = e] /\ facts[s] \in [Kinds -> Orders \cup {NoOrder}]
    BY <2>2, <2>3
  <2>5. facts'[s][k] = e /\ \A d \in Kinds \ {k} : facts'[s][d] = facts[s][d]
    BY <2>3, <2>4
  <2>6. \A m \in Tasks \ {s} : facts'[m] = facts[m]
    BY <2>2, <2>3
  <2>7. QED
    BY <2>3, <2>5, <2>6 DEF s, k, e
<1>3. CASE ~(RunExpert(w) /\ Step(w) \in Kinds)
  <2>1. facts' = facts
    BY <1>3 DEF TakeStep, RunExpert, ExpertFails, Degrade
  <2>2. QED
    BY <1>3, <2>1
<1>4. QED
  BY <1>2, <1>3

\* What an expert answers, by its kind.
LEMMA ExpertShape ==
    ASSUME NEW t \in Experts \ {"operation"}, NEW row
    PROVE  /\ ExpertResult(t, row).expert = t
           /\ t # "risk" => ExpertResult(t, row).risk = None
           /\ t # "payment" => ExpertResult(t, row).code = None
BY DEF Experts, ExpertResult, OrderResult, PaymentResult, RiskResult, ReconResult, Result

LEMMA CompletedShape ==
    ASSUME NEW x
    PROVE  /\ Completed(x).status = "completed" /\ Completed(x).expert = x.expert
           /\ Completed(x).code = x.code /\ Completed(x).risk = x.risk /\ Completed(x).says = x.says
BY DEF Completed

\* The operation expert reads the facts of its session; when the payment and the risk
\* experts have run there, they are of its order.
LEMMA FactsRead ==
    ASSUME TypeOK, NEW s \in Begun, facts[s]["payment"] = asked[s], facts[s]["risk"] = asked[s]
    PROVE  /\ RiskFact(s) = RiskOf(rows[asked[s]])
           /\ PaymentFact(s) = Primary(rows[asked[s]]).status
<1>1. asked[s] # NoOrder
  <2>1. asked[s] \in Orders
    BY ElementOfSeq DEF TypeOK, Begun
  <2>2. QED
    BY <2>1, OrderAssumption DEF NoOrder
<1>2. QED
  BY <1>1 DEF RiskFact, PaymentFact, FactOf, Key

\* The result that a step adds is faithful.
LEMMA NewFaithful ==
    ASSUME TypeOK, Planned, Answered, NEW w \in Workers, TakeStep(w),
           NEW r \in StepResults, InStep(w), Done(w, r), Answers(w, r)
    PROVE  LET s == work[w].session
               results == work[w].results
           IN  OneFaithful(asked[s], rows[asked[s]], facts'[s], Append(results, r), Len(results) + 1)
<1> DEFINE s == work[w].session
           results == work[w].results
           all == Append(results, r)
           row == rows[asked[s]]
<1>1. /\ results \in Seq(StepResults) /\ s \in Begun /\ s \in Tasks
      /\ Step(w) = Types[Len(results) + 1] /\ Step(w) \in Experts /\ w \in Stepping
  BY OrderFacts DEF InSteps, Stepping, InStep, AtEndLabels
<1>2. PICK n \in 1..5 : n = Len(results) + 1
  <2>1. PICK m \in 0..4 : m = Len(results)
    BY DoneFacts
  <2>2. m + 1 \in 1..5
    OBVIOUS
  <2>3. QED
    BY <2>1, <2>2
<1>3. /\ all[n] = r /\ Types[n] = Step(w)
      /\ n = 5 => all[2] = results[2] /\ all[3] = results[3] /\ {2, 3} \subseteq DOMAIN results
  <2>1. /\ all[Len(results) + 1] = r
        /\ \A i \in 1..Len(results) : all[i] = results[i]
        /\ DOMAIN results = 1..Len(results)
    BY <1>1, AppendProperties, LenProperties
  <2>2. n = 5 => Len(results) = 4
    <3>1. PICK m \in Nat : m = Len(results)
      BY <1>1, LenProperties
    <3>2. n = m + 1
      BY <1>2, <3>1
    <3>3. n = 5 => m = 4
      BY <3>2
    <3>4. QED
      BY <3>1, <3>3
  <2>3. QED
    BY <1>1, <1>2, <2>1, <2>2
<1>4. Step(w) = "operation" <=> n = 5
  BY <1>2, <1>3, TypesFacts
<1>5. /\ Step(w) = "risk" <=> n = 3
      /\ Step(w) = "payment" <=> n = 2
      /\ n <= 3 => Step(w) \in Kinds
      /\ n = 1 => Step(w) = "order"
  BY <1>2, <1>3, TypesFacts DEF Kinds
<1> HIDE DEF all
<1>6. CASE RunExpert(w) /\ Step(w) # "operation" /\ r = Completed(ExpertResult(Step(w), rows[Order(w)]))
  <2>1. r = Completed(ExpertResult(Types[n], row))
    BY <1>3, <1>6 DEF Order
  <2>2. /\ r.status = "completed" /\ r.expert = Types[n]
        /\ n # 3 => r.risk = None
        /\ n # 2 => r.code = None
    <3>1. Types[n] \in Experts \ {"operation"}
      BY <1>1, <1>3, <1>6
    <3> DEFINE x == ExpertResult(Types[n], row)
    <3>2. /\ x.expert = Types[n]
          /\ Types[n] # "risk" => x.risk = None
          /\ Types[n] # "payment" => x.code = None
      BY <3>1, ExpertShape
    <3> HIDE DEF x
    <3>3. /\ r.status = "completed" /\ r.expert = x.expert /\ r.risk = x.risk /\ r.code = x.code
      BY <2>1, CompletedShape DEF x
    <3>4. QED
      BY <1>3, <1>5, <3>2, <3>3
  <2>3. n <= 3 => facts'[s][Types[n]] = asked[s]
    BY <1>3, <1>5, <1>6, FactsAfter
  <2>4. n # 5
    BY <1>4, <1>6
  <2>5. OwnStep(all, n)
    BY <1>3, <2>2 DEF OwnStep
  <2>6. OneFaithful(asked[s], row, facts'[s], all, n)
    BY <1>3, <2>1, <2>2, <2>3, <2>4, <2>5 DEF OneFaithful
  <2>7. QED
    BY <1>2, <2>6 DEF all
<1>7. CASE RunExpert(w) /\ Step(w) = "operation"
           /\ r = Completed(OperationResult(Advice(RiskFact(s), PaymentFact(s))))
  <2>1. n = 5
    BY <1>4, <1>7
  <2>2. r.risk = None /\ r.code = None /\ r.says = Advice(RiskFact(s), PaymentFact(s))
    BY <1>7, CompletedShape DEF OperationResult, Result
  <2>3. ASSUME OwnStep(results, 2), OwnStep(results, 3)
        PROVE  r.says = Advice(RiskOf(row), Primary(row).status)
    <3>1. FaithfulTo(asked[s], row, facts[s], results)
      BY <1>1 DEF Answered, Faithful
    <3>2. facts[s]["payment"] = asked[s] /\ facts[s]["risk"] = asked[s]
      BY <1>3, <2>1, <2>3, <3>1, TypesFacts DEF FaithfulTo, OneFaithful
    <3>3. RiskFact(s) = RiskOf(row) /\ PaymentFact(s) = Primary(row).status
      BY <1>1, <3>2, FactsRead
    <3>4. QED
      BY <2>2, <3>3
  <2>4. OneFaithful(asked[s], row, facts'[s], all, n)
    BY <1>3, <2>1, <2>2, <2>3 DEF OneFaithful, OwnStep
  <2>5. QED
    BY <1>2, <2>4 DEF all
<1>8. ASSUME r.risk = None, r.code = None, ~OwnStep(all, n)
      PROVE  OneFaithful(asked[s], row, facts'[s], all, Len(results) + 1)
  <2>1. OneFaithful(asked[s], row, facts'[s], all, n)
    BY <1>3, <1>8 DEF OneFaithful
  <2>2. QED
    BY <1>2, <2>1
<1>9. CASE r = Failed(Step(w))
  <2>1. r.status # "completed" /\ r.risk = None /\ r.code = None
    BY <1>9 DEF Failed
  <2>2. ~OwnStep(all, n)
    BY <1>3, <2>1 DEF OwnStep
  <2>3. QED
    BY <1>8, <2>1, <2>2 DEF all
<1>10. CASE Step(w) \in DOMAIN Fallback /\ r = Completed(ExpertResult(Fallback[Step(w)], NoRows))
  <2> DEFINE t == Fallback[Step(w)]
  <2>1. /\ t \in Experts \ {"operation"} /\ t # Step(w) /\ t # "risk"
        /\ Step(w) # "risk" => t # "payment"
    BY <1>10 DEF Fallback, Experts
  <2> HIDE DEF t
  <2> DEFINE x == ExpertResult(t, NoRows)
  <2>2. x.expert = t /\ x.risk = None /\ (t # "payment" => x.code = None)
    BY <2>1, ExpertShape
  <2> HIDE DEF x
  <2>3. r.expert = t /\ r.risk = None /\ r.code = x.code
    BY <1>10, <2>2, CompletedShape DEF t, x
  <2>4. ~OwnStep(all, n)
    BY <1>3, <2>1, <2>3 DEF OwnStep
  <2>5. n # 3 => r.code = None
    BY <1>5, <2>1, <2>2, <2>3
  <2>6. OneFaithful(asked[s], row, facts'[s], all, n)
    BY <1>3, <2>3, <2>4, <2>5 DEF OneFaithful
  <2>7. QED
    BY <1>2, <2>6 DEF all
<1>11. QED
  BY <1>6, <1>7, <1>9, <1>10 DEF Answers, all

\* Facts and results that go on, or begin with none, stay faithful; so does a report
\* made of the results of one that decides.
LEMMA AnsweredKept ==
    ASSUME TypeOK, Planned, Answered, Requested, rows' = rows,
           \A n \in Begun : n \in Begun' /\ asked'[n] = asked[n],
           facts' = facts,
           \A v \in Stepping' :
               \/ v \in Stepping /\ work'[v].session = work[v].session /\ work'[v].results = work[v].results
               \/ work'[v].results = <<>>,
           \A n \in Reported' :
               \/ n \in Reported /\ reports'[n] = reports[n]
               \/ \E v \in Deciding : /\ reports'[n].session = work[v].session
                                      /\ reports'[n].steps = work[v].results
                                      /\ reports'[n].decision = Decide(work[v].results)
    PROVE  Answered'
<1>1. ASSUME NEW s \in Begun, NEW results, Faithful(s, results)
      PROVE  FaithfulTo(asked'[s], rows'[asked'[s]], facts'[s], results)
  BY <1>1 DEF Faithful
<1>2. \A s \in Tasks, d \in Kinds : facts'[s][d] # NoOrder => s \in Begun' /\ facts'[s][d] = asked'[s]
  BY DEF Answered
<1>3. ASSUME NEW v \in Stepping'
      PROVE  FaithfulTo(asked'[work'[v].session], rows'[asked'[work'[v].session]],
                        facts'[work'[v].session], work'[v].results)
  <2>1. CASE v \in Stepping /\ work'[v].session = work[v].session /\ work'[v].results = work[v].results
    <3>1. Faithful(work[v].session, work[v].results) /\ work[v].session \in Begun
      BY <2>1 DEF Answered, Planned
    <3>2. QED
      BY <1>1, <2>1, <3>1
  <2>2. CASE work'[v].results = <<>>
    BY <2>2 DEF FaithfulTo
  <2>3. QED
    BY <2>1, <2>2
<1>4. ASSUME NEW n \in Reported'
      PROVE  /\ FaithfulTo(asked'[reports'[n].session], rows'[asked'[reports'[n].session]],
                           facts'[reports'[n].session], reports'[n].steps)
             /\ reports'[n].steps \in Seq(StepResults) /\ Len(reports'[n].steps) = 5
             /\ reports'[n].decision = Decide(reports'[n].steps)
  <2>1. CASE n \in Reported /\ reports'[n] = reports[n]
    <3>1. /\ Faithful(reports[n].session, reports[n].steps) /\ reports[n].session \in Begun
          /\ reports[n].steps \in Seq(StepResults) /\ Len(reports[n].steps) = 5
          /\ reports[n].decision = Decide(reports[n].steps)
      BY <2>1 DEF Answered, Planned
    <3>2. QED
      BY <1>1, <2>1, <3>1
  <2>2. ASSUME NEW v \in Deciding, reports'[n].session = work[v].session,
               reports'[n].steps = work[v].results, reports'[n].decision = Decide(work[v].results)
        PROVE  /\ FaithfulTo(asked'[reports'[n].session], rows'[asked'[reports'[n].session]],
                             facts'[reports'[n].session], reports'[n].steps)
               /\ reports'[n].steps \in Seq(StepResults) /\ Len(reports'[n].steps) = 5
               /\ reports'[n].decision = Decide(reports'[n].steps)
    <3>1. v \in Stepping /\ work[v] \in AtEnd
      BY WorkCases DEF Stepping, Deciding, AtEndLabels
    <3>2. Faithful(work[v].session, work[v].results) /\ work[v].session \in Begun
      BY <3>1 DEF Answered, Planned
    <3>3. work[v].results \in Seq(StepResults) /\ Len(work[v].results) = 5
      BY <3>1 DEF AtEnd, Requested, Filed, Followed
    <3>4. FaithfulTo(asked'[work[v].session], rows'[asked'[work[v].session]],
                     facts'[work[v].session], work[v].results)
      BY <1>1, <3>2
    <3>5. QED
      BY <2>2, <3>3, <3>4
  <2>3. QED
    BY <2>1, <2>2
<1>5. QED
  BY <1>2, <1>3, <1>4 DEF Answered, Faithful

\* Every step keeps facts and results about the order of their session.
LEMMA AnsweredStep ==
    ASSUME TypeOK, Tasked, Planned, Answered, Requested, [Next]_vars
    PROVE  Answered'
<1>1. ASSUME NEW w \in Workers, NEW o \in Orders, NEW fresh \in BOOLEAN, Begin(w, o, fresh)
      PROVE  Answered'
  <2>1. Begun' = Begun \cup {Len(asked')} /\ \A i \in Begun : asked'[i] = asked[i]
    BY <1>1, BeginFacts
  <2>2. Stepping' = Stepping /\ w \notin Stepping /\ \A v \in Workers \ {w} : work'[v] = work[v]
    <3>1. w \notin Busy /\ Stepping' = Stepping /\ \A v \in Workers \ {w} : work'[v] = work[v]
      BY <1>1, BeginMove
    <3>2. QED
      BY <3>1 DEF Busy, Stepping, AtEndLabels
  <2>3. UNCHANGED <<rows, facts, reports>>
    BY <1>1 DEF Begin
  <2>4. \A v \in Stepping' : v \in Stepping /\ work'[v] = work[v]
    BY <2>2 DEF Stepping, AtEndLabels
  <2>5. \A n \in Reported' : n \in Reported /\ reports'[n] = reports[n]
    BY <2>3 DEF Reported
  <2>6. QED
    BY <2>1, <2>3, <2>4, <2>5, AnsweredKept
<1>2. ASSUME NEW w \in Workers, Execute(w) PROVE Answered'
  <2>1. /\ Stepping' = Stepping \cup {w} /\ work'[w].results = <<>>
        /\ \A v \in Workers \ {w} : work'[v] = work[v]
    BY <1>2, ExecuteMove
  <2>2. UNCHANGED <<rows, asked, facts, reports>>
    BY <1>2 DEF Execute
  <2>3. \A v \in Stepping' : (v \in Stepping /\ work'[v] = work[v]) \/ work'[v].results = <<>>
    BY <2>1 DEF Stepping, AtEndLabels
  <2>4. \A n \in Reported' : n \in Reported /\ reports'[n] = reports[n]
    BY <2>2 DEF Reported
  <2>5. QED
    BY <2>2, <2>3, <2>4, AnsweredKept DEF Begun
<1>3. ASSUME NEW w \in Workers, TakeStep(w) PROVE Answered'
  <2>1. PICK r \in StepResults : InStep(w) /\ Done(w, r) /\ Answers(w, r)
    BY <1>3, StepFacts
  <2>2. /\ Stepping' = Stepping /\ w \in Stepping /\ SameSessions
        /\ work'[w].results = Append(work[w].results, r)
        /\ \A v \in Workers \ {w} : work'[v] = work[v]
    BY <1>3, <2>1, StepMove
  <2>3. UNCHANGED <<rows, asked, reports>>
    BY <1>3 DEF TakeStep, RunExpert, ExpertFails, Degrade
  <2> DEFINE s == work[w].session
  <2>4. s \in Begun /\ Begun \subseteq Tasks /\ work[w] \in InSteps
    BY <2>1, OrderFacts
  <2>5. \A m \in Tasks, d \in Kinds :
          facts'[m][d] = facts[m][d] \/ (m = s /\ facts'[m][d] = asked[m])
    BY <1>3, FactsAfter
  <2>6. \A m \in Tasks, d \in Kinds : facts'[m][d] # NoOrder => m \in Begun' /\ facts'[m][d] = asked'[m]
    BY <2>3, <2>4, <2>5 DEF Answered, Begun
  <2>7. ASSUME NEW m \in Begun, NEW results \in Seq(StepResults), Faithful(m, results)
        PROVE  FaithfulTo(asked[m], rows[asked[m]], facts'[m], results)
    <3>1. m \in Tasks /\ \A d \in Kinds : facts[m][d] = asked[m] => facts'[m][d] = asked[m]
      BY <2>4, <2>5
    <3>2. FaithfulTo(asked[m], rows[asked[m]], facts[m], results)
      BY <2>7 DEF Faithful
    <3>3. QED
      BY <3>1, <3>2, FaithfulGrows
  <2>8. ASSUME NEW v \in Stepping'
        PROVE  FaithfulTo(asked[work'[v].session], rows[asked[work'[v].session]],
                          facts'[work'[v].session], work'[v].results)
    <3>1. v \in Stepping /\ v \in Workers /\ work'[v].session = work[v].session
      BY <2>2 DEF Stepping, SameSessions, AtEndLabels
    <3>2. /\ Faithful(work[v].session, work[v].results) /\ work[v].session \in Begun
          /\ work[v].results \in Seq(StepResults)
      BY <3>1, WorkCases DEF Answered, Planned, Stepping, InSteps, AtEnd, AtEndLabels
    <3>3. FaithfulTo(asked[work[v].session], rows[asked[work[v].session]],
                     facts'[work[v].session], work[v].results)
      BY <2>7, <3>2
    <3>4. CASE v # w
      BY <2>2, <3>1, <3>3, <3>4
    <3>5. CASE v = w
      <4>1. OneFaithful(asked[s], rows[asked[s]], facts'[s], Append(work[w].results, r), Len(work[w].results) + 1)
        BY <1>3, <2>1, NewFaithful
      <4>2. Len(work[w].results) \in 0..4
        BY <2>1, DoneFacts
      <4>3. FaithfulTo(asked[s], rows[asked[s]], facts'[s], Append(work[w].results, r))
        BY <3>2, <3>3, <3>5, <4>1, <4>2, FaithfulAppend
      <4>4. QED
        BY <2>2, <3>1, <3>5, <4>3
    <3>6. QED
      BY <3>4, <3>5
  <2>9. ASSUME NEW n \in Reported'
        PROVE  /\ FaithfulTo(asked[reports[n].session], rows[asked[reports[n].session]],
                             facts'[reports[n].session], reports[n].steps)
               /\ reports[n].steps \in Seq(StepResults) /\ Len(reports[n].steps) = 5
               /\ reports[n].decision = Decide(reports[n].steps)
    <3>1. n \in Reported
      BY <2>3 DEF Reported
    <3>2. /\ Faithful(reports[n].session, reports[n].steps) /\ reports[n].session \in Begun
          /\ reports[n].steps \in Seq(StepResults) /\ Len(reports[n].steps) = 5
          /\ reports[n].decision = Decide(reports[n].steps)
      BY <3>1 DEF Answered, Planned
    <3>3. QED
      BY <2>7, <3>2
  <2>10. QED
    BY <2>3, <2>6, <2>8, <2>9 DEF Answered, Faithful
<1>4. ASSUME NEW w \in Workers, Submit(w) \/ Resolves(w) PROVE Answered'
  <2>1. SameResults /\ \A v \in Stepping' : v \in Stepping
    BY <1>4, SubmitMove, ResolveMove
  <2>2. UNCHANGED <<rows, asked, facts, reports>>
    BY <1>4 DEF Submit, Resolves, TestStatus, ListPending, PopOne, ApproveOne
  <2>3. \A v \in Stepping' :
          v \in Stepping /\ work'[v].session = work[v].session /\ work'[v].results = work[v].results
    BY <2>1 DEF SameResults, SameSessions, Stepping, AtEndLabels
  <2>4. \A n \in Reported' : n \in Reported /\ reports'[n] = reports[n]
    BY <2>2 DEF Reported
  <2>5. QED
    BY <2>2, <2>3, <2>4, AnsweredKept DEF Begun
<1>5. ASSUME NEW w \in Workers, ResolveRaises(w) \/ Report(w) PROVE Answered'
  <2>1. Stepping' = Stepping \ {w} /\ w \in Deciding /\ \A v \in Workers \ {w} : work'[v] = work[v]
    BY <1>5, LeaveMove
  <2>2. UNCHANGED <<rows, asked, facts>>
    BY <1>5 DEF ResolveRaises, Report
  <2>3. \A v \in Stepping' : v \in Stepping /\ work'[v] = work[v]
    BY <2>1 DEF Stepping, AtEndLabels
  <2> DEFINE t == work[w].task
  <2>4. \A n \in Tasks \ {t} : reports'[n] = reports[n]
    BY <1>5, ReportFacts
  <2>5. CASE ResolveRaises(w)
    <3>1. \A n \in Reported' : n \in Reported /\ reports'[n] = reports[n]
      BY <2>5, ReportFacts DEF Reported
    <3>2. QED
      BY <2>2, <2>3, <3>1, AnsweredKept DEF Begun
  <2>6. CASE Report(w)
    <3>1. /\ reports'[t].session = work[w].session /\ reports'[t].steps = work[w].results
          /\ reports'[t].decision = Decide(work[w].results)
      <4>1. reports'[t] =
              [session |-> work[w].session, decision |-> Decide(work[w].results),
               steps |-> work[w].results,
               success |-> \A i \in DOMAIN work[w].results : work[w].results[i].status = "completed"]
        BY <2>6, ReportFacts
      <4>2. QED
        BY <4>1
    <3> HIDE DEF t
    <3>2. \A n \in Reported' :
            \/ n \in Reported /\ reports'[n] = reports[n]
            \/ n = t
      BY <2>4 DEF Reported
    <3>3. \A n \in Reported' :
            \/ n \in Reported /\ reports'[n] = reports[n]
            \/ \E v \in Deciding : /\ reports'[n].session = work[v].session
                                   /\ reports'[n].steps = work[v].results
                                   /\ reports'[n].decision = Decide(work[v].results)
      BY <2>1, <3>1, <3>2
    <3>4. QED
      BY <2>2, <2>3, <3>3, AnsweredKept DEF Begun
  <2>7. QED
    BY <1>5, <2>5, <2>6
<1>6. ASSUME UNCHANGED <<rows, asked, facts, reports, work>> PROVE Answered'
  <2>1. \A v \in Stepping' : v \in Stepping /\ work'[v] = work[v]
    BY <1>6 DEF Stepping, AtEndLabels
  <2>2. \A n \in Reported' : n \in Reported /\ reports'[n] = reports[n]
    BY <1>6 DEF Reported
  <2>3. QED
    BY <1>6, <2>1, <2>2, AnsweredKept DEF Begun
<1>7. ASSUME NEW i \in Ids, NEW verdict \in Verdicts, TakeUp(i, verdict) PROVE Answered'
  BY <1>6, <1>7 DEF TakeUp
<1>8. ASSUME NEW h \in inHand, Settle(h) PROVE Answered'
  BY <1>6, <1>8 DEF Settle
<1>9. CASE UNCHANGED vars
  BY <1>6, <1>9 DEF vars
<1>10. QED
  BY <1>1, <1>2, <1>3, <1>4, <1>5, <1>7, <1>8, <1>9 DEF Next, TakeStep, Resolves

-----------------------------------------------------------------------------
(* Requests. *)

\* An id that is taken stays taken.
SameTaker(n) == request'[n].status # "none" /\ request'[n].id = request[n].id
LEMMA OverwrittenStays ==
    ASSUME \A m \in Tasks : request[m].status # "none" => SameTaker(m),
           NEW n \in Submitted
    PROVE  n \in Submitted' /\ (Overwritten(n) => Overwritten(n)')
BY DEF Submitted, Overwritten, SameTaker

\* Who holds a request of the engine: nobody begins or ends to.
SameHolders ==
    /\ inHand' = inHand
    /\ \A v \in Workers : (work'[v].at = "approve" <=> work[v].at = "approve")
    /\ \A v \in Workers : work[v].at = "approve" => work'[v].held = work[v].held

\* Nothing happens to the requests.
LEMMA FiledSame ==
    ASSUME Filed, UNCHANGED engine, SameHolders
    PROVE  /\ Filed' /\ Submitted' = Submitted
           /\ \A n : (Waiting(n) <=> Waiting(n)') /\ (Taken(n) <=> Taken(n)')
           /\ \A n \in Tasks : Overwritten(n) <=> Overwritten(n)'
<1>1. UNCHANGED <<now, pending, request, inHand>>
  BY DEF engine
<1>2. \A n : (Waiting(n) <=> Waiting(n)') /\ (Taken(n) <=> Taken(n)') /\ (Open(n) <=> Open(n)')
  BY <1>1 DEF Waiting, Taken, Open, SameHolders
<1>3. Submitted' = Submitted /\ \A n \in Tasks : Overwritten(n) <=> Overwritten(n)'
  BY <1>1 DEF Submitted, Overwritten
<1>4. Filed'
  BY <1>1, <1>2, <1>3 DEF Filed, SameHolders
<1>5. QED
  BY <1>2, <1>3, <1>4

\* One filed request is popped by somebody who holds it from then on, or is only looked at.
Pops(i) ==
    /\ pending[i] # 0 /\ UNCHANGED <<now, request>>
    /\ pending' \in {pending, [pending EXCEPT ![i] = 0]}
    /\ \A n : Taken(n)' <=> Taken(n) \/ (n = pending[i] /\ pending' # pending)
    /\ \A w \in Workers : work'[w].at = "approve" =>
        work'[w].held = pending[i] \/ (work[w].at = "approve" /\ work'[w].held = work[w].held)
    /\ \A h \in inHand' : h \in inHand \/ h.task = pending[i]

LEMMA FiledPops ==
    ASSUME TypeOK, Filed, NEW i \in Ids, Pops(i)
    PROVE  /\ Filed' /\ Submitted' = Submitted
           /\ \A n : Waiting(n)' <=> Waiting(n)
           /\ \A j \in Ids : pending'[j] \in {0, pending[j]}
<1>1. /\ Submitted' = Submitted
      /\ \A n : (Waiting(n)' <=> Waiting(n)) /\ (Open(n)' <=> Open(n))
      /\ \A n \in Tasks : Overwritten(n)' <=> Overwritten(n)
  BY DEF Pops, Submitted, Waiting, Open, Overwritten
<1>2. /\ pending' = pending \/ pending'[i] = 0
      /\ \A j \in Ids \ {i} : pending'[j] = pending[j]
      /\ \A j \in Ids : pending'[j] \in {0, pending[j]}
  BY DEF Pops, TypeOK
<1>3. pending[i] \in Submitted /\ request[pending[i]].id = i
  <2>1. pending[i] \in Tasks
    BY BoundFacts DEF Pops, TypeOK, Ids, Tasks
  <2>2. QED
    BY <2>1 DEF Pops, Filed, Open, Submitted
<1>4. ASSUME NEW j \in Ids, NEW n \in Tasks, pending'[j] = n
      PROVE  request'[n].id = j /\ Open(n)' /\ ~Taken(n)'
  <2>1. n # 0
    BY DEF Tasks
  <2>2. pending[j] = n
    BY <1>2, <1>4, <2>1
  <2>3. request[n].id = j /\ Open(n) /\ ~Taken(n)
    BY <2>2 DEF Filed
  <2>4. n = pending[i] => pending' = pending
    BY <1>2, <1>3, <1>4, <2>1, <2>3
  <2>5. QED
    BY <1>1, <2>3, <2>4 DEF Pops
<1>5. ASSUME NEW n \in Tasks, Waiting(n)'
      PROVE  pending'[request'[n].id] = n \/ Taken(n)' \/ Overwritten(n)'
  <2>1. Waiting(n) /\ request' = request /\ request[n].id \in Ids
    BY <1>1, <1>5 DEF Pops, TypeOK
  <2>2. CASE pending[request[n].id] = n /\ request[n].id # i
    BY <1>2, <2>1, <2>2
  <2>3. CASE pending[request[n].id] = n /\ request[n].id = i
    BY <1>2, <2>1, <2>3 DEF Pops
  <2>4. CASE Taken(n) \/ Overwritten(n)
    BY <1>1, <2>4 DEF Pops
  <2>5. QED
    BY <2>1, <2>2, <2>3, <2>4 DEF Filed
<1>6. /\ \A w \in Workers : work'[w].at = "approve" => work'[w].held \in Submitted'
      /\ \A h \in inHand' : h.task \in Submitted'
  BY <1>1, <1>3 DEF Pops, Filed
<1>7. now' <= Cardinality(Submitted')
  BY <1>1 DEF Pops, Filed
<1>8. Filed'
  BY <1>4, <1>5, <1>6, <1>7 DEF Filed
<1>9. QED
  BY <1>1, <1>2, <1>8

\* The status of a request is written: by one who popped it, or it is escalated.
Writes(m, st) ==
    /\ m \in Submitted /\ st \in Verdicts
    /\ request' = [request EXCEPT ![m].status = st] /\ UNCHANGED <<now, pending>>
    /\ st # "escalated" => Taken(m)
    /\ \A n \in Tasks : Taken(n)' => Taken(n)
    /\ \A n \in Tasks \ {m} : Taken(n) => Taken(n)'
    /\ \A w \in Workers : work'[w].at = "approve" => work[w].at = "approve" /\ work'[w].held = work[w].held
    /\ inHand' \subseteq inHand

LEMMA FiledWrites ==
    ASSUME TypeOK, Filed, NEW m, NEW st, Writes(m, st)
    PROVE  /\ Filed' /\ Submitted' = Submitted
           /\ \A n \in Tasks : Waiting(n)' => Waiting(n)
<1>1. m \in Tasks /\ m \in Submitted /\ st \in Statuses /\ st \in Verdicts
  BY DEF Writes, Submitted, Statuses, Verdicts
<1>2. /\ request'[m] = [status |-> st, id |-> request[m].id]
      /\ \A n \in Tasks \ {m} : request'[n] = request[n]
  BY <1>1, StatusFacts DEF Writes
<1>3. request'[m].status = st /\ request'[m].id = request[m].id
  BY <1>2
<1>4. Submitted' = Submitted
  BY <1>1, <1>2, <1>3 DEF Submitted, Verdicts
<1>5. \A n \in Tasks : Waiting(n)' => Waiting(n) /\ n # m
  BY <1>1, <1>2, <1>3 DEF Waiting, Verdicts
<1>6. \A n \in Submitted : Overwritten(n) => Overwritten(n)'
  <2>1. \A n \in Tasks : request[n].status # "none" => SameTaker(n)
    BY <1>1, <1>2, <1>3 DEF SameTaker, Verdicts
  <2>2. QED
    BY <2>1, OverwrittenStays
<1>7. ASSUME NEW j \in Ids, NEW n \in Tasks, pending'[j] = n
      PROVE  request'[n].id = j /\ Open(n)' /\ ~Taken(n)'
  <2>1. pending[j] = n
    BY <1>7 DEF Writes
  <2>2. request[n].id = j /\ Open(n) /\ ~Taken(n)
    BY <2>1 DEF Filed
  <2>3. request'[n].id = j /\ Open(n)'
    BY <1>2, <1>3, <2>2 DEF Writes, Open
  <2>4. ~Taken(n)'
    BY <2>2 DEF Writes
  <2>5. QED
    BY <2>3, <2>4
<1>8. ASSUME NEW n \in Tasks, Waiting(n)'
      PROVE  pending'[request'[n].id] = n \/ Taken(n)' \/ Overwritten(n)'
  <2>1. Waiting(n) /\ n # m /\ n \in Submitted
    BY <1>5, <1>8 DEF Waiting, Submitted
  <2>2. pending[request[n].id] = n \/ Taken(n) \/ Overwritten(n)
    BY <2>1 DEF Filed
  <2>3. QED
    BY <1>2, <1>6, <2>1, <2>2 DEF Writes
<1>9. /\ \A w \in Workers : work'[w].at = "approve" => work'[w].held \in Submitted'
      /\ \A h \in inHand' : h.task \in Submitted'
  BY <1>4 DEF Writes, Filed
<1>10. now' <= Cardinality(Submitted')
  BY <1>4 DEF Writes, Filed
<1>11. Filed'
  BY <1>7, <1>8, <1>9, <1>10 DEF Filed
<1>12. QED
  BY <1>4, <1>5, <1>11

\* A task that has not asked for approval does, with an id that is the last one or the next.
LEMMA FiledSubmits ==
    ASSUME TypeOK, Tasked, Filed, Followed, NEW w \in Workers, Submit(w)
    PROVE  /\ Filed'
           /\ \A n \in Submitted : n \in Submitted' /\ n # work[w].task
           /\ \A n \in Tasks \ {work[w].task} : Waiting(n)' <=> Waiting(n)
           /\ Decide(work[w].results).approval => work[w].task \in Submitted'
           /\ \A j \in Ids : pending'[j] = pending[j] \/ pending'[j] = work[w].task
           /\ \A j \in Ids : pending[j] # work[w].task
<1> DEFINE n == work[w].task
<1>1. n \in Tasks /\ request[n] = NoRequest /\ now' \in Ids /\ now' <= Cardinality(Submitted')
  BY NowFacts DEF Requested
<1>2. SameHolders
  <2>1. work[w].at = "step" /\ work'[w].at = "submitted" /\ \A v \in Workers \ {w} : work'[v] = work[v]
    BY SubmitMove DEF Submit
  <2>2. inHand' = inHand
    BY DEF Submit
  <2>3. QED
    BY <2>1, <2>2 DEF SameHolders
<1>3. \A m : Taken(m)' <=> Taken(m)
  BY <1>2 DEF Taken, SameHolders
<1> HIDE DEF n
<1>4. ~Open(n) /\ ~Waiting(n) /\ n \notin Submitted /\ n # 0
  BY <1>1 DEF Open, Waiting, Submitted, NoRequest, Tasks
<1>5. ~Taken(n)
  BY <1>4 DEF Taken, Filed
<1>6. \A j \in Ids : pending[j] # n
  BY <1>1, <1>4 DEF Filed
<1>7. CASE Decide(work[w].results).approval
  <2>1. request' = [request EXCEPT ![n] = [status |-> IF Waits(w) THEN "pending" ELSE "approved", id |-> now']]
    BY <1>7 DEF Submit, Waits, Decision, n
  <2>2. pending' = IF Waits(w) THEN [pending EXCEPT ![now'] = n] ELSE pending
    BY <1>7 DEF Submit, Waits, Decision, n
  <2>3. /\ request'[n] = [status |-> IF Waits(w) THEN "pending" ELSE "approved", id |-> now']
        /\ \A m \in Tasks \ {n} : request'[m] = request[m]
    BY <1>1, <2>1 DEF TypeOK
  <2>4. /\ Waits(w) => pending'[now'] = n
        /\ \A j \in Ids : pending'[j] = pending[j] \/ (Waits(w) /\ j = now' /\ pending'[j] = n)
    BY <1>1, <2>2 DEF TypeOK
  <2>5. \A m \in Tasks : request[m].status # "none" => m # n /\ SameTaker(m)
    BY <1>1, <2>3 DEF SameTaker, NoRequest
  <2>6. \A m \in Submitted : m \in Submitted' /\ m # n /\ (Overwritten(m) => Overwritten(m)')
    BY <2>5, OverwrittenStays DEF Submitted
  <2>7. \A m \in Tasks \ {n} : Waiting(m)' <=> Waiting(m)
    BY <2>3 DEF Waiting
  <2>8. n \in Submitted'
    BY <1>1, <2>3 DEF Submitted
  <2>9. ASSUME NEW j \in Ids, NEW m \in Tasks, pending'[j] = m
        PROVE  request'[m].id = j /\ Open(m)' /\ ~Taken(m)'
    <3>1. CASE pending[j] = m
      <4>1. m # n /\ request[m].id = j /\ Open(m) /\ ~Taken(m)
        BY <1>6, <3>1 DEF Filed
      <4>2. QED
        BY <1>3, <2>3, <4>1 DEF Open
    <3>2. CASE Waits(w) /\ j = now' /\ m = n
      BY <1>3, <1>5, <2>3, <3>2 DEF Open
    <3>3. QED
      BY <2>4, <2>9, <3>1, <3>2
  <2>10. ASSUME NEW m \in Tasks, Waiting(m)'
         PROVE  pending'[request'[m].id] = m \/ Taken(m)' \/ Overwritten(m)'
    <3>1. CASE m = n
      <4>1. Waits(w) /\ request'[m].id = now'
        BY <2>3, <2>10, <3>1 DEF Waiting
      <4>2. QED
        BY <2>4, <3>1, <4>1
    <3>2. CASE m # n
      <4>1. Waiting(m) /\ m \in Submitted /\ request'[m] = request[m] /\ request[m].id \in Ids
        BY <2>3, <2>7, <2>10, <3>2 DEF Waiting, Submitted, TypeOK
      <4>2. CASE Overwritten(m)
        BY <2>6, <4>1, <4>2
      <4>3. CASE Taken(m)
        BY <1>3, <4>3
      <4>4. CASE pending[request[m].id] = m /\ request[m].id = now'
        <5>1. n \in Tasks \ {m} /\ request'[n].status # "none" /\ request'[n].id = request'[m].id
          BY <1>1, <2>3, <3>2, <4>1, <4>4
        <5>2. QED
          BY <5>1 DEF Overwritten
      <4>5. CASE pending[request[m].id] = m /\ request[m].id # now'
        BY <2>4, <4>1, <4>5
      <4>6. QED
        BY <4>1, <4>2, <4>3, <4>4, <4>5 DEF Filed
    <3>3. QED
      BY <3>1, <3>2
  <2>11. /\ \A v \in Workers : work'[v].at = "approve" => work'[v].held \in Submitted'
         /\ \A h \in inHand' : h.task \in Submitted'
    BY <1>2, <2>6 DEF SameHolders, Filed
  <2>12. Filed'
    BY <1>1, <2>9, <2>10, <2>11 DEF Filed
  <2>13. QED
    BY <1>6, <2>4, <2>6, <2>7, <2>8, <2>12 DEF n
<1>8. CASE ~Decide(work[w].results).approval
  <2>1. UNCHANGED engine
    BY <1>8 DEF Submit, engine
  <2>2. Filed' /\ Submitted' = Submitted /\ (\A m : Waiting(m) <=> Waiting(m)') /\ pending' = pending
    BY <1>2, <2>1, FiledSame DEF engine
  <2>3. QED
    BY <1>4, <1>6, <1>8, <2>2 DEF n
<1>9. QED
  BY <1>7, <1>8

\* Those that decide and the reports: no request comes back to be filed.
Settled(v) ==
    work'[v].at \in {"resolve", "approve"} /\ request'[work'[v].task].status = "pending" =>
        \A i \in Ids : pending'[i] = work'[v].task => i \in work'[v].listed
LEMMA FollowedKept ==
    ASSUME TypeOK, Filed, Followed, Submitted' = Submitted,
           \A n \in Tasks : Waiting(n)' => Waiting(n),
           \A j \in Ids : pending'[j] \in {0, pending[j]},
           Deciding' = Deciding, UNCHANGED <<died, reports>>,
           \A v \in Deciding : work'[v].task = work[v].task /\ work'[v].results = work[v].results,
           \A v \in Deciding : work'[v] = work[v] \/ Settled(v)
    PROVE  Followed'
<1>1. \A j \in Ids : pending'[j] # 0 => pending'[j] = pending[j] /\ pending[j] \in Tasks
  BY BoundFacts DEF TypeOK, Ids, Tasks
<1>2. ASSUME NEW j \in Ids
      PROVE  \/ pending'[j] \in {0} \cup died' \cup {work'[v].task : v \in Deciding'}
             \/ request'[pending'[j]].status # "pending"
  <2>1. CASE pending'[j] = 0
    BY <2>1
  <2>2. CASE pending'[j] # 0 /\ ~Waiting(pending[j])
    BY <1>1, <2>2 DEF Waiting
  <2>3. CASE pending'[j] # 0 /\ Waiting(pending[j])
    BY <1>1, <2>3 DEF Followed
  <2>4. QED
    BY <2>1, <2>2, <2>3
<1>3. ASSUME NEW v \in Deciding'
      PROVE  /\ Len(work'[v].results) = 5
             /\ Decide(work'[v].results).approval => work'[v].task \in Submitted'
             /\ Settled(v)
  <2>1. /\ Len(work'[v].results) = 5
        /\ Decide(work'[v].results).approval => work'[v].task \in Submitted'
    BY DEF Followed
  <2>2. CASE work'[v] = work[v]
    <3>1. work[v].task \in Tasks
      BY WorkCases DEF Deciding, AtEnd, AtEndLabels
    <3>2. request'[work[v].task].status = "pending" => Waiting(work[v].task)
      BY <3>1 DEF Waiting
    <3>3. \A i \in Ids : pending'[i] = work[v].task => pending[i] = work[v].task
      BY <1>1, <3>1 DEF Tasks
    <3>4. QED
      BY <2>1, <2>2, <3>2, <3>3 DEF Followed, Settled
  <2>3. QED
    BY <2>1, <2>2
<1>4. ASSUME NEW n \in Reported'
      PROVE  /\ reports'[n].decision.approval => n \in Submitted'
             /\ Waiting(n)' => \A i \in Ids : pending'[i] # n
  <2>1. n \in Reported /\ n \in Tasks /\ reports' = reports /\ n # 0
    BY DEF Reported, Tasks
  <2>2. QED
    BY <1>1, <2>1 DEF Followed
<1>5. QED
  BY <1>2, <1>3, <1>4 DEF Followed, Settled, Waiting

\* Nothing happens to requests or to those that decide.
LEMMA RequestedSame ==
    ASSUME TypeOK, Requested, UNCHANGED <<engine, died, reports>>, SameHolders, Deciding' = Deciding,
           \A v \in Deciding : work'[v] = work[v]
    PROVE  Requested'
<1>1. Filed /\ Followed
  BY DEF Requested
<1>2. Filed' /\ Submitted' = Submitted /\ \A n : Waiting(n) <=> Waiting(n)'
  BY <1>1, FiledSame
<1>3. pending' = pending
  BY DEF engine
<1>4. Followed'
  BY <1>1, <1>2, <1>3, FollowedKept
<1>5. QED
  BY <1>2, <1>4 DEF Requested

\* A task lists what is pending, its own request with the others; it is done with its own
\* when it has popped it.
LEMMA ListsOwn ==
    ASSUME TypeOK, Requested, NEW w \in Workers, TestStatus(w) \/ ListPending(w)
    PROVE  Requested'
<1>1. /\ Deciding' = Deciding /\ w \in Deciding /\ SameResults /\ ResolvedTo(w, work'[w])
      /\ \A v \in Workers \ {w} : work'[v] = work[v]
  BY ResolveMove DEF Resolves
<1>2. UNCHANGED <<engine, died, reports>> /\ UNCHANGED <<pending, request, inHand>>
  BY DEF TestStatus, ListPending, engine
<1>3. work[w].at \in {"submitted", "list"} /\ work'[w].at \in {"list", "resolve"}
  <2>1. work[w].at \in {"submitted", "list"}
    BY DEF TestStatus, ListPending
  <2>2. CASE work[w].at = "submitted"
    BY <1>1, <2>2 DEF ResolvedTo, Ended
  <2>3. CASE work[w].at = "list"
    <3>1. work'[w] = Ended(work[w], "resolve", PendingIds, 0)
      BY <1>1, <2>3 DEF ResolvedTo
    <3>2. work'[w].at = "resolve"
      BY <3>1 DEF Ended
    <3>3. QED
      BY <2>3, <3>2
  <2>4. QED
    BY <2>1, <2>2, <2>3
<1>4. SameHolders
  BY <1>1, <1>2, <1>3 DEF SameHolders
<1>5. /\ Filed /\ Followed /\ Filed' /\ Submitted' = Submitted
      /\ \A n : Waiting(n) <=> Waiting(n)'
  BY <1>2, <1>4, FiledSame DEF Requested
<1>6. Settled(w)
  <2>1. CASE TestStatus(w)
    <3>1. work[w].at = "submitted" /\ work'[w].task = work[w].task
      BY <1>1, <2>1 DEF TestStatus, SameResults, SameSessions, SameTasks
    <3>2. work'[w].at = IF request[work[w].task].status = "pending" THEN "list" ELSE "resolve"
      BY <1>1, <3>1 DEF ResolvedTo, Ended, ListPending, PopOne, ApproveOne
    <3>3. QED
      BY <1>2, <3>1, <3>2 DEF Settled
  <2>2. CASE ListPending(w)
    <3>1. work[w].at = "list"
      BY <2>2 DEF ListPending
    <3>2. work'[w].listed = PendingIds
      BY <1>1, <3>1 DEF ResolvedTo, Ended, TestStatus, PopOne, ApproveOne
    <3>3. work'[w].task = work[w].task /\ work[w].task \in Tasks
      BY <1>1, WorkCases DEF SameResults, SameSessions, SameTasks, Deciding, AtEnd, AtEndLabels
    <3>4. \A i \in Ids : pending[i] = work[w].task => i \in PendingIds
      BY <3>3 DEF PendingIds, TypeOK, Tasks
    <3>5. QED
      BY <1>2, <3>2, <3>3, <3>4 DEF Settled
  <2>3. QED
    BY <2>1, <2>2
<1>7. \A v \in Deciding : work'[v].task = work[v].task /\ work'[v].results = work[v].results
  BY <1>1 DEF SameResults, SameSessions, SameTasks, Deciding
<1>8. \A v \in Deciding : work'[v] = work[v] \/ Settled(v)
  BY <1>1, <1>6 DEF Deciding
<1>9. Followed'
  BY <1>1, <1>2, <1>5, <1>7, <1>8, FollowedKept
<1>10. QED
  BY <1>5, <1>9 DEF Requested

LEMMA PopsOne ==
    ASSUME TypeOK, Requested, NEW w \in Workers, PopOne(w)
    PROVE  Requested'
<1>1. /\ Deciding' = Deciding /\ w \in Deciding /\ SameResults /\ ResolvedTo(w, work'[w])
      /\ \A v \in Workers \ {w} : work'[v] = work[v]
  BY ResolveMove DEF Resolves
<1>2. UNCHANGED <<now, request, inHand, died, reports>> /\ work[w].at = "resolve"
  BY DEF PopOne
<1>3. PICK i \in Ids :
        /\ i = Oldest(work[w].listed) /\ pending[i] \in Tasks
        /\ work'[w] = Ended(work[w], "approve", work[w].listed \ {i}, pending[i])
  BY <1>1, <1>2 DEF ResolvedTo, TestStatus, ListPending, ApproveOne
<1>4. pending' = [pending EXCEPT ![i] = 0]
  BY <1>3 DEF PopOne
<1>5. pending[i] # 0 /\ pending'[i] = 0 /\ pending' # pending
  BY <1>3, <1>4 DEF TypeOK, Tasks
<1>6. work'[w].at = "approve" /\ work'[w].held = pending[i] /\ work'[w].listed = work[w].listed \ {i}
  BY <1>3 DEF Ended
<1>7. Pops(i)
  <2>1. ASSUME NEW n PROVE Taken(n)' <=> Taken(n) \/ n = pending[i]
    <3>1. CASE n = pending[i]
      BY <1>6, <3>1 DEF Taken
    <3>2. CASE n # pending[i]
      BY <1>1, <1>2, <1>6, <3>2 DEF Taken
    <3>3. QED
      BY <3>1, <3>2
  <2>2. QED
    BY <1>1, <1>2, <1>4, <1>5, <1>6, <2>1 DEF Pops
<1>8. /\ Filed /\ Followed /\ Filed' /\ Submitted' = Submitted
      /\ \A n : Waiting(n)' <=> Waiting(n)
      /\ \A j \in Ids : pending'[j] \in {0, pending[j]}
  BY <1>7, FiledPops DEF Requested
<1>9. \A v \in Deciding : work'[v].task = work[v].task /\ work'[v].results = work[v].results
  BY <1>1 DEF SameResults, SameSessions, SameTasks, Deciding
<1>10. Settled(w)
  <2>1. work[w].task \in Tasks
    BY <1>1, WorkCases DEF Deciding, AtEnd, AtEndLabels
  <2>2. request[work[w].task].status = "pending" =>
          \A j \in Ids : pending[j] = work[w].task => j \in work[w].listed
    BY <1>1, <1>2, <1>8 DEF Followed, Waiting
  <2>3. \A j \in Ids : pending'[j] = work[w].task => pending[j] = work[w].task /\ j # i
    BY <1>5, <1>8, <2>1 DEF Tasks
  <2>4. QED
    BY <1>1, <1>2, <1>6, <1>9, <2>2, <2>3 DEF Settled
<1>11. \A v \in Deciding : work'[v] = work[v] \/ Settled(v)
  BY <1>1, <1>10 DEF Deciding
<1>12. Followed'
  BY <1>1, <1>2, <1>8, <1>9, <1>11, FollowedKept
<1>13. QED
  BY <1>8, <1>12 DEF Requested

LEMMA ApprovesOne ==
    ASSUME TypeOK, Requested, NEW w \in Workers, ApproveOne(w)
    PROVE  Requested'
<1> DEFINE m == work[w].held
<1>1. /\ Deciding' = Deciding /\ w \in Deciding /\ SameResults /\ ResolvedTo(w, work'[w])
      /\ \A v \in Workers \ {w} : work'[v] = work[v]
  BY ResolveMove DEF Resolves
<1>2. /\ UNCHANGED <<now, pending, inHand, died, reports>> /\ work[w].at = "approve"
      /\ request' = [request EXCEPT ![m].status = "approved"]
  BY DEF ApproveOne
<1>3. work'[w].at = "resolve" /\ work'[w].listed = work[w].listed
  BY <1>1, <1>2 DEF ResolvedTo, TestStatus, ListPending, PopOne, Ended
<1>4. Filed /\ Followed /\ m \in Submitted
  BY <1>2 DEF Requested, Filed
<1> HIDE DEF m
<1>5. Writes(m, "approved")
  <2>1. Taken(m)
    BY <1>2 DEF Taken, m
  <2>2. \A n \in Tasks : Taken(n)' => Taken(n)
    BY <1>1, <1>2, <1>3 DEF Taken
  <2>3. \A n \in Tasks \ {m} : Taken(n) => Taken(n)'
    BY <1>1, <1>2 DEF Taken, m
  <2>4. \A v \in Workers : work'[v].at = "approve" => work[v].at = "approve" /\ work'[v].held = work[v].held
    BY <1>1, <1>3
  <2>5. "approved" \in Verdicts
    BY DEF Verdicts
  <2>6. QED
    BY <1>2, <1>4, <2>1, <2>2, <2>3, <2>4, <2>5 DEF Writes
<1>6. Filed' /\ Submitted' = Submitted /\ \A n \in Tasks : Waiting(n)' => Waiting(n)
  BY <1>4, <1>5, FiledWrites
<1>7. \A v \in Deciding : work'[v].task = work[v].task /\ work'[v].results = work[v].results
  BY <1>1 DEF SameResults, SameSessions, SameTasks, Deciding
<1>8. Settled(w)
  <2>1. work[w].task \in Tasks
    BY <1>1, WorkCases DEF Deciding, AtEnd, AtEndLabels
  <2>2. request'[work[w].task].status = "pending" => Waiting(work[w].task)
    BY <1>6, <2>1 DEF Waiting
  <2>3. Waiting(work[w].task) => \A j \in Ids : pending[j] = work[w].task => j \in work[w].listed
    BY <1>1, <1>2, <1>4 DEF Followed
  <2>4. QED
    BY <1>1, <1>2, <1>3, <1>7, <2>2, <2>3 DEF Settled
<1>9. \A v \in Deciding : work'[v] = work[v] \/ Settled(v)
  BY <1>1, <1>8 DEF Deciding
<1>10. Followed'
  BY <1>1, <1>2, <1>4, <1>6, <1>7, <1>9, FollowedKept
<1>11. QED
  BY <1>6, <1>10 DEF Requested

\* A reviewer takes up a request, or writes what became of it.
LEMMA Reviews ==
    ASSUME TypeOK, Requested, UNCHANGED <<work, died, reports>>, Filed', Submitted' = Submitted,
           \A n \in Tasks : Waiting(n)' => Waiting(n),
           \A j \in Ids : pending'[j] \in {0, pending[j]}
    PROVE  Requested'
<1>1. Filed /\ Followed
  BY DEF Requested
<1>2. Deciding' = Deciding /\ \A v \in Deciding : work'[v] = work[v]
  BY DEF Deciding
<1>3. Followed'
  BY <1>1, <1>2, FollowedKept
<1>4. QED
  BY <1>3 DEF Requested

LEMMA TakesUp ==
    ASSUME TypeOK, Requested, NEW i \in Ids, NEW verdict \in Verdicts, TakeUp(i, verdict)
    PROVE  Requested'
<1>1. UNCHANGED <<work, died, reports, now, request>> /\ pending[i] # 0
  BY DEF TakeUp
<1>2. PICK h : h.task = pending[i] /\ h.verdict = verdict /\ inHand' = inHand \cup {h}
  BY DEF TakeUp
<1>3. /\ verdict = "escalated" => pending' = pending
      /\ verdict # "escalated" => pending' = [pending EXCEPT ![i] = 0] /\ pending' # pending
  <2>1. pending' = [pending EXCEPT ![i] = IF verdict = "escalated" THEN pending[i] ELSE 0]
    BY DEF TakeUp
  <2>2. QED
    BY <1>1, <2>1 DEF TypeOK
<1>4. Pops(i)
  <2>1. \A n : Taken(n)' <=> Taken(n) \/ (n = pending[i] /\ pending' # pending)
    BY <1>1, <1>2, <1>3 DEF Taken
  <2>2. QED
    BY <1>1, <1>2, <1>3, <2>1 DEF Pops
<1>5. QED
  BY <1>1, <1>4, FiledPops, Reviews DEF Requested

LEMMA Settles ==
    ASSUME TypeOK, Requested, NEW h \in inHand, Settle(h)
    PROVE  Requested'
<1>1. /\ UNCHANGED <<work, died, reports, now, pending>>
      /\ request' = [request EXCEPT ![h.task].status = h.verdict]
      /\ inHand' = inHand \ {h}
  BY DEF Settle
<1>2. h.task \in Submitted /\ h.verdict \in Verdicts
  BY DEF Requested, Filed, TypeOK
<1>3. Writes(h.task, h.verdict)
  BY <1>1, <1>2 DEF Writes, Taken
<1>4. \A j \in Ids : pending'[j] \in {0, pending[j]}
  BY <1>1
<1>5. QED
  BY <1>1, <1>3, <1>4, FiledWrites, Reviews DEF Requested

\* A task that reports has nothing left on its list; one that dies leaves what is filed.
LEMMA Leaves ==
    ASSUME TypeOK, Requested, NEW w \in Workers, ResolveRaises(w) \/ Report(w)
    PROVE  Requested'
<1> DEFINE t == work[w].task
<1>1. /\ Deciding' = Deciding \ {w} /\ w \in Deciding /\ work[w] \in AtEnd /\ work[w].at = "resolve"
      /\ \A v \in Workers \ {w} : work'[v] = work[v]
  BY LeaveMove
<1>2. UNCHANGED engine /\ UNCHANGED <<pending, request, inHand>>
  BY DEF ResolveRaises, Report, engine
<1>3. work'[w].at = "idle"
  BY LeaveFacts DEF Becomes, Idle
<1>4. SameHolders
  BY <1>1, <1>2, <1>3 DEF SameHolders
<1>5. /\ Filed /\ Followed /\ Filed' /\ Submitted' = Submitted
      /\ \A n : Waiting(n) <=> Waiting(n)'
  BY <1>2, <1>4, FiledSame DEF Requested
<1>6. \A v \in Deciding' : v \in Deciding /\ work'[v] = work[v]
  BY <1>1 DEF Deciding
<1>7. ASSUME NEW v \in Deciding'
      PROVE  /\ Len(work'[v].results) = 5
             /\ Decide(work'[v].results).approval => work'[v].task \in Submitted'
             /\ Settled(v)
  BY <1>2, <1>5, <1>6 DEF Followed, Settled, Waiting
<1>8. t \in Tasks /\ \A n \in Tasks \ {t} : reports'[n] = reports[n]
  BY ReportFacts
<1>9. \A j \in Ids : Waiting(pending[j]) /\ pending[j] = t => t \in died'
  <2>1. CASE ResolveRaises(w)
    BY <2>1 DEF ResolveRaises, Caught
  <2>2. CASE Report(w)
    <3>1. work[w].listed = {}
      BY <2>2 DEF Report
    <3>2. QED
      BY <1>1, <1>5, <3>1 DEF Followed
  <2>3. QED
    BY <2>1, <2>2
<1>10. died \subseteq died'
  BY DEF ResolveRaises, Report, Caught
<1>11. ASSUME NEW j \in Ids
       PROVE  \/ pending'[j] \in {0} \cup died' \cup {work'[v].task : v \in Deciding'}
              \/ request'[pending'[j]].status # "pending"
  <2>1. CASE ~Waiting(pending[j])
    BY <1>2, <2>1 DEF Waiting
  <2>2. CASE Waiting(pending[j]) /\ pending[j] = t
    BY <1>2, <1>9, <2>2
  <2>3. CASE Waiting(pending[j]) /\ pending[j] \in {0} \cup died
    BY <1>2, <1>10, <2>3
  <2>4. CASE Waiting(pending[j]) /\ pending[j] \notin {0} \cup died \cup {t}
    <3>1. PICK v \in Deciding : pending[j] = work[v].task
      BY <1>5, <2>4 DEF Followed
    <3>2. v \in Deciding' /\ work'[v] = work[v]
      BY <1>1, <1>6, <2>4, <3>1
    <3>3. QED
      BY <1>2, <3>1, <3>2
  <2>5. QED
    BY <2>1, <2>2, <2>3, <2>4
<1>12. ASSUME NEW n \in Reported'
       PROVE  /\ reports'[n].decision.approval => n \in Submitted'
              /\ Waiting(n)' => \A i \in Ids : pending'[i] # n
  <2>1. n \in Tasks
    BY DEF Reported
  <2>2. CASE n \in Reported /\ reports'[n] = reports[n]
    BY <1>2, <1>5, <2>2 DEF Followed
  <2>3. CASE Report(w) /\ n = t
    <3>1. reports'[t] =
            [session |-> work[w].session, decision |-> Decide(work[w].results),
             steps |-> work[w].results,
             success |-> \A i \in DOMAIN work[w].results : work[w].results[i].status = "completed"]
      BY <2>3, ReportFacts
    <3>2. reports'[n].decision = Decide(work[w].results)
      BY <2>3, <3>1
    <3>3. Decide(work[w].results).approval => n \in Submitted'
      BY <1>1, <1>5, <2>3 DEF Followed
    <3>4. work[w].listed = {}
      BY <2>3 DEF Report
    <3>5. Waiting(n) => \A i \in Ids : pending[i] # n
      BY <1>1, <1>5, <2>3, <3>4 DEF Followed
    <3>6. QED
      BY <1>2, <1>5, <3>2, <3>3, <3>5
  <2>4. QED
    <3>1. CASE Report(w)
      BY <1>8, <2>1, <2>2, <2>3, <3>1 DEF Reported
    <3>2. CASE ResolveRaises(w)
      <4>1. reports' = reports
        BY <3>2 DEF ResolveRaises
      <4>2. QED
        BY <2>2, <4>1 DEF Reported
    <3>3. QED
      BY <3>1, <3>2
<1> HIDE DEF t
<1>13. Followed'
  BY <1>7, <1>11, <1>12 DEF Followed, Settled, Waiting
<1>14. QED
  BY <1>5, <1>13 DEF Requested

LEMMA Submits ==
    ASSUME TypeOK, Tasked, Requested, NEW w \in Workers, Submit(w)
    PROVE  Requested'
<1> DEFINE n == work[w].task
<1>1. /\ Deciding' = Deciding \cup {w} /\ w \notin Deciding /\ w \in Busy /\ SameResults
      /\ work'[w].at = "submitted" /\ Len(work[w].results) = 5
      /\ \A v \in Workers \ {w} : work'[v] = work[v]
  BY SubmitMove
<1>2. UNCHANGED <<died, reports>> /\ Filed /\ Followed
  BY DEF Submit, Requested
<1>3. /\ Filed'
      /\ \A m \in Submitted : m \in Submitted' /\ m # n
      /\ \A m \in Tasks \ {n} : Waiting(m)' <=> Waiting(m)
      /\ Decide(work[w].results).approval => n \in Submitted'
      /\ \A j \in Ids : pending'[j] = pending[j] \/ pending'[j] = n
      /\ \A j \in Ids : pending[j] # n
  BY <1>2, FiledSubmits
<1>4. work'[w].task = n /\ work'[w].results = work[w].results
  BY <1>1 DEF SameResults, SameSessions, SameTasks, Busy
<1>5. \A v \in Deciding : work'[v] = work[v] /\ work[v].task \in Tasks \ {n}
  <2>1. \A v \in Deciding : work'[v] = work[v] /\ work[v].task # n
    BY <1>1 DEF Tasked, Deciding, Busy, AtEndLabels
  <2>2. \A v \in Deciding : work[v].task \in Tasks
    BY WorkCases DEF Deciding, AtEnd, AtEndLabels
  <2>3. QED
    BY <2>1, <2>2
<1>6. n \notin Reported
  BY <1>1 DEF Tasked, Reported
<1> HIDE DEF n
<1>7. ASSUME NEW j \in Ids
      PROVE  \/ pending'[j] \in {0} \cup died' \cup {work'[v].task : v \in Deciding'}
             \/ request'[pending'[j]].status # "pending"
  <2>1. CASE pending'[j] = n
    BY <1>1, <1>4, <2>1
  <2>2. CASE pending'[j] = pending[j] /\ pending[j] = 0
    BY <2>2
  <2>3. CASE pending'[j] = pending[j] /\ pending[j] # 0 /\ Waiting(pending[j])
    BY <1>1, <1>2, <1>5, <2>3 DEF Followed
  <2>4. CASE pending'[j] = pending[j] /\ pending[j] # 0 /\ ~Waiting(pending[j])
    <3>1. pending[j] \in Tasks \ {n}
      BY <1>3, <2>4, BoundFacts DEF TypeOK, Ids, Tasks
    <3>2. QED
      BY <1>3, <2>4, <3>1 DEF Waiting
  <2>5. QED
    BY <1>3, <2>1, <2>2, <2>3, <2>4
<1>8. ASSUME NEW v \in Deciding'
      PROVE  /\ Len(work'[v].results) = 5
             /\ Decide(work'[v].results).approval => work'[v].task \in Submitted'
             /\ Settled(v)
  <2>1. CASE v = w
    BY <1>1, <1>3, <1>4, <2>1 DEF Settled
  <2>2. CASE v # w
    <3>1. v \in Deciding /\ work'[v] = work[v] /\ work[v].task \in Tasks \ {n}
      BY <1>1, <1>5, <2>2
    <3>2. /\ Len(work[v].results) = 5
          /\ Decide(work[v].results).approval => work[v].task \in Submitted'
      BY <1>2, <1>3, <3>1 DEF Followed
    <3>3. request'[work[v].task].status = "pending" => Waiting(work[v].task)
      BY <1>3, <3>1 DEF Waiting
    <3>4. \A i \in Ids : pending'[i] = work[v].task => pending[i] = work[v].task
      BY <1>3, <3>1
    <3>5. QED
      BY <1>2, <3>1, <3>2, <3>3, <3>4 DEF Followed, Settled
  <2>3. QED
    BY <2>1, <2>2
<1>9. ASSUME NEW m \in Reported'
      PROVE  /\ reports'[m].decision.approval => m \in Submitted'
             /\ Waiting(m)' => \A i \in Ids : pending'[i] # m
  <2>1. m \in Reported /\ m \in Tasks \ {n} /\ reports' = reports
    BY <1>2, <1>6 DEF Reported
  <2>2. QED
    BY <1>2, <1>3, <2>1 DEF Followed
<1>10. Followed'
  BY <1>7, <1>8, <1>9 DEF Followed, Settled, Waiting
<1>11. QED
  BY <1>3, <1>10 DEF Requested

LEMMA RequestedStep ==
    ASSUME TypeOK, Tasked, Planned, Answered, Requested, [Next]_vars
    PROVE  Requested'
<1>1. ASSUME NEW w \in Workers, NEW o \in Orders, NEW fresh \in BOOLEAN, Begin(w, o, fresh)
      PROVE  Requested'
  <2>1. UNCHANGED <<engine, died, reports>> /\ inHand' = inHand
    BY <1>1 DEF Begin, engine
  <2>2. /\ w \notin Busy /\ Deciding' = Deciding /\ work'[w].at = "planned"
        /\ \A v \in Workers \ {w} : work'[v] = work[v]
    <3>1. work'[w] = [at |-> "planned", task |-> Len(asked'), plan |-> PlanOf(o, fresh)]
      BY <1>1, BeginMove
    <3>2. work'[w].at = "planned"
      BY <3>1
    <3>3. QED
      BY <1>1, <3>2, BeginMove
  <2>3. /\ \A v \in Deciding : work'[v] = work[v]
        /\ SameHolders
    BY <2>1, <2>2 DEF Busy, Deciding, AtEndLabels, SameHolders
  <2>4. QED
    BY <2>1, <2>2, <2>3, RequestedSame
<1>2. ASSUME NEW w \in Workers, Execute(w) \/ TakeStep(w) PROVE Requested'
  <2>1. UNCHANGED <<engine, died, reports>> /\ inHand' = inHand
    BY <1>2 DEF Execute, TakeStep, RunExpert, ExpertFails, Degrade, engine
  <2>2. /\ Deciding' = Deciding /\ w \notin Deciding
        /\ \A v \in Workers \ {w} : work'[v] = work[v]
    <3>1. CASE Execute(w)
      BY <3>1, ExecuteMove
    <3>2. CASE TakeStep(w)
      BY <3>2, StepFacts, StepMove
    <3>3. QED
      BY <1>2, <3>1, <3>2
  <2>3. /\ \A v \in Deciding : work'[v] = work[v]
        /\ work[w].at # "approve" /\ work'[w].at # "approve"
    BY <2>2 DEF Deciding, AtEndLabels
  <2>4. SameHolders
    BY <2>1, <2>2, <2>3 DEF SameHolders
  <2>5. QED
    BY <2>1, <2>2, <2>3, <2>4, RequestedSame
<1>3. CASE UNCHANGED vars
  <2>1. UNCHANGED <<engine, died, reports, work>> /\ inHand' = inHand
    BY <1>3 DEF vars, engine
  <2>2. Deciding' = Deciding /\ SameHolders /\ \A v \in Deciding : work'[v] = work[v]
    BY <2>1 DEF Deciding, SameHolders
  <2>3. QED
    BY <2>1, <2>2, RequestedSame
<1>4. QED
  BY <1>1, <1>2, <1>3, Submits, ListsOwn, PopsOne, ApprovesOne, Leaves, TakesUp, Settles
     DEF Next, TakeStep

-----------------------------------------------------------------------------
(* The invariant. *)

LEMMA InitIInv == Init => IInv
<1> SUFFICES ASSUME Init PROVE IInv
  OBVIOUS
<1>1. /\ \A w \in Workers : work[w] = Idle /\ work[w].at = "idle"
      /\ inHand = {}
      /\ Busy = {} /\ Stepping = {} /\ Deciding = {}
  BY DEF Init, Idle, Busy, Stepping, Deciding, AtEndLabels
<1>2. asked = <<>> /\ Len(asked) = 0 /\ Begun = {}
  BY DEF Init, Begun
<1>3. \A n \in Tasks : reports[n] = NoReport /\ request[n] = NoRequest
  BY DEF Init
<1>4. Reported = {} /\ Submitted = {}
  BY <1>3 DEF Reported, Submitted, NoRequest
<1>5. TypeOK
  <2>1. 0 \in Ids /\ MaxTasks \in Nat
    BY BoundFacts DEF Ids
  <2>2. agents \subseteq Experts
    <3>1. {Types[i] : i \in DOMAIN Types} \subseteq Experts
      BY DEF Types, Experts
    <3>2. QED
      BY <3>1, RosterAssumption DEF Init
  <2>3. asked \in Seq(Orders) /\ Len(asked) <= MaxTasks
    BY <1>2, <2>1, EmptySeq
  <2>4. work \in [Workers -> Works] /\ \A w \in Stepping : Len(work[w].results) <= 5
    BY <1>1 DEF Init, Works
  <2>5. request \in [Tasks -> [status : {"none", "pending", "approved", "rejected", "escalated"}, id : Ids]]
    BY <2>1 DEF Init, NoRequest
  <2>6. /\ rows \in [Orders -> Cases]
        /\ cached \in [Orders -> Ids] /\ stamped \in [Tasks -> Ids]
        /\ facts \in [Tasks -> [Kinds -> Orders \cup {NoOrder}]]
        /\ now \in Nat /\ pending \in [Ids -> Ids] /\ died \subseteq Tasks
    BY <2>1 DEF Init
  <2>7. reports = [n \in Tasks |-> reports[n]]
    BY DEF Init
  <2>8. QED
    BY <1>1, <2>2, <2>3, <2>4, <2>5, <2>6, <2>7 DEF TypeOK
<1>6. Tasked
  BY <1>1, <1>2, <1>3 DEF Tasked, Init
<1>7. Planned
  BY <1>1, <1>4 DEF Planned, Init
<1>8. Answered
  BY <1>1, <1>4 DEF Answered, Init
<1>9. Requested
  <2>1. Cardinality(Submitted) = 0
    BY <1>4, FS_EmptySet
  <2>2. now = 0 /\ \A i \in Ids : pending[i] = 0
    BY DEF Init
  <2>3. \A n \in Tasks : ~Waiting(n)
    BY <1>3 DEF Waiting, NoRequest
  <2>4. \A i \in Ids, n \in Tasks : pending[i] # n
    BY <2>2 DEF Tasks
  <2>5. Filed
    BY <1>1, <2>1, <2>2, <2>3, <2>4 DEF Filed
  <2>6. Followed
    BY <1>1, <1>4, <2>2 DEF Followed
  <2>7. QED
    BY <2>5, <2>6 DEF Requested
<1>10. QED
  BY <1>5, <1>6, <1>7, <1>8, <1>9 DEF IInv

LEMMA IInvStep == IInv /\ [Next]_vars => IInv'
BY TypeStep, TaskedStep, PlannedStep, AnsweredStep, RequestedStep DEF IInv

LEMMA Invariance == Spec => []IInv
BY InitIInv, IInvStep, PTL DEF Spec

\* Diagnosis keeps its types: the clock of the approvals is never past the number of
\* requests submitted, so that an id always fits.
THEOREM TypeCorrect == Spec => []TypeOK
<1>1. IInv => TypeOK
  BY DEF IInv
<1>2. QED
  BY <1>1, Invariance, PTL

\* run_task reports on the order it was asked about, whichever task's session the cached
\* plan had by the time the coordinator copied it.
THEOREM ReportOnOrderAskedHolds == Spec => []ReportOnOrderAsked
<1>1. IInv => ReportOnOrderAsked
  BY DEF IInv, Planned, ReportOnOrderAsked
<1>2. QED
  BY <1>1, Invariance, PTL

\* The steps of a report, as they must be in a session about the order asked for.
LEMMA ReportedSteps ==
    ASSUME IInv, NEW n \in Reported
    PROVE  /\ FaithfulTo(asked[n], rows[asked[n]], facts[reports[n].session], reports[n].steps)
           /\ DOMAIN reports[n].steps = 1..5
           /\ reports[n].decision = Decide(reports[n].steps)
           /\ \A i \in 1..5 : Own(n, i) <=> OwnStep(reports[n].steps, i)
<1>1. /\ Faithful(reports[n].session, reports[n].steps) /\ asked[reports[n].session] = asked[n]
      /\ reports[n].steps \in Seq(StepResults) /\ Len(reports[n].steps) = 5
      /\ reports[n].decision = Decide(reports[n].steps)
  BY DEF IInv, Answered, Planned
<1>2. DOMAIN reports[n].steps = 1..5
  BY <1>1, LenProperties
<1>3. QED
  BY <1>1, <1>2 DEF Faithful, Own, OwnStep

\* The operation agent advises on the payment and the risk of the order asked about when
\* their experts completed those steps.
THEOREM AdviceMatchesOrderHolds == Spec => []AdviceMatchesOrder
<1>1. ASSUME IInv, NEW n \in Reported, \A i \in {2, 3, 5} : Own(n, i)
      PROVE  reports[n].steps[5].says = Advice(RiskOf(rows[asked[n]]), Primary(rows[asked[n]]).status)
  <2>1. OneFaithful(asked[n], rows[asked[n]], facts[reports[n].session], reports[n].steps, 5)
    BY <1>1, ReportedSteps DEF FaithfulTo
  <2>2. \A i \in {2, 3, 5} : OwnStep(reports[n].steps, i)
    BY <1>1, ReportedSteps
  <2>3. QED
    BY <2>1, <2>2 DEF OneFaithful
<1>2. IInv => AdviceMatchesOrder
  BY <1>1 DEF AdviceMatchesOrder
<1>3. QED
  BY <1>2, Invariance, PTL

\* What the decision engine extracts from the results of a task whose risk expert
\* answered: the risk of its order, and no code but that of its payment.
LEMMA Extracted ==
    ASSUME NEW o, NEW row, NEW kept, NEW results, DOMAIN results = 1..5,
           FaithfulTo(o, row, kept, results), OwnStep(results, 3), RiskOf(row) = "high"
    PROVE  /\ RiskLevel(results) = "high"
           /\ ErrorCode(results) \in {None, Primary(row).code}
<1>1. \A i \in 1..5 : OneFaithful(o, row, kept, results, i)
  BY DEF FaithfulTo
<1>2. results[3] = Completed(ExpertResult("risk", row))
  <2>1. OneFaithful(o, row, kept, results, 3)
    BY <1>1
  <2>2. QED
    BY <2>1, TypesFacts DEF OneFaithful
<1>3. results[3].risk = "high" /\ results[3].code = None
  BY <1>2 DEF Completed, ExpertResult, RiskResult, Result
<1>4. Risks(results) = {3}
  <2>1. \A i \in 1..5 : i # 3 => results[i].risk = None
    BY <1>1 DEF OneFaithful
  <2>2. 3 \in DOMAIN results /\ results[3].risk # None
    <3>1. 3 \in 1..5 /\ "high" # None
      BY DEF None
    <3>2. QED
      BY <1>3, <3>1
  <2>3. \A i \in DOMAIN results : results[i].risk # None <=> i = 3
    BY <2>1, <2>2
  <2>4. QED
    BY <2>2, <2>3 DEF Risks
<1>5. RiskLevel(results) = "high"
  <2>1. Min({3}) = 3
    BY DEF Min
  <2>2. QED
    BY <1>3, <1>4, <2>1 DEF RiskLevel
<1>6. Codes(results) \subseteq {2}
  <2> SUFFICES ASSUME NEW i \in 1..5, i # 2 PROVE results[i].code = None
    BY DEF Codes
  <2>1. OneFaithful(o, row, kept, results, i)
    BY <1>1
  <2>2. QED
    BY <1>3, <2>1 DEF OneFaithful
<1>7. CASE Codes(results) = {}
  BY <1>5, <1>7 DEF ErrorCode
<1>8. CASE Codes(results) = {2}
  <2>1. results[2].code # None
    BY <1>8 DEF Codes
  <2>2. OneFaithful(o, row, kept, results, 2)
    BY <1>1
  <2>3. OwnStep(results, 2)
    BY <2>1, <2>2 DEF OneFaithful
  <2>4. results[2] = Completed(ExpertResult("payment", row))
    BY <2>2, <2>3, TypesFacts DEF OneFaithful
  <2>5. results[2].code = Primary(row).code
    BY <2>4 DEF Completed, ExpertResult, PaymentResult, Result
  <2>6. Min({2}) = 2
    BY DEF Min
  <2>7. QED
    BY <1>5, <1>8, <2>5, <2>6 DEF ErrorCode
<1>9. QED
  BY <1>6, <1>7, <1>8

\* DecisionEngine lets a high-risk order pass without approval only by a rule for the code
\* of its payment, or when the risk expert did not answer.
THEOREM HighRiskUnreviewedHolds == Spec => []HighRiskUnreviewed
<1>1. ASSUME IInv, NEW n \in Reported, RiskOf(rows[asked[n]]) = "high",
             ~reports[n].decision.approval, Own(n, 3)
      PROVE  /\ Primary(rows[asked[n]]).code \in DOMAIN Rules
             /\ ~Rules[Primary(rows[asked[n]]).code].approval
  <2> DEFINE results == reports[n].steps
             code == Primary(rows[asked[n]]).code
  <2>1. /\ FaithfulTo(asked[n], rows[asked[n]], facts[reports[n].session], results)
        /\ DOMAIN results = 1..5 /\ reports[n].decision = Decide(results)
        /\ OwnStep(results, 3)
    BY <1>1, ReportedSteps
  <2>2. RiskLevel(results) = "high" /\ ErrorCode(results) \in {None, code}
    BY <1>1, <2>1, Extracted
  <2>3. None \notin DOMAIN Rules
    BY DEF None, Rules
  <2>4. ByRisk("high").approval
    BY DEF ByRisk, Rule
  <2> HIDE DEF results, code
  <2>5. ErrorCode(results) \in DOMAIN Rules
    BY <1>1, <2>1, <2>2, <2>4 DEF Decide
  <2>6. ErrorCode(results) = code
    BY <2>2, <2>3, <2>5
  <2>7. QED
    BY <1>1, <2>1, <2>5, <2>6 DEF Decide, code
<1>2. IInv => HighRiskUnreviewed
  BY <1>1 DEF HighRiskUnreviewed
<1>3. QED
  BY <1>2, Invariance, PTL

\* No task reports with its request PENDING, unless somebody has popped it or its id is
\* taken; when nobody works, what is filed was left by a task that died, or escalated.
THEOREM RequestsSettledHolds == Spec => []RequestsSettled
<1>1. ASSUME IInv, NEW n \in Reported, reports[n].decision.approval
      PROVE  request[n].status \in Verdicts \/ Taken(n) \/ Overwritten(n)
  <2>1. n \in Submitted /\ (Waiting(n) => \A i \in Ids : pending[i] # n)
    BY <1>1 DEF IInv, Requested, Followed
  <2>2. /\ n \in Tasks /\ request[n].id \in Ids
        /\ request[n].status \in {"none", "pending", "approved", "rejected", "escalated"}
    BY <1>1 DEF IInv, TypeOK, Reported
  <2>3. Waiting(n) => Taken(n) \/ Overwritten(n)
    BY <1>1, <2>1, <2>2 DEF IInv, Requested, Filed
  <2>4. QED
    BY <2>1, <2>2, <2>3 DEF Submitted, Waiting, Verdicts
<1>2. ASSUME IInv, \A w \in Workers : work[w] = Idle, NEW i \in DOMAIN pending, pending[i] # 0
      PROVE  pending[i] \in died \/ request[pending[i]].status = "escalated"
  <2>1. Deciding = {}
    BY <1>2 DEF Deciding, Idle, AtEndLabels
  <2>2. i \in Ids
    BY <1>2 DEF IInv, TypeOK
  <2>3. pending[i] \in Tasks
    BY <1>2, <2>2, BoundFacts DEF IInv, TypeOK, Ids, Tasks
  <2>4. Open(pending[i]) /\ (pending[i] \in died \/ ~Waiting(pending[i]))
    BY <1>2, <2>1, <2>2, <2>3 DEF IInv, Requested, Filed, Followed
  <2>5. QED
    BY <2>4 DEF Open, Waiting
<1>3. IInv => RequestsSettled
  BY <1>1, <1>2 DEF RequestsSettled
<1>4. QED
  BY <1>3, Invariance, PTL
=============================================================================
