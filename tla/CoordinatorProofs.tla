------------------------- MODULE CoordinatorProofs --------------------------
(* Proofs about Coordinator for every plan, every map of fallbacks, every set *)
(* of agents and every number of permits.  Resources come back because every  *)
(* way through a step leads to the one Destroy; a checkpoint is readable only *)
(* between two saves, where it lags by at most one transition of one step; so *)
(* no crash leaves a file that calls pending or failed a step that its own    *)
(* agent finished.                                                            *)
EXTENDS Coordinator, TLAPS, SequenceTheorems, FiniteSetTheorems

\* Inside a step an agent is initialised and a permit taken; elsewhere nothing is held.
Inside == {"save_run", "write_run", "run", "retry", "save_end", "write_end", "destroy"}
Before == {"idle", "save_init", "write_init"}
After == {"save_final", "write_final", "done"}
Labels == Inside \cup Before \cup After \cup {"dispatch", "raised", "down"}

Statuses == {"pending", "running", "completed", "failed"}
Plans == {"none", "failure", "success"}
Checkpoints == {NoFile} \cup [readable : {TRUE}, steps : [StepIds -> Statuses], plan : Plans]

TypeOK ==
    /\ agents \subseteq Types
    /\ pc \in Labels
    /\ k \in Nat \ {0}
    /\ pc \in Inside => k \in StepIds
    /\ steps \in [StepIds -> Statuses]
    /\ plan \in Plans
    /\ file \in Checkpoints
    /\ returned \subseteq StepIds

\* What is held, by where execute() is.
Held ==
    IF pc \in Inside
    THEN initialized = {Type} /\ sandboxes = {k} /\ permits = MaxConcurrent - 1
    ELSE initialized = {} /\ sandboxes = {} /\ permits = MaxConcurrent

\* While a file is being written it is not readable; otherwise it has every step as it
\* is in memory but the one under way.
AllBut(i) == \A j \in StepIds \ {i} : file.steps[j] = steps[j]
Synced ==
    /\ pc \in Before \cup WriteLabels => ~file.readable
    /\ file.readable =>
        /\ pc \in {"run", "retry", "destroy", "dispatch", "save_final", "done", "raised"} => file.steps = steps
        /\ pc = "save_run" => AllBut(k)
        /\ pc = "save_end" => AllBut(k) /\ (file.steps[k] = "running" \/ file.steps = steps)
    /\ pc \in {"save_run", "write_run", "run", "retry"} => steps[k] = "running"

\* A step that returned is behind the one under way or is ending now, and if its own agent
\* did it, neither the session nor the file calls it pending or failed.
Finished(s) == s \in {"running", "completed"}
Kept ==
    /\ \A i \in returned : Plan[i] \in agents =>
        /\ Finished(steps[i])
        /\ file.readable => Finished(file.steps[i])
    /\ pc # "down" =>
        \A i \in returned : i < k \/ (i = k /\ pc \in {"save_end", "write_end", "destroy"})

IInv == TypeOK /\ Held /\ Synced /\ Kept
-----------------------------------------------------------------------------
(* The parts of the invariant, one after the other. *)

\* The steps of a plan are numbered from one.
LEMMA PlanFacts ==
    /\ Len(Plan) \in Nat
    /\ StepIds = 1..Len(Plan)
    /\ MaxConcurrent \in Nat \ {0}
<1>1. Len(Plan) \in Nat /\ DOMAIN Plan = 1..Len(Plan)
  BY PlanAssumption, LenProperties
<1>2. QED
  BY <1>1, PermitAssumption DEF StepIds

\* Every step keeps the types.
LEMMA TypeStep ==
    ASSUME TypeOK, [Next]_vars
    PROVE  TypeOK'
<1> USE PlanFacts DEF TypeOK, Labels, Inside, Before, After, Statuses, Plans, session, process, history
<1>1. CASE Execute
  BY <1>1 DEF Execute
<1>2. CASE Open
  BY <1>2 DEF Open, SaveLabels, Opened, Checkpoints
<1>3. CASE Dump
  BY <1>3 DEF Dump, WriteLabels, Written, Snapshot, Checkpoints
<1>4. CASE DumpFails
  BY <1>4 DEF DumpFails, WriteLabels, Written
<1>5. CASE Assign
  BY <1>5 DEF Assign, SetStep, AfterAssign
<1>6. CASE DegradeStep
  BY <1>6 DEF DegradeStep
<1>7. CASE RunSucceeds
  BY <1>7 DEF RunSucceeds, SetStep
<1>8. CASE RunRaisesAgentError
  BY <1>8 DEF RunRaisesAgentError, AfterAgentError
<1>9. CASE RunFails
  BY <1>9 DEF RunFails, SetStep
<1>10. CASE RetrySucceeds
  BY <1>10 DEF RetrySucceeds
<1>11. CASE Destroy
  BY <1>11 DEF Destroy
<1>12. CASE Decide
  BY <1>12 DEF Decide
<1>13. CASE Crash
  BY <1>13 DEF Crash
<1>14. CASE DecideRaises
  BY <1>14 DEF DecideRaises
<1>15. CASE UNCHANGED vars
  BY <1>15 DEF vars, session, process, history
<1>16. QED
  BY <1>1, <1>2, <1>3, <1>4, <1>5, <1>6, <1>7, <1>8, <1>9, <1>10, <1>11, <1>12, <1>13, <1>14, <1>15
     DEF Next, Work

\* What a step takes, it gives back in Destroy; a crash takes everything.
LEMMA HeldStep ==
    ASSUME TypeOK, Held, [Next]_vars
    PROVE  Held'
<1> USE PlanFacts DEF TypeOK, Held, Labels, Inside, Type, session, process, history
<1>1. CASE Execute
  BY <1>1 DEF Execute
<1>2. CASE Open
  BY <1>2 DEF Open, SaveLabels, Opened
<1>3. CASE Dump
  BY <1>3 DEF Dump, WriteLabels, Written
<1>4. CASE DumpFails
  BY <1>4 DEF DumpFails, WriteLabels, Written
<1>5. CASE Assign
  BY <1>5 DEF Assign, AfterAssign
<1>6. CASE DegradeStep
  BY <1>6 DEF DegradeStep
<1>7. CASE RunSucceeds
  BY <1>7 DEF RunSucceeds
<1>8. CASE RunRaisesAgentError
  BY <1>8 DEF RunRaisesAgentError, AfterAgentError
<1>9. CASE RunFails
  BY <1>9 DEF RunFails
<1>10. CASE RetrySucceeds
  BY <1>10 DEF RetrySucceeds
<1>11. CASE Destroy
  BY <1>11 DEF Destroy, Destroyed, PermitBack
<1>12. CASE Decide
  BY <1>12 DEF Decide
<1>13. CASE Crash
  BY <1>13 DEF Crash
<1>14. CASE DecideRaises
  BY <1>14 DEF DecideRaises
<1>15. CASE UNCHANGED vars
  BY <1>15 DEF vars, session, process, history
<1>16. QED
  BY <1>1, <1>2, <1>3, <1>4, <1>5, <1>6, <1>7, <1>8, <1>9, <1>10, <1>11, <1>12, <1>13, <1>14, <1>15
     DEF Next, Work

\* Only an Open makes the file unreadable and only a Dump readable, as memory is then.
LEMMA SyncedStep ==
    ASSUME TypeOK, Synced, [Next]_vars
    PROVE  Synced'
<1> USE PlanFacts DEF TypeOK, Synced, AllBut, Labels, Inside, Before, WriteLabels, session, process, history
<1>1. CASE Execute
  BY <1>1 DEF Execute
<1>2. CASE Open
  BY <1>2 DEF Open, SaveLabels, Opened, NoFile
<1>3. CASE Dump
  BY <1>3 DEF Dump, Written, Snapshot
<1>4. CASE DumpFails
  BY <1>4 DEF DumpFails, Written
<1>5. CASE Assign
  BY <1>5 DEF Assign, AfterAssign, SetStep
<1>6. CASE DegradeStep
  BY <1>6 DEF DegradeStep
<1>7. CASE RunSucceeds
  BY <1>7 DEF RunSucceeds, SetStep
<1>8. CASE RunRaisesAgentError
  BY <1>8 DEF RunRaisesAgentError, AfterAgentError
<1>9. CASE RunFails
  BY <1>9 DEF RunFails, SetStep
<1>10. CASE RetrySucceeds
  BY <1>10 DEF RetrySucceeds
<1>11. CASE Destroy
  BY <1>11 DEF Destroy
<1>12. CASE Decide
  BY <1>12 DEF Decide
<1>13. CASE Crash
  BY <1>13 DEF Crash
<1>14. CASE DecideRaises
  BY <1>14 DEF DecideRaises
<1>15. CASE UNCHANGED vars
  BY <1>15 DEF vars, session, process, history
<1>16. QED
  BY <1>1, <1>2, <1>3, <1>4, <1>5, <1>6, <1>7, <1>8, <1>9, <1>10, <1>11, <1>12, <1>13, <1>14, <1>15
     DEF Next, Work

\* No later step, save or crash makes a step its own agent finished look unfinished.
LEMMA KeptStep ==
    ASSUME TypeOK, Synced, Kept, [Next]_vars
    PROVE  Kept'
<1> USE PlanFacts DEF TypeOK, Synced, Kept, AllBut, Finished, Labels, Inside, Before, WriteLabels, session, process, history
<1>1. CASE Execute
  BY <1>1 DEF Execute
<1>2. CASE Open
  BY <1>2 DEF Open, SaveLabels, Opened, NoFile
<1>3. CASE Dump
  BY <1>3 DEF Dump, Written, Snapshot
<1>4. CASE DumpFails
  BY <1>4 DEF DumpFails, Written
<1>5. CASE Assign
  BY <1>5 DEF Assign, AfterAssign, SetStep
<1>6. CASE DegradeStep
  <2>1. /\ pc = "dispatch" /\ pc' = pc /\ k' = k + 1 /\ Plan[k] \notin agents
        /\ UNCHANGED <<agents, steps, file>> /\ returned' \subseteq returned \cup {k}
    BY <1>6 DEF DegradeStep, Type
  <2>2. ASSUME NEW i \in returned' PROVE i < k'
    BY <2>1
  <2>3. ASSUME NEW i \in returned', Plan[i] \in agents PROVE i \in returned
    BY <2>1, <2>3
  <2>4. QED
    BY <2>1, <2>2, <2>3
<1>7. CASE RunSucceeds
  BY <1>7 DEF RunSucceeds, SetStep
<1>8. CASE RunRaisesAgentError
  BY <1>8 DEF RunRaisesAgentError, AfterAgentError
<1>9. CASE RunFails
  BY <1>9 DEF RunFails, SetStep
<1>10. CASE RetrySucceeds
  BY <1>10 DEF RetrySucceeds
<1>11. CASE Destroy
  BY <1>11 DEF Destroy
<1>12. CASE Decide
  BY <1>12 DEF Decide
<1>13. CASE Crash
  BY <1>13 DEF Crash
<1>14. CASE DecideRaises
  BY <1>14 DEF DecideRaises
<1>15. CASE UNCHANGED vars
  BY <1>15 DEF vars, session, process, history
<1>16. QED
  BY <1>1, <1>2, <1>3, <1>4, <1>5, <1>6, <1>7, <1>8, <1>9, <1>10, <1>11, <1>12, <1>13, <1>14, <1>15
     DEF Next, Work

\* Before execute() nothing is held, nothing has returned and there is no file.
LEMMA InitIInv == Init => IInv
<1> SUFFICES ASSUME Init PROVE IInv
  OBVIOUS
<1> USE PlanFacts DEF Init
<1>1. TypeOK
  BY DEF TypeOK, Labels, Inside, Before, Statuses, Plans, Checkpoints
<1>2. Held
  BY DEF Held, Inside
<1>3. Synced
  BY DEF Synced, Before, WriteLabels, NoFile
<1>4. Kept
  BY DEF Kept
<1>5. QED
  BY <1>1, <1>2, <1>3, <1>4 DEF IInv

\* The invariant holds in every reachable state.
THEOREM Invariance == Spec => []IInv
<1>1. IInv /\ [Next]_vars => IInv'
  BY TypeStep, HeldStep, SyncedStep, KeptStep DEF IInv
<1>2. QED
  BY InitIInv, <1>1, PTL DEF Spec

\* Every variable keeps its type.
THEOREM TypeCorrect == Spec => []TypeOK
<1>1. IInv => TypeOK
  BY DEF IInv
<1>2. QED
  BY <1>1, Invariance, PTL

-----------------------------------------------------------------------------
(* What follows from it. *)

\* Whichever way steps end, agents are destroyed and permits given back between them.
THEOREM ResourcesReturnedHolds == Spec => []ResourcesReturned
<1>1. IInv => ResourcesReturned
  BY DEF IInv, Held, Inside, ResourcesReturned
<1>2. QED
  BY <1>1, Invariance, PTL

\* A readable checkpoint lags behind the session by one transition of one step at most.
THEOREM CheckpointLagHolds == Spec => []CheckpointLag
<1>1. IInv => CheckpointLag
  <2> SUFFICES ASSUME IInv, pc # "down", file.readable, NEW i \in StepIds
               PROVE  \/ file.steps[i] = steps[i]
                      \/ i = k /\ pc = "save_run" /\ steps[i] = "running"
                      \/ i = k /\ pc = "save_end" /\ file.steps[i] = "running"
    BY DEF CheckpointLag
  <2> USE DEF IInv, Synced
  <2>1. CASE pc = "save_run"
    BY <2>1 DEF AllBut
  <2>2. CASE pc = "save_end"
    BY <2>2 DEF AllBut
  <2>3. CASE pc \notin {"save_run", "save_end"}
    <3>1. pc \in {"run", "retry", "destroy", "dispatch", "save_final", "done", "raised"}
      BY <2>3 DEF TypeOK, Labels, Inside, Before, After, WriteLabels
    <3>2. QED
      BY <3>1
  <2>4. QED
    BY <2>1, <2>2, <2>3
<1>2. QED
  BY <1>1, Invariance, PTL

\* A nonempty set of naturals has a least element.  The sets 0..(n - 1) stand for the
\* numbers, because finite sets are well founded under strict inclusion.
LEMMA NatMin ==
    ASSUME NEW S \in SUBSET Nat, S # {}
    PROVE  \E m \in S : \A n \in S : m <= n
<1> DEFINE R == StrictSubsetOrdering(Nat)
           Below == {0..(n - 1) : n \in S}
<1>1. IsWellFoundedOn(R, FiniteSubsetsOf(Nat))
  BY FS_StrictSubsetOrderingWellFounded
<1>2. Below \subseteq FiniteSubsetsOf(Nat)
  <2> SUFFICES ASSUME NEW n \in S PROVE 0..(n - 1) \in FiniteSubsetsOf(Nat)
    OBVIOUS
  <2>1. n \in Nat
    OBVIOUS
  <2>2. IsFiniteSet(0..(n - 1))
    BY <2>1, FS_Interval
  <2>3. QED
    BY <2>1, <2>2 DEF FiniteSubsetsOf
<1>3. PICK X \in Below : \A Y \in Below : <<Y, X>> \notin R
  <2> HIDE DEF R, Below
  <2>1. Below # {}
    BY DEF Below
  <2>2. QED
    BY <1>1, <1>2, <2>1, WFMin
<1>4. PICK m \in S : X = 0..(m - 1)
  OBVIOUS
<1>5. ASSUME NEW n \in S, n < m PROVE FALSE
  <2>1. m \in Nat /\ n \in Nat
    OBVIOUS
  <2>2. 0..(n - 1) \subseteq 0..(m - 1)
    BY <1>5, <2>1
  <2>3. n \in 0..(m - 1) /\ n \notin 0..(n - 1)
    BY <1>5, <2>1
  <2>4. <<0..(n - 1), 0..(m - 1)>> \in R
    BY <2>1, <2>2, <2>3 DEF StrictSubsetOrdering
  <2>5. QED
    BY <1>3, <1>4, <2>4
<1>6. QED
  BY <1>5

\* What get_next_step offers is a step that the file calls pending or failed, or none.
LEMMA NextStepFacts ==
    ASSUME TypeOK, file.readable
    PROVE  \/ NextStep = 0
           \/ NextStep \in StepIds /\ ToDo(file.steps[NextStep])
<1> DEFINE todo == {i \in StepIds : ToDo(file.steps[i])}
<1>1. NextStep = IF todo = {} THEN 0 ELSE CHOOSE i \in todo : \A j \in todo : i <= j
  BY DEF NextStep
<1>2. CASE todo = {}
  BY <1>1, <1>2
<1>3. CASE todo # {}
  <2>1. todo \in SUBSET Nat
    BY PlanFacts
  <2> HIDE DEF todo
  <2>2. \E i \in todo : \A j \in todo : i <= j
    BY <1>3, <2>1, NatMin
  <2>3. NextStep \in todo
    BY <1>1, <1>3, <2>2
  <2>4. QED
    BY <2>3 DEF todo
<1>4. QED
  BY <1>2, <1>3

\* After a crash or an exception at any point, a step that a resume repeats is one that a
\* fallback did, for every plan, every set of agents and every map of fallbacks.
THEOREM OnlyFallbacksRepeatedHolds == Spec => []OnlyFallbacksRepeated
<1>1. IInv => OnlyFallbacksRepeated
  <2> SUFFICES ASSUME IInv, Resumable, NextStep \in returned, Plan[NextStep] \in agents PROVE FALSE
    BY DEF OnlyFallbacksRepeated
  <2>1. file.readable
    BY DEF Resumable
  <2>2. NextStep \in StepIds /\ Finished(file.steps[NextStep])
    BY <2>1 DEF IInv, TypeOK, Kept
  <2>3. ToDo(file.steps[NextStep])
    BY <2>1, <2>2, NextStepFacts, PlanFacts DEF IInv
  <2>4. QED
    BY <2>2, <2>3 DEF Finished, ToDo
<1>2. QED
  BY <1>1, Invariance, PTL
-----------------------------------------------------------------------------
(* Refinement of SessionRecord. *)

\* What the transitions of the record depend on: the verdict comes last and is in a readable
\* file but while its own save is due; steps not yet reached are pending; and a failed step
\* has reported so.
Outcomes == {"completed", "failed"}
Told ==
    /\ results \in Seq(Outcomes)
    /\ pc \notin After \cup {"down"} => plan = "none"
    /\ file.readable /\ pc \notin {"save_final", "down"} => file.plan = plan
    /\ pc # "down" => \A j \in StepIds : steps[j] # "pending" => j < k \/ (j = k /\ pc \in Inside)
    /\ \A j \in StepIds : steps[j] = "failed" => HasFailedStep

\* A report adds to what was reported.
LEMMA ReportFacts ==
    ASSUME results \in Seq(Outcomes), NEW s \in Outcomes, Report(s)
    PROVE  /\ results' \in Seq(Outcomes)
           /\ HasFailedStep => HasFailedStep'
           /\ s = "failed" => HasFailedStep'
<1>1. results' = Append(results, s)
  BY DEF Report
<1>2. /\ results' \in Seq(Outcomes)
      /\ Len(results) \in Nat /\ DOMAIN results = 1..Len(results)
      /\ DOMAIN results' = 1..(Len(results) + 1)
      /\ \A i \in 1..Len(results) : results'[i] = results[i]
      /\ results'[Len(results) + 1] = s
  BY <1>1, AppendProperties, LenProperties
<1>3. 1..Len(results) \subseteq 1..(Len(results) + 1) /\ Len(results) + 1 \in 1..(Len(results) + 1)
  BY <1>2
<1>4. QED
  BY <1>2, <1>3 DEF HasFailedStep

\* Every step keeps what the record depends on.
LEMMA ToldStep ==
    ASSUME TypeOK, Synced, Told, [Next]_vars
    PROVE  Told'
<1> USE PlanFacts DEF TypeOK, Synced, Told, Labels, Inside, Before, After, WriteLabels, session, process, history
<1>1. CASE Execute
  BY <1>1 DEF Execute, HasFailedStep
<1>2. CASE Open
  BY <1>2 DEF Open, SaveLabels, Opened, NoFile, HasFailedStep
<1>3. CASE Dump
  BY <1>3 DEF Dump, Written, Snapshot, HasFailedStep
<1>4. CASE DumpFails
  BY <1>4 DEF DumpFails, Written, HasFailedStep
<1>5. CASE Assign
  BY <1>5 DEF Assign, AfterAssign, SetStep, HasFailedStep
<1>6. CASE DegradeStep
  <2>1. PICK s \in Outcomes : Report(s)
    BY <1>6 DEF DegradeStep, Outcomes
  <2>2. results' \in Seq(Outcomes) /\ (HasFailedStep => HasFailedStep')
    BY <2>1, ReportFacts
  <2>3. QED
    BY <1>6, <2>2 DEF DegradeStep
<1>7. CASE RunSucceeds
  <2>1. results' \in Seq(Outcomes) /\ (HasFailedStep => HasFailedStep')
    BY <1>7, ReportFacts DEF RunSucceeds, Outcomes
  <2>2. QED
    BY <1>7, <2>1 DEF RunSucceeds, SetStep
<1>8. CASE RunRaisesAgentError
  BY <1>8 DEF RunRaisesAgentError, AfterAgentError, HasFailedStep
<1>9. CASE RunFails
  <2>1. results' \in Seq(Outcomes) /\ HasFailedStep'
    BY <1>9, ReportFacts DEF RunFails, Outcomes
  <2>2. QED
    BY <1>9, <2>1 DEF RunFails, SetStep
<1>10. CASE RetrySucceeds
  <2>1. results' \in Seq(Outcomes) /\ (HasFailedStep => HasFailedStep')
    BY <1>10, ReportFacts DEF RetrySucceeds, Outcomes
  <2>2. QED
    BY <1>10, <2>1 DEF RetrySucceeds
<1>11. CASE Destroy
  BY <1>11 DEF Destroy, HasFailedStep
<1>12. CASE Decide
  BY <1>12 DEF Decide, HasFailedStep
<1>13. CASE Crash
  BY <1>13 DEF Crash, HasFailedStep
<1>14. CASE DecideRaises
  BY <1>14 DEF DecideRaises, HasFailedStep
<1>15. CASE UNCHANGED vars
  BY <1>15 DEF vars, HasFailedStep
<1>16. QED
  BY <1>1, <1>2, <1>3, <1>4, <1>5, <1>6, <1>7, <1>8, <1>9, <1>10, <1>11, <1>12, <1>13, <1>14, <1>15
     DEF Next, Work

\* Whenever a transition is due, the file tells all of them or cannot be read.
LEMMA RecordCurrent ==
    ASSUME TypeOK, Synced, Told, pc \in {"run", "retry", "dispatch"}
    PROVE  Record!UpToDate /\ plan = "none"
<1>1. plan = "none"
  BY DEF Told, After
<1>2. CASE file.readable
  <2>1. file.steps = steps /\ file.plan = plan
    BY <1>2 DEF Synced, Told
  <2>2. file \in [readable : {TRUE}, steps : [StepIds -> Statuses], plan : Plans]
    <3>1. file # NoFile
      BY <1>2 DEF NoFile
    <3>2. QED
      BY <3>1 DEF TypeOK, Checkpoints
  <2>3. file = Record!Current
    BY <2>1, <2>2 DEF Record!Current
  <2>4. QED
    BY <1>1, <2>3 DEF Record!UpToDate
<1>3. CASE ~file.readable
  BY <1>1, <1>3 DEF TypeOK, Checkpoints, NoFile, Record!UpToDate, Record!Lost
<1>4. QED
  BY <1>2, <1>3 DEF TypeOK, Checkpoints, NoFile

\* Every step of the coordinator is a transition of the record, or invisible.
LEMMA RecordStep ==
    ASSUME TypeOK, Synced, Told, [Next]_vars
    PROVE  Record!Next \/ UNCHANGED Record!vars
<1> USE PlanFacts DEF TypeOK, Record!vars, session, process, history
<1>1. CASE Execute
  BY <1>1 DEF Execute
<1>2. CASE Open
  <2>1. pc # "down" /\ pc' # "down" /\ file' = Record!Lost /\ UNCHANGED <<steps, plan>>
    BY <1>2 DEF Open, SaveLabels, Opened, NoFile, Record!Lost
  <2>2. CASE file = Record!Lost
    BY <2>1, <2>2
  <2>3. CASE file # Record!Lost
    BY <2>1, <2>3 DEF Record!Lose, Record!Next
  <2>4. QED
    BY <2>2, <2>3
<1>3. CASE Dump
  <2>1. pc # "down" /\ pc' # "down" /\ file' = Record!Current /\ UNCHANGED <<steps, plan>>
    BY <1>3 DEF Dump, WriteLabels, Written, Snapshot, Record!Current
  <2>2. file = Record!Lost
    BY <1>3 DEF Dump, Synced, Checkpoints, NoFile, Record!Lost
  <2>3. QED
    BY <2>1, <2>2 DEF Record!Save, Record!Next
<1>4. CASE DumpFails
  BY <1>4 DEF DumpFails, WriteLabels, Written
<1>5. CASE Assign
  <2>1. pc = "dispatch" /\ k \in StepIds /\ pc' # "down" /\ UNCHANGED <<plan, file>>
        /\ steps' = [steps EXCEPT ![k] = "running"]
    BY <1>5 DEF Assign, AfterAssign, SetStep
  <2>2. \A j \in StepIds : j >= k => steps[j] = "pending"
    BY <2>1 DEF Told, Inside
  <2>3. Record!Begin(k)
    BY <2>1, <2>2, RecordCurrent DEF Record!Begin
  <2>4. QED
    BY <2>1, <2>3 DEF Record!Next
<1>6. CASE DegradeStep
  BY <1>6 DEF DegradeStep
<1>7. ASSUME NEW outcome \in {"completed", "failed"}, pc \in {"run", "retry"}, pc' = "save_end",
             steps' = [steps EXCEPT ![k] = outcome], UNCHANGED <<plan, file>>
      PROVE  Record!Next
  <2>1. k \in StepIds /\ steps[k] = "running"
    BY <1>7 DEF Inside, Synced
  <2>2. \A j \in StepIds : j > k => steps[j] = "pending"
    BY <1>7, <2>1 DEF Told
  <2>3. Record!End(k, outcome)
    BY <1>7, <2>1, <2>2, RecordCurrent DEF Record!End
  <2>4. QED
    BY <2>1, <2>3 DEF Record!Next
<1>8. CASE RunSucceeds
  BY <1>7, <1>8 DEF RunSucceeds, SetStep
<1>9. CASE RunFails
  BY <1>7, <1>9 DEF RunFails, SetStep
<1>10. CASE RunRaisesAgentError
  BY <1>10 DEF RunRaisesAgentError, AfterAgentError
<1>11. CASE RetrySucceeds
  BY <1>11 DEF RetrySucceeds
<1>12. CASE Destroy
  BY <1>12 DEF Destroy
<1>13. CASE Decide
  <2>1. pc = "dispatch" /\ pc' # "down" /\ UNCHANGED <<steps, file>>
        /\ plan' = IF HasFailedStep THEN "failure" ELSE "success"
    BY <1>13 DEF Decide
  <2>2. plan' = "success" => \A i \in StepIds : steps[i] # "failed"
    BY <2>1 DEF Told
  <2>3. Record!Conclude(plan')
    BY <2>1, <2>2, RecordCurrent DEF Record!Conclude
  <2>4. QED
    BY <2>1, <2>3 DEF Record!Next
<1>14. CASE Crash
  BY <1>14 DEF Crash, Record!Die, Record!Next
<1>15. CASE DecideRaises
  BY <1>15 DEF DecideRaises
<1>16. CASE UNCHANGED vars
  BY <1>16 DEF vars
<1>17. QED
  BY <1>1, <1>2, <1>3, <1>4, <1>5, <1>6, <1>8, <1>9, <1>10, <1>11, <1>12, <1>13, <1>14, <1>15, <1>16
     DEF Next, Work

\* The coordinator implements the abstract record of a session, for every plan, every set
\* of agents and every fallback: no transition is made before the one it follows is on
\* record, unless that record was lost.
THEOREM RecordRefinement == Spec => ImplementsRecord
<1>1. Init => Record!Init
  BY DEF Init, NoFile, Record!Init, Record!Lost
<1>2. Init => Told
  <2>1. <<>> \in Seq(Outcomes)
    BY EmptySeq
  <2>2. QED
    BY <2>1 DEF Init, Told, NoFile, After
<1>3. IInv /\ Told /\ [Next]_vars => Told'
  BY ToldStep DEF IInv
<1>4. IInv /\ Told /\ [Next]_vars => [Record!Next]_Record!vars
  BY RecordStep DEF IInv
<1>5. QED
  BY Invariance, <1>1, <1>2, <1>3, <1>4, PTL DEF Spec, ImplementsRecord, Record!Spec
=============================================================================
