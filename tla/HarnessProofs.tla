--------------------------- MODULE HarnessProofs ----------------------------
(* Proofs about Harness for every plan, every assignment of agent types and   *)
(* dependencies, every map of agents and every size of the pool.  A batch is  *)
(* entered when the ones before it are in the results, though their tasks may *)
(* still run; a task is submitted once, so what it ended with stands; and an  *)
(* agent's sandbox belongs to a task that uses that agent.                    *)
EXTENDS Harness, TLAPS, SequenceTheorems, FiniteSetTheorems

Collecting == {"collect", "serial"}
InAgent == {"check", "create", "run", "release", "clear"}
Unstarted == {"idle", "queued", "start"}
Labels == Unstarted \cup InAgent \cup {"done"}

TypeOK ==
    /\ agent_map \subseteq Types /\ registered \subseteq Types
    /\ lifecycle \in [Types -> {"uninitialized", "running", "degrading", "retrying", "failed", "completed"}]
    /\ main \in {"idle", "submit", "shutdown", "returned", "raised"} \cup Collecting
    /\ depth \in Nat /\ pos \in Nat
    /\ pool \in Seq(Tasks)
    /\ pc \in [Tasks -> Labels]
    /\ attempt \in [Tasks -> 0..MaxRetries]
    /\ agent \in [Tasks -> Types \cup {NoAgent}]
    /\ outcome \in [Tasks -> {"none", "completed", "failed", "raised"}]
    /\ reported \in [Tasks -> {"none", "completed", "failed"}]
    /\ initialized \in [Types -> BOOLEAN]
    /\ sandbox \in [Types -> Tasks \cup {NoTask}]
    /\ sandboxes \subseteq Tasks

\* No task is ahead of its batch, and the batches before are in the results.
Batched ==
    /\ \A t \in Tasks : pc[t] # "idle" => main # "idle" /\ Depth(t) <= depth
    /\ main # "idle" => \A t \in Tasks : Depth(t) < depth => reported[t] # "none"
    /\ main \in Collecting \cup {"submit"} => pos \in Batch(depth)
    /\ main \in Collecting => \A i \in Batch(depth) : i < pos => reported[Plan[i]] # "none"
    /\ main = "submit" => \A i \in Batch(depth) : i >= pos => pc[Plan[i]] = "idle"

\* A task waits in the pool once.
Pooled ==
    /\ \A i \in DOMAIN pool : pc[pool[i]] = "queued"
    /\ \A i, j \in DOMAIN pool : pool[i] = pool[j] => i = j

\* What a task ended with stands, in the results and in the lifecycle of a type of its own.
Sole(t) == \A u \in Tasks \ {t} : AgentType[u] # AgentType[t]
Ended ==
    /\ \A t \in Tasks : pc[t] = "done" <=> outcome[t] # "none"
    /\ HonestReport
    /\ main = "returned" => \A t \in Tasks : pc[t] = "done"
    /\ \A t \in Tasks : Sole(t) /\ pc[t] = "done" /\ outcome[t] # "raised" =>
           lifecycle[AgentType[t]] = outcome[t]

\* An agent has the sandbox of a task that uses it; one that uses it alone keeps its own
\* until it releases it.
OwnBox(t) ==
    Alone(t) /\ agent[t] # NoAgent =>
        /\ initialized[agent[t]] => sandbox[agent[t]] = t
        /\ pc[t] \in {"run", "release"} => initialized[agent[t]]
        /\ pc[t] \in {"check", "run"} /\ initialized[agent[t]] => t \in sandboxes
        /\ pc[t] = "clear" => t \notin sandboxes
        /\ pc[t] = "done" /\ t \in sandboxes => outcome[t] = "failed"
Boxed ==
    /\ \A t \in Tasks : /\ pc[t] \in Unstarted => agent[t] = NoAgent
                        /\ pc[t] \in InAgent => agent[t] # NoAgent
    /\ \A a \in Types : initialized[a] => \E t \in Tasks : agent[t] = a
    /\ \A a \in Types : sandbox[a] # NoTask => agent[sandbox[a]] = a
    /\ \A t \in Tasks : OwnBox(t)

IInv == TypeOK /\ Batched /\ Pooled /\ Ended /\ Boxed
-----------------------------------------------------------------------------
(* Plans and batches. *)

LEMMA PlanFacts ==
    /\ DOMAIN Plan \subseteq Nat /\ Plan # <<>>
    /\ \A i \in DOMAIN Plan : Plan[i] \in Tasks
    /\ \A t \in Tasks : \E i \in DOMAIN Plan : Plan[i] = t
    /\ \A i, j \in DOMAIN Plan : Plan[i] = Plan[j] => i = j
    /\ \A t \in Tasks : Depth(t) \in Nat /\ AgentType[t] \in Types
<1>1. Plan \in Seq(Tasks) /\ Plan # <<>> /\ \A i, j \in DOMAIN Plan : Plan[i] = Plan[j] => i = j
  BY PlanAssumption
<1>2. DOMAIN Plan = 1..Len(Plan) /\ Len(Plan) \in Nat
  BY <1>1, LenProperties
<1>3. Tasks = {Plan[i] : i \in DOMAIN Plan}
  BY DEF Tasks, ToSet
<1>4. \A t \in Tasks : Depth(t) \in Nat
  BY PlanAssumption, FS_CardinalityType DEF Depth
<1>5. QED
  BY <1>1, <1>2, <1>3, <1>4 DEF Types

\* A nonempty set of naturals has a least element.  The sets 0..(n - 1) stand for the
\* numbers, because finite sets are well founded under strict inclusion.
LEMMA NatMin ==
    ASSUME NEW S \in SUBSET Nat, S # {}
    PROVE  \E m \in S : \A n \in S : m <= n
<1> DEFINE R == StrictSubsetOrdering(Nat)
           Below == {0..(n - 1) : n \in S}
<1>1. IsWellFoundedOn(R, FiniteSubsetsOf(Nat))
  BY FS_StrictSubsetOrderingWellFounded
<1>2. Below \subseteq FiniteSubsetsOf(Nat)
  <2> SUFFICES ASSUME NEW n \in S PROVE 0..(n - 1) \in FiniteSubsetsOf(Nat)
    OBVIOUS
  <2>1. n \in Nat
    OBVIOUS
  <2>2. IsFiniteSet(0..(n - 1))
    BY <2>1, FS_Interval
  <2>3. QED
    BY <2>1, <2>2 DEF FiniteSubsetsOf
<1>3. PICK X \in Below : \A Y \in Below : <<Y, X>> \notin R
  <2> HIDE DEF R, Below
  <2>1. Below # {}
    BY DEF Below
  <2>2. QED
    BY <1>1, <1>2, <2>1, WFMin
<1>4. PICK m \in S : X = 0..(m - 1)
  OBVIOUS
<1>5. ASSUME NEW n \in S, n < m PROVE FALSE
  <2>1. m \in Nat /\ n \in Nat
    OBVIOUS
  <2>2. 0..(n - 1) \subseteq 0..(m - 1)
    BY <1>5, <2>1
  <2>3. n \in 0..(m - 1) /\ n \notin 0..(n - 1)
    BY <1>5, <2>1
  <2>4. <<0..(n - 1), 0..(m - 1)>> \in R
    BY <2>1, <2>2, <2>3 DEF StrictSubsetOrdering
  <2>5. QED
    BY <1>3, <1>4, <2>4
<1>6. QED
  BY <1>5

LEMMA LeastFacts ==
    ASSUME NEW S \in SUBSET Nat, S # {}
    PROVE  /\ Min(S) \in S /\ \A n \in S : Min(S) <= n
           /\ FirstOf(S) \in S /\ \A n \in S : FirstOf(S) <= n
<1>1. \E m \in S : \A n \in S : m <= n
  BY NatMin
<1>2. Min(S) \in S /\ \A n \in S : Min(S) <= n
  BY <1>1 DEF Min
<1>3. FirstOf(S) \in S /\ \A n \in S : FirstOf(S) <= n
  BY <1>1 DEF FirstOf
<1>4. QED
  BY <1>2, <1>3

\* A batch that is entered is the first of those asked for, at its first task.
LEMMA EnterFacts ==
    ASSUME NEW ds \in SUBSET Depths, ds # {}, EnterBatch(ds)
    PROVE  /\ depth' \in ds /\ depth' \in Nat /\ \A d \in ds : depth' <= d
           /\ pos' \in Batch(depth') /\ pos' \in Nat /\ \A i \in Batch(depth') : pos' <= i
           /\ main' \in {"submit", "serial"}
<1>1. ds \in SUBSET Nat
  BY PlanFacts DEF Depths
<1>2. depth' \in ds /\ \A d \in ds : depth' <= d
  <2>1. depth' = FirstOf(ds)
    BY DEF EnterBatch
  <2>2. QED
    BY <1>1, <2>1, LeastFacts
<1>3. Batch(depth') \in SUBSET Nat /\ Batch(depth') # {}
  <2>1. PICK t \in Tasks : Depth(t) = depth'
    BY <1>2 DEF Depths
  <2>2. PICK i \in DOMAIN Plan : Plan[i] = t
    BY PlanFacts
  <2>3. QED
    BY <2>1, <2>2, PlanFacts DEF Batch
<1>4. pos' = Min(Batch(depth')) /\ main' \in {"submit", "serial"}
  BY DEF EnterBatch
<1>5. pos' \in Batch(depth') /\ \A i \in Batch(depth') : pos' <= i
  BY <1>3, <1>4, LeastFacts
<1>6. QED
  BY <1>1, <1>2, <1>3, <1>4, <1>5

\* The current task, and those of its batch that come after it.
LEMMA CurrentFacts ==
    ASSUME Batched, main \in Collecting \cup {"submit"}
    PROVE  /\ Current \in Tasks /\ Depth(Current) = depth
           /\ pos \in DOMAIN Plan /\ pos \in Nat
           /\ Later # {} => /\ Min(Later) \in Batch(depth) /\ Min(Later) \in Nat /\ Min(Later) > pos
                            /\ \A i \in Batch(depth) : i > pos => Min(Later) <= i
<1>1. pos \in DOMAIN Plan /\ Depth(Plan[pos]) = depth
  BY DEF Batched, Batch
<1>2. Later \in SUBSET Nat
  BY PlanFacts DEF Later, Batch
<1>3. ASSUME Later # {}
      PROVE  /\ Min(Later) \in Batch(depth) /\ Min(Later) \in Nat /\ Min(Later) > pos
             /\ \A i \in Batch(depth) : i > pos => Min(Later) <= i
  <2>1. Min(Later) \in Later /\ \A i \in Later : Min(Later) <= i
    BY <1>2, <1>3, LeastFacts
  <2>2. QED
    BY <1>2, <2>1 DEF Later
<1>4. QED
  BY <1>1, <1>3, PlanFacts DEF Current

\* After a task is in the results, the rest of its batch follows, then the first batch
\* with a task that is not, then the end.
LEMMA AdvanceStep ==
    ASSUME TypeOK, Batched, main \in Collecting, pc' = pc, Advance,
           NEW s \in {"completed", "failed"}, Report(s)
    PROVE  /\ Batched'
           /\ main' \in {"submit", "shutdown"} \cup Collecting /\ depth' \in Nat /\ pos' \in Nat
           /\ reported' \in [Tasks -> {"none", "completed", "failed"}]
           /\ reported'[Current] = s /\ \A t \in Tasks \ {Current} : reported'[t] = reported[t]
<1>1. /\ Current \in Tasks /\ Depth(Current) = depth /\ pos \in DOMAIN Plan /\ pos \in Nat
      /\ Later # {} => /\ Min(Later) \in Batch(depth) /\ Min(Later) \in Nat /\ Min(Later) > pos
                       /\ \A i \in Batch(depth) : i > pos => Min(Later) <= i
  BY CurrentFacts
<1>2. /\ reported' \in [Tasks -> {"none", "completed", "failed"}]
      /\ reported'[Current] = s /\ \A t \in Tasks \ {Current} : reported'[t] = reported[t]
  BY <1>1 DEF Report, TypeOK
<1>3. \A t \in Tasks : reported[t] # "none" => reported'[t] # "none"
  BY <1>2
<1>4. depth \in Nat /\ main # "idle"
  BY DEF TypeOK, Collecting
<1>5. /\ \A t \in Tasks : pc[t] # "idle" => Depth(t) <= depth
      /\ \A t \in Tasks : Depth(t) < depth => reported[t] # "none"
      /\ \A i \in Batch(depth) : i < pos => reported[Plan[i]] # "none"
      /\ pos \in Batch(depth)
  BY <1>4 DEF Batched, Collecting
<1>6. CASE Later # {}
  <2>1. pos' = Min(Later) /\ main' = main /\ depth' = depth
    BY <1>6 DEF Advance
  <2>2. ASSUME NEW i \in Batch(depth), i < pos' PROVE reported'[Plan[i]] # "none"
    <3>1. i \in Nat /\ Plan[i] \in Tasks /\ ~(i > pos)
      BY <1>1, <1>6, <2>1, <2>2, PlanFacts DEF Batch
    <3>2. i < pos \/ i = pos
      BY <1>1, <3>1
    <3>3. QED
      BY <1>2, <1>3, <1>5, <3>1, <3>2 DEF Current
  <2>3. Batched'
    BY <1>1, <1>3, <1>4, <1>5, <1>6, <2>1, <2>2 DEF Batched, Collecting
  <2>4. QED
    BY <1>1, <1>2, <1>4, <1>6, <2>1, <2>3
<1>7. CASE Later = {} /\ Ahead # {}
  <2>1. EnterBatch(Ahead) /\ Ahead \subseteq Depths
    BY <1>7 DEF Advance, Ahead, Depths
  <2>2. /\ depth' \in Ahead /\ depth' \in Nat /\ \A d \in Ahead : depth' <= d
        /\ pos' \in Batch(depth') /\ pos' \in Nat /\ \A i \in Batch(depth') : pos' <= i
        /\ main' \in {"submit", "serial"}
    BY <1>7, <2>1, EnterFacts
  <2>3. depth < depth'
    <3>1. PICK u \in Tasks : reported[u] = "none" /\ depth' = Depth(u) /\ depth' # depth
      BY <2>2 DEF Ahead
    <3>2. ~(Depth(u) < depth)
      BY <1>5, <3>1
    <3>3. QED
      BY <1>4, <2>2, <3>1, <3>2
  <2>4. ASSUME NEW t \in Tasks, Depth(t) < depth', reported'[t] = "none" PROVE FALSE
    <3>1. t # Current /\ reported[t] = "none" /\ Depth(t) \in Nat
      BY <1>2, <2>4, PlanFacts
    <3>2. CASE Depth(t) # depth
      <4>1. Depth(t) \in Ahead
        BY <3>1, <3>2 DEF Ahead
      <4>2. QED
        BY <2>2, <2>4, <3>1, <4>1
    <3>3. CASE Depth(t) = depth
      <4>1. PICK i \in DOMAIN Plan : Plan[i] = t
        BY PlanFacts
      <4>2. i \in Batch(depth) /\ i \in Nat
        BY <3>3, <4>1, PlanFacts DEF Batch
      <4>3. ~(i > pos)
        BY <1>7, <4>2 DEF Later
      <4>4. i < pos
        BY <1>1, <3>1, <4>1, <4>2, <4>3 DEF Current
      <4>5. QED
        BY <1>5, <3>1, <4>1, <4>2, <4>4
    <3>4. QED
      BY <3>2, <3>3
  <2>5. \A t \in Tasks : pc[t] # "idle" => Depth(t) < depth'
    BY <1>4, <1>5, <2>2, <2>3, PlanFacts
  <2>6. \A i \in Batch(depth') : pc[Plan[i]] = "idle"
    BY <2>2, <2>5, PlanFacts DEF Batch
  <2>7. \A i \in Batch(depth') : ~(i < pos')
    BY <2>2, PlanFacts DEF Batch
  <2>8. main' # "idle" /\ \A t \in Tasks : pc[t] # "idle" => Depth(t) <= depth'
    BY <2>2, <2>5, PlanFacts
  <2>9. Batched'
    BY <2>2, <2>4, <2>6, <2>7, <2>8 DEF Batched
  <2>10. QED
    BY <1>2, <2>2, <2>9 DEF Collecting
<1>8. CASE Later = {} /\ Ahead = {}
  <2>1. main' = "shutdown" /\ depth' = depth /\ pos' = pos
    BY <1>8 DEF Advance
  <2>2. Batched'
    BY <1>3, <1>5, <2>1 DEF Batched, Collecting
  <2>3. QED
    BY <1>1, <1>2, <1>4, <2>1, <2>2
<1>9. QED
  BY <1>6, <1>7, <1>8
-----------------------------------------------------------------------------
(* What a task that runs does to its label, its outcome and its lifecycle. *)

Outcomes == {"none", "completed", "failed", "raised"}
States == {"uninitialized", "running", "degrading", "retrying", "failed", "completed"}

LEMMA TransitionFacts ==
    ASSUME TypeOK, NEW t \in Tasks, NEW s \in States, Transition(t, s)
    PROVE  /\ lifecycle' \in [Types -> States] /\ lifecycle'[AgentType[t]] = s
           /\ \A u \in Tasks : AgentType[u] # AgentType[t] => lifecycle'[AgentType[u]] = lifecycle[AgentType[u]]
<1>1. lifecycle \in [Types -> States] /\ \A u \in Tasks : AgentType[u] \in Types
  BY PlanFacts DEF TypeOK, States
<1>2. QED
  BY <1>1 DEF Transition

LEMMA LabelFacts ==
    ASSUME TypeOK, NEW t \in Tasks, NEW l \in Labels, Goto(t, l)
    PROVE  /\ pc' \in [Tasks -> Labels] /\ pc'[t] = l
           /\ \A u \in Tasks \ {t} : pc'[u] = pc[u]
BY DEF TypeOK, Goto

LEMMA EndFacts ==
    ASSUME TypeOK, NEW t \in Tasks, NEW o \in Outcomes, End(t, o)
    PROVE  /\ pc' \in [Tasks -> Labels] /\ pc'[t] = "done"
           /\ outcome' \in [Tasks -> Outcomes] /\ outcome'[t] = o
           /\ \A u \in Tasks \ {t} : pc'[u] = pc[u] /\ outcome'[u] = outcome[u]
<1>1. "done" \in Labels
  BY DEF Labels
<1>2. pc' \in [Tasks -> Labels] /\ pc'[t] = "done" /\ \A u \in Tasks \ {t} : pc'[u] = pc[u]
  BY <1>1, LabelFacts DEF End
<1>3. outcome \in [Tasks -> Outcomes] /\ outcome' = [outcome EXCEPT ![t] = o]
  BY DEF TypeOK, Outcomes, End
<1>4. QED
  BY <1>2, <1>3

\* A task that takes a step has begun and not ended; it ends with an outcome, which the
\* lifecycle of its type then has unless it raised.
Steps(t) ==
    /\ pc[t] \in (Labels \ {"idle", "done"})
    /\ pc' \in [Tasks -> Labels] /\ pc'[t] \notin {"idle", "queued"}
    /\ outcome' \in [Tasks -> Outcomes]
    /\ \A u \in Tasks \ {t} : pc'[u] = pc[u] /\ outcome'[u] = outcome[u]
    /\ pc'[t] = "done" <=> outcome'[t] # "none"
    /\ lifecycle' \in [Types -> States]
    /\ \A u \in Tasks : AgentType[u] # AgentType[t] => lifecycle'[AgentType[u]] = lifecycle[AgentType[u]]
    /\ pc'[t] = "done" /\ outcome'[t] # "raised" => lifecycle'[AgentType[t]] = outcome'[t]

LEMMA GoesOn ==
    ASSUME TypeOK, Ended, NEW t \in Tasks, pc[t] \in (Labels \ {"idle", "done"}),
           NEW l \in Labels \ {"idle", "queued", "done"}, Goto(t, l), outcome' = outcome,
           lifecycle' = lifecycle \/ \E s \in States : Transition(t, s)
    PROVE  Steps(t)
<1>1. pc' \in [Tasks -> Labels] /\ pc'[t] = l /\ \A u \in Tasks \ {t} : pc'[u] = pc[u]
  BY LabelFacts
<1>2. outcome'[t] = "none" /\ outcome' \in [Tasks -> Outcomes]
  BY DEF Ended, TypeOK, Outcomes
<1>3. /\ lifecycle' \in [Types -> States]
      /\ \A u \in Tasks : AgentType[u] # AgentType[t] => lifecycle'[AgentType[u]] = lifecycle[AgentType[u]]
  <2>1. CASE lifecycle' = lifecycle
    BY <2>1 DEF TypeOK, States
  <2>2. CASE \E s \in States : Transition(t, s)
    BY <2>2, TransitionFacts
  <2>3. QED
    BY <2>1, <2>2
<1>4. QED
  BY <1>1, <1>2, <1>3 DEF Steps

LEMMA Ends ==
    ASSUME TypeOK, NEW t \in Tasks, pc[t] \in (Labels \ {"idle", "done"}),
           NEW o \in {"completed", "failed", "raised"}, End(t, o),
           NEW s \in States, Transition(t, s), o # "raised" => s = o
    PROVE  Steps(t)
<1>1. /\ pc' \in [Tasks -> Labels] /\ pc'[t] = "done"
      /\ outcome' \in [Tasks -> Outcomes] /\ outcome'[t] = o
      /\ \A u \in Tasks \ {t} : pc'[u] = pc[u] /\ outcome'[u] = outcome[u]
  <2>1. o \in Outcomes
    BY DEF Outcomes
  <2>2. QED
    BY <2>1, EndFacts
<1>2. /\ lifecycle' \in [Types -> States] /\ lifecycle'[AgentType[t]] = s
      /\ \A u \in Tasks : AgentType[u] # AgentType[t] => lifecycle'[AgentType[u]] = lifecycle[AgentType[u]]
  BY TransitionFacts
<1>3. QED
  BY <1>1, <1>2 DEF Steps

LEMMA SingleSteps ==
    ASSUME TypeOK, Pooled, Ended, NEW t \in Tasks, Single(t)
    PROVE  Steps(t) /\ UNCHANGED <<plan, registered>>
<1>0. /\ Labels \ {"idle", "done"} = {"queued", "start"} \cup InAgent
      /\ Labels \ {"idle", "queued", "done"} = {"start"} \cup InAgent
  BY DEF Labels, Unstarted, InAgent
<1>1. CASE WorkerTakes(t)
  <2>1. pc[t] = "queued"
    <3>1. pool \in Seq(Tasks) /\ pool # <<>> /\ t = Head(pool)
      BY <1>1 DEF WorkerTakes, TypeOK
    <3>2. 1 \in DOMAIN pool /\ t = pool[1]
      BY <3>1, HeadTailProperties, LenProperties, EmptySeq
    <3>3. QED
      BY <3>2 DEF Pooled
  <2>2. Goto(t, "start") /\ outcome' = outcome /\ lifecycle' = lifecycle /\ UNCHANGED <<plan, registered>>
    BY <1>1 DEF WorkerTakes, Goto, cycle
  <2>3. QED
    BY <1>0, <2>1, <2>2, GoesOn
<1>2. CASE StartUnregistered(t)
  <2>1. pc[t] = "start" /\ End(t, "raised") /\ Transition(t, "running") /\ UNCHANGED <<plan, registered>>
    BY <1>2 DEF StartUnregistered
  <2>2. QED
    BY <1>0, <2>1, Ends DEF States
<1>3. CASE StartTask(t)
  <2>1. /\ pc[t] = "start" /\ UNCHANGED <<plan, registered>>
        /\ \/ End(t, "failed") /\ Transition(t, "failed")
           \/ Goto(t, "check") /\ outcome' = outcome /\ \E s \in {"running", "degrading"} : Transition(t, s)
    BY <1>3 DEF StartTask, Use
  <2>2. CASE End(t, "failed") /\ Transition(t, "failed")
    BY <1>0, <2>1, <2>2, Ends DEF States
  <2>3. CASE Goto(t, "check") /\ outcome' = outcome /\ \E s \in {"running", "degrading"} : Transition(t, s)
    <3>1. "check" \in Labels \ {"idle", "queued", "done"}
      BY <1>0 DEF InAgent
    <3>2. QED
      BY <1>0, <2>1, <2>3, <3>1, GoesOn DEF States
  <2>4. QED
    BY <2>1, <2>2, <2>3
<1>4. CASE InitializeCheck(t) \/ InitializeCreate(t) \/ RunReturns(t) \/ DestroyRelease(t)
  <2>1. PICK l \in InAgent : Goto(t, l)
    BY <1>4 DEF InitializeCheck, InitializeCreate, RunReturns, DestroyRelease, InAgent
  <2>2. pc[t] \in InAgent /\ outcome' = outcome /\ lifecycle' = lifecycle /\ UNCHANGED <<plan, registered>>
    BY <1>4 DEF InitializeCheck, InitializeCreate, RunReturns, DestroyRelease, InAgent, cycle
  <2>3. QED
    BY <1>0, <2>1, <2>2, GoesOn
<1>5. CASE RunRaises(t)
  <2>1. /\ pc[t] = "run" /\ UNCHANGED <<plan, registered>>
        /\ \/ Transition(t, "retrying") /\ Goto(t, "check") /\ outcome' = outcome
           \/ Transition(t, "failed") /\ End(t, "failed")
    BY <1>5 DEF RunRaises
  <2>2. "run" \in InAgent /\ "check" \in InAgent /\ {"retrying", "failed"} \subseteq States
    BY DEF InAgent, States
  <2>3. QED
    BY <1>0, <2>1, <2>2, GoesOn, Ends
<1>6. CASE DestroyClear(t)
  <2>1. pc[t] = "clear" /\ End(t, "completed") /\ Transition(t, "completed") /\ UNCHANGED <<plan, registered>>
    BY <1>6 DEF DestroyClear
  <2>2. QED
    BY <1>0, <2>1, Ends DEF States, InAgent
<1>7. QED
  BY <1>1, <1>2, <1>3, <1>4, <1>5, <1>6 DEF Single
-----------------------------------------------------------------------------
(* The caller's steps: IInv without Boxed, which they leave to a lemma below. *)

Core == TypeOK /\ Batched /\ Pooled /\ Ended

LEMMA ExecutePlanStep ==
    ASSUME Core, ExecutePlan
    PROVE  Core'
<1>1. main = "idle" /\ \A t \in Tasks : pc[t] = "idle"
  BY DEF ExecutePlan, Core, Batched
<1>2. UNCHANGED <<agent_map, reported, pool, pc, attempt, agent, outcome, initialized, sandbox, sandboxes>>
  BY DEF ExecutePlan, single, boxes
<1>3. /\ depth' \in Depths /\ depth' \in Nat /\ \A d \in Depths : depth' <= d
      /\ pos' \in Batch(depth') /\ pos' \in Nat /\ \A i \in Batch(depth') : pos' <= i
      /\ main' \in {"submit", "serial"}
  <2>1. Depths # {}
    BY PlanFacts, LenProperties, EmptySeq, PlanAssumption DEF Depths
  <2>2. QED
    BY <2>1, EnterFacts DEF ExecutePlan
<1>4. TypeOK'
  <2>1. registered' \subseteq Types
    BY DEF ExecutePlan, Core, TypeOK
  <2>2. lifecycle' \in [Types -> {"uninitialized", "running", "degrading", "retrying", "failed", "completed"}]
    BY DEF ExecutePlan, Core, TypeOK
  <2>3. QED
    BY <1>2, <1>3, <2>1, <2>2 DEF Core, TypeOK, Collecting
<1>5. Batched'
  <2>1. \A t \in Tasks : pc'[t] = "idle" /\ Depth(t) \in Nat /\ ~(Depth(t) < depth')
    BY <1>1, <1>2, <1>3, PlanFacts DEF Depths
  <2>2. \A i \in Batch(depth') : Plan[i] \in Tasks /\ ~(i < pos')
    BY <1>3, PlanFacts DEF Batch
  <2>3. QED
    BY <1>3, <2>1, <2>2 DEF Batched
<1>6. Pooled' /\ Ended'
  <2>1. Pooled'
    BY <1>2 DEF Core, Pooled
  <2>2. \A t \in Tasks : pc'[t] # "done"
    BY <1>1, <1>2
  <2>3. Ended'
    BY <1>2, <1>3, <2>2 DEF Core, Ended, HonestReport
  <2>4. QED
    BY <2>1, <2>3
<1>7. QED
  BY <1>4, <1>5, <1>6 DEF Core

\* The current task is submitted or started for the first time.
LEMMA FirstTime ==
    ASSUME Core, main \in {"submit", "serial"}, pc[Current] = "idle",
           NEW l \in {"queued", "start"}, Goto(Current, l)
    PROVE  /\ Current \in Tasks /\ pc' \in [Tasks -> Labels] /\ pc'[Current] = l
           /\ \A u \in Tasks \ {Current} : pc'[u] = pc[u]
           /\ \A i \in Batch(depth) : i # pos => pc'[Plan[i]] = pc[Plan[i]]
           /\ \A t \in Tasks : pc'[t] # "idle" => Depth(t) <= depth
           /\ \A t \in Tasks : pc'[t] = "done" <=> pc[t] = "done"
<1>1. Current \in Tasks /\ Depth(Current) = depth /\ pos \in DOMAIN Plan /\ depth \in Nat
  BY CurrentFacts DEF Core, TypeOK, Collecting
<1>2. pc' \in [Tasks -> Labels] /\ pc'[Current] = l /\ \A u \in Tasks \ {Current} : pc'[u] = pc[u]
  BY <1>1, LabelFacts DEF Core, Labels, Unstarted
<1>3. ASSUME NEW i \in Batch(depth), i # pos PROVE pc'[Plan[i]] = pc[Plan[i]]
  BY <1>1, <1>2, <1>3, PlanFacts DEF Batch, Current
<1>4. \A t \in Tasks : pc'[t] # "idle" => Depth(t) <= depth
  BY <1>1, <1>2 DEF Core, Batched
<1>5. QED
  BY <1>1, <1>2, <1>3, <1>4

LEMMA SubmitStep ==
    ASSUME Core, Submit
    PROVE  Core' /\ pc[Current] = "idle"
<1>1. main = "submit" /\ pos \in Batch(depth) /\ \A i \in Batch(depth) : i >= pos => pc[Plan[i]] = "idle"
  BY DEF Submit, Core, Batched
<1>2. /\ Current \in Tasks /\ Depth(Current) = depth /\ pos \in DOMAIN Plan /\ pos \in Nat /\ depth \in Nat
      /\ Later # {} => /\ Min(Later) \in Batch(depth) /\ Min(Later) \in Nat /\ Min(Later) > pos
                       /\ \A i \in Batch(depth) : i > pos => Min(Later) <= i
  BY <1>1, CurrentFacts DEF Core, TypeOK
<1>3. pc[Current] = "idle"
  BY <1>1, <1>2 DEF Current
<1>4. /\ pc' \in [Tasks -> Labels] /\ pc'[Current] = "queued"
      /\ \A u \in Tasks \ {Current} : pc'[u] = pc[u]
      /\ \A i \in Batch(depth) : i # pos => pc'[Plan[i]] = pc[Plan[i]]
      /\ \A t \in Tasks : pc'[t] # "idle" => Depth(t) <= depth
      /\ \A t \in Tasks : pc'[t] = "done" <=> pc[t] = "done"
  <2>1. Goto(Current, "queued")
    BY DEF Submit, Goto
  <2>2. QED
    BY <1>1, <1>3, <2>1, FirstTime
<1>5. /\ depth' = depth /\ pool' = Append(pool, Current)
      /\ UNCHANGED <<agent_map, reported, registered, lifecycle, attempt, agent, outcome, initialized, sandbox, sandboxes>>
  BY DEF Submit, cycle, boxes
<1>6. /\ pos' \in Batch(depth) /\ pos' \in Nat /\ main' \in {"submit", "collect"}
      /\ main' = "submit" => pos' > pos
      /\ main' = "collect" => \A i \in Batch(depth) : ~(i < pos')
  <2>1. CASE Later # {}
    BY <1>1, <1>2, <2>1 DEF Submit
  <2>2. CASE Later = {}
    <3>1. pos' = Min(Batch(depth)) /\ main' = "collect"
      BY <2>2 DEF Submit
    <3>2. Batch(depth) \in SUBSET Nat /\ Batch(depth) # {}
      BY <1>1, PlanFacts DEF Batch
    <3>3. pos' \in Batch(depth) /\ \A i \in Batch(depth) : pos' <= i
      BY <3>1, <3>2, LeastFacts
    <3>4. QED
      BY <3>1, <3>2, <3>3
  <2>3. QED
    BY <2>1, <2>2
<1>7. pool \in Seq(Tasks) /\ pool' \in Seq(Tasks)
  BY <1>2, <1>5, AppendProperties DEF Core, TypeOK
<1>8. TypeOK'
  BY <1>2, <1>4, <1>5, <1>6, <1>7 DEF Core, TypeOK, Collecting
<1>9. Batched'
  <2>1. ASSUME main' = "submit", NEW i \in Batch(depth), i >= pos' PROVE pc'[Plan[i]] = "idle"
    <3>1. i \in Nat /\ i > pos
      BY <1>2, <1>6, <2>1, PlanFacts DEF Batch
    <3>2. QED
      BY <1>1, <1>2, <1>4, <3>1
  <2>2. \A t \in Tasks : Depth(t) < depth' => reported'[t] # "none"
    BY <1>1, <1>5 DEF Core, Batched
  <2>3. QED
    BY <1>4, <1>5, <1>6, <2>1, <2>2 DEF Batched, Collecting
<1>10. Pooled'
  <2>1. PICK n \in Nat : n = Len(pool)
    BY <1>7, LenProperties
  <2>2. DOMAIN pool = 1..n /\ DOMAIN pool' = 1..(n + 1)
    BY <1>2, <1>5, <1>7, <2>1, AppendProperties, LenProperties
  <2>3. pool'[n + 1] = Current /\ \A i \in 1..n : pool'[i] = pool[i] /\ pool[i] \in Tasks
    BY <1>2, <1>5, <1>7, <2>1, AppendProperties, ElementOfSeq
  <2>4. \A i \in 1..n : pc[pool[i]] = "queued" /\ pool[i] # Current
    BY <1>3, <2>2 DEF Core, Pooled
  <2>5. \A i \in 1..(n + 1) : i \in 1..n \/ i = n + 1
    BY <2>1
  <2>6. \A i \in 1..(n + 1) : pc'[pool'[i]] = "queued"
    BY <1>4, <2>3, <2>4, <2>5
  <2>7. \A i, j \in 1..n : pool[i] = pool[j] => i = j
    BY <2>2 DEF Core, Pooled
  <2>8. \A i, j \in 1..(n + 1) : pool'[i] = pool'[j] => i = j
    BY <2>3, <2>4, <2>5, <2>7
  <2>9. QED
    BY <2>2, <2>6, <2>8 DEF Pooled
<1>11. Ended'
  BY <1>4, <1>5, <1>6 DEF Core, Ended, HonestReport
<1>12. QED
  BY <1>3, <1>8, <1>9, <1>10, <1>11 DEF Core

LEMMA SerialStartStep ==
    ASSUME Core, SerialStart
    PROVE  Core'
<1>1. main = "serial" /\ pc[Current] = "idle"
  BY DEF SerialStart
<1>2. /\ Current \in Tasks /\ pc' \in [Tasks -> Labels] /\ pc'[Current] = "start"
      /\ \A u \in Tasks \ {Current} : pc'[u] = pc[u]
      /\ \A t \in Tasks : pc'[t] # "idle" => Depth(t) <= depth
      /\ \A t \in Tasks : pc'[t] = "done" <=> pc[t] = "done"
  <2>1. Goto(Current, "start")
    BY DEF SerialStart, Goto
  <2>2. QED
    BY <1>1, <2>1, FirstTime
<1>3. UNCHANGED <<agent_map, main, depth, pos, reported, registered, lifecycle, pool, attempt, agent, outcome, initialized, sandbox, sandboxes>>
  BY DEF SerialStart, plan, cycle, boxes
<1>4. TypeOK'
  BY <1>2, <1>3 DEF Core, TypeOK
<1>5. Batched'
  BY <1>1, <1>2, <1>3 DEF Core, Batched, Collecting
<1>6. Pooled'
  <2>1. \A i \in DOMAIN pool : pool[i] \in Tasks /\ pool[i] # Current
    <3>1. pool \in Seq(Tasks)
      BY DEF Core, TypeOK
    <3>2. \A i \in DOMAIN pool : pool[i] \in Tasks
      BY <3>1, ElementOfSeq, LenProperties
    <3>3. QED
      BY <1>1, <3>2 DEF Core, Pooled
  <2>2. QED
    BY <1>2, <1>3, <2>1 DEF Core, Pooled
<1>7. Ended'
  BY <1>1, <1>2, <1>3 DEF Core, Ended, HonestReport
<1>8. QED
  BY <1>4, <1>5, <1>6, <1>7 DEF Core

\* A result enters all_results as "completed" only from a task that ended so.
LEMMA RecordStep ==
    ASSUME Core, Collect \/ CollectTimeout \/ SerialEnd
    PROVE  Core' /\ UNCHANGED <<agent_map, cycle, pool, single, boxes>>
<1>1. main \in Collecting /\ UNCHANGED <<agent_map, cycle, pool, single, boxes>>
  BY DEF Collect, CollectTimeout, SerialEnd, Collecting
<1>2. UNCHANGED <<agent_map, registered, lifecycle, pool, pc, attempt, agent, outcome, initialized, sandbox, sandboxes>>
  BY <1>1 DEF cycle, single, boxes
<1>3. Current \in Tasks
  BY <1>1, CurrentFacts DEF Core
<1>4. \/ main' = "raised" /\ UNCHANGED <<depth, pos, reported>>
      \/ \E s \in {"completed", "failed"} : Report(s) /\ Advance /\ (s = "completed" => outcome[Current] = "completed")
  <2>1. CASE Collect
    BY <2>1 DEF Collect
  <2>2. CASE CollectTimeout
    BY <2>2 DEF CollectTimeout, TimedOut
  <2>3. CASE SerialEnd
    <3>1. pc[Current] = "done"
      BY <2>3 DEF SerialEnd
    <3>2. outcome[Current] \in {"completed", "failed", "raised"}
      BY <1>3, <3>1 DEF Core, Ended, TypeOK
    <3>3. QED
      BY <2>3, <3>2 DEF SerialEnd
  <2>4. QED
    BY <2>1, <2>2, <2>3
<1>5. /\ Batched' /\ HonestReport'
      /\ main' \in {"submit", "shutdown", "raised"} \cup Collecting /\ depth' \in Nat /\ pos' \in Nat
      /\ reported' \in [Tasks -> {"none", "completed", "failed"}]
  <2>1. CASE main' = "raised" /\ UNCHANGED <<depth, pos, reported>>
    <3>1. Batched'
      BY <1>1, <1>2, <2>1 DEF Core, Batched, Collecting
    <3>2. HonestReport' /\ depth' \in Nat /\ pos' \in Nat /\ reported' \in [Tasks -> {"none", "completed", "failed"}]
      BY <1>2, <2>1 DEF Core, TypeOK, Ended, HonestReport
    <3>3. QED
      BY <2>1, <3>1, <3>2
  <2>2. CASE \E s \in {"completed", "failed"} : Report(s) /\ Advance /\ (s = "completed" => outcome[Current] = "completed")
    <3>1. PICK s \in {"completed", "failed"} : Report(s) /\ Advance /\ (s = "completed" => outcome[Current] = "completed")
      BY <2>2
    <3>2. /\ Batched'
          /\ main' \in {"submit", "shutdown"} \cup Collecting /\ depth' \in Nat /\ pos' \in Nat
          /\ reported' \in [Tasks -> {"none", "completed", "failed"}]
          /\ reported'[Current] = s /\ \A t \in Tasks \ {Current} : reported'[t] = reported[t]
      BY <1>1, <1>2, <3>1, AdvanceStep DEF Core
    <3>3. HonestReport'
      BY <1>2, <3>1, <3>2 DEF Core, Ended, HonestReport
    <3>4. QED
      BY <3>2, <3>3
  <2>3. QED
    BY <1>4, <2>1, <2>2
<1>6. TypeOK'
  BY <1>2, <1>5 DEF Core, TypeOK, Collecting
<1>7. Pooled' /\ Ended'
  <2>1. main' # "returned"
    BY <1>5 DEF Collecting
  <2>2. QED
    BY <1>2, <1>5, <2>1 DEF Core, Pooled, Ended
<1>8. QED
  BY <1>1, <1>5, <1>6, <1>7 DEF Core

LEMMA ShutdownStep ==
    ASSUME Core, Shutdown
    PROVE  Core'
<1>1. main' = "returned" /\ \A t \in Tasks : pc[t] = "done"
  BY DEF Shutdown, PoolDrained
<1>2. UNCHANGED <<agent_map, depth, pos, reported, registered, lifecycle, pool, pc, attempt, agent, outcome, initialized, sandbox, sandboxes>>
  BY DEF Shutdown, cycle, single, boxes
<1>3. TypeOK'
  BY <1>1, <1>2 DEF Core, TypeOK
<1>4. Batched'
  BY <1>1, <1>2 DEF Shutdown, Core, Batched, Collecting
<1>5. Pooled' /\ Ended'
  BY <1>1, <1>2 DEF Core, Pooled, Ended, HonestReport
<1>6. QED
  BY <1>3, <1>4, <1>5 DEF Core
-----------------------------------------------------------------------------
(* A task's own steps, again without Boxed. *)

LEMMA SingleTypes ==
    ASSUME Core, NEW t \in Tasks, Single(t)
    PROVE  TypeOK'
<1>1. /\ pc' \in [Tasks -> Labels] /\ outcome' \in [Tasks -> Outcomes] /\ lifecycle' \in [Types -> States]
      /\ UNCHANGED <<agent_map, main, depth, pos, reported, registered>>
  BY SingleSteps DEF Core, Steps, plan
<1>2. pool' \in Seq(Tasks)
  <2>1. CASE WorkerTakes(t)
    BY <2>1, HeadTailProperties DEF WorkerTakes, Core, TypeOK
  <2>2. CASE UNCHANGED pool
    BY <2>2 DEF Core, TypeOK
  <2>3. QED
    BY <2>1, <2>2 DEF Single, StartUnregistered, StartTask, InitializeCheck, InitializeCreate, RunReturns,
          RunRaises, DestroyRelease, DestroyClear
<1>3. attempt' \in [Tasks -> 0..MaxRetries]
  <2>1. attempt \in [Tasks -> 0..MaxRetries] /\ MaxRetries \in Nat
    BY BoundAssumption DEF Core, TypeOK
  <2>2. CASE RunRaises(t)
    <3>1. UNCHANGED attempt \/ (attempt[t] < MaxRetries /\ attempt' = [attempt EXCEPT ![t] = attempt[t] + 1])
      BY <2>2 DEF RunRaises, CanRetry, NextAttempt
    <3>2. ASSUME attempt[t] < MaxRetries PROVE attempt[t] + 1 \in 0..MaxRetries
      BY <2>1, <3>2
    <3>3. QED
      BY <2>1, <3>1, <3>2
  <2>3. CASE UNCHANGED attempt
    BY <2>1, <2>3
  <2>4. QED
    BY <2>2, <2>3 DEF Single, WorkerTakes, StartUnregistered, StartTask, InitializeCheck, InitializeCreate,
          RunReturns, DestroyRelease, DestroyClear
<1>4. agent' \in [Tasks -> Types \cup {NoAgent}]
  <2>1. agent \in [Tasks -> Types \cup {NoAgent}] /\ agent_map \subseteq Types
    BY DEF Core, TypeOK
  <2>2. CASE StartTask(t)
    <3>1. UNCHANGED agent \/ \E a \in Types : agent' = [agent EXCEPT ![t] = a]
      BY <2>1, <2>2 DEF StartTask, Use
    <3>2. QED
      BY <2>1, <3>1
  <2>3. CASE UNCHANGED agent
    BY <2>1, <2>3
  <2>4. QED
    BY <2>2, <2>3 DEF Single, WorkerTakes, StartUnregistered, InitializeCheck, InitializeCreate, RunReturns,
          RunRaises, DestroyRelease, DestroyClear
<1>5. /\ initialized' \in [Types -> BOOLEAN] /\ sandbox' \in [Types -> Tasks \cup {NoTask}]
      /\ sandboxes' \subseteq Tasks
  <2>1. /\ initialized \in [Types -> BOOLEAN] /\ sandbox \in [Types -> Tasks \cup {NoTask}]
        /\ sandboxes \subseteq Tasks
    BY DEF Core, TypeOK
  <2>2. CASE InitializeCreate(t)
    BY <2>1, <2>2 DEF InitializeCreate
  <2>3. CASE DestroyRelease(t)
    BY <2>1, <2>3 DEF DestroyRelease
  <2>4. CASE DestroyClear(t)
    BY <2>1, <2>4 DEF DestroyClear
  <2>5. CASE UNCHANGED boxes
    BY <2>1, <2>5 DEF boxes
  <2>6. QED
    BY <2>2, <2>3, <2>4, <2>5 DEF Single, WorkerTakes, StartUnregistered, StartTask, InitializeCheck, RunReturns,
          RunRaises
<1>6. QED
  BY <1>1, <1>2, <1>3, <1>4, <1>5 DEF Core, TypeOK, Outcomes, States

LEMMA SinglePooled ==
    ASSUME Core, NEW t \in Tasks, Single(t)
    PROVE  Pooled'
<1>1. pc' \in [Tasks -> Labels] /\ \A u \in Tasks \ {t} : pc'[u] = pc[u]
  BY SingleSteps DEF Core, Steps
<1>2. pool \in Seq(Tasks)
  BY DEF Core, TypeOK
<1>3. /\ \A i \in DOMAIN pool : pc[pool[i]] = "queued" /\ pool[i] \in Tasks
      /\ \A i, j \in DOMAIN pool : pool[i] = pool[j] => i = j
  BY <1>2, ElementOfSeq, LenProperties DEF Core, Pooled
<1>4. CASE WorkerTakes(t)
  <2>1. pool # <<>> /\ t = Head(pool) /\ pool' = Tail(pool)
    BY <1>4 DEF WorkerTakes
  <2>2. PICK n \in Nat : n = Len(pool)
    BY <1>2, LenProperties
  <2>3. PICK m \in Nat : m = Len(pool')
    BY <1>2, <2>1, HeadTailProperties, LenProperties
  <2>4. n = m + 1 /\ t = pool[1] /\ \A i \in 1..m : pool'[i] = pool[i + 1]
    BY <1>2, <2>1, <2>2, <2>3, HeadTailProperties
  <2>5. DOMAIN pool' = 1..m /\ DOMAIN pool = 1..(m + 1)
    BY <1>2, <2>1, <2>2, <2>3, <2>4, HeadTailProperties, LenProperties
  <2>6. \A i \in 1..m : i + 1 \in 1..(m + 1) /\ i + 1 # 1 /\ 1 \in 1..(m + 1)
    BY <2>3
  <2>7. \A i \in 1..m : pool[i + 1] # t
    BY <1>3, <2>4, <2>5, <2>6
  <2>8. \A i \in 1..m : pc'[pool'[i]] = "queued"
    BY <1>1, <1>3, <2>4, <2>5, <2>6, <2>7
  <2>9. ASSUME NEW i \in 1..m, NEW j \in 1..m, pool'[i] = pool'[j] PROVE i = j
    <3>1. i + 1 = j + 1
      BY <1>3, <2>4, <2>5, <2>6, <2>9
    <3>2. QED
      BY <2>3, <3>1
  <2>10. QED
    BY <2>5, <2>8, <2>9 DEF Pooled
<1>5. CASE pc[t] # "queued" /\ UNCHANGED pool
  BY <1>1, <1>3, <1>5 DEF Pooled
<1>6. QED
  BY <1>4, <1>5 DEF Single, StartUnregistered, StartTask, InitializeCheck, InitializeCreate, RunReturns,
        RunRaises, DestroyRelease, DestroyClear

LEMMA SingleStep ==
    ASSUME Core, NEW t \in Tasks, Single(t)
    PROVE  Core'
<1>1. Steps(t) /\ UNCHANGED <<agent_map, main, depth, pos, reported, registered>>
  BY SingleSteps DEF Core, plan
<1>2. pc[t] \notin {"idle", "done"}
  BY <1>1 DEF Steps
<1>3. TypeOK' /\ Pooled'
  BY SingleTypes, SinglePooled
<1>4. Batched'
  <2>1. \A u \in Tasks : pc'[u] # "idle" => pc[u] # "idle"
    BY <1>1, <1>2 DEF Steps
  <2>2. \A u \in Tasks : pc[u] = "idle" => pc'[u] = "idle"
    BY <1>1, <1>2 DEF Steps
  <2>3. \A i \in Batch(depth) : Plan[i] \in Tasks
    BY PlanFacts DEF Batch
  <2>4. QED
    BY <1>1, <2>1, <2>2, <2>3 DEF Core, Batched
<1>5. Ended'
  <2>1. \A u \in Tasks : pc'[u] = "done" <=> outcome'[u] # "none"
    BY <1>1 DEF Steps, Core, Ended
  <2>2. HonestReport'
    <3>1. outcome[t] = "none"
      BY <1>2 DEF Core, Ended
    <3>2. QED
      BY <1>1, <3>1 DEF Steps, Core, Ended, HonestReport
  <2>3. main' # "returned"
    BY <1>1, <1>2 DEF Core, Ended
  <2>4. ASSUME NEW u \in Tasks, Sole(u), pc'[u] = "done", outcome'[u] # "raised"
        PROVE  lifecycle'[AgentType[u]] = outcome'[u]
    <3>1. CASE u = t
      BY <1>1, <2>4, <3>1 DEF Steps
    <3>2. CASE u # t
      <4>1. AgentType[u] # AgentType[t]
        BY <2>4, <3>2 DEF Sole
      <4>2. QED
        BY <1>1, <2>4, <3>2, <4>1 DEF Steps, Core, Ended
    <3>3. QED
      BY <3>1, <3>2
  <2>5. QED
    BY <2>1, <2>2, <2>3, <2>4 DEF Ended, Sole
<1>6. QED
  BY <1>3, <1>4, <1>5 DEF Core
-----------------------------------------------------------------------------
(* Agents and their sandboxes. *)

\* A step of tasks that have no agent.
LEMMA NobodysStep ==
    ASSUME Boxed, UNCHANGED <<agent, boxes>>,
           \A u \in Tasks : \/ pc'[u] = pc[u] /\ outcome'[u] = outcome[u]
                            \/ agent[u] = NoAgent /\ pc'[u] \notin InAgent
    PROVE  Boxed'
<1>1. UNCHANGED <<initialized, sandbox, sandboxes>>
  BY DEF boxes
<1>2. \A u \in Tasks : (pc'[u] \in Unstarted => agent'[u] = NoAgent) /\ (pc'[u] \in InAgent => agent'[u] # NoAgent)
  BY DEF Boxed
<1>3. ASSUME NEW u \in Tasks PROVE OwnBox(u)'
  <2>1. OwnBox(u) /\ (Alone(u)' => Alone(u))
    BY DEF Boxed, Alone
  <2>2. CASE agent[u] = NoAgent
    BY <2>2 DEF OwnBox
  <2>3. CASE pc'[u] = pc[u] /\ outcome'[u] = outcome[u]
    BY <1>1, <2>1, <2>3 DEF OwnBox
  <2>4. QED
    BY <2>2, <2>3
<1>4. QED
  BY <1>1, <1>2, <1>3 DEF Boxed

\* A step of a task with an agent touches that agent, and no sandbox of a task that is
\* alone with another.
LEMMA AgentsStep ==
    ASSUME Boxed, NEW t \in Tasks, agent[t] # NoAgent, agent' = agent, pc'[t] \notin Unstarted,
           \A u \in Tasks \ {t} : pc'[u] = pc[u] /\ outcome'[u] = outcome[u],
           \A b \in Types \ {agent[t]} : initialized'[b] = initialized[b] /\ sandbox'[b] = sandbox[b],
           \A u \in Tasks \ {t} : agent[u] # agent[t] => (u \in sandboxes' <=> u \in sandboxes),
           sandbox'[agent[t]] # NoTask => agent[sandbox'[agent[t]]] = agent[t],
           agent \in [Tasks -> Types \cup {NoAgent}],
           OwnBox(t)'
    PROVE  Boxed'
<1>1. \A u \in Tasks : (pc'[u] \in Unstarted => agent'[u] = NoAgent) /\ (pc'[u] \in InAgent => agent'[u] # NoAgent)
  BY DEF Boxed
<1>2. \A b \in Types : initialized'[b] => \E u \in Tasks : agent'[u] = b
  BY DEF Boxed
<1>3. \A b \in Types : sandbox'[b] # NoTask => agent'[sandbox'[b]] = b
  BY DEF Boxed
<1>4. ASSUME NEW u \in Tasks PROVE OwnBox(u)'
  <2>1. CASE u = t
    BY <2>1
  <2>2. CASE u # t
    <3>1. SUFFICES ASSUME Alone(u)', agent'[u] # NoAgent PROVE OwnBox(u)'
      BY DEF OwnBox
    <3>2. Alone(u) /\ agent[u] # agent[t] /\ agent[u] \in Types
      BY <2>2, <3>1 DEF Alone
    <3>3. OwnBox(u)
      BY DEF Boxed
    <3>4. /\ pc'[u] = pc[u] /\ outcome'[u] = outcome[u]
          /\ initialized'[agent[u]] = initialized[agent[u]] /\ sandbox'[agent[u]] = sandbox[agent[u]]
          /\ u \in sandboxes' <=> u \in sandboxes
      BY <2>2, <3>2
    <3>5. QED
      BY <3>1, <3>2, <3>3, <3>4 DEF OwnBox
  <2>3. QED
    BY <2>1, <2>2
<1>5. QED
  BY <1>1, <1>2, <1>3, <1>4 DEF Boxed

\* A task takes its agent: if no other task uses it, it is not initialised.
LEMMA TakesAgent ==
    ASSUME TypeOK, Boxed, NEW t \in Tasks, pc[t] = "start", NEW a \in Types,
           agent' = [agent EXCEPT ![t] = a], pc' = [pc EXCEPT ![t] = "check"],
           UNCHANGED <<outcome, boxes>>
    PROVE  Boxed'
<1>1. /\ agent[t] = NoAgent /\ NoAgent \notin Types /\ agent'[t] = a /\ pc'[t] = "check"
      /\ \A u \in Tasks \ {t} : agent'[u] = agent[u] /\ pc'[u] = pc[u]
  BY NobodyAssumption DEF TypeOK, Boxed, Unstarted
<1>2. UNCHANGED <<outcome, initialized, sandbox, sandboxes>>
  BY DEF boxes
<1>3. \A u \in Tasks : (pc'[u] \in Unstarted => agent'[u] = NoAgent) /\ (pc'[u] \in InAgent => agent'[u] # NoAgent)
  BY <1>1 DEF Boxed, Unstarted
<1>4. ASSUME NEW b \in Types, initialized'[b] PROVE \E u \in Tasks \ {t} : agent[u] = b /\ agent'[u] = b
  <2>1. PICK u \in Tasks : agent[u] = b
    BY <1>2, <1>4 DEF Boxed
  <2>2. QED
    BY <1>1, <2>1
<1>5. ASSUME NEW b \in Types, sandbox'[b] # NoTask PROVE agent'[sandbox'[b]] = b
  <2>1. sandbox[b] \in Tasks /\ agent[sandbox[b]] = b
    BY <1>2, <1>5 DEF TypeOK, Boxed
  <2>2. QED
    BY <1>1, <1>2, <2>1
<1>6. ASSUME NEW u \in Tasks PROVE OwnBox(u)'
  <2>1. CASE u = t
    <3>1. Alone(t)' => ~initialized'[a]
      BY <1>1, <1>4 DEF Alone
    <3>2. QED
      BY <1>1, <2>1, <3>1 DEF OwnBox
  <2>2. CASE u # t
    <3>1. SUFFICES ASSUME Alone(u)', agent'[u] # NoAgent PROVE OwnBox(u)'
      BY DEF OwnBox
    <3>2. Alone(u) /\ agent'[u] = agent[u] /\ pc'[u] = pc[u]
      BY <1>1, <2>2, <3>1 DEF Alone
    <3>3. OwnBox(u)
      BY DEF Boxed
    <3>4. QED
      BY <1>2, <3>1, <3>2, <3>3 DEF OwnBox
  <2>3. QED
    BY <2>1, <2>2
<1>7. QED
  BY <1>3, <1>4, <1>5, <1>6 DEF Boxed

\* initialize(), run() and destroy().
LEMMA AgentSteps ==
    ASSUME TypeOK, Boxed, NEW t \in Tasks,
           \/ InitializeCheck(t) \/ InitializeCreate(t) \/ RunReturns(t) \/ RunRaises(t)
           \/ DestroyRelease(t) \/ DestroyClear(t)
    PROVE  Boxed'
<1>1. /\ pc[t] \in InAgent /\ agent[t] # NoAgent /\ agent[t] \in Types /\ agent' = agent
      /\ agent \in [Tasks -> Types \cup {NoAgent}] /\ OwnBox(t)
      /\ Alone(t)' <=> Alone(t)
  <2>1. pc[t] \in InAgent /\ agent' = agent
    BY DEF InitializeCheck, InitializeCreate, RunReturns, RunRaises, DestroyRelease, DestroyClear, InAgent
  <2>2. QED
    BY <2>1 DEF Boxed, TypeOK, Alone
<1>2. /\ pc \in [Tasks -> Labels] /\ outcome \in [Tasks -> Outcomes]
      /\ initialized \in [Types -> BOOLEAN] /\ sandbox \in [Types -> Tasks \cup {NoTask}]
      /\ NoTask \notin Tasks
  BY NobodyAssumption DEF TypeOK, Outcomes
<1>3. \A b \in Types : sandbox[b] # NoTask => sandbox[b] \in Tasks /\ agent[sandbox[b]] = b
  BY <1>2 DEF Boxed
<1>4. CASE InitializeCheck(t)
  <2>1. /\ pc'[t] = IF initialized[agent[t]] THEN "run" ELSE "create"
        /\ pc[t] = "check" /\ \A u \in Tasks \ {t} : pc'[u] = pc[u]
        /\ UNCHANGED <<outcome, initialized, sandbox, sandboxes>>
    BY <1>2, <1>4 DEF InitializeCheck, Goto, boxes
  <2>2. OwnBox(t)'
    BY <1>1, <2>1 DEF OwnBox
  <2>3. pc'[t] \notin Unstarted
    BY <2>1 DEF Unstarted
  <2>4. QED
    BY <1>1, <1>3, <2>1, <2>2, <2>3, AgentsStep
<1>5. CASE InitializeCreate(t)
  <2>1. /\ pc'[t] = "run" /\ \A u \in Tasks \ {t} : pc'[u] = pc[u]
        /\ outcome' = outcome /\ sandboxes' = sandboxes \cup {t}
        /\ sandbox'[agent[t]] = t /\ initialized'[agent[t]]
        /\ \A b \in Types \ {agent[t]} : initialized'[b] = initialized[b] /\ sandbox'[b] = sandbox[b]
    BY <1>1, <1>2, <1>5 DEF InitializeCreate, Goto
  <2>2. OwnBox(t)'
    BY <1>1, <2>1 DEF OwnBox
  <2>3. pc'[t] \notin Unstarted
    BY <2>1 DEF Unstarted
  <2>4. QED
    BY <1>1, <2>1, <2>2, <2>3, AgentsStep
<1>6. CASE RunReturns(t)
  <2>1. /\ pc[t] = "run" /\ pc'[t] = "release" /\ \A u \in Tasks \ {t} : pc'[u] = pc[u]
        /\ UNCHANGED <<outcome, initialized, sandbox, sandboxes>>
    BY <1>2, <1>6 DEF RunReturns, Goto, boxes
  <2>2. OwnBox(t)'
    BY <1>1, <2>1 DEF OwnBox
  <2>3. pc'[t] \notin Unstarted
    BY <2>1 DEF Unstarted
  <2>4. QED
    BY <1>1, <1>3, <2>1, <2>2, <2>3, AgentsStep
<1>7. CASE RunRaises(t)
  <2>1. /\ pc[t] = "run" /\ pc'[t] \in {"check", "done"} /\ \A u \in Tasks \ {t} : pc'[u] = pc[u]
        /\ pc'[t] = "done" => outcome'[t] = "failed"
        /\ \A u \in Tasks \ {t} : outcome'[u] = outcome[u]
        /\ UNCHANGED <<initialized, sandbox, sandboxes>>
    BY <1>2, <1>7 DEF RunRaises, Goto, End, boxes
  <2>2. OwnBox(t)'
    BY <1>1, <2>1 DEF OwnBox
  <2>3. pc'[t] \notin Unstarted
    BY <2>1 DEF Unstarted
  <2>4. QED
    BY <1>1, <1>3, <2>1, <2>2, <2>3, AgentsStep
<1>8. CASE DestroyRelease(t)
  <2>1. /\ pc[t] = "release" /\ pc'[t] = "clear" /\ \A u \in Tasks \ {t} : pc'[u] = pc[u]
        /\ sandboxes' = sandboxes \ {sandbox[agent[t]]}
        /\ UNCHANGED <<outcome, initialized, sandbox>>
    BY <1>2, <1>8 DEF DestroyRelease, Released, Goto
  <2>2. OwnBox(t)'
    BY <1>1, <2>1 DEF OwnBox
  <2>3. pc'[t] \notin Unstarted
    BY <2>1 DEF Unstarted
  <2>4. \A u \in Tasks \ {t} : agent[u] # agent[t] => (u \in sandboxes' <=> u \in sandboxes)
    BY <1>1, <1>2, <1>3, <2>1
  <2>5. QED
    BY <1>1, <1>3, <2>1, <2>2, <2>3, <2>4, AgentsStep
<1>9. CASE DestroyClear(t)
  <2>1. /\ pc[t] = "clear" /\ pc'[t] = "done" /\ \A u \in Tasks \ {t} : pc'[u] = pc[u]
        /\ \A u \in Tasks \ {t} : outcome'[u] = outcome[u]
        /\ ~initialized'[agent[t]]
        /\ \A b \in Types \ {agent[t]} : initialized'[b] = initialized[b]
        /\ UNCHANGED <<sandbox, sandboxes>>
    BY <1>1, <1>2, <1>9 DEF DestroyClear, Goto, End
  <2>2. OwnBox(t)'
    BY <1>1, <2>1 DEF OwnBox
  <2>3. pc'[t] \notin Unstarted
    BY <2>1 DEF Unstarted
  <2>4. QED
    BY <1>1, <1>3, <2>1, <2>2, <2>3, AgentsStep
<1>10. QED
  BY <1>4, <1>5, <1>6, <1>7, <1>8, <1>9

LEMMA SingleBoxed ==
    ASSUME Core, Boxed, NEW t \in Tasks, Single(t)
    PROVE  Boxed'
<1>1. Steps(t)
  BY SingleSteps DEF Core
<1>2. \A u \in Tasks \ {t} : pc'[u] = pc[u] /\ outcome'[u] = outcome[u]
  BY <1>1 DEF Steps
<1>3. pc \in [Tasks -> Labels] /\ TypeOK
  BY DEF Core, TypeOK
<1>4. CASE WorkerTakes(t)
  <2>1. pc[t] = "queued"
    <3>1. pool \in Seq(Tasks) /\ pool # <<>> /\ t = Head(pool)
      BY <1>4 DEF WorkerTakes, Core, TypeOK
    <3>2. 1 \in DOMAIN pool /\ t = pool[1]
      BY <3>1, HeadTailProperties, LenProperties, EmptySeq
    <3>3. QED
      BY <3>2 DEF Core, Pooled
  <2>2. agent[t] = NoAgent /\ pc'[t] = "start" /\ UNCHANGED <<agent, boxes>>
    BY <1>3, <1>4, <2>1 DEF WorkerTakes, Boxed, Unstarted
  <2>3. "start" \notin InAgent
    BY DEF InAgent
  <2>4. QED
    BY <1>2, <2>2, <2>3, NobodysStep
<1>5. CASE StartUnregistered(t)
  <2>1. agent[t] = NoAgent /\ pc'[t] = "done" /\ UNCHANGED <<agent, boxes>>
    BY <1>3, <1>5 DEF StartUnregistered, End, Goto, Boxed, Unstarted
  <2>2. "done" \notin InAgent
    BY DEF InAgent
  <2>3. QED
    BY <1>2, <2>1, <2>2, NobodysStep
<1>6. CASE StartTask(t)
  <2>1. pc[t] = "start" /\ agent[t] = NoAgent /\ UNCHANGED boxes
    BY <1>6 DEF StartTask, Boxed, Unstarted
  <2>2. \/ \E a \in agent_map, s \in {"running", "degrading"} : Use(t, a, s)
        \/ End(t, "failed") /\ UNCHANGED agent
    BY <1>6 DEF StartTask
  <2>3. CASE \E a \in agent_map, s \in {"running", "degrading"} : Use(t, a, s)
    <3>1. PICK a \in agent_map, s \in {"running", "degrading"} : Use(t, a, s)
      BY <2>3
    <3>2. a \in Types
      BY <1>3 DEF TypeOK
    <3>3. agent' = [agent EXCEPT ![t] = a] /\ pc' = [pc EXCEPT ![t] = "check"] /\ UNCHANGED outcome
      BY <3>1 DEF Use, Goto
    <3>4. QED
      BY <1>3, <2>1, <3>2, <3>3, TakesAgent
  <2>4. CASE End(t, "failed") /\ UNCHANGED agent
    <3>1. pc'[t] = "done" /\ "done" \notin InAgent
      BY <1>3, <2>4 DEF End, Goto, InAgent
    <3>2. QED
      BY <1>2, <2>1, <2>4, <3>1, NobodysStep
  <2>5. QED
    BY <2>2, <2>3, <2>4
<1>7. CASE \/ InitializeCheck(t) \/ InitializeCreate(t) \/ RunReturns(t) \/ RunRaises(t)
           \/ DestroyRelease(t) \/ DestroyClear(t)
  BY <1>3, <1>7, AgentSteps
<1>8. QED
  BY <1>4, <1>5, <1>6, <1>7 DEF Single

\* The caller gives no task an agent and takes none away.
LEMMA CallerBoxed ==
    ASSUME Core, Boxed, ExecutePlan \/ Main \/ CollectTimeout
    PROVE  Boxed'
<1>1. UNCHANGED <<agent, boxes, outcome>>
  BY DEF ExecutePlan, Main, Submit, Collect, CollectTimeout, SerialStart, SerialEnd, Shutdown, single
<1>2. \/ UNCHANGED pc
      \/ /\ main \in {"submit", "serial"} /\ pc[Current] = "idle"
         /\ \E l \in {"queued", "start"} : pc' = [pc EXCEPT ![Current] = l]
  <2>1. CASE Submit
    <3>1. pc[Current] = "idle"
      BY <2>1, SubmitStep
    <3>2. QED
      BY <2>1, <3>1 DEF Submit
  <2>2. CASE SerialStart
    BY <2>2 DEF SerialStart
  <2>3. CASE ExecutePlan \/ Collect \/ CollectTimeout \/ SerialEnd \/ Shutdown
    BY <2>3 DEF ExecutePlan, Collect, CollectTimeout, SerialEnd, Shutdown, single
  <2>4. QED
    BY <2>1, <2>2, <2>3 DEF Main
<1>3. \A u \in Tasks : \/ pc'[u] = pc[u] /\ outcome'[u] = outcome[u]
                       \/ agent[u] = NoAgent /\ pc'[u] \notin InAgent
  <2>1. CASE UNCHANGED pc
    BY <1>1, <2>1
  <2>2. CASE /\ main \in {"submit", "serial"} /\ pc[Current] = "idle"
             /\ \E l \in {"queued", "start"} : pc' = [pc EXCEPT ![Current] = l]
    <3>1. Current \in Tasks /\ agent[Current] = NoAgent
      <4>1. Current \in Tasks
        BY <2>2, CurrentFacts DEF Core, Collecting
      <4>2. QED
        BY <2>2, <4>1 DEF Boxed, Unstarted
    <3>2. \A u \in Tasks \ {Current} : pc'[u] = pc[u]
      BY <2>2 DEF Core, TypeOK
    <3>3. pc'[Current] \notin InAgent
      BY <2>2, <3>1 DEF Core, TypeOK, InAgent
    <3>4. QED
      BY <1>1, <3>1, <3>2, <3>3
  <2>3. QED
    BY <1>2, <2>1, <2>2
<1>4. QED
  BY <1>1, <1>3, NobodysStep
-----------------------------------------------------------------------------
(* The invariant and what follows from it. *)

LEMMA InitIInv == Init => IInv
<1> SUFFICES ASSUME Init PROVE IInv
  OBVIOUS
<1>2. TypeOK
  <2>1. agent_map \subseteq Types /\ registered \subseteq Types
    BY AgentAssumption DEF Init
  <2>2. pool \in Seq(Tasks) /\ 0 \in 0..MaxRetries
    BY EmptySeq, BoundAssumption DEF Init
  <2>3. QED
    BY <2>1, <2>2 DEF Init, TypeOK, Labels, Unstarted
<1>3. Batched
  BY DEF Init, Batched, Collecting
<1>4. Pooled
  BY EmptySeq, LenProperties DEF Init, Pooled
<1>5. Ended
  BY DEF Init, Ended, HonestReport
<1>6. Boxed
  BY NobodyAssumption DEF Init, Boxed, OwnBox, Unstarted, InAgent
<1>7. QED
  BY <1>2, <1>3, <1>4, <1>5, <1>6 DEF IInv

LEMMA NextIInv == IInv /\ [Next]_vars => IInv'
<1> SUFFICES ASSUME IInv, [Next]_vars PROVE IInv'
  OBVIOUS
<1>1. Core /\ Boxed
  BY DEF IInv, Core
<1>2. CASE ExecutePlan \/ Main \/ CollectTimeout
  <2>1. Core'
    BY <1>1, <1>2, ExecutePlanStep, SubmitStep, SerialStartStep, RecordStep, ShutdownStep DEF Main
  <2>2. Boxed'
    BY <1>1, <1>2, CallerBoxed
  <2>3. QED
    BY <2>1, <2>2 DEF Core, IInv
<1>3. CASE \E t \in Tasks : Single(t)
  <2>1. Core' /\ Boxed'
    BY <1>1, <1>3, SingleStep, SingleBoxed
  <2>2. QED
    BY <2>1 DEF Core, IInv
<1>4. CASE UNCHANGED vars
  <2>1. UNCHANGED <<agent_map, main, depth, pos, reported, registered, lifecycle, pool, pc, attempt, agent, outcome, initialized, sandbox, sandboxes>>
    BY <1>4 DEF vars, plan, cycle, single, boxes
  <2>2. TypeOK' /\ Batched'
    BY <2>1 DEF IInv, TypeOK, Batched
  <2>3. Pooled' /\ Ended'
    BY <2>1 DEF IInv, Pooled, Ended, HonestReport
  <2>4. Boxed'
    BY <2>1 DEF IInv, Boxed, OwnBox, Alone
  <2>5. QED
    BY <2>2, <2>3, <2>4 DEF IInv
<1>5. QED
  BY <1>2, <1>3, <1>4 DEF Next

\* The invariant holds throughout, whatever overlaps in the pool.
THEOREM Invariance == Spec => []IInv
<1>1. QED
  BY InitIInv, NextIInv, PTL DEF Spec

\* The types of the state, for every plan.
THEOREM TypeCorrect == Spec => []TypeOK
<1>1. IInv => TypeOK
  BY DEF IInv
<1>2. QED
  BY <1>1, Invariance, PTL

\* execute_plan reports no success that no agent delivered: "completed" is collected from a
\* task that ended so, and what a task ended with stands.
THEOREM HonestReportHolds == Spec => []HonestReport
<1>1. IInv => HonestReport
  BY DEF IInv, Ended
<1>2. QED
  BY <1>1, Invariance, PTL

\* When execute_plan returns every task has ended, and a type used by one task is in the
\* state that task ended with.
THEOREM SettledAtReturnHolds == Spec => []SettledAtReturn
<1>1. IInv => SettledAtReturn
  BY DEF IInv, Ended, SettledAtReturn, Sole
<1>2. QED
  BY <1>1, Invariance, PTL

\* A task alone with its agent runs in its own sandbox and leaves it behind only by failing.
THEOREM SandboxPerTaskHolds == Spec => []SandboxPerTask
<1>1. IInv => SandboxPerTask
  <2> SUFFICES ASSUME IInv, NEW t \in Tasks, Alone(t), agent[t] # NoAgent
               PROVE  /\ pc[t] = "run" => sandbox[agent[t]] = t /\ t \in sandboxes
                      /\ pc[t] = "done" /\ t \in sandboxes => outcome[t] = "failed"
    BY DEF SandboxPerTask
  <2>1. OwnBox(t)
    BY DEF IInv, Boxed
  <2>2. QED
    BY <2>1 DEF OwnBox
<1>2. QED
  BY <1>1, Invariance, PTL

\* A task that starts is in the batch that is open or in an earlier one that still runs.
LEMMA StartsInBatch ==
    ASSUME IInv, Next, NEW t \in Tasks, ~Started(t), Started(t)'
    PROVE  main # "idle" /\ Depth(t) <= depth
<1>1. Core
  BY DEF IInv, Core
<1>2. \/ pc[t] # "idle"
      \/ main \in {"submit", "serial"} /\ t = Current
  <2>1. CASE ExecutePlan \/ Collect \/ CollectTimeout \/ SerialEnd \/ Shutdown
    <3>1. UNCHANGED pc
      BY <2>1 DEF ExecutePlan, Collect, CollectTimeout, SerialEnd, Shutdown, single
    <3>2. QED
      BY <3>1 DEF Started
  <2>2. CASE Submit \/ SerialStart
    <3>1. main \in {"submit", "serial"} /\ \E l \in {"queued", "start"} : pc' = [pc EXCEPT ![Current] = l]
      BY <2>2 DEF Submit, SerialStart
    <3>2. t # Current => pc'[t] = pc[t]
      BY <1>1, <3>1 DEF Core, TypeOK
    <3>3. QED
      BY <3>1, <3>2 DEF Started
  <2>3. CASE \E u \in Tasks : Single(u)
    <3>1. PICK u \in Tasks : Single(u)
      BY <2>3
    <3>2. Steps(u)
      BY <1>1, <3>1, SingleSteps DEF Core
    <3>3. QED
      BY <3>2 DEF Steps, Started
  <2>4. QED
    BY <2>1, <2>2, <2>3 DEF Next, Main
<1>3. CASE pc[t] # "idle"
  BY <1>1, <1>3 DEF Core, Batched
<1>4. CASE main \in {"submit", "serial"} /\ t = Current
  <2>1. Depth(t) = depth /\ depth \in Nat
    BY <1>1, <1>4, CurrentFacts DEF Core, TypeOK, Collecting
  <2>2. QED
    BY <1>4, <2>1
<1>5. QED
  BY <1>2, <1>3, <1>4

\* No task starts before the tasks with fewer dependencies are in the results, also when it
\* waited in the pool through later batches.
THEOREM BatchOrderHolds == Spec => BatchOrder
<1>1. IInv /\ [Next]_vars =>
        [\A t, u \in Tasks :
            ~Started(t) /\ Started(t)' /\ Cardinality(DependsOn[u]) < Cardinality(DependsOn[t])
                => reported[u] # "none"]_vars
  <2> SUFFICES ASSUME IInv, Next, NEW t \in Tasks, NEW u \in Tasks, ~Started(t), Started(t)',
                      Cardinality(DependsOn[u]) < Cardinality(DependsOn[t])
               PROVE  reported[u] # "none"
    OBVIOUS
  <2>1. main # "idle" /\ Depth(t) <= depth
    BY StartsInBatch
  <2>2. Depth(u) \in Nat /\ Depth(t) \in Nat /\ depth \in Nat
    BY PlanFacts DEF IInv, TypeOK
  <2>3. Depth(u) < Depth(t)
    BY DEF Depth
  <2>4. Depth(u) < depth
    BY <2>1, <2>2, <2>3
  <2>5. QED
    BY <2>1, <2>4 DEF IInv, Batched
<1>2. QED
  BY <1>1, Invariance, PTL DEF Spec, BatchOrder
=============================================================================
