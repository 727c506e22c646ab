------------------------ MODULE AsyncPipelineProofs ------------------------
(* Proofs about AsyncPipeline for every set of tasks and threads, every queue *)
(* bound and every retry limit.                                               *)
EXTENDS AsyncPipeline, TLAPS, FiniteSetTheorems

-----------------------------------------------------------------------------
(* The two operations on the queue. *)

\* What put() does to the list: t comes last, nothing else moves.
LEMMA AppendFacts ==
    ASSUME NEW s \in Seq(Tasks), NEW t \in Tasks
    PROVE  /\ Append(s, t) \in Seq(Tasks)
           /\ Len(Append(s, t)) = Len(s) + 1
           /\ \A i \in 1..Len(s) : Append(s, t)[i] = s[i]
           /\ Append(s, t)[Len(s) + 1] = t
OBVIOUS

\* What get() does to the list: the head leaves, the rest moves up by one.
LEMMA TailFacts ==
    ASSUME NEW s \in Seq(Tasks), s # <<>>
    PROVE  /\ Len(s) \in Nat \ {0}
           /\ Head(s) = s[1] /\ Head(s) \in Tasks
           /\ Tail(s) \in Seq(Tasks)
           /\ Len(Tail(s)) = Len(s) - 1
           /\ \A i \in 1..Len(Tail(s)) : Tail(s)[i] = s[i + 1]
OBVIOUS

-----------------------------------------------------------------------------
(* The inductive invariant: what each label says of the task in hand, what    *)
(* each status says of the attempts, and where a task may be.                 *)

HandByLabel ==
    \A c \in Threads :
        /\ hand[c] # NoTask <=> pc[c] \in Holding
        /\ pc[c] = "mark" => status[hand[c]] \in {"pending", "retrying"}
        /\ pc[c] = "process" => status[hand[c]] = "processing"
        /\ pc[c] \in {"count_ok", "store_ok"} => status[hand[c]] = "completed"
        /\ pc[c] = "requeue" => status[hand[c]] = "retrying"
        /\ pc[c] = "bury" => status[hand[c]] = "failed"

RetryByStatus ==
    \A t \in Tasks :
        /\ status[t] \in {"none", "pending"} => retry[t] = 0
        /\ status[t] = "retrying" => retry[t] \in 1..(MaxRetries - 1)
        /\ status[t] \in {"processing", "completed"} => retry[t] < MaxRetries
        /\ status[t] = "failed" => retry[t] = MaxRetries

QueueOnce == \A i, j \in 1..Len(queue) : queue[i] = queue[j] => i = j
HandOnce  == \A c, d \in Threads : hand[c] = hand[d] /\ hand[c] # NoTask => c = d
Apart     == \A i \in 1..Len(queue) : \A c \in Threads : queue[i] # hand[c]
QueueOpen == \A i \in 1..Len(queue) : status[queue[i]] \in {"pending", "retrying"}
DeadOnce  ==
    /\ \A i, j \in 1..Len(dead) : dead[i] = dead[j] => i = j
    /\ \A i \in 1..Len(dead) : status[dead[i]] = "failed"
    /\ \A i \in 1..Len(dead) : \A c \in Threads : dead[i] # hand[c]

IInv ==
    /\ TypeOK
    /\ HandByLabel
    /\ RetryByStatus
    /\ QueueOnce
    /\ HandOnce
    /\ Apart
    /\ QueueOpen
    /\ DeadOnce

-----------------------------------------------------------------------------

\* Types are preserved by every step; the labels and the attempts supply what the
\* range of hand and retry needs.
LEMMA TypeStep ==
    ASSUME IInv, [Next]_vars
    PROVE  TypeOK'
<1> USE SizeAssumption, RetryAssumption, NoTaskAssumption
    DEF IInv, TypeOK, Statuses, Holding, Labels
<1>1. ASSUME NEW t \in Tasks, Submit(t) PROVE TypeOK'
  BY <1>1, AppendFacts DEF Submit
<1>2. ASSUME NEW c \in Threads, Start(c) PROVE TypeOK'
  BY <1>2 DEF Start
<1>3. CASE Stop
  BY <1>3 DEF Stop
<1>4. ASSUME NEW c \in Threads, Check(c) PROVE TypeOK'
  BY <1>4 DEF Check
<1>5. ASSUME NEW c \in Threads, Get(c) PROVE TypeOK'
  BY <1>5, TailFacts DEF Get, Pop
<1>6. ASSUME NEW c \in Threads, GetTimeout(c) PROVE TypeOK'
  BY <1>6 DEF GetTimeout
<1>7. ASSUME NEW c \in Threads, MarkProcessing(c) PROVE TypeOK'
  BY <1>7 DEF MarkProcessing
<1>8. ASSUME NEW c \in Threads, Succeed(c) PROVE TypeOK'
  BY <1>8 DEF Succeed
<1>9. ASSUME NEW c \in Threads, ReadProcessed(c) \/ StoreProcessed(c) PROVE TypeOK'
  <2>1. CASE ReadProcessed(c)
    BY <2>1 DEF ReadProcessed
  <2>2. CASE StoreProcessed(c)
    BY <2>2 DEF StoreProcessed
  <2>3. QED
    BY <1>9, <2>1, <2>2
<1>10. ASSUME NEW c \in Threads, Fail(c) PROVE TypeOK'
  <2>1. hand[c] \in Tasks /\ retry[hand[c]] < MaxRetries
    BY <1>10 DEF Fail, HandByLabel, RetryByStatus
  <2>2. retry[hand[c]] + 1 \in 0..MaxRetries
    BY <2>1
  <2>3. QED
    BY <1>10, <2>1, <2>2 DEF Fail, RetryNext, CanRetry
<1>11. ASSUME NEW c \in Threads, Requeue(c) PROVE TypeOK'
  <2>1. hand[c] \in Tasks
    BY <1>11 DEF Requeue, HandByLabel
  <2>2. QED
    BY <1>11, <2>1, AppendFacts DEF Requeue
<1>12. ASSUME NEW c \in Threads, Bury(c) PROVE TypeOK'
  <2>1. hand[c] \in Tasks
    BY <1>12 DEF Bury, HandByLabel
  <2>2. QED
    BY <1>12, <2>1, AppendFacts DEF Bury, AfterBury
<1>13. ASSUME NEW c \in Threads, ReadFailed(c) \/ StoreFailed(c) PROVE TypeOK'
  <2>1. CASE ReadFailed(c)
    BY <2>1 DEF ReadFailed
  <2>2. CASE StoreFailed(c)
    BY <2>2 DEF StoreFailed
  <2>3. QED
    BY <1>13, <2>1, <2>2
<1>14. CASE UNCHANGED vars
  BY <1>14 DEF vars
<1>15. QED
  BY <1>1, <1>2, <1>3, <1>4, <1>5, <1>6, <1>7, <1>8, <1>9, <1>10, <1>11, <1>12,
     <1>13, <1>14 DEF Next, ThreadStep

-----------------------------------------------------------------------------

\* A step that changes no queue, no dead letter, no status and no attempt keeps what
\* those parts of the invariant say, when every hand is kept or emptied.
LEMMA LabelsOnly ==
    ASSUME IInv, TypeOK',
           UNCHANGED <<queue, dead, status, retry>>,
           \A d \in Threads : hand'[d] \in {hand[d], NoTask}
    PROVE  (RetryByStatus /\ QueueOnce /\ HandOnce /\ Apart /\ QueueOpen /\ DeadOnce)'
BY NoTaskAssumption
   DEF IInv, TypeOK, RetryByStatus, QueueOnce, HandOnce, Apart, QueueOpen, DeadOnce

\* submit(): the new task was nowhere, because tasks in the queue and in hands have
\* a status other than "none".
LEMMA SubmitStep ==
    ASSUME IInv, TypeOK', NEW t \in Tasks, Submit(t)
    PROVE  IInv'
<1> USE SizeAssumption, RetryAssumption, NoTaskAssumption
    DEF IInv, TypeOK, Submit
<1> DEFINE n == Len(queue)
<1>1. /\ n \in Nat
      /\ Len(queue') = n + 1
      /\ \A i \in 1..n : queue'[i] = queue[i] /\ queue[i] \in Tasks
      /\ queue'[n + 1] = t
  BY AppendFacts
<1> HIDE DEF n
<1>2. \A i \in 1..n : queue[i] # t
  BY <1>1 DEF QueueOpen, n
<1>3. \A c \in Threads : hand[c] # t
  BY DEF HandByLabel, Holding
<1>4. \A s \in Tasks : s # t => status'[s] = status[s]
  OBVIOUS
<1>5. HandByLabel'
  BY <1>3, <1>4 DEF HandByLabel, Holding
<1>6. RetryByStatus'
  BY DEF RetryByStatus
<1>7. QueueOnce'
  BY <1>1, <1>2 DEF QueueOnce, n
<1>8. HandOnce'
  BY DEF HandOnce
<1>9. Apart'
  BY <1>1, <1>3 DEF Apart, n
<1>10. QueueOpen'
  BY <1>1, <1>2, <1>4 DEF QueueOpen, n
<1>11. DeadOnce'
  BY <1>4 DEF DeadOnce
<1>12. QED
  BY <1>5, <1>6, <1>7, <1>8, <1>9, <1>10, <1>11

\* get(): the head of the queue moves into the thread's empty hand.
LEMMA GetStep ==
    ASSUME IInv, TypeOK', NEW c \in Threads, Get(c)
    PROVE  IInv'
<1> USE NoTaskAssumption DEF IInv, TypeOK, Get, Pop
<1> DEFINE n == Len(queue)
<1>1. /\ n \in Nat \ {0}
      /\ Len(queue') = n - 1
      /\ \A i \in 1..(n - 1) : queue'[i] = queue[i + 1]
      /\ hand'[c] = queue[1] /\ queue[1] \in Tasks
      /\ \A d \in Threads : d # c => hand'[d] = hand[d]
  BY TailFacts
<1> HIDE DEF n
<1>2. HandByLabel'
  <2>1. status[queue[1]] \in {"pending", "retrying"}
    BY <1>1 DEF QueueOpen, n
  <2>2. QED
    BY <1>1, <2>1 DEF HandByLabel, Holding
<1>3. RetryByStatus'
  BY DEF RetryByStatus
<1>4. QueueOnce'
  <2> SUFFICES ASSUME NEW i \in 1..(n - 1), NEW j \in 1..(n - 1), queue'[i] = queue'[j]
               PROVE  i = j
    BY <1>1 DEF QueueOnce
  <2>1. i + 1 \in 1..n /\ j + 1 \in 1..n /\ queue[i + 1] = queue[j + 1]
    BY <1>1
  <2>2. QED
    BY <1>1, <2>1 DEF QueueOnce, n
<1>5. HandOnce'
  BY <1>1 DEF HandOnce, Apart, n
<1>6. Apart'
  <2> SUFFICES ASSUME NEW i \in 1..(n - 1), NEW d \in Threads
               PROVE  queue'[i] # hand'[d]
    BY <1>1 DEF Apart
  <2>1. i + 1 \in 1..n /\ 1 \in 1..n /\ i + 1 # 1 /\ queue'[i] = queue[i + 1]
    BY <1>1
  <2>2. QED
    BY <1>1, <2>1 DEF QueueOnce, Apart, n
<1>7. QueueOpen'
  <2> SUFFICES ASSUME NEW i \in 1..(n - 1)
               PROVE  status[queue'[i]] \in {"pending", "retrying"}
    BY <1>1 DEF QueueOpen
  <2>1. i + 1 \in 1..n /\ queue'[i] = queue[i + 1]
    BY <1>1
  <2>2. QED
    BY <2>1 DEF QueueOpen, n
<1>8. DeadOnce'
  <2>1. 1 \in 1..n /\ status[queue[1]] \in {"pending", "retrying"}
    BY <1>1 DEF QueueOpen, n
  <2>2. \A i \in 1..Len(dead) : dead[i] # queue[1]
    BY <2>1 DEF DeadOnce
  <2>3. QED
    BY <1>1, <2>2 DEF DeadOnce
<1>9. QED
  BY <1>2, <1>3, <1>4, <1>5, <1>6, <1>7, <1>8

\* A thread that changes the status of the task it holds disturbs neither the queue,
\* nor another hand, nor the dead letters.
LEMMA StatusStep ==
    ASSUME IInv, TypeOK', NEW c \in Threads, NEW s \in Statuses,
           pc[c] \in {"mark", "process"},
           status' = [status EXCEPT ![hand[c]] = s],
           UNCHANGED <<queue, dead, hand>>
    PROVE  /\ hand[c] \in Tasks
           /\ \A d \in Threads : d # c /\ hand[d] # NoTask => status'[hand[d]] = status[hand[d]]
           /\ (QueueOnce /\ HandOnce /\ Apart /\ QueueOpen /\ DeadOnce)'
<1> USE NoTaskAssumption DEF IInv, TypeOK
<1>1. hand[c] \in Tasks
  BY DEF HandByLabel, Holding
<1>2. \A t \in Tasks : t # hand[c] => status'[t] = status[t]
  BY <1>1
<1>3. \A d \in Threads : d # c /\ hand[d] # NoTask => status'[hand[d]] = status[hand[d]]
  BY <1>1, <1>2 DEF HandOnce
<1>4. (QueueOnce /\ HandOnce /\ Apart)'
  BY DEF QueueOnce, HandOnce, Apart
<1>5. QueueOpen'
  <2> SUFFICES ASSUME NEW i \in 1..Len(queue)
               PROVE  status'[queue[i]] \in {"pending", "retrying"}
    BY DEF QueueOpen
  <2>1. queue[i] \in Tasks /\ queue[i] # hand[c]
    BY DEF Apart
  <2>2. QED
    BY <1>2, <2>1 DEF QueueOpen
<1>6. DeadOnce'
  <2>1. \A i \in 1..Len(dead) : dead[i] \in Tasks /\ dead[i] # hand[c]
    BY DEF DeadOnce
  <2>2. /\ \A i, j \in 1..Len(dead) : dead[i] = dead[j] => i = j
        /\ \A i \in 1..Len(dead) : status[dead[i]] = "failed"
        /\ \A i \in 1..Len(dead) : \A d \in Threads : dead[i] # hand[d]
    BY DEF DeadOnce
  <2>3. \A i \in 1..Len(dead) : status'[dead[i]] = "failed"
    BY <1>2, <2>1, <2>2
  <2>4. dead' = dead /\ hand' = hand
    OBVIOUS
  <2> HIDE DEF IInv, TypeOK
  <2>5. QED
    BY <2>2, <2>3, <2>4 DEF DeadOnce
<1>7. QED
  BY <1>1, <1>3, <1>4, <1>5, <1>6

-----------------------------------------------------------------------------

\* A task that get() handed over is marked PROCESSING; its attempts stay.
LEMMA MarkStep ==
    ASSUME IInv, TypeOK', NEW c \in Threads, MarkProcessing(c)
    PROVE  IInv'
<1> USE NoTaskAssumption, RetryAssumption DEF IInv, TypeOK
<1>1. /\ hand[c] \in Tasks
      /\ \A d \in Threads : d # c /\ hand[d] # NoTask => status'[hand[d]] = status[hand[d]]
      /\ (QueueOnce /\ HandOnce /\ Apart /\ QueueOpen /\ DeadOnce)'
  BY StatusStep DEF MarkProcessing, Statuses
<1>2. HandByLabel'
  BY <1>1 DEF MarkProcessing, HandByLabel, Holding
<1>3. RetryByStatus'
  BY <1>1 DEF MarkProcessing, RetryByStatus, HandByLabel
<1>4. QED
  BY <1>1, <1>2, <1>3

\* process() returned: COMPLETED is final, and the thread still holds the task.
LEMMA SucceedStep ==
    ASSUME IInv, TypeOK', NEW c \in Threads, Succeed(c)
    PROVE  IInv'
<1> USE NoTaskAssumption DEF IInv, TypeOK
<1>1. /\ hand[c] \in Tasks
      /\ \A d \in Threads : d # c /\ hand[d] # NoTask => status'[hand[d]] = status[hand[d]]
      /\ (QueueOnce /\ HandOnce /\ Apart /\ QueueOpen /\ DeadOnce)'
  BY StatusStep DEF Succeed, Statuses
<1>2. HandByLabel'
  BY <1>1 DEF Succeed, HandByLabel, Holding
<1>3. RetryByStatus'
  BY <1>1 DEF Succeed, RetryByStatus, HandByLabel
<1>4. QED
  BY <1>1, <1>2, <1>3

\* A failure: the attempt is counted before the retry rule reads it.
LEMMA FailStep ==
    ASSUME IInv, TypeOK', NEW c \in Threads, Fail(c)
    PROVE  IInv'
<1> USE NoTaskAssumption, RetryAssumption DEF IInv, TypeOK
<1> DEFINE n == retry[hand[c]] + 1
           s == IF CanRetry(n) THEN "retrying" ELSE "failed"
<1>1. /\ status' = [status EXCEPT ![hand[c]] = s]
      /\ retry' = [retry EXCEPT ![hand[c]] = n]
      /\ pc' = [pc EXCEPT ![c] = IF CanRetry(n) THEN "requeue" ELSE "bury"]
      /\ pc[c] = "process"
      /\ UNCHANGED <<queue, dead, hand>>
  BY DEF Fail, RetryNext
<1>2. s \in Statuses
  BY DEF Statuses
<1>3. /\ hand[c] \in Tasks
      /\ \A d \in Threads : d # c /\ hand[d] # NoTask => status'[hand[d]] = status[hand[d]]
      /\ (QueueOnce /\ HandOnce /\ Apart /\ QueueOpen /\ DeadOnce)'
  <2> HIDE DEF s
  <2>1. QED
    BY StatusStep, <1>1, <1>2
<1>4. n \in 1..MaxRetries /\ (CanRetry(n) <=> n # MaxRetries)
  BY <1>1, <1>3 DEF HandByLabel, RetryByStatus, CanRetry
<1>5. HandByLabel'
  BY <1>1, <1>3 DEF HandByLabel, Holding
<1>6. RetryByStatus'
  <2>1. \A t \in Tasks : t # hand[c] => status'[t] = status[t] /\ retry'[t] = retry[t]
    BY <1>1, <1>3
  <2>2. status'[hand[c]] = s /\ retry'[hand[c]] = n
    BY <1>1, <1>3
  <2>3. ASSUME NEW t \in Tasks
        PROVE  /\ status'[t] \in {"none", "pending"} => retry'[t] = 0
               /\ status'[t] = "retrying" => retry'[t] \in 1..(MaxRetries - 1)
               /\ status'[t] \in {"processing", "completed"} => retry'[t] < MaxRetries
               /\ status'[t] = "failed" => retry'[t] = MaxRetries
    <3>1. CASE t # hand[c]
      BY <2>1, <3>1 DEF RetryByStatus
    <3>2. CASE t = hand[c]
      BY <2>2, <1>4, <3>2
    <3>3. QED
      BY <3>1, <3>2
  <2>4. QED
    BY <2>3 DEF RetryByStatus
<1>7. QED
  BY <1>3, <1>5, <1>6

\* put(): with room the task in hand moves to the end of the queue; without, the
\* hand is emptied and nothing else changes.
LEMMA RequeueStep ==
    ASSUME IInv, TypeOK', NEW c \in Threads, Requeue(c)
    PROVE  IInv'
<1> USE NoTaskAssumption, SizeAssumption DEF IInv, TypeOK, Requeue
<1>1. hand[c] \in Tasks /\ status[hand[c]] = "retrying"
  BY DEF HandByLabel, Holding
<1>2. hand'[c] = NoTask /\ \A d \in Threads : d # c => hand'[d] = hand[d]
  OBVIOUS
<1>3. HandByLabel'
  BY <1>2 DEF HandByLabel, Holding
<1>4. (RetryByStatus /\ HandOnce /\ DeadOnce)'
  BY <1>2 DEF RetryByStatus, HandOnce, DeadOnce
<1>5. CASE HasRoom
  <2> DEFINE n == Len(queue)
  <2>1. /\ n \in Nat
        /\ Len(queue') = n + 1
        /\ \A i \in 1..n : queue'[i] = queue[i] /\ queue[i] # hand[c]
        /\ queue'[n + 1] = hand[c]
    BY <1>1, <1>5, AppendFacts DEF Apart
  <2> HIDE DEF n
  <2>2. QueueOnce'
    BY <2>1 DEF QueueOnce, n
  <2>3. Apart'
    BY <1>1, <1>2, <2>1 DEF Apart, HandOnce, n
  <2>4. QueueOpen'
    BY <1>1, <2>1 DEF QueueOpen, n
  <2>5. QED
    BY <1>3, <1>4, <2>2, <2>3, <2>4
<1>6. CASE ~HasRoom
  <2>1. queue' = queue
    BY <1>6
  <2>2. (QueueOnce /\ Apart /\ QueueOpen)'
    BY <1>2, <2>1 DEF QueueOnce, Apart, QueueOpen
  <2>3. QED
    BY <1>3, <1>4, <2>2
<1>7. QED
  BY <1>5, <1>6

\* The dead letter gets a task it did not have, because a thread still held it.
LEMMA BuryStep ==
    ASSUME IInv, TypeOK', NEW c \in Threads, Bury(c)
    PROVE  IInv'
<1> USE NoTaskAssumption DEF IInv, TypeOK, Bury, AfterBury
<1> DEFINE n == Len(dead)
<1>1. hand[c] \in Tasks /\ status[hand[c]] = "failed"
  BY DEF HandByLabel, Holding
<1>2. hand'[c] = NoTask /\ \A d \in Threads : d # c => hand'[d] = hand[d]
  OBVIOUS
<1>3. /\ n \in Nat
      /\ Len(dead') = n + 1
      /\ \A i \in 1..n : dead'[i] = dead[i] /\ dead[i] # hand[c] /\ dead[i] \in Tasks
      /\ dead'[n + 1] = hand[c]
  BY <1>1, AppendFacts DEF DeadOnce
<1> HIDE DEF n
<1>4. HandByLabel'
  BY <1>2 DEF HandByLabel, Holding
<1>5. (RetryByStatus /\ QueueOnce /\ HandOnce /\ Apart /\ QueueOpen)'
  BY <1>2 DEF RetryByStatus, QueueOnce, HandOnce, Apart, QueueOpen
<1>6. DeadOnce'
  <2>1. \A i, j \in 1..(n + 1) : dead'[i] = dead'[j] => i = j
    BY <1>3 DEF DeadOnce, n
  <2>2. \A i \in 1..(n + 1) : status[dead'[i]] = "failed"
    BY <1>1, <1>3 DEF DeadOnce, n
  <2>3. \A i \in 1..(n + 1) : \A d \in Threads : dead'[i] # hand'[d]
    <3> SUFFICES ASSUME NEW i \in 1..(n + 1), NEW d \in Threads
                 PROVE  dead'[i] # hand'[d]
      OBVIOUS
    <3>1. dead'[i] \in Tasks
      BY <1>1, <1>3
    <3>2. CASE d = c
      BY <1>2, <3>1, <3>2
    <3>3. CASE d # c /\ i = n + 1
      BY <1>1, <1>2, <1>3, <3>3 DEF HandOnce
    <3>4. CASE d # c /\ i # n + 1
      BY <1>2, <1>3, <3>4 DEF DeadOnce, n
    <3>5. QED
      BY <3>2, <3>3, <3>4
  <2>4. QED
    BY <1>3, <2>1, <2>2, <2>3 DEF DeadOnce
<1>7. QED
  BY <1>4, <1>5, <1>6

-----------------------------------------------------------------------------

\* Nothing is queued, held or dead-lettered before the first submit.
LEMMA InitIInv == Init => IInv
<1> SUFFICES ASSUME Init PROVE IInv
  OBVIOUS
<1> USE SizeAssumption, RetryAssumption, NoTaskAssumption DEF Init
<1>1. TypeOK
  <2>1. queue \in Seq(Tasks) /\ dead \in Seq(Tasks)
    OBVIOUS
  <2>2. retry \in [Tasks -> 0..MaxRetries]
    OBVIOUS
  <2>3. QED
    BY <2>1, <2>2 DEF TypeOK, Statuses, Holding, Labels
<1>2. HandByLabel /\ RetryByStatus /\ HandOnce
  BY DEF HandByLabel, RetryByStatus, HandOnce, Holding
<1>3. 1..Len(queue) = {} /\ 1..Len(dead) = {}
  OBVIOUS
<1>4. QueueOnce /\ Apart /\ QueueOpen /\ DeadOnce
  BY <1>3 DEF QueueOnce, Apart, QueueOpen, DeadOnce
<1>5. QED
  BY <1>1, <1>2, <1>4 DEF IInv

\* Every step keeps the inductive invariant.
LEMMA NextIInv ==
    ASSUME IInv, [Next]_vars
    PROVE  IInv'
<1>1. TypeOK'
  BY TypeStep
<1>2. ASSUME NEW t \in Tasks, Submit(t) PROVE IInv'
  BY <1>1, <1>2, SubmitStep
<1>3. ASSUME NEW c \in Threads, Start(c) PROVE IInv'
  BY <1>1, <1>3, LabelsOnly DEF IInv, TypeOK, Start, HandByLabel, Holding
<1>4. CASE Stop
  BY <1>1, <1>4, LabelsOnly DEF IInv, TypeOK, Stop, HandByLabel
<1>5. ASSUME NEW c \in Threads, Check(c) PROVE IInv'
  BY <1>1, <1>5, LabelsOnly DEF IInv, TypeOK, Check, HandByLabel, Holding
<1>6. ASSUME NEW c \in Threads, Get(c) PROVE IInv'
  BY <1>1, <1>6, GetStep
<1>7. ASSUME NEW c \in Threads, GetTimeout(c) PROVE IInv'
  BY <1>1, <1>7, LabelsOnly DEF IInv, TypeOK, GetTimeout, HandByLabel, Holding
<1>8. ASSUME NEW c \in Threads, MarkProcessing(c) PROVE IInv'
  BY <1>1, <1>8, MarkStep
<1>9. ASSUME NEW c \in Threads, Succeed(c) PROVE IInv'
  BY <1>1, <1>9, SucceedStep
<1>10. ASSUME NEW c \in Threads, ReadProcessed(c) \/ StoreProcessed(c) PROVE IInv'
  <2>1. CASE ReadProcessed(c)
    BY <1>1, <2>1, LabelsOnly DEF IInv, TypeOK, ReadProcessed, HandByLabel, Holding
  <2>2. CASE StoreProcessed(c)
    BY <1>1, <2>2, LabelsOnly DEF IInv, TypeOK, StoreProcessed, HandByLabel, Holding
  <2>3. QED
    BY <1>10, <2>1, <2>2
<1>11. ASSUME NEW c \in Threads, Fail(c) PROVE IInv'
  BY <1>1, <1>11, FailStep
<1>12. ASSUME NEW c \in Threads, Requeue(c) PROVE IInv'
  BY <1>1, <1>12, RequeueStep
<1>13. ASSUME NEW c \in Threads, Bury(c) PROVE IInv'
  BY <1>1, <1>13, BuryStep
<1>14. ASSUME NEW c \in Threads, ReadFailed(c) \/ StoreFailed(c) PROVE IInv'
  <2>1. CASE ReadFailed(c)
    BY <1>1, <2>1, LabelsOnly DEF IInv, TypeOK, ReadFailed, HandByLabel, Holding
  <2>2. CASE StoreFailed(c)
    BY <1>1, <2>2, LabelsOnly DEF IInv, TypeOK, StoreFailed, HandByLabel, Holding
  <2>3. QED
    BY <1>14, <2>1, <2>2
<1>15. CASE UNCHANGED vars
  BY <1>1, <1>15, LabelsOnly DEF IInv, TypeOK, vars, HandByLabel
<1>16. QED
  BY <1>2, <1>3, <1>4, <1>5, <1>6, <1>7, <1>8, <1>9, <1>10, <1>11, <1>12, <1>13,
     <1>14, <1>15 DEF Next, ThreadStep

\* The inductive invariant holds in every reachable state.
THEOREM Invariance == Spec => []IInv
<1>1. Init => IInv
  BY InitIInv
<1>2. IInv /\ [Next]_vars => IInv'
  BY NextIInv
<1>3. QED
  BY <1>1, <1>2, PTL DEF Spec

\* Every variable keeps its type, the attempts in particular stay within max_retries.
THEOREM TypeCorrect == Spec => []TypeOK
<1>1. IInv => TypeOK
  BY DEF IInv
<1>2. QED
  BY <1>1, Invariance, PTL

\* The queue and the threads share tasks without duplicating one, for every number of
\* consumer threads that stop() and start() leave alive together.
THEOREM CustodyHolds == Spec => []Custody
<1>1. IInv => Custody
  <2> SUFFICES ASSUME IInv PROVE Custody
    OBVIOUS
  <2>1. Queued \cap Held = {}
    BY DEF IInv, Apart, Queued, Held
  <2>2. \A t \in Queued : status[t] \in {"pending", "retrying"}
    BY DEF IInv, QueueOpen, Queued
  <2>3. QED
    BY <2>1, <2>2 DEF IInv, QueueOnce, HandOnce, DeadOnce, Custody
<1>2. QED
  BY <1>1, Invariance, PTL

\* A task is given up after exactly max_retries attempts, and completes before.
THEOREM AttemptsHonouredHolds == Spec => []AttemptsHonoured
<1>1. IInv => AttemptsHonoured
  BY DEF IInv, RetryByStatus, AttemptsHonoured
<1>2. QED
  BY <1>1, Invariance, PTL

-----------------------------------------------------------------------------
(* Refinement of TaskLifecycle. *)

Kept == Queued \cup Held

\* The fate of a task depends on its status and, while it is RETRYING, on whether the
\* queue or a thread has it.
LEMMA FateFrame ==
    ASSUME NEW t \in Tasks, status'[t] = status[t],
           status[t] = "retrying" => (t \in Kept <=> t \in Kept')
    PROVE  FateOf(t)' = FateOf(t)
BY DEF FateOf, Lost, Kept

\* What append does to the set of queued tasks.
LEMMA QueuedAppend ==
    ASSUME NEW t \in Tasks, queue \in Seq(Tasks), queue' = Append(queue, t)
    PROVE  Queued' = Queued \cup {t}
<1>1. /\ Len(queue) \in Nat
      /\ Len(queue') = Len(queue) + 1
      /\ \A i \in 1..Len(queue) : queue'[i] = queue[i]
      /\ queue'[Len(queue) + 1] = t
  BY AppendFacts
<1>2. \A i \in 1..Len(queue') : i \in 1..Len(queue) \/ i = Len(queue) + 1
  BY <1>1
<1>3. Len(queue) + 1 \in 1..Len(queue') /\ 1..Len(queue) \subseteq 1..Len(queue')
  BY <1>1
<1>4. QED
  BY <1>1, <1>2, <1>3 DEF Queued

\* What get does to it.
LEMMA QueuedPop ==
    ASSUME queue \in Seq(Tasks), queue # <<>>, queue' = Tail(queue)
    PROVE  Queued = Queued' \cup {Head(queue)}
<1> DEFINE n == Len(queue)
<1>1. /\ n \in Nat \ {0}
      /\ Len(queue') = n - 1
      /\ Head(queue) = queue[1]
      /\ \A i \in 1..(n - 1) : queue'[i] = queue[i + 1]
  BY TailFacts
<1>2. \A i \in 1..n : i = 1 \/ (i - 1 \in 1..(n - 1) /\ queue[i] = queue'[i - 1])
  <2> SUFFICES ASSUME NEW i \in 1..n, i # 1
               PROVE  i - 1 \in 1..(n - 1) /\ queue[i] = queue'[i - 1]
    OBVIOUS
  <2>1. i - 1 \in 1..(n - 1) /\ (i - 1) + 1 = i
    BY <1>1
  <2>2. QED
    BY <1>1, <2>1
<1>3. \A i \in 1..(n - 1) : i + 1 \in 1..n
  BY <1>1
<1>4. 1 \in 1..n
  BY <1>1
<1>5. Queued' = {queue'[i] : i \in 1..(n - 1)}
  BY <1>1 DEF Queued
<1>6. ASSUME NEW x \in Queued PROVE x \in Queued' \cup {Head(queue)}
  <2>1. PICK i \in 1..n : x = queue[i]
    BY <1>6 DEF Queued
  <2>2. QED
    BY <1>1, <1>2, <1>5, <2>1
<1>7. ASSUME NEW x \in Queued' \cup {Head(queue)} PROVE x \in Queued
  BY <1>1, <1>3, <1>4, <1>5, <1>7 DEF Queued
<1>8. QED
  BY <1>6, <1>7

\* A thread that empties its hand gives up that task and no other.
LEMMA HeldEmptied ==
    ASSUME IInv, NEW c \in Threads, hand[c] \in Tasks, hand' = [hand EXCEPT ![c] = NoTask]
    PROVE  Held' = Held \ {hand[c]}
<1> USE NoTaskAssumption DEF IInv, TypeOK
<1>1. \A d \in Threads : d # c => hand'[d] = hand[d] /\ hand[d] # hand[c]
  BY DEF HandOnce
<1>2. hand'[c] = NoTask
  OBVIOUS
<1>3. QED
  BY <1>1, <1>2 DEF Held

\* get() moves a task from the queue to a hand, so together they keep what they have.
LEMMA KeptGet ==
    ASSUME IInv, NEW c \in Threads, Get(c)
    PROVE  Kept' = Kept
<1> USE NoTaskAssumption DEF IInv, TypeOK
<1>1. hand[c] = NoTask
  BY DEF Get, HandByLabel, Holding
<1>2. Held' = Held \cup {Head(queue)}
  BY <1>1, TailFacts DEF Get, Held
<1>3. Queued = Queued' \cup {Head(queue)}
  BY QueuedPop DEF Get, Pop
<1>4. QED
  BY <1>2, <1>3 DEF Kept

\* put() with room moves it back.
LEMMA KeptRequeue ==
    ASSUME IInv, NEW c \in Threads, Requeue(c), HasRoom
    PROVE  Kept' = Kept
<1> USE NoTaskAssumption DEF IInv, TypeOK
<1>1. hand[c] \in Tasks /\ hand[c] \in Held
  BY DEF Requeue, HandByLabel, Holding, Held
<1>2. Held' = Held \ {hand[c]}
  BY <1>1, HeldEmptied DEF Requeue
<1>3. Queued' = Queued \cup {hand[c]}
  BY <1>1, QueuedAppend DEF Requeue
<1>4. QED
  BY <1>1, <1>2, <1>3 DEF Kept

\* A step that leaves every fate and every attempt alone is invisible.
LEMMA Invisible ==
    ASSUME \A t \in Tasks : FateOf(t)' = FateOf(t)
    PROVE  FateMap' = FateMap
BY DEF FateMap

\* A step that changes the fate of one task alone.
LEMMA OneFate ==
    ASSUME NEW t \in Tasks, NEW f, FateOf(t)' = f,
           \A s \in Tasks \ {t} : FateOf(s)' = FateOf(s)
    PROVE  FateMap' = [FateMap EXCEPT ![t] = f]
BY DEF FateMap

\* What the mapped variable says of one task.
LEMMA FateAt ==
    ASSUME NEW t \in Tasks
    PROVE  FateMap[t] = FateOf(t)
BY DEF FateMap

\* No task is accepted in an initial state.
LEMMA InitRefines == Init => Lifecycle!Init
BY DEF Init, Lifecycle!Init, FateMap, FateOf

\* Each step of the pipeline is a step of the lifecycle or leaves fate and attempts.
LEMMA StepRefines ==
    ASSUME IInv, IInv', [Next]_vars
    PROVE  [Lifecycle!Next]_(Lifecycle!vars)
<1> USE NoTaskAssumption, RetryAssumption DEF IInv, TypeOK
<1>1. ASSUME NEW t \in Tasks, Submit(t) PROVE Lifecycle!Accept(t)
  <2>1. Queued' = Queued \cup {t} /\ Held' = Held
    BY <1>1, QueuedAppend DEF Submit, Held
  <2>2. \A s \in Tasks \ {t} : FateOf(s)' = FateOf(s)
    BY <1>1, <2>1, FateFrame DEF Submit, Kept
  <2>3. FateOf(t) = "absent" /\ FateOf(t)' = "live"
    BY <1>1 DEF Submit, FateOf, Lost
  <2>4. FateMap' = [FateMap EXCEPT ![t] = "live"] /\ FateMap[t] = "absent"
    BY <2>2, <2>3, OneFate DEF FateMap
  <2>5. QED
    BY <1>1, <2>4 DEF Submit, Lifecycle!Accept
<1>2. ASSUME NEW c \in Threads, Get(c) PROVE UNCHANGED <<FateMap, retry>>
  BY <1>2, KeptGet, FateFrame, Invisible DEF Get
<1>3. ASSUME NEW c \in Threads, NEW t \in Tasks, hand[c] = t,
             MarkProcessing(c) \/ Succeed(c) \/ Fail(c)
      PROVE  /\ t \in Held /\ Queued' = Queued /\ Held' = Held
             /\ FateOf(t) = "live"
             /\ \A s \in Tasks \ {t} : FateOf(s)' = FateOf(s)
  <2>1. /\ t \in Held
        /\ status[t] \in {"pending", "retrying", "processing"}
        /\ Queued' = Queued /\ Held' = Held
        /\ \A s \in Tasks \ {t} : status'[s] = status[s]
    <3>1. UNCHANGED <<queue, hand>> /\ \E x : status' = [status EXCEPT ![t] = x]
      BY <1>3 DEF MarkProcessing, Succeed, Fail
    <3>2. status[t] \in {"pending", "retrying", "processing"}
      BY <1>3 DEF MarkProcessing, Succeed, Fail, HandByLabel
    <3>3. t \in Held
      BY <1>3 DEF Held
    <3>4. QED
      BY <3>1, <3>2, <3>3 DEF Queued, Held
  <2>2. FateOf(t) = "live"
    BY <2>1 DEF FateOf, Lost
  <2>3. \A s \in Tasks \ {t} : FateOf(s)' = FateOf(s)
    BY <2>1, FateFrame DEF Kept
  <2>4. QED
    BY <2>1, <2>2, <2>3
<1>4. ASSUME NEW c \in Threads, NEW t \in Tasks, hand[c] = t, MarkProcessing(c)
      PROVE  UNCHANGED <<FateMap, retry>>
  <2>1. FateOf(t)' = "live"
    BY <1>4 DEF MarkProcessing, FateOf, Lost
  <2>2. QED
    BY <1>3, <1>4, <2>1, Invisible DEF MarkProcessing
<1>5. ASSUME NEW c \in Threads, NEW t \in Tasks, hand[c] = t, Succeed(c)
      PROVE  Lifecycle!Complete(t)
  <2>1. FateOf(t)' = "completed"
    BY <1>5 DEF Succeed, FateOf
  <2>2. FateMap' = [FateMap EXCEPT ![t] = "completed"]
    BY <1>3, <1>5, <2>1, OneFate
  <2>3. retry[t] < MaxRetries
    BY <1>5 DEF Succeed, HandByLabel, RetryByStatus
  <2>4. QED
    BY <1>3, <1>5, <2>2, <2>3, FateAt DEF Succeed, Lifecycle!Complete
<1>6. ASSUME NEW c \in Threads, NEW t \in Tasks, hand[c] = t, Fail(c)
      PROVE  Lifecycle!FailAttempt(t) \/ Lifecycle!Exhaust(t)
  <2> DEFINE n == retry[t] + 1
  <2>1. /\ retry' = [retry EXCEPT ![t] = n]
        /\ status'[t] = IF CanRetry(n) THEN "retrying" ELSE "failed"
        /\ n \in 1..MaxRetries
    BY <1>6 DEF Fail, RetryNext, HandByLabel, RetryByStatus
  <2>2. CASE CanRetry(n)
    <3>1. FateOf(t)' = "live"
      BY <1>3, <1>6, <2>1, <2>2 DEF FateOf, Lost
    <3>2. FateMap' = FateMap
      BY <1>3, <1>6, <3>1, Invisible
    <3>3. QED
      BY <1>3, <1>6, <2>1, <2>2, <3>2, FateAt DEF CanRetry, Lifecycle!FailAttempt
  <2>3. CASE ~CanRetry(n)
    <3>1. FateOf(t)' = "dead"
      BY <2>1, <2>3 DEF FateOf
    <3>2. FateMap' = [FateMap EXCEPT ![t] = "dead"]
      BY <1>3, <1>6, <3>1, OneFate
    <3>3. n = MaxRetries
      BY <2>1, <2>3 DEF CanRetry
    <3>4. QED
      BY <1>3, <1>6, <2>1, <3>2, <3>3, FateAt DEF Lifecycle!Exhaust
  <2>4. QED
    BY <2>2, <2>3
<1>8. ASSUME NEW c \in Threads, NEW t \in Tasks, hand[c] = t, StoreProcessed(c) \/ Bury(c)
      PROVE  UNCHANGED <<FateMap, retry>>
  <2>1. /\ status[t] \in {"completed", "failed"}
        /\ hand' = [hand EXCEPT ![c] = NoTask]
        /\ UNCHANGED <<queue, status, retry>>
    BY <1>8 DEF StoreProcessed, Bury, HandByLabel, Holding
  <2>2. Held' = Held \ {t}
    BY HeldEmptied, <1>8, <2>1
  <2>3. Queued' = Queued
    BY <2>1 DEF Queued
  <2>4. \A s \in Tasks : FateOf(s)' = FateOf(s)
    BY <2>1, <2>2, <2>3, FateFrame DEF Kept
  <2>5. QED
    BY <2>1, <2>4, Invisible
<1>9. ASSUME NEW c \in Threads, NEW t \in Tasks, hand[c] = t, Requeue(c)
      PROVE  Lifecycle!Lose(t) \/ UNCHANGED <<FateMap, retry>>
  <2>1. /\ t \in Held /\ t \notin Queued
        /\ status[t] = "retrying" /\ retry[t] \in 1..(MaxRetries - 1)
        /\ UNCHANGED <<status, retry>>
    BY <1>9 DEF Requeue, HandByLabel, Holding, RetryByStatus, Held, Queued, Apart
  <2>2. Held' = Held \ {t}
    BY HeldEmptied, <1>9 DEF Requeue
  <2>3. CASE HasRoom
    BY <1>9, <2>1, <2>3, KeptRequeue, FateFrame, Invisible
  <2>4. CASE ~HasRoom
    <3>1. Queued' = Queued
      BY <1>9, <2>4 DEF Requeue, Queued
    <3>2. FateOf(t) = "live" /\ FateOf(t)' = "lost"
      BY <2>1, <2>2, <3>1 DEF FateOf, Lost
    <3>3. \A s \in Tasks \ {t} : FateOf(s)' = FateOf(s)
      BY <2>1, <2>2, <3>1, FateFrame DEF Kept
    <3>4. FateMap' = [FateMap EXCEPT ![t] = "lost"]
      BY <3>2, <3>3, OneFate
    <3>5. QED
      BY <2>1, <3>2, <3>4, FateAt DEF Lifecycle!Lose
  <2>5. QED
    BY <2>3, <2>4
<1>10. ASSUME UNCHANGED <<queue, status, retry, hand>>
       PROVE  UNCHANGED <<FateMap, retry>>
  BY <1>10, FateFrame, Invisible DEF Kept, Queued, Held
<1>11. ASSUME NEW c \in Threads,
              \/ Start(c) \/ Check(c) \/ GetTimeout(c)
              \/ ReadProcessed(c) \/ ReadFailed(c) \/ StoreFailed(c)
       PROVE  UNCHANGED <<FateMap, retry>>
  BY <1>10, <1>11 DEF Start, Check, GetTimeout, ReadProcessed, ReadFailed, StoreFailed
<1>12. CASE Stop \/ UNCHANGED vars
  BY <1>10, <1>12 DEF Stop, vars, Lifecycle!vars
<1>13. ASSUME NEW c \in Threads, ThreadStep(c)
       PROVE  Lifecycle!Next \/ UNCHANGED <<FateMap, retry>>
  <2>1. CASE pc[c] \in Holding
    <3>1. PICK t \in Tasks : hand[c] = t
      BY <2>1 DEF HandByLabel
    <3>2. CASE Succeed(c)
      BY <1>5, <3>1, <3>2 DEF Lifecycle!Next
    <3>3. CASE Fail(c)
      BY <1>6, <3>1, <3>3 DEF Lifecycle!Next
    <3>4. CASE Requeue(c)
      BY <1>9, <3>1, <3>4 DEF Lifecycle!Next
    <3>5. QED
      BY <1>2, <1>4, <1>8, <1>11, <1>13, <3>1, <3>2, <3>3, <3>4 DEF ThreadStep
  <2>2. CASE pc[c] \notin Holding
    BY <1>2, <1>11, <1>13, <2>2
    DEF ThreadStep, MarkProcessing, Succeed, StoreProcessed, Fail, Requeue, Bury, Holding
  <2>3. QED
    BY <2>1, <2>2
<1>14. QED
  BY <1>1, <1>11, <1>12, <1>13 DEF Next, Lifecycle!Next, Lifecycle!vars

\* The pipeline implements the life it promises a task: no task skips an attempt, comes
\* back from a final fate or leaves "live" other than by completing, exhausting its
\* attempts or a retry that did not fit.
THEOREM Refinement == Spec => ImplementsLifecycle
<1>1. Init => Lifecycle!Init
  BY InitRefines
<1>2. IInv /\ IInv' /\ [Next]_vars => [Lifecycle!Next]_(Lifecycle!vars)
  BY StepRefines
<1>3. QED
  BY <1>1, <1>2, Invariance, PTL DEF Spec, ImplementsLifecycle, Lifecycle!Spec

-----------------------------------------------------------------------------

\* put_nowait() keeps the queue within its bound.
QueueBounded == Len(queue) <= MaxSize

\* Only submit() and a retry lengthen the queue, and both look for room.
LEMMA BoundedStep ==
    ASSUME TypeOK, QueueBounded, [Next]_vars
    PROVE  QueueBounded'
<1> USE SizeAssumption DEF TypeOK, QueueBounded
<1>1. ASSUME NEW t \in Tasks, queue' = Append(queue, t), HasRoom PROVE QueueBounded'
  BY <1>1, AppendFacts DEF HasRoom
<1>2. ASSUME NEW c \in Threads, Get(c) PROVE QueueBounded'
  BY <1>2, TailFacts DEF Get, Pop
<1>3. ASSUME queue' = queue PROVE QueueBounded'
  BY <1>3
<1>4. ASSUME NEW c \in Threads, Requeue(c) PROVE QueueBounded'
  <2>1. CASE HasRoom
    <3>1. Len(queue') = Len(queue) + 1
      BY <1>4, <2>1 DEF Requeue
    <3>2. QED
      BY <2>1, <3>1 DEF HasRoom
  <2>2. CASE ~HasRoom
    BY <1>3, <1>4, <2>2 DEF Requeue
  <2>3. QED
    BY <2>1, <2>2
<1>5. ASSUME NEW c \in Threads, ThreadStep(c), ~Get(c), ~Requeue(c) PROVE queue' = queue
  BY <1>5 DEF ThreadStep, Check, GetTimeout, MarkProcessing, Succeed, ReadProcessed,
              StoreProcessed, Fail, Bury, ReadFailed, StoreFailed
<1>6. QED
  BY <1>1, <1>2, <1>3, <1>4, <1>5 DEF Next, Submit, Start, Stop, vars

\* The step that takes a RETRYING task away from the queue and from every thread is
\* the put() that found no room.
LEMMA LossStep ==
    ASSUME IInv, [Next]_vars, NEW t \in Tasks, ~Lost(t), Lost(t)'
    PROVE  ~HasRoom
<1> USE NoTaskAssumption DEF IInv, TypeOK
<1>1. SUFFICES ASSUME HasRoom PROVE FALSE
  OBVIOUS
<1>2. status'[t] = "retrying" /\ t \notin Kept'
  BY DEF Lost, Kept
<1>3. ASSUME status'[t] = status[t], Kept \ {t} = Kept' \ {t} PROVE t \in Kept
  BY <1>2, <1>3 DEF Lost, Kept
<1>4. ASSUME NEW c \in Threads, Get(c) PROVE FALSE
  BY <1>2, <1>3, <1>4, KeptGet DEF Get
<1>5. ASSUME NEW c \in Threads, Requeue(c) PROVE FALSE
  BY <1>1, <1>2, <1>3, <1>5, KeptRequeue DEF Requeue
<1>6. ASSUME UNCHANGED <<queue, hand, status>> PROVE FALSE
  BY <1>2, <1>6 DEF Lost, Kept, Queued, Held
<1>7. ASSUME NEW c \in Threads, StoreProcessed(c) \/ Bury(c) PROVE FALSE
  <2>1. /\ hand[c] \in Tasks /\ hand[c] # t
        /\ UNCHANGED <<queue, status>>
        /\ hand' = [hand EXCEPT ![c] = NoTask]
    BY <1>2, <1>7 DEF StoreProcessed, Bury, HandByLabel, Holding
  <2>2. Held' = Held \ {hand[c]} /\ Queued' = Queued
    BY <2>1, HeldEmptied DEF Queued
  <2>3. QED
    BY <1>2, <2>1, <2>2 DEF Lost, Kept
<1>8. ASSUME NEW c \in Threads, MarkProcessing(c) \/ Succeed(c) \/ Fail(c) PROVE FALSE
  <2>1. hand[c] \in Held /\ UNCHANGED <<queue, hand>>
    BY <1>8 DEF MarkProcessing, Succeed, Fail, HandByLabel, Holding, Held
  <2>2. Kept' = Kept /\ hand[c] \in Kept
    BY <2>1 DEF Kept, Queued, Held
  <2>3. hand[c] # t
    BY <1>2, <2>2
  <2>4. status'[t] = status[t]
    BY <1>8, <2>3 DEF MarkProcessing, Succeed, Fail
  <2>5. QED
    BY <1>2, <2>2, <2>4 DEF Lost, Kept
<1>9. ASSUME NEW s \in Tasks, Submit(s) PROVE FALSE
  <2>1. Queued' = Queued \cup {s} /\ Held' = Held
    BY <1>9, QueuedAppend DEF Submit, Held
  <2>2. status'[t] = status[t]
    BY <1>2, <1>9 DEF Submit
  <2>3. QED
    BY <1>2, <2>1, <2>2 DEF Lost, Kept
<1>10. ASSUME NEW c \in Threads, Start(c) \/ ThreadStep(c) PROVE FALSE
  BY <1>4, <1>5, <1>6, <1>7, <1>8, <1>10
  DEF ThreadStep, Start, Check, GetTimeout, ReadProcessed, ReadFailed, StoreFailed
<1>11. QED
  BY <1>6, <1>9, <1>10 DEF Next, Stop, vars

\* The only step that loses a task is a retry against a full queue.
THEOREM LossNeedsFullQueueHolds == Spec => LossNeedsFullQueue
<1>1. Init => QueueBounded
  BY SizeAssumption DEF Init, QueueBounded
<1>2. TypeOK /\ QueueBounded /\ [Next]_vars => QueueBounded'
  BY BoundedStep
<1>3. IInv /\ QueueBounded /\ [Next]_vars =>
        [\A t \in Tasks : ~Lost(t) /\ Lost(t)' => Len(queue) = MaxSize]_vars
  <2> SUFFICES ASSUME IInv, QueueBounded, [Next]_vars, NEW t \in Tasks, ~Lost(t), Lost(t)'
               PROVE  Len(queue) = MaxSize
    OBVIOUS
  <2>1. Len(queue) \in Nat
    BY DEF IInv, TypeOK
  <2>2. QED
    BY <2>1, LossStep, SizeAssumption DEF HasRoom, QueueBounded
<1>4. QED
  BY <1>1, <1>2, <1>3, Invariance, TypeCorrect, PTL DEF Spec, LossNeedsFullQueue
-----------------------------------------------------------------------------
(* The counters.  n is a counter, total what it should come to; a thread that *)
(* has something to count is at label r, reads n, is at s, and writes back.   *)
(* What a thread has read is never too much for what is left to count.        *)

Live == Labels \ {"new"}
Tallied(n, total, r, s) ==
    /\ n + Counting({r, s}) <= total
    /\ \A c \in Threads : pc[c] = s => seen[c] + Counting({r, s}) <= total
    /\ Counting(Live) <= 1 =>
        /\ total = n + Counting({r, s})
        /\ \A c \in Threads : pc[c] = s => seen[c] = n

Done == {t \in Tasks : status[t] = "completed"}
Tally ==
    /\ IsFiniteSet(Done) /\ IsFiniteSet({c \in Threads : pc[c] \in Live})
    /\ Tallied(processed, Completed, "count_ok", "store_ok")
    /\ Tallied(failed, Len(dead), "count_failed", "store_failed")

\* The threads at some labels are counted; alone, a thread that moves is the only one.
LEMMA CountingType ==
    ASSUME IsFiniteSet({c \in Threads : pc[c] \in Live}), NEW L \in SUBSET Live
    PROVE  IsFiniteSet({c \in Threads : pc[c] \in L}) /\ Counting(L) \in Nat
<1>1. {c \in Threads : pc[c] \in L} \subseteq {c \in Threads : pc[c] \in Live}
  OBVIOUS
<1>2. IsFiniteSet({c \in Threads : pc[c] \in L})
  BY <1>1, FS_Subset
<1>3. QED
  BY <1>2, FS_CardinalityType DEF Counting

LEMMA CountingMoves ==
    ASSUME TypeOK, IsFiniteSet({c \in Threads : pc[c] \in Live}), NEW L \in SUBSET Live,
           NEW c \in Threads, NEW l \in Labels, pc' = [pc EXCEPT ![c] = l]
    PROVE  /\ IsFiniteSet({d \in Threads : pc[d] \in L}')
           /\ Counting(L) \in Nat /\ Counting(L)' \in Nat
           /\ (pc[c] \in L <=> l \in L) => Counting(L)' = Counting(L)
           /\ pc[c] \in L /\ l \notin L => Counting(L)' = Counting(L) - 1
           /\ pc[c] \notin L /\ l \in L => Counting(L)' = Counting(L) + 1
<1> DEFINE A == {d \in Threads : pc[d] \in L}
           B == {d \in Threads : pc'[d] \in L}
<1>1. IsFiniteSet(A) /\ Cardinality(A) \in Nat
  BY CountingType, FS_CardinalityType
<1>2. pc'[c] = l /\ \A d \in Threads \ {c} : pc'[d] = pc[d]
  BY DEF TypeOK
<1>3. IsFiniteSet(A \cup {c}) /\ Cardinality(A \cup {c}) = IF c \in A THEN Cardinality(A) ELSE Cardinality(A) + 1
  BY <1>1, FS_AddElement
<1>4. IsFiniteSet(A \ {c}) /\ Cardinality(A \ {c}) = IF c \in A THEN Cardinality(A) - 1 ELSE Cardinality(A)
  BY <1>1, FS_RemoveElement
<1>5. B = IF l \in L THEN A \cup {c} ELSE A \ {c}
  BY <1>2
<1>6. IsFiniteSet(B) /\ Cardinality(B) \in Nat
  BY <1>3, <1>4, <1>5, FS_CardinalityType
<1>7. c \in A <=> pc[c] \in L
  OBVIOUS
<1>8. Counting(L) = Cardinality(A) /\ Counting(L)' = Cardinality(B)
  BY DEF Counting
<1> HIDE DEF A, B
<1>9. CASE l \in L
  <2>1. B = A \cup {c}
    BY <1>5, <1>9
  <2>2. QED
    BY <1>1, <1>3, <1>6, <1>7, <1>8, <1>9, <2>1 DEF B
<1>10. CASE l \notin L
  <2>1. B = A \ {c}
    BY <1>5, <1>10
  <2>2. QED
    BY <1>1, <1>4, <1>6, <1>7, <1>8, <1>10, <2>1 DEF B
<1>11. QED
  BY <1>9, <1>10

LEMMA AloneFacts ==
    ASSUME IsFiniteSet({c \in Threads : pc[c] \in Live}), Counting(Live) <= 1,
           NEW c \in Threads, pc[c] \in Live, NEW d \in Threads, pc[d] \in Live
    PROVE  d = c
<1> DEFINE A == {x \in Threads : pc[x] \in Live}
<1>1. Cardinality(A) \in Nat /\ Cardinality(A) <= 1
  BY FS_CardinalityType DEF Counting
<1>2. Cardinality(A \ {c}) = Cardinality(A) - 1 /\ IsFiniteSet(A \ {c})
  BY FS_RemoveElement
<1>3. Cardinality(A \ {c}) \in Nat
  BY <1>2, FS_CardinalityType
<1>4. Cardinality(A \ {c}) = 0
  <2> HIDE DEF A
  <2>1. QED
    BY <1>1, <1>2, <1>3
<1>5. A \ {c} = {}
  BY <1>2, <1>4, FS_EmptySet
<1>6. QED
  BY <1>5

\* A step of thread c to label l: past the counter, into counting, reading it, or writing it
\* back.
Counts(c, l, n, m, total, sum, r, s) ==
    \/ pc[c] \notin {r, s} /\ l \notin {r, s} /\ m = n /\ sum = total
    \/ pc[c] \notin {r, s} /\ l = r /\ m = n /\ sum = total + 1
    \/ pc[c] = r /\ l = s /\ seen'[c] = n /\ m = n /\ sum = total
    \/ pc[c] = s /\ l \notin {r, s} /\ m = seen[c] + 1 /\ sum = total

After(m, sum, r, s) ==
    /\ m + Counting({r, s})' <= sum
    /\ \A d \in Threads : pc'[d] = s => seen'[d] + Counting({r, s})' <= sum
    /\ Counting(Live)' <= 1 =>
        /\ sum = m + Counting({r, s})'
        /\ \A d \in Threads : pc'[d] = s => seen'[d] = m

LEMMA TallyStep ==
    ASSUME TypeOK, IsFiniteSet({c \in Threads : pc[c] \in Live}),
           NEW n \in Nat, NEW m \in Nat, NEW total \in Nat, NEW sum \in Nat,
           NEW r \in Live, NEW s \in Live, r # s, Tallied(n, total, r, s),
           NEW c \in Threads, pc[c] \in Live, NEW l \in Live, pc' = [pc EXCEPT ![c] = l],
           \A d \in Threads \ {c} : seen'[d] = seen[d],
           Counts(c, l, n, m, total, sum, r, s)
    PROVE  After(m, sum, r, s)
<1> USE DEF Counts, After
<1>1. /\ {r, s} \in SUBSET Live /\ l \in Labels /\ Live \in SUBSET Live
      /\ seen \in [Threads -> Nat]
  BY DEF Live, TypeOK
<1>2. PICK x \in Nat, y \in Nat :
        /\ x = Counting({r, s}) /\ y = Counting({r, s})'
        /\ (pc[c] \in {r, s} <=> l \in {r, s}) => y = x
        /\ pc[c] \in {r, s} /\ l \notin {r, s} => y = x - 1
        /\ pc[c] \notin {r, s} /\ l \in {r, s} => y = x + 1
  BY <1>1, CountingMoves
<1>3. Counting(Live)' = Counting(Live)
  BY <1>1, CountingMoves
<1>4. /\ n + x <= total
      /\ \A d \in Threads : pc[d] = s => seen[d] + x <= total
      /\ Counting(Live) <= 1 => total = n + x /\ \A d \in Threads : pc[d] = s => seen[d] = n
  BY <1>2 DEF Tallied
<1>5. pc'[c] = l /\ \A d \in Threads \ {c} : pc'[d] = pc[d] /\ seen'[d] = seen[d]
  BY DEF TypeOK
<1>6. \A d \in Threads : seen[d] \in Nat
  BY <1>1
<1>7. m + y <= sum
  BY <1>2, <1>4, <1>6
<1>8. ASSUME NEW d \in Threads, pc'[d] = s PROVE seen'[d] + y <= sum
  <2>1. CASE d = c
    BY <1>2, <1>4, <1>5, <1>8, <2>1
  <2>2. CASE d # c
    <3>1. pc[d] = s /\ seen'[d] = seen[d] /\ seen[d] \in Nat /\ seen[d] + x <= total
      BY <1>4, <1>5, <1>6, <1>8, <2>2
    <3>2. sum - y >= total - x
      BY <1>2
    <3>3. QED
      BY <1>2, <3>1, <3>2
  <2>3. QED
    BY <2>1, <2>2
<1>9. ASSUME Counting(Live) <= 1
      PROVE  sum = m + y /\ \A d \in Threads : pc'[d] = s => seen'[d] = m
  <2>1. \A d \in Threads : pc[d] = s => d = c
    BY <1>9, AloneFacts
  <2>2. total = n + x /\ (pc[c] = s => seen[c] = n)
    BY <1>4, <1>9
  <2>3. sum = m + y
    BY <1>2, <2>2
  <2>4. \A d \in Threads : pc'[d] = s => seen'[d] = m
    BY <1>5, <2>1, <1>2
  <2>5. QED
    BY <2>3, <2>4
<1>10. QED
  BY <1>2, <1>3, <1>7, <1>8, <1>9

\* What a change of one task's status does to the number of completed tasks.
LEMMA CompletedFacts ==
    ASSUME TypeOK, IsFiniteSet(Done), NEW t \in Tasks, NEW x, status[t] # "completed",
           status' = [status EXCEPT ![t] = x]
    PROVE  /\ Completed \in Nat /\ Completed' \in Nat /\ IsFiniteSet(Done')
           /\ Completed' = IF x = "completed" THEN Completed + 1 ELSE Completed
<1>1. Completed = Cardinality(Done) /\ Completed' = Cardinality(Done') /\ Cardinality(Done) \in Nat
  BY FS_CardinalityType DEF Completed, Done
<1>2. status'[t] = x /\ \A u \in Tasks \ {t} : status'[u] = status[u]
  BY DEF TypeOK
<1>3. CASE x = "completed"
  <2>1. Done' = Done \cup {t} /\ t \notin Done
    BY <1>2, <1>3 DEF Done
  <2>2. IsFiniteSet(Done \cup {t}) /\ Cardinality(Done \cup {t}) = Cardinality(Done) + 1
    BY <2>1, FS_AddElement
  <2>3. QED
    BY <1>1, <1>3, <2>1, <2>2
<1>4. CASE x # "completed"
  <2>1. Done' = Done
    BY <1>2, <1>4 DEF Done
  <2>2. QED
    BY <1>1, <1>4, <2>1
<1>5. QED
  BY <1>3, <1>4

\* Both counters after a step of one thread.
LEMMA BothTally ==
    ASSUME TypeOK, TypeOK', Tally, NEW c \in Threads, pc[c] \in Live, NEW l \in Live,
           pc' = [pc EXCEPT ![c] = l], \A d \in Threads \ {c} : seen'[d] = seen[d],
           IsFiniteSet(Done'),
           Counts(c, l, processed, processed', Completed, Completed', "count_ok", "store_ok"),
           Counts(c, l, failed, failed', Len(dead), Len(dead'), "count_failed", "store_failed")
    PROVE  Tally'
<1>1. /\ {"count_ok", "store_ok", "count_failed", "store_failed"} \subseteq Live
      /\ Live \in SUBSET Live /\ l \in Labels
  BY DEF Live, Labels, Holding
<1>2. IsFiniteSet({d \in Threads : pc[d] \in Live}')
  BY <1>1, CountingMoves DEF Tally
<1>3. /\ processed \in Nat /\ processed' \in Nat /\ failed \in Nat /\ failed' \in Nat
      /\ Completed \in Nat /\ Completed' \in Nat /\ Len(dead) \in Nat /\ Len(dead') \in Nat
  <2>1. Completed \in Nat /\ Completed' \in Nat
    BY FS_CardinalityType DEF Tally, Completed, Done
  <2>2. dead \in Seq(Tasks) /\ dead' \in Seq(Tasks)
    BY DEF TypeOK
  <2>3. QED
    BY <2>1, <2>2 DEF TypeOK
<1>4. IsFiniteSet({d \in Threads : pc[d] \in Live})
  BY DEF Tally
<1>5. Tallied(processed, Completed, "count_ok", "store_ok")'
  <2>1. PICK n \in Nat, m \in Nat, total \in Nat, sum \in Nat :
          n = processed /\ m = processed' /\ total = Completed /\ sum = Completed'
    BY <1>3
  <2>2. Tallied(n, total, "count_ok", "store_ok")
    BY <2>1 DEF Tally, Tallied
  <2>3. Counts(c, l, n, m, total, sum, "count_ok", "store_ok")
    BY <2>1 DEF Counts
  <2>4. "count_ok" \in Live /\ "store_ok" \in Live /\ "count_ok" # "store_ok"
    BY <1>1
  <2>5. After(m, sum, "count_ok", "store_ok")
    BY <1>4, <2>2, <2>3, <2>4, TallyStep
  <2>6. QED
    BY <2>1, <2>5 DEF After, Tallied
<1>6. Tallied(failed, Len(dead), "count_failed", "store_failed")'
  <2>1. PICK n \in Nat, m \in Nat, total \in Nat, sum \in Nat :
          n = failed /\ m = failed' /\ total = Len(dead) /\ sum = Len(dead)'
    BY <1>3
  <2>2. Tallied(n, total, "count_failed", "store_failed")
    BY <2>1 DEF Tally, Tallied
  <2>3. Counts(c, l, n, m, total, sum, "count_failed", "store_failed")
    BY <2>1 DEF Counts
  <2>4. "count_failed" \in Live /\ "store_failed" \in Live /\ "count_failed" # "store_failed"
    BY <1>1
  <2>5. After(m, sum, "count_failed", "store_failed")
    BY <1>4, <2>2, <2>3, <2>4, TallyStep
  <2>6. QED
    BY <2>1, <2>5 DEF After, Tallied
<1>7. QED
  BY <1>2, <1>5, <1>6 DEF Tally

LEMMA ThreadTally ==
    ASSUME IInv, TypeOK', Tally, NEW c \in Threads, ThreadStep(c)
    PROVE  Tally'
<1>0. /\ TypeOK /\ IsFiniteSet(Done) /\ seen \in [Threads -> Nat] /\ dead \in Seq(Tasks)
      /\ hand[c] # NoTask => hand[c] \in Tasks
  BY DEF IInv, TypeOK, Tally
<1>1. CASE Check(c) \/ Get(c) \/ GetTimeout(c) \/ Requeue(c)
  <2>1. PICK l \in {"get", "ended", "mark", "check"} : pc' = [pc EXCEPT ![c] = l]
    BY <1>1 DEF Check, Get, GetTimeout, Requeue
  <2>2. /\ pc[c] \in {"check", "get", "requeue"}
        /\ UNCHANGED <<dead, processed, failed, seen, Done, Completed>>
    BY <1>1 DEF Check, Get, GetTimeout, Requeue, Done, Completed
  <2>3. l \in Live /\ pc[c] \in Live
    BY <2>2 DEF Live, Labels, Holding
  <2>4. /\ Counts(c, l, processed, processed', Completed, Completed', "count_ok", "store_ok")
        /\ Counts(c, l, failed, failed', Len(dead), Len(dead'), "count_failed", "store_failed")
    BY <2>1, <2>2 DEF Counts
  <2>5. QED
    BY <1>0, <2>1, <2>2, <2>3, <2>4, BothTally
<1>2. CASE MarkProcessing(c) \/ Succeed(c) \/ Fail(c)
  <2>1. PICK l \in {"process", "count_ok", "requeue", "bury"}, x \in Statuses :
          /\ pc' = [pc EXCEPT ![c] = l] /\ status' = [status EXCEPT ![hand[c]] = x]
          /\ x = "completed" <=> l = "count_ok"
    BY <1>2 DEF MarkProcessing, Succeed, Fail, Statuses
  <2>2. /\ pc[c] \in {"mark", "process"} /\ hand[c] \in Tasks /\ status[hand[c]] # "completed"
        /\ UNCHANGED <<dead, processed, failed, seen>>
    BY <1>0, <1>2 DEF MarkProcessing, Succeed, Fail, IInv, HandByLabel, Holding
  <2>3. l \in Live /\ pc[c] \in Live
    BY <2>2 DEF Live, Labels, Holding
  <2>4. /\ Completed \in Nat /\ IsFiniteSet(Done')
        /\ Completed' = IF x = "completed" THEN Completed + 1 ELSE Completed
    BY <1>0, <2>1, <2>2, CompletedFacts
  <2>5. Counts(c, l, processed, processed', Completed, Completed', "count_ok", "store_ok")
    BY <2>1, <2>2, <2>4 DEF Counts
  <2>6. Counts(c, l, failed, failed', Len(dead), Len(dead'), "count_failed", "store_failed")
    BY <2>1, <2>2 DEF Counts
  <2>7. QED
    BY <1>0, <2>1, <2>2, <2>3, <2>4, <2>5, <2>6, BothTally
<1>3. CASE Bury(c)
  <2>1. /\ pc[c] = "bury" /\ pc' = [pc EXCEPT ![c] = "count_failed"]
        /\ UNCHANGED <<processed, failed, seen, Done, Completed>>
        /\ dead' = Append(dead, hand[c])
    BY <1>3 DEF Bury, AfterBury, Done, Completed
  <2>2. hand[c] \in Tasks
    BY <1>0, <2>1 DEF IInv, HandByLabel, Holding
  <2>3. "count_failed" \in Live /\ pc[c] \in Live
    BY <2>1 DEF Live, Labels, Holding
  <2>4. Len(dead') = Len(dead) + 1
    BY <1>0, <2>1, <2>2, AppendFacts
  <2>5. /\ Counts(c, "count_failed", processed, processed', Completed, Completed', "count_ok", "store_ok")
        /\ Counts(c, "count_failed", failed, failed', Len(dead), Len(dead'), "count_failed", "store_failed")
    BY <2>1, <2>4 DEF Counts
  <2>6. QED
    BY <1>0, <2>1, <2>3, <2>5, BothTally
<1>4. CASE ReadProcessed(c) \/ StoreProcessed(c)
  <2>1. PICK l \in {"store_ok", "check"} :
          /\ pc' = [pc EXCEPT ![c] = l]
          /\ \/ pc[c] = "count_ok" /\ l = "store_ok" /\ seen' = [seen EXCEPT ![c] = processed] /\ UNCHANGED processed
             \/ pc[c] = "store_ok" /\ l = "check" /\ seen' = [seen EXCEPT ![c] = 0] /\ processed' = seen[c] + 1
    BY <1>4 DEF ReadProcessed, StoreProcessed
  <2>2. UNCHANGED <<dead, failed, Done, Completed>>
    BY <1>4 DEF ReadProcessed, StoreProcessed, Done, Completed
  <2>3. /\ \A d \in Threads \ {c} : seen'[d] = seen[d]
        /\ pc[c] = "count_ok" => seen'[c] = processed
    BY <1>0, <2>1
  <2>4. l \in Live /\ pc[c] \in Live
    BY <2>1 DEF Live, Labels, Holding
  <2>5. Counts(c, l, processed, processed', Completed, Completed', "count_ok", "store_ok")
    BY <2>1, <2>2, <2>3 DEF Counts
  <2>6. Counts(c, l, failed, failed', Len(dead), Len(dead'), "count_failed", "store_failed")
    BY <2>1, <2>2 DEF Counts
  <2>7. QED
    BY <1>0, <2>1, <2>2, <2>3, <2>4, <2>5, <2>6, BothTally
<1>5. CASE ReadFailed(c) \/ StoreFailed(c)
  <2>1. PICK l \in {"store_failed", "check"} :
          /\ pc' = [pc EXCEPT ![c] = l]
          /\ \/ pc[c] = "count_failed" /\ l = "store_failed" /\ seen' = [seen EXCEPT ![c] = failed] /\ UNCHANGED failed
             \/ pc[c] = "store_failed" /\ l = "check" /\ seen' = [seen EXCEPT ![c] = 0] /\ failed' = seen[c] + 1
    BY <1>5 DEF ReadFailed, StoreFailed
  <2>2. UNCHANGED <<dead, processed, Done, Completed>>
    BY <1>5 DEF ReadFailed, StoreFailed, Done, Completed
  <2>3. /\ \A d \in Threads \ {c} : seen'[d] = seen[d]
        /\ pc[c] = "count_failed" => seen'[c] = failed
    BY <1>0, <2>1
  <2>4. l \in Live /\ pc[c] \in Live
    BY <2>1 DEF Live, Labels, Holding
  <2>5. Counts(c, l, processed, processed', Completed, Completed', "count_ok", "store_ok")
    BY <2>1, <2>2 DEF Counts
  <2>6. Counts(c, l, failed, failed', Len(dead), Len(dead'), "count_failed", "store_failed")
    BY <2>1, <2>2, <2>3 DEF Counts
  <2>7. QED
    BY <1>0, <2>1, <2>2, <2>3, <2>4, <2>5, <2>6, BothTally
<1>6. QED
  BY <1>1, <1>2, <1>3, <1>4, <1>5 DEF ThreadStep

\* A thread that is created has counted nothing; the other callers' steps count nothing.
LEMMA CallerTally ==
    ASSUME IInv, TypeOK', Tally,
           \/ \E t \in Tasks : Submit(t)
           \/ \E c \in Threads : Start(c)
           \/ Stop \/ UNCHANGED vars
    PROVE  Tally'
<1>0. /\ TypeOK /\ IsFiniteSet(Done) /\ IsFiniteSet({c \in Threads : pc[c] \in Live})
      /\ Tallied(processed, Completed, "count_ok", "store_ok")
      /\ Tallied(failed, Len(dead), "count_failed", "store_failed")
  BY DEF IInv, Tally
<1>1. UNCHANGED <<dead, processed, failed, seen>>
  BY DEF Submit, Start, Stop, vars
<1>2. UNCHANGED <<Done, Completed>>
  <2>1. CASE \E t \in Tasks : Submit(t)
    BY <1>0, <2>1 DEF Submit, TypeOK, Done, Completed
  <2>2. CASE UNCHANGED status
    BY <2>2 DEF Done, Completed
  <2>3. QED
    BY <2>1, <2>2 DEF Start, Stop, vars
<1>3. CASE UNCHANGED pc
  <2>1. \A L : Counting(L)' = Counting(L)
    BY <1>3 DEF Counting
  <2>2. {c \in Threads : pc[c] \in Live}' = {c \in Threads : pc[c] \in Live}
    BY <1>3
  <2>3. Tallied(processed, Completed, "count_ok", "store_ok")'
    BY <1>0, <1>1, <1>2, <1>3, <2>1 DEF Tallied
  <2>4. Tallied(failed, Len(dead), "count_failed", "store_failed")'
    BY <1>0, <1>1, <1>3, <2>1 DEF Tallied
  <2>5. QED
    BY <1>0, <1>2, <2>2, <2>3, <2>4 DEF Tally
<1>4. CASE \E c \in Threads : Start(c)
  <2>1. PICK c \in Threads : pc[c] = "new" /\ pc' = [pc EXCEPT ![c] = "check"]
    BY <1>4 DEF Start
  <2>2. /\ {"count_ok", "store_ok"} \in SUBSET Live /\ {"count_failed", "store_failed"} \in SUBSET Live
        /\ Live \in SUBSET Live /\ "check" \in Live /\ "check" \in Labels /\ "new" \notin Live
    BY DEF Live, Labels, Holding
  <2>3. /\ Counting({"count_ok", "store_ok"})' = Counting({"count_ok", "store_ok"})
        /\ Counting({"count_failed", "store_failed"})' = Counting({"count_failed", "store_failed"})
    BY <1>0, <2>1, <2>2, CountingMoves
  <2>4. /\ IsFiniteSet({d \in Threads : pc[d] \in Live}')
        /\ Counting(Live) \in Nat /\ Counting(Live)' = Counting(Live) + 1
    BY <1>0, <2>1, <2>2, CountingMoves
  <2>5. Counting(Live)' <= 1 => Counting(Live) <= 1
    BY <2>4
  <2>6. \A d \in Threads : pc'[d] \in {"store_ok", "store_failed"} => pc'[d] = pc[d]
    BY <1>0, <2>1 DEF TypeOK
  <2>7. Tallied(processed, Completed, "count_ok", "store_ok")'
    BY <1>0, <1>1, <1>2, <2>3, <2>5, <2>6 DEF Tallied
  <2>8. Tallied(failed, Len(dead), "count_failed", "store_failed")'
    BY <1>0, <1>1, <2>3, <2>5, <2>6 DEF Tallied
  <2>9. QED
    BY <1>0, <1>2, <2>4, <2>7, <2>8 DEF Tally
<1>5. QED
  BY <1>3, <1>4 DEF Submit, Stop, vars

\* stats() is exact with one thread and never over-counts, for every number of threads that
\* write back the counters without a lock.
THEOREM StatsExactHolds == Spec => []StatsExact
<1>1. Init => Tally
  <2> SUFFICES ASSUME Init PROVE Tally
    OBVIOUS
  <2>1. Done = {} /\ \A L \in SUBSET Live : {c \in Threads : pc[c] \in L} = {}
    BY DEF Init, Done, Live
  <2>2. {"count_ok", "store_ok"} \in SUBSET Live /\ {"count_failed", "store_failed"} \in SUBSET Live
    BY DEF Live, Labels, Holding
  <2>3. Completed = 0 /\ Counting({"count_ok", "store_ok"}) = 0 /\ Counting({"count_failed", "store_failed"}) = 0
    BY <2>1, <2>2, FS_EmptySet DEF Completed, Done, Counting
  <2>4. Len(dead) = 0 /\ processed = 0 /\ failed = 0 /\ \A c \in Threads : pc[c] = "new"
    BY DEF Init
  <2>5. Tallied(processed, Completed, "count_ok", "store_ok") /\ Tallied(failed, Len(dead), "count_failed", "store_failed")
    BY <2>3, <2>4 DEF Tallied
  <2>6. QED
    BY <2>1, <2>5, FS_EmptySet DEF Tally
<1>2. IInv /\ TypeOK' /\ Tally /\ [Next]_vars => Tally'
  BY ThreadTally, CallerTally DEF Next
<1>3. IInv /\ Tally => StatsExact
  <2> SUFFICES ASSUME IInv, Tally PROVE StatsExact
    OBVIOUS
  <2>1. /\ Counting({"count_ok", "store_ok"}) \in Nat /\ Counting({"count_failed", "store_failed"}) \in Nat
    <3>1. {"count_ok", "store_ok"} \in SUBSET Live /\ {"count_failed", "store_failed"} \in SUBSET Live
      BY DEF Live, Labels, Holding
    <3>2. QED
      BY <3>1, CountingType DEF Tally
  <2>2. processed \in Nat /\ failed \in Nat /\ Completed \in Nat /\ Len(dead) \in Nat
    <3>1. Completed \in Nat
      BY FS_CardinalityType DEF Tally, Completed, Done
    <3>2. dead \in Seq(Tasks) /\ processed \in Nat /\ failed \in Nat
      BY DEF IInv, TypeOK
    <3>3. QED
      BY <3>1, <3>2
  <2>3. processed <= Completed /\ failed <= Len(dead)
    BY <2>1, <2>2 DEF Tally, Tallied
  <2>4. Counting(Labels \ {"new"}) <= 1 =>
          /\ Completed = processed + Counting({"count_ok", "store_ok"})
          /\ Len(dead) = failed + Counting({"count_failed", "store_failed"})
    BY DEF Tally, Tallied, Live
  <2>5. QED
    BY <2>3, <2>4 DEF StatsExact
<1>4. QED
  BY <1>1, <1>2, <1>3, Invariance, TypeCorrect, PTL DEF Spec
=============================================================================
