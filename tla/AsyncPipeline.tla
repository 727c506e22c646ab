--------------------------- MODULE AsyncPipeline ---------------------------
(* The asynchronous task pipeline of infrastructure/async_pipeline.py: one    *)
(* TaskQueue (a bounded queue.Queue and a dead-letter list), producers that   *)
(* submit, and one AbstractConsumer whose start() creates a polling thread    *)
(* and whose stop() clears the flag the threads poll.                         *)
(*                                                                            *)
(* A thread's step is what it does between two points where another thread    *)
(* can see or change the shared state: reading _running, blocking in get(),   *)
(* process(), put() and the two counters.  stop() joins for at most 5 s and   *)
(* changes nothing else, so a start() may come while the old thread still     *)
(* works: nothing below assumes that there is one live thread.                *)
EXTENDS Naturals, Sequences, FiniteSets

CONSTANTS
    Tasks,        \* the AsyncTask objects producers may submit, each once
    Threads,      \* the threads start() may create (bounds the number of starts)
    MaxSize,      \* TaskQueue(maxsize)
    MaxRetries,   \* AsyncTask.max_retries, 3 for VectorizeProducer
    NoTask        \* an empty hand

ASSUME SizeAssumption  == MaxSize \in Nat \ {0}
ASSUME RetryAssumption == MaxRetries \in Nat \ {0}
ASSUME NoTaskAssumption == NoTask \notin Tasks

VARIABLES
    queue,        \* TaskQueue._queue
    dead,         \* TaskQueue._dead_letter
    status,       \* AsyncTask.status; "none" before the submit that creates it
    retry,        \* AsyncTask.retry_count
    running,      \* AbstractConsumer._running
    pc,           \* what each thread does next
    hand,         \* the task a thread works on
    processed,    \* _processed_count
    failed,       \* _failed_count
    seen          \* the counter a thread has read and is about to write back

vars == <<queue, dead, status, retry, running, pc, hand, processed, failed, seen>>

Statuses == {"none", "pending", "processing", "completed", "failed", "retrying"}
Holding  == {"mark", "process", "count_ok", "store_ok", "requeue", "bury"}
Labels   == Holding \cup {"new", "check", "get", "count_failed", "store_failed", "ended"}

TypeOK ==
    /\ queue \in Seq(Tasks)
    /\ dead \in Seq(Tasks)
    /\ status \in [Tasks -> Statuses]
    /\ retry \in [Tasks -> 0..MaxRetries]
    /\ running \in BOOLEAN
    /\ pc \in [Threads -> Labels]
    /\ hand \in [Threads -> Tasks \cup {NoTask}]
    /\ processed \in Nat
    /\ failed \in Nat
    /\ seen \in [Threads -> Nat]

Init ==
    /\ queue = <<>>
    /\ dead = <<>>
    /\ status = [t \in Tasks |-> "none"]
    /\ retry = [t \in Tasks |-> 0]
    /\ running = FALSE
    /\ pc = [c \in Threads |-> "new"]
    /\ hand = [c \in Threads |-> NoTask]
    /\ processed = 0
    /\ failed = 0
    /\ seen = [c \in Threads |-> 0]

-----------------------------------------------------------------------------
(* The queue and the retry rule. *)

RoomOffByOne == Len(queue) + 1 < MaxSize          \* mutant
HasRoom == Len(queue) < MaxSize                   \* put_nowait does not raise Full

Peek == queue                                     \* mutant
Pop == Tail(queue)

CanRetryOneMore(n) == n <= MaxRetries             \* mutant
CanRetry(n) == n < MaxRetries                     \* AsyncTask.can_retry

-----------------------------------------------------------------------------
(* The callers: submit, start, stop. *)

\* submit(): a task that does not fit is refused (None) and leaves no trace.
Submit(t) ==
    /\ status[t] = "none"
    /\ HasRoom
    /\ queue' = Append(queue, t)
    /\ status' = [status EXCEPT ![t] = "pending"]
    /\ UNCHANGED <<dead, retry, running, pc, hand, processed, failed, seen>>

\* start(): returns at once when _running is set; otherwise a fresh thread.
Start(c) ==
    /\ ~running
    /\ pc[c] = "new"
    /\ running' = TRUE
    /\ pc' = [pc EXCEPT ![c] = "check"]
    /\ UNCHANGED <<queue, dead, status, retry, hand, processed, failed, seen>>

Stop ==
    /\ running
    /\ running' = FALSE
    /\ UNCHANGED <<queue, dead, status, retry, pc, hand, processed, failed, seen>>

-----------------------------------------------------------------------------
(* The consumer thread: _loop and _process_one. *)

Check(c) ==
    /\ pc[c] = "check"
    /\ pc' = [pc EXCEPT ![c] = IF running THEN "get" ELSE "ended"]
    /\ UNCHANGED <<queue, dead, status, retry, running, hand, processed, failed, seen>>

\* queue.get(timeout): the flag may have been cleared since it was read.
Get(c) ==
    /\ pc[c] = "get"
    /\ queue # <<>>
    /\ hand' = [hand EXCEPT ![c] = Head(queue)]
    /\ queue' = Pop
    /\ pc' = [pc EXCEPT ![c] = "mark"]
    /\ UNCHANGED <<dead, status, retry, running, processed, failed, seen>>

GetTimeout(c) ==
    /\ pc[c] = "get"
    /\ queue = <<>>
    /\ pc' = [pc EXCEPT ![c] = "check"]
    /\ UNCHANGED <<queue, dead, status, retry, running, hand, processed, failed, seen>>

MarkProcessing(c) ==
    /\ pc[c] = "mark"
    /\ status' = [status EXCEPT ![hand[c]] = "processing"]
    /\ pc' = [pc EXCEPT ![c] = "process"]
    /\ UNCHANGED <<queue, dead, retry, running, hand, processed, failed, seen>>

\* process(payload) returned.
Succeed(c) ==
    /\ pc[c] = "process"
    /\ status' = [status EXCEPT ![hand[c]] = "completed"]
    /\ pc' = [pc EXCEPT ![c] = "count_ok"]
    /\ UNCHANGED <<queue, dead, retry, running, hand, processed, failed, seen>>

\* _processed_count += 1 reads, adds and writes without a lock.
ReadProcessed(c) ==
    /\ pc[c] = "count_ok"
    /\ seen' = [seen EXCEPT ![c] = processed]
    /\ pc' = [pc EXCEPT ![c] = "store_ok"]
    /\ UNCHANGED <<queue, dead, status, retry, running, hand, processed, failed>>

StoreProcessed(c) ==
    /\ pc[c] = "store_ok"
    /\ processed' = seen[c] + 1
    /\ seen' = [seen EXCEPT ![c] = 0]
    /\ hand' = [hand EXCEPT ![c] = NoTask]
    /\ pc' = [pc EXCEPT ![c] = "check"]
    /\ UNCHANGED <<queue, dead, status, retry, running, failed>>

RetryKept(t) == retry[t]                          \* mutant
RetryNext(t) == retry[t] + 1

\* process(payload) raised: the except branch up to the put() or the dead letter.
Fail(c) ==
    /\ pc[c] = "process"
    /\ LET t == hand[c]
           n == RetryNext(t)
       IN  /\ retry' = [retry EXCEPT ![t] = n]
           /\ status' = [status EXCEPT ![t] = IF CanRetry(n) THEN "retrying" ELSE "failed"]
           /\ pc' = [pc EXCEPT ![c] = IF CanRetry(n) THEN "requeue" ELSE "bury"]
    /\ UNCHANGED <<queue, dead, running, hand, processed, failed, seen>>

\* self.queue.put(task): nobody looks at the False it returns when the queue is full.
Requeue(c) ==
    /\ pc[c] = "requeue"
    /\ queue' = IF HasRoom THEN Append(queue, hand[c]) ELSE queue
    /\ hand' = [hand EXCEPT ![c] = NoTask]
    /\ pc' = [pc EXCEPT ![c] = "check"]
    /\ UNCHANGED <<dead, status, retry, running, processed, failed, seen>>

AfterBuryUncounted == "check"                     \* mutant
AfterBury == "count_failed"

Bury(c) ==
    /\ pc[c] = "bury"
    /\ dead' = Append(dead, hand[c])
    /\ hand' = [hand EXCEPT ![c] = NoTask]
    /\ pc' = [pc EXCEPT ![c] = AfterBury]
    /\ UNCHANGED <<queue, status, retry, running, processed, failed, seen>>

ReadFailed(c) ==
    /\ pc[c] = "count_failed"
    /\ seen' = [seen EXCEPT ![c] = failed]
    /\ pc' = [pc EXCEPT ![c] = "store_failed"]
    /\ UNCHANGED <<queue, dead, status, retry, running, hand, processed, failed>>

StoreFailed(c) ==
    /\ pc[c] = "store_failed"
    /\ failed' = seen[c] + 1
    /\ seen' = [seen EXCEPT ![c] = 0]
    /\ pc' = [pc EXCEPT ![c] = "check"]
    /\ UNCHANGED <<queue, dead, status, retry, running, hand, processed>>

ThreadStep(c) ==
    \/ Check(c) \/ Get(c) \/ GetTimeout(c) \/ MarkProcessing(c)
    \/ Succeed(c) \/ ReadProcessed(c) \/ StoreProcessed(c)
    \/ Fail(c) \/ Requeue(c) \/ Bury(c) \/ ReadFailed(c) \/ StoreFailed(c)

Next ==
    \/ \E t \in Tasks : Submit(t)
    \/ \E c \in Threads : Start(c) \/ ThreadStep(c)
    \/ Stop

Spec == Init /\ [][Next]_vars

\* A live thread keeps being scheduled, and process() returns or raises.
FairSpec == Spec /\ \A c \in Threads : WF_vars(ThreadStep(c))

-----------------------------------------------------------------------------
(* Where a task is. *)

Queued == {queue[i] : i \in 1..Len(queue)}
Held   == {hand[c] : c \in Threads} \ {NoTask}

\* The retry that put() refused: marked RETRYING, and nobody has it.
Lost(t) == status[t] = "retrying" /\ t \notin Queued /\ t \notin Held

Settled(t) == status[t] \in {"completed", "failed"} \/ Lost(t)

FateOf(t) ==
    IF status[t] = "none" THEN "absent"
    ELSE IF status[t] = "completed" THEN "completed"
    ELSE IF status[t] = "failed" THEN "dead"
    ELSE IF Lost(t) THEN "lost" ELSE "live"

FateMap == [t \in Tasks |-> FateOf(t)]

-----------------------------------------------------------------------------
(* Properties. *)

\* A task is in one place: once in the queue or with one thread, never both, and a
\* finished or dead-lettered task is in neither, even while a thread that stop()
\* did not wait for works beside the one a later start() created.
Custody ==
    /\ \A i, j \in 1..Len(queue) : queue[i] = queue[j] => i = j
    /\ \A c, d \in Threads : hand[c] = hand[d] /\ hand[c] # NoTask => c = d
    /\ Queued \cap Held = {}
    /\ \A t \in Queued : status[t] \in {"pending", "retrying"}
    /\ \A i, j \in 1..Len(dead) : dead[i] = dead[j] => i = j

\* process() is tried exactly max_retries times before a task is given up, and a
\* completed task had an attempt left.
AttemptsHonoured ==
    \A t \in Tasks :
        /\ status[t] = "failed" => retry[t] = MaxRetries
        /\ status[t] = "completed" => retry[t] < MaxRetries

\* stats() is exact, up to the success or failure being counted, while start() has
\* created one thread; two threads may lose each other's increments, never add one.
Completed == Cardinality({t \in Tasks : status[t] = "completed"})
Counting(l) == Cardinality({c \in Threads : pc[c] \in l})
StatsExact ==
    /\ processed <= Completed
    /\ failed <= Len(dead)
    /\ Counting(Labels \ {"new"}) <= 1 =>
        /\ Completed = processed + Counting({"count_ok", "store_ok"})
        /\ Len(dead) = failed + Counting({"count_failed", "store_failed"})

\* The only step that loses a task is a retry against a full queue.
LossNeedsFullQueue ==
    [][\A t \in Tasks : ~Lost(t) /\ Lost(t)' => Len(queue) = MaxSize]_vars

\* Every step of the pipeline is a step of the task's promised life, or invisible.
Lifecycle == INSTANCE TaskLifecycle
    WITH fate <- FateMap, attempts <- retry
ImplementsLifecycle == Lifecycle!Spec

\* If the consumer is eventually left running, every accepted task is eventually
\* completed, dead-lettered or lost to a full queue: none waits for ever.
EventuallySettled ==
    <>[]running => \A t \in Tasks : (status[t] # "none") ~> Settled(t)
=============================================================================
