-------------------------- MODULE MCAsyncPipeline --------------------------
(* Bounds: three tasks, a queue of two, two starts of the consumer and two   *)
(* attempts a task: the smallest instance with a full queue at a retry, two  *)
(* live threads, a dead letter and a success after a failure.                *)
EXTENDS AsyncPipeline, TLC

CONSTANTS t1, t2, t3, c1, c2

MCTasks   == {t1, t2, t3}
MCThreads == {c1, c2}
=============================================================================
