# Verification of order-guardian-agents

TLA+ models of the order-diagnosis agents, checked by TLC on small instances and
proved, where it matters most, by TLAPS for every value of the constants.

To check a module: `tlc -config MCHarness.cfg MCHarness`; to check the proofs:
`tlapm DataSyncProofs.tla`. `PROJECT.json` names the runs, what each definition
translates, and for every property a mutant of the code that breaks it.

## 1. The system

An order with a problem is diagnosed by a plan of expert agents (order, payment,
risk, reconciliation, operation). `main.py` wires the parts and `run_task` runs one
order after another; threads come from the pipeline's consumers, the harness's pool
and the heartbeat.

| Component | State | Operations | Talks to | What makes it correct |
|---|---|---|---|---|
| Async pipeline (`infrastructure/async_pipeline.py`) | bounded queue, dead-letter list, status and retries of each task, `_running`, two counters | submit, start, stop; the consumer thread: get, process, retry, dead-letter | knowledge-base loader through `process()` | a task is in one place, is tried as often as promised, ends, and is counted |
| Tool calls (`infrastructure/resilience.py`, `agents/base_worker.py`) | breaker state, failures, last failure; time stamps of the window | `call_tool`: limit, admit, run, retry, give up | tools; breaker and limiter shared by the agents of a type | no window exceeded, nothing admitted too early, an open breaker recovers |
| Coordinator and checkpoints (`agents/coordinator.py`, `infrastructure/state_persistence.py`) | step states, results, session file, initialised agents, sandboxes, permits | execute; per step assign, run, retry, degrade, destroy; save, load, resume | agents, sandbox pool, concurrency controller, file | checkpoints say what happened, a resume repeats no agent of the plan, resources come back |
| Harness (`infrastructure/harness.py`) | lifecycle per agent type, pool, results | execute_plan: batches, parallel and serial tasks, timeouts, retries, fallbacks | agents, sandbox pool, thread pool | batches keep their order, results are honest, nothing runs on afterwards, the plan returns |
| Dual-store synchronisation (`memory/storage/sync_manager.py`) | rows, vector metadata, FAISS index, compensation log | insert, update, delete, soft_delete, archive, retry_failed | repository, vector store | index and metadata stay joined, failed writes are compensated |
| Knowledge base (`infrastructure/kb_loader.py`, `memory/storage/hybrid_search.py`, `vector_store.py`) | content hashes, rows, vectors, catalog, files | load, add_document, delete_document, search, save, load | embedding, chunker, pipeline | what is loaded is found, what is deleted is not, a restart loses nothing |
| Decision and approval (`infrastructure/decision_engine.py`, `approval.py`) | pending and resolved requests | decide, submit, approve, reject, escalate, auto_resolve_pending | coordinator | a high risk escapes review only by its code, requests are settled |
| Plan and expert agents (`agents/*_agent.py`) | plan cache, facts in the session's memory | plan, run | rows of the order, tools | a report and its advice are about the order asked |
| Memory (`memory/memory_tiers.py`, `storage_router.py`) | task store, its index, experience, two files, the log of runs | finalize_task, load, log_task | files | index and store agree, what was logged is remembered |
| Retrieval (`agents/rag_orchestrator.py`, `tools/DeepSearch/`, `memory/storage/hybrid_search.py`) | none of its own | orchestrate, process_query, search, fuse, rank | documents and vectors of the knowledge base, which change meanwhile | deleted and foreign documents come back only by the known ways, nothing better is displaced |
| Checks of an order (`agents/payment_integrity_agent.py`, `models/intent.py`, `models/mock_orders.py`) | none | classify, check | an order and its payments | what passes is healthy, what would fail is sent to the agent |
| Resources (`infrastructure/agent_pool.py`, `ResourceController`, `HeartbeatMonitor`) | available agents, counters, beats | acquire, release; beat, check, start, stop | nothing that runs | not modelled, see section 7 |
| MCP (`MCP/`) | constant tables | check access, slice a context | agents | budgets and permissions respected |
| The rest | | prompts, language model, embedding, mock data, logging | | not modelled, see section 7 |

Hard to test in it: threads that outlive the call that gave up on them (a future that
timed out, a consumer that `stop()` did not wait for); late answers of calls admitted by
a breaker that has opened since; crashes between two writes of a file or between a step
and its checkpoint; a retry loop over a list that grows; positions in one store that
refer to another store; objects shared by sessions (a plan, the pending requests); ids
with the resolution of a clock. `PROJECT.json` lists each place under "hazards".

## 2. Modules

| Module | Models | State and actions |
|---|---|---|
| `TaskLifecycle` | what the pipeline promises of one task | a task is accepted, fails attempts, completes, is dead-lettered or lost |
| `AsyncPipeline` | `TaskQueue`, producers, `AbstractConsumer` | one action per point of a consumer thread where others can interfere: reading `_running`, `get`, marking, `process`, reading and storing a counter, `put`, dead letter; `Submit`, `Start` and `Stop` by any caller |
| `ToolCall` | `BaseAgent.call_tool` over `RateLimiter` and `CircuitBreaker` | callers at `limit`, `admit`, `run`, `exhausted`; the lock-protected sections are single steps, `Tick` is the clock, times are kept as ages up to a bound, `Kept` is the list comprehension of `allow_request` |
| `SessionRecord` | what the checkpoints promise of a session | steps begin and end one after another and a verdict is reached, each once the transition before it is on record; the record is lost and saved; the process dies |
| `Coordinator` | `Coordinator.execute` on one session, `StatePersistence`, `CheckpointManager` | a save is `Open` (truncate) then `Dump`; a step is `Assign`, a run with its four outcomes, the checkpoint, `Destroy`; `DecideRaises` is the exception that leaves `execute`; `Crash` at any point |
| `Harness` | `HarnessOrchestrator` with its `ThreadPoolExecutor` | a batch is a set of places of the plan, and `pos` is the place at which the caller (`main`) submits, collects or times out; each task has its own control state in the pool: start, initialise (check, then create), run, retry, destroy |
| `DataSync` | `DataSyncManager`, repository, vector store | each call is one step (`Execute` is the whole of `_execute_sync`); `retry_failed` is one step per record, because its bound is what matters |
| `Knowledge` | `KnowledgeBaseLoader`, the store's `add`, `save` and `load`, `init_system`, `search_with_filter` | a loader's item goes through `Check`, `Mark`, then per chunk `AppendMetadata` and `AddToIndex`, then `SaveRow`; `init_system` is `Start`, and after a build `SaveIndex`, `OpenMetadata`, `DumpMetadata`; `delete_document` is `MarkDeleted`, `SaveDeleted`; `Crash` at any point |
| `Decision`, `Experts` | `DecisionEngine` and the five experts' `run` | pure operators: the rule table, what is read from the results, what each expert answers about a row |
| `Diagnosis` | `run_task` from `PlanAgent.run` to the report, with `Decision` and `Experts`, the plan cache, the facts in session memory and `ApprovalEngine` | each worker is a thread at `planned`, `step`, `submitted`, `list`, `resolve`, `approve`: it begins (with a cached plan or a new one), copies the plan, runs, loses or degrades each step, decides and submits, tests the status, lists what is pending, pops one id after the other and approves it, reports; `TakeUp` and `Settle` are a reviewer, who pops or gets a request and later writes its status |
| `Retrieval` | the orchestrator's choice of a path, both searches and the chat, over the same documents and chunks that `Knowledge` loads | a text is one content of a document, with its row and its chunks; one search passes `filter`, `vector`, `rule`, `assemble`; meanwhile contents, new ones of known or deleted documents too, are loaded (`StartLoad`, `AddChunk`, `SaveRow`), and documents deleted (`FlagRow`, `SaveFlagged`) |
| `Memory` | `finalize_task`, both stores behind it, their files, and the log of runs | `RecordTask`, then `OpenTasks`, `DumpTasks`, `Learn`, `OpenLessons`, `DumpLessons`, `LogTask`; either save may fail at either point; `Crash` anywhere, `Start` loads |
| `MockOrders`, `PaymentIntegrity` | the labelled orders; `IntentClassifier.classify` and `PaymentIntegrityAgent.check` | `Classify` and `Check` read one order, of the dataset or of all small ones |

`Diagnosis` and `Coordinator` are two views of one run: `Coordinator` has the
checkpoints, permits, sandboxes and the crash, `Diagnosis` the data that passes from
step to step and between tasks. `Retrieval` and `Knowledge` share the same stores:
`Knowledge` says what they hold after loads, races and restarts, `Retrieval` what a
question gets from them.

`MC*.tla` gives the constants their values; `*Proofs.tla` holds the theorems about a
module. The models write recursion as recursive functions, and filter sequences by one
of their own (`Kept`, `Unlisted`, `Those`) where a theorem depends on it: the prover
knows neither RECURSIVE operators nor `SelectSeq`. `RInit`, `RNext`, `RSpec` of
`Retrieval` and `PInit`, `PNext`, `PSpec` of `PaymentIntegrity` have prefixes so that
`ToolProofs` can extend both beside `ToolCall`; the three have no state in common.
Pipeline, tool calls, drivers and stores are separate modules because they share no
state that both change: the harness and the coordinator are two alternative drivers of
the agents (`main.py` uses the coordinator; nothing calls `execute_plan`), and each
models the part of `BaseAgent` it drives: initialize, run and destroy.

Facts of the code that shape the models:

- `BaseTool.execute` catches exceptions, so a registered tool answers
  `success = False` rather than raise; `Raise` in `ToolCall` stands for the other
  callables that `call_tool` accepts.
- A record put back by `_process_one` may meet a full queue; `put` answers False and
  nobody looks. `Lost` names that fate.
- `transition()` of a type that was never registered stores the state and raises
  KeyError (`harness.py:71`), so the first transition of such a task ends it in the
  pool, and only a type registered before can be degraded.
- After `load()` the embeddings beside the metadata are empty lists, so a delete
  cannot rebuild the index: it raises and leaves an empty index. `add()` appends the
  metadata before FAISS checks the dimension, and `EmbeddingProvider` may return
  another dimension than the hub's 1024.
- `retry_failed` iterates over the list to which `_execute_sync` appends, so a record
  that keeps failing is retried until its retries are used up within one call.
- The loader stores the content hash before it chunks and embeds, so an item that fails
  afterwards is skipped as a duplicate until the process ends; only the files survive
  it, and a start that finds them loads no row, no hash and no catalog.
- The prefilter asks the table of documents for `is_archived = False`, which the rows
  of `load_files` do not have, and cases are in another table: neither is ever a
  candidate. An empty set of candidates switches the filter off, so a domain whose
  last document is deleted is searched without it, and that document, whose vectors
  stay in the store, is found again. After a start from the files a domain has no rows,
  so all of it is found until the first document is added, and only that one then.
- A plan is cached by order, and `run_task` writes its session and order into the plan
  it gets. Two tasks of one order within ten seconds share the object, and the earlier
  may run in the later one's session; ReportOnOrderAsked holds all the same.
- `PaymentAgent` lets the first payment speak for the order, and a degraded step asks
  another expert with the order `""`, whose rows do not exist: the payment agent then
  answers E2005 and the decision compensates. `DecisionEngine` reads codes and risks at
  the top level of a result, where only the payment agent and the risk agent have them;
  the rules from E3001 on match no code that any agent returns.
- The report is made whatever became of the approval request, and says nothing of it.
  The operation agent may ask for manual intervention in a report that is decided
  `auto_resolve`.
- A new content of a document replaces its row, which is then not deleted, whatever the
  old one was (`kb_loader.py:133, 188`); the chunks of the former content stay in the
  vector store and are found again as soon as the document is a candidate.
- The fusion keeps the first item it meets of a document (`hybrid_search.py:216-218`),
  a chunk if the vector route has one: the ranking counts the words of that item alone,
  and only rows have a time (`deep_search.py:88-97`).
- The plain path asks the vector store for a random embedding; BM25 scores every row
  zero; the vector route can return several chunks of a document and each adds to its
  fusion score.
- `run_task` is the only caller of the memory facade: a diagnosis in the interactive
  shell is not remembered. The key of an experience is the text of the root cause, so
  `recall` by a code never finds it, although its documentation says (error_code,
  domain).
- A failed attempt fits no state of an order, so an order paid at the second attempt
  is inconsistent for good; a gap over an hour is reported as a lost callback even when
  the callback came.
- `agents/__init__.py` is of an earlier version: it imports `AggregatedReport` and
  `RoutingDecision`, which `coordinator.py` does not define, and lacks the names that
  `main.py` imports from the package; `payment_integrity_agent.py` and `intent.py`
  import a `traceable` that `core/tracing.py` does not have. The models take the
  package with the exports `main.py` asks for, and those two files as written.
- `memory/sandbox/sandbox_pool.py` imports `Memory` with a capital; the models take
  the module as it works on a file system that ignores case.

## 3. Runs

| Run | Instance | What it shows |
|---|---|---|
| `pipeline` | 3 tasks, queue of 2, 2 starts, 2 attempts | Custody, StatsExact, LossNeedsFullQueue, the refinement of TaskLifecycle, EventuallySettled |
| `tool_call` | 2 callers, threshold 3, recovery 2 ticks, window of 3 ticks for 2 requests, 1 retry | WindowBound, RefusalJustified, NoEarlyAdmission, ClosedBelowThreshold, OpenRecovers |
| `coordinator` | the first 4 steps of the real plan, every set of available agents, 2 permits | CheckpointLag, OnlyFallbacksRepeated, ResourcesReturned, the refinement of SessionRecord, SessionEnds |
| `coordinator_resume` | the same | the interrupted step is not the one resumed (violation) |
| `harness` | 4 tasks of the real types, 2 workers, 1 retry, 3 sets of agents, types registered or not | BatchOrder, HonestReport, SettledAtReturn, SandboxPerTask, PlanReturns |
| `data_sync` | 1 document, 3 calls, 2 retries, 0 or 1 loaded vector, a repository that may raise | SearchAligned, NotForgotten, CopiesBounded, OnlyRetriesGoBack, RetryEnds |
| `knowledge` | 3 items (two contents of one document, one case), 2 loaders, 3 starts | CopiesBounded, Aligned, FilesMatch, Searchable |
| `data_sync_compensation` | 2 documents, 3 calls, a repository that never raises | an old delete, retried, removes a newer row (violation) |
| `diagnosis` | 2 workers, 2 orders, 4 kinds of rows, 2 sets of experts, 2 tasks, 1 failing run, 1 review | ReportOnOrderAsked, AdviceMatchesOrder, HighRiskUnreviewed, RequestsSettled |
| `retrieval` | 3 documents with 4 contents in 2 domains, 3 orders of loading, any of them deleted, 2 loads or deletions before and during the search, 2 documents that may be too old, searches of 1 result | DeletedOnlyByRule, ForeignLast, NotDisplaced |
| `memory` | 2 orders, 4 runs, 2 tasks kept, 2 starts, 1 failed save | IndexAgrees, HistoryKept |
| `integrity` | the labelled orders, and 7 states with up to 2 attempts of 8 kinds and minutes on both sides of each limit | LabelsAgree, PassedIffHealthy |

Why the bounds are enough to make the interesting cases happen:

- Pipeline: with three tasks and a queue of two, a producer can fill the queue while a
  thread holds a failed task; two starts give two live threads after a `stop()` that
  did not wait; two attempts give a success after a failure and a dead letter.
- Tool calls: two callers are enough for one to be late while the other sees the
  breaker change; the count cap is the threshold, above which counts behave alike.
- Coordinator: order has no fallback, payment falls back on an agent that has run
  before, risk and reconciliation on agents that may be missing. A step done by a
  fallback, a crash and the offer of that step again are a few steps apart.
- Harness: three tasks of one batch for two workers leave one queued while another is
  late; a serial task follows; without `risk` two tasks share the payment agent.
- Knowledge: two loaders can pass the check of one hash or meet inside `add()`; the older
  content has two chunks, so another loader, a failure or a crash can come between
  them; three starts allow a crash between the two files, a rebuild that finds nothing
  to embed and leaves the older index, and a load of both.
- Data: three calls allow an old record in the log, a newer write and a third in
  between; two retries let a record fail, succeed or be given up.
- Diagnosis: two tasks can have one plan, one after the other or both at once, and one
  millisecond; the rows include both presets, a high risk without a code, which waits
  for approval, and no rows; without `risk` the payment agent stands in, without
  `order` nobody does. One review comes between any two steps of two requests, and its
  verdict is written at any later time. A submission has the id of the last one or the
  next, which is all that ids tell apart.
- Retrieval: searches of one result make three chunks the reach of the plain vector
  route, less than there may be; the deep one recalls three. One content has two chunks,
  and its row matches two words, its chunks one and none, so that what it is ranked by
  decides; the foreign document matches five words, which is enough to outweigh one of
  the domain with none and too few for one with a single word. The second content of the
  same document is of the other domain: loading it while the first is live, or after it
  was deleted, takes one edit or two. That fusion scores of longer routes still count
  for less than a word is proved.
- Memory: with two tasks kept, four runs of two orders can share an id, evict it while
  it is listed twice, and go on; one crash and one failed save can come at each point
  of the two saves. One cause is enough: what is learned of one does not touch another.
- Integrity: two attempts are where one contradicts another, and the check looks at
  each attempt by itself.

`CHECK_DEADLOCK FALSE` is set where a run really may stop: all tasks settled and threads
ended, a session done or crashed, a plan returned, a process that a torn metadata file
keeps from starting, a bound on calls, tasks, runs, edits or starts reached. In
`ToolCall` time always goes on.

## 4. Fairness

Safety properties need none. Liveness assumes: a live consumer thread is scheduled and
`process()` returns or raises (`WF` per thread); time passes and a call once begun
comes to its end (`WF(Tick)`, `WF(Proceed)` per caller), while nobody has to begin a
call; the coordinator's loop runs on until a crash (`WF(Work)`, `Crash` is not fair);
the caller of `execute_plan` and each pool thread are scheduled (`WF(Main)`,
`WF(Single)` per task), and a timeout is never forced; `retry_failed`, once called,
runs on (`WF(Loop)`), while nobody has to call it. No strong fairness is assumed:
nothing in the code competes for a lock for ever.

`Diagnosis`, `Retrieval`, `Memory` and `PaymentIntegrity` state safety only: a task of
`Diagnosis` ends because its steps are finitely many, and SessionEnds shows that of the
loop with its retries.

EventuallySettled is stated under the assumption that the consumer is eventually left
running, OpenRecovers under callers that keep asking.

## 5. Proofs

| Module | Theorem | Statement |
|---|---|---|
| `AsyncPipelineProofs` | Invariance, TypeCorrect, CustodyHolds, AttemptsHonouredHolds, StatsExactHolds | `Spec => []` of the inductive invariant and its consequences |
| | LossNeedsFullQueueHolds | `Spec => [][...]_vars`: only a retry against a full queue loses a task |
| | Refinement | `Spec => ImplementsLifecycle` |
| `ToolProofs` | ClosedBelowThresholdHolds, NoEarlyAdmissionHolds, WindowBoundHolds, RefusalJustifiedHolds | of `ToolCall`: `Spec => []` of the two invariants, `Spec =>` the two action properties |
| | SearchInvariance, DeletedOnlyByRuleHolds, ForeignLastHolds, NotDisplacedHolds | of `Retrieval`: `RSpec => []` of each |
| | OrderInvariance, PassedIffHealthyHolds, LabelsAgreeHolds | of `PaymentIntegrity`: `PSpec => []` of each |
| `CoordinatorProofs` | Invariance, TypeCorrect, ResourcesReturnedHolds, CheckpointLagHolds, OnlyFallbacksRepeatedHolds | `Spec => []` of each |
| | RecordRefinement | `Spec => ImplementsRecord` |
| `HarnessProofs` | Invariance, TypeCorrect, BatchOrderHolds, HonestReportHolds, SettledAtReturnHolds, SandboxPerTaskHolds | `Spec => []` of each |
| `DataSyncProofs` | Invariance, TypeCorrect, SearchAlignedHolds, NotForgottenHolds, CopiesBoundedHolds, OnlyRetriesGoBackHolds | `Spec => []` of each |
| `KnowledgeProofs` | Invariance, TypeCorrect, FilesMatchHolds, AlignedHolds, SearchableHolds, CopiesBoundedHolds | `Spec => []` of each |
| `DiagnosisProofs` | TypeCorrect, ReportOnOrderAskedHolds, AdviceMatchesOrderHolds, HighRiskUnreviewedHolds, RequestsSettledHolds | `Spec => []` of each |
| `MemoryProofs` | Invariance, TypeCorrect, IndexAgreesHolds, HistoryKeptHolds | `Spec => []` of each |

Assumptions are the named ASSUMEs of the modules: a queue size and attempts of at least
one and a hand value that is no task (pipeline), positive thresholds and timeouts (tool
calls), a plan that is a sequence of names and at least one permit (coordinator), a plan
that names no task twice, agents and registrations of its types, and values for no agent
and no task that are none (harness), natural bounds and a repository that may succeed
(data), items with a natural number of chunks, contents of one document of one domain
and kind, and finitely many loaders (knowledge), experts of the plan and a value for no
order that is none (diagnosis), a positive capacity (memory), searches of one to five
results, as every caller asks for, contents with a natural number of chunks and of
matching words, and a table with one row for each document, since rows are kept by their
id (retrieval), minutes and numbers of attempts that are natural (checks of an order).
TLC evaluates them in every run.

*Pipeline.* Custody is not inductive: that a task taken from the queue is in no hand
needs that no task in the queue is completed or in somebody's hand, that a thread's
label and its hand agree, and that the status of a held task fits the label of its
holder; AttemptsHonoured needs how many attempts a task at each label has had. These
are the conjuncts of `IInv`. The refinement maps a task to its fate by status and, for
RETRYING, by whether it is anywhere; each step then changes the fate of at most one
task. LossNeedsFullQueue follows from the queue's bound and that only `Requeue` takes
a RETRYING task out of a hand. For StatsExact, `Tally` says that a counter, and
likewise what a thread has read of it and will write back, is with all that threads
have still to count at most the total; with one thread it is the total.

*Tool calls.* The invariant relates the breaker's state to the age of its last failure
and of its last opening: a breaker that is OPEN failed no earlier than it opened, so
the recovery timeout measured from the last failure has passed since the opening too.
For the limiter, `Recorded` says that the time stamps kept hold for each age below the
window exactly the requests granted at that age; a tick then ages both alike and drops
from both what leaves the window. Sums over ages and the list comprehension are
recursive functions; what they compute is proved by the least counterexample
(`NatMin`, from the library's theorem that inclusion of finite sets is well founded),
since its induction theorems cannot be used here.

*Coordinator.* `Held` gives what is held at each label, so that ResourcesReturned needs
only that every way through a step leads to the one `Destroy`. CheckpointLag is not
inductive: `Synced` says of each label by what the file may differ from the session, and
that a file under way is not readable. For OnlyFallbacksRepeated, `Kept` adds that a
step which has returned a result lies behind the step under way, and that if its own
agent returned it, it is neither pending nor failed, in memory and in every readable
file: `load` gives a later process no other. Of a step that a fallback did the StepState
says nothing, and it is offered again. The refinement forgets the labels: `Told` says
that the verdict comes last and is on file but while its own save is due, that steps not
yet reached are pending, and that a step which failed has reported so. With `Synced`
this makes the record up to date at each label where a transition is due, so that
`Assign` is the abstract `Begin`, a run that ends one `End`, `Open` and `Dump` the loss
and the saving of the record, and all else (a degraded step, a successful retry,
`Destroy`) invisible.

*Harness.* `Batched` says that no task has started ahead of its batch, that the earlier
batches are in the results (their tasks may still run: a timeout gives them up, not
their threads), and which places of this one have been submitted and collected.
`Pooled` and the order of submission make a task run once, so that what it ended with
stands (`Ended`), for HonestReport and SettledAtReturn. `Boxed` relates agents, their
sandboxes and the tasks that use them: an agent has only the box of a task that uses it,
and so the box of a task alone with its agent is never exchanged.

*Data.* SearchAligned needs that numbers in the stores are of calls already made, so
that the entry of a new call was in no list before: adding it can make the store
rebuildable only if it was before. NotForgotten needs `Reachable`: during
`retry_failed` a failed record with retries left is in the part of the log still to
be read, since what fails again is appended behind the reader; at the end of the list
nothing is left, which is why replacing the log by `remaining` loses nothing. `Leaves`
is CopiesBounded and OnlyRetriesGoBack, and that a row is of a call made: a record
executed again has counted a retry first, which allows the copy it may leave and
marks the row it writes, and a first execution is of the newest call.

*Knowledge.* `Phased` says that nobody loads while `init_system` saves, from which
FilesMatch follows; `Tight`, that the metadata is ahead of the index by the chunk of
the one loader inside `add()`, gives Aligned. For Searchable, `Recorded` says that all
chunks of a row have been appended before it was written, and `Gap` that the index
lacks no more entries than there are loaders inside `add()`, so that it has them all
when there is none; this holds after any race, when positions no longer agree. For
CopiesBounded, `Counted` adds the copies of a chunk and the loaders still on their way
to append it: only a check that finds no hash adds to the sum, and then there is no
copy but the one from the files.

*Diagnosis.* A plan in the cache was built by a task of its order and is stamped only by
tasks of that order (`Planned`), although two may hold it at once. So the session in
which a step runs may be another task's but never another order's, and its facts and
results are about that order (`Answered`, which says of every step what its expert
answered and what it can show to the decision); the three properties of the report
follow from the rows and the decision table. For RequestsSettled, `Filed` says that
a request with status PENDING is in the pending table, or popped and about to be settled
(`Taken`), or had its id taken by a later submission of the same millisecond, and that
what is in the table is in nobody's hand. `Followed` says that such a request of a
task that resolves is on that task's list if it is in the table, so that the task
leaves nothing when it reports; only an escalated one may stay, which the test of the
status passed over.

*Memory.* A crash may replace the memory by what the files hold at any time, so the
invariant says the same of both: `Sound`, that a store and its index are in accord and
within the capacity; `Recalled`, that each run is kept or accounted for; `Taught`, that
the lessons learned of a cause are at least the successes logged since the file was
last lost and at most all there were. Runs are accounted for from the label at which
`finalize_task` has stored, saved or learned them. The oldest task is evicted, so a
run crowded out stays older than all that are kept.

*Retrieval.* `Filtered` says that a document deleted before the search and not loaded
anew has no row but a deleted one, so that the filter left it out, and `Routed` that the
vector route holds nothing but what passed and the rule route rows of the domain, one
for each document (`OwnDocuments`, which loading, reloading and the late save of a
deletion keep); DeletedOnlyByRule follows. The other two are about a sum: a route of
fifteen gives a document at most 122940 millionths if all its chunks are of that
document, the rule route 3278 more, and six tenths of that is less than the 80000 of one
word (`FusionFacts`), but not less than the 40000 of half a word, which the points of
the time can leave between two documents (`FineFacts`). So whatever comes first in a
ranking has at most one coarse point less, and Outweighs is that in words: five for the
domain, three for a time that only it has, two against one that only the other has
(`RankingFacts`). That the points are those of the first item recalled is
`KeptItemFacts`. The bound is computed by unfolding the recursive sum fifteen times
(`RouteFacts`), and it is what limits the theorems to searches of five results: longer
routes could add up to a word. What a filter, a flattened sequence and a permutation
contain is proved by the least counterexample, as for the limiter.

*Checks of an order.* An order is healthy or one of its findings is grave, group by
group (`FindingsMild`), and the report of a concatenation of findings passes exactly if
each part has none that is grave; flattening one sequence of findings for each attempt
is `FlattenFacts`, for any number of attempts. LabelsAgree goes through the five kinds
of labelled orders: which of them fail is PassedIffHealthy again (`MockTold`), and the
kinds that do fail are sent to the payment integrity agent (`SentToIntegrity`).

Only model-checked is all liveness (EventuallySettled, OpenRecovers, SessionEnds,
PlanReturns, RetryEnds), which is out of the prover's reach under fairness. Every other
property of a run is a theorem; AttemptsHonoured and the type invariants are proved and
have no run of their own.

## 6. Where the code and its words differ

Two runs are expected to be violated; each finding in `PROJECT.json` quotes the line: a
resume that passes over the interrupted step, and a compensation that undoes a newer
write. Other disagreements, which the models contain and no run is spent on:

- `async_pipeline.py:216` drops a failed task when the queue is full, while the
  docstring (6) promises retries; LossNeedsFullQueue says that nothing else loses one.
- `resilience.py:15` has `half_open_max_calls = 1`, and nothing increments
  `half_open_calls`: a half-open breaker admits every call (`MayExecute`).
- `harness.py:205` batches tasks by their number of dependencies, not by depth, so that
  a task may start together with one it depends on, while the docstring (185) says
  "with dependency resolution"; BatchOrder states the order there is.
- `RESUME_PROJECT.md:68` says that high-risk transactions trigger an approval. Of the
  presets, ORD00003 has a high risk and the code E2002, and is decided `auto_resolve`
  without approval: HighRiskUnreviewed names the two ways this happens.
- `hybrid_search.py:60-61` says that filtering first keeps invalid data out. The rule
  route returns deleted rows (193), and an empty prefilter lets everything through (98):
  DeletedOnlyByRule and ForeignLast state how far that goes.
- `RESUME_PROJECT.md:63` promises recovery from the checkpoints. A step that a fallback
  completed keeps its StepState PENDING (`coordinator.py:159-163`), so that it is offered
  and done again after a crash: OnlyFallbacksRepeated says that no other step is.
- A report may be made while its request is escalated, or popped and not yet approved or
  rejected (`coordinator.py:342`, `approval.py:70-72, 79-81, 99-100`): RequestsSettled
  names these cases.
- `deep_search.py:107` calls the last ranking one of high precision. A document that
  both routes find is ranked by the first chunk recalled of it, without the words and
  the time of its row: ForeignLast and NotDisplaced are stated for that item.

The lost update of the two counters (`async_pipeline.py:201, 223`) exists in the model
(`ReadProcessed`, `StoreProcessed`); CPython up to 3.9 can switch threads inside
`+=`, later ones do not, and StatsExact holds under both.

## 7. Not modelled

Prompts, text compression, query rewriting and the language model (text); embedding and
multimodal processing (external services, numeric code); generated data; logging;
MCP's constant tables, which nothing changes, and the slicer over strings; the tool
registry, a dictionary. `AgentPool.acquire`, `ResourceController`, a second start of
the heartbeat monitor, the sessions of `session_context.py`, the rolling buffer, the
hot store and the rule store are called by nothing that runs: a model would be of a
use that does not exist. The coordinator asks the order state machine once and forgets
the answer (`coordinator.py:323-327`). The legacy modules of `memory/` are imported by
nothing or do not parse. Within the modelled components: report texts, confidences,
durations, metrics, and `AsyncPipelineManager`, which only constructs and reports.

Some hazards have no property that would show them going wrong. In no model: a document
that the loader refuses is counted as completed by the pipeline
(`async_pipeline.py:284`; the two are separate modules), and a permit that is released
but was never acquired (`resilience.py:157`; one session with a permit to spare always
acquires it). In a model, but what goes wrong is promised by nothing that holds: two
dependent tasks in one batch (`harness.py:205`), two tasks that share a degraded agent
and the sandbox a failed task leaves to the next (253, 268), the store that a delete
cannot rebuild (`vector_store.py:75`), and a step that a retry completed and the session
calls RUNNING (`coordinator.py:206`, of which SessionEnds shows only that the loop goes
on). That a retried delete removes the right entry (`sync_manager.py:186`) cannot be
said of metadata that the model keys by call. In `Retrieval`, a query that iterates over
the table while another thread adds a row may raise in Python; it is left out.

## 8. Plan

1. An abstract specification of what search promises of the knowledge base (a set of
   documents), with `Knowledge` as its implementation.
2. `DataSync` with metadata keyed by document, for the position of a retried delete.
