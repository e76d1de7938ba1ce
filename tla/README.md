# Memori: models, checks and proofs

Memori gives language-model applications a memory. It wraps the client of a model
provider, recalls stored facts into the prompt, records the turns of the conversation
and, in the background, lets an API extract facts, triples, attributes and a summary
that are written into the application's own database. The same job is done three
times: in the Python SDK (`memori/`), in a Rust engine (`core/src`) with a Node and a
Python binding, and in the TypeScript SDK (`memori-ts/src`) on top of the Node binding.

What makes this hard is not the text that goes through it but the order in which
things happen: calls of application threads, background tasks, event loops, writer
threads and databases overlap, time out, fail in the middle and are shut down. That is
what this directory models. The reference is the code; every model definition names the
lines it stands for in `PROJECT.json` under `map`.

Contents: [Inventory](#inventory), [Modules](#modules-and-the-code-they-stand-for),
[Runs](#runs-what-each-asks-and-shows), [Bounds](#bounds-and-why-they-are-enough),
[Fairness](#fairness), [Proofs](#proofs), [Findings](#findings),
[What is left out](#what-is-left-out), [Plan](#plan), [Running](#running-the-checks).

## Inventory

Paths are relative to the root of the repository. "M" marks a component that is
modelled, "P" one that is modelled in part, "-" one that is planned or left out; the
reason is in the `note` of the component in `PROJECT.json`.

### Rust engine (`core/src`)

| | Component | State it keeps | Operations | Correct when |
|---|---|---|---|---|
| M | Worker runtime (`runtime/`) | lifecycle, channel, outstanding counter, semaphore, shutdown stage | start, submit, flush, flush_for, shutdown; dispatcher and handler tasks | accepted jobs run once, in order, at most `max_concurrency` at a time; the counter counts them; flush and shutdown return; nothing accepted is forgotten |
| P | Storage manager (`storage/manager.rs`, `connection.rs`) | none of its own; borrows a connection per call | write_batch, reads, conversation history | a batch is applied whole, at most once; a failed one leaves nothing; no connection is kept |
| P | Drivers (`storage/drivers/`) | the tables | upserts of owners, sessions, conversations, messages, facts, mentions, summaries | references between tables hold, repeats are counted, dialects agree |
| - | Schema builder (`storage/builder.rs`; its Python twin is modelled) | schema version row | build | a failure or restart between migrations loses nothing and repeats nothing harmful |
| P | Orchestrator (`lib.rs`) | two worker runtimes, job numbers, the bridge | submit augmentation, post-process, wait, shutdown | shutdown ends both runtimes and then the bridge |
| - | Augmentation pipeline (`augmentation/`) | none | request, answer, batch | each fact keeps its own embedding |
| - | Network client (`network/`) | none | post with retries | retries only what may be retried |
| - | Retrieval, search, embeddings | model cache | rank, chunk, embed | limits and order of candidates; chunks partition the text |

### Bindings and TypeScript

| | Component | State it keeps | Operations | Correct when |
|---|---|---|---|---|
| P | Node bridge (`core/bindings/node/src`) | map of pending calls, threadsafe function | call, resolve, send_close, shutdown | each call is answered once or times out; a late answer harms nobody |
| M | Storage manager (`memori-ts/src/storage/manager.ts`) | tracked adapters, serial queue, timers, in-flight promises | acquire, begin, execute, commit, rollback, close, sweep, close of all | statements of two threads never share a transaction; nothing stays borrowed; close returns |
| - | Python binding (`core/bindings/python`) | callback thread per call | call with a 30 s limit | a late callback writes nothing unexpected |
| - | TypeScript SDK (`memori-ts/src/memori.ts`, `engines/`) | session, configuration, engine handle | hooks around a model call, close | what is captured is what was said |

### Python SDK (`memori/`)

| | Component | State it keeps | Operations | Correct when |
|---|---|---|---|---|
| P | Augmentation (`memory/augmentation/`) | event loop, semaphore, pending futures, write queue, writer thread, quota error | start, enqueue, wait; coroutines; batches of writes | a write is executed once or given up, in order; failures stay local; wait means what it says |
| P | Handler (`_handler.py`), memory manager and writer (`memory/_manager.py`, `_writer.py`) | executor, cached internal ids | write a turn, retry, cloud post, local copy, background augmentation | a turn is stored once, whole, in the session it was spoken in; what is retried is not stored twice |
| P | Session and configuration (`__init__.py`, `_config.py`) | external ids, cached internal ids | set_session, new_session, delete_entity_memories | cached ids are those of rows, and belong to the external ones; a deletion takes what it names and nothing else |
| P | LLM layer (`llm/`) | count of injected messages, remembered cloud history | invoke, stream, inject, post-invoke | what is stripped is what was injected; every call ends and is stored once |
| - | Native adapter (`native/`) | lazily built engine, cached error | storage callbacks, wait | built once |
| P | Storage (`storage/`) | connections, tables, the recorded revision | migrations, the builder, seven drivers, deletes | one row per name, references resolve, counts are exact; a recorded revision is built, a build comes to its end |
| M | Provisioning (`provisioning/`) | a cache file | provision: get, post, set | an instance keeps its key; calls that do not overlap reuse it |
| - | Network, search, embeddings, agent, CLI, CockroachDB manager | little or none | requests, ranking, printing | as in Rust, or pure I/O |

The integrations (`integrations/`, `memori-ts/src/integrations`) forward turns to the
cloud and keep no state that interacts with the rest.

### How they interact

* Application threads call `submit` of the Rust worker runtime, which hands the job over
  a bounded channel to a dispatcher task; handlers end in `write_batch`. Flush and
  shutdown observe them through one atomic counter and two kinds of wake-up.
* `write_batch` borrows connections from a factory. In Node that factory blocks a Rust
  thread until the event loop of JavaScript has run the statement, so every blocking call
  made on the event loop itself is a possible deadlock.
* In Python, `Manager.enqueue` schedules a coroutine on a loop thread shared by all
  managers; its result goes through a bounded queue to a writer thread shared by all
  managers, which groups by connection factory. `Manager.wait` polls both from outside.
* Foreground and background code share the cached ids of `Config`.
* In the Python SDK a wrapped method of a provider's client puts facts and history in
  front of the caller's messages, calls the provider, strips as many messages as it has
  injected and hands the rest to the writer or to the cloud. The count is a field of the
  wrapper; the ids are fields of `Config`; both outlive the call.
* All clients of a database meet in its rows: unique keys, foreign keys and row locks are
  what keeps their turns, facts and deletions apart.

### Behaviours a test hardly reaches

They are listed one by one, at their lines, under `hazards`: windows between a
`try_send` and the count of what was sent, a wake-up before the wait, a decrement below
zero, a semaphore replaced while it is held, a full queue in front of a blocked event
loop, a lost COMMIT answer, a timed-out call whose operation goes on, a shutdown that
waits for what it is about to release, an id that is cached before its row is committed,
two clients that create the same row, a deletion that races with an insert, a migration
that dies half-way, a count that outlives its call, a file two processes rewrite whole.

## Modules and the code they stand for

| Module | Stands for | Composes |
|---|---|---|
| `WorkerRuntime` | `core/src/runtime/worker.rs` with its configuration and states | `JobPool` as its abstract specification |
| `JobPool` | what a background pool promises about accepted jobs | |
| `AugmentationPipeline` | `memory/augmentation/_manager.py`, `_runtime.py`, `_db_writer.py` | `Lists` |
| `Lists` | filtering a list by appending, as the writer groups a batch | |
| `ListProofs` | lemmas about `Lists`, the elements of a list, and induction | |
| `AugmentationPipelineProofs` | theorems about `AugmentationPipeline` | `ListProofs` |
| `MemoryStore` | the tables and what each operation of a batch does to them (`execute_batch_ops`, the drivers) | |
| `AtomicStore` | what a caller of `write_batch` may rely on | `MemoryStore` |
| `WriteBatch` | `RustStorageManager::write_batch` by concurrent callers | `MemoryStore`, `AtomicStore` as its abstract specification |
| `EngineProofs` | theorems about `WorkerRuntime` and `WriteBatch`, and that they implement `JobPool` and `AtomicStore` | `ListProofs` |
| `StorageBridge` | `bridge.rs` of the Node binding, `manager.ts`, and shutdown of `lib.rs` | |
| `StorageBridgeProofs` | theorems about `StorageBridge` | `ListProofs` |
| `Schema` | `memori/storage/migrations`: what each migration of each dialect creates | |
| `SchemaBuilder` | `memori/storage/_builder.py` run by several processes | `Schema` |
| `SetupProofs` | theorems about `SchemaBuilder`, `Schema` and `Provisioning` | |
| `Drivers` | `memori/storage/drivers`: the statements of each driver's methods, in order | `Schema` |
| `Turns` | clients on one database: `memory/_writer.py`, injection, one augmentation's writes, recall, forget, sessions | `Drivers` |
| `TurnsProofs` | theorems about `Turns` and `Drivers`: programs, messages, cached ids | |
| `RowsProofs` | theorems about `Turns` and `Schema`: what the rows refer to, and what a deletion leaves | `TurnsProofs` |
| `Invocation` | a wrapped call: `llm/_base.py`, `llm/invoke`, `llm/pipelines`, the adapters, `memory/_manager.py`, `_handler.py` | `Lists` |
| `InvocationProofs` | theorems about `Invocation` | `ListProofs` |
| `Provisioning` | `memori/provisioning` | |
| `MC...` | the small instances | one module each |

Definitions that begin with "Seeded fault" are variants of an action with a plausible
mistake. No specification uses them; `PROJECT.json` names each one as a mutant that must
break a property, which shows that the property looks at the code.

### WorkerRuntime

A job is one call of `submit`. A step is a stretch of code between two points at which
another thread can see or change shared state.

| Model | Code |
|---|---|
| `lifecycle`, `stage`, `permits`, `outstanding` | `Inner::lifecycle`, `shutdown_stage`, `semaphore`, `outstanding` (an `AtomicUsize`: `Incr` and `Decr` wrap) |
| `open`, `queue` | the `mpsc` channel, its sender in `job_tx` |
| `StartCheck`, `StartSpawn`, `StartBuildError`, `StartPublish` | `start`, under the `ops` lock |
| `SubmitSend`, `SubmitRefuse`, `SubmitCount` | `submit`: `try_send` under `job_tx`, then `fetch_add` after the lock is gone |
| `DispatchRecv` ... `DispatchPark` | `dispatcher_loop`: receive, wait for a permit, spawn; when the channel is closed, drain |
| `TaskPoll`, `TaskReturn`, `TaskCancel`, `GuardDrop`, `GuardWake` | the handler task and the `OutstandingGuard` whose drop counts down and wakes |
| `FlushCall` ... `FlushDeadline` | `flush` and `flush_for` over a condition variable that may wake spuriously |
| `StopEnter` ... `StopFinish` | `shutdown` |

Two windows are kept apart on purpose because the code keeps them apart: the count after
the send, and the notification without the lock of the waiters.

The handler is external and only runs to its end, panics or is cancelled. On a dedicated
tokio runtime `shutdown_timeout` drops tasks at their next await, also tasks that were
never polled (`TaskCancel`); on a shared handle it does not.

### AugmentationPipeline

Three kinds of thread: callers of `enqueue` and `wait`, the loop thread, the writer
thread. A coroutine goes `ready`, `parked` (waits for the semaphore), `open` (in the API
call), `putting` (blocks the loop thread in `queue.put`), `returned`, `woken` (its future
is done, its callback has not run), `finished`. `EnqueueSchedule` and `EnqueueList` are
two steps, as a coroutine may finish before its future is listed. `Start` of a second
manager appends a semaphore to `free`; a coroutine remembers which one it took. The
writer collects a batch, then takes group after group, one for each connection factory.

A write that is executed is not yet stored. The SQLite, MySQL and Oracle drivers commit at
the end of each method; on PostgreSQL and CockroachDB `entity_fact.create` and
`process_attribute.create` leave the commit to their caller, and `knowledge_graph.create`
commits midway and leaves its last row. `CommitOf` says which of the three a manager's
n-th write does, `done` holds what the connection has executed since its last commit, and
`stored` what is committed. `TaskFail` and `GroupCommitFail` roll `done` back and give it up
together with what the group still holds; a commit that raises may have been applied
(`Settled`). A write that fails midway counts as given up, also when a part of it is
committed (`Turns` follows the single statements). `WriterAbort` is an exception of the
connection context, which leaves `_drain_batches` with the rest of the batch.

`wait` is modelled with its first look at the futures, its look at the queue, its sleep,
and, for a Config with the native engine (`Engines`), the engine's `wait_for_augmentation`
whose answer it returns (`WaitEngine`).

### MemoryStore, AtomicStore, WriteBatch

`MemoryStore` is a value: owners, sessions and who owns them, conversations, messages,
how often each owner's fact was written, mentions, summaries. `RunOp` is the effect of one
operation of a batch, or a refusal. `WriteBatch` adds what surrounds them: acquire, begin,
statements on a private copy, commit, rollback, close, back-off, retry on a serialization
failure only, and the death of the process. The database is external and serializable: a
commit over a stale snapshot is answered 40001. `AtomicStore` is the same without
connections and attempts: a call applies its whole batch in one step, or not at all, and
answers `ok` only if it did.

### StorageBridge

A thread goes through acquire, begin, execute, commit or rollback, and close, or for a
read without a transaction. A call is put in the pending map (`CallInsert`), queued in the
threadsafe function (`CallQueue`), taken by the event loop (`Dispatch...`), sent to the
database, and finished behind an await (`...Done`); `CallTimeout` may come at any point in
between, and what the loop then finds is what the code finds. `serial` tells one shared
handle behind the serial queue (SQLite, a single MySQL connection) from a pool. `Sweep` is
the orphan sweep. `CloseBegin` to `CloseFinish` are `StorageManager.close`, with the
synchronous `engine.shutdown` that keeps the event loop busy while it joins the jobs
(`CloseBegin` to `CloseDrain`). The pool, the database and the JavaScript event loop are
external.

What is sent to a pool, a `BEGIN` or a read outside a transaction, waits for a client that
is free (`HasClient`); a `COMMIT` that fails on the shared handle leaves the transaction open
while `manager.ts:281` takes it for ended, until the caller's `ROLLBACK`. Any call may be
given up after 30 s. So there are two ways for a connection to leave the map with something
nobody will end: it is closed while its `BEGIN` is under way, or it is swept between
a failed `COMMIT` and the `ROLLBACK`. `astray` notes these connections (`Forgets`), as a history that no
step reads, and the properties say that they are the only exceptions. The
unqualified sentences are stated beside them, `NothingHeldBetweenCalls` and `CloseReturns`, and two
configurations show that the code does not keep them. Without the note TLC finds
`StatementsAreIsolated` violated on the shared handle both ways, by a late `BEGIN` alone and by a failed
`COMMIT` alone.

### Schema, SchemaBuilder

`Schema` writes down, for each of the seven dialects, the migrations of revisions 1 and 2
as sequences of statements, each of which creates one table or index; of a table it keeps
the unique keys and the references, which is what the drivers rely on. `SchemaBuilder` is
`Builder` by several processes of an old and a new release: `ReadRevision` (with
the failure of a missing version table, and the rollback three dialects need), the
statements of every later migration, the commit after each, then delete, create and
commit of the version row. DDL is transactional in PostgreSQL only; elsewhere a statement
is durable at once and takes along what the connection had not committed. A connection may
be lost and a process may die at any statement; a new build starts from what is there.

### Drivers, Turns

A method of a driver is a sequence of statements such as `Find`, `AddIgnoring`, `Upsert`,
`EraseOrphans` or `Commit`, translated from the SQL and the calls of each driver; the
differences between the drivers (who commits where, `INSERT IGNORE` or `MERGE`, a SELECT
before or after) are the point of the module. `Turns` runs them: a client has a main
connection for turns, histories, recalls and deletions, and another for the batch of an
augmentation. The actions from `FindRow` to `CommitWork` execute one statement against the
committed rows and the connection's own work, or wait for a row another connection has
written. `StatementFails` may hit any statement and take the connection along;
`AbortedRaises` is what PostgreSQL answers until somebody rolls back; `DeadlockVictim` and
`LockTimeout` end a wait; `RestartTransaction` is CockroachDB's restart, which makes
`Writer.execute` roll back and begin again. `ChangeSession` is `new_session` and `set_session`. `cache` is `Config.cache`, and
`ids` what the running job has looked up. MongoDB makes each call durable at once.

A case of `MCTurns` is a dialect and a play: the jobs of two clients, their session, their
entity, and how many statements may fail.

### Invocation

| Model | Code |
|---|---|
| `count`, `remembered` | `BaseInvoke._injected_message_count`, `_cloud_conversation_messages` |
| `session`, `conversation` | `Config.session_id`, `Config.cache.conversation_id` |
| `Begin`, `CloudRecall` | `inject_recalled_facts`, `Recall.search_facts` in the cloud |
| `Inject` | `inject_conversation_messages` and the sanitizing of the history |
| `Respond`, `Exhaust`, `Abandon` | the call of the provider and the wrappers of its streams |
| `Format` | `format_payload`, the adapter's `get_formatted_query`, and `Manager.execute` |
| `Store` | `Writer.execute` as one step (module `Turns` has the steps) |
| `PostAccepted`, `PostRaises`, `PostRefused`, `Copy`, `CopyRaises`, `Again` | `Manager._handle_cloud` with its local copy inside the retry loop |
| `Learn`, `RunInBackground` | `handle_augmentation` and the executor |
| `NewSession` | `Memori.new_session` |

A plan fixes how the client is used: cloud or own database, engine or not, overlapping
calls or not, which answers are tool calls, where the provider has a place for recalled
facts, and what kind of answer each call gets: whole, a stream read by an iterator, the
event stream or the body of Bedrock, or an asynchronous generator. The provider and the
cloud are external. Streams are read once.

### Provisioning

`Hit`, `Miss` and `Stale` are `ProvisionCache.get`; `Post` is the provider; `ReadAgain`,
`OpenFile` and `FillFile` are `set`, which reads the file again, truncates it and writes it.
Between the last two every other process reads an empty file; two writers at once may leave
a file that does not parse (`intact`). `Lose` is a failure or a death anywhere.

## Runs: what each asks and shows

| Run | Question | Answer |
|---|---|---|
| `worker_safety` | three submits, two starts, a timed flush, two shutdowns on a dedicated runtime: can counter, permits, channel, stage or lifecycle ever disagree? | no |
| `worker_shared_live` | on a shared handle: does the runtime implement `JobPool` and does `flush_for` return, in spite of underflow and lost wake-ups? | yes |
| `worker_shutdown_hangs` | does `shutdown` return once all jobs are done? | no: finding |
| `pipeline_safety` | two managers, batches that mix both, full queues, writes that leave the commit to their caller, failing writes, commits and connections: is a write ever doubled, mislaid, taken for stored after a rollback or out of its request's order, or a worker leaked? | no |
| `pipeline_live` | while a second manager replaces the semaphore the requests wait on: do requests and waits end, and what does True of `wait` mean? | yes; handed over to the writer, not stored |
| `write_batch` | three concurrent batches, two connections, every failure, death: atomic, at most once, honest, and does each call end? | yes |
| `bridge_serves` | a writer and a reader, any call given up, failures, sweeps and a close: does a statement run in another's transaction, is anything kept, anyone forgotten, does close wait for ever? | only for what the manager has lost (`astray`); nobody; only for a statement that gets no client |
| `sdk_schema` | two builders of two releases on six dialects, with one loss or death: is a recorded revision ever ahead of the database, or lost; does a build come to its end? | no; yes |
| `sdk_provision` | three processes under two keys: does an instance change its key, is one asked for in vain? | no |
| `sdk_turn` | two clients on each of seven drivers: are rows single and references whole, cached ids real, turns whole and in their session, counts and deletions exact, and does every job end? | yes, with the exceptions the properties name |
| `sdk_invoke` | one client in eight plans: is every call that returned stored, once, alone and in its conversation; does the cloud have it; does every call end? | yes, with the exceptions the properties name |
| `invoke_new_session` | is the first question of a new session stored? | no: finding |

The properties are commented in the modules. Some say less than one might hope, because
the code promises less: `StatementsAreIsolated` and `OnlyStraysAreHeld` except the connections in `astray`, and
`CloseWaitsOnlyForClients` a statement that waits for a client; `ZeroMeansIdle` holds only while no submit is between send and
count; `TrueMeansHandedOver` says processed and out of the queue; `ReferencesResolve` leaves out
SQLite and MongoDB once something is deleted; `ForgetIsExact` leaves out what PostgreSQL
and Oracle may take from others, and goes by the entity the client names, since an id that is
looked up anew need not be that of an earlier call; `HistoryInOrder` is about the two drivers that sort;
`CallsAreStored` is about the client's own database and leaves out overlapping calls, a new
session that finds a count, a call or a background task left, and instructions of the
Responses API; `TurnsReachCloud` counts posts and copies without overlapping calls and
without those instructions, with which the next turn tells the last answer again. Each exception stands where the code does not do better.

Two consequences of the worker's windows are reachable in the model without a run that
asks for them. A flush may return while an accepted job is still running, because the job
is not counted yet. A `shutdown` of a runtime that is just being started may store
`Stopped` and have it overwritten by `Running`; the program starts its runtimes in the
constructor of the orchestrator, before anyone else holds them.

## Bounds and why they are enough

| Bound | Value | Why |
|---|---|---|
| jobs, starts, flushes, shutdowns | 3, 2, 1, 2 and for liveness 2, 1, 1, 1 | a job counted late, one in hand and one queued; a second call of each idempotent operation; queue and permits both at their limit with the third job |
| `QueueCapacity`, `MaxConcurrency` | 1 and 1; 2 and 2 | one makes both limits bite, two lets jobs overtake |
| `CounterModulus` | 8 | above the number of jobs, so wrap-around is told from a real count; the proof is for every modulus above the number of jobs |
| managers, requests, writes per request | 2, 2, 2; for liveness 2, 2 of one manager, 1 | regrouping needs two factories and two writes; a replaced semaphore strands someone only if one request holds it and another waits |
| `MaxWorkers`, `QueueSize`, `BatchSize` | 1, 2, 3; for liveness 1, 1, 2 | the semaphore is contended, the queue is full while the loop blocks, a batch mixes the two writes of one factory with one of the other |
| `CommitOf` | never, then at the end (m1) or midway (m2) | what PostgreSQL does with facts, a summary and triples |
| `Engines` | {m1}; for liveness {} | a timed wait goes on to the engine; `AugmentationPipeline_engine.cfg` checks `WaitReturns` with an engine, timed and untimed, for one request |
| calls of write_batch, connections | 3, 2 | one must wait for a connection the others hold |
| `MaxRetries` | 1 (5 in the code) | one retry and one exhausted retry; each attempt starts afresh, so more attempts repeat the same states |
| owners, conversations, facts, texts | 2, 1, 1, 2 | an owner to overwrite, a repeated fact, a text and a summary |
| threads, clients | a writer and a reader, 1 | the client one thread holds is the one the other waits for; the reader is the job that shutdown joins. Isolation and what is held are proved for any number |
| operations per thread | each once | retries belong to `WriteBatch` |
| `Builders`, `MaxFaults` | 2, 1 | the builders share only rows and structures, and one loss may hit any statement; TiDB's migrations are OceanBase's, so six of the seven dialects are run |
| `Clients`, jobs of a client | 2, up to 4 | a pair is enough for every lock, duplicate and deadlock of two connections per client; the plays cross turns, histories, batches, recalls, deletions and sessions |
| `faults` of a client | 0, 1 or 2 | two, so that the statement after a failure and the retry may fail too |
| `Calls`, `MaxSessions`, `MaxAttempts` | 2 or 3, 2, 2 | a call with a history, one whose history has tool calls, one after a new session; one retry and one exhausted retry |
| `Clients`, `Keys`, `MaxLosses` of provisioning | 3, 2, 1 | two writers that cross and a reader; the theorem is for all numbers |

Nothing is counted without limit: every history is a set or a sequence bounded by the
calls. `CHECK_DEADLOCK FALSE` is set where all calls may be done, which is where the real
system is idle; `WriteBatch` steps to its end by itself and is checked for deadlock.

Symmetry is used in `worker_safety` only, a run without liveness.

## Fairness

* Worker: a thread inside a call is scheduled, tokio polls what is ready, handlers
  return, deadlines pass: weak fairness of each call's next step, of each task and of the
  dispatcher. Nobody is obliged to make a call, and no progress rests on a spurious
  wake-up.
* Pipeline: the loop thread as a whole and the writer thread as a whole are weakly fair;
  nothing is assumed about which ready callback goes first. API requests have a timeout,
  so an open coroutine is answered. `EnqueueList` and the steps of `wait` are threads
  inside a call. The engine's wait ends when it has a timeout (`TimedFlushReturns` of the
  worker); of one without a timeout nothing is assumed, since the worker can lose its
  wake-up, so `WaitReturns` promises such a call no more than that it gets there.
* Write batch: a call advances (weak); a caller that waits for a connection gets one when
  connections keep coming free (strong), which is what a fair pool does.
* Bridge: threads and the event loop are scheduled (weak); the timers of the sweep and of
  a call fire (weak); the database answers a statement that has a client (strong, per handle,
  since the event loop may be kept away from the answer by a shutdown in between). Of a
  statement that waits for a client nothing is assumed, not that it gets one nor
  that it fails.

* Schema builder: each builder's next step is weakly fair, and a build that failed is
  called again, as an application does that needs its database: `BuildsEnd` says that the
  repetition gets there, not that it happens.
* Turns: some client that can step does (weak fairness of all clients together); nothing
  is assumed about which one, so `JobsEnd` rests on the absence of waits that nobody ends.
* Invocation: each call's next step and its background task (weak); requests end by their
  timeouts, and a reader reads on or stops.

Liveness holds under these and nothing else. Failures are never assumed to happen: in
`bridge_serves` a statement that waits for a client may fail, but fairness does not make it,
so `CloseWaitsOnlyForClients` holds whether or not it does. `StorageBridge_close_hangs.cfg`
shows such a wait without end: two writers, one client; with the constants of `bridge_serves` TLC
finds one too, of the reader for the client of a writer that `close` is to roll back.

## Proofs

`EngineProofs` proves of the worker runtime, for any finite set of submits, any sets of other calls, any
capacity and concurrency above zero, on both kinds of tokio runtime, under
`RuntimeAssumption`: the number of submits is below the width of the counter.

| Theorem | Statement | Rests on |
|---|---|---|
| `TypeCorrect` | `[]TypeOK` | inductive as it stands |
| `CounterCorrect` | `[]CounterInv` | `CountInv` |
| `ZeroIsIdle` | `[]ZeroMeansIdle` | `CountInv`, finiteness of `Jobs` |
| `PermitsConserved`, `ConcurrencyBounded` | `[]PermitInv`, `[]ConcurrencyBound` | cardinality of the holders, one lemma per step kind |
| `TornDownOnce` | `[]OneTeardown` | `StageInv` |
| `NothingStranded` | `[]NoStrandedJob` | `LeaveInv` with `StartInv` and `QueueInv` |
| `NeverReopened` | `NoReopen`, an action property | `StartInv` |

The argument, and why each strengthening is needed:

* `CounterInv` (the counter is counted jobs less dropped guards, modulo its width) is not
  inductive alone. When a job is dispatched one must know that a job in the queue has no
  guard yet and occurs there once (`QueueInv`), and that a job that was not sent is new
  (`UnsentIsNew`). Together with `TypeOK` they are `CountInv`. The modulus is dealt with by
  cases on whether the decrement wraps, so underflow is part of the theorem.
* `PermitInv` adds up free permits and holders. Lemmas about the cardinality of a finite
  set with one element more or less carry each step.
* `StageInv` says that whoever is between closing the channel and the end of `shutdown`
  has left the stage `InProgress`, which keeps others out.
* `StartInv` says that at most one start is between its test and its return, that a
  running or closing runtime has no start under way, and that a shutdown which is about to
  close has a started runtime in front of it. This is where the `ops` lock is used.
* `LeaveInv` has three parts: what the dispatcher knows of the channel from where it
  stands (`ChannelInv`), that it is spawned only once (`SpawnInv`), and that a job that is
  queued is in the channel and at most one is in the dispatcher's hand (`PlaceInv`). The
  dispatcher leaves `recv` only for an empty, closed channel, and nobody can send after
  that.

The refinement, also there, is `RuntimeIsAPool`: `Spec => ImplementsPool`,
from the invariants above (`RefineInv` is `CountInv`, `PermitInv`, `StartInv` and
`LeaveInv`). Each action has one lemma that says which step of the pool it is. An accepted
submit is `Accept`, because the job was new (`UnsentIsNew`) and the channel had room;
`DispatchRecv` is no step, because the job taken out goes on standing in front of the line
and the dispatcher has only one hand (`PlaceInv`); `DispatchSpawn` is `Begin`, because a
free permit means fewer holders than permits (`PermitInv`); the end and the cancellation of
a task are `End`; a start finds the channel empty (`SpawnInv`, `ChannelInv`, `QueueInv`).

`SetupProofs` proves `InstancesKeepTheirKeys`, `[]KeysKeepApart`, for any processes
and keys and any number of losses. The property speaks of what a reader finds in the file;
the invariant (`ProvisionInv`) also needs that the entries are right while the file does
not parse, that so are the entries each process is about to write, however old they are,
and that a process which writes has its answer. A new instance is numbered behind all
others, so no entry speaks of it yet. It also proves `CallsReuseInstances`,
`[]LaterCallsReuse`. As long as no calls have overlapped and none has died (`Undisturbed`),
there is one call at a time (`OneAtATime`), the file parses unless it is being written
(`WrittenInFull`), it holds every live instance that was handed out and may be cached
(`KeptInFile`), and a call changes only its own entry, which has expired or is not there
(`WritesItsOwn`); that is `ReuseInv`.

`AugmentationPipelineProofs` proves the five invariants of the pipeline, for any managers,
any finite set of requests, any waits and sizes, wherever the drivers commit, with failing
writes, commits, connections and answers:

| Theorem | Statement | Rests on |
|---|---|---|
| `PipelineTypes` | `[]TypeOK` | `LoopInv` |
| `PermitsAreKept` | `[]WorkersBound` | `LoopInv` |
| `EveryTaskInOnePlace` | `[]OnePlace` | `TaskInv`, `LoopInv` |
| `WritesKeepTheirOrder` | `[]StoredInOrder` | `TaskInv` |
| `WaitTellsTheTruth` | `[]TrueMeansHandedOver` | `WaitInv`, `LoopInv` |

* `LoopInv` is the types, the permits and the stages together, because they need each
  other: a value of a semaphore stays below `MaxWorkers` when it is released only because
  the one that releases it is counted among its holders; the semaphore it names exists
  because its coroutine has read it (`StageInv`).
* `TaskInv` sees stored, done, group, batch and queue as one line. The writes of a request are in
  order in each of them and across them (`LineInv`), which also says that no two of them
  hold the same write. What is in the line or lost is what was handed over, and nothing is
  both (`HandedInv`). A write, a commit or a rollback moves the front of the line
  (`FrontMoves`) in one of the ways of `PassesOn`. Regrouping a batch may put the tasks of one factory before those of
  another; `OrderIsKept` says that it leaves those of one request as they were, because a
  request has one factory.
* `WaitInv`: a request that a wait has found finished stays finished, and a finished request
  puts nothing more. That a request which is accepted and not in the list of futures is
  finished is part of `StageInv`; this is where listing a future only after its coroutine was
  scheduled matters.

`ListProofs` holds what `Only` returns: a list of the same elements in the same order
(`OnlySelects`, `OnlyElements`, `OnlyIsNoLonger`). That its recursive function exists and
what it yields is shown by induction on the prefixes (`OnlyUnfolds`). The induction theorems
of the library have an operator for a parameter, which the provers cannot instantiate;
`SetInduction` says the same of a set of natural numbers, from the library's fact that `<`
on them is well-founded. It also holds what the set of the elements of a list is after an
append, a tail or a replacement, which the line of the pipeline and the inbox of the event
loop need.

`EngineProofs` proves of the batches `CommittedRowsAreWhole`, `[]StoreConsistent`, and `OwnersAreKept`,
the action property `SessionKeepsOwner`, for any calls and batches, any pool, any number of
retries and any set of faults, whether the database merges repeated facts or refuses them.
The first half is about the operations alone: each takes sound tables to sound tables in
which every session that had an owner has one (`OperationKeeps`, from one lemma for each
helper and each kind of operation; `FactsAreCreated` needs that a fact in a list occurs
there, a fact about the cardinality of the places it has). The second half is the
invariant `BatchInv`. It needs that the tables inside an open transaction are sound, that
they keep the owners of the committed ones as long as nobody has committed since its
`BEGIN`, and, so that a commit makes every other open snapshot stale, that a call which has
committed never begins again: it is closing, done, or rolling back with an error that is
not retried.

`BatchesAreAtomic`, also there, is the refinement `BSpec => ImplementsAtomic`: a call applies
its batch whole, at one point and at most once, and answers Ok only for a batch it has
applied. `Commit` and `CommitLost` are `Apply`; `Enter` of an empty batch and `Close`, which
only a call that has committed reaches, are `Succeed`; a connection or a `BEGIN` that is
refused and a `Rollback` that is not retried are `Fail`; the death of the process is `Die`;
every other step leaves what `AtomicStore` can see as it was. What it needs beside `BatchInv` is `TransactionInv`: inside
a transaction the private copy is the committed tables at its `BEGIN` with the operations
run so far, as long as nobody has committed since. `WriteBatch` runs one operation at a
time and `AtomicStore` the whole batch, `RunAll`, a recursive function; `RunAllGrows` says
that the tables after one more operation are that operation on the tables before, by
`SetInduction` on the length of the prefix. `SameOperations` says that the operations of
`AtomicStore` are those of `WriteBatch`: both take them from `MemoryStore`.

`StorageBridgeProofs` proves the four safety invariants of the bridge, for any finite set of
threads, any size of the pool, on a pool and on one shared handle, with any call given
up, failing statements, sweeps and a close at any moment:

| Theorem | Statement | Rests on |
|---|---|---|
| `TypeCorrect` | `[]TypeOK` | `CommonInv` |
| `NobodyForgotten` | `[]NobodyIsForgotten` | `CommonInv` |
| `Isolates` | `[]StatementsAreIsolated` | `CommonInv`, `IsolationInv` |
| `HoldsOnlyStrays` | `[]OnlyStraysAreHeld` | `CommonInv`, `IsolationInv` |

None has a hypothesis about the clock: a `begin` that is given up is a case of the proof
like any other. What it may do is bounded by `astray`: a client that stays out
(`StorageBridge_leak.cfg`), or on the shared handle a reader whose statement runs inside
the transaction of a writer that has given up and closed, whose lock went to the reader,
and whose `BEGIN` took effect only then.

* `CommonInv` is `TypeOK`, `ListInv` (in the inbox and in front of each database the operations
  of a thread stand in the order it comes to them, and only a writer has a transaction), `LockInv` (the serial queue is a list of different connections, released ones
  come before the holder, and of two live connections one is spent) and, for each
  thread, `ThreadInv`. That one relates the two sides of the bridge: what a thread has
  called to what is in the inbox or sent (`CallInv`, `OrderInv`), what a reader never
  asks for (`ReaderInv`), the connection on the event loop to what the thread still has to
  do (`ConnectionInv`), who has a client of the pool (`ClientInv`), and, before `close` and as long
  as the manager has not lost its transaction, that a begin under way and what it opens
  belong to a live connection (`KeptInv`).
* A step is mostly one thread's. `Same` and `Others` say what a step leaves of the other
  threads, so each action has one lemma about the thread that takes it (`Fits`), and two
  conditions, `KeepsLock` and `GivesLock`, say what it does to the queue for the lock.
  Handling the list of entries that `close` finds needs that the order it takes
  is a list of that set (`SetToSeqDoes`), which is why the threads are a finite set.
* `IsolationInv` says of each handle that a begin is last in its line and a write first, in a
  transaction of its own, and that what stands before a begin or a read undoes what is open, all
  but for the connections lost (`Isolated`); and of each thread whose the transaction on its
  handle is and who will still end it: a live connection, a thread that has failed to commit
  and is about to ask for the rollback (`Undoing`), or nobody, and then it is noted
  (`Kept`, `TransactionInv`). When `close` has begun, a connection without its lock is only
  safe because nobody else can send any more (`Alone`).

`SetupProofs` also proves `RevisionsAreBuilt`, `[]RevisionIsBuilt`, and `RecordsStay`,
`[]RevisionStaysRecorded`, for any builders of any releases, any of the seven dialects and
any number of faults (`BuilderAssumption`: the dialects are those of `Schema`). The scripts
of `Schema` are not parameters, so their facts are lemmas too.

* `RowInv`, for the row: whoever has deleted rows and not committed keeps everybody else
  from deleting (`OneDeletes`), also after its insert has failed and while its connection
  still holds the deletion; and what a connection has deleted is never every row there is,
  unless it stands before the insert or the commit (`ConnectionInv`). Without that a commit
  of a later migration could take the last row with it. Where there is no transaction
  (MongoDB) only a death, or a builder between its delete and its insert, can have left
  no row.
* `MigrationsAre` says of every dialect what the builder needs: no revision and no migration
  is empty, and in a block of Oracle, which leaves at its first "already exists", only
  indexes stand behind the first statement. It is put together from one lemma for each
  kind of part (`SinglePartsAre`, `BlockPartsAre`, `UniqueIndexesDo`).
* `BuiltInv`, for the structures: whatever is due before the statement a builder stands at
  is there or in its own transaction (`Stands`, `Built`), and every row, committed or not,
  is of a revision that is built (`Recordable`). `BuilderMoves` says that it is enough to look at the
  builder that moves, because structures are only ever added; `StatementBuilds` is the step
  where Oracle's early end of a block is harmless: what it skips was not due.

`InvocationProofs` proves `CallsReachStore`, `[]CallsAreStored`, and `TurnsReachTheCloud`,
`[]TurnsReachCloud`, for any calls, sessions, attempts and any set of plans
(`InvocationAssumption`: a plan is one of those the client has, and there is an attempt and
a session). The theorems claim what the properties say and no more: `CallsReachStore` is
about a client with its own database, as long as no two calls have overlapped and no new
session has come while a call or its background task was under way or a count of injected
messages was left, and it leaves out the Responses API with instructions of the caller. The
unqualified claim is false: `invoke_new_session` shows a new session break it. The invariant
has five layers:

* `ShapeInv`: the types, and that a turn to be stored ends with the call's own answer. That
  the history from the cloud is a list of messages needs what `FlattenSeq` yields
  (`FlattenIsSequence`), which is an induction on the turns it joins.
* `QuietInv`: while nothing has come between, or while calls to the cloud do not overlap, one
  call runs at a time (`Alone`), the count is that of the messages in front of the question
  (`Asking`), and without the cloud a count that is not zero is of the conversation the next
  call goes on with, which then has messages (`Counting`). That last part is what keeps
  `Inject` right when it leaves the count alone, and what a new session breaks: the finding
  below is the state it excludes.
* `OwnInv`: the conversations are dialogues that hold only calls which stored their turn, so
  a turn is new when it is appended (`DialogueGrows`), and a call which still has to learn is
  held by the conversation that is cached.
* `ToldInv` and `OnceInv`: a turn is told before it is copied and copied before the call
  returns; a call that is not doubtful is told and copied only in the stages behind, and none of its
  messages is among those that failed copies left to the next commit.

`TurnsProofs` proves `ReturnedTurnsAreStored`, `[]TurnsAreStored`, and `CachedIdsAreReal`,
`[]CachedIdsHold`, and `RowsProofs`, which goes on from there, `TurnsStayInTheirSession`, `[]TurnsInTheirSession`, `RowsStaySound`,
`[]RowsAreSound`, and `ForgettingIsExact`, the action property `ForgetIsExact`, for any clients, any cases of a dialect and a play, and any number of
faults (`TurnsAssumption`: a dialect is one of the seven and a play gives each client jobs
the program has). The first says what a caller relies on: a turn that returned is in the database once and whole, whichever statements
failed, whoever was picked in a deadlock and however often `Writer.execute` began again;
a turn under way of which no statement has raised is there whole or not at all, except in
MongoDB, where each call is durable at once. The second says what every later turn relies
on: the ids in `Config.cache` are of rows the client sees. The third says what a reader
of a conversation relies on: each message is in a conversation of the session it was said
in, as long as nobody goes back to an earlier session. The fourth says that the tables stay
what the migrations declare: one row for each natural key, and no reference to a row that is
gone. The fifth is about `delete_entity_memories`: what the entity had when it was called is gone
when it returns, and nothing of another entity is, but for what PostgreSQL and Oracle cascade to. Six invariants lead there.

* `BaseHolds`, `[]BaseInv`. What a client has left to execute (`todo`) is a part of the
  program of its job that can still run (`Rest`, `TodoInv`): a statement that goes by what
  another has found stands behind it, a turn has the shape of a turn, and the ids of session
  and conversation are cached, or will be by the time they are needed (`Closed`). That is
  proved of the programs each driver gives a job, of what each statement leaves of them,
  and of the whole that a restart puts back. Every row, committed or not, is a row of
  its table with an id that was given out, and so are the rows it refers to (`IsRow`);
  MongoDB has no uncommitted work, a connection that refuses statements has none either
  (`StoreInv`).
* `MessagesHold`, `[]MessageInv`. A message says who said it, in which job and which of the
  two it is; of those that are committed or written by a connection no two say the same
  (`SpokenInv`). Those that are not committed are of the job under way and on the main
  connection of its client, so a commit of an augmentation's batch takes none along and a
  rollback loses nothing of an earlier turn. While a turn runs, what is left of
  its program says how much of it has been written: the question once one write is left, the answer once none
  is, and nothing of it is committed before its last statement (`Underway`). That is
  what a restart of `Writer.execute` needs, which begins with everything again: all of the
  first try has been rolled back. `StoredTurns` derives the property from it by counting:
  two messages of a job in the database differ in which of the two they are (`MessagesCount`).

* `CacheInv`. A cached id is that of a row the client can count on (`HeldInv`), and so is
  the id that a look-up has just found and the rest of the program is about to return
  (`GotInv`). Which rows those are depends on when a driver commits: what is committed, and
  in SQLite and Oracle, which commit at the end of a job, also what the main connection has
  written itself (`Base`). Elsewhere a row of the four tables is uncommitted only between
  its insert and the commit right behind it (`FreshInv`), so a statement that raises later
  takes none along. For the rows to stay, nobody may delete them: what a connection has
  taken away and not put back is learned (`GoneInv`), never an entity, a process, a session
  or a conversation. In SQLite only one connection has uncommitted work (`SingleInv`), so
  its writer is never picked in a deadlock and keeps what the cache refers to. The guard
  of the property is needed as it stands (see [Findings](#findings)): the proof uses both
  its halves, a main connection that refuses statements in SQLite and Oracle and a failed
  commit in MySQL.
* `SessionInv`. Rows with one id have one natural key, whoever holds which copy of them
  (`AlikeInv`), so "the session of an id" means something. Messages and conversations have
  what they refer to (`PlacedInv`): MySQL's foreign keys see to that where an insert may meet
  a copy that was never committed, `CacheInv` everywhere else. A turn goes by the ids that are
  cached for it (`MirrorInv`). As long as nobody restores a session, its uuid is
  that of the job under way (`UuidInv`); the ids that are cached or were just found belong to
  that session and its conversation (`KeptInv`, which `ChangeSession` keeps by emptying the
  cache); and a message is in a conversation of its turn's session (`SaidThere`).

* `RowInv`. What two connections have written or taken away has neither an id nor a natural key
  in common (`LockInv`): that is what a statement waits for (`WaitsFor`), and what it goes on to
  write has been looked at. From it follows that what is committed, and what each
  connection sees, is single (`UniqueInv`); `KeysAre` and `RefsAre` derive from the migrations
  of each dialect that every natural key is unique and every reference declared. Where
  references are checked, what is committed and what each connection sees finds what it
  refers to (`ResolveInv`), and who takes away a row that another connection's row refers to has put
  it back (`KeepRefInv`); a cascade takes along what refers to what it deletes. A mention names
  a fact and its entity; the migrations tie it to the fact only, and the entity is that of
  the fact because each program looks up the entity before the facts
  (`MentionInv`). SQLite and MongoDB check nothing: there a client has itself seen or written
  the rows whose ids its statements use, and they stay while nobody forgets (`LooseInv`).

* `ForgetInv`. The ids noted when a job began are never given out again, and what another connection
  has changed of those rows without a commit is committed still (`OldInv`), so nothing
  that is deleted comes back. A client that forgets goes by the id of its own entity once it has found it, and of
  each table its deletion empties either none of the noted rows of that entity stands any
  more, or the statement that takes them is still in `todo` (`Reached`, `Clear`,
  `ForgettingInv`). What it has deleted and not committed was its entity's, except in
  PostgreSQL and Oracle, whose deletion of a free subject cascades (`GoneOwn`).

The action lemmas say in which of four ways a step changes the messages: it leaves them
alone, writes one, drops what is not committed, or commits it (`Keeps`, `Says`, `Drops`,
`Commits`).

The strengthenings live in the proof modules. TLC evaluated them as invariants on the small
instances before they were proved, which is how several of them got their last conjunct.

What is only model-checked: the liveness properties of all modules (out of the prover's
reach, like `ENABLED`), and of the turns of several clients two properties.
`CountsAreExact` and `HistoryInOrder` sum up and sort what a sequence of statements left,
which is induction over data, as is what a batch leaves in the tables beyond soundness and
owners (`RepeatsAreCounted`). No module with a theorem reaches a recursive operator.

## Findings

Two runs expect a violation; each quotes the sentence it contradicts in `PROJECT.json`.

1. `worker_shutdown_hangs`: the drain loop creates `notified()` after it has read the
   counter, and a counter that comes back to zero through the late `fetch_add` wakes
   nobody, so `shutdown` may block for ever with no job left.
2. `invoke_new_session`: a conversation without messages leaves
   `_injected_message_count` as it was, so after `new_session` the first question is taken
   for an injected message and is not stored.

Configurations beside the runs show what else the code does, with the properties that say
otherwise:

| Configuration | Module | Property | Shows |
|---|---|---|---|
| `AugmentationPipeline_wait_early.cfg` | `MCAugmentationPipeline` | `WaitFinishesWrites` | `Manager.wait` looks at the queue only; a batch in the hands of the writer thread is invisible and 0.2 s later the call returns True |
| `WriteBatch_repeats.cfg` | `MCWriteBatch` | `RepeatsAreCounted` | on PostgreSQL a fact that occurs twice in one answer makes the statement fail, and the whole batch is rolled back |
| `StorageBridge_close_hangs.cfg` | `MCStorageBridge` | `CloseReturns` | `StorageManager.close` awaits operations that wait for a client which close itself would release afterwards |
| `StorageBridge_leak.cfg` | `MCStorageBridge` | `NothingHeldBetweenCalls` | a `begin` that gets its client after the Rust side has given up keeps it, with an open transaction, on an adapter nobody can reach |
| `StorageBridge_shutdown.cfg` | `MCStorageBridge` | `ShutdownNeedsNoTimeout` | `EngineOrchestrator::shutdown` joins its runtimes on the event loop before the bridge is told, so a job in the middle of a write needs its 30 s timeout |
| `Turns_restore.cfg` | `MCTurns` | `RestoredTurnsInTheirSession` | `set_session` keeps the cached ids, so a client that goes back to an earlier session writes into the conversation it has left |
| `Turns_forget.cfg` | `MCTurns` | `PostgresqlForgetKeepsOthers` | in PostgreSQL a deletion of one entity's memories takes along the triple another client has just committed for another entity |

Other exceptions the models made visible, without a configuration of their own:
concurrent calls of one client overwrite each other's count of injected messages
(`conversation_injection.py:225`); with the Responses API and instructions of the caller the
last message of the history is stored again each turn, since the adapter puts a system
message in front of what it then strips; a failed local copy makes an accepted POST be sent
again (`memory/_manager.py:60`); an abandoned iterator or generator stores nothing; a
background task learns for the conversation that is cached when it runs (`_handler.py:130`);
after a conversation's commit failed in a turn, the next injection caches that conversation
although it is not committed, and when its connection is then lost (SQLite) `learn` writes a
mention that refers to nothing, or when it loses a deadlock (MySQL, three clients) the
cache keeps an id that is gone. The guards of `ReferencesResolve` and `CachedIdsHold`
leave out exactly these two.

## What is left out

* Data: texts, embeddings, scores, SQL, JSON. A fact is a name, a message is a name.
* In `WriteBatch`, isolation below serializable: MySQL under REPEATABLE READ can show
  states it does not have; the hazard is listed. `Turns` reads what is committed, statement
  by statement, and models row locks; snapshots that last for a transaction it has not.
* Time. A timeout may come whenever it is allowed at all, a sweep may find any idle
  connection expired.
* `shutdown_timeout` of 30 s gives up on blocking writes that go on in the background.
* Reads that change nothing, logging, telemetry, formatting, provider adapters.
* Generated code and tools: the CockroachDB cluster manager, the CLI, the integrations.

## Plan

Done: worker runtime, augmentation pipeline, write batch, bridge, schema and builder,
drivers and turns, invocation and cloud delivery, provisioning. What would come next, in
the order of what would hurt most:

1. Orchestrator composition: two worker runtimes, the storage and the bridge;
   `wait_for_augmentation` with both.
2. Pure algorithms of the engine against reference definitions: the alignment of facts and
   embeddings, chunking, candidate selection and its limits, the batch an answer becomes.
3. Network clients: status, quota and the wait between retries.
4. Native adapter, Python binding, the hooks of the TypeScript SDK.
5. Snapshots of MySQL that last for a transaction.

Proofs, next: `CountsAreExact` needs a sum over what a batch upserts, which is induction
over data; beside it what is left is liveness, which is out of the prover's reach.

## Running the checks

    tlasany WorkerRuntime.tla
    tlc -workers 2 -config WorkerRuntime_safety.cfg MCWorkerRuntime.tla
    tlapm EngineProofs.tla

`PROJECT.json` lists module, configuration and expected outcome of every run. The largest
takes about two minutes with two workers.
