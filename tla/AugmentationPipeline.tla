------------------------ MODULE AugmentationPipeline ------------------------
(***************************************************************************)
(* The background augmentation of the Python SDK                           *)
(* (memori/memory/augmentation): managers, one per Memori object, that     *)
(* schedule coroutines on one shared event loop, and the shared writer     *)
(* thread that applies the writes the coroutines queue.                    *)
(*                                                                         *)
(* One request is one call of Manager.enqueue.  Its answer from the API    *)
(* yields WritesPerRequest write operations, the pairs of Task.  Three     *)
(* kinds of thread meet here: application threads (enqueue, wait), the     *)
(* event loop thread, and the writer thread.  The loop thread blocks while *)
(* a coroutine puts its writes into a full queue.                          *)
(*                                                                         *)
(* The writer executes the writes of one connection and commits at their   *)
(* end, but most driver methods (storage/drivers) commit by themselves as  *)
(* well, at their end or on their way.  So a write is executed first and   *)
(* stored by the next commit, its own or another's, and a rollback undoes  *)
(* every write since the last commit.                                      *)
(***************************************************************************)
EXTENDS Integers, FiniteSets, Sequences, SequencesExt, Lists

CONSTANTS
  Managers,          \* each with a connection factory of its own
  Requests,          \* the calls of enqueue
  OwnerOf,           \* the manager each request is enqueued on
  WritesPerRequest,  \* length of ctx.writes when the API returned memories
  Replies,           \* what the API may answer: memories, nothing, quota
  CommitOf,          \* where the driver method of a manager's n-th write
                     \* commits: at its end, midway only, or never
  MayFail,           \* the database may fail
  MaxWorkers,        \* MAX_WORKERS
  BatchSize,         \* DB_WRITER_BATCH_SIZE
  QueueSize,         \* DB_WRITER_QUEUE_SIZE
  Waits,             \* the calls of wait
  TimedWaits,        \* those of them that pass a timeout
  WaiterOf,          \* the manager each wait is called on
  Engines            \* the managers whose Config has the native engine

ASSUME PipelineAssumption ==
  /\ IsFiniteSet(Requests)
  /\ OwnerOf \in [Requests -> Managers]
  /\ WaiterOf \in [Waits -> Managers]
  /\ TimedWaits \subseteq Waits
  /\ Replies \subseteq {"memories", "nothing", "quota"}
  /\ CommitOf \in
       [Managers -> [1..WritesPerRequest -> {"end", "midway", "never"}]]
  /\ MayFail \in BOOLEAN
  /\ Engines \subseteq Managers
  /\ {WritesPerRequest, MaxWorkers, BatchSize, QueueSize} \subseteq Nat \ {0}

VARIABLES
  started,    \* managers whose conn_factory is set
  active,     \* managers with _active
  exhausted,  \* managers with a _quota_error
  pending,    \* the requests in some _pending_futures list
  free,       \* free[g]: the value of the g-th semaphore of the runtime
  swaps,      \* _set_semaphore callbacks that wait on the loop
  app,        \* where the caller of enqueue stands
  coro,       \* where the coroutine and future of a request stand
  sem,        \* the semaphore a coroutine waits on or holds
  next,       \* the next write a coroutine will put
  overQuota,  \* history: the requests whose future holds QuotaExceededError
  queue,      \* DbWriterRuntime.queue
  writer,     \* where the writer thread stands
  batch,      \* tasks of the current batch that no group has taken
  group,      \* tasks of the current connection that are not executed
  done,       \* tasks it has executed since its last commit
  stored,     \* history: the tasks committed, in order
  lost,       \* history: the tasks given up
  wait,       \* where each call of wait stands, or what it returned
  waitFor,    \* the futures a wait has handed to concurrent.futures.wait
  goal        \* history: requests accepted before each wait was called

appVars    == <<started, active, exhausted, app>>
loopVars   == <<coro, sem, next, free, overQuota>>
writerVars == <<writer, batch, group, done, stored>>
waitVars   == <<wait, waitFor, goal>>
vars == <<started, active, exhausted, pending, free, swaps, app, coro, sem,
          next, overQuota, queue, writer, batch, group, done, stored, lost,
          wait, waitFor, goal>>

Task == Requests \X (1..WritesPerRequest)
Factory(t) == OwnerOf[t[1]]
TasksOf(m) == {t \in Task : Factory(t) = m}
PendingOf(m) == {r \in pending : OwnerOf[r] = m}
Returned(w) == wait[w] \in {"true", "false"}

Init ==
  /\ started = {} /\ active = {} /\ exhausted = {} /\ pending = {}
  /\ free = <<>> /\ swaps = 0
  /\ app = [r \in Requests |-> "new"]
  /\ coro = [r \in Requests |-> "none"]
  /\ sem = [r \in Requests |-> 0]
  /\ next = [r \in Requests |-> 1]
  /\ overQuota = {}
  /\ queue = <<>>
  /\ writer = "collect" /\ batch = <<>> /\ group = <<>> /\ done = <<>>
  /\ stored = <<>> /\ lost = {}
  /\ wait = [w \in Waits |-> "idle"]
  /\ waitFor = [w \in Waits |-> {}]
  /\ goal = [w \in Waits |-> {}]

----------------------------------------------------------------------------
(* Application threads: Manager.start and Manager.enqueue.                  *)

\* start of a later manager replaces the semaphore of the running loop
\* instead of resizing it.
Start(m) ==
  /\ m \notin started
  /\ started' = started \cup {m}
  /\ active' = active \cup {m}
  /\ swaps' = IF free # <<>> THEN swaps + 1 ELSE swaps
  /\ UNCHANGED <<exhausted, pending, app, loopVars, queue, writerVars, lost,
                 waitVars>>

EnqueueRefuse(r) ==
  /\ app[r] = "new"
  /\ \/ OwnerOf[r] \in exhausted
     \/ OwnerOf[r] \in active /\ free = <<>>
  /\ app' = [app EXCEPT ![r] = "refused"]
  /\ UNCHANGED <<started, active, exhausted, pending, loopVars, swaps, queue,
                 writerVars, lost, waitVars>>

EnqueueSkip(r) ==
  /\ app[r] = "new"
  /\ OwnerOf[r] \notin exhausted \cup active
  /\ app' = [app EXCEPT ![r] = "skipped"]
  /\ UNCHANGED <<started, active, exhausted, pending, loopVars, swaps, queue,
                 writerVars, lost, waitVars>>

EnqueueSchedule(r) ==
  /\ app[r] = "new"
  /\ OwnerOf[r] \in active \ exhausted
  /\ free # <<>>
  /\ app' = [app EXCEPT ![r] = "scheduled"]
  /\ coro' = [coro EXCEPT ![r] = "ready"]
  /\ UNCHANGED <<started, active, exhausted, pending, sem, next, free,
                 overQuota, swaps, queue, writerVars, lost, waitVars>>

\* What the callback of a future does with QuotaExceededError.
NoteQuota(r) ==
  IF r \in overQuota
  THEN /\ exhausted' = exhausted \cup {OwnerOf[r]}
       /\ active' = active \ {OwnerOf[r]}
  ELSE UNCHANGED <<exhausted, active>>

\* The future is listed only now; if it is already done, add_done_callback
\* runs the callback in the calling thread.
EnqueueList(r) ==
  /\ app[r] = "scheduled"
  /\ app' = [app EXCEPT ![r] = "listed"]
  /\ IF coro[r] = "finished"
     THEN pending' = pending /\ NoteQuota(r)
     ELSE pending' = pending \cup {r} /\ UNCHANGED <<exhausted, active>>
  /\ UNCHANGED <<started, loopVars, swaps, queue, writerVars, lost, waitVars>>

----------------------------------------------------------------------------
(* The event loop thread.                                                   *)

\* One coroutine or callback runs at a time; queue.put blocks them all.
LoopFree == \A r \in Requests : coro[r] \notin {"putting", "woken"}

LoopReady ==
  /\ started # {} /\ free = <<>>
  /\ free' = <<MaxWorkers>>
  /\ UNCHANGED <<appVars, pending, coro, sem, next, overQuota, swaps, queue,
                 writerVars, lost, waitVars>>

SwapSemaphore ==
  /\ LoopFree /\ swaps > 0
  /\ swaps' = swaps - 1
  /\ free' = Append(free, MaxWorkers)
  /\ UNCHANGED <<appVars, pending, coro, sem, next, overQuota, queue,
                 writerVars, lost, waitVars>>

\* _process_augmentations up to its first await: the semaphore it reads is
\* the one it will release.
CoroStart(r) ==
  /\ LoopFree /\ coro[r] = "ready"
  /\ sem' = [sem EXCEPT ![r] = Len(free)]
  /\ IF free[Len(free)] > 0
     THEN /\ coro' = [coro EXCEPT ![r] = "open"]
          /\ free' = [free EXCEPT ![Len(free)] = @ - 1]
     ELSE coro' = [coro EXCEPT ![r] = "parked"] /\ free' = free
  /\ UNCHANGED <<appVars, pending, next, overQuota, swaps, queue, writerVars,
                 lost, waitVars>>

\* Seeded fault: a parked coroutine goes on when a new semaphore appears.
CoroAcquireAny(r) ==
  /\ LoopFree /\ coro[r] = "parked"
  /\ \/ free[sem[r]] > 0 /\ free' = [free EXCEPT ![sem[r]] = @ - 1]
     \/ Len(free) > sem[r] /\ free' = free
  /\ coro' = [coro EXCEPT ![r] = "open"]
  /\ UNCHANGED <<appVars, pending, sem, next, overQuota, swaps, queue,
                 writerVars, lost, waitVars>>

CoroAcquire(r) ==
  /\ LoopFree /\ coro[r] = "parked"
  /\ free[sem[r]] > 0
  /\ free' = [free EXCEPT ![sem[r]] = @ - 1]
  /\ coro' = [coro EXCEPT ![r] = "open"]
  /\ UNCHANGED <<appVars, pending, sem, next, overQuota, swaps, queue,
                 writerVars, lost, waitVars>>

\* Seeded fault: the permit goes to the semaphore of the day.
LeaveNewest(r, how) ==
  /\ coro' = [coro EXCEPT ![r] = how]
  /\ free' = [free EXCEPT ![Len(free)] = @ + 1]

\* Leaving the coroutine releases its semaphore, whatever the outcome.
Leave(r, how) ==
  /\ coro' = [coro EXCEPT ![r] = how]
  /\ free' = [free EXCEPT ![sem[r]] = @ + 1]

\* The end of AdvancedAugmentation.process: memories to write, nothing (an
\* empty or failed answer, a failed connection), or an exhausted quota.
ApiReply(r) ==
  /\ LoopFree /\ coro[r] = "open"
  /\ \/ /\ "memories" \in Replies
        /\ coro' = [coro EXCEPT ![r] = "putting"]
        /\ UNCHANGED <<free, overQuota>>
     \/ /\ "nothing" \in Replies
        /\ Leave(r, "returned")
        /\ UNCHANGED overQuota
     \/ /\ "quota" \in Replies
        /\ Leave(r, "returned")
        /\ overQuota' = overQuota \cup {r}
  /\ UNCHANGED <<appVars, pending, sem, next, swaps, queue, writerVars, lost,
                 waitVars>>

\* After the last write the coroutine returns.
PutNext(r) ==
  /\ next' = [next EXCEPT ![r] = @ + 1]
  /\ IF next[r] = WritesPerRequest
     THEN Leave(r, "returned")
     ELSE UNCHANGED <<coro, free>>

\* Seeded fault: put_nowait on an unbounded queue.
PutUnbounded(r) ==
  /\ coro[r] = "putting"
  /\ queue' = Append(queue, <<r, next[r]>>)
  /\ PutNext(r)
  /\ UNCHANGED <<appVars, pending, sem, overQuota, swaps, writerVars, lost,
                 waitVars>>

Put(r) ==
  /\ coro[r] = "putting"
  /\ Len(queue) < QueueSize
  /\ queue' = Append(queue, <<r, next[r]>>)
  /\ PutNext(r)
  /\ UNCHANGED <<appVars, pending, sem, overQuota, swaps, writerVars, lost,
                 waitVars>>

\* Five seconds on a full queue: enqueue_write returns False, which nobody
\* reads, and the write is gone.
PutTimeout(r) ==
  /\ coro[r] = "putting"
  /\ Len(queue) = QueueSize
  /\ lost' = lost \cup {<<r, next[r]>>}
  /\ PutNext(r)
  /\ UNCHANGED <<appVars, pending, sem, overQuota, swaps, queue, writerVars,
                 waitVars>>

\* The future becomes FINISHED and its waiters wake; callbacks come after.
FutureDone(r) ==
  /\ LoopFree /\ coro[r] = "returned"
  /\ coro' = [coro EXCEPT ![r] =
                IF app[r] = "listed" THEN "woken" ELSE "finished"]
  /\ UNCHANGED <<appVars, pending, sem, next, free, overQuota, swaps, queue,
                 writerVars, lost, waitVars>>

\* _handle_augmentation_result.
Callback(r) ==
  /\ coro[r] = "woken"
  /\ coro' = [coro EXCEPT ![r] = "finished"]
  /\ pending' = pending \ {r}
  /\ NoteQuota(r)
  /\ UNCHANGED <<started, app, sem, next, free, overQuota, swaps, queue,
                 writerVars, lost, waitVars>>

----------------------------------------------------------------------------
(* The writer thread: _collect_batch, then one connection per factory.      *)

CollectGet ==
  /\ writer = "collect"
  /\ queue # <<>> /\ Len(batch) < BatchSize
  /\ batch' = Append(batch, Head(queue))
  /\ queue' = Tail(queue)
  /\ UNCHANGED <<appVars, pending, loopVars, swaps, writer, group, done, stored,
                 lost, waitVars>>

\* The batch is full or its time is over.
CollectEnd ==
  /\ writer = "collect"
  /\ batch # <<>>
  /\ writer' = "group"
  /\ UNCHANGED <<appVars, pending, loopVars, swaps, queue, batch, group, done,
                 stored, lost, waitVars>>

\* Seeded fault: the tasks of the group stay in the batch.
GroupOpenKeep ==
  /\ writer = "group" /\ batch # <<>>
  /\ group' = Only(batch, TasksOf(Factory(Head(batch))))
  /\ batch' = Tail(batch)
  /\ writer' = "exec"
  /\ UNCHANGED <<appVars, pending, loopVars, swaps, queue, done, stored,
                 lost, waitVars>>

GroupOpen ==
  /\ writer = "group" /\ batch # <<>>
  /\ LET mine == TasksOf(Factory(Head(batch)))
     IN  /\ group' = Only(batch, mine)
         /\ batch' = Only(batch, Task \ mine)
  /\ writer' = "exec"
  /\ UNCHANGED <<appVars, pending, loopVars, swaps, queue, done, stored,
                 lost, waitVars>>

Commits(t) == CommitOf[Factory(t)][t[2]]

\* What the commits inside the driver method of t make permanent.
Settled(t) ==
  {<<>>} \cup
  CASE Commits(t) = "end"    -> {Append(done, t)}
    [] Commits(t) = "midway" -> {done}
    [] Commits(t) = "never"  -> {}

TaskExecute ==
  /\ writer = "exec" /\ group # <<>>
  /\ LET t == Head(group)
     IN  \/ /\ Commits(t) = "end"
            /\ stored' = stored \o Append(done, t)
            /\ done' = <<>>
         \/ /\ Commits(t) = "midway"
            /\ stored' = stored \o done
            /\ done' = <<t>>
         \/ /\ Commits(t) = "never"
            /\ done' = Append(done, t)
            /\ stored' = stored
  /\ group' = Tail(group)
  /\ UNCHANGED <<appVars, pending, loopVars, swaps, queue, writer, batch, lost,
                 waitVars>>

\* An exception among the tasks or in their commit: what had been made
\* permanent stays, the rollback undoes the rest, and what the group still
\* holds is never executed.
Rollback(settled) ==
  /\ stored' = stored \o settled
  /\ lost' = lost \cup (ToSet(done \o group) \ ToSet(settled))
  /\ done' = <<>> /\ group' = <<>>
  /\ writer' = "exit"
  /\ UNCHANGED <<appVars, pending, loopVars, swaps, queue, batch, waitVars>>

\* A task raises.  A commit that raises may have been applied.
TaskFail ==
  /\ MayFail
  /\ writer = "exec" /\ group # <<>>
  /\ \E settled \in Settled(Head(group)) : Rollback(settled)

\* Seeded fault: without the rollback the next commit keeps what was given up.
GroupCommitFailKeep ==
  /\ MayFail
  /\ writer = "exec" /\ group = <<>>
  /\ lost' = lost \cup ToSet(done)
  /\ stored' = stored \o done
  /\ done' = <<>>
  /\ writer' = "exit"
  /\ UNCHANGED <<appVars, pending, loopVars, swaps, queue, batch, group,
                 waitVars>>

GroupCommitFail ==
  /\ MayFail
  /\ writer = "exec" /\ group = <<>>
  /\ \E settled \in {<<>>, done} : Rollback(settled)

GroupCommit ==
  /\ writer = "exec" /\ group = <<>>
  /\ stored' = stored \o done
  /\ done' = <<>>
  /\ writer' = "exit"
  /\ UNCHANGED <<appVars, pending, loopVars, swaps, queue, batch, group, lost,
                 waitVars>>

\* The connection context commits once more, with nothing left to commit.
GroupClose ==
  /\ writer = "exit"
  /\ writer' = IF batch = <<>> THEN "collect" ELSE "group"
  /\ UNCHANGED <<appVars, pending, loopVars, swaps, queue, batch, group, done,
                 stored, lost, waitVars>>

\* Seeded fault: the exception ends the thread.
WriterAbortDies ==
  /\ MayFail
  /\ writer \in {"group", "exit"}
  /\ lost' = lost \cup ToSet(batch)
  /\ batch' = <<>>
  /\ writer' = "dead"
  /\ UNCHANGED <<appVars, pending, loopVars, swaps, queue, group, done,
                 stored, waitVars>>

\* connection_context raises on entry or in its exit commit: the exception
\* leaves _drain_batches and takes the tasks of the other factories along.
WriterAbort ==
  /\ MayFail
  /\ writer \in {"group", "exit"}
  /\ lost' = lost \cup ToSet(batch)
  /\ batch' = <<>>
  /\ writer' = "pause"
  /\ UNCHANGED <<appVars, pending, loopVars, swaps, queue, group, done,
                 stored, waitVars>>

WriterResume ==
  /\ writer = "pause"
  /\ writer' = "collect"
  /\ UNCHANGED <<appVars, pending, loopVars, swaps, queue, batch, group, done,
                 stored, lost, waitVars>>

----------------------------------------------------------------------------
(* Manager.wait.                                                            *)

WaitMove(w, place) ==
  /\ wait' = [wait EXCEPT ![w] = place]
  /\ UNCHANGED <<appVars, pending, loopVars, swaps, queue, writerVars, lost>>

WaitCall(w) ==
  /\ wait[w] = "idle"
  /\ goal' = [goal EXCEPT ![w] =
                {r \in Requests : OwnerOf[r] = WaiterOf[w] /\ app[r] = "listed"}]
  /\ waitFor' = [waitFor EXCEPT ![w] = PendingOf(WaiterOf[w])]
  /\ WaitMove(w, IF PendingOf(WaiterOf[w]) = {} THEN "queue" ELSE "futures")

\* Seeded fault: a timeout of the futures is not looked at again.
WaitFuturesBlind(w) ==
  /\ wait[w] = "futures"
  /\ \/ \A r \in waitFor[w] : coro[r] \in {"woken", "finished"}
     \/ w \in TimedWaits
  /\ WaitMove(w, "queue")
  /\ UNCHANGED <<waitFor, goal>>

\* concurrent.futures.wait returns; a future whose callback has not run yet,
\* or one listed since, makes the call return False.
WaitFutures(w) ==
  /\ wait[w] = "futures"
  /\ \/ \A r \in waitFor[w] : coro[r] \in {"woken", "finished"}
     \/ w \in TimedWaits
  /\ WaitMove(w, IF PendingOf(WaiterOf[w]) = {} THEN "queue" ELSE "false")
  /\ UNCHANGED <<waitFor, goal>>

WaitQueueEmpty(w) ==
  /\ wait[w] = "queue" /\ queue = <<>>
  /\ WaitMove(w, IF started = {} THEN "true" ELSE "sleep")
  /\ UNCHANGED <<waitFor, goal>>

WaitQueueExpired(w) ==
  /\ wait[w] = "queue" /\ queue # <<>>
  /\ w \in TimedWaits
  /\ WaitMove(w, "false")
  /\ UNCHANGED <<waitFor, goal>>

\* Two batch timeouts of sleep, whatever the writer does meanwhile.
WaitSlept(w) ==
  /\ wait[w] = "sleep"
  /\ WaitMove(w, IF WaiterOf[w] \in Engines THEN "engine" ELSE "true")
  /\ UNCHANGED <<waitFor, goal>>

\* wait_for_augmentation of the engine, whose answer wait returns: its flush
\* says False only at its timeout (module WorkerRuntime).
WaitEngine(w) ==
  /\ wait[w] = "engine"
  /\ \/ WaitMove(w, "true")
     \/ w \in TimedWaits /\ WaitMove(w, "false")
  /\ UNCHANGED <<waitFor, goal>>

----------------------------------------------------------------------------
EnqueueNext(r) ==
  EnqueueRefuse(r) \/ EnqueueSkip(r) \/ EnqueueSchedule(r) \/ EnqueueList(r)
PutStep(r) == Put(r) \/ PutTimeout(r)
CoroNext(r) ==
  \/ CoroStart(r) \/ CoroAcquire(r) \/ ApiReply(r) \/ PutStep(r)
  \/ FutureDone(r) \/ Callback(r)
WriterNext ==
  \/ CollectGet \/ CollectEnd \/ GroupOpen \/ TaskExecute \/ TaskFail
  \/ GroupCommit \/ GroupCommitFail \/ GroupClose \/ WriterAbort \/ WriterResume
WaitNext(w) ==
  \/ WaitCall(w) \/ WaitFutures(w) \/ WaitQueueEmpty(w) \/ WaitQueueExpired(w)
  \/ WaitSlept(w) \/ WaitEngine(w)

Next ==
  \/ \E m \in Managers : Start(m)
  \/ \E r \in Requests : EnqueueNext(r) \/ CoroNext(r)
  \/ LoopReady \/ SwapSemaphore
  \/ WriterNext
  \/ \E w \in Waits : WaitNext(w)

Spec == Init /\ [][Next]_vars

LoopNext ==
  LoopReady \/ SwapSemaphore \/ \E r \in Requests : CoroNext(r)

\* The loop thread and the writer thread keep running as long as they have
\* work; requests to the API and the database end.  Each thread is one unit:
\* nothing is assumed about which of its ready callbacks goes first.  The
\* engine's wait ends at its timeout; without one it may never end, since
\* the engine can lose the wake-up (WorkerRuntime_shutdown_hangs.cfg).
Fairness ==
  /\ WF_vars(LoopNext)
  /\ WF_vars(WriterNext)
  /\ \A r \in Requests : WF_vars(EnqueueList(r))
  /\ \A w \in Waits :
       WF_vars(WaitFutures(w) \/ WaitQueueEmpty(w) \/ WaitQueueExpired(w)
               \/ WaitSlept(w))
  /\ \A w \in TimedWaits : WF_vars(WaitEngine(w))

FairSpec == Spec /\ Fairness

----------------------------------------------------------------------------
(* Properties.                                                              *)

\* Every variable keeps its shape; queue and batch respect their bounds.
TypeOK ==
  /\ started \subseteq Managers /\ active \subseteq started
  /\ exhausted \subseteq Managers
  /\ pending \subseteq Requests /\ overQuota \subseteq Requests
  /\ free \in Seq(0..MaxWorkers) /\ swaps \in Nat
  /\ app \in [Requests -> {"new", "refused", "skipped", "scheduled", "listed"}]
  /\ coro \in [Requests -> {"none", "ready", "parked", "open", "putting",
                            "returned", "woken", "finished"}]
  /\ sem \in [Requests -> 0..Len(free)]
  /\ next \in [Requests -> 1..WritesPerRequest + 1]
  /\ queue \in Seq(Task) /\ Len(queue) <= QueueSize
  /\ batch \in Seq(Task) /\ Len(batch) <= BatchSize
  /\ group \in Seq(Task) /\ done \in Seq(Task) /\ stored \in Seq(Task)
  /\ lost \subseteq Task
  /\ writer \in {"collect", "group", "exec", "exit", "pause"}
  /\ wait \in [Waits -> {"idle", "futures", "queue", "sleep", "engine",
                         "true", "false"}]
  /\ waitFor \in [Waits -> SUBSET Requests]
  /\ goal \in [Waits -> SUBSET Requests]

\* Every write a coroutine has handed over is in exactly one place (queue,
\* batch, group, the open transaction, the database, or given up), and
\* nothing else is: the retry-free path from enqueue_write to the commit
\* neither doubles nor drops a task, and what a rollback undoes is not taken
\* for stored.
OnePlace ==
  \A t \in Task :
    LET at(s) == Cardinality({i \in DOMAIN s : s[i] = t})
    IN  at(queue) + at(batch) + at(group) + at(done) + at(stored)
          + (IF t \in lost THEN 1 ELSE 0)
        = (IF t[2] < next[t[1]] THEN 1 ELSE 0)

\* The writes of one request reach the database in the order in which the
\* augmentation listed them (facts, triples, attributes, summary), although
\* batches are regrouped by factory.
StoredInOrder ==
  \A i, j \in DOMAIN stored :
    i < j /\ stored[i][1] = stored[j][1] => stored[i][2] < stored[j][2]

\* The permits of each semaphore the loop has had are accounted for, so at
\* most max_workers coroutines are at work on any one of them; only a later
\* manager's start, which brings a new semaphore, raises the total.
WorkersBound ==
  \A g \in DOMAIN free :
    free[g] + Cardinality({r \in Requests :
                 sem[r] = g /\ coro[r] \in {"open", "putting"}}) = MaxWorkers

\* wait returned True: every request accepted before the call has been
\* processed and none of its writes is left in the queue.
TrueMeansHandedOver ==
  \A w \in Waits : wait[w] = "true" =>
    \A r \in goal[w] :
      /\ coro[r] = "finished"
      /\ \A t \in ToSet(queue) : t[1] # r

\* What the documentation says of wait: when a call without timeout has
\* returned, the writes of every request accepted before it are finished.
WaitFinishesWrites ==
  \A w \in Waits \ TimedWaits : Returned(w) =>
    \A r \in goal[w] :
      /\ coro[r] = "finished"
      /\ \A t \in Task : t[1] = r /\ t[2] < next[r] =>
           t \in ToSet(stored) \cup lost

\* Every scheduled request is processed to the end: a full queue or a
\* replaced semaphore strands no coroutine.
RequestsSettle ==
  \A r \in Requests : coro[r] = "ready" ~> coro[r] = "finished"

\* A call of wait returns, unless it has no timeout and its Config has the
\* engine: then it gets at least as far as the engine's own wait.
WaitReturns ==
  \A w \in Waits :
    wait[w] # "idle" ~>
      Returned(w) \/ (w \notin TimedWaits /\ wait[w] = "engine")

=============================================================================
