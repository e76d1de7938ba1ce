---------------------------- MODULE WorkerRuntime ----------------------------
(***************************************************************************)
(* The background job runtime of the Rust core (core/src/runtime): a       *)
(* bounded queue of jobs, one dispatcher task, handler tasks capped by a   *)
(* semaphore, and blocking start / submit / flush / shutdown calls made by *)
(* application threads.                                                    *)
(*                                                                         *)
(* One job is one call of submit, so Jobs also names the submitting calls. *)
(* A step is a stretch of code between two points at which another thread  *)
(* can observe or change shared state.  The count of outstanding jobs is   *)
(* an atomic that submit raises only after it has released the lock under  *)
(* which it queued the job; wake-ups are sent without the lock under which *)
(* the waiters test the count.  Both windows are kept.                     *)
(***************************************************************************)
EXTENDS Integers, FiniteSets, Sequences

CONSTANTS
  Jobs,            \* the calls of submit
  Starters,        \* the calls of start
  Flushers,        \* the calls of flush and flush_for
  TimedFlushers,   \* those of them that are flush_for
  Stoppers,        \* the calls of shutdown
  QueueCapacity,   \* RuntimeConfig::queue_capacity
  MaxConcurrency,  \* RuntimeConfig::max_concurrency
  CounterModulus,  \* 2^64: the outstanding counter is an AtomicUsize
  SharedHandle     \* RuntimeConfig::tokio_handle is set

ASSUME RuntimeAssumption ==
  /\ IsFiniteSet(Jobs)
  /\ TimedFlushers \subseteq Flushers
  /\ QueueCapacity \in Nat \ {0}
  /\ MaxConcurrency \in Nat \ {0}
  /\ CounterModulus \in Nat
  /\ Cardinality(Jobs) < CounterModulus
  /\ SharedHandle \in BOOLEAN

VARIABLES
  lifecycle,    \* Inner::lifecycle
  open,         \* the channel has a live sender: job_tx holds one
  queue,        \* the jobs in the channel
  disp,         \* where the dispatcher task stands
  job,          \* where each job stands
  sub,          \* where each call of submit stands, or what it returned
  outstanding,  \* Inner::outstanding
  permits,      \* free permits of Inner::semaphore
  start,        \* where each call of start stands
  flush,        \* where each call of flush stands
  expired,      \* the flush_for calls whose deadline has passed
  stop,         \* where each call of shutdown stands
  stage,        \* Inner::shutdown_stage
  teardown,     \* the dedicated runtime is being shut down
  completed     \* history: the jobs whose handler ran to its end

callVars == <<start, flush, expired>>
stopVars == <<stop, stage, teardown>>
vars == <<lifecycle, open, queue, disp, job, sub, outstanding, permits,
          start, flush, expired, stop, stage, teardown, completed>>

LifecycleState == {"NotStarted", "Running", "ShuttingDown", "Stopped"}
JobState == {"new", "queued", "held", "spawned", "running", "released",
             "waking", "finished", "dropped"}
SubmitError == {"NotRunning", "QueueFull", "ShuttingDown", "Stopped"}

Init ==
  /\ lifecycle = "NotStarted"
  /\ open = FALSE
  /\ queue = <<>>
  /\ disp = "off"
  /\ job = [j \in Jobs |-> "new"]
  /\ sub = [j \in Jobs |-> "idle"]
  /\ outstanding = 0
  /\ permits = MaxConcurrency
  /\ start = [s \in Starters |-> "idle"]
  /\ flush = [f \in Flushers |-> "idle"]
  /\ expired = {}
  /\ stop = [s \in Stoppers |-> "idle"]
  /\ stage = "NotShutdown"
  /\ teardown = FALSE
  /\ completed = {}

-----------------------------------------------------------------------------
(* Locks and counters *)

\* `ops` is held by a start call from its lifecycle test to its return.
OpsFree == \A s \in Starters : start[s] \notin {"checked", "spawned"}

\* `flush_lock` is held while the counter is tested and until the wait begins.
FlushLockFree == \A f \in Flushers : flush[f] \notin {"check", "park"}

\* `shutdown_stage` stays locked while a shutdown of a runtime that was never
\* started stores Stopped.
StageLockFree == \A s \in Stoppers : stop[s] # "mark"

\* Seeded fault: a counter that does not wrap.
DecrPlain(n) == n - 1

\* AtomicUsize::fetch_add(1) and fetch_sub(1).
Incr(n) == IF n = CounterModulus - 1 THEN 0 ELSE n + 1
Decr(n) == IF n = 0 THEN CounterModulus - 1 ELSE n - 1

\* wake_waiters: notify_all on the flush condition variable, notify_waiters
\* on the drain Notify.  Only calls that already wait are woken.
WakeWaiters ==
  /\ flush' = [f \in Flushers |-> IF flush[f] = "waiting" THEN "lock" ELSE flush[f]]
  /\ disp' = IF disp = "parked" THEN "drain" ELSE disp

-----------------------------------------------------------------------------
(* start *)

\* The lifecycle test, under the `ops` lock that start keeps until it returns.
StartCheck(s) ==
  /\ start[s] = "idle"
  /\ OpsFree
  /\ start' = [start EXCEPT ![s] =
                 IF lifecycle = "NotStarted" THEN "checked" ELSE "AlreadyStarted"]
  /\ UNCHANGED <<lifecycle, open, queue, disp, job, sub, outstanding, permits,
                 flush, expired, stopVars, completed>>

\* A new channel, and the dispatcher spawned on the chosen tokio runtime.
StartSpawn(s) ==
  /\ start[s] = "checked"
  /\ start' = [start EXCEPT ![s] = "spawned"]
  /\ open' = TRUE
  /\ queue' = <<>>
  /\ disp' = "recv"
  /\ UNCHANGED <<lifecycle, job, sub, outstanding, permits, flush, expired,
                 stopVars, completed>>

\* Builder::build fails: job_tx holds a sender without a receiver, which no
\* submit can reach before another start replaces it.
StartBuildError(s) ==
  /\ start[s] = "checked"
  /\ ~SharedHandle
  /\ start' = [start EXCEPT ![s] = "BuildError"]
  /\ UNCHANGED <<lifecycle, open, queue, disp, job, sub, outstanding, permits,
                 flush, expired, stopVars, completed>>

StartPublish(s) ==
  /\ start[s] = "spawned"
  /\ start' = [start EXCEPT ![s] = "Ok"]
  /\ lifecycle' = "Running"
  /\ UNCHANGED <<open, queue, disp, job, sub, outstanding, permits, flush,
                 expired, stopVars, completed>>

-----------------------------------------------------------------------------
(* submit *)

\* The test of the lifecycle and try_send run under the job_tx lock.
SubmitSend(j) ==
  /\ sub[j] \in {"idle"} \cup SubmitError
  /\ lifecycle = "Running"
  /\ open
  /\ Len(queue) < QueueCapacity
  /\ sub' = [sub EXCEPT ![j] = "sent"]
  /\ job' = [job EXCEPT ![j] = "queued"]
  /\ queue' = Append(queue, j)
  /\ UNCHANGED <<lifecycle, open, disp, outstanding, permits, callVars,
                 stopVars, completed>>

\* The error of a refused submit: the lifecycle's own, QueueFull, or NotRunning.
Refusal ==
  IF lifecycle \in {"ShuttingDown", "Stopped"} THEN lifecycle
  ELSE IF lifecycle = "Running" /\ open THEN "QueueFull" ELSE "NotRunning"

\* The job goes back to the caller, who may submit it again.
SubmitRefuse(j) ==
  /\ sub[j] \in {"idle"} \cup SubmitError
  /\ ~(lifecycle = "Running" /\ open /\ Len(queue) < QueueCapacity)
  /\ sub' = [sub EXCEPT ![j] = Refusal]
  /\ UNCHANGED <<lifecycle, open, queue, disp, job, outstanding, permits,
                 callVars, stopVars, completed>>

\* Seeded fault: a job that has already ended is not counted any more.
SubmitCountLate(j) ==
  /\ sub[j] = "sent"
  /\ sub' = [sub EXCEPT ![j] = "Ok"]
  /\ outstanding' = IF job[j] = "finished" THEN outstanding ELSE Incr(outstanding)
  /\ UNCHANGED <<lifecycle, open, queue, disp, job, permits, callVars,
                 stopVars, completed>>

\* After drop(job_tx): only now is the job counted.
SubmitCount(j) ==
  /\ sub[j] = "sent"
  /\ sub' = [sub EXCEPT ![j] = "Ok"]
  /\ outstanding' = Incr(outstanding)
  /\ UNCHANGED <<lifecycle, open, queue, disp, job, permits, callVars,
                 stopVars, completed>>

-----------------------------------------------------------------------------
(* the dispatcher task: run_dispatcher *)

\* Seeded fault: the newest job is taken first.
DispatchRecvNewest ==
  /\ disp = "recv"
  /\ queue # <<>>
  /\ disp' = "permit"
  /\ job' = [job EXCEPT ![queue[Len(queue)]] = "held"]
  /\ queue' = SubSeq(queue, 1, Len(queue) - 1)
  /\ UNCHANGED <<lifecycle, open, sub, outstanding, permits, callVars,
                 stopVars, completed>>

DispatchRecv ==
  /\ disp = "recv"
  /\ queue # <<>>
  /\ disp' = "permit"
  /\ job' = [job EXCEPT ![Head(queue)] = "held"]
  /\ queue' = Tail(queue)
  /\ UNCHANGED <<lifecycle, open, sub, outstanding, permits, callVars,
                 stopVars, completed>>

\* Seeded fault: the loop ends when the channel closes, jobs in it or not.
DispatchClosedEarly ==
  /\ disp = "recv"
  /\ ~open
  /\ disp' = "drain"
  /\ UNCHANGED <<lifecycle, open, queue, job, sub, outstanding, permits,
                 callVars, stopVars, completed>>

\* recv returns None: no sender is left and the channel is empty.
DispatchClosed ==
  /\ disp = "recv"
  /\ queue = <<>>
  /\ ~open
  /\ disp' = "drain"
  /\ UNCHANGED <<lifecycle, open, queue, job, sub, outstanding, permits,
                 callVars, stopVars, completed>>

DispatchSpawn(j) ==
  /\ disp = "permit"
  /\ job[j] = "held"
  /\ permits > 0
  /\ permits' = permits - 1
  /\ job' = [job EXCEPT ![j] = "spawned"]
  /\ disp' = "recv"
  /\ UNCHANGED <<lifecycle, open, queue, sub, outstanding, callVars,
                 stopVars, completed>>

\* One turn of the drain loop: load the counter, and leave or go to wait.
DispatchDrain ==
  /\ disp = "drain"
  /\ disp' = IF outstanding = 0 THEN "exited" ELSE "arm"
  /\ UNCHANGED <<lifecycle, open, queue, job, sub, outstanding, permits,
                 callVars, stopVars, completed>>

\* notified() registers with the Notify after the load.
DispatchPark ==
  /\ disp = "arm"
  /\ disp' = "parked"
  /\ UNCHANGED <<lifecycle, open, queue, job, sub, outstanding, permits,
                 callVars, stopVars, completed>>

-----------------------------------------------------------------------------
(* handler tasks *)

\* Seeded fault: the guard is dropped as soon as it is made (`let _ = ...`).
TaskPollUnguarded(j) ==
  /\ job[j] = "spawned"
  /\ job' = [job EXCEPT ![j] = "running"]
  /\ outstanding' = Decr(outstanding)
  /\ UNCHANGED <<lifecycle, open, queue, disp, sub, permits, callVars,
                 stopVars, completed>>

\* The first poll creates the OutstandingGuard and starts the handler.
TaskPoll(j) ==
  /\ job[j] = "spawned"
  /\ job' = [job EXCEPT ![j] = "running"]
  /\ UNCHANGED <<lifecycle, open, queue, disp, sub, outstanding, permits,
                 callVars, stopVars, completed>>

\* Seeded fault: the permit is forgotten instead of dropped.
TaskReturnLeak(j) ==
  /\ job[j] = "running"
  /\ job' = [job EXCEPT ![j] = "released"]
  /\ completed' = completed \cup {j}
  /\ UNCHANGED <<lifecycle, open, queue, disp, sub, outstanding, permits,
                 callVars, stopVars>>

\* The handler returns (or panics): the permit is dropped before the guard.
TaskReturn(j) ==
  /\ job[j] = "running"
  /\ job' = [job EXCEPT ![j] = "released"]
  /\ permits' = permits + 1
  /\ completed' = completed \cup {j}
  /\ UNCHANGED <<lifecycle, open, queue, disp, sub, outstanding, callVars,
                 stopVars>>

\* The dedicated runtime drops the tasks it still has.  A task that was never
\* polled has no guard: nothing will take it off the counter.
TaskCancel(j) ==
  /\ teardown
  /\ \/ /\ job[j] = "spawned"
        /\ job' = [job EXCEPT ![j] = "dropped"]
     \/ /\ job[j] = "running"
        /\ job' = [job EXCEPT ![j] = "released"]
  /\ permits' = permits + 1
  /\ UNCHANGED <<lifecycle, open, queue, disp, sub, outstanding, callVars,
                 stopVars, completed>>

\* OutstandingGuard::drop, fetch_sub: the last one has to wake the waiters.
GuardDrop(j) ==
  /\ job[j] = "released"
  /\ outstanding' = Decr(outstanding)
  /\ job' = [job EXCEPT ![j] = IF outstanding = 1 THEN "waking" ELSE "finished"]
  /\ UNCHANGED <<lifecycle, open, queue, disp, sub, permits, callVars,
                 stopVars, completed>>

\* OutstandingGuard::drop, wake_waiters.
GuardWake(j) ==
  /\ job[j] = "waking"
  /\ job' = [job EXCEPT ![j] = "finished"]
  /\ WakeWaiters
  /\ UNCHANGED <<lifecycle, open, queue, sub, outstanding, permits, start,
                 expired, stopVars, completed>>

-----------------------------------------------------------------------------
(* flush and flush_for *)

FlushCall(f) ==
  /\ flush[f] = "idle"
  /\ flush' = [flush EXCEPT ![f] =
                 IF lifecycle = "NotStarted" THEN "NotRunning"
                 ELSE IF lifecycle = "Stopped" /\ outstanding = 0 THEN "Ok"
                 ELSE "lock"]
  /\ UNCHANGED <<lifecycle, open, queue, disp, job, sub, outstanding, permits,
                 start, expired, stopVars, completed>>

FlushLock(f) ==
  /\ flush[f] = "lock"
  /\ FlushLockFree
  /\ flush' = [flush EXCEPT ![f] = "check"]
  /\ UNCHANGED <<lifecycle, open, queue, disp, job, sub, outstanding, permits,
                 start, expired, stopVars, completed>>

FlushTest(f) ==
  /\ flush[f] = "check"
  /\ flush' = [flush EXCEPT ![f] =
                 IF outstanding = 0 THEN "Ok"
                 ELSE IF f \in expired THEN "Timeout"
                 ELSE "park"]
  /\ UNCHANGED <<lifecycle, open, queue, disp, job, sub, outstanding, permits,
                 start, expired, stopVars, completed>>

\* Condvar::wait releases flush_lock and enters the wait set in one step.
FlushWait(f) ==
  /\ flush[f] = "park"
  /\ flush' = [flush EXCEPT ![f] = "waiting"]
  /\ UNCHANGED <<lifecycle, open, queue, disp, job, sub, outstanding, permits,
                 start, expired, stopVars, completed>>

\* A condition variable may wake a waiter for no reason.
FlushSpurious(f) ==
  /\ flush[f] = "waiting"
  /\ flush' = [flush EXCEPT ![f] = "lock"]
  /\ UNCHANGED <<lifecycle, open, queue, disp, job, sub, outstanding, permits,
                 start, expired, stopVars, completed>>

\* Seeded fault: wait where wait_timeout is meant; the deadline wakes nobody.
FlushDeadlineUnheard(f) ==
  /\ f \in TimedFlushers \ expired
  /\ flush[f] \in {"lock", "check", "park"}
  /\ expired' = expired \cup {f}
  /\ UNCHANGED <<lifecycle, open, queue, disp, job, sub, outstanding, permits,
                 start, flush, stopVars, completed>>

\* The deadline of a flush_for passes; wait_timeout ends by it, also when the
\* wait was entered late.
FlushDeadline(f) ==
  /\ f \in TimedFlushers
  /\ \/ f \notin expired /\ flush[f] \in {"lock", "check", "park"}
     \/ flush[f] = "waiting"
  /\ expired' = expired \cup {f}
  /\ flush' = [flush EXCEPT ![f] = IF @ = "waiting" THEN "lock" ELSE @]
  /\ UNCHANGED <<lifecycle, open, queue, disp, job, sub, outstanding, permits,
                 start, stopVars, completed>>

-----------------------------------------------------------------------------
(* shutdown *)

\* Seeded fault: a call that meets InProgress goes on as the first one did.
StopEnterAgain(s) ==
  /\ stop[s] = "idle"
  /\ StageLockFree
  /\ IF stage = "Done" \/ lifecycle \in {"NotStarted", "Stopped"}
     THEN /\ stage' = "Done"
          /\ stop' = [stop EXCEPT ![s] = "returned"]
     ELSE /\ stage' = "InProgress"
          /\ stop' = [stop EXCEPT ![s] = "close"]
  /\ UNCHANGED <<lifecycle, open, queue, disp, job, sub, outstanding, permits,
                 callVars, teardown, completed>>

\* The loop on the stage: a call that meets InProgress waits, here by being
\* disabled until the stage is Done.
StopEnter(s) ==
  /\ stop[s] = "idle"
  /\ StageLockFree
  /\ stage # "InProgress"
  /\ IF stage = "Done" \/ lifecycle = "Stopped"
     THEN /\ stage' = "Done"
          /\ stop' = [stop EXCEPT ![s] = "returned"]
     ELSE IF lifecycle = "NotStarted"
     THEN /\ stop' = [stop EXCEPT ![s] = "mark"]
          /\ UNCHANGED stage
     ELSE /\ stage' = "InProgress"
          /\ stop' = [stop EXCEPT ![s] = "close"]
  /\ UNCHANGED <<lifecycle, open, queue, disp, job, sub, outstanding, permits,
                 callVars, teardown, completed>>

\* The runtime had not been started when the lifecycle was loaded.
StopMark(s) ==
  /\ stop[s] = "mark"
  /\ lifecycle' = "Stopped"
  /\ stage' = "Done"
  /\ stop' = [stop EXCEPT ![s] = "returned"]
  /\ UNCHANGED <<open, queue, disp, job, sub, outstanding, permits, callVars,
                 teardown, completed>>

StopClose(s) ==
  /\ stop[s] = "close"
  /\ lifecycle' = "ShuttingDown"
  /\ open' = FALSE
  /\ stop' = [stop EXCEPT ![s] = "join"]
  /\ UNCHANGED <<queue, disp, job, sub, outstanding, permits, callVars, stage,
                 teardown, completed>>

\* The dispatcher has been joined; a dedicated runtime is then shut down.
StopJoin(s) ==
  /\ stop[s] = "join"
  /\ disp = "exited"
  /\ teardown' = ~SharedHandle
  /\ stop' = [stop EXCEPT ![s] = "store"]
  /\ UNCHANGED <<lifecycle, open, queue, disp, job, sub, outstanding, permits,
                 callVars, stage, completed>>

\* shutdown_timeout is over (a task that blocks its thread may outlive it).
StopStore(s) ==
  /\ stop[s] = "store"
  /\ lifecycle' = "Stopped"
  /\ stop' = [stop EXCEPT ![s] = "finish"]
  /\ UNCHANGED <<open, queue, disp, job, sub, outstanding, permits, callVars,
                 stage, teardown, completed>>

\* The stage becomes Done, and notify_zero_if_needed runs.
StopFinish(s) ==
  /\ stop[s] = "finish"
  /\ stage' = "Done"
  /\ stop' = [stop EXCEPT ![s] = "returned"]
  /\ IF outstanding = 0 THEN WakeWaiters ELSE UNCHANGED <<flush, disp>>
  /\ UNCHANGED <<lifecycle, open, queue, job, sub, outstanding, permits,
                 start, expired, teardown, completed>>

-----------------------------------------------------------------------------
StartNext(s) == StartCheck(s) \/ StartSpawn(s) \/ StartBuildError(s) \/ StartPublish(s)
SubmitNext(j) == SubmitSend(j) \/ SubmitRefuse(j) \/ SubmitCount(j)
DispatchNext ==
  \/ DispatchRecv \/ DispatchClosed \/ DispatchDrain \/ DispatchPark
  \/ \E j \in Jobs : DispatchSpawn(j)
TaskNext(j) ==
  TaskPoll(j) \/ TaskReturn(j) \/ TaskCancel(j) \/ GuardDrop(j) \/ GuardWake(j)
FlushNext(f) ==
  \/ FlushCall(f) \/ FlushLock(f) \/ FlushTest(f) \/ FlushWait(f)
  \/ FlushSpurious(f) \/ FlushDeadline(f)
StopNext(s) ==
  \/ StopEnter(s) \/ StopMark(s) \/ StopClose(s) \/ StopJoin(s)
  \/ StopStore(s) \/ StopFinish(s)

Next ==
  \/ \E s \in Starters : StartNext(s)
  \/ \E j \in Jobs : SubmitNext(j) \/ TaskNext(j)
  \/ DispatchNext
  \/ \E f \in Flushers : FlushNext(f)
  \/ \E s \in Stoppers : StopNext(s)

Spec == Init /\ [][Next]_vars

(***************************************************************************)
(* Threads that are inside a call and tokio workers are scheduled; nobody  *)
(* has to make a call, and no spurious wake-up is owed.  Handlers are      *)
(* assumed to return: network calls carry a timeout, storage calls a       *)
(* bounded number of retries.                                              *)
(***************************************************************************)
Fairness ==
  /\ \A s \in Starters : WF_vars(StartSpawn(s) \/ StartPublish(s))
  /\ \A j \in Jobs : WF_vars(SubmitCount(j)) /\ WF_vars(TaskNext(j))
  /\ WF_vars(DispatchNext)
  /\ \A f \in Flushers :
       /\ WF_vars(FlushLock(f) \/ FlushTest(f) \/ FlushWait(f))
       /\ WF_vars(FlushDeadline(f))
  /\ \A s \in Stoppers :
       WF_vars(StopMark(s) \/ StopClose(s) \/ StopJoin(s) \/ StopStore(s) \/ StopFinish(s))

FairSpec == Spec /\ Fairness

-----------------------------------------------------------------------------
(* Safety *)

Holding == {j \in Jobs : job[j] \in {"spawned", "running"}}
Counted == {j \in Jobs : sub[j] = "Ok"}
Uncounted == {j \in Jobs : job[j] \in {"waking", "finished"}}
Accepted == {j \in Jobs : job[j] # "new"}

\* Every variable has the shape the code gives it.
TypeOK ==
  /\ lifecycle \in LifecycleState
  /\ open \in BOOLEAN
  /\ queue \in Seq(Jobs)
  /\ disp \in {"off", "recv", "permit", "drain", "arm", "parked", "exited"}
  /\ job \in [Jobs -> JobState]
  /\ sub \in [Jobs -> {"idle", "sent", "Ok"} \cup SubmitError]
  /\ outstanding \in 0 .. CounterModulus - 1
  /\ permits \in Nat
  /\ start \in [Starters -> {"idle", "checked", "spawned", "Ok",
                            "AlreadyStarted", "BuildError"}]
  /\ flush \in [Flushers -> {"idle", "lock", "check", "park", "waiting",
                            "Ok", "Timeout", "NotRunning"}]
  /\ expired \subseteq Flushers
  /\ stop \in [Stoppers -> {"idle", "mark", "close", "join", "store",
                            "finish", "returned"}]
  /\ stage \in {"NotShutdown", "InProgress", "Done"}
  /\ teardown \in BOOLEAN
  /\ completed \subseteq Jobs

\* The counter is the number of counted jobs less the number of dropped
\* guards; when a guard is dropped before its job is counted the difference
\* is negative and the unsigned counter holds it modulo 2^64.
CounterInv ==
  LET d == Cardinality(Counted) - Cardinality(Uncounted)
  IN outstanding = IF d >= 0 THEN d ELSE CounterModulus + d

\* Unless some submit stands between try_send and fetch_add, a counter of
\* zero means that every accepted job has dropped its guard: this is what
\* flush and the drain loop of the dispatcher conclude from it.
ZeroMeansIdle ==
  (outstanding = 0 /\ \A j \in Jobs : sub[j] # "sent") => Accepted = Uncounted

\* RuntimeConfig::max_concurrency: at most so many handlers exist at once,
\* whatever submit, flush and shutdown do meanwhile.
ConcurrencyBound == Cardinality(Holding) <= MaxConcurrency

\* No permit is lost or given back twice, cancelled tasks included.
PermitInv == permits = MaxConcurrency - Cardinality(Holding)

\* When the dispatcher has left, no accepted job is still in the channel or in
\* its hand, and none can be added: an accepted job always gets a task.
NoStrandedJob ==
  disp = "exited" => ~open /\ \A j \in Jobs : job[j] \notin {"queued", "held"}

\* Of all concurrent calls of shutdown only one closes the channel, joins the
\* dispatcher and takes the runtime down.
OneTeardown ==
  \A s, t \in Stoppers :
    {stop[s], stop[t]} \subseteq {"close", "join", "store", "finish"} => s = t

-----------------------------------------------------------------------------
(* Action properties *)

\* A runtime that has begun to shut down is never made to run again, however
\* the calls of start and shutdown interleave.
NoReopen ==
  [][lifecycle = "ShuttingDown" => lifecycle' \in {"ShuttingDown", "Stopped"}]_vars

-----------------------------------------------------------------------------
(* Liveness *)

\* flush_for returns, whatever wake-ups are lost.
TimedFlushReturns ==
  \A f \in TimedFlushers : flush[f] = "lock" ~> flush[f] \in {"Ok", "Timeout"}

\* shutdown returns: it drains and then tears the runtime down.
ShutdownReturns == \A s \in Stoppers : stop[s] = "close" ~> stop[s] = "returned"

-----------------------------------------------------------------------------
(* The promise to the jobs: the channel and the job in the dispatcher's hand *)
(* are the line, tasks with a permit are active.                             *)

InHand == {j \in Jobs : job[j] = "held"}

Pool == INSTANCE JobPool
          WITH LineCapacity <- QueueCapacity + 1,
               line <- IF InHand = {} THEN queue
                       ELSE <<CHOOSE j \in InHand : TRUE>> \o queue,
               active <- Holding,
               ended <- Accepted \ (Holding \cup {j \in Jobs : job[j] \in {"queued", "held"}})

\* The runtime implements the job pool: bounded line, first in first out,
\* every job begun at most once, at most MaxConcurrency at a time.
ImplementsPool == Pool!Spec

=============================================================================
