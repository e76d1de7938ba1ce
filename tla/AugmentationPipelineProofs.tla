---------------------- MODULE AugmentationPipelineProofs ----------------------
(***************************************************************************)
(* The invariants of module AugmentationPipeline, for any managers,        *)
(* requests, waits and sizes: its types, the permits of the semaphores     *)
(* (WorkersBound), the place and the order of the writes (OnePlace,        *)
(* StoredInOrder) and what a wait that returns True promises.              *)
(***************************************************************************)
EXTENDS AugmentationPipeline, ListProofs, FiniteSetTheorems,
        SequenceTheorems

-----------------------------------------------------------------------------
(* The inductive invariants.                                               *)

AtWork(g) == {r \in Requests : sem[r] = g /\ coro[r] \in {"open", "putting"}}

\* How far a request is for its caller, for the loop and in the list of
\* futures: a future is out of the list only before it is put there and after
\* its callback.
StageInv ==
  \A r \in Requests :
    /\ coro[r] = "none" <=> app[r] \in {"new", "refused", "skipped"}
    /\ coro[r] # "none" => free # <<>>
    /\ coro[r] \in {"parked", "open", "putting"} => sem[r] \in DOMAIN free
    /\ coro[r] \in {"none", "ready", "parked", "open"} => next[r] = 1
    /\ coro[r] = "putting" => next[r] \in 1..WritesPerRequest
    /\ coro[r] = "woken" => app[r] = "listed"
    /\ app[r] = "listed" /\ coro[r] # "finished" => r \in pending

LoopInv == TypeOK /\ StageInv /\ WorkersBound

\* The writes of one request are in their order within s, and those in the
\* set S come before those in U.
InOrder(s) ==
  \A i, j \in DOMAIN s : i < j /\ s[i][1] = s[j][1] => s[i][2] < s[j][2]
Before(S, U) == \A x \in S, y \in U : x[1] = y[1] => x[2] < y[2]

\* The way of a write is one line: stored, done, group, batch, queue.  So no
\* two of them hold the same write.
LineInv ==
  /\ InOrder(stored) /\ InOrder(done) /\ InOrder(group)
  /\ InOrder(batch) /\ InOrder(queue)
  /\ Before(In(stored), In(done) \cup In(group) \cup In(batch) \cup In(queue))
  /\ Before(In(done), In(group) \cup In(batch) \cup In(queue))
  /\ Before(In(group), In(batch) \cup In(queue))
  /\ Before(In(batch), In(queue))
  /\ writer # "exec" => group = <<>> /\ done = <<>>

OnTheWay ==
  In(stored) \cup In(done) \cup In(group) \cup In(batch) \cup In(queue)

\* What was handed over is on its way or lost, never both.
HandedInv ==
  /\ OnTheWay \cup lost = {t \in Task : t[2] < next[t[1]]}
  /\ OnTheWay \cap lost = {}

TaskInv == LineInv /\ HandedInv

\* What a wait has seen stays so: its requests are finished, and a finished
\* request puts nothing.
WaitInv ==
  \A w \in Waits :
    /\ \A r \in goal[w] : OwnerOf[r] = WaiterOf[w] /\ app[r] = "listed"
    /\ wait[w] \in {"queue", "sleep", "engine", "true"} =>
         \A r \in goal[w] : coro[r] = "finished"
    /\ wait[w] \in {"sleep", "engine", "true"} =>
         \A r \in goal[w] : \A i \in DOMAIN queue : queue[i][1] # r

-----------------------------------------------------------------------------
(* Types, permits and stages.                                              *)

\* Two lists put together hold what they held.
LEMMA JoinedElements ==
  ASSUME NEW S, NEW s \in Seq(S), NEW u \in Seq(S)
  PROVE  In(s \o u) = In(s) \cup In(u)
<1> DEFINE both == s \o u
<1>1. /\ Len(both) = Len(s) + Len(u) /\ both \in Seq(S)
      /\ \A i \in 1..Len(both) : both[i] = IF i <= Len(s) THEN s[i] ELSE u[i - Len(s)]
  BY ConcatProperties
<1>2. Len(s) \in Nat /\ Len(u) \in Nat
  OBVIOUS
<1>3. DOMAIN s = 1..Len(s) /\ DOMAIN u = 1..Len(u) /\ DOMAIN both = 1..Len(both)
  BY <1>1
<1> HIDE DEF both
<1>4. ASSUME NEW i \in 1..Len(both) PROVE both[i] \in In(s) \cup In(u)
  <2>1. CASE i <= Len(s)
    BY <1>1, <1>2, <1>3, <1>4, <2>1 DEF In
  <2>2. CASE i > Len(s)
    <3>1. i - Len(s) \in 1..Len(u)
      BY <1>1, <1>2, <1>4, <2>2
    <3>2. both[i] = u[i - Len(s)]
      BY <1>1, <1>2, <1>4, <2>2
    <3> QED BY <1>3, <3>1, <3>2 DEF In
  <2> QED BY <1>2, <2>1, <2>2
<1>5. ASSUME NEW i \in 1..Len(s) PROVE s[i] \in In(both)
  <2>1. i \in 1..Len(both) /\ i <= Len(s)
    BY <1>1, <1>2
  <2>2. both[i] = s[i]
    BY <1>1, <2>1
  <2> QED BY <1>3, <2>1, <2>2 DEF In
<1>6. ASSUME NEW i \in 1..Len(u) PROVE u[i] \in In(both)
  <2>1. Len(s) + i \in 1..Len(both) /\ ~(Len(s) + i <= Len(s)) /\ (Len(s) + i) - Len(s) = i
    BY <1>1, <1>2
  <2>2. both[Len(s) + i] = u[i]
    BY <1>1, <2>1
  <2> QED BY <1>3, <2>1, <2>2 DEF In
<1>7. In(both) = In(s) \cup In(u)
  BY <1>3, <1>4, <1>5, <1>6 DEF In
<1> QED BY <1>7 DEF both

\* The parts of TypeOK, each about the variables that one thread writes.
CallerTypes ==
  /\ started \subseteq Managers /\ active \subseteq started
  /\ exhausted \subseteq Managers
  /\ pending \subseteq Requests /\ swaps \in Nat
  /\ app \in [Requests -> {"new", "refused", "skipped", "scheduled", "listed"}]
LoopTypes ==
  /\ overQuota \subseteq Requests /\ free \in Seq(0..MaxWorkers)
  /\ coro \in [Requests -> {"none", "ready", "parked", "open", "putting",
                            "returned", "woken", "finished"}]
  /\ sem \in [Requests -> 0..Len(free)]
  /\ next \in [Requests -> 1..WritesPerRequest + 1]
WriterTypes ==
  /\ queue \in Seq(Task) /\ Len(queue) <= QueueSize
  /\ batch \in Seq(Task) /\ Len(batch) <= BatchSize
  /\ group \in Seq(Task) /\ done \in Seq(Task) /\ stored \in Seq(Task)
  /\ lost \subseteq Task
  /\ writer \in {"collect", "group", "exec", "exit", "pause"}
WaitTypes ==
  /\ wait \in [Waits -> {"idle", "futures", "queue", "sleep", "engine",
                         "true", "false"}]
  /\ waitFor \in [Waits -> SUBSET Requests]
  /\ goal \in [Waits -> SUBSET Requests]

LEMMA TypeParts == TypeOK <=> CallerTypes /\ LoopTypes /\ WriterTypes /\ WaitTypes
BY DEF TypeOK, CallerTypes, LoopTypes, WriterTypes, WaitTypes

LEMMA Sizes ==
  /\ WritesPerRequest \in Nat \ {0} /\ MaxWorkers \in Nat \ {0}
  /\ BatchSize \in Nat \ {0} /\ QueueSize \in Nat \ {0}
BY PipelineAssumption

LEMMA AtWorkIsFinite ==
  ASSUME NEW g
  PROVE  IsFiniteSet(AtWork(g)) /\ Cardinality(AtWork(g)) \in Nat
<1>1. AtWork(g) \in SUBSET Requests
  BY DEF AtWork
<1> QED BY <1>1, PipelineAssumption, FS_Subset, FS_CardinalityType

LEMMA PermitsAreNumbers == LoopTypes => \A g \in DOMAIN free : free[g] \in Nat
<1> SUFFICES ASSUME LoopTypes, NEW g \in DOMAIN free PROVE free[g] \in Nat
  OBVIOUS
<1>1. free \in Seq(0..MaxWorkers) /\ g \in 1..Len(free)
  BY DEF LoopTypes
<1>2. free[g] \in 0..MaxWorkers
  BY <1>1, ElementOfSeq
<1> QED BY <1>2, Sizes

\* WorkersBound with the set of workers by its name.
LEMMA Permits ==
  WorkersBound <=>
    \A g \in DOMAIN free : free[g] + Cardinality(AtWork(g)) = MaxWorkers
BY DEF WorkersBound, AtWork

LEMMA PermitsNext ==
  WorkersBound' <=>
    \A g \in DOMAIN free' : free'[g] + Cardinality(AtWork(g)') = MaxWorkers
BY DEF WorkersBound, AtWork

\* The permits of a semaphore nobody is at work on are all there.
LEMMA PermitsStay ==
  ASSUME WorkersBound, free' = free, sem' = sem,
         \A r \in Requests : coro'[r] \in {"open", "putting"}
                            <=> coro[r] \in {"open", "putting"}
  PROVE  WorkersBound'
<1>1. \A g : AtWork(g)' = AtWork(g)
  BY DEF AtWork
<1> QED BY <1>1, Permits, PermitsNext

LEMMA PermitTaken ==
  ASSUME WorkersBound, LoopTypes, NEW r \in Requests, NEW g \in DOMAIN free,
         coro[r] \notin {"open", "putting"}, free[g] > 0,
         free' = [free EXCEPT ![g] = @ - 1],
         sem' = [sem EXCEPT ![r] = g], coro' = [coro EXCEPT ![r] = "open"]
  PROVE  WorkersBound' /\ free' \in Seq(0..MaxWorkers)
<1>1. /\ DOMAIN free' = DOMAIN free /\ free'[g] = free[g] - 1
      /\ \A h \in DOMAIN free : h # g => free'[h] = free[h]
  BY DEF LoopTypes
<1>2. AtWork(g)' = AtWork(g) \cup {r} /\ r \notin AtWork(g)
  BY DEF AtWork, LoopTypes
<1>3. \A h \in DOMAIN free : h # g => AtWork(h)' = AtWork(h)
  BY DEF AtWork, LoopTypes
<1>4. Cardinality(AtWork(g)') = Cardinality(AtWork(g)) + 1
  BY <1>2, AtWorkIsFinite, FS_AddElement
<1>5. \A h \in DOMAIN free' : free'[h] + Cardinality(AtWork(h)') = MaxWorkers
  <2>1. TAKE h \in DOMAIN free'
  <2>2. free[h] + Cardinality(AtWork(h)) = MaxWorkers /\ free[h] \in Nat
    BY <1>1, Permits, PermitsAreNumbers
  <2>3. Cardinality(AtWork(h)) \in Nat
    BY AtWorkIsFinite
  <2> QED BY <1>1, <1>3, <1>4, <2>2, <2>3, Sizes
<1>6. free' \in Seq(0..MaxWorkers)
  BY Sizes DEF LoopTypes
<1> QED BY <1>5, <1>6, PermitsNext

LEMMA PermitReturned ==
  ASSUME WorkersBound, LoopTypes, NEW r \in Requests, NEW how,
         how \notin {"open", "putting"},
         coro[r] \in {"open", "putting"}, sem[r] \in DOMAIN free,
         sem' = sem, Leave(r, how)
  PROVE  WorkersBound' /\ free' \in Seq(0..MaxWorkers)
<1> DEFINE g == sem[r]
<1>0. free' = [free EXCEPT ![g] = @ + 1] /\ coro' = [coro EXCEPT ![r] = how]
  BY DEF Leave
<1>1. /\ DOMAIN free' = DOMAIN free /\ free'[g] = free[g] + 1
      /\ \A h \in DOMAIN free : h # g => free'[h] = free[h]
  BY <1>0 DEF LoopTypes
<1>2. AtWork(g)' = AtWork(g) \ {r} /\ r \in AtWork(g)
  BY <1>0 DEF AtWork, LoopTypes
<1>3. \A h \in DOMAIN free : h # g => AtWork(h)' = AtWork(h)
  BY <1>0 DEF AtWork, LoopTypes
<1>4. Cardinality(AtWork(g)') = Cardinality(AtWork(g)) - 1
  BY <1>2, AtWorkIsFinite, FS_RemoveElement
<1>7. /\ Cardinality(AtWork(g)) \in Nat /\ Cardinality(AtWork(g)') \in Nat
      /\ free[g] \in Nat /\ free[g] + Cardinality(AtWork(g)) = MaxWorkers
  <2>1. Cardinality(AtWork(g)) \in Nat
    BY AtWorkIsFinite
  <2>2. AtWork(g)' \in SUBSET AtWork(g)
    BY <1>2
  <2>3. Cardinality(AtWork(g)') \in Nat
    BY <2>2, AtWorkIsFinite, FS_Subset, FS_CardinalityType
  <2>4. free[g] \in Nat
    BY PermitsAreNumbers
  <2> QED BY <2>1, <2>3, <2>4, Permits
<1>5. \A h \in DOMAIN free' : free'[h] + Cardinality(AtWork(h)') = MaxWorkers
  <2>1. TAKE h \in DOMAIN free'
  <2>2. free[h] + Cardinality(AtWork(h)) = MaxWorkers /\ free[h] \in Nat
    BY <1>1, Permits, PermitsAreNumbers
  <2>3. Cardinality(AtWork(h)) \in Nat
    BY AtWorkIsFinite
  <2> QED BY <1>1, <1>3, <1>4, <2>2, <2>3, <1>7, Sizes
<1>6. free' \in Seq(0..MaxWorkers)
  <2>1. free[g] + 1 \in 0..MaxWorkers
    BY <1>4, <1>7, Sizes
  <2> QED BY <2>1, <1>0 DEF LoopTypes
<1> QED BY <1>5, <1>6, PermitsNext

\* A new semaphore has all its permits: nobody can hold one of it.
LEMMA SemaphoreAdded ==
  ASSUME WorkersBound, LoopTypes, free' = Append(free, MaxWorkers),
         coro' = coro, sem' = sem
  PROVE  WorkersBound' /\ free' \in Seq(0..MaxWorkers) /\ Len(free') = Len(free) + 1
<1>1. /\ free' \in Seq(0..MaxWorkers) /\ Len(free') = Len(free) + 1
      /\ Len(free) \in Nat /\ free'[Len(free) + 1] = MaxWorkers
      /\ \A g \in DOMAIN free : free'[g] = free[g]
      /\ DOMAIN free' = DOMAIN free \cup {Len(free) + 1}
  BY Sizes DEF LoopTypes
<1>2. \A g : AtWork(g)' = AtWork(g)
  BY DEF AtWork
<1>3. AtWork(Len(free) + 1) = {}
  BY <1>1 DEF AtWork, LoopTypes
<1>4. \A g \in DOMAIN free' : free'[g] + Cardinality(AtWork(g)') = MaxWorkers
  <2>1. \A g : g = Len(free) + 1 => Cardinality(AtWork(g)') = 0
    BY <1>2, <1>3, FS_EmptySet
  <2>2. \A g \in DOMAIN free : free'[g] + Cardinality(AtWork(g)') = MaxWorkers
    BY <1>1, <1>2, Permits
  <2> QED BY <1>1, <2>1, <2>2, Sizes
<1> QED BY <1>1, <1>4, PermitsNext

\* What no step of the thread in question writes.
LEMMA Frames ==
  ASSUME LoopInv
  PROVE  /\ UNCHANGED <<started, active, exhausted, pending, swaps, app>> => CallerTypes'
         /\ UNCHANGED <<free, coro, sem, next, overQuota>> => LoopTypes' /\ WorkersBound'
         /\ UNCHANGED <<queue, writer, batch, group, done, stored, lost>> => WriterTypes'
         /\ UNCHANGED <<wait, waitFor, goal>> => WaitTypes'
         /\ UNCHANGED <<free, coro, sem, next, app, pending>> => StageInv'
<1>1. CallerTypes /\ LoopTypes /\ WriterTypes /\ WaitTypes /\ WorkersBound /\ StageInv
  BY TypeParts DEF LoopInv
<1>2. UNCHANGED <<started, active, exhausted, pending, swaps, app>> => CallerTypes'
  BY <1>1 DEF CallerTypes
<1>3. UNCHANGED <<free, coro, sem, next, overQuota>> => LoopTypes' /\ WorkersBound'
  BY <1>1, PermitsStay DEF LoopTypes
<1>4. UNCHANGED <<queue, writer, batch, group, done, stored, lost>> => WriterTypes'
  BY <1>1 DEF WriterTypes
<1>5. UNCHANGED <<wait, waitFor, goal>> => WaitTypes'
  BY <1>1 DEF WaitTypes
<1>6. UNCHANGED <<free, coro, sem, next, app, pending>> => StageInv'
  BY <1>1 DEF StageInv
<1> QED BY <1>2, <1>3, <1>4, <1>5, <1>6

LEMMA LoopInvParts ==
  /\ LoopInv <=> CallerTypes /\ LoopTypes /\ WriterTypes /\ WaitTypes /\ StageInv /\ WorkersBound
  /\ LoopInv' <=> /\ CallerTypes' /\ LoopTypes' /\ WriterTypes' /\ WaitTypes'
                 /\ StageInv' /\ WorkersBound'
<1>1. LoopInv <=> CallerTypes /\ LoopTypes /\ WriterTypes /\ WaitTypes /\ StageInv /\ WorkersBound
  BY TypeParts DEF LoopInv
<1> QED BY <1>1, PTL

LEMMA LoopInit == Init => LoopInv
<1> SUFFICES ASSUME Init PROVE LoopInv
  OBVIOUS
<1>1. CallerTypes
  BY DEF Init, CallerTypes
<1>2. LoopTypes
  BY Sizes DEF Init, LoopTypes
<1>3. WriterTypes
  BY Sizes DEF Init, WriterTypes
<1>4. WaitTypes
  BY DEF Init, WaitTypes
<1>5. StageInv
  BY Sizes DEF Init, StageInv
<1>6. WorkersBound
  BY DEF Init, WorkersBound
<1> QED BY <1>1, <1>2, <1>3, <1>4, <1>5, <1>6, LoopInvParts

\* start and enqueue.
LEMMA CallersKeepLoop ==
  ASSUME LoopInv,
         \/ \E m \in Managers : Start(m)
         \/ \E r \in Requests : EnqueueNext(r)
  PROVE  LoopInv'
<1>0. CallerTypes /\ LoopTypes /\ StageInv
  BY LoopInvParts
<1>1. ASSUME NEW m \in Managers, Start(m) PROVE LoopInv'
  <2>1. CallerTypes'
    BY <1>0, <1>1 DEF CallerTypes, Start
  <2> QED
    BY <1>1, <2>1, Frames, LoopInvParts DEF Start, loopVars, writerVars, waitVars
<1>2. ASSUME NEW r \in Requests, EnqueueRefuse(r) \/ EnqueueSkip(r) PROVE LoopInv'
  <2>1. CallerTypes'
    BY <1>0, <1>2 DEF CallerTypes, EnqueueRefuse, EnqueueSkip
  <2>2. StageInv'
    BY <1>0, <1>2 DEF CallerTypes, StageInv, EnqueueRefuse, EnqueueSkip, loopVars
  <2> QED
    BY <1>2, <2>1, <2>2, Frames, LoopInvParts
    DEF EnqueueRefuse, EnqueueSkip, loopVars, writerVars, waitVars
<1>3. ASSUME NEW r \in Requests, EnqueueSchedule(r) PROVE LoopInv'
  <2>0. coro[r] = "none"
    BY <1>0, <1>3 DEF EnqueueSchedule, StageInv
  <2>1. CallerTypes'
    BY <1>0, <1>3 DEF CallerTypes, EnqueueSchedule
  <2>2. StageInv'
    BY <1>0, <1>3, <2>0 DEF CallerTypes, LoopTypes, StageInv, EnqueueSchedule
  <2>3. LoopTypes'
    BY <1>0, <1>3 DEF LoopTypes, EnqueueSchedule
  <2>4. WorkersBound'
    BY <1>0, <1>3, <2>0, PermitsStay, LoopInvParts DEF LoopTypes, EnqueueSchedule
  <2> QED
    BY <1>3, <2>1, <2>2, <2>3, <2>4, Frames, LoopInvParts
    DEF EnqueueSchedule, writerVars, waitVars
<1>4. ASSUME NEW r \in Requests, EnqueueList(r) PROVE LoopInv'
  <2>1. CallerTypes'
    <3>1. OwnerOf[r] \in Managers
      BY PipelineAssumption
    <3>2. exhausted' \subseteq Managers /\ active' \subseteq started
      BY <1>0, <1>4, <3>1 DEF CallerTypes, EnqueueList, NoteQuota
    <3>3. /\ pending' \subseteq Requests /\ app' = [app EXCEPT ![r] = "listed"]
          /\ started' = started /\ swaps' = swaps
      BY <1>0, <1>4 DEF CallerTypes, EnqueueList
    <3> QED BY <1>0, <3>2, <3>3 DEF CallerTypes
  <2>2. StageInv'
    BY <1>0, <1>4 DEF CallerTypes, StageInv, EnqueueList, loopVars
  <2> QED
    BY <1>4, <2>1, <2>2, Frames, LoopInvParts
    DEF EnqueueList, loopVars, writerVars, waitVars
<1> QED BY <1>1, <1>2, <1>3, <1>4 DEF EnqueueNext

\* The start of the event loop and the semaphores that replace the first.
LEMMA SemaphoresKeepLoop ==
  ASSUME LoopInv, LoopReady \/ SwapSemaphore
  PROVE  LoopInv'
<1>0. CallerTypes /\ LoopTypes /\ StageInv /\ WorkersBound
  BY LoopInvParts
<1>1. free' = Append(free, MaxWorkers) /\ UNCHANGED <<coro, sem, next, overQuota, app, pending>>
  <2>1. CASE LoopReady
    <3>1. free' = <<MaxWorkers>> /\ free = <<>>
      BY <2>1 DEF LoopReady
    <3>2. UNCHANGED <<coro, sem, next, overQuota, app, pending>>
      BY <2>1 DEF LoopReady, appVars
    <3> QED BY <3>1, <3>2, Sizes
  <2>2. CASE SwapSemaphore
    BY <2>2 DEF SwapSemaphore, appVars
  <2> QED BY <2>1, <2>2
<1>2. WorkersBound' /\ free' \in Seq(0..MaxWorkers) /\ Len(free') = Len(free) + 1
  BY <1>0, <1>1, SemaphoreAdded
<1>3. LoopTypes'
  BY <1>0, <1>1, <1>2 DEF LoopTypes
<1>4. StageInv'
  BY <1>0, <1>1, <1>2 DEF StageInv, LoopTypes
<1>5. CallerTypes'
  BY <1>0 DEF CallerTypes, LoopReady, SwapSemaphore, appVars
<1> QED
  BY <1>2, <1>3, <1>4, <1>5, Frames, LoopInvParts
  DEF LoopReady, SwapSemaphore, writerVars, waitVars

\* The coroutine of a request, up to the answer of the API.
LEMMA CoroutinesKeepLoop ==
  ASSUME LoopInv, NEW r \in Requests,
         CoroStart(r) \/ CoroAcquire(r) \/ ApiReply(r)
  PROVE  LoopInv'
<1>0. CallerTypes /\ LoopTypes /\ StageInv /\ WorkersBound
  BY LoopInvParts
<1>1. CallerTypes' /\ WriterTypes' /\ WaitTypes'
  BY Frames DEF CoroStart, CoroAcquire, ApiReply, appVars, writerVars, waitVars
<1>2. CASE CoroStart(r)
  <2> DEFINE g == Len(free)
  <2>1. free # <<>> /\ g \in DOMAIN free /\ coro[r] = "ready" /\ sem' = [sem EXCEPT ![r] = g]
    BY <1>0, <1>2 DEF CoroStart, StageInv, LoopTypes
  <2>2. CASE free[g] > 0
    <3>1. free' = [free EXCEPT ![g] = @ - 1] /\ coro' = [coro EXCEPT ![r] = "open"]
      BY <1>2, <2>2 DEF CoroStart
    <3>2. WorkersBound' /\ free' \in Seq(0..MaxWorkers)
      BY <1>0, <2>1, <2>2, <3>1, PermitTaken
    <3>3. Len(free') = Len(free) /\ DOMAIN free' = DOMAIN free
      BY <1>0, <3>1 DEF LoopTypes
    <3>4. LoopTypes'
      BY <1>0, <1>2, <2>1, <3>1, <3>2, <3>3 DEF LoopTypes, CoroStart
    <3>5. StageInv'
      BY <1>0, <1>2, <2>1, <3>1, <3>3 DEF LoopTypes, StageInv, CoroStart, appVars
    <3> QED BY <1>1, <3>2, <3>4, <3>5, LoopInvParts
  <2>3. CASE ~(free[g] > 0)
    <3>1. free' = free /\ coro' = [coro EXCEPT ![r] = "parked"]
      BY <1>2, <2>3 DEF CoroStart
    <3>2. WorkersBound'
      <4>1. \A h : AtWork(h)' = AtWork(h)
        BY <1>0, <2>1, <3>1 DEF AtWork, LoopTypes
      <4> QED BY <1>0, <3>1, <4>1, Permits, PermitsNext
    <3>4. LoopTypes'
      BY <1>0, <1>2, <2>1, <3>1 DEF LoopTypes, CoroStart
    <3>5. StageInv'
      BY <1>0, <1>2, <2>1, <3>1 DEF LoopTypes, StageInv, CoroStart, appVars
    <3> QED BY <1>1, <3>2, <3>4, <3>5, LoopInvParts
  <2> QED BY <2>2, <2>3
<1>3. CASE CoroAcquire(r)
  <2> DEFINE g == sem[r]
  <2>1. /\ g \in DOMAIN free /\ coro[r] = "parked" /\ free[g] > 0
        /\ free' = [free EXCEPT ![g] = @ - 1] /\ coro' = [coro EXCEPT ![r] = "open"]
        /\ sem' = sem
    BY <1>0, <1>3 DEF CoroAcquire, StageInv
  <2>2. sem' = [sem EXCEPT ![r] = g]
    BY <1>0, <2>1 DEF LoopTypes
  <2>3. WorkersBound' /\ free' \in Seq(0..MaxWorkers)
    BY <1>0, <2>1, <2>2, PermitTaken
  <2>4. Len(free') = Len(free) /\ DOMAIN free' = DOMAIN free
    BY <1>0, <2>1 DEF LoopTypes
  <2>5. LoopTypes'
    BY <1>0, <1>3, <2>1, <2>3, <2>4 DEF LoopTypes, CoroAcquire
  <2>6. StageInv'
    BY <1>0, <1>3, <2>1, <2>4 DEF LoopTypes, StageInv, CoroAcquire, appVars
  <2> QED BY <1>1, <2>3, <2>5, <2>6, LoopInvParts
<1>4. CASE ApiReply(r)
  <2>1. /\ coro[r] = "open" /\ sem' = sem /\ next' = next /\ app' = app
        /\ pending' = pending /\ sem[r] \in DOMAIN free /\ overQuota' \subseteq Requests
    BY <1>0, <1>4 DEF ApiReply, StageInv, appVars, LoopTypes
  <2>2. CASE coro' = [coro EXCEPT ![r] = "putting"] /\ UNCHANGED free
    <3>1. WorkersBound'
      BY <1>0, <2>1, <2>2, PermitsStay DEF LoopTypes
    <3>2. LoopTypes'
      BY <1>0, <2>1, <2>2 DEF LoopTypes
    <3>3. StageInv'
      BY <1>0, <2>1, <2>2, Sizes DEF LoopTypes, StageInv
    <3> QED BY <1>1, <3>1, <3>2, <3>3, LoopInvParts
  <2>3. CASE Leave(r, "returned")
    <3>1. WorkersBound' /\ free' \in Seq(0..MaxWorkers)
      BY <1>0, <2>1, <2>3, PermitReturned
    <3>2. Len(free') = Len(free) /\ DOMAIN free' = DOMAIN free
      BY <1>0, <2>3 DEF LoopTypes, Leave
    <3>3. LoopTypes'
      BY <1>0, <2>1, <2>3, <3>1, <3>2 DEF LoopTypes, Leave
    <3>4. StageInv'
      BY <1>0, <2>1, <2>3, <3>2 DEF LoopTypes, StageInv, Leave
    <3> QED BY <1>1, <3>1, <3>3, <3>4, LoopInvParts
  <2> QED BY <1>4, <2>2, <2>3 DEF ApiReply
<1> QED BY <1>2, <1>3, <1>4

\* The end of a put, whether the queue took the write or not.
LEMMA PutKeepsLoop ==
  ASSUME LoopInv, NEW r \in Requests, PutStep(r)
  PROVE  LoopInv'
<1>0. CallerTypes /\ LoopTypes /\ StageInv /\ WorkersBound /\ WriterTypes
  BY LoopInvParts
<1>1. CallerTypes' /\ WaitTypes'
  BY Frames DEF PutStep, Put, PutTimeout, appVars, writerVars, waitVars
<1>2. /\ coro[r] = "putting" /\ next[r] \in 1..WritesPerRequest /\ sem[r] \in DOMAIN free
      /\ PutNext(r) /\ UNCHANGED <<app, pending, sem, overQuota>>
      /\ next' = [next EXCEPT ![r] = @ + 1]
  BY <1>0 DEF PutStep, Put, PutTimeout, StageInv, appVars, PutNext
<1>3. <<r, next[r]>> \in Task
  BY <1>2 DEF Task
<1>4. WriterTypes'
  <2>1. ASSUME Put(r) PROVE WriterTypes'
    <3>1. queue' = Append(queue, <<r, next[r]>>) /\ Len(queue) < QueueSize
      BY <2>1 DEF Put
    <3>2. queue' \in Seq(Task) /\ Len(queue') = Len(queue) + 1 /\ Len(queue) \in Nat
      BY <1>0, <1>3, <3>1 DEF WriterTypes
    <3>3. Len(queue') <= QueueSize
      BY <3>1, <3>2, Sizes
    <3> QED BY <1>0, <2>1, <3>2, <3>3 DEF WriterTypes, Put, writerVars
  <2>2. ASSUME PutTimeout(r) PROVE WriterTypes'
    BY <1>0, <1>3, <2>2 DEF WriterTypes, PutTimeout, writerVars
  <2> QED BY <2>1, <2>2 DEF PutStep
<1>5. CASE next[r] = WritesPerRequest
  <2>0. Leave(r, "returned")
    BY <1>2, <1>5 DEF PutNext
  <2>1. WorkersBound' /\ free' \in Seq(0..MaxWorkers)
    BY <1>0, <1>2, <2>0, PermitReturned
  <2>2. Len(free') = Len(free) /\ DOMAIN free' = DOMAIN free
    BY <1>0, <2>0 DEF LoopTypes, Leave
  <2>3. LoopTypes'
    BY <1>0, <1>2, <2>0, <2>1, <2>2, Sizes DEF LoopTypes, Leave
  <2>4. StageInv'
    BY <1>0, <1>2, <2>0, <2>2 DEF LoopTypes, StageInv, Leave
  <2> QED BY <1>1, <1>4, <2>1, <2>3, <2>4, LoopInvParts
<1>6. CASE next[r] # WritesPerRequest
  <2>0. UNCHANGED <<coro, free>>
    BY <1>2, <1>6 DEF PutNext
  <2>1. WorkersBound'
    BY <1>0, <1>2, <2>0, PermitsStay
  <2>3. LoopTypes'
    BY <1>0, <1>2, <2>0, Sizes DEF LoopTypes
  <2>4. StageInv'
    BY <1>0, <1>2, <1>6, <2>0, Sizes DEF LoopTypes, StageInv
  <2> QED BY <1>1, <1>4, <2>1, <2>3, <2>4, LoopInvParts
<1> QED BY <1>5, <1>6

\* The end of a request: its future, then the callback of the future.
LEMMA FuturesKeepLoop ==
  ASSUME LoopInv, NEW r \in Requests, FutureDone(r) \/ Callback(r)
  PROVE  LoopInv'
<1>0. CallerTypes /\ LoopTypes /\ StageInv /\ WorkersBound
  BY LoopInvParts
<1>1. WriterTypes' /\ WaitTypes'
  BY Frames DEF FutureDone, Callback, writerVars, waitVars
<1>2. CASE FutureDone(r)
  <2> DEFINE to == IF app[r] = "listed" THEN "woken" ELSE "finished"
  <2>1. /\ coro[r] = "returned" /\ coro' = [coro EXCEPT ![r] = to]
        /\ to \in {"woken", "finished"} /\ (to = "woken" <=> app[r] = "listed")
        /\ UNCHANGED <<started, active, exhausted, app, swaps, pending, sem, next, free, overQuota>>
    BY <1>2 DEF FutureDone, appVars
  <2> HIDE DEF to
  <2>2. LoopTypes'
    BY <1>0, <2>1 DEF LoopTypes
  <2>3. WorkersBound'
    BY <1>0, <2>1, PermitsStay DEF LoopTypes
  <2>4. StageInv'
    BY <1>0, <2>1 DEF LoopTypes, StageInv
  <2> QED BY <1>1, <2>1, <2>2, <2>3, <2>4, Frames, LoopInvParts
<1>3. CASE Callback(r)
  <2>1. /\ coro[r] = "woken" /\ coro' = [coro EXCEPT ![r] = "finished"]
        /\ pending' = pending \ {r}
        /\ UNCHANGED <<started, app, swaps, sem, next, free, overQuota>>
    BY <1>3 DEF Callback
  <2>2. LoopTypes'
    BY <1>0, <2>1 DEF LoopTypes
  <2>3. WorkersBound'
    BY <1>0, <2>1, PermitsStay DEF LoopTypes
  <2>4. StageInv'
    BY <1>0, <2>1 DEF LoopTypes, StageInv
  <2>5. CallerTypes'
    <3>1. OwnerOf[r] \in Managers
      BY PipelineAssumption
    <3>2. exhausted' \subseteq Managers /\ active' \subseteq started
      BY <1>0, <1>3, <3>1 DEF CallerTypes, Callback, NoteQuota
    <3> QED BY <1>0, <2>1, <3>2 DEF CallerTypes
  <2> QED BY <1>1, <2>2, <2>3, <2>4, <2>5, LoopInvParts
<1> QED BY <1>2, <1>3

\* What the writer does at a connection: it moves the writes k to the stored
\* ones, leaves o in the open transaction and g in the group.
Passes(k, o, g) ==
  /\ stored' = stored \o k /\ done' = o /\ group' = g
  /\ UNCHANGED <<queue, batch, next>>
  /\ writer' \in {"exec", "exit"}
  /\ writer' # "exec" => o = <<>> /\ g = <<>>

LEMMA PassesOn ==
  ASSUME WriterTypes
  PROVE  /\ TaskExecute =>
              \E k \in Seq(Task), o \in Seq(Task) :
                /\ Passes(k, o, Tail(group)) /\ lost' = lost
                /\ group # <<>> /\ Tail(group) \in Seq(Task)
                /\ \/ k = Append(done, Head(group)) /\ o = <<>>
                   \/ k = done /\ o = <<Head(group)>>
                   \/ k = <<>> /\ o = Append(done, Head(group))
         /\ GroupCommit => Passes(done, <<>>, <<>>) /\ group = <<>> /\ lost' = lost
         /\ TaskFail \/ GroupCommitFail =>
              \E k \in Seq(Task) :
                /\ Passes(k, <<>>, <<>>)
                /\ lost' = lost \cup ((In(done) \cup In(group)) \ In(k))
                /\ \/ k = <<>> \/ k = done
                   \/ group # <<>> /\ k = Append(done, Head(group))
         /\ TaskExecute \/ TaskFail \/ GroupCommit \/ GroupCommitFail =>
              \E k \in Seq(Task), o \in Seq(Task), g \in Seq(Task) :
                Passes(k, o, g) /\ lost' \subseteq Task
<1>0. /\ done \in Seq(Task) /\ group \in Seq(Task) /\ stored \in Seq(Task)
      /\ lost \subseteq Task /\ <<>> \in Seq(Task)
  BY DEF WriterTypes
<1>5. stored = stored \o <<>>
  BY <1>0, ConcatEmptySeq
<1>6. group # <<>> => /\ Tail(group) \in Seq(Task) /\ Append(done, Head(group)) \in Seq(Task)
                      /\ <<Head(group)>> \in Seq(Task)
  BY <1>0
<1>1. ASSUME TaskExecute
      PROVE  \E k \in Seq(Task), o \in Seq(Task) :
               /\ Passes(k, o, Tail(group)) /\ lost' = lost
               /\ group # <<>> /\ Tail(group) \in Seq(Task)
               /\ \/ k = Append(done, Head(group)) /\ o = <<>>
                  \/ k = done /\ o = <<Head(group)>>
                  \/ k = <<>> /\ o = Append(done, Head(group))
  <2>1. /\ group # <<>> /\ group' = Tail(group) /\ writer' = "exec"
        /\ UNCHANGED <<queue, batch, next, lost>>
    BY <1>1 DEF TaskExecute, loopVars
  <2>2. \/ stored' = stored \o Append(done, Head(group)) /\ done' = <<>>
        \/ stored' = stored \o done /\ done' = <<Head(group)>>
        \/ stored' = stored /\ done' = Append(done, Head(group))
    BY <1>1 DEF TaskExecute
  <2>3. CASE stored' = stored \o Append(done, Head(group)) /\ done' = <<>>
    <3>1. Passes(Append(done, Head(group)), <<>>, Tail(group))
      BY <2>1, <2>3 DEF Passes
    <3> QED BY <1>0, <1>6, <2>1, <3>1
  <2>4. CASE stored' = stored \o done /\ done' = <<Head(group)>>
    <3>1. Passes(done, <<Head(group)>>, Tail(group))
      BY <2>1, <2>4 DEF Passes
    <3> QED BY <1>0, <1>6, <2>1, <3>1
  <2>5. CASE stored' = stored /\ done' = Append(done, Head(group))
    <3>1. Passes(<<>>, Append(done, Head(group)), Tail(group))
      BY <1>5, <2>1, <2>5 DEF Passes
    <3> QED BY <1>0, <1>6, <2>1, <3>1
  <2> QED BY <2>2, <2>3, <2>4, <2>5
<1>2. ASSUME GroupCommit
      PROVE  Passes(done, <<>>, <<>>) /\ group = <<>> /\ lost' = lost
  BY <1>2 DEF GroupCommit, Passes, loopVars
<1>3. ASSUME TaskFail \/ GroupCommitFail
      PROVE  \E k \in Seq(Task) :
               /\ Passes(k, <<>>, <<>>)
               /\ lost' = lost \cup ((In(done) \cup In(group)) \ In(k))
               /\ \/ k = <<>> \/ k = done
                  \/ group # <<>> /\ k = Append(done, Head(group))
  <2>1. \E k : /\ Rollback(k)
               /\ \/ k = <<>> \/ k = done
                  \/ group # <<>> /\ k = Append(done, Head(group))
    <3>1. CASE GroupCommitFail
      BY <3>1 DEF GroupCommitFail
    <3>2. CASE TaskFail
      <4>1. group # <<>> /\ \E k \in Settled(Head(group)) : Rollback(k)
        BY <3>2 DEF TaskFail
      <4>2. \A k \in Settled(Head(group)) :
              k = <<>> \/ k = done \/ k = Append(done, Head(group))
        <5>1. Commits(Head(group)) \in {"end", "midway", "never"}
          <6>1. Head(group) \in Task
            BY <1>0, <4>1
          <6>2. Head(group)[1] \in Requests /\ Head(group)[2] \in 1..WritesPerRequest
            BY <6>1 DEF Task
          <6>3. OwnerOf[Head(group)[1]] \in Managers
            BY <6>2, PipelineAssumption
          <6> QED BY <6>2, <6>3, PipelineAssumption DEF Commits, Factory
        <5> QED BY <5>1 DEF Settled
      <4> QED BY <4>1, <4>2
    <3> QED BY <1>3, <3>1, <3>2
  <2>2. PICK k : /\ Rollback(k)
                 /\ \/ k = <<>> \/ k = done
                    \/ group # <<>> /\ k = Append(done, Head(group))
    BY <2>1
  <2>3. k \in Seq(Task)
    BY <1>0, <1>6, <2>2
  <2>4. ToSet(k) = In(k) /\ ToSet(done \o group) = In(done) \cup In(group)
    <3>1. In(done \o group) = In(done) \cup In(group)
      BY <1>0, JoinedElements
    <3> QED BY <3>1 DEF ToSet, In
  <2>5. Passes(k, <<>>, <<>>)
    BY <2>2 DEF Rollback, Passes, loopVars
  <2>6. lost' = lost \cup ((In(done) \cup In(group)) \ In(k))
    BY <2>2, <2>4 DEF Rollback
  <2> QED BY <2>2, <2>3, <2>5, <2>6
<1>4. ASSUME TaskExecute \/ TaskFail \/ GroupCommit \/ GroupCommitFail
      PROVE  \E k \in Seq(Task), o \in Seq(Task), g \in Seq(Task) :
               Passes(k, o, g) /\ lost' \subseteq Task
  <2>1. In(done) \cup In(group) \subseteq Task
    BY <1>0, Elements
  <2> QED BY <1>0, <1>1, <1>2, <1>3, <1>4, <2>1
<1> QED BY <1>1, <1>2, <1>3, <1>4

LEMMA WriterKeepsLoop ==
  ASSUME LoopInv, WriterNext
  PROVE  LoopInv'
<1>0. WriterTypes
  BY LoopInvParts
<1>1. UNCHANGED <<appVars, pending, loopVars, swaps, waitVars>>
  BY DEF WriterNext, CollectGet, CollectEnd, GroupOpen, TaskExecute, TaskFail,
         GroupCommit, GroupCommitFail, Rollback, GroupClose, WriterAbort, WriterResume
<1>2. SUFFICES WriterTypes'
  BY <1>1, Frames, LoopInvParts DEF appVars, loopVars, waitVars
<1>3. CASE CollectGet
  <2>1. /\ queue \in Seq(Task) /\ queue # <<>> /\ Len(batch) < BatchSize
        /\ batch' = Append(batch, Head(queue)) /\ queue' = Tail(queue)
    BY <1>0, <1>3 DEF CollectGet, WriterTypes
  <2>2. /\ queue' \in Seq(Task) /\ Len(queue') <= QueueSize /\ Head(queue) \in Task
    BY <1>0, <2>1, Sizes DEF WriterTypes
  <2>3. batch' \in Seq(Task) /\ Len(batch') <= BatchSize
    BY <1>0, <2>1, <2>2, Sizes DEF WriterTypes
  <2> QED BY <1>0, <1>3, <2>2, <2>3 DEF CollectGet, WriterTypes
<1>4. CASE CollectEnd \/ GroupClose \/ WriterResume
  BY <1>0, <1>4 DEF CollectEnd, GroupClose, WriterResume, WriterTypes
<1>5. CASE GroupOpen
  <2> DEFINE mine == TasksOf(Factory(Head(batch)))
  <2>1. group' = Only(batch, mine) /\ batch' = Only(batch, Task \ mine)
    BY <1>5 DEF GroupOpen
  <2> HIDE DEF mine
  <2>2. group' \in Seq(Task) /\ batch' \in Seq(Task) /\ Len(batch') <= Len(batch)
    BY <1>0, <2>1, OnlySelects, OnlyIsNoLonger DEF WriterTypes
  <2>3. Len(batch') <= BatchSize
    BY <1>0, <2>2, Sizes DEF WriterTypes
  <2> QED BY <1>0, <1>5, <2>2, <2>3 DEF GroupOpen, WriterTypes
<1>6. CASE TaskExecute \/ TaskFail \/ GroupCommit \/ GroupCommitFail
  <2>1. PICK k \in Seq(Task), o \in Seq(Task), g \in Seq(Task) :
          Passes(k, o, g) /\ lost' \subseteq Task
    BY <1>0, <1>6, PassesOn
  <2>2. stored' \in Seq(Task)
    BY <1>0, <2>1, ConcatProperties DEF WriterTypes, Passes
  <2> QED BY <1>0, <2>1, <2>2 DEF WriterTypes, Passes
<1>8. CASE WriterAbort
  BY <1>0, <1>8, Sizes DEF WriterAbort, WriterTypes, ToSet
<1> QED BY <1>3, <1>4, <1>5, <1>6, <1>8 DEF WriterNext

LEMMA WaitersKeepLoop ==
  ASSUME LoopInv, NEW w \in Waits, WaitNext(w)
  PROVE  LoopInv'
<1>0. WaitTypes /\ CallerTypes
  BY LoopInvParts
<1>1. UNCHANGED <<appVars, pending, loopVars, swaps, queue, writerVars, lost>>
  BY DEF WaitNext, WaitCall, WaitFutures, WaitQueueEmpty, WaitQueueExpired, WaitSlept,
         WaitEngine, WaitMove
<1>2. WaitTypes'
  <2>1. CASE WaitCall(w)
    <3>1. PendingOf(WaiterOf[w]) \subseteq Requests
      BY <1>0 DEF CallerTypes, PendingOf
    <3> QED BY <1>0, <2>1, <3>1 DEF WaitCall, WaitMove, WaitTypes
  <2>2. CASE WaitFutures(w)
    BY <1>0, <2>2 DEF WaitFutures, WaitMove, WaitTypes
  <2>3. CASE WaitQueueEmpty(w) \/ WaitQueueExpired(w) \/ WaitSlept(w) \/ WaitEngine(w)
    BY <1>0, <2>3 DEF WaitQueueEmpty, WaitQueueExpired, WaitSlept, WaitEngine,
           WaitMove, WaitTypes
  <2> QED BY <2>1, <2>2, <2>3 DEF WaitNext
<1> QED
  BY <1>1, <1>2, Frames, LoopInvParts DEF appVars, loopVars, writerVars

LEMMA LoopStep == LoopInv /\ [Next]_vars => LoopInv'
<1> SUFFICES ASSUME LoopInv, [Next]_vars PROVE LoopInv'
  OBVIOUS
<1>1. CASE UNCHANGED vars
  BY <1>1, Frames, LoopInvParts DEF vars
<1>2. CASE Next
  BY <1>2, CallersKeepLoop, SemaphoresKeepLoop, CoroutinesKeepLoop, PutKeepsLoop,
     FuturesKeepLoop, WriterKeepsLoop, WaitersKeepLoop
  DEF Next, CoroNext
<1> QED BY <1>1, <1>2

\* The types, the stages and the permits hold in every reachable state.
THEOREM LoopIsSound == Spec => []LoopInv
<1>1. Init => LoopInv
  BY LoopInit
<1>2. LoopInv /\ [Next]_vars => LoopInv'
  BY LoopStep
<1> QED BY <1>1, <1>2, PTL DEF Spec

\* Every variable keeps its shape, and queue and batch their bounds, for any
\* sizes.
THEOREM PipelineTypes == Spec => []TypeOK
<1>1. LoopInv => TypeOK
  BY DEF LoopInv
<1> QED BY <1>1, LoopIsSound, PTL

\* The permits of each semaphore are accounted for: however managers start
\* and replace it, no more than MaxWorkers coroutines are at work on one.
THEOREM PermitsAreKept == Spec => []WorkersBound
<1>1. LoopInv => WorkersBound
  BY DEF LoopInv
<1> QED BY <1>1, LoopIsSound, PTL

-----------------------------------------------------------------------------
(* The place and the order of the writes.                                  *)

\* What keeps a list in order.
LEMMA OrderIsKept ==
  ASSUME NEW s \in Seq(Task), InOrder(s)
  PROVE  /\ InOrder(<<>>)
         /\ \A x \in Task : Before(In(s), {x}) => InOrder(Append(s, x))
         /\ s # <<>> => InOrder(Tail(s)) /\ Before({Head(s)}, In(Tail(s)))
         /\ \A T : InOrder(Only(s, T)) /\ In(Only(s, T)) = In(s) \cap T
<1>1. InOrder(<<>>)
  BY DEF InOrder
<1>2. ASSUME NEW x \in Task, Before(In(s), {x}) PROVE InOrder(Append(s, x))
  <2>1. /\ DOMAIN Append(s, x) = 1..(Len(s) + 1) /\ Len(s) \in Nat /\ DOMAIN s = 1..Len(s)
        /\ Append(s, x)[Len(s) + 1] = x
        /\ \A i \in 1..Len(s) : Append(s, x)[i] = s[i] /\ s[i] \in In(s)
    BY DEF In
  <2>2. ASSUME NEW i \in DOMAIN Append(s, x), NEW j \in DOMAIN Append(s, x), i < j,
               Append(s, x)[i][1] = Append(s, x)[j][1]
        PROVE  Append(s, x)[i][2] < Append(s, x)[j][2]
    <3>1. i \in 1..Len(s)
      BY <2>1, <2>2
    <3>2. CASE j = Len(s) + 1
      BY <1>2, <2>1, <2>2, <3>1, <3>2 DEF Before
    <3>3. CASE j \in 1..Len(s)
      BY <2>1, <2>2, <3>1, <3>3 DEF InOrder
    <3> QED BY <2>1, <3>2, <3>3
  <2> QED BY <2>2 DEF InOrder
<1>3. ASSUME s # <<>> PROVE InOrder(Tail(s)) /\ Before({Head(s)}, In(Tail(s)))
  <2>1. /\ Head(s) = s[1] /\ Len(s) \in Nat /\ 1 \in DOMAIN s
        /\ DOMAIN s = 1..Len(s) /\ DOMAIN Tail(s) = 1..(Len(s) - 1)
        /\ \A i \in DOMAIN Tail(s) : Tail(s)[i] = s[i + 1]
    BY <1>3
  <2>2. \A i \in DOMAIN Tail(s) : i \in Nat /\ i + 1 \in DOMAIN s /\ 1 < i + 1
    BY <2>1
  <2>3. InOrder(Tail(s))
    <3>1. ASSUME NEW i \in DOMAIN Tail(s), NEW j \in DOMAIN Tail(s), i < j,
                 Tail(s)[i][1] = Tail(s)[j][1]
          PROVE  Tail(s)[i][2] < Tail(s)[j][2]
      <4>1. i + 1 < j + 1 /\ i + 1 \in DOMAIN s /\ j + 1 \in DOMAIN s
        BY <2>2, <3>1
      <4>2. Tail(s)[i] = s[i + 1] /\ Tail(s)[j] = s[j + 1]
        BY <2>1
      <4> QED BY <3>1, <4>1, <4>2 DEF InOrder
    <3> QED BY <3>1 DEF InOrder
  <2>4. ASSUME NEW i \in DOMAIN Tail(s), Head(s)[1] = Tail(s)[i][1]
        PROVE  Head(s)[2] < Tail(s)[i][2]
    <3>1. 1 < i + 1 /\ i + 1 \in DOMAIN s /\ Tail(s)[i] = s[i + 1]
      BY <2>1, <2>2
    <3> QED BY <2>1, <2>4, <3>1 DEF InOrder
  <2> QED BY <2>3, <2>4 DEF Before, In
<1>4. ASSUME NEW T PROVE InOrder(Only(s, T)) /\ In(Only(s, T)) = In(s) \cap T
  <2> DEFINE o == Only(s, T)
  <2>1. In(o) = In(s) \cap T
    BY OnlyElements DEF In
  <2>2. o \in Seq(Task) /\ Selects(o, s, Len(s), T)
    BY OnlySelects
  <2> HIDE DEF o
  <2>3. PICK g \in [1..Len(o) -> 1..Len(s)] :
          /\ \A k \in 1..Len(o) : o[k] = s[g[k]]
          /\ \A k, l \in 1..Len(o) : k < l => g[k] < g[l]
    BY <2>2 DEF Selects
  <2>4. InOrder(o)
    <3>1. ASSUME NEW k \in DOMAIN o, NEW l \in DOMAIN o, k < l, o[k][1] = o[l][1]
          PROVE  o[k][2] < o[l][2]
      <4>1. k \in 1..Len(o) /\ l \in 1..Len(o)
        BY <2>2
      <4>2. g[k] \in DOMAIN s /\ g[l] \in DOMAIN s /\ g[k] < g[l]
        BY <2>3, <3>1, <4>1
      <4>3. o[k] = s[g[k]] /\ o[l] = s[g[l]]
        BY <2>3, <4>1
      <4> QED BY <3>1, <4>2, <4>3 DEF InOrder
    <3> QED BY <3>1 DEF InOrder
  <2> QED BY <2>1, <2>4 DEF o
<1> QED BY <1>1, <1>2, <1>3, <1>4

\* A write added at the end of a list.
LEMMA AddedInOrder ==
  ASSUME NEW s \in Seq(Task), NEW x \in Task
  PROVE  /\ In(Append(s, x)) = In(s) \cup {x}
         /\ InOrder(s) /\ Before(In(s), {x}) => InOrder(Append(s, x))
<1>1. In(Append(s, x)) = In(s) \cup {x}
  BY Elements
<1>2. InOrder(s) /\ Before(In(s), {x}) => InOrder(Append(s, x))
  BY OrderIsKept
<1> QED BY <1>1, <1>2

\* Two lists in order, one before the other, are one in order.
LEMMA OrderOfBoth ==
  ASSUME NEW s \in Seq(Task), NEW u \in Seq(Task), InOrder(s), InOrder(u),
         Before(In(s), In(u))
  PROVE  InOrder(s \o u) /\ In(s \o u) = In(s) \cup In(u)
<1> DEFINE both == s \o u
<1>1. /\ Len(both) = Len(s) + Len(u) /\ both \in Seq(Task)
      /\ \A i \in 1..Len(both) : both[i] = IF i <= Len(s) THEN s[i] ELSE u[i - Len(s)]
  BY ConcatProperties
<1>2. Len(s) \in Nat /\ Len(u) \in Nat
  OBVIOUS
<1>3. DOMAIN s = 1..Len(s) /\ DOMAIN u = 1..Len(u) /\ DOMAIN both = 1..Len(both)
  BY <1>1
<1> HIDE DEF both
<1>4. ASSUME NEW i \in DOMAIN both, NEW j \in DOMAIN both, i < j, both[i][1] = both[j][1]
      PROVE  both[i][2] < both[j][2]
  <2>0. i \in 1..Len(both) /\ j \in 1..Len(both)
    BY <1>3, <1>4
  <2>1. CASE j <= Len(s)
    <3>1. i \in 1..Len(s) /\ j \in 1..Len(s) /\ i <= Len(s)
      BY <1>1, <1>2, <1>4, <2>0, <2>1
    <3>2. both[i] = s[i] /\ both[j] = s[j]
      BY <1>1, <2>0, <2>1, <3>1
    <3> QED BY <1>3, <1>4, <3>1, <3>2 DEF InOrder
  <2>2. CASE i > Len(s)
    <3>1. /\ i - Len(s) \in 1..Len(u) /\ j - Len(s) \in 1..Len(u)
          /\ ~(i <= Len(s)) /\ ~(j <= Len(s)) /\ i - Len(s) < j - Len(s)
      BY <1>1, <1>2, <1>4, <2>0, <2>2
    <3>2. both[i] = u[i - Len(s)] /\ both[j] = u[j - Len(s)]
      BY <1>1, <2>0, <3>1
    <3> QED BY <1>3, <1>4, <3>1, <3>2 DEF InOrder
  <2>3. CASE i <= Len(s) /\ j > Len(s)
    <3>1. i \in 1..Len(s) /\ j - Len(s) \in 1..Len(u) /\ ~(j <= Len(s))
      BY <1>1, <1>2, <2>0, <2>3
    <3>2. both[i] = s[i] /\ both[j] = u[j - Len(s)]
      BY <1>1, <2>0, <2>3, <3>1
    <3>3. both[i] \in In(s) /\ both[j] \in In(u)
      BY <1>3, <3>1, <3>2 DEF In
    <3> QED BY <1>4, <3>3 DEF Before
  <2>4. j <= Len(s) \/ i > Len(s) \/ (i <= Len(s) /\ j > Len(s))
    BY <1>2, <2>0, <1>1
  <2> QED BY <2>1, <2>2, <2>3, <2>4
<1>5. InOrder(both)
  BY <1>4 DEF InOrder
<1> QED BY <1>5, JoinedElements DEF both

LEMMA TaskInit == Init => TaskInv
<1> SUFFICES ASSUME Init PROVE TaskInv
  OBVIOUS
<1>1. stored = <<>> /\ done = <<>> /\ group = <<>> /\ batch = <<>> /\ queue = <<>> /\ lost = {}
  BY DEF Init
<1>2. InOrder(<<>>) /\ In(<<>>) = {}
  BY DEF InOrder, In
<1>3. LineInv
  BY <1>1, <1>2 DEF LineInv, Before
<1>4. {t \in Task : t[2] < next[t[1]]} = {}
  BY Sizes DEF Init, Task
<1> QED BY <1>1, <1>2, <1>3, <1>4 DEF TaskInv, HandedInv, OnTheWay

\* Nothing but these variables is seen here.
LEMMA TasksStay ==
  ASSUME TaskInv, UNCHANGED <<stored, done, group, batch, queue, lost, next, writer>>
  PROVE  TaskInv'
BY DEF TaskInv, LineInv, HandedInv, OnTheWay, In, InOrder, Before

\* The writer passes the writes on: the lists it takes from and puts to change,
\* what is in them together does not.
LEMMA TasksPassed ==
  ASSUME HandedInv, OnTheWay' = OnTheWay, lost' = lost, next' = next
  PROVE  HandedInv'
BY DEF HandedInv

\* Writes in different places are different.
LEMMA PlacesApart ==
  ASSUME WriterTypes, LineInv
  PROVE  /\ In(stored) \cap (In(done) \cup In(group) \cup In(batch) \cup In(queue)) = {}
         /\ In(done) \cap (In(group) \cup In(batch) \cup In(queue)) = {}
         /\ In(group) \cap (In(batch) \cup In(queue)) = {}
         /\ In(batch) \cap In(queue) = {}
<1>1. \A x \in OnTheWay : x[2] \in Nat
  <2>1. OnTheWay \subseteq Task
    BY Elements DEF WriterTypes, OnTheWay
  <2> QED BY <2>1, Sizes DEF Task
<1>2. ASSUME NEW S, NEW U, Before(S, U), S \subseteq OnTheWay PROVE S \cap U = {}
  <2> SUFFICES ASSUME NEW x \in S \cap U PROVE FALSE
    OBVIOUS
  <2>1. x[2] < x[2] /\ x[2] \in Nat
    BY <1>1, <1>2 DEF Before
  <2> QED BY <2>1
<1> QED BY <1>2 DEF LineInv, OnTheWay

\* The front of the line moves on: k goes to the stored writes, o is left in
\* the open transaction and g in the group.
LEMMA FrontMoves ==
  ASSUME WriterTypes, LineInv,
         NEW k \in Seq(Task), NEW o \in Seq(Task), NEW g \in Seq(Task),
         Passes(k, o, g), InOrder(k), InOrder(o), InOrder(g),
         Before(In(k), In(o) \cup In(g)), Before(In(o), In(g)),
         In(k) \cup In(o) \cup In(g) \subseteq In(done) \cup In(group)
  PROVE  LineInv' /\ In(stored') = In(stored) \cup In(k)
<1>1. /\ stored' = stored \o k /\ done' = o /\ group' = g
      /\ UNCHANGED <<queue, batch>>
      /\ writer' # "exec" => o = <<>> /\ g = <<>>
  BY DEF Passes
<1>2. Before(In(stored), In(k))
  BY DEF LineInv, Before
<1>3. InOrder(stored') /\ In(stored') = In(stored) \cup In(k)
  BY <1>1, <1>2, OrderOfBoth DEF WriterTypes, LineInv
<1>4. /\ In(done') = In(o) /\ In(group') = In(g)
      /\ In(batch') = In(batch) /\ In(queue') = In(queue)
  BY <1>1
<1>5. /\ Before(In(stored'), In(o) \cup In(g) \cup In(batch) \cup In(queue))
      /\ Before(In(o), In(g) \cup In(batch) \cup In(queue))
      /\ Before(In(g), In(batch) \cup In(queue))
  BY <1>3 DEF LineInv, Before
<1>6. InOrder(done') /\ InOrder(group') /\ InOrder(batch') /\ InOrder(queue')
  BY <1>1 DEF LineInv
<1>7. Before(In(batch), In(queue))
  BY DEF LineInv
<1> QED BY <1>1, <1>3, <1>4, <1>5, <1>6, <1>7 DEF LineInv

LEMMA PutKeepsTasks ==
  ASSUME LoopInv, TaskInv, NEW r \in Requests, PutStep(r)
  PROVE  TaskInv'
<1> DEFINE x == <<r, next[r]>>
<1>0. WriterTypes /\ LoopTypes /\ StageInv /\ LineInv /\ HandedInv
  BY LoopInvParts DEF TaskInv
<1>1. /\ next[r] \in 1..WritesPerRequest /\ next' = [next EXCEPT ![r] = @ + 1]
      /\ UNCHANGED <<stored, done, group, batch, writer>>
  BY <1>0 DEF PutStep, Put, PutTimeout, PutNext, StageInv, writerVars
<1>2. x \in Task
  BY <1>1 DEF Task
<1>3. \A y \in OnTheWay \cup lost : y \in Task /\ y[2] < next[y[1]]
  BY <1>0 DEF HandedInv
<1>4. \A y \in OnTheWay \cup lost : y[1] = x[1] => y[2] < x[2]
  BY <1>3
<1>5. x \notin OnTheWay \cup lost
  BY <1>1, <1>4
<1>6. {t \in Task : t[2] < next'[t[1]]} = {t \in Task : t[2] < next[t[1]]} \cup {x}
  <2>1. \A t \in Task : t[1] \in Requests /\ t[2] \in Nat /\ t = <<t[1], t[2]>>
    BY Sizes DEF Task
  <2>2. \A t \in Task : t[1] # r => next'[t[1]] = next[t[1]]
    BY <1>0, <1>1, <2>1 DEF LoopTypes
  <2>3. next'[r] = next[r] + 1 /\ next[r] \in Nat
    BY <1>0, <1>1, Sizes DEF LoopTypes
  <2>4. \A t \in Task : t[1] = r => (t[2] < next'[r] <=> t[2] < next[r] \/ t = x)
    BY <2>1, <2>3
  <2>5. \A t \in Task : t[2] < next'[t[1]] <=> t[2] < next[t[1]] \/ t = x
    BY <2>2, <2>4, <1>2
  <2> QED BY <1>2, <2>5
<1>7. CASE Put(r)
  <2>1. queue' = Append(queue, x) /\ lost' = lost
    BY <1>7 DEF Put
  <2>2. In(queue') = In(queue) \cup {x}
    <3>1. queue \in Seq(Task)
      BY <1>0 DEF WriterTypes
    <3> HIDE DEF x
    <3> QED BY <1>2, <2>1, <3>1, AddedInOrder
  <2>3. /\ In(stored') = In(stored) /\ In(done') = In(done)
        /\ In(group') = In(group) /\ In(batch') = In(batch)
    BY <1>1
  <2>4. OnTheWay' = OnTheWay \cup {x}
    BY <2>2, <2>3 DEF OnTheWay
  <2>5. HandedInv'
    BY <1>0, <1>5, <1>6, <2>1, <2>4 DEF HandedInv
  <2>6. InOrder(queue')
    <3>1. Before(In(queue), {x})
      BY <1>4 DEF Before, OnTheWay
    <3> QED BY <1>0, <1>2, <2>1, <3>1, OrderIsKept DEF WriterTypes, LineInv
  <2>7. LineInv'
    BY <1>0, <1>1, <1>4, <2>2, <2>3, <2>6 DEF LineInv, Before, OnTheWay
  <2> QED BY <2>5, <2>7 DEF TaskInv
<1>8. CASE PutTimeout(r)
  <2>1. queue' = queue /\ lost' = lost \cup {x}
    BY <1>8 DEF PutTimeout
  <2>2. OnTheWay' = OnTheWay
    BY <1>1, <2>1 DEF OnTheWay
  <2>3. HandedInv'
    BY <1>0, <1>5, <1>6, <2>1, <2>2 DEF HandedInv
  <2>4. LineInv'
    BY <1>0, <1>1, <2>1 DEF LineInv
  <2> QED BY <2>3, <2>4 DEF TaskInv
<1> QED BY <1>7, <1>8 DEF PutStep

LEMMA WriterKeepsTasks ==
  ASSUME LoopInv, TaskInv, WriterNext
  PROVE  TaskInv'
<1>0. WriterTypes /\ LineInv /\ HandedInv
  BY LoopInvParts DEF TaskInv
<1>1. next' = next
  BY DEF WriterNext, CollectGet, CollectEnd, GroupOpen, TaskExecute, TaskFail,
         GroupCommit, GroupCommitFail, Rollback, GroupClose, WriterAbort, WriterResume, loopVars
<1>2. CASE CollectGet
  <2> DEFINE x == Head(queue)
  <2>1. /\ queue # <<>> /\ batch' = Append(batch, x) /\ queue' = Tail(queue)
        /\ UNCHANGED <<stored, done, group, lost, writer>>
    BY <1>2 DEF CollectGet
  <2>2. x \in Task /\ In(queue) = {x} \cup In(queue') /\ In(batch') = In(batch) \cup {x}
    BY <1>0, <2>1, Elements DEF WriterTypes
  <2>3. InOrder(queue') /\ Before({x}, In(queue'))
    BY <1>0, <2>1, OrderIsKept DEF WriterTypes, LineInv
  <2>4. InOrder(batch')
    <3>1. Before(In(batch), {x})
      BY <1>0, <2>2 DEF LineInv, Before
    <3> QED BY <1>0, <2>1, <2>2, <3>1, OrderIsKept DEF WriterTypes, LineInv
  <2>5. OnTheWay' = OnTheWay
    BY <2>1, <2>2 DEF OnTheWay
  <2>6. LineInv'
    <3> HIDE DEF x
    <3> QED BY <1>0, <2>1, <2>2, <2>3, <2>4 DEF LineInv, Before
  <2> QED BY <1>0, <1>1, <2>1, <2>5, <2>6, TasksPassed DEF TaskInv
<1>3. CASE CollectEnd \/ GroupClose \/ WriterResume
  <2>1. /\ UNCHANGED <<stored, done, group, batch, queue, lost>>
        /\ writer' # "exec" => group = <<>> /\ done = <<>>
    BY <1>0, <1>3
    DEF CollectEnd, GroupClose, WriterResume, writerVars, LineInv
  <2>2. OnTheWay' = OnTheWay
    BY <2>1 DEF OnTheWay
  <2>3. LineInv'
    BY <1>0, <2>1 DEF LineInv
  <2> QED BY <1>0, <1>1, <2>1, <2>2, <2>3, TasksPassed DEF TaskInv
<1>4. CASE GroupOpen
  <2> DEFINE mine == TasksOf(Factory(Head(batch)))
  <2>1. /\ group' = Only(batch, mine) /\ batch' = Only(batch, Task \ mine)
        /\ writer' = "exec" /\ UNCHANGED <<stored, done, queue, lost>>
        /\ group = <<>> /\ In(group) = {} /\ done = <<>> /\ In(done) = {}
    BY <1>0, <1>4, Elements DEF GroupOpen, LineInv, WriterTypes
  <2>2. \A x \in mine, y \in Task \ mine : x[1] # y[1]
    BY DEF TasksOf, Factory
  <2>3. mine \subseteq Task
    BY DEF TasksOf
  <2> HIDE DEF mine
  <2>4. /\ InOrder(group') /\ In(group') = In(batch) \cap mine
        /\ InOrder(batch') /\ In(batch') = In(batch) \cap (Task \ mine)
    BY <1>0, <2>1, OrderIsKept DEF WriterTypes, LineInv
  <2>5. In(group') \cup In(batch') = In(batch)
    BY <1>0, <2>4, Elements DEF WriterTypes
  <2>6. OnTheWay' = OnTheWay
    BY <2>1, <2>5 DEF OnTheWay
  <2>7. Before(In(group'), In(batch'))
    BY <2>2, <2>4 DEF Before
  <2>8. LineInv'
    BY <1>0, <2>1, <2>4, <2>5, <2>7 DEF LineInv, Before
  <2> QED BY <1>0, <1>1, <2>1, <2>6, <2>8, TasksPassed DEF TaskInv
<1>5. CASE TaskExecute
  <2> DEFINE x == Head(group)
  <2>1. PICK k \in Seq(Task), o \in Seq(Task) :
          /\ Passes(k, o, Tail(group)) /\ lost' = lost
          /\ group # <<>> /\ Tail(group) \in Seq(Task)
          /\ \/ k = Append(done, x) /\ o = <<>>
             \/ k = done /\ o = <<x>>
             \/ k = <<>> /\ o = Append(done, x)
    BY <1>0, <1>5, PassesOn
  <2>2. x \in Task /\ In(group) = {x} \cup In(Tail(group))
    BY <1>0, <2>1, Elements DEF WriterTypes
  <2>3. InOrder(Tail(group)) /\ Before({x}, In(Tail(group)))
    BY <1>0, <2>1, OrderIsKept DEF WriterTypes, LineInv
  <2>4. Before(In(done), {x})
    BY <1>0, <2>2 DEF LineInv, Before
  <2>5. /\ InOrder(Append(done, x)) /\ In(Append(done, x)) = In(done) \cup {x}
        /\ InOrder(<<x>>) /\ In(<<x>>) = {x} /\ InOrder(<<>>) /\ In(<<>>) = {}
    <3>1. InOrder(Append(done, x)) /\ In(Append(done, x)) = In(done) \cup {x}
      <4>1. done \in Seq(Task) /\ InOrder(done) /\ x \in Task
        BY <1>0, <2>2 DEF WriterTypes, LineInv
      <4> HIDE DEF x
      <4> QED BY <2>4, <4>1, AddedInOrder
    <3>2. InOrder(<<x>>) /\ In(<<x>>) = {x}
      BY DEF InOrder, In
    <3>3. InOrder(<<>>) /\ In(<<>>) = {}
      BY DEF InOrder, In
    <3> QED BY <3>1, <3>2, <3>3
  <2>6. InOrder(done) /\ Before(In(done), In(group))
    BY <1>0 DEF LineInv, Before
  <2> HIDE DEF x
  <2>7. /\ InOrder(k) /\ InOrder(o) /\ In(k) \cup In(o) = In(done) \cup {x}
        /\ Before(In(k), In(o))
    BY <2>1, <2>4, <2>5, <2>6 DEF Before
  <2>8. Before(In(k) \cup In(o), In(Tail(group)))
    BY <2>2, <2>3, <2>6, <2>7 DEF Before
  <2>9. LineInv' /\ In(stored') = In(stored) \cup In(k)
    <3>1. Before(In(k), In(o) \cup In(Tail(group))) /\ Before(In(o), In(Tail(group)))
      BY <2>7, <2>8 DEF Before
    <3>2. In(k) \cup In(o) \cup In(Tail(group)) \subseteq In(done) \cup In(group)
      BY <2>2, <2>7
    <3> QED BY <1>0, <2>1, <2>3, <2>7, <3>1, <3>2, FrontMoves
  <2>10. OnTheWay' = OnTheWay
    <3>1. done' = o /\ group' = Tail(group) /\ batch' = batch /\ queue' = queue
      BY <2>1 DEF Passes
    <3>2. In(done') = In(o) /\ In(group') = In(Tail(group)) /\ In(batch') = In(batch) /\ In(queue') = In(queue)
      BY <3>1
    <3> QED BY <2>2, <2>7, <2>9, <3>2 DEF OnTheWay
  <2> QED BY <1>0, <1>1, <2>1, <2>9, <2>10, TasksPassed DEF TaskInv
<1>6. CASE GroupCommit
  <2>1. Passes(done, <<>>, <<>>) /\ group = <<>> /\ lost' = lost
    BY <1>0, <1>6, PassesOn
  <2>2. InOrder(<<>>) /\ In(<<>>) = {} /\ <<>> \in Seq(Task) /\ done \in Seq(Task) /\ InOrder(done)
    BY <1>0 DEF InOrder, In, WriterTypes, LineInv
  <2>3. /\ Before(In(done), In(<<>>) \cup In(<<>>)) /\ Before(In(<<>>), In(<<>>))
        /\ In(done) \cup In(<<>>) \cup In(<<>>) \subseteq In(done) \cup In(group)
    BY <2>2 DEF Before
  <2>4. LineInv' /\ In(stored') = In(stored) \cup In(done)
    BY <1>0, <2>1, <2>2, <2>3, FrontMoves
  <2>5. OnTheWay' = OnTheWay
    <3>1. done' = <<>> /\ group' = <<>> /\ batch' = batch /\ queue' = queue
      BY <2>1 DEF Passes
    <3>2. In(done') = {} /\ In(group') = {} /\ In(batch') = In(batch) /\ In(queue') = In(queue)
      BY <2>2, <3>1
    <3> QED BY <2>1, <2>2, <2>4, <3>2 DEF OnTheWay
  <2> QED BY <1>0, <1>1, <2>1, <2>4, <2>5, TasksPassed DEF TaskInv
<1>7. CASE TaskFail \/ GroupCommitFail \/ WriterAbort
  <2>1. PICK given : /\ given \subseteq OnTheWay /\ lost' = lost \cup given
                     /\ OnTheWay' = OnTheWay \ given
                     /\ LineInv'
    <3>1. InOrder(<<>>) /\ In(<<>>) = {} /\ <<>> \in Seq(Task)
      BY DEF InOrder, In
    <3>2. CASE TaskFail \/ GroupCommitFail
      <4>1. PICK k \in Seq(Task) :
              /\ Passes(k, <<>>, <<>>)
              /\ lost' = lost \cup ((In(done) \cup In(group)) \ In(k))
              /\ \/ k = <<>> \/ k = done
                 \/ group # <<>> /\ k = Append(done, Head(group))
        BY <1>0, <3>2, PassesOn
      <4>2. InOrder(k) /\ In(k) \subseteq In(done) \cup In(group)
        <5>1. CASE k = <<>>
          BY <3>1, <5>1
        <5>2. CASE k = done
          BY <1>0, <5>2 DEF LineInv
        <5>3. CASE group # <<>> /\ k = Append(done, Head(group))
          <6>1. /\ Head(group) \in Task /\ Head(group) \in In(group)
                /\ done \in Seq(Task) /\ InOrder(done)
            BY <1>0, <5>3, Elements DEF WriterTypes, LineInv
          <6>2. Before(In(done), {Head(group)})
            BY <1>0, <6>1 DEF LineInv, Before
          <6>3. InOrder(k) /\ In(k) = In(done) \cup {Head(group)}
            BY <5>3, <6>1, <6>2, AddedInOrder
          <6> QED BY <6>1, <6>3
        <5> QED BY <4>1, <5>1, <5>2, <5>3
      <4>3. /\ Before(In(k), In(<<>>) \cup In(<<>>)) /\ Before(In(<<>>), In(<<>>))
            /\ In(k) \cup In(<<>>) \cup In(<<>>) \subseteq In(done) \cup In(group)
        BY <3>1, <4>2 DEF Before
      <4>4. LineInv' /\ In(stored') = In(stored) \cup In(k)
        BY <1>0, <3>1, <4>1, <4>2, <4>3, FrontMoves
      <4> DEFINE rest == (In(done) \cup In(group)) \ In(k)
      <4>5. OnTheWay' = OnTheWay \ rest
        <5>1. done' = <<>> /\ group' = <<>> /\ batch' = batch /\ queue' = queue
          BY <4>1 DEF Passes
        <5>2. In(done') = {} /\ In(group') = {} /\ In(batch') = In(batch) /\ In(queue') = In(queue)
          BY <3>1, <5>1
        <5>3. OnTheWay' = In(stored) \cup In(k) \cup In(batch) \cup In(queue)
          BY <4>4, <5>2 DEF OnTheWay
        <5> QED BY <1>0, <4>2, <5>3, PlacesApart DEF OnTheWay
      <4>6. rest \subseteq OnTheWay
        BY DEF OnTheWay
      <4> QED BY <4>1, <4>4, <4>5, <4>6
    <3>3. CASE WriterAbort
      <4>1. /\ lost' = lost \cup In(batch) /\ batch' = <<>>
            /\ group = <<>> /\ done = <<>>
            /\ UNCHANGED <<stored, done, group, queue>>
        BY <1>0, <3>3 DEF WriterAbort, ToSet, In, LineInv
      <4>2. OnTheWay' = OnTheWay \ In(batch)
        BY <1>0, <3>1, <4>1, PlacesApart DEF OnTheWay
      <4>3. LineInv'
        BY <1>0, <3>1, <4>1 DEF LineInv, Before
      <4>4. In(batch) \subseteq OnTheWay
        BY DEF OnTheWay
      <4> QED BY <4>1, <4>2, <4>3, <4>4
    <3> QED BY <1>7, <3>2, <3>3
  <2>2. HandedInv'
    BY <1>0, <1>1, <2>1 DEF HandedInv
  <2> QED BY <2>1, <2>2 DEF TaskInv
<1> QED BY <1>2, <1>3, <1>4, <1>5, <1>6, <1>7 DEF WriterNext

LEMMA TaskStep == LoopInv /\ TaskInv /\ [Next]_vars => TaskInv'
<1> SUFFICES ASSUME LoopInv, TaskInv, [Next]_vars PROVE TaskInv'
  OBVIOUS
<1>1. CASE UNCHANGED vars
  BY <1>1, TasksStay DEF vars
<1>2. ASSUME NEW m \in Managers, Start(m) PROVE TaskInv'
  BY <1>2, TasksStay DEF Start, loopVars, writerVars
<1>3. ASSUME NEW r \in Requests, EnqueueNext(r) PROVE TaskInv'
  BY <1>3, TasksStay
  DEF EnqueueNext, EnqueueRefuse, EnqueueSkip, EnqueueSchedule, EnqueueList, loopVars,
      writerVars
<1>4. ASSUME NEW r \in Requests,
             CoroStart(r) \/ CoroAcquire(r) \/ ApiReply(r) \/ FutureDone(r) \/ Callback(r)
      PROVE  TaskInv'
  BY <1>4, TasksStay
  DEF CoroStart, CoroAcquire, ApiReply, FutureDone, Callback, writerVars
<1>5. ASSUME LoopReady \/ SwapSemaphore PROVE TaskInv'
  BY <1>5, TasksStay DEF LoopReady, SwapSemaphore, writerVars
<1>6. ASSUME NEW w \in Waits, WaitNext(w) PROVE TaskInv'
  BY <1>6, TasksStay
  DEF WaitNext, WaitCall, WaitFutures, WaitQueueEmpty, WaitQueueExpired, WaitSlept, WaitEngine,
      WaitMove, loopVars, writerVars
<1>7. CASE Next
  BY <1>2, <1>3, <1>4, <1>5, <1>6, <1>7, PutKeepsTasks, WriterKeepsTasks
  DEF Next, CoroNext
<1> QED BY <1>1, <1>7

\* What is handed over stays in one place, in line, until it is lost.
THEOREM TasksAreKept == Spec => []TaskInv
<1>1. Init => TaskInv
  BY TaskInit
<1>2. LoopInv /\ TaskInv /\ [Next]_vars => TaskInv'
  BY TaskStep
<1> QED BY <1>1, <1>2, LoopIsSound, PTL DEF Spec

\* The writes of one request are executed in the order the augmentation listed
\* them, for any batch and queue size and any number of factories.
THEOREM WritesKeepTheirOrder == Spec => []StoredInOrder
<1>1. TaskInv => StoredInOrder
  BY DEF TaskInv, LineInv, InOrder, StoredInOrder
<1> QED BY <1>1, TasksAreKept, PTL

\* A list in order holds a write at most once.
LEMMA HeldOnce ==
  ASSUME NEW s \in Seq(Task), InOrder(s), NEW t \in Task
  PROVE  Cardinality({i \in DOMAIN s : s[i] = t}) = IF t \in In(s) THEN 1 ELSE 0
<1> DEFINE places == {i \in DOMAIN s : s[i] = t}
<1>1. CASE t \in In(s)
  <2>1. PICK i \in DOMAIN s : s[i] = t
    BY <1>1 DEF In
  <2>2. ASSUME NEW j \in DOMAIN s, s[j] = t PROVE j = i
    <3>1. i \in Nat /\ j \in Nat /\ t[2] \in Nat
      BY Sizes DEF Task
    <3>2. ~(i < j) /\ ~(j < i)
      BY <2>1, <2>2, <3>1 DEF InOrder
    <3> QED BY <3>1, <3>2
  <2>3. places = {i}
    BY <2>1, <2>2
  <2>4. Cardinality(places) = 1
    BY <2>3, FS_Singleton
  <2> QED BY <1>1, <2>4
<1>2. CASE t \notin In(s)
  <2>1. places = {}
    BY <1>2 DEF In
  <2>2. Cardinality(places) = 0
    BY <2>1, FS_EmptySet
  <2> QED BY <1>2, <2>2
<1> QED BY <1>1, <1>2

\* Every write that was handed over is in exactly one place, and no other is in
\* any: the path to the database neither doubles nor drops a task.
THEOREM EveryTaskInOnePlace == Spec => []OnePlace
<1>1. LoopInv /\ TaskInv => OnePlace
  <2> SUFFICES ASSUME LoopInv, TaskInv, NEW t \in Task
               PROVE  Cardinality({i \in DOMAIN queue : queue[i] = t})
                        + Cardinality({i \in DOMAIN batch : batch[i] = t})
                        + Cardinality({i \in DOMAIN group : group[i] = t})
                        + Cardinality({i \in DOMAIN done : done[i] = t})
                        + Cardinality({i \in DOMAIN stored : stored[i] = t})
                        + (IF t \in lost THEN 1 ELSE 0)
                      = (IF t[2] < next[t[1]] THEN 1 ELSE 0)
    BY DEF OnePlace
  <2>1. WriterTypes /\ LineInv /\ HandedInv
    BY LoopInvParts DEF TaskInv
  <2>2. /\ Cardinality({i \in DOMAIN queue : queue[i] = t}) = IF t \in In(queue) THEN 1 ELSE 0
        /\ Cardinality({i \in DOMAIN batch : batch[i] = t}) = IF t \in In(batch) THEN 1 ELSE 0
        /\ Cardinality({i \in DOMAIN group : group[i] = t}) = IF t \in In(group) THEN 1 ELSE 0
        /\ Cardinality({i \in DOMAIN done : done[i] = t}) = IF t \in In(done) THEN 1 ELSE 0
        /\ Cardinality({i \in DOMAIN stored : stored[i] = t}) = IF t \in In(stored) THEN 1 ELSE 0
    BY <2>1, HeldOnce DEF WriterTypes, LineInv
  <2>3. t[2] < next[t[1]] <=> t \in OnTheWay \cup lost
    BY <2>1 DEF HandedInv
  <2>4. /\ ~(t \in OnTheWay /\ t \in lost)
        /\ t \in OnTheWay <=> \/ t \in In(stored) \/ t \in In(done) \/ t \in In(group)
                             \/ t \in In(batch) \/ t \in In(queue)
    BY <2>1 DEF HandedInv, OnTheWay
  <2>5. /\ t \in In(stored) => t \notin In(done) \cup In(group) \cup In(batch) \cup In(queue)
        /\ t \in In(done) => t \notin In(group) \cup In(batch) \cup In(queue)
        /\ t \in In(group) => t \notin In(batch) \cup In(queue)
        /\ t \in In(batch) => t \notin In(queue)
    BY <2>1, PlacesApart
  <2> QED BY <2>2, <2>3, <2>4, <2>5
<1> QED BY <1>1, LoopIsSound, TasksAreKept, PTL

-----------------------------------------------------------------------------
(* What a wait has seen.                                                   *)

LEMMA WaitStep == LoopInv /\ WaitInv /\ [Next]_vars => WaitInv'
<1> SUFFICES ASSUME LoopInv, WaitInv, [Next]_vars PROVE WaitInv'
  OBVIOUS
<1>0. CallerTypes /\ LoopTypes /\ WriterTypes /\ WaitTypes /\ StageInv
  BY LoopInvParts
<1>1. ASSUME UNCHANGED <<wait, waitFor, goal, queue>>,
             \A r \in Requests : coro[r] = "finished" => coro'[r] = "finished",
             \A r \in Requests : app[r] = "listed" => app'[r] = "listed"
      PROVE  WaitInv'
  BY <1>0, <1>1 DEF WaitInv, WaitTypes
<1>2. CASE UNCHANGED vars
  BY <1>1, <1>2 DEF vars
<1>3. ASSUME NEW m \in Managers, Start(m) PROVE WaitInv'
  BY <1>1, <1>3 DEF Start, loopVars, waitVars
<1>4. ASSUME NEW r \in Requests, EnqueueNext(r) PROVE WaitInv'
  <2>1. UNCHANGED <<wait, waitFor, goal, queue>>
    BY <1>4 DEF EnqueueNext, EnqueueRefuse, EnqueueSkip, EnqueueSchedule, EnqueueList, waitVars
  <2>2. \A q \in Requests : coro[q] = "finished" => coro'[q] = "finished"
    BY <1>0, <1>4
    DEF EnqueueNext, EnqueueRefuse, EnqueueSkip, EnqueueSchedule, EnqueueList, loopVars,
        LoopTypes, StageInv
  <2>3. \A q \in Requests : app[q] = "listed" => app'[q] = "listed"
    BY <1>0, <1>4
    DEF EnqueueNext, EnqueueRefuse, EnqueueSkip, EnqueueSchedule, EnqueueList, CallerTypes
  <2> QED BY <1>1, <2>1, <2>2, <2>3
<1>5. ASSUME NEW r \in Requests,
             CoroStart(r) \/ CoroAcquire(r) \/ ApiReply(r) \/ FutureDone(r) \/ Callback(r)
      PROVE  WaitInv'
  <2>1. UNCHANGED <<wait, waitFor, goal, queue, app>>
    BY <1>5 DEF CoroStart, CoroAcquire, ApiReply, FutureDone, Callback, waitVars, appVars
  <2>2. coro[r] # "finished" /\ \E to : coro' = [coro EXCEPT ![r] = to]
    BY <1>5 DEF CoroStart, CoroAcquire, ApiReply, Leave, FutureDone, Callback
  <2>3. \A q \in Requests : coro[q] = "finished" => coro'[q] = "finished"
    BY <1>0, <2>2 DEF LoopTypes
  <2> QED BY <1>1, <2>1, <2>3
<1>6. ASSUME LoopReady \/ SwapSemaphore PROVE WaitInv'
  BY <1>1, <1>6 DEF LoopReady, SwapSemaphore, waitVars, appVars
<1>7. ASSUME NEW r \in Requests, PutStep(r) PROVE WaitInv'
  <2>1. /\ coro[r] = "putting" /\ UNCHANGED <<wait, waitFor, goal, app>>
        /\ queue' = queue \/ queue' = Append(queue, <<r, next[r]>>)
    BY <1>7 DEF PutStep, Put, PutTimeout, waitVars, appVars
  <2>2. \A q \in Requests : coro[q] = "finished" => coro'[q] = "finished"
    BY <1>0, <1>7, <2>1 DEF PutStep, Put, PutTimeout, PutNext, Leave, LoopTypes
  <2>3. <<r, next[r]>> \in Task
    BY <1>0, <2>1 DEF StageInv, Task
  <2>4. \A i \in DOMAIN queue' :
          queue'[i][1] = r \/ \E j \in DOMAIN queue : queue'[i] = queue[j]
    <3>1. In(queue') \subseteq In(queue) \cup {<<r, next[r]>>}
      <4>1. In(Append(queue, <<r, next[r]>>)) = In(queue) \cup {<<r, next[r]>>}
        <5>1. queue \in Seq(Task)
          BY <1>0 DEF WriterTypes
        <5> QED BY <2>3, <5>1, Elements
      <4> QED BY <2>1, <4>1
    <3>2. <<r, next[r]>>[1] = r
      OBVIOUS
    <3> QED BY <3>1, <3>2 DEF In
  <2>5. ASSUME NEW w \in Waits, wait[w] \in {"sleep", "engine", "true"}, NEW q \in goal[w],
               NEW i \in DOMAIN queue'
        PROVE  queue'[i][1] # q
    <3>1. coro[q] = "finished" /\ q # r
      BY <2>1, <2>5 DEF WaitInv
    <3> QED BY <2>4, <2>5, <3>1 DEF WaitInv
  <2> QED BY <1>0, <2>1, <2>2, <2>5 DEF WaitInv, WaitTypes
<1>8. CASE WriterNext
  <2>1. UNCHANGED <<wait, waitFor, goal, coro, app>>
    BY <1>8
    DEF WriterNext, CollectGet, CollectEnd, GroupOpen, TaskExecute, TaskFail,
        GroupCommit, GroupCommitFail, Rollback, GroupClose, WriterAbort, WriterResume, waitVars, loopVars, appVars
  <2>2. queue' = queue \/ (queue # <<>> /\ queue' = Tail(queue))
    BY <1>8
    DEF WriterNext, CollectGet, CollectEnd, GroupOpen, TaskExecute, TaskFail,
        GroupCommit, GroupCommitFail, Rollback, GroupClose, WriterAbort, WriterResume
  <2>3. \A i \in DOMAIN queue' : \E j \in DOMAIN queue : queue'[i] = queue[j]
    <3>1. In(queue') \subseteq In(queue)
      <4>1. queue \in Seq(Task)
        BY <1>0 DEF WriterTypes
      <4>2. queue # <<>> => In(queue) = {Head(queue)} \cup In(Tail(queue))
        BY <4>1, Elements
      <4> QED BY <2>2, <4>2
    <3> QED BY <3>1 DEF In
  <2> QED BY <2>1, <2>3 DEF WaitInv
<1>9. ASSUME NEW w \in Waits, WaitNext(w) PROVE WaitInv'
  <2>0. UNCHANGED <<coro, app, queue, pending>>
    BY <1>9
    DEF WaitNext, WaitCall, WaitFutures, WaitQueueEmpty, WaitQueueExpired, WaitSlept, WaitEngine,
        WaitMove, loopVars, appVars
  <2>1. ASSUME \A r \in Requests : r \in goal[w] => OwnerOf[r] = WaiterOf[w] /\ app[r] = "listed",
               PendingOf(WaiterOf[w]) = {}
        PROVE  \A r \in goal[w] : coro[r] = "finished"
    BY <1>0, <2>1 DEF StageInv, PendingOf, WaitTypes
  <2>2. CASE WaitCall(w)
    <3> DEFINE asked == {r \in Requests : OwnerOf[r] = WaiterOf[w] /\ app[r] = "listed"}
               to == IF PendingOf(WaiterOf[w]) = {} THEN "queue" ELSE "futures"
    <3>1. goal' = [goal EXCEPT ![w] = asked] /\ wait' = [wait EXCEPT ![w] = to]
      BY <2>2 DEF WaitCall, WaitMove
    <3>2. to = "queue" => \A r \in asked : coro[r] = "finished"
      BY <1>0 DEF StageInv, PendingOf
    <3>3. to \in {"queue", "futures"}
      OBVIOUS
    <3> HIDE DEF to
    <3> QED BY <1>0, <2>0, <3>1, <3>2, <3>3 DEF WaitInv, WaitTypes
  <2>3. CASE WaitFutures(w)
    <3> DEFINE to == IF PendingOf(WaiterOf[w]) = {} THEN "queue" ELSE "false"
    <3>1. goal' = goal /\ wait' = [wait EXCEPT ![w] = to]
      BY <2>3 DEF WaitFutures, WaitMove
    <3>2. to = "queue" => \A r \in goal[w] : coro[r] = "finished"
      BY <1>0, <2>1 DEF WaitInv, WaitTypes
    <3>3. to \in {"queue", "false"}
      OBVIOUS
    <3> HIDE DEF to
    <3> QED BY <1>0, <2>0, <3>1, <3>2, <3>3 DEF WaitInv, WaitTypes
  <2>4. CASE WaitQueueEmpty(w) \/ WaitQueueExpired(w) \/ WaitSlept(w) \/ WaitEngine(w)
    <3>1. goal' = goal /\ \E to : /\ wait' = [wait EXCEPT ![w] = to]
                                /\ \/ to = "false"
                                   \/ wait[w] = "queue" /\ queue = <<>> /\ to \in {"true", "sleep"}
                                   \/ wait[w] \in {"sleep", "engine"} /\ to \in {"engine", "true"}
      BY <2>4 DEF WaitQueueEmpty, WaitQueueExpired, WaitSlept, WaitEngine, WaitMove
    <3> QED BY <1>0, <2>0, <3>1 DEF WaitInv, WaitTypes
  <2> QED BY <1>9, <2>2, <2>3, <2>4 DEF WaitNext
<1>10. CASE Next
  BY <1>3, <1>4, <1>5, <1>6, <1>7, <1>8, <1>9, <1>10 DEF Next, CoroNext
<1> QED BY <1>2, <1>10

\* When wait returns True, every request accepted before the call is finished
\* and nothing of it is left in the queue, however callbacks, timeouts and
\* full queues interleave.
THEOREM WaitTellsTheTruth == Spec => []TrueMeansHandedOver
<1>1. Init => WaitInv
  BY DEF Init, WaitInv
<1>2. LoopInv /\ WaitInv /\ [Next]_vars => WaitInv'
  BY WaitStep
<1>3. LoopInv /\ WaitInv => TrueMeansHandedOver
  <2> SUFFICES ASSUME LoopInv, WaitInv, NEW w \in Waits, wait[w] = "true", NEW r \in goal[w]
               PROVE  coro[r] = "finished" /\ \A t \in ToSet(queue) : t[1] # r
    BY DEF TrueMeansHandedOver
  <2> QED BY DEF WaitInv, ToSet
<1> QED BY <1>1, <1>2, <1>3, LoopIsSound, PTL DEF Spec

=============================================================================
