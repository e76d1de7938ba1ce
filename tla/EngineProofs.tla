----------------------------- MODULE EngineProofs -----------------------------
(***************************************************************************)
(* Of the engine: what holds of a WorkerRuntime, and that it implements    *)
(* JobPool, for any number of jobs, callers, permits and queue slots;      *)
(* StoreConsistent and SessionKeepsOwner of WriteBatch, and its refinement *)
(* of AtomicStore, for any calls and batches, any pool, any retries and    *)
(* any failures, on both kinds of database.                                *)
(***************************************************************************)
EXTENDS WorkerRuntime, WriteBatch, ListProofs, FiniteSetTheorems, TLAPS

-----------------------------------------------------------------------------
(* The runtime.                                                            *)
LEMMA InitType == Init => TypeOK
<1> USE DEF Init, TypeOK, LifecycleState, JobState, SubmitError
<1>1. 0 \in 0 .. CounterModulus - 1
  BY RuntimeAssumption, FS_CardinalityType
<1>2. Init => queue \in Seq(Jobs)
  OBVIOUS
<1> QED BY <1>1, <1>2, RuntimeAssumption

LEMMA TypeStep == TypeOK /\ [Next]_vars => TypeOK'
<1> SUFFICES ASSUME TypeOK, [Next]_vars PROVE TypeOK'
  OBVIOUS
<1> USE DEF TypeOK, LifecycleState, JobState, SubmitError, callVars, stopVars
<1>1. ASSUME NEW s \in Starters, StartNext(s) PROVE TypeOK'
  <2>1. CASE StartSpawn(s)
    <3>1. queue' \in Seq(Jobs)
      BY <2>1 DEF StartSpawn
    <3> QED BY <2>1, <3>1 DEF StartSpawn
  <2>2. CASE StartCheck(s) \/ StartBuildError(s) \/ StartPublish(s)
    BY <2>2 DEF StartCheck, StartBuildError, StartPublish
  <2> QED BY <1>1, <2>1, <2>2 DEF StartNext
<1>2. ASSUME NEW j \in Jobs, SubmitNext(j) PROVE TypeOK'
  <2>1. CASE SubmitSend(j)
    BY <2>1 DEF SubmitSend
  <2>2. CASE SubmitRefuse(j)
    BY <2>2 DEF SubmitRefuse, Refusal
  <2>3. CASE SubmitCount(j)
    BY <2>3, RuntimeAssumption DEF SubmitCount, Incr
  <2> QED BY <1>2, <2>1, <2>2, <2>3 DEF SubmitNext
<1>3. ASSUME DispatchNext PROVE TypeOK'
  <2>1. CASE DispatchRecv
    BY <2>1 DEF DispatchRecv
  <2>2. CASE DispatchClosed \/ DispatchDrain \/ DispatchPark
    BY <2>2 DEF DispatchClosed, DispatchDrain, DispatchPark
  <2>3. ASSUME NEW j \in Jobs, DispatchSpawn(j) PROVE TypeOK'
    BY <2>3 DEF DispatchSpawn
  <2> QED BY <1>3, <2>1, <2>2, <2>3 DEF DispatchNext
<1>4. ASSUME NEW j \in Jobs, TaskNext(j) PROVE TypeOK'
  <2>1. CASE TaskPoll(j) \/ TaskReturn(j) \/ TaskCancel(j)
    BY <2>1 DEF TaskPoll, TaskReturn, TaskCancel
  <2>2. CASE GuardDrop(j)
    BY <2>2, RuntimeAssumption DEF GuardDrop, Decr
  <2>3. CASE GuardWake(j)
    BY <2>3 DEF GuardWake, WakeWaiters
  <2> QED BY <1>4, <2>1, <2>2, <2>3 DEF TaskNext
<1>5. ASSUME NEW f \in Flushers, FlushNext(f) PROVE TypeOK'
  <2>1. CASE FlushCall(f)
    BY <2>1 DEF FlushCall
  <2>2. CASE FlushLock(f) \/ FlushTest(f) \/ FlushWait(f) \/ FlushSpurious(f)
    BY <2>2 DEF FlushLock, FlushTest, FlushWait, FlushSpurious
  <2>3. CASE FlushDeadline(f)
    BY <2>3 DEF FlushDeadline
  <2> QED BY <1>5, <2>1, <2>2, <2>3 DEF FlushNext
<1>6. ASSUME NEW s \in Stoppers, StopNext(s) PROVE TypeOK'
  <2>1. CASE StopEnter(s)
    BY <2>1 DEF StopEnter
  <2>2. CASE StopMark(s) \/ StopClose(s) \/ StopStore(s)
    BY <2>2 DEF StopMark, StopClose, StopStore
  <2>3. CASE StopJoin(s)
    BY <2>3 DEF StopJoin
  <2>4. CASE StopFinish(s)
    BY <2>4 DEF StopFinish, WakeWaiters
  <2> QED BY <1>6, <2>1, <2>2, <2>3, <2>4 DEF StopNext
<1>7. CASE UNCHANGED vars
  BY <1>7 DEF vars
<1> QED BY <1>1, <1>2, <1>3, <1>4, <1>5, <1>6, <1>7 DEF Next

(* Type correctness: every call of every thread keeps each variable in the *)
(* shape the Rust declarations give it.                                    *)
THEOREM TypeCorrect == Spec => []TypeOK
BY InitType, TypeStep, PTL DEF Spec

-----------------------------------------------------------------------------
(* The outstanding counter *)

LEMMA JobSets ==
  ASSUME NEW S \in SUBSET Jobs
  PROVE  /\ IsFiniteSet(S)
         /\ Cardinality(S) \in Nat
         /\ Cardinality(S) <= Cardinality(Jobs)
         /\ Cardinality(Jobs) \in Nat
         /\ \A j \in Jobs \ S : Cardinality(S \cup {j}) = Cardinality(S) + 1
         /\ \A j \in S : Cardinality(S \ {j}) = Cardinality(S) - 1
<1>1. IsFiniteSet(S) /\ Cardinality(S) <= Cardinality(Jobs)
  BY RuntimeAssumption, FS_Subset
<1>2. Cardinality(S) \in Nat /\ Cardinality(Jobs) \in Nat
  BY <1>1, RuntimeAssumption, FS_CardinalityType
<1>3. \A j \in Jobs \ S : Cardinality(S \cup {j}) = Cardinality(S) + 1
  BY <1>1, FS_AddElement
<1>4. \A j \in S : Cardinality(S \ {j}) = Cardinality(S) - 1
  BY <1>1, FS_RemoveElement
<1> QED BY <1>1, <1>2, <1>3, <1>4

\* A call of submit that has not been accepted has a job nobody has seen.
UnsentIsNew == \A j \in Jobs : (job[j] = "new") <=> (sub[j] \notin {"sent", "Ok"})

\* The channel holds queued jobs, each once.
QueueInv ==
  /\ \A i \in 1 .. Len(queue) : job[queue[i]] = "queued"
  /\ \A i, k \in 1 .. Len(queue) : queue[i] = queue[k] => i = k

(* The channel is a queue: what try_send appends and recv removes. *)
LEMMA QueueStep == TypeOK /\ UnsentIsNew /\ QueueInv /\ [Next]_vars => QueueInv'
<1> SUFFICES ASSUME TypeOK, UnsentIsNew, QueueInv, [Next]_vars PROVE QueueInv'
  OBVIOUS
<1> USE DEF TypeOK, callVars, stopVars, JobState, SubmitError
<1>1. ASSUME NEW s \in Starters, StartNext(s) PROVE QueueInv'
  <2>1. CASE StartSpawn(s)
    BY <2>1 DEF StartSpawn, QueueInv
  <2>2. CASE StartCheck(s) \/ StartBuildError(s) \/ StartPublish(s)
    BY <2>2 DEF StartCheck, StartBuildError, StartPublish, QueueInv
  <2> QED BY <1>1, <2>1, <2>2 DEF StartNext
<1>2. ASSUME NEW j \in Jobs, SubmitSend(j) PROVE QueueInv'
  <2>1. job[j] = "new"
    BY <1>2 DEF SubmitSend, UnsentIsNew
  <2>2. /\ Len(queue') = Len(queue) + 1
        /\ \A i \in 1 .. Len(queue) : queue'[i] = queue[i]
        /\ queue'[Len(queue) + 1] = j
    BY <1>2 DEF SubmitSend
  <2>3. job' = [job EXCEPT ![j] = "queued"]
    BY <1>2 DEF SubmitSend
  <2>4. Len(queue) \in Nat /\ \A i \in 1 .. Len(queue) : queue[i] \in Jobs /\ queue[i] # j
    BY <2>1 DEF QueueInv
  <2>5. \A i \in 1 .. Len(queue) + 1 : i \in 1 .. Len(queue) \/ i = Len(queue) + 1
    BY <2>4
  <2>6. \A i \in 1 .. Len(queue') : job'[queue'[i]] = "queued"
    BY <2>2, <2>3, <2>4, <2>5 DEF QueueInv
  <2>7. ASSUME NEW i \in 1 .. Len(queue'), NEW k \in 1 .. Len(queue'), queue'[i] = queue'[k]
        PROVE  i = k
    <3>1. CASE i \in 1 .. Len(queue) /\ k \in 1 .. Len(queue)
      BY <2>2, <2>7, <3>1 DEF QueueInv
    <3>2. CASE i = Len(queue) + 1 \/ k = Len(queue) + 1
      BY <2>2, <2>4, <2>5, <2>7, <3>2
    <3> QED BY <2>2, <2>5, <3>1, <3>2
  <2> QED BY <2>6, <2>7 DEF QueueInv
<1>3. ASSUME NEW j \in Jobs, SubmitRefuse(j) \/ SubmitCount(j) PROVE QueueInv'
  BY <1>3 DEF SubmitRefuse, SubmitCount, QueueInv
<1>4. ASSUME DispatchRecv PROVE QueueInv'
  <2>1. /\ Len(queue) \in Nat \ {0}
        /\ Len(queue') = Len(queue) - 1
        /\ \A i \in 1 .. Len(queue') : queue'[i] = queue[i + 1]
        /\ \A i \in 1 .. Len(queue) : queue[i] \in Jobs
    BY <1>4 DEF DispatchRecv
  <2>2. job' = [job EXCEPT ![queue[1]] = "held"]
    BY <1>4 DEF DispatchRecv
  <2>3. \A i \in 1 .. Len(queue') : i + 1 \in 1 .. Len(queue) /\ queue[i + 1] # queue[1]
    BY <2>1 DEF QueueInv
  <2>4. ASSUME NEW i \in 1 .. Len(queue') PROVE job'[queue'[i]] = "queued"
    <3>1. i + 1 \in 1 .. Len(queue) /\ queue'[i] = queue[i + 1] /\ queue[i + 1] # queue[1]
      BY <2>1, <2>3
    <3>2. queue[i + 1] \in Jobs /\ job[queue[i + 1]] = "queued"
      BY <2>1, <3>1 DEF QueueInv
    <3>3. DOMAIN job = Jobs
      OBVIOUS
    <3> HIDE DEF TypeOK
    <3> QED BY <2>2, <3>1, <3>2, <3>3
  <2>5. ASSUME NEW i \in 1 .. Len(queue'), NEW k \in 1 .. Len(queue'), queue'[i] = queue'[k]
        PROVE  i = k
    <3>1. i + 1 \in 1 .. Len(queue) /\ k + 1 \in 1 .. Len(queue)
          /\ queue[i + 1] = queue[k + 1]
      BY <2>1, <2>3, <2>5
    <3>2. i + 1 = k + 1
      BY <3>1 DEF QueueInv
    <3> HIDE DEF TypeOK
    <3> QED BY <2>1, <3>2
  <2> QED BY <2>4, <2>5 DEF QueueInv
<1>5. ASSUME DispatchNext, ~DispatchRecv PROVE QueueInv'
  <2>1. CASE DispatchClosed \/ DispatchDrain \/ DispatchPark
    BY <2>1 DEF DispatchClosed, DispatchDrain, DispatchPark, QueueInv
  <2>2. ASSUME NEW j \in Jobs, DispatchSpawn(j) PROVE QueueInv'
    BY <2>2 DEF DispatchSpawn, QueueInv
  <2> QED BY <1>5, <2>1, <2>2 DEF DispatchNext
<1>6. ASSUME NEW j \in Jobs, TaskNext(j) PROVE QueueInv'
  <2>1. CASE TaskPoll(j) \/ TaskReturn(j) \/ TaskCancel(j)
    BY <2>1 DEF TaskPoll, TaskReturn, TaskCancel, QueueInv
  <2>2. CASE GuardDrop(j) \/ GuardWake(j)
    BY <2>2 DEF GuardDrop, GuardWake, QueueInv
  <2> QED BY <1>6, <2>1, <2>2 DEF TaskNext
<1>7. ASSUME NEW f \in Flushers, FlushNext(f) PROVE QueueInv'
  BY <1>7 DEF FlushNext, FlushCall, FlushLock, FlushTest, FlushWait,
              FlushSpurious, FlushDeadline, QueueInv
<1>8. ASSUME NEW s \in Stoppers, StopNext(s) PROVE QueueInv'
  BY <1>8 DEF StopNext, StopEnter, StopMark, StopClose, StopJoin, StopStore,
              StopFinish, QueueInv
<1>9. CASE UNCHANGED vars
  BY <1>9 DEF vars, QueueInv
<1> QED BY <1>1, <1>2, <1>3, <1>4, <1>5, <1>6, <1>7, <1>8, <1>9 DEF Next, SubmitNext

CountInv == TypeOK /\ UnsentIsNew /\ QueueInv /\ CounterInv

(* What a step may do to the two sets the counter is the difference of. *)
LEMMA CountSteps ==
  ASSUME TypeOK, UnsentIsNew, QueueInv, [Next]_vars
  PROVE  /\ UnsentIsNew'
         /\ \/ UNCHANGED <<Counted, Uncounted, outstanding>>
            \/ \E j \in Jobs \ Counted :
                 /\ Counted' = Counted \cup {j}
                 /\ Uncounted' = Uncounted
                 /\ outstanding' = Incr(outstanding)
            \/ \E j \in Jobs \ Uncounted :
                 /\ Counted' = Counted
                 /\ Uncounted' = Uncounted \cup {j}
                 /\ outstanding' = Decr(outstanding)
<1> DEFINE Quiet == UNCHANGED <<Counted, Uncounted, outstanding>>
<1> USE DEF TypeOK, UnsentIsNew, Counted, Uncounted, callVars, stopVars, SubmitError, JobState
<1>1. ASSUME NEW s \in Starters, StartNext(s) PROVE UnsentIsNew' /\ Quiet
  BY <1>1 DEF StartNext, StartCheck, StartSpawn, StartBuildError, StartPublish
<1>2. ASSUME NEW j \in Jobs, SubmitSend(j) \/ SubmitRefuse(j) PROVE UnsentIsNew' /\ Quiet
  <2>1. CASE SubmitSend(j)
    BY <2>1 DEF SubmitSend
  <2>2. CASE SubmitRefuse(j)
    BY <2>2 DEF SubmitRefuse, Refusal
  <2> QED BY <1>2, <2>1, <2>2
<1>3. ASSUME NEW j \in Jobs, SubmitCount(j)
      PROVE  /\ UnsentIsNew'
             /\ j \in Jobs \ Counted
             /\ Counted' = Counted \cup {j} /\ Uncounted' = Uncounted
             /\ outstanding' = Incr(outstanding)
  BY <1>3 DEF SubmitCount
<1>4. ASSUME DispatchNext PROVE UnsentIsNew' /\ Quiet
  <2>1. CASE DispatchRecv
    <3>1. Head(queue) \in Jobs /\ job[Head(queue)] = "queued"
      BY <2>1 DEF DispatchRecv, QueueInv
    <3> QED BY <2>1, <3>1 DEF DispatchRecv
  <2>2. CASE DispatchClosed \/ DispatchDrain \/ DispatchPark
    BY <2>2 DEF DispatchClosed, DispatchDrain, DispatchPark
  <2>3. ASSUME NEW j \in Jobs, DispatchSpawn(j) PROVE UnsentIsNew' /\ Quiet
    BY <2>3 DEF DispatchSpawn
  <2> QED BY <1>4, <2>1, <2>2, <2>3 DEF DispatchNext
<1>5. ASSUME NEW j \in Jobs, TaskPoll(j) \/ TaskReturn(j) \/ TaskCancel(j) \/ GuardWake(j)
      PROVE  UnsentIsNew' /\ Quiet
  <2>1. CASE TaskPoll(j) \/ TaskReturn(j)
    BY <2>1 DEF TaskPoll, TaskReturn
  <2>2. CASE TaskCancel(j)
    BY <2>2 DEF TaskCancel
  <2>3. CASE GuardWake(j)
    BY <2>3 DEF GuardWake
  <2> QED BY <1>5, <2>1, <2>2, <2>3
<1>6. ASSUME NEW j \in Jobs, GuardDrop(j)
      PROVE  /\ UnsentIsNew'
             /\ j \in Jobs \ Uncounted
             /\ Counted' = Counted /\ Uncounted' = Uncounted \cup {j}
             /\ outstanding' = Decr(outstanding)
  BY <1>6 DEF GuardDrop
<1>7. ASSUME NEW f \in Flushers, FlushNext(f) PROVE UnsentIsNew' /\ Quiet
  BY <1>7 DEF FlushNext, FlushCall, FlushLock, FlushTest, FlushWait,
              FlushSpurious, FlushDeadline
<1>8. ASSUME NEW s \in Stoppers, StopNext(s) PROVE UnsentIsNew' /\ Quiet
  BY <1>8 DEF StopNext, StopEnter, StopMark, StopClose, StopJoin, StopStore, StopFinish
<1>9. CASE UNCHANGED vars
  BY <1>9 DEF vars
<1> HIDE DEF TypeOK, UnsentIsNew, Counted, Uncounted
<1> QED BY <1>1, <1>2, <1>3, <1>4, <1>5, <1>6, <1>7, <1>8, <1>9
        DEF Next, SubmitNext, TaskNext

LEMMA CountInvariant == Spec => []CountInv
<1>1. Init => CountInv
  <2> SUFFICES ASSUME Init PROVE CountInv
    OBVIOUS
  <2>1. Counted = {} /\ Uncounted = {}
    BY DEF Init, Counted, Uncounted
  <2>2. CounterInv
    BY <2>1, FS_EmptySet DEF CounterInv, Init
  <2>3. UnsentIsNew /\ QueueInv
    BY DEF Init, UnsentIsNew, QueueInv
  <2>4. TypeOK
    BY InitType
  <2> QED BY <2>2, <2>3, <2>4 DEF CountInv
<1>2. CountInv /\ [Next]_vars => CountInv'
  <2> SUFFICES ASSUME CountInv, [Next]_vars PROVE CountInv'
    OBVIOUS
  <2> USE DEF CountInv
  <2>1. TypeOK' /\ UnsentIsNew' /\ QueueInv'
    BY TypeStep, CountSteps, QueueStep
  <2>2. Counted \in SUBSET Jobs /\ Uncounted \in SUBSET Jobs
        /\ Counted' \in SUBSET Jobs /\ Uncounted' \in SUBSET Jobs
    BY DEF Counted, Uncounted
  <2> DEFINE c == Cardinality(Counted)
             u == Cardinality(Uncounted)
             n == Cardinality(Jobs)
  <2>3. /\ c \in Nat /\ u \in Nat /\ n \in Nat
        /\ c <= n /\ u <= n /\ c' <= n /\ u' <= n
        /\ CounterModulus \in Nat /\ n < CounterModulus
    BY <2>2, JobSets, RuntimeAssumption
  <2>4. outstanding = IF c - u >= 0 THEN c - u ELSE CounterModulus + (c - u)
    BY DEF CounterInv
  <2>5. \/ c' = c /\ u' = u /\ outstanding' = outstanding
        \/ c' = c + 1 /\ u' = u /\ outstanding' = Incr(outstanding)
        \/ c' = c /\ u' = u + 1 /\ outstanding' = Decr(outstanding)
    BY <2>2, CountSteps, JobSets
  <2>6. outstanding' = IF c' - u' >= 0 THEN c' - u' ELSE CounterModulus + (c' - u')
    <3> HIDE DEF c, u, n
    <3> QED BY <2>3, <2>4, <2>5 DEF Incr, Decr
  <2>7. CounterInv'
    BY <2>6 DEF CounterInv
  <2> QED BY <2>1, <2>7
<1> QED BY <1>1, <1>2, PTL DEF Spec

(* The counter is the number of counted jobs less the number of dropped    *)
(* guards, modulo the width of the counter, in every interleaving.         *)
THEOREM CounterCorrect == Spec => []CounterInv
<1>1. CountInv => CounterInv
  BY DEF CountInv
<1> QED BY <1>1, CountInvariant, PTL

(* Outside the window of submit a zero counter means that every accepted   *)
(* job is over: the test flush and the dispatcher rely on.                 *)
THEOREM ZeroIsIdle == Spec => []ZeroMeansIdle
<1>1. CountInv => ZeroMeansIdle
  <2> SUFFICES ASSUME CountInv, outstanding = 0, \A j \in Jobs : sub[j] # "sent"
               PROVE  Accepted = Uncounted
    BY DEF ZeroMeansIdle
  <2>1. Counted \in SUBSET Jobs /\ Uncounted \in SUBSET Jobs
    BY DEF Counted, Uncounted
  <2>2. Accepted = Counted
    BY DEF CountInv, UnsentIsNew, Accepted, Counted
  <2>3. Uncounted \subseteq Accepted
    BY DEF Uncounted, Accepted
  <2>4. Cardinality(Uncounted) = Cardinality(Counted)
    <3>1. /\ Cardinality(Counted) \in Nat /\ Cardinality(Uncounted) \in Nat
          /\ Cardinality(Uncounted) < CounterModulus /\ CounterModulus \in Nat
      BY <2>1, JobSets, RuntimeAssumption
    <3> QED BY <3>1 DEF CountInv, CounterInv
  <2>5. Uncounted = Counted
    BY <2>1, <2>2, <2>3, <2>4, JobSets, FS_Subset
  <2> QED BY <2>2, <2>5
<1>2. Spec => []CountInv
  BY CountInvariant
<1> QED BY <1>1, <1>2, PTL

-----------------------------------------------------------------------------
(* Permits *)

(* What a step may do to the permits and to the jobs that hold one. *)
LEMMA PermitSteps ==
  ASSUME TypeOK, UnsentIsNew, QueueInv, [Next]_vars
  PROVE  \/ UNCHANGED <<permits, Holding>>
         \/ \E j \in Jobs \ Holding : Holding' = Holding \cup {j} /\ permits' = permits - 1
                                      /\ permits > 0
         \/ \E j \in Holding : Holding' = Holding \ {j} /\ permits' = permits + 1
<1> DEFINE Quiet == UNCHANGED <<permits, Holding>>
<1> USE DEF TypeOK, Holding, callVars, stopVars, SubmitError, JobState
<1>1. ASSUME NEW s \in Starters, StartNext(s) PROVE Quiet
  BY <1>1 DEF StartNext, StartCheck, StartSpawn, StartBuildError, StartPublish
<1>2. ASSUME NEW j \in Jobs, SubmitNext(j) PROVE Quiet
  <2>1. CASE SubmitSend(j)
    BY <2>1 DEF SubmitSend, UnsentIsNew
  <2>2. CASE SubmitRefuse(j) \/ SubmitCount(j)
    BY <2>2 DEF SubmitRefuse, SubmitCount
  <2> QED BY <1>2, <2>1, <2>2 DEF SubmitNext
<1>3. ASSUME DispatchRecv PROVE Quiet
  <2>1. Head(queue) \in Jobs /\ job[Head(queue)] = "queued"
    BY <1>3 DEF DispatchRecv, QueueInv
  <2> QED BY <1>3, <2>1 DEF DispatchRecv
<1>4. ASSUME DispatchClosed \/ DispatchDrain \/ DispatchPark PROVE Quiet
  BY <1>4 DEF DispatchClosed, DispatchDrain, DispatchPark
<1>5. ASSUME NEW j \in Jobs, DispatchSpawn(j)
      PROVE  /\ j \in Jobs \ Holding
             /\ Holding' = Holding \cup {j} /\ permits' = permits - 1 /\ permits > 0
  BY <1>5 DEF DispatchSpawn
<1>6. ASSUME NEW j \in Jobs, TaskPoll(j) \/ GuardDrop(j) \/ GuardWake(j) PROVE Quiet
  BY <1>6 DEF TaskPoll, GuardDrop, GuardWake
<1>7. ASSUME NEW j \in Jobs, TaskReturn(j) \/ TaskCancel(j)
      PROVE  j \in Holding /\ Holding' = Holding \ {j} /\ permits' = permits + 1
  <2>1. CASE TaskReturn(j)
    BY <2>1 DEF TaskReturn
  <2>2. CASE TaskCancel(j)
    BY <2>2 DEF TaskCancel
  <2> QED BY <1>7, <2>1, <2>2
<1>8. ASSUME NEW f \in Flushers, FlushNext(f) PROVE Quiet
  BY <1>8 DEF FlushNext, FlushCall, FlushLock, FlushTest, FlushWait,
              FlushSpurious, FlushDeadline
<1>9. ASSUME NEW s \in Stoppers, StopNext(s) PROVE Quiet
  BY <1>9 DEF StopNext, StopEnter, StopMark, StopClose, StopJoin, StopStore, StopFinish
<1>10. CASE UNCHANGED vars
  BY <1>10 DEF vars
<1> HIDE DEF TypeOK, Holding
<1> QED BY <1>1, <1>2, <1>3, <1>4, <1>5, <1>6, <1>7, <1>8, <1>9, <1>10
        DEF Next, DispatchNext, TaskNext

(* Permits are neither lost nor duplicated by any mix of completion and    *)
(* cancellation.                                                           *)
THEOREM PermitsConserved == Spec => []PermitInv
<1>1. Init => PermitInv
  <2> SUFFICES ASSUME Init PROVE PermitInv
    OBVIOUS
  <2>1. Holding = {}
    BY DEF Init, Holding
  <2> QED BY <2>1, FS_EmptySet, RuntimeAssumption DEF Init, PermitInv
<1>2. PermitInv /\ CountInv /\ [Next]_vars => PermitInv'
  <2> SUFFICES ASSUME PermitInv, CountInv, [Next]_vars PROVE PermitInv'
    OBVIOUS
  <2>1. Holding \in SUBSET Jobs
    BY DEF Holding
  <2>2. Cardinality(Holding) \in Nat /\ permits \in Nat /\ MaxConcurrency \in Nat
    BY <2>1, JobSets, RuntimeAssumption DEF CountInv, TypeOK
  <2>3. \/ Cardinality(Holding)' = Cardinality(Holding) /\ permits' = permits
        \/ Cardinality(Holding)' = Cardinality(Holding) + 1 /\ permits' = permits - 1
        \/ Cardinality(Holding)' = Cardinality(Holding) - 1 /\ permits' = permits + 1
    BY <2>1, PermitSteps, JobSets DEF CountInv
  <2> QED BY <2>2, <2>3 DEF PermitInv
<1> QED BY <1>1, <1>2, CountInvariant, PTL DEF Spec

(* At most MaxConcurrency handlers exist at once. *)
THEOREM ConcurrencyBounded == Spec => []ConcurrencyBound
<1>1. PermitInv /\ TypeOK => ConcurrencyBound
  <2> SUFFICES ASSUME PermitInv, TypeOK PROVE ConcurrencyBound
    OBVIOUS
  <2>1. Holding \in SUBSET Jobs
    BY DEF Holding
  <2>2. Cardinality(Holding) \in Nat /\ permits \in Nat /\ MaxConcurrency \in Nat
    BY <2>1, JobSets, RuntimeAssumption DEF TypeOK
  <2> QED BY <2>2 DEF PermitInv, ConcurrencyBound
<1> QED BY <1>1, PermitsConserved, TypeCorrect, PTL

-----------------------------------------------------------------------------
(* The lifecycle *)

\* Who is inside start, and what the lifecycle says about it.
StartInv ==
  /\ \A s, t \in Starters :
       {start[s], start[t]} \subseteq {"checked", "spawned"} => s = t
  /\ lifecycle \in {"Running", "ShuttingDown"} => OpsFree
  /\ \A x \in Stoppers : stop[x] = "close" => OpsFree /\ lifecycle # "NotStarted"

LEMMA StartStep == TypeOK /\ StartInv /\ [Next]_vars => StartInv'
<1> SUFFICES ASSUME TypeOK, StartInv, [Next]_vars PROVE StartInv'
  OBVIOUS
<1> USE DEF TypeOK, StartInv, OpsFree, callVars, stopVars, LifecycleState
<1>1. ASSUME NEW s \in Starters, StartNext(s) PROVE StartInv'
  <2>1. CASE StartCheck(s)
    BY <2>1 DEF StartCheck
  <2>2. CASE StartSpawn(s)
    BY <2>2 DEF StartSpawn
  <2>3. CASE StartBuildError(s)
    BY <2>3 DEF StartBuildError
  <2>4. CASE StartPublish(s)
    BY <2>4 DEF StartPublish
  <2> QED BY <1>1, <2>1, <2>2, <2>3, <2>4 DEF StartNext
<1>2. ASSUME NEW j \in Jobs, SubmitNext(j) \/ TaskNext(j) PROVE StartInv'
  BY <1>2 DEF SubmitNext, SubmitSend, SubmitRefuse, SubmitCount, TaskNext,
              TaskPoll, TaskReturn, TaskCancel, GuardDrop, GuardWake
<1>3. ASSUME DispatchNext PROVE StartInv'
  BY <1>3 DEF DispatchNext, DispatchRecv, DispatchClosed, DispatchDrain,
              DispatchPark, DispatchSpawn
<1>4. ASSUME NEW f \in Flushers, FlushNext(f) PROVE StartInv'
  BY <1>4 DEF FlushNext, FlushCall, FlushLock, FlushTest, FlushWait,
              FlushSpurious, FlushDeadline
<1>5. ASSUME NEW s \in Stoppers, StopNext(s) PROVE StartInv'
  <2>1. CASE StopEnter(s)
    BY <2>1 DEF StopEnter
  <2>2. CASE StopMark(s)
    BY <2>2 DEF StopMark
  <2>3. CASE StopClose(s)
    BY <2>3 DEF StopClose
  <2>4. CASE StopJoin(s) \/ StopStore(s)
    BY <2>4 DEF StopJoin, StopStore
  <2>5. CASE StopFinish(s)
    BY <2>5 DEF StopFinish
  <2> QED BY <1>5, <2>1, <2>2, <2>3, <2>4, <2>5 DEF StopNext
<1>6. CASE UNCHANGED vars
  BY <1>6 DEF vars
<1> QED BY <1>1, <1>2, <1>3, <1>4, <1>5, <1>6 DEF Next

(* A runtime that is shutting down is never made to run again. *)
THEOREM NeverReopened == Spec => NoReopen
<1> DEFINE Forward == lifecycle = "ShuttingDown" => lifecycle' \in {"ShuttingDown", "Stopped"}
<1>1. Init => StartInv
  BY DEF Init, StartInv, OpsFree
<1>2. TypeOK /\ StartInv /\ [Next]_vars => [Forward]_vars
  <2> SUFFICES ASSUME TypeOK, StartInv, Next PROVE Forward
    OBVIOUS
  <2> USE DEF callVars, stopVars
  <2>1. ASSUME NEW s \in Starters, StartNext(s) PROVE Forward
    BY <2>1 DEF StartNext, StartCheck, StartSpawn, StartBuildError, StartPublish,
                StartInv, OpsFree
  <2>2. ASSUME NEW j \in Jobs, SubmitNext(j) \/ TaskNext(j) PROVE Forward
    BY <2>2 DEF SubmitNext, SubmitSend, SubmitRefuse, SubmitCount, TaskNext,
                TaskPoll, TaskReturn, TaskCancel, GuardDrop, GuardWake
  <2>3. ASSUME DispatchNext PROVE Forward
    BY <2>3 DEF DispatchNext, DispatchRecv, DispatchClosed, DispatchDrain,
                DispatchPark, DispatchSpawn
  <2>4. ASSUME NEW f \in Flushers, FlushNext(f) PROVE Forward
    BY <2>4 DEF FlushNext, FlushCall, FlushLock, FlushTest, FlushWait,
                FlushSpurious, FlushDeadline
  <2>5. ASSUME NEW s \in Stoppers, StopNext(s) PROVE Forward
    BY <2>5 DEF StopNext, StopEnter, StopMark, StopClose, StopJoin, StopStore, StopFinish
  <2> QED BY <2>1, <2>2, <2>3, <2>4, <2>5 DEF Next
<1>3. Spec => []StartInv
  BY <1>1, StartStep, TypeCorrect, PTL DEF Spec
<1> QED BY <1>2, <1>3, TypeCorrect, PTL DEF Spec, NoReopen

-----------------------------------------------------------------------------
(* shutdown *)

\* The first call of shutdown holds the stage InProgress until it is done.
StageInv ==
  /\ \A s \in Stoppers : stop[s] \in {"close", "join", "store", "finish"} => stage = "InProgress"
  /\ \A s \in Stoppers : stop[s] = "mark" => stage # "InProgress"
  /\ OneTeardown

LEMMA StageStep == TypeOK /\ StageInv /\ [Next]_vars => StageInv'
<1> SUFFICES ASSUME TypeOK, StageInv, [Next]_vars PROVE StageInv'
  OBVIOUS
<1> USE DEF TypeOK, StageInv, OneTeardown, StageLockFree, callVars, stopVars
<1>1. ASSUME NEW s \in Starters, StartNext(s) PROVE StageInv'
  BY <1>1 DEF StartNext, StartCheck, StartSpawn, StartBuildError, StartPublish
<1>2. ASSUME NEW j \in Jobs, SubmitNext(j) \/ TaskNext(j) PROVE StageInv'
  BY <1>2 DEF SubmitNext, SubmitSend, SubmitRefuse, SubmitCount, TaskNext,
              TaskPoll, TaskReturn, TaskCancel, GuardDrop, GuardWake
<1>3. ASSUME DispatchNext PROVE StageInv'
  BY <1>3 DEF DispatchNext, DispatchRecv, DispatchClosed, DispatchDrain,
              DispatchPark, DispatchSpawn
<1>4. ASSUME NEW f \in Flushers, FlushNext(f) PROVE StageInv'
  BY <1>4 DEF FlushNext, FlushCall, FlushLock, FlushTest, FlushWait,
              FlushSpurious, FlushDeadline
<1>5. ASSUME NEW s \in Stoppers, StopNext(s) PROVE StageInv'
  <2>1. CASE StopEnter(s)
    BY <2>1 DEF StopEnter
  <2>2. CASE StopMark(s)
    BY <2>2 DEF StopMark
  <2>3. CASE StopClose(s) \/ StopJoin(s) \/ StopStore(s)
    BY <2>3 DEF StopClose, StopJoin, StopStore
  <2>4. CASE StopFinish(s)
    BY <2>4 DEF StopFinish
  <2> QED BY <1>5, <2>1, <2>2, <2>3, <2>4 DEF StopNext
<1>6. CASE UNCHANGED vars
  BY <1>6 DEF vars
<1> QED BY <1>1, <1>2, <1>3, <1>4, <1>5, <1>6 DEF Next

(* Of all calls of shutdown only one takes the runtime down. *)
THEOREM TornDownOnce == Spec => []OneTeardown
<1>1. Init => StageInv
  BY DEF Init, StageInv, OneTeardown
<1>2. StageInv => OneTeardown
  BY DEF StageInv
<1> QED BY <1>1, <1>2, StageStep, TypeCorrect, PTL DEF Spec

-----------------------------------------------------------------------------
(* The dispatcher leaves nothing behind *)

\* What the dispatcher knows of the channel from where it stands.
ChannelInv ==
  /\ open => disp \in {"recv", "permit"}
  /\ disp = "off" => \A j \in Jobs : job[j] = "new"
  /\ disp \in {"drain", "arm", "parked", "exited"} =>
       ~open /\ \A j \in Jobs : job[j] \notin {"queued", "held"}

\* The dispatcher is spawned once, by the start that found it missing.
SpawnInv ==
  /\ \A s \in Starters : start[s] = "checked" => disp = "off"
  /\ lifecycle = "NotStarted" /\ OpsFree => disp = "off"

\* A queued job is in the channel, and the only held one in hand.
PlaceInv ==
  /\ \A j \in Jobs : job[j] = "queued" => \E i \in 1 .. Len(queue) : queue[i] = j
  /\ \A j \in Jobs : job[j] = "held" => disp = "permit"
  /\ \A j, k \in Jobs : job[j] = "held" /\ job[k] = "held" => j = k

LeaveInv == ChannelInv /\ SpawnInv /\ PlaceInv

LEMMA LeaveStep ==
  TypeOK /\ QueueInv /\ StartInv /\ LeaveInv /\ [Next]_vars => LeaveInv'
<1> SUFFICES ASSUME TypeOK, QueueInv, StartInv, LeaveInv, [Next]_vars PROVE LeaveInv'
  OBVIOUS
<1> USE DEF LeaveInv, TypeOK, callVars, stopVars
<1>1. ASSUME NEW s \in Starters, StartNext(s) PROVE LeaveInv'
  <2>1. CASE StartCheck(s)
    BY <2>1 DEF StartCheck, ChannelInv, SpawnInv, PlaceInv, OpsFree
  <2>2. CASE StartSpawn(s)
    <3>1. \A j \in Jobs : job[j] = "new"
      BY <2>2 DEF StartSpawn, SpawnInv, ChannelInv
    <3>2. \A t \in Starters : start'[t] # "checked"
      BY <2>2 DEF StartSpawn, StartInv
    <3>3. ChannelInv' /\ PlaceInv'
      BY <2>2, <3>1 DEF StartSpawn, ChannelInv, PlaceInv
    <3>4. SpawnInv'
      BY <2>2, <3>2 DEF StartSpawn, SpawnInv, OpsFree
    <3> QED BY <3>3, <3>4
  <2>3. CASE StartBuildError(s)
    BY <2>3 DEF StartBuildError, ChannelInv, SpawnInv, PlaceInv, OpsFree
  <2>4. CASE StartPublish(s)
    BY <2>4 DEF StartPublish, ChannelInv, SpawnInv, PlaceInv, OpsFree
  <2> QED BY <1>1, <2>1, <2>2, <2>3, <2>4 DEF StartNext
<1>2. ASSUME NEW j \in Jobs, SubmitSend(j) PROVE LeaveInv'
  <2>1. ChannelInv' /\ SpawnInv'
    BY <1>2 DEF SubmitSend, ChannelInv, SpawnInv, OpsFree
  <2>2. /\ Len(queue') = Len(queue) + 1
        /\ \A i \in 1 .. Len(queue) : queue'[i] = queue[i]
        /\ queue'[Len(queue) + 1] = j /\ Len(queue) \in Nat
    BY <1>2 DEF SubmitSend
  <2>3. ASSUME NEW k \in Jobs, job'[k] = "queued"
        PROVE  \E i \in 1 .. Len(queue') : queue'[i] = k
    <3>1. CASE k = j
      BY <2>2, <3>1
    <3>2. CASE k # j
      <4>1. job[k] = "queued"
        BY <1>2, <2>3, <3>2 DEF SubmitSend
      <4>2. PICK i \in 1 .. Len(queue) : queue[i] = k
        BY <4>1 DEF PlaceInv
      <4> QED BY <2>2, <4>2
    <3> QED BY <3>1, <3>2
  <2>4. \A k \in Jobs : job'[k] = "held" => job[k] = "held"
    BY <1>2 DEF SubmitSend
  <2> QED BY <1>2, <2>1, <2>3, <2>4 DEF SubmitSend, PlaceInv
<1>3. ASSUME NEW j \in Jobs, SubmitRefuse(j) \/ SubmitCount(j) PROVE LeaveInv'
  BY <1>3 DEF SubmitRefuse, SubmitCount, ChannelInv, SpawnInv, PlaceInv, OpsFree
<1>4. ASSUME DispatchRecv PROVE LeaveInv'
  <2>1. ChannelInv' /\ SpawnInv'
    BY <1>4 DEF DispatchRecv, ChannelInv, SpawnInv, OpsFree
  <2>2. /\ Head(queue) \in Jobs /\ Head(queue) = queue[1]
        /\ Len(queue') = Len(queue) - 1 /\ Len(queue) \in Nat \ {0}
        /\ \A i \in 1 .. Len(queue) - 1 : queue'[i] = queue[i + 1]
    BY <1>4 DEF DispatchRecv
  <2>3. job' = [job EXCEPT ![Head(queue)] = "held"]
    BY <1>4 DEF DispatchRecv
  <2>4. ASSUME NEW k \in Jobs, job'[k] = "queued"
        PROVE  \E i \in 1 .. Len(queue') : queue'[i] = k
    <3>1. job[k] = "queued" /\ k # queue[1]
      BY <2>2, <2>3, <2>4
    <3>2. PICK i \in 1 .. Len(queue) : queue[i] = k
      BY <3>1 DEF PlaceInv
    <3>3. i - 1 \in 1 .. Len(queue') /\ queue'[i - 1] = queue[i]
      BY <2>2, <3>1, <3>2
    <3> QED BY <3>2, <3>3
  <2>5. \A k \in Jobs : job[k] # "held"
    BY <1>4 DEF DispatchRecv, PlaceInv
  <2>6. \A k \in Jobs : job'[k] = "held" => k = Head(queue)
    BY <2>3, <2>5
  <2> QED BY <1>4, <2>1, <2>4, <2>6 DEF DispatchRecv, PlaceInv
<1>5. ASSUME DispatchClosed PROVE LeaveInv'
  <2>1. \A j \in Jobs : job[j] \notin {"queued", "held"}
    BY <1>5 DEF DispatchClosed, PlaceInv
  <2> QED BY <1>5, <2>1 DEF DispatchClosed, ChannelInv, SpawnInv, PlaceInv, OpsFree
<1>6. ASSUME DispatchDrain \/ DispatchPark PROVE LeaveInv'
  BY <1>6 DEF DispatchDrain, DispatchPark, ChannelInv, SpawnInv, PlaceInv, OpsFree
<1>7. ASSUME NEW j \in Jobs, DispatchSpawn(j) PROVE LeaveInv'
  BY <1>7 DEF DispatchSpawn, ChannelInv, SpawnInv, PlaceInv, OpsFree
<1>8. ASSUME NEW j \in Jobs, TaskNext(j) PROVE LeaveInv'
  <2>1. /\ \A k \in Jobs : job'[k] \in {"new", "queued", "held"} => job'[k] = job[k]
        /\ \A k \in Jobs : job[k] \in {"new", "queued", "held"} => job'[k] = job[k]
    BY <1>8 DEF TaskNext, TaskPoll, TaskReturn, TaskCancel, GuardDrop, GuardWake
  <2>2. UNCHANGED <<lifecycle, open, queue, start>>
    BY <1>8 DEF TaskNext, TaskPoll, TaskReturn, TaskCancel, GuardDrop, GuardWake
  <2>3. disp' = disp \/ (disp = "parked" /\ disp' = "drain")
    BY <1>8 DEF TaskNext, TaskPoll, TaskReturn, TaskCancel, GuardDrop, GuardWake, WakeWaiters
  <2>4. ChannelInv' /\ SpawnInv'
    BY <2>1, <2>2, <2>3 DEF ChannelInv, SpawnInv, OpsFree
  <2>5. PlaceInv'
    BY <2>1, <2>2, <2>3 DEF PlaceInv
  <2> QED BY <2>4, <2>5
<1>9. ASSUME NEW f \in Flushers, FlushNext(f) PROVE LeaveInv'
  BY <1>9 DEF FlushNext, FlushCall, FlushLock, FlushTest, FlushWait, FlushSpurious,
              FlushDeadline, ChannelInv, SpawnInv, PlaceInv, OpsFree
<1>10. ASSUME NEW s \in Stoppers, StopNext(s) PROVE LeaveInv'
  <2>1. UNCHANGED <<job, queue, start>>
    BY <1>10 DEF StopNext, StopEnter, StopMark, StopClose, StopJoin, StopStore, StopFinish
  <2>2. lifecycle' = "NotStarted" => lifecycle = "NotStarted"
    BY <1>10 DEF StopNext, StopEnter, StopMark, StopClose, StopJoin, StopStore, StopFinish
  <2>3. open' = open \/ open' = FALSE
    BY <1>10 DEF StopNext, StopEnter, StopMark, StopClose, StopJoin, StopStore, StopFinish
  <2>4. disp' = disp \/ (disp = "parked" /\ disp' = "drain")
    BY <1>10 DEF StopNext, StopEnter, StopMark, StopClose, StopJoin, StopStore, StopFinish,
                 WakeWaiters
  <2>5. ChannelInv' /\ SpawnInv'
    BY <2>1, <2>2, <2>3, <2>4 DEF ChannelInv, SpawnInv, OpsFree
  <2>6. PlaceInv'
    BY <2>1, <2>4 DEF PlaceInv
  <2> QED BY <2>5, <2>6
<1>11. CASE UNCHANGED vars
  BY <1>11 DEF vars, ChannelInv, SpawnInv, PlaceInv, OpsFree
<1> QED BY <1>1, <1>2, <1>3, <1>4, <1>5, <1>6, <1>7, <1>8, <1>9, <1>10, <1>11
        DEF Next, SubmitNext, DispatchNext

(* When the dispatcher has left, every accepted job has got a task. *)
THEOREM NothingStranded == Spec => []NoStrandedJob
<1>1. Init => StartInv /\ LeaveInv
  BY DEF Init, StartInv, LeaveInv, ChannelInv, SpawnInv, PlaceInv, OpsFree
<1>2. Spec => []StartInv
  BY <1>1, StartStep, TypeCorrect, PTL DEF Spec
<1>3. CountInv => QueueInv
  BY DEF CountInv
<1>4. LeaveInv => NoStrandedJob
  BY DEF LeaveInv, ChannelInv, NoStrandedJob
<1> QED BY <1>1, <1>2, <1>3, <1>4, LeaveStep, CountInvariant, TypeCorrect, PTL DEF Spec

-----------------------------------------------------------------------------
(***************************************************************************)
(* The worker runtime implements the job pool: every step of a start,      *)
(* submit, flush, shutdown, of the dispatcher or of a task is a step of    *)
(* the pool or none.                                                       *)
(***************************************************************************)
(* What the pool sees of the runtime.                                      *)

Line  == IF InHand = {} THEN queue ELSE <<CHOOSE j \in InHand : TRUE>> \o queue
Ended == Accepted \ (Holding \cup {j \in Jobs : job[j] \in {"queued", "held"}})

RefineInv == CountInv /\ PermitInv /\ StartInv /\ LeaveInv

\* The line is the channel, behind the one job that waits for its permit.
Shape ==
    /\ (\A j \in Jobs : job[j] # "held") => Line = queue
    /\ \A j \in Jobs : job[j] = "held" => Line = <<j>> \o queue

LEMMA LineShape == TypeOK /\ PlaceInv => Shape
<1> SUFFICES ASSUME TypeOK, PlaceInv PROVE Shape
    OBVIOUS
<1>1. ASSUME \A j \in Jobs : job[j] # "held" PROVE Line = queue
    BY <1>1 DEF Line, InHand
<1>2. ASSUME NEW j \in Jobs, job[j] = "held" PROVE Line = <<j>> \o queue
    <2>1. InHand = {j}
        BY <1>2 DEF InHand, PlaceInv
    <2>2. (CHOOSE k \in InHand : TRUE) = j
        BY <2>1
    <2> QED
        BY <2>1, <2>2 DEF Line
<1> QED
    BY <1>1, <1>2 DEF Shape

LEMMA LineShapeNext == TypeOK' /\ PlaceInv' => Shape'
    BY LineShape, PTL

\* Line' and Ended' depend on the channel and the jobs alone.
LEMMA NothingSeen ==
    ASSUME TypeOK, TypeOK', queue' = queue,
           \A j \in Jobs : job'[j] = job[j]
    PROVE  Line' = Line /\ Holding' = Holding /\ Ended' = Ended
<1>1. InHand' = InHand
    BY DEF InHand
<1>2. Holding' = Holding /\ Ended' = Ended
    BY DEF Holding, Ended, Accepted
<1> QED
    BY <1>1, <1>2 DEF Line

\* A task that ends, or is cancelled, leaves the active jobs and nothing else.
LEMMA TaskEnds ==
    ASSUME TypeOK, NEW j \in Jobs, job[j] \in {"spawned", "running"},
           NEW after \in {"released", "dropped"}, job' = [job EXCEPT ![j] = after],
           queue' = queue
    PROVE  /\ Line' = Line /\ j \in Holding
           /\ Holding' = Holding \ {j} /\ Ended' = Ended \cup {j}
<1>1. InHand' = InHand
    BY DEF InHand, TypeOK
<1>2. j \in Holding /\ Holding' = Holding \ {j}
    BY DEF Holding, TypeOK
<1>3. Ended' = Ended \cup {j}
    BY DEF Ended, Holding, Accepted, TypeOK
<1> QED
    BY <1>1, <1>2, <1>3 DEF Line

\* A job that moves within the tasks: polled, or with its guard dropped.
LEMMA TaskMoves ==
    ASSUME TypeOK, NEW j \in Jobs, NEW after, job' = [job EXCEPT ![j] = after],
           queue' = queue,
           \/ job[j] = "spawned" /\ after = "running"
           \/ job[j] = "released" /\ after \in {"waking", "finished"}
           \/ job[j] = "waking" /\ after = "finished"
    PROVE  Line' = Line /\ Holding' = Holding /\ Ended' = Ended
<1>1. InHand' = InHand
    BY DEF InHand, TypeOK
<1>2. Holding' = Holding
    BY DEF Holding, TypeOK
<1>3. Ended' = Ended
    BY DEF Ended, Holding, Accepted, TypeOK
<1> QED
    BY <1>1, <1>2, <1>3 DEF Line

-----------------------------------------------------------------------------
(* The steps that the pool sees.                                           *)

\* The step Begin of the pool in terms of the runtime.
LEMMA PoolBegin ==
    ASSUME Line # <<>>, Cardinality(Holding) < MaxConcurrency,
           Holding' = Holding \cup {Head(Line)}, Line' = Tail(Line), Ended' = Ended
    PROVE  Pool!Begin
<1>1. Pool!Cardinality(Holding) = Cardinality(Holding)
    BY Zenon DEF Pool!Cardinality, Cardinality
<1> QED
    BY <1>1 DEF Pool!Begin, Line, Ended

\* A submit that is accepted puts a job at the end of the line that was in no
\* part of the pool.
LEMMA SendAccepts ==
    ASSUME RefineInv, RefineInv', NEW j \in Jobs, SubmitSend(j)
    PROVE  Pool!Accept(j)
<1>1. /\ TypeOK /\ PlaceInv /\ TypeOK' /\ PlaceInv' /\ QueueInv
    BY DEF RefineInv, CountInv, LeaveInv
<1>2. job[j] = "new" /\ job' = [job EXCEPT ![j] = "queued"] /\ queue' = Append(queue, j)
    BY DEF SubmitSend, RefineInv, CountInv, UnsentIsNew, TypeOK, SubmitError
<1>3. j \notin Holding /\ j \notin Ended /\ Holding' = Holding /\ Ended' = Ended
    BY <1>1, <1>2 DEF Holding, Ended, Accepted, TypeOK
<1>4. queue \in Seq(Jobs) /\ Len(queue) \in Nat /\ Len(queue) < QueueCapacity
    BY <1>1 DEF SubmitSend, TypeOK
<1>5. \A i \in 1 .. Len(queue) : queue[i] # j
    BY <1>1, <1>2 DEF QueueInv
<1>6. /\ Line' = Append(Line, j) /\ Len(Line) < QueueCapacity + 1
      /\ \A i \in DOMAIN Line : Line[i] # j
    <2>1. CASE \A k \in Jobs : job[k] # "held"
        <3>1. Line = queue
            BY <1>1, <2>1, LineShape DEF Shape
        <3>2. \A k \in Jobs : job'[k] # "held"
            BY <1>1, <1>2, <2>1 DEF TypeOK
        <3>3. Line' = queue'
            BY <1>1, <3>2, LineShapeNext DEF Shape
        <3> QED
            BY <1>2, <1>4, <1>5, <3>1, <3>3, RuntimeAssumption
    <2>2. ASSUME NEW k \in Jobs, job[k] = "held"
          PROVE  /\ Line' = Append(Line, j) /\ Len(Line) < QueueCapacity + 1
                 /\ \A i \in DOMAIN Line : Line[i] # j
        <3>1. Line = <<k>> \o queue
            BY <1>1, <2>2, LineShape DEF Shape
        <3>2. job'[k] = "held" /\ k # j
            BY <1>1, <1>2, <2>2 DEF TypeOK
        <3>3. Line' = <<k>> \o queue'
            BY <1>1, <3>2, LineShapeNext DEF Shape
        <3>4. <<k>> \o Append(queue, j) = Append(<<k>> \o queue, j)
            BY <1>4
        <3>5. Len(Line) = Len(queue) + 1
            BY <1>4, <3>1
        <3>6. \A i \in DOMAIN Line : Line[i] = k \/ \E n \in 1 .. Len(queue) : Line[i] = queue[n]
            <4> TAKE i \in DOMAIN Line
            <4>1. i \in 1 .. Len(queue) + 1
                BY <1>4, <3>1
            <4>2. CASE i = 1
                BY <1>4, <3>1, <4>2
            <4>3. CASE i # 1
                <5>1. i - 1 \in 1 .. Len(queue) /\ Line[i] = queue[i - 1]
                    BY <1>4, <3>1, <4>1, <4>3
                <5> QED
                    BY <5>1
            <4> QED
                BY <4>2, <4>3
        <3> QED
            BY <1>2, <1>4, <1>5, <3>1, <3>2, <3>3, <3>4, <3>5, <3>6, RuntimeAssumption
    <2> QED
        BY <2>1, <2>2
<1> QED
    BY <1>3, <1>6 DEF Pool!Accept, Pool!Waiting, Line, Ended

\* The dispatcher takes the oldest job out of the channel: the line is the same.
LEMMA RecvIsUnseen ==
    ASSUME RefineInv, RefineInv', DispatchRecv
    PROVE  Line' = Line /\ Holding' = Holding /\ Ended' = Ended
<1>1. TypeOK /\ PlaceInv /\ TypeOK' /\ PlaceInv' /\ QueueInv
    BY DEF RefineInv, CountInv, LeaveInv
<1>2. /\ queue \in Seq(Jobs) /\ queue # <<>> /\ queue' = Tail(queue)
      /\ job' = [job EXCEPT ![Head(queue)] = "held"]
    BY <1>1 DEF DispatchRecv, TypeOK
<1>3. Head(queue) \in Jobs /\ job[Head(queue)] = "queued" /\ <<Head(queue)>> \o Tail(queue) = queue
    BY <1>1, <1>2 DEF QueueInv
<1>4. Line = queue
    BY <1>1, LineShape DEF DispatchRecv, PlaceInv, Shape
<1>5. job'[Head(queue)] = "held"
    BY <1>1, <1>2, <1>3 DEF TypeOK
<1>6. Line' = <<Head(queue)>> \o queue'
    BY <1>1, <1>3, <1>5, LineShapeNext DEF Shape
<1>7. Holding' = Holding /\ Ended' = Ended
    BY <1>1, <1>2, <1>3 DEF Holding, Ended, Accepted, TypeOK
<1> QED
    BY <1>2, <1>3, <1>4, <1>6, <1>7

\* With a permit the job in hand, which is the oldest of the line, begins.
LEMMA SpawnBegins ==
    ASSUME RefineInv, RefineInv', NEW j \in Jobs, DispatchSpawn(j)
    PROVE  Pool!Begin
<1>1. TypeOK /\ PlaceInv /\ TypeOK' /\ PlaceInv' /\ PermitInv
    BY DEF RefineInv, CountInv, LeaveInv
<1>2. job[j] = "held" /\ job' = [job EXCEPT ![j] = "spawned"] /\ queue' = queue /\ permits > 0
    BY DEF DispatchSpawn
<1>3. Line = <<j>> \o queue
    BY <1>1, <1>2, LineShape DEF Shape
<1>4. \A k \in Jobs : job'[k] # "held"
    BY <1>1, <1>2 DEF PlaceInv, TypeOK
<1>5. Line' = queue
    BY <1>1, <1>2, <1>4, LineShapeNext DEF Shape
<1>6. queue \in Seq(Jobs)
    BY <1>1 DEF TypeOK
<1>7. Line # <<>> /\ Head(Line) = j /\ Tail(Line) = queue
    <2>1. <<j>> \o queue # <<>> /\ Head(<<j>> \o queue) = j
        BY <1>6
    <2>2. Tail(<<j>> \o queue) = queue
        BY <1>6
    <2> QED
        BY <1>3, <2>1, <2>2
<1>8. Holding' = Holding \cup {j} /\ Ended' = Ended
    BY <1>1, <1>2 DEF Holding, Ended, Accepted, TypeOK
<1>9. Cardinality(Holding) < MaxConcurrency
    <2>1. Holding \in SUBSET Jobs
        BY DEF Holding
    <2> QED
        BY <1>1, <1>2, <2>1, JobSets, RuntimeAssumption DEF PermitInv, TypeOK
<1> QED
    BY <1>5, <1>7, <1>8, <1>9, PoolBegin

-----------------------------------------------------------------------------
(* The refinement.                                                         *)

LEMMA PoolStutters ==
    ASSUME Line' = Line, Holding' = Holding, Ended' = Ended
    PROVE  UNCHANGED Pool!poolVars
BY DEF Pool!poolVars, Line, Ended

LEMMA PoolEnds ==
    ASSUME NEW j \in Jobs, j \in Holding,
           Line' = Line, Holding' = Holding \ {j}, Ended' = Ended \cup {j}
    PROVE  Pool!Next
<1>1. Pool!End(j)
    BY DEF Pool!End, Line, Ended
<1> QED
    BY <1>1 DEF Pool!Next

LEMMA PoolStep ==
    ASSUME RefineInv, RefineInv', [Next]_vars
    PROVE  [Pool!Next]_Pool!poolVars
<1>1. TypeOK /\ TypeOK'
    BY DEF RefineInv, CountInv
<1>2. ASSUME UNCHANGED <<queue, job>> PROVE UNCHANGED Pool!poolVars
    BY <1>1, <1>2, NothingSeen, PoolStutters
<1>3. ASSUME NEW s \in Starters, StartNext(s) PROVE UNCHANGED Pool!poolVars
    <2>1. CASE StartSpawn(s)
        <3>1. \A j \in Jobs : job[j] = "new"
            BY <2>1 DEF StartSpawn, RefineInv, LeaveInv, SpawnInv, ChannelInv
        <3>2. queue \in Seq(Jobs) /\ \A i \in 1 .. Len(queue) : job[queue[i]] = "queued"
            BY <1>1 DEF TypeOK, RefineInv, CountInv, QueueInv
        <3>3. queue = <<>>
            BY <3>1, <3>2
        <3> QED
            BY <1>2, <2>1, <3>3 DEF StartSpawn
    <2>2. CASE StartCheck(s) \/ StartBuildError(s) \/ StartPublish(s)
        BY <1>2, <2>2 DEF StartCheck, StartBuildError, StartPublish
    <2> QED
        BY <1>3, <2>1, <2>2 DEF StartNext
<1>4. ASSUME NEW j \in Jobs, SubmitNext(j) PROVE [Pool!Next]_Pool!poolVars
    <2>1. CASE SubmitSend(j)
        BY <2>1, SendAccepts DEF Pool!Next
    <2>2. CASE SubmitRefuse(j) \/ SubmitCount(j)
        BY <1>2, <2>2 DEF SubmitRefuse, SubmitCount
    <2> QED
        BY <1>4, <2>1, <2>2 DEF SubmitNext
<1>5. ASSUME DispatchNext PROVE [Pool!Next]_Pool!poolVars
    <2>1. CASE DispatchRecv
        BY <2>1, RecvIsUnseen, PoolStutters
    <2>2. CASE DispatchClosed \/ DispatchDrain \/ DispatchPark
        BY <1>2, <2>2 DEF DispatchClosed, DispatchDrain, DispatchPark
    <2>3. ASSUME NEW j \in Jobs, DispatchSpawn(j) PROVE Pool!Next
        BY <2>3, SpawnBegins DEF Pool!Next
    <2> QED
        BY <1>5, <2>1, <2>2, <2>3 DEF DispatchNext
<1>6. ASSUME NEW j \in Jobs, TaskNext(j) PROVE [Pool!Next]_Pool!poolVars
    <2>1. CASE TaskReturn(j) \/ TaskCancel(j)
        <3>1. /\ job[j] \in {"spawned", "running"} /\ queue' = queue
              /\ \E after \in {"released", "dropped"} : job' = [job EXCEPT ![j] = after]
            BY <2>1 DEF TaskReturn, TaskCancel
        <3> QED
            BY <1>1, <3>1, TaskEnds, PoolEnds
    <2>2. CASE TaskPoll(j) \/ GuardDrop(j) \/ GuardWake(j)
        <3>1. PICK after \in {"running", "waking", "finished"} :
                  /\ job' = [job EXCEPT ![j] = after] /\ queue' = queue
                  /\ \/ job[j] = "spawned" /\ after = "running"
                     \/ job[j] = "released" /\ after \in {"waking", "finished"}
                     \/ job[j] = "waking" /\ after = "finished"
            <4>1. CASE TaskPoll(j)
                BY <4>1 DEF TaskPoll
            <4>2. CASE GuardDrop(j)
                BY <4>2 DEF GuardDrop
            <4>3. CASE GuardWake(j)
                BY <4>3 DEF GuardWake
            <4> QED
                BY <2>2, <4>1, <4>2, <4>3
        <3>2. Line' = Line /\ Holding' = Holding /\ Ended' = Ended
            BY <1>1, <3>1, TaskMoves
        <3> QED
            BY <3>2, PoolStutters
    <2> QED
        BY <1>6, <2>1, <2>2 DEF TaskNext
<1>7. ASSUME NEW f \in Flushers, FlushNext(f) PROVE UNCHANGED Pool!poolVars
    BY <1>2, <1>7 DEF FlushNext, FlushCall, FlushLock, FlushTest, FlushWait, FlushSpurious,
                      FlushDeadline
<1>8. ASSUME NEW s \in Stoppers, StopNext(s) PROVE UNCHANGED Pool!poolVars
    BY <1>2, <1>8 DEF StopNext, StopEnter, StopMark, StopClose, StopJoin, StopStore, StopFinish
<1>9. CASE UNCHANGED vars
    BY <1>2, <1>9 DEF vars
<1> QED
    BY <1>3, <1>4, <1>5, <1>6, <1>7, <1>8, <1>9 DEF Next

\* When nothing has been submitted the pool is empty.
LEMMA PoolInit == Init => Pool!Init
<1> SUFFICES ASSUME Init PROVE Pool!Init
    OBVIOUS
<1>1. InHand = {} /\ Holding = {} /\ Accepted = {} /\ queue = <<>>
    BY DEF Init, InHand, Holding, Accepted
<1> QED
    BY <1>1 DEF Pool!Init

\* The invariants the refinement rests on, together.
LEMMA RefineInvariant == Spec => []RefineInv
<1>1. Init => StartInv /\ LeaveInv
    BY DEF Init, StartInv, LeaveInv, ChannelInv, SpawnInv, PlaceInv, OpsFree
<1>2. Spec => []StartInv
    BY <1>1, StartStep, TypeCorrect, PTL DEF Spec
<1>3. CountInv => QueueInv
    BY DEF CountInv
<1>4. Spec => []LeaveInv
    BY <1>1, <1>2, <1>3, LeaveStep, CountInvariant, TypeCorrect, PTL DEF Spec
<1>5. CountInv /\ PermitInv /\ StartInv /\ LeaveInv => RefineInv
    BY DEF RefineInv
<1> QED
    BY <1>2, <1>4, <1>5, CountInvariant, PermitsConserved, PTL

\* Whatever submit, flush and shutdown do meanwhile, the runtime behaves as a pool
\* that begins the jobs it accepted in order, each once, and at most
\* MaxConcurrency at a time.
THEOREM RuntimeIsAPool == Spec => ImplementsPool
BY PoolInit, PoolStep, RefineInvariant, PTL DEF Spec, ImplementsPool, Pool!Spec

-----------------------------------------------------------------------------
(* The operations on the tables, one by one: each takes sound tables to    *)
(* sound tables in which every session that had an owner has one.          *)

Sound(db) == db \in Store /\ References(db)

\* Sessions that have an owner in db have one in later.
Owned(db, later) == \A c \in Conversations : db.owner[c] # None => later.owner[c] # None

Keeps(db, later) == Sound(later) /\ Owned(db, later)

LEMMA OwnedIsTransitive ==
    ASSUME NEW a, NEW b, NEW c, Owned(a, b), Owned(b, c)
    PROVE  Owned(a, c)
BY DEF Owned

LEMMA EmptyIsSound == Sound(EmptyStore)
<1>1. EmptyStore \in Store
    <2>1. [c \in Conversations |-> <<>>] \in [Conversations -> Seq(Texts)]
        OBVIOUS
    <2>2. [o \in Owners |-> [f \in Facts |-> 0]] \in [Owners -> [Facts -> Nat]]
        OBVIOUS
    <2>3. [c \in Conversations |-> None] \in [Conversations -> Owners \cup {None}]
        OBVIOUS
    <2>4. [c \in Conversations |-> None] \in [Conversations -> Texts \cup {None}]
        OBVIOUS
    <2>5. [o \in Owners |-> {}] \in [Owners -> SUBSET Facts]
        OBVIOUS
    <2> QED
        BY <2>1, <2>2, <2>3, <2>4, <2>5 DEF EmptyStore, Store
<1>2. References(EmptyStore)
    BY DEF EmptyStore, References
<1> QED
    BY <1>1, <1>2 DEF Sound

LEMMA OwnerIsCreated ==
    ASSUME NEW db, Sound(db), NEW o \in Owners
    PROVE  Keeps(db, OwnerCreate(db, o)) /\ o \in OwnerCreate(db, o).owners
BY DEF OwnerCreate, Keeps, Owned, Sound, References, Store

\* A NULL owner keeps the one there is; another one has its row already.
LEMMA SessionIsCreated ==
    ASSUME NEW db, Sound(db), NEW c \in Conversations, NEW o \in db.owners \cup {None}
    PROVE  /\ Keeps(db, SessionCreate(db, c, o))
           /\ c \in SessionCreate(db, c, o).sessions
           /\ SessionCreate(db, c, o).owners = db.owners
<1> DEFINE new == SessionCreate(db, c, o)
<1> DEFINE keep == [db.owner EXCEPT ![c] = IF o = None THEN db.owner[c] ELSE o]
<1>1. new = [db EXCEPT !.sessions = db.sessions \cup {c}, !.owner = keep]
    BY DEF SessionCreate
<1> HIDE DEF new
<1>2. keep \in [Conversations -> Owners \cup {None}]
    BY DEF Sound, Store
<1>3. \A d \in Conversations :
          keep[d] = IF d = c /\ o # None THEN o ELSE db.owner[d]
    BY DEF Sound, Store
<1> HIDE DEF keep
<1>4. new \in Store
    BY <1>1, <1>2 DEF Sound, Store
<1>5. /\ new.owner = keep /\ new.sessions = db.sessions \cup {c}
      /\ new.owners = db.owners /\ new.convs = db.convs /\ new.messages = db.messages
      /\ new.summary = db.summary /\ new.times = db.times /\ new.mentions = db.mentions
    BY <1>1 DEF Sound, Store
<1>6. References(new)
    BY <1>3, <1>5 DEF Sound, References
<1>7. Owned(db, new)
    BY <1>3, <1>5, NoneIsNothing DEF Sound, Owned, Store
<1> QED
    BY <1>4, <1>5, <1>6, <1>7 DEF Keeps, Sound, new

LEMMA ConversationIsCreated ==
    ASSUME NEW db, Sound(db), NEW c \in db.sessions
    PROVE  /\ Keeps(db, ConversationCreate(db, c))
           /\ c \in ConversationCreate(db, c).convs
           /\ ConversationCreate(db, c).owners = db.owners
BY DEF ConversationCreate, Keeps, Owned, Sound, References, Store

\* How often a fact stands in a list, and that a listed one stands there.
LEMMA OccurrencesCount ==
    ASSUME NEW facts \in Seq(Facts), NEW f
    PROVE  /\ Occurrences(f, facts) \in Nat
           /\ f \in ToSet(facts) => Occurrences(f, facts) > 0
<1> DEFINE places == {i \in DOMAIN facts : facts[i] = f}
<1>1. DOMAIN facts = 1 .. Len(facts) /\ Len(facts) \in Nat
    OBVIOUS
<1>2. IsFiniteSet(1 .. Len(facts))
    BY <1>1, FS_Interval
<1>3. places \in SUBSET (1 .. Len(facts))
    BY <1>1
<1> HIDE DEF places
<1>4. IsFiniteSet(places)
    BY <1>2, <1>3, FS_Subset
<1>5. Cardinality(places) \in Nat
    BY <1>4, FS_CardinalityType
<1>6. ASSUME f \in ToSet(facts) PROVE places # {}
    BY <1>6 DEF ToSet, places
<1>7. ASSUME f \in ToSet(facts) PROVE Cardinality(places) > 0
    BY <1>4, <1>5, <1>6, <1>7, FS_EmptySet
<1> QED
    BY <1>5, <1>7 DEF Occurrences, places

LEMMA FactsAreCreated ==
    ASSUME NEW db, Sound(db), NEW o \in db.owners, NEW facts \in Seq(Facts),
           NEW c \in db.convs \cup {None}
    PROVE  Keeps(db, FactsCreate(db, o, facts, c))
<1> DEFINE new    == FactsCreate(db, o, facts, c)
           counts == [f \in Facts |-> db.times[o][f] + Occurrences(f, facts)]
           times  == [db.times EXCEPT ![o] = counts]
           seen   == IF c = None THEN db.mentions
                     ELSE db.mentions \cup ({o} \X ToSet(facts) \X {c})
<1>1. new = [db EXCEPT !.times = times, !.mentions = seen]
    BY DEF FactsCreate
<1> HIDE DEF new
<1>2. o \in Owners /\ db.times \in [Owners -> [Facts -> Nat]]
    BY DEF Sound, Store
<1>3. counts \in [Facts -> Nat]
    BY <1>2, OccurrencesCount
<1>4. \A f \in Facts : /\ counts[f] >= db.times[o][f]
                       /\ f \in ToSet(facts) => counts[f] > 0
    <2> TAKE f \in Facts
    <2>1. counts[f] = db.times[o][f] + Occurrences(f, facts) /\ db.times[o][f] \in Nat
        BY <1>2
    <2>2. Occurrences(f, facts) \in Nat /\ (f \in ToSet(facts) => Occurrences(f, facts) > 0)
        BY OccurrencesCount
    <2> HIDE DEF counts
    <2> QED
        BY <2>1, <2>2
<1> HIDE DEF counts
<1>5. /\ times \in [Owners -> [Facts -> Nat]]
      /\ \A p \in Owners, f \in Facts :
            /\ times[p][f] >= db.times[p][f]
            /\ times[p][f] > 0 => p = o \/ db.times[p][f] > 0
      /\ \A f \in Facts : f \in ToSet(facts) => times[o][f] > 0
    BY <1>2, <1>3, <1>4
<1> HIDE DEF times
<1>6. ToSet(facts) \subseteq Facts
    BY DEF ToSet
<1>7. /\ seen \in SUBSET (Owners \X Facts \X Conversations)
      /\ \A m \in seen : \/ m \in db.mentions
                         \/ m[1] = o /\ m[2] \in ToSet(facts) /\ m[3] = c /\ c \in db.convs
    BY <1>2, <1>6 DEF Sound, Store
<1> HIDE DEF seen
<1>8. new \in Store
    BY <1>1, <1>5, <1>7 DEF Sound, Store
<1>9. /\ new.times = times /\ new.mentions = seen /\ new.owners = db.owners
      /\ new.sessions = db.sessions /\ new.owner = db.owner /\ new.convs = db.convs
      /\ new.messages = db.messages /\ new.summary = db.summary
    BY <1>1 DEF Sound, Store
<1>10. References(new)
    <2>1. \A p \in Owners, f \in Facts : times[p][f] > 0 => p \in db.owners
        BY <1>5 DEF Sound, References
    <2>2. ASSUME NEW m \in seen
          PROVE  times[m[1]][m[2]] > 0 /\ m[3] \in db.convs
        <3>1. CASE m \in db.mentions
            <4>1. db.times[m[1]][m[2]] > 0 /\ m[3] \in db.convs
                BY <3>1 DEF Sound, References
            <4>2. m[1] \in Owners /\ m[2] \in Facts
                BY <1>7
            <4> QED
                BY <1>2, <1>5, <4>1, <4>2
        <3>2. CASE m[1] = o /\ m[2] \in ToSet(facts) /\ m[3] = c /\ c \in db.convs
            BY <1>5, <1>6, <3>2
        <3> QED
            BY <1>7, <2>2, <3>1, <3>2
    <2> QED
        BY <1>9, <2>1, <2>2 DEF Sound, References
<1>11. Owned(db, new)
    BY <1>9 DEF Owned
<1> QED
    BY <1>8, <1>10, <1>11 DEF Keeps, Sound, new

-----------------------------------------------------------------------------
(* The operations of a batch: applied, skipped or refused half-way, each   *)
(* leaves sound tables.                                                    *)

LEMMA MessagesKeep ==
    ASSUME NEW db, Sound(db), NEW op \in TextOps
    PROVE  Keeps(db, RunMessages(db, op).db)
<1>1. CASE op.conv = None \/ op.items = <<>>
    BY <1>1 DEF RunMessages, Skipped, Keeps, Owned
<1>2. CASE ~(op.conv = None \/ op.items = <<>>)
    <2> DEFINE begun == SessionCreate(db, op.conv, None)
               found == ConversationCreate(begun, op.conv)
               new   == [found EXCEPT !.messages[op.conv] = found.messages[op.conv] \o op.items]
    <2>1. op.conv \in Conversations /\ op.items \in Seq(Texts)
        BY <1>2 DEF TextOps
    <2>2. Keeps(db, begun) /\ op.conv \in begun.sessions
        BY <2>1, SessionIsCreated
    <2>3. Keeps(begun, found) /\ op.conv \in found.convs
        BY <2>2, ConversationIsCreated DEF Keeps
    <2>4. RunMessages(db, op).db = new
        BY <1>2 DEF RunMessages, Applied
    <2> HIDE DEF begun, found
    <2>5. Sound(new) /\ new.owner = found.owner
        <3> DEFINE said == [found.messages EXCEPT
                               ![op.conv] = found.messages[op.conv] \o op.items]
        <3>1. Sound(found)
            BY <2>3 DEF Keeps
        <3>2. new = [found EXCEPT !.messages = said]
            OBVIOUS
        <3>3. found.messages[op.conv] \o op.items \in Seq(Texts)
            BY <2>1, <3>1 DEF Sound, Store
        <3>4. /\ said \in [Conversations -> Seq(Texts)]
              /\ \A c \in Conversations : c # op.conv => said[c] = found.messages[c]
            BY <2>1, <3>1, <3>3 DEF Sound, Store
        <3> HIDE DEF said
        <3>5. new \in Store
            BY <3>1, <3>2, <3>4 DEF Sound, Store
        <3>6. /\ new.messages = said /\ new.owners = found.owners
              /\ new.sessions = found.sessions /\ new.owner = found.owner
              /\ new.convs = found.convs /\ new.summary = found.summary
              /\ new.times = found.times /\ new.mentions = found.mentions
            BY <3>1, <3>2 DEF Sound, Store
        <3>7. References(new)
            BY <2>3, <3>1, <3>4, <3>6 DEF Sound, References
        <3> QED
            BY <3>5, <3>6, <3>7 DEF Sound
    <2> QED
        BY <2>2, <2>3, <2>4, <2>5 DEF Keeps, Owned
<1> QED
    BY <1>1, <1>2

LEMMA FactsKeep ==
    ASSUME NEW db, Sound(db), NEW op \in FactOps
    PROVE  Keeps(db, RunFacts(db, op).db)
<1>1. CASE op.owner = None \/ op.items = <<>>
    BY <1>1 DEF RunFacts, Skipped, Keeps, Owned
<1>2. CASE ~(op.owner = None \/ op.items = <<>>)
    <2> DEFINE owned == OwnerCreate(db, op.owner)
               found == IF op.conv = None THEN owned
                        ELSE ConversationCreate(SessionCreate(owned, op.conv, op.owner), op.conv)
               new   == FactsCreate(found, op.owner, op.items, op.conv)
    <2>1. /\ op.owner \in Owners /\ op.items \in Seq(Facts)
          /\ op.conv = None \/ op.conv \in Conversations
        BY <1>2 DEF FactOps
    <2>2. Keeps(db, owned) /\ op.owner \in owned.owners
        BY <2>1, OwnerIsCreated
    <2>3. /\ Keeps(owned, found) /\ op.owner \in found.owners
          /\ op.conv \in found.convs \cup {None}
        <3>1. CASE op.conv = None
            BY <2>2, <3>1 DEF Keeps, Owned
        <3>2. CASE op.conv # None
            <4> DEFINE begun == SessionCreate(owned, op.conv, op.owner)
            <4>1. /\ Keeps(owned, begun) /\ op.conv \in begun.sessions
                  /\ begun.owners = owned.owners
                BY <2>1, <2>2, <3>2, SessionIsCreated DEF Keeps
            <4>2. /\ Keeps(begun, ConversationCreate(begun, op.conv))
                  /\ op.conv \in ConversationCreate(begun, op.conv).convs
                  /\ ConversationCreate(begun, op.conv).owners = begun.owners
                BY <4>1, ConversationIsCreated DEF Keeps
            <4>3. found = ConversationCreate(begun, op.conv)
                BY <3>2
            <4> HIDE DEF begun, owned, found
            <4> QED
                BY <2>2, <4>1, <4>2, <4>3, OwnedIsTransitive DEF Keeps
        <3> QED
            BY <3>1, <3>2
    <2>4. Keeps(found, new)
        BY <2>1, <2>3, FactsAreCreated DEF Keeps
    <2>5. RunFacts(db, op).db = new \/ RunFacts(db, op).db = found
        BY <1>2 DEF RunFacts, Applied, Failed
    <2> HIDE DEF owned, found, new
    <2> QED
        BY <2>2, <2>3, <2>4, <2>5 DEF Keeps, Owned
<1> QED
    BY <1>1, <1>2

LEMMA LinksKeep ==
    ASSUME NEW db, Sound(db), NEW op \in FactOps
    PROVE  Keeps(db, RunLinks(db, op).db)
<1>1. CASE op.owner = None
    BY <1>1 DEF RunLinks, Skipped, Keeps, Owned
<1>2. CASE op.owner # None
    <2> DEFINE owned == OwnerCreate(db, op.owner)
               new   == [owned EXCEPT !.links[op.owner] = owned.links[op.owner] \cup ToSet(op.items)]
    <2>1. op.owner \in Owners /\ op.items \in Seq(Facts) /\ ToSet(op.items) \subseteq Facts
        BY <1>2 DEF FactOps, ToSet
    <2>2. Keeps(db, owned)
        BY <2>1, OwnerIsCreated
    <2>3. RunLinks(db, op).db = owned \/ RunLinks(db, op).db = new
        BY <1>2 DEF RunLinks, Applied, Skipped
    <2> HIDE DEF owned
    <2>4. Sound(new) /\ new.owner = owned.owner
        BY <2>1, <2>2 DEF Keeps, Sound, Store, References
    <2> QED
        BY <2>2, <2>3, <2>4 DEF Keeps, Owned
<1> QED
    BY <1>1, <1>2

LEMMA SummaryKeeps ==
    ASSUME NEW db, Sound(db), NEW op \in TextOps
    PROVE  Keeps(db, RunSummary(db, op).db)
<1>1. CASE op.conv \notin db.sessions \cap db.convs \/ op.items = <<>>
    BY <1>1 DEF RunSummary, Skipped, Keeps, Owned
<1>2. CASE ~(op.conv \notin db.sessions \cap db.convs \/ op.items = <<>>)
    <2> DEFINE new == [db EXCEPT !.summary[op.conv] = Head(op.items)]
    <2>1. op.conv \in db.convs /\ op.conv \in Conversations /\ Head(op.items) \in Texts
        BY <1>2 DEF TextOps, Sound, Store
    <2>2. RunSummary(db, op).db = new
        BY <1>2 DEF RunSummary, Applied
    <2>3. Sound(new) /\ new.owner = db.owner
        BY <2>1 DEF Sound, Store, References
    <2> QED
        BY <2>2, <2>3 DEF Keeps, Owned
<1> QED
    BY <1>1, <1>2

LEMMA OperationKeeps ==
    ASSUME NEW db, Sound(db), NEW op \in Ops
    PROVE  Keeps(db, RunOp(db, op).db)
<1>1. CASE op \in TextOps
    <2>1. op.kind \in {"messages", "summary", "unknown"}
        BY <1>1 DEF TextOps
    <2>2. CASE op.kind = "messages"
        BY <1>1, <2>2, MessagesKeep DEF RunOp
    <2>3. CASE op.kind = "summary"
        BY <1>1, <2>3, SummaryKeeps DEF RunOp
    <2>4. CASE op.kind = "unknown"
        BY <2>4 DEF RunOp, Failed, Keeps, Owned
    <2> QED
        BY <2>1, <2>2, <2>3, <2>4
<1>2. CASE op \in FactOps
    <2>1. op.kind \in {"facts", "links"}
        BY <1>2 DEF FactOps
    <2>2. CASE op.kind = "facts"
        BY <1>2, <2>2, FactsKeep DEF RunOp
    <2>3. CASE op.kind = "links"
        BY <1>2, <2>3, LinksKeep DEF RunOp
    <2> QED
        BY <2>1, <2>2, <2>3
<1> QED
    BY <1>1, <1>2 DEF Ops

-----------------------------------------------------------------------------
(* The invariant.  A transaction works on sound tables; as long as nobody  *)
(* has committed since its BEGIN they keep the owners of the committed     *)
(* ones; and who has committed never comes back to a second transaction.   *)

Running(c) ==
    At(c, "run") =>
        /\ References(call[c].work) /\ call[c].base \subseteq applied
        /\ call[c].base = applied => Owned(store, call[c].work)

Committed(c) ==
    c \in applied => /\ call[c].step \in {"close", "undo", "done"}
                     /\ call[c].step = "undo" => call[c].error = "other"

BatchInv ==
    /\ BTypeOK
    /\ References(store)
    /\ \A c \in Calls : Running(c)
    /\ \A c \in Calls : Committed(c)
    /\ \A c \in Calls : At(c, "backoff") => call[c].attempt < MaxRetries

\* A call that has not begun, and one that has ended, fit the type.
LEMMA NewCallType ==
    /\ NewCall \in Call /\ NewCall.step = "idle"
    /\ \A r \in {"ok", "err", "gone"} :
          /\ [NewCall EXCEPT !.step = "done", !.answer = r] \in Call
          /\ [NewCall EXCEPT !.step = "done", !.answer = r].step = "done"
<1>1. EmptyStore \in Store
    BY EmptyIsSound DEF Sound
<1>2. 0 \in 0 .. MaxRetries
    BY BatchAssumption
<1>3. NewCall \in Call
    BY <1>1, <1>2 DEF NewCall, Call, Steps, Errors
<1>4. ASSUME NEW r \in {"ok", "err", "gone"}
      PROVE  /\ [NewCall EXCEPT !.step = "done", !.answer = r] \in Call
             /\ [NewCall EXCEPT !.step = "done", !.answer = r].step = "done"
    BY <1>3 DEF Call, Steps
<1> QED
    BY <1>3, <1>4 DEF NewCall

LEMMA BatchInvInit == BInit => BatchInv
<1> SUFFICES ASSUME BInit PROVE BatchInv
    OBVIOUS
<1>1. store \in Store /\ References(store)
    BY EmptyIsSound DEF BInit, Sound
<1>2. call \in [Calls -> Call] /\ \A c \in Calls : call[c].step = "idle"
    BY NewCallType DEF BInit
<1>3. BTypeOK
    BY <1>1, <1>2 DEF BTypeOK, BInit
<1> QED
    BY <1>1, <1>2, <1>3 DEF BInit, BatchInv, Running, Committed, At

\* A step of one call that leaves the tables alone keeps the invariant when the
\* call itself is left in a state that fits.
LEMMA CallMoves ==
    ASSUME BatchInv, NEW c \in Calls, NEW new \in Call,
           call' = [call EXCEPT ![c] = new], UNCHANGED <<store, applied, lost>>,
           new.step = "run" => /\ References(new.work) /\ new.base \subseteq applied
                               /\ new.base = applied => Owned(store, new.work),
           c \in applied => new.step \in {"done"},
           new.step = "backoff" => new.attempt < MaxRetries
    PROVE  BatchInv'
<1>1. BTypeOK'
    BY DEF BatchInv, BTypeOK
<1>2. References(store)'
    BY DEF BatchInv
<1>3. call'[c] = new /\ \A d \in Calls : d # c => call'[d] = call[d]
    BY DEF BatchInv, BTypeOK
<1>4. ASSUME NEW d \in Calls
      PROVE  Running(d)' /\ Committed(d)' /\ (At(d, "backoff") => call[d].attempt < MaxRetries)'
    <2>1. CASE d = c
        BY <1>3, <2>1 DEF Running, Committed, At
    <2>2. CASE d # c
        BY <1>3, <2>2 DEF BatchInv, Running, Committed, At
    <2> QED
        BY <2>1, <2>2
<1> QED
    BY <1>1, <1>2, <1>4 DEF BatchInv

LEMMA EndingKeeps ==
    ASSUME BatchInv, NEW c \in Calls, NEW r \in {"ok", "err", "gone"},
           Answer(c, r), UNCHANGED <<store, applied, lost>>
    PROVE  BatchInv'
<1> DEFINE new == [NewCall EXCEPT !.step = "done", !.answer = r]
<1>1. new \in Call /\ new.step = "done"
    BY NewCallType
<1>2. call' = [call EXCEPT ![c] = new]
    BY DEF Answer
<1> HIDE DEF new
<1> QED
    BY <1>1, <1>2, CallMoves

LEMMA UndoKeeps ==
    ASSUME BatchInv, NEW c \in Calls, NEW code \in {"40001", "other"}, At(c, "run"),
           Undo(c, code), UNCHANGED <<store, applied, lost>>
    PROVE  BatchInv'
<1> DEFINE new == [call[c] EXCEPT !.step = "undo", !.error = code]
<1>1. call[c] \in Call
    BY DEF BatchInv, BTypeOK
<1>2. new \in Call /\ new.step = "undo"
    BY <1>1 DEF Call, Steps, Errors
<1>3. call' = [call EXCEPT ![c] = new]
    BY <1>1 DEF Undo, BatchInv, BTypeOK, Call
<1>4. c \notin applied
    BY DEF BatchInv, Committed, At
<1> HIDE DEF new
<1> QED
    BY <1>2, <1>3, <1>4, CallMoves

\* Entering, waiting for a connection and beginning: the tables of the transaction
\* are the committed ones.
LEMMA BeginningKeeps ==
    ASSUME BatchInv, NEW c \in Calls,
           Enter(c) \/ Acquire(c) \/ AcquireFail(c) \/ Begin(c) \/ BeginFail(c)
    PROVE  BatchInv'
<1>1. call[c] \in Call /\ call \in [Calls -> Call]
    BY DEF BatchInv, BTypeOK
<1>2. CASE Enter(c)
    <2>1. CASE Batch[c] = <<>>
        BY <1>2, <2>1, EndingKeeps DEF Enter
    <2>2. CASE Batch[c] # <<>>
        <3> DEFINE new == [call[c] EXCEPT !.step = "acquire"]
        <3>1. new \in Call /\ new.step = "acquire"
            BY <1>1 DEF Call, Steps
        <3>2. call' = [call EXCEPT ![c] = new] /\ UNCHANGED <<store, applied, lost>>
            BY <1>1, <1>2, <2>2 DEF Enter
        <3>3. c \notin applied
            BY <1>2 DEF Enter, BatchInv, Committed, At
        <3> HIDE DEF new
        <3> QED
            BY <3>1, <3>2, <3>3, CallMoves
    <2> QED
        BY <2>1, <2>2
<1>3. CASE Acquire(c)
    <2> DEFINE new == [call[c] EXCEPT !.step = "begin", !.holds = TRUE]
    <2>1. new \in Call /\ new.step = "begin"
        BY <1>1 DEF Call, Steps
    <2>2. call' = [call EXCEPT ![c] = new] /\ UNCHANGED <<store, applied, lost>>
        BY <1>1, <1>3 DEF Acquire, Call
    <2>3. c \notin applied
        BY <1>3 DEF Acquire, BatchInv, Committed, At
    <2> HIDE DEF new
    <2> QED
        BY <2>1, <2>2, <2>3, CallMoves
<1>4. CASE AcquireFail(c)
    BY <1>4, EndingKeeps DEF AcquireFail
<1>5. CASE Begin(c)
    <2> DEFINE new == [call[c] EXCEPT !.step = "run", !.work = store, !.base = applied, !.next = 1]
    <2>1. store \in Store /\ applied \in SUBSET Calls /\ References(store)
        BY DEF BatchInv, BTypeOK
    <2>2. new \in Call /\ new.step = "run" /\ new.work = store /\ new.base = applied
        <3>1. new.step = "run" /\ new.work = store /\ new.base = applied
            BY <1>1 DEF Call
        <3>2. new \in [step : {"run"}, attempt : 0..MaxRetries, next : {1}, base : {applied},
                       work : {store}, holds : BOOLEAN, error : Errors,
                       answer : {"none", "ok", "err", "gone"}]
            BY <1>1 DEF Call
        <3> HIDE DEF new
        <3> QED
            BY <2>1, <3>1, <3>2 DEF Call, Steps
    <2>3. call' = [call EXCEPT ![c] = new] /\ UNCHANGED <<store, applied, lost>>
        BY <1>1, <1>5 DEF Begin, Call
    <2>4. c \notin applied
        BY <1>5 DEF Begin, BatchInv, Committed, At
    <2>5. Owned(store, store)
        BY DEF Owned
    <2> HIDE DEF new
    <2> QED
        BY <2>1, <2>2, <2>3, <2>4, <2>5, CallMoves
<1>6. CASE BeginFail(c)
    BY <1>6, EndingKeeps DEF BeginFail
<1> QED
    BY <1>2, <1>3, <1>4, <1>5, <1>6

\* An operation takes the tables of its transaction to sound ones, with their owners.
LEMMA RunNextKeeps ==
    ASSUME BatchInv, NEW c \in Calls, RunNext(c)
    PROVE  BatchInv'
<1> DEFINE r   == RunOp(call[c].work, Batch[c][call[c].next])
           new == [call[c] EXCEPT !.work  = r.db, !.next = call[c].next + 1,
                                  !.step  = IF r.status = "failed" THEN "undo" ELSE call[c].step,
                                  !.error = IF r.status = "failed" THEN "other" ELSE call[c].error]
<1>1. call[c] \in Call /\ call \in [Calls -> Call] /\ At(c, "run")
    BY DEF RunNext, BatchInv, BTypeOK
<1>2. Sound(call[c].work)
    BY <1>1 DEF Call, BatchInv, Running, Sound
<1>3. Batch[c][call[c].next] \in Ops
    BY <1>1, BatchAssumption DEF RunNext, Call
<1>4. Keeps(call[c].work, r.db)
    BY <1>2, <1>3, OperationKeeps
<1>5. call' = [call EXCEPT ![c] = new] /\ UNCHANGED <<store, applied, lost>>
    BY <1>1 DEF RunNext, Call
<1> HIDE DEF r
<1>6. /\ new \in Call /\ new.step \in {"run", "undo"}
      /\ new.work = r.db /\ new.base = call[c].base
    <2> DEFINE step == IF r.status = "failed" THEN "undo" ELSE call[c].step
               error == IF r.status = "failed" THEN "other" ELSE call[c].error
    <2>1. step \in {"run", "undo"} /\ error \in Errors
        BY <1>1 DEF Call, Errors, At
    <2>2. r.db \in Store /\ call[c].next + 1 \in Nat \ {0}
        BY <1>1, <1>4 DEF Keeps, Sound, Call
    <2>3. new = [call[c] EXCEPT !.work = r.db, !.next = call[c].next + 1, !.step = step,
                                !.error = error]
        OBVIOUS
    <2> HIDE DEF step, error, new
    <2>4. new.step = step /\ new.work = r.db /\ new.base = call[c].base
        BY <1>1, <2>3 DEF Call
    <2>5. new \in Call
        BY <1>1, <2>1, <2>2, <2>3 DEF Call, Steps
    <2> QED
        BY <2>1, <2>4, <2>5
<1>7. c \notin applied
    BY <1>1 DEF BatchInv, Committed, At
<1>8. /\ References(r.db) /\ call[c].base \subseteq applied
      /\ call[c].base = applied => Owned(store, r.db)
    BY <1>1, <1>4, OwnedIsTransitive DEF BatchInv, Running, Keeps, Sound
<1> HIDE DEF new
<1> QED
    BY <1>5, <1>6, <1>7, <1>8, CallMoves

\* A commit makes the tables of the transaction the committed ones; the other
\* transactions that are open have not seen it.
LEMMA CommitKeeps ==
    ASSUME BatchInv, NEW c \in Calls, Commit(c) \/ CommitLost(c)
    PROVE  BatchInv' /\ Owned(store, store')
<1> DEFINE new == IF Commit(c) THEN [call[c] EXCEPT !.step = "close"]
                  ELSE [call[c] EXCEPT !.step = "undo", !.error = "other"]
<1>1. call[c] \in Call /\ call \in [Calls -> Call] /\ At(c, "run")
    BY DEF Commit, CommitLost, Ready, BatchInv, BTypeOK
<1>2. /\ call[c].base = applied /\ store' = call[c].work /\ applied' = applied \cup {c}
      /\ lost' \subseteq applied'
    BY DEF Commit, CommitLost, BatchInv, BTypeOK
<1>3. call' = [call EXCEPT ![c] = new]
    BY <1>1 DEF Commit, CommitLost, Undo, Call
<1>4. /\ new \in Call /\ new.step \in {"close", "undo"}
      /\ new.step = "undo" => new.error = "other"
    BY <1>1 DEF Call, Steps, Errors
<1> HIDE DEF new
<1>5. c \notin applied
    BY <1>1 DEF BatchInv, Committed, At
<1>6. store' \in Store /\ References(store') /\ Owned(store, store')
    BY <1>1, <1>2 DEF BatchInv, Running, Call
<1>7. BTypeOK'
    BY <1>1, <1>2, <1>3, <1>4, <1>6 DEF BatchInv, BTypeOK
<1>8. call'[c] = new /\ \A d \in Calls : d # c => call'[d] = call[d]
    BY <1>1, <1>3
<1>9. ASSUME NEW d \in Calls
      PROVE  Running(d)' /\ Committed(d)' /\ (At(d, "backoff") => call[d].attempt < MaxRetries)'
    <2>1. CASE d = c
        BY <1>4, <1>8, <2>1 DEF Running, Committed, At
    <2>2. CASE d # c
        BY <1>2, <1>5, <1>8, <2>2 DEF BatchInv, Running, Committed, At
    <2> QED
        BY <2>1, <2>2
<1> QED
    BY <1>6, <1>7, <1>9 DEF BatchInv

\* Rolling back, sleeping and trying again: only an error 40001 is retried, which
\* no call has seen that has committed.
LEMMA RetryingKeeps ==
    ASSUME BatchInv, NEW c \in Calls, Rollback(c) \/ Retry(c)
    PROVE  BatchInv'
<1>1. call[c] \in Call /\ call \in [Calls -> Call]
    BY DEF BatchInv, BTypeOK
<1>2. CASE Rollback(c) /\ Retries(c)
    <2> DEFINE new == [call[c] EXCEPT !.step = "backoff", !.holds = FALSE,
                                      !.work = EmptyStore, !.base = {}]
    <2>1. EmptyStore \in Store
        BY EmptyIsSound DEF Sound
    <2>2. /\ new \in Call /\ new.step = "backoff"
          /\ new.attempt = call[c].attempt
        BY <1>1, <2>1 DEF Call, Steps
    <2>3. call' = [call EXCEPT ![c] = new] /\ UNCHANGED <<store, applied, lost>>
        BY <1>1, <1>2 DEF Rollback, Call
    <2>4. c \notin applied /\ call[c].attempt < MaxRetries
        BY <1>2 DEF Rollback, Retries, BatchInv, Committed, At
    <2> HIDE DEF new
    <2> QED
        BY <2>2, <2>3, <2>4, CallMoves
<1>3. CASE Rollback(c) /\ ~Retries(c)
    BY <1>3, EndingKeeps DEF Rollback
<1>4. CASE Retry(c)
    <2> DEFINE new == [call[c] EXCEPT !.step = "acquire", !.attempt = call[c].attempt + 1,
                                      !.error = "none"]
    <2>1. call[c].attempt \in 0 .. MaxRetries /\ call[c].attempt < MaxRetries
        BY <1>1, <1>4 DEF Retry, BatchInv, Call
    <2>2. call[c].attempt + 1 \in 0 .. MaxRetries
        BY <2>1, BatchAssumption
    <2>3. new \in Call /\ new.step = "acquire"
        BY <1>1, <2>2 DEF Call, Steps, Errors
    <2>4. call' = [call EXCEPT ![c] = new] /\ UNCHANGED <<store, applied, lost>>
        BY <1>1, <1>4 DEF Retry, Call
    <2>5. c \notin applied
        BY <1>4 DEF Retry, BatchInv, Committed, At
    <2> HIDE DEF new
    <2> QED
        BY <2>3, <2>4, <2>5, CallMoves
<1> QED
    BY <1>2, <1>3, <1>4

\* When the process dies every call is as it was or at its end.
LEMMA DeathKeeps ==
    ASSUME BatchInv, Death
    PROVE  BatchInv'
<1> DEFINE gone == [NewCall EXCEPT !.step = "done", !.answer = "gone"]
<1>1. gone \in Call /\ gone.step = "done"
    BY NewCallType
<1>2. call' = [c \in Calls |-> IF call[c].step \in {"idle", "done"} THEN call[c] ELSE gone]
    BY DEF Death
<1> HIDE DEF gone
<1>3. /\ call' \in [Calls -> Call]
      /\ \A c \in Calls : call'[c] = call[c] \/ call'[c].step = "done"
    BY <1>1, <1>2 DEF BatchInv, BTypeOK
<1>4. UNCHANGED <<store, applied, lost>>
    BY DEF Death
<1> QED
    BY <1>3, <1>4 DEF BatchInv, BTypeOK, Running, Committed, At

\* One step, whichever: the invariant, and the owners of the committed tables.
LEMMA BatchStep ==
    ASSUME BatchInv, [BNext]_bvars
    PROVE  BatchInv' /\ (UNCHANGED store \/ Owned(store, store'))
<1>1. CASE UNCHANGED bvars
    BY <1>1 DEF bvars, BatchInv, BTypeOK, Running, Committed, At
<1>2. CASE AllAnswered
    BY <1>1, <1>2 DEF AllAnswered
<1>3. CASE Death
    BY <1>3, DeathKeeps DEF Death
<1>4. ASSUME NEW c \in Calls, Advance(c)
      PROVE  BatchInv' /\ (UNCHANGED store \/ Owned(store, store'))
    <2>1. CASE Enter(c) \/ Acquire(c) \/ AcquireFail(c) \/ Begin(c) \/ BeginFail(c)
        BY <2>1, BeginningKeeps DEF Enter, Acquire, AcquireFail, Begin, BeginFail
    <2>2. CASE RunNext(c)
        BY <2>2, RunNextKeeps DEF RunNext
    <2>3. CASE Commit(c) \/ CommitLost(c)
        BY <2>3, CommitKeeps
    <2>4. CASE Close(c)
        BY <2>4, EndingKeeps DEF Close
    <2>5. CASE Rollback(c) \/ Retry(c)
        BY <2>5, RetryingKeeps DEF Rollback, Retry
    <2>6. ASSUME NEW code \in {"40001", "other"}, StatementFail(c, code) \/ CommitFail(c, code)
          PROVE  BatchInv' /\ UNCHANGED store
        BY <2>6, UndoKeeps DEF StatementFail, CommitFail, Ready
    <2> QED
        BY <1>4, <2>1, <2>2, <2>3, <2>4, <2>5, <2>6 DEF Advance
<1> QED
    BY <1>1, <1>2, <1>3, <1>4 DEF BNext

-----------------------------------------------------------------------------
\* Whatever batches run at once and whatever fails, retries or dies, the rows of
\* the committed tables have the rows they refer to (write_batch, execute_batch_ops).
THEOREM CommittedRowsAreWhole == BSpec => []StoreConsistent
<1>1. BatchInv => StoreConsistent
    BY DEF BatchInv, StoreConsistent
<1> QED
    BY <1>1, BatchInvInit, BatchStep, PTL DEF BSpec

\* No batch, in any interleaving, takes the owner from a session that has one
\* (session_create keeps the owner when a later write brings none).
THEOREM OwnersAreKept == BSpec => SessionKeepsOwner
<1>1. ASSUME BatchInv, [BNext]_bvars
      PROVE  [\A c \in Conversations : store.owner[c] # None => store'.owner[c] # None]_bvars
    BY <1>1, BatchStep DEF Owned
<1> QED
    BY <1>1, BatchInvInit, BatchStep, PTL DEF BSpec, SessionKeepsOwner

-----------------------------------------------------------------------------
(* A batch takes effect at once: the refinement of AtomicStore.            *)

\* A transaction that has seen all commits shows the committed tables with the
\* operations it has run, and nothing else; a call d in its last steps has committed.
InTransaction(d, c) ==
    /\ d.answer = "none" <=> d.step # "done"
    /\ d.step = "close" => c \in applied
    /\ d.step = "run" =>
          /\ d.next <= Len(Batch[c]) + 1
          /\ d.base = applied => d.work = RunAll(store, SubSeq(Batch[c], 1, d.next - 1))

TransactionInv == \A c \in Calls : InTransaction(call[c], c)

\* The body of the recursive function of RunAll.
After(db, ops, f, i) == IF i = 0 THEN db ELSE RunOp(f[i - 1], ops[i]).db

\* The function exists: it is built for one prefix of the batch after the other.
LEMMA RunAllUnfolds ==
    ASSUME NEW ops \in Seq(Ops), NEW db
    PROVE  \E f : /\ f = [i \in 0 .. Len(ops) |-> After(db, ops, f, i)]
                  /\ RunAll(db, ops) = f[Len(ops)]
<1> DEFINE Upto(n) == \E f : f = [i \in 0 .. n |-> After(db, ops, f, i)]
           P == {n \in Nat : n <= Len(ops) => Upto(n)}
<1>1. 0 \in P
    <2> DEFINE f == [i \in 0 .. 0 |-> db]
    <2>1. f = [i \in 0 .. 0 |-> After(db, ops, f, i)]
        BY DEF After
    <2> QED
        BY <2>1
<1>2. ASSUME NEW n \in P PROVE n + 1 \in P
    <2>1. SUFFICES ASSUME n + 1 <= Len(ops) PROVE Upto(n + 1)
        OBVIOUS
    <2>2. PICK f : f = [i \in 0 .. n |-> After(db, ops, f, i)]
        BY <2>1
    <2> DEFINE h == [i \in 0 .. (n + 1) |-> After(db, ops, f, i)]
    <2>3. \A i \in 0 .. n : h[i] = f[i]
        BY <2>2
    <2>4. \A i \in 0 .. (n + 1) : After(db, ops, f, i) = After(db, ops, h, i)
        <3> HIDE DEF h
        <3> QED
            BY <2>3 DEF After
    <2>5. h = [i \in 0 .. (n + 1) |-> After(db, ops, h, i)]
        BY <2>4
    <2> QED
        BY <2>5
<1>3. Upto(Len(ops))
    <2>1. P = Nat
        <3> HIDE DEF P
        <3>1. P \in SUBSET Nat
            BY DEF P
        <3> QED
            BY <1>1, <1>2, <3>1, SetInduction
    <2> QED
        BY <2>1
<1> DEFINE f == CHOOSE f : f = [i \in 0 .. Len(ops) |-> After(db, ops, f, i)]
<1>4. f = [i \in 0 .. Len(ops) |-> After(db, ops, f, i)]
    BY <1>3
<1>5. RunAll(db, ops) = f[Len(ops)]
    BY DEF RunAll, After
<1> QED
    BY <1>4, <1>5

\* Nothing does nothing, and a batch with one more operation runs that one last.
LEMMA RunAllGrows ==
    ASSUME NEW db
    PROVE  /\ RunAll(db, <<>>) = db
           /\ \A ops \in Seq(Ops), op \in Ops :
                 RunAll(db, Append(ops, op)) = RunOp(RunAll(db, ops), op).db
<1>1. RunAll(db, <<>>) = db
    <2> <<>> \in Seq(Ops) /\ Len(<<>>) = 0
        OBVIOUS
    <2>1. PICK f : /\ f = [i \in 0 .. Len(<<>>) |-> After(db, <<>>, f, i)]
                   /\ RunAll(db, <<>>) = f[Len(<<>>)]
        BY RunAllUnfolds
    <2> QED
        BY <2>1 DEF After
<1>2. ASSUME NEW ops \in Seq(Ops), NEW op \in Ops
      PROVE  RunAll(db, Append(ops, op)) = RunOp(RunAll(db, ops), op).db
    <2> DEFINE more == Append(ops, op)
               n == Len(ops)
    <2>1. /\ more \in Seq(Ops) /\ Len(more) = n + 1 /\ more[n + 1] = op /\ n \in Nat
          /\ \A i \in 1 .. n : more[i] = ops[i]
        OBVIOUS
    <2>2. PICK f : /\ f = [i \in 0 .. n |-> After(db, ops, f, i)]
                   /\ RunAll(db, ops) = f[n]
        BY RunAllUnfolds
    <2>3. PICK h : /\ h = [i \in 0 .. (n + 1) |-> After(db, more, h, i)]
                   /\ RunAll(db, more) = h[n + 1]
        BY <2>1, RunAllUnfolds
    <2> HIDE DEF more, n
    <2> DEFINE P == {i \in Nat : i <= n => h[i] = f[i]}
    <2>4. 0 \in P
        BY <2>1, <2>2, <2>3 DEF After
    <2>5. ASSUME NEW i \in P PROVE i + 1 \in P
        <3>1. SUFFICES ASSUME i + 1 <= n PROVE h[i + 1] = f[i + 1]
            OBVIOUS
        <3>2. /\ i \in Nat /\ h[i] = f[i] /\ i + 1 # 0 /\ (i + 1) - 1 = i
              /\ i + 1 \in 0 .. n /\ i + 1 \in 0 .. (n + 1) /\ i + 1 \in 1 .. n
            BY <2>1, <3>1
        <3>3. h[i + 1] = After(db, more, h, i + 1) /\ f[i + 1] = After(db, ops, f, i + 1)
            BY <2>2, <2>3, <3>2
        <3> QED
            BY <2>1, <3>2, <3>3 DEF After
    <2>6. P = Nat
        <3> HIDE DEF P
        <3>1. P \in SUBSET Nat
            BY DEF P
        <3> QED
            BY <2>4, <2>5, <3>1, SetInduction
    <2>7. h[n] = f[n]
        BY <2>1, <2>6
    <2>8. h[n + 1] = RunOp(h[n], op).db
        <3>1. n + 1 \in 0 .. (n + 1) /\ n + 1 # 0 /\ (n + 1) - 1 = n
            BY <2>1
        <3>2. h[n + 1] = After(db, more, h, n + 1)
            BY <2>3, <3>1
        <3> QED
            BY <2>1, <3>1, <3>2 DEF After
    <2> QED
        BY <2>2, <2>3, <2>7, <2>8 DEF more
<1> QED
    BY <1>1, <1>2

\* A longer part of a batch, and the whole of it.
LEMMA PartOfBatch ==
    ASSUME NEW ops \in Seq(Ops)
    PROVE  /\ SubSeq(ops, 1, 0) = <<>> /\ SubSeq(ops, 1, Len(ops)) = ops
           /\ \A n \in 1 .. Len(ops) : /\ SubSeq(ops, 1, n - 1) \in Seq(Ops) /\ ops[n] \in Ops
                                       /\ SubSeq(ops, 1, n) = Append(SubSeq(ops, 1, n - 1), ops[n])
<1>1. SubSeq(ops, 1, 0) = <<>> /\ SubSeq(ops, 1, Len(ops)) = ops
    OBVIOUS
<1>2. ASSUME NEW n \in 1 .. Len(ops)
      PROVE  /\ SubSeq(ops, 1, n - 1) \in Seq(Ops) /\ ops[n] \in Ops
             /\ SubSeq(ops, 1, n) = Append(SubSeq(ops, 1, n - 1), ops[n])
    OBVIOUS
<1> QED
    BY <1>1, <1>2

LEMMA TransactionInvInit == BInit => TransactionInv
<1> SUFFICES ASSUME BInit, NEW c \in Calls PROVE InTransaction(call[c], c)
    BY DEF TransactionInv
<1> QED
    BY DEF BInit, NewCall, InTransaction

\* A step of one call that commits nothing concerns only that call.
LEMMA TransactionMoves ==
    ASSUME BTypeOK, TransactionInv, NEW c \in Calls, NEW new, InTransaction(new, c),
           call' = [call EXCEPT ![c] = new], UNCHANGED <<store, applied>>
    PROVE  TransactionInv'
<1>1. ASSUME NEW d \in Calls PROVE InTransaction(call[d], d)'
    <2>1. call'[d] = IF d = c THEN new ELSE call[d]
        BY DEF BTypeOK
    <2>2. CASE d = c
        <3>1. call'[d] = new
            BY <2>1, <2>2
        <3> QED
            BY <2>2, <3>1 DEF InTransaction
    <2>3. CASE d # c
        <3>1. call'[d] = call[d] /\ InTransaction(call[d], d)
            BY <2>1, <2>3 DEF TransactionInv
        <3> QED
            BY <3>1 DEF InTransaction
    <2> QED
        BY <2>2, <2>3
<1> QED
    BY <1>1 DEF TransactionInv

\* An answer ends a call that had none.
LEMMA AnswerEndsTransaction ==
    ASSUME BTypeOK, TransactionInv, NEW c \in Calls, NEW r \in {"ok", "err", "gone"},
           Answer(c, r), UNCHANGED <<store, applied>>
    PROVE  TransactionInv'
<1> DEFINE new == [NewCall EXCEPT !.step = "done", !.answer = r]
<1>1. new.step = "done" /\ new.answer = r
    BY DEF NewCall
<1>2. call' = [call EXCEPT ![c] = new]
    BY DEF Answer
<1> HIDE DEF new
<1>3. InTransaction(new, c)
    BY <1>1 DEF InTransaction
<1> QED
    BY <1>2, <1>3, TransactionMoves

\* A step that goes on without running anything.
LEMMA TransactionGoesOn ==
    ASSUME BTypeOK, TransactionInv, NEW c \in Calls, ~At(c, "done"),
           NEW new, new.step \notin {"done", "close", "run"}, new.answer = call[c].answer,
           call' = [call EXCEPT ![c] = new], UNCHANGED <<store, applied>>
    PROVE  TransactionInv'
<1>1. InTransaction(new, c)
    BY DEF TransactionInv, InTransaction, At
<1> QED
    BY <1>1, TransactionMoves

\* BEGIN sees the committed tables, with nothing run on them.
LEMMA BeginOpensTransaction ==
    ASSUME BTypeOK, TransactionInv, NEW c \in Calls, Begin(c)
    PROVE  TransactionInv'
<1> DEFINE new == [call[c] EXCEPT !.step = "run", !.work = store, !.base = applied, !.next = 1]
<1>1. call[c] \in Call /\ call \in [Calls -> Call] /\ At(c, "begin") /\ Batch[c] \in Seq(Ops)
    BY BatchAssumption DEF Begin, BTypeOK
<1>2. call' = [call EXCEPT ![c] = new] /\ UNCHANGED <<store, applied>>
    BY <1>1 DEF Begin, Call
<1>3. /\ new.step = "run" /\ new.work = store /\ new.next = 1 /\ new.answer = call[c].answer
    BY <1>1 DEF Call
<1> HIDE DEF new
<1>4. /\ SubSeq(Batch[c], 1, new.next - 1) = <<>> /\ RunAll(store, <<>>) = store
      /\ new.next <= Len(Batch[c]) + 1
    BY <1>1, <1>3, PartOfBatch, RunAllGrows
<1>5. InTransaction(new, c)
    BY <1>1, <1>3, <1>4 DEF TransactionInv, InTransaction, At
<1> QED
    BY <1>2, <1>5, TransactionMoves

\* An operation is run after those before it.
LEMMA RunNextExtendsTransaction ==
    ASSUME BTypeOK, TransactionInv, NEW c \in Calls, RunNext(c)
    PROVE  TransactionInv'
<1> DEFINE n == call[c].next
           r == RunOp(call[c].work, Batch[c][n])
           new == [call[c] EXCEPT !.work  = r.db, !.next = n + 1,
                                  !.step  = IF r.status = "failed" THEN "undo" ELSE call[c].step,
                                  !.error = IF r.status = "failed" THEN "other" ELSE call[c].error]
<1>1. /\ call[c] \in Call /\ call \in [Calls -> Call] /\ At(c, "run") /\ Batch[c] \in Seq(Ops)
      /\ n \in 1 .. Len(Batch[c])
    BY BatchAssumption DEF RunNext, BTypeOK, Call
<1>2. call' = [call EXCEPT ![c] = new] /\ UNCHANGED <<store, applied>>
    BY <1>1 DEF RunNext, Call
<1>3. /\ new.step \in {"run", "undo"} /\ new.work = r.db /\ new.next = n + 1
      /\ new.answer = call[c].answer /\ new.base = call[c].base
    <2> HIDE DEF r
    <2> QED
        BY <1>1 DEF Call, At
<1> HIDE DEF new
<1>4. /\ SubSeq(Batch[c], 1, (n + 1) - 1) = Append(SubSeq(Batch[c], 1, n - 1), Batch[c][n])
      /\ SubSeq(Batch[c], 1, n - 1) \in Seq(Ops) /\ Batch[c][n] \in Ops
    <2>1. (n + 1) - 1 = n
        BY <1>1
    <2> HIDE DEF n
    <2> QED
        BY <1>1, <2>1, PartOfBatch
<1>5. RunAll(store, SubSeq(Batch[c], 1, (n + 1) - 1))
        = RunOp(RunAll(store, SubSeq(Batch[c], 1, n - 1)), Batch[c][n]).db
    <2> DEFINE part == SubSeq(Batch[c], 1, n - 1)
               op == Batch[c][n]
    <2>1. part \in Seq(Ops) /\ op \in Ops
        BY <1>4
    <2> HIDE DEF part, op
    <2>2. RunAll(store, Append(part, op)) = RunOp(RunAll(store, part), op).db
        BY <2>1, RunAllGrows
    <2> QED
        BY <1>4, <2>2, Zenon DEF part, op
<1>6. InTransaction(call[c], c)
    BY DEF TransactionInv
<1>7. call[c].base = applied => r.db = RunAll(store, SubSeq(Batch[c], 1, (n + 1) - 1))
    BY <1>1, <1>5, <1>6 DEF InTransaction, At
<1>8. n + 1 <= Len(Batch[c]) + 1
    BY <1>1
<1>9. InTransaction(new, c)
    <2> HIDE DEF r, n
    <2> QED
        BY <1>1, <1>3, <1>6, <1>7, <1>8 DEF InTransaction, At
<1> QED
    BY <1>2, <1>9, TransactionMoves

\* A commit makes every other snapshot an old one.
LEMMA CommitClosesTransaction ==
    ASSUME BatchInv, TransactionInv, NEW c \in Calls, Commit(c) \/ CommitLost(c)
    PROVE  TransactionInv'
<1>1. /\ call[c] \in Call /\ call \in [Calls -> Call] /\ At(c, "run")
      /\ applied' = applied \cup {c}
    BY DEF Commit, CommitLost, Ready, BatchInv, BTypeOK
<1>2. c \notin applied
    BY <1>1 DEF BatchInv, Committed, At
<1>3. ASSUME NEW d \in Calls PROVE InTransaction(call[d], d)'
    <2>1. CASE d = c
        <3>1. call'[c].step \in {"close", "undo"} /\ call'[c].answer = call[c].answer
            BY <1>1 DEF Commit, CommitLost, Undo, Call
        <3> QED
            BY <1>1, <2>1, <3>1 DEF TransactionInv, InTransaction, At
    <2>2. CASE d # c
        <3>1. call'[d] = call[d] /\ InTransaction(call[d], d)
            BY <1>1, <2>2 DEF Commit, CommitLost, Undo, TransactionInv
        <3>2. call[d].step = "run" => call[d].base # applied'
            BY <1>1, <1>2 DEF BatchInv, Running, At
        <3> QED
            BY <1>1, <3>1, <3>2 DEF InTransaction
    <2> QED
        BY <2>1, <2>2
<1> QED
    BY <1>3 DEF TransactionInv

LEMMA TransactionStep ==
    ASSUME BatchInv, TransactionInv, [BNext]_bvars
    PROVE  TransactionInv'
<1> BTypeOK
    BY DEF BatchInv
<1>1. CASE UNCHANGED bvars \/ AllAnswered
    BY <1>1 DEF AllAnswered, bvars, TransactionInv, InTransaction
<1>2. CASE Death
    <2> DEFINE gone == [NewCall EXCEPT !.step = "done", !.answer = "gone"]
    <2>1. gone.step = "done" /\ gone.answer = "gone"
        BY DEF NewCall
    <2>2. /\ call' = [c \in Calls |-> IF call[c].step \in {"idle", "done"} THEN call[c] ELSE gone]
          /\ UNCHANGED <<store, applied>>
        BY <1>2 DEF Death
    <2> HIDE DEF gone
    <2> QED
        BY <2>1, <2>2 DEF TransactionInv, InTransaction
<1>3. ASSUME NEW c \in Calls, Advance(c) PROVE TransactionInv'
    <2>0. call[c] \in Call /\ call \in [Calls -> Call]
        BY DEF BTypeOK
    <2>1. CASE \E r \in {"ok", "err", "gone"} : Answer(c, r) /\ UNCHANGED <<store, applied>>
        BY <2>1, AnswerEndsTransaction
    <2>2. CASE Enter(c) /\ Batch[c] # <<>>
        <3> DEFINE new == [call[c] EXCEPT !.step = "acquire"]
        <3>1. /\ call' = [call EXCEPT ![c] = new] /\ UNCHANGED <<store, applied>>
              /\ new.step = "acquire" /\ new.answer = call[c].answer /\ ~At(c, "done")
            BY <2>0, <2>2 DEF Enter, Call, At
        <3> HIDE DEF new
        <3> QED
            BY <3>1, TransactionGoesOn
    <2>3. CASE Acquire(c)
        <3> DEFINE new == [call[c] EXCEPT !.step = "begin", !.holds = TRUE]
        <3>1. /\ call' = [call EXCEPT ![c] = new] /\ UNCHANGED <<store, applied>>
              /\ new.step = "begin" /\ new.answer = call[c].answer /\ ~At(c, "done")
            BY <2>0, <2>3 DEF Acquire, Call, At
        <3> HIDE DEF new
        <3> QED
            BY <3>1, TransactionGoesOn
    <2>4. ASSUME NEW code \in {"40001", "other"}, StatementFail(c, code) \/ CommitFail(c, code)
          PROVE  TransactionInv'
        <3> DEFINE new == [call[c] EXCEPT !.step = "undo", !.error = code]
        <3>1. /\ call' = [call EXCEPT ![c] = new] /\ UNCHANGED <<store, applied>>
              /\ new.step = "undo" /\ new.answer = call[c].answer /\ ~At(c, "done")
            BY <2>0, <2>4 DEF StatementFail, CommitFail, Ready, Undo, Call, At
        <3> HIDE DEF new
        <3> QED
            BY <3>1, TransactionGoesOn
    <2>5. CASE Rollback(c) /\ Retries(c)
        <3> DEFINE new == [call[c] EXCEPT !.step = "backoff", !.holds = FALSE,
                                          !.work = EmptyStore, !.base = {}]
        <3>1. /\ call' = [call EXCEPT ![c] = new] /\ UNCHANGED <<store, applied>>
              /\ new.step = "backoff" /\ new.answer = call[c].answer /\ ~At(c, "done")
            BY <2>0, <2>5 DEF Rollback, Call, At
        <3> HIDE DEF new
        <3> QED
            BY <3>1, TransactionGoesOn
    <2>6. CASE Retry(c)
        <3> DEFINE new == [call[c] EXCEPT !.step = "acquire", !.attempt = call[c].attempt + 1,
                                          !.error = "none"]
        <3>1. /\ call' = [call EXCEPT ![c] = new] /\ UNCHANGED <<store, applied>>
              /\ new.step = "acquire" /\ new.answer = call[c].answer /\ ~At(c, "done")
            BY <2>0, <2>6 DEF Retry, Call, At
        <3> HIDE DEF new
        <3> QED
            BY <3>1, TransactionGoesOn
    <2>7. CASE Begin(c)
        BY <2>7, BeginOpensTransaction
    <2>8. CASE RunNext(c)
        BY <2>8, RunNextExtendsTransaction
    <2>9. CASE Commit(c) \/ CommitLost(c)
        BY <2>9, CommitClosesTransaction
    <2> QED
        BY <1>3, <2>1, <2>2, <2>3, <2>4, <2>5, <2>6, <2>7, <2>8, <2>9
        DEF Advance, Enter, AcquireFail, BeginFail, Close, Rollback
<1> QED
    BY <1>1, <1>2, <1>3 DEF BNext

-----------------------------------------------------------------------------
(* The mapping.  AtomicStore reads the same operations on the same tables, *)
(* and of the calls only what they have answered.                          *)

LEMMA SameOperations ==
    /\ Atomic!EmptyStore = EmptyStore
    /\ \A db, op : Atomic!RunOp(db, op) = RunOp(db, op)
    /\ \A db, ops : Atomic!RunAll(db, ops) = RunAll(db, ops)
<1>1. Atomic!EmptyStore = EmptyStore
    BY Zenon DEF Atomic!EmptyStore, EmptyStore
<1>2. \A facts : Atomic!ToSet(facts) = ToSet(facts) /\ Atomic!IsInjective(facts) = IsInjective(facts)
    BY Zenon DEF Atomic!ToSet, ToSet, Atomic!IsInjective, IsInjective
<1>3. \A f, facts : Atomic!Occurrences(f, facts) = Occurrences(f, facts)
    BY Zenon DEF Atomic!Occurrences, Occurrences, Atomic!Cardinality, Cardinality
<1>4. ASSUME NEW db, NEW op
      PROVE  Atomic!RunOp(db, op) = RunOp(db, op)
    BY <1>2, <1>3, Zenon
    DEF Atomic!RunOp, RunOp, Atomic!RunMessages, RunMessages, Atomic!RunFacts, RunFacts,
        Atomic!RunLinks, RunLinks, Atomic!RunSummary, RunSummary, Atomic!Applied, Applied,
        Atomic!Skipped, Skipped, Atomic!Failed, Failed, Atomic!OwnerCreate, OwnerCreate,
        Atomic!SessionCreate, SessionCreate, Atomic!ConversationCreate, ConversationCreate,
        Atomic!FactsCreate, FactsCreate
<1>5. ASSUME NEW db, NEW ops
      PROVE  Atomic!RunAll(db, ops) = RunAll(db, ops)
    BY <1>4, Zenon DEF Atomic!RunAll, RunAll
<1> QED
    BY <1>1, <1>4, <1>5

\* What the calls have answered.
Answers == [c \in Calls |-> call[c].answer]

AtomicStep == [Atomic!ANext]_(Atomic!avars)

\* A step that commits nothing and answers nothing is no step of AtomicStore.
LEMMA QuietStep ==
    ASSUME UNCHANGED <<store, applied>>, \A c \in Calls : call'[c].answer = call[c].answer
    PROVE  AtomicStep
BY DEF AtomicStep, Atomic!avars

\* A call goes on without an answer.
LEMMA GoesOnQuietly ==
    ASSUME BTypeOK, NEW c \in Calls, NEW new, new.answer = call[c].answer,
           call' = [call EXCEPT ![c] = new], UNCHANGED <<store, applied>>
    PROVE  AtomicStep
<1>1. ASSUME NEW d \in Calls PROVE call'[d].answer = call[d].answer
    <2>1. call'[d] = IF d = c THEN new ELSE call[d]
        BY DEF BTypeOK
    <2> QED
        BY <2>1
<1> QED
    BY <1>1, QuietStep

\* A call gives its one answer: Ok only when its batch is in the tables or empty.
LEMMA AnswersOnce ==
    ASSUME BTypeOK, TransactionInv, NEW c \in Calls, NEW r \in {"ok", "err"}, ~At(c, "done"),
           Answer(c, r), UNCHANGED <<store, applied>>,
           r = "ok" => c \in applied \/ Batch[c] = <<>>
    PROVE  AtomicStep
<1> DEFINE new == [NewCall EXCEPT !.step = "done", !.answer = r]
<1>1. new.answer = r /\ call' = [call EXCEPT ![c] = new]
    BY DEF NewCall, Answer
<1> HIDE DEF new
<1>2. Answers' = [Answers EXCEPT ![c] = r]
    BY <1>1 DEF BTypeOK, Answers
<1>3. Answers[c] = "none"
    BY DEF TransactionInv, InTransaction, At, Answers
<1>4. Atomic!Succeed(c) \/ Atomic!Fail(c)
    BY <1>2, <1>3 DEF Atomic!Succeed, Atomic!Fail, Answers
<1> QED
    BY <1>4 DEF AtomicStep, Atomic!ANext

\* A commit puts the whole batch into the tables.
LEMMA CommitApplies ==
    ASSUME BatchInv, TransactionInv, NEW c \in Calls, Commit(c) \/ CommitLost(c)
    PROVE  AtomicStep
<1>1. /\ call[c] \in Call /\ call \in [Calls -> Call] /\ At(c, "run") /\ Batch[c] \in Seq(Ops)
      /\ call[c].next > Len(Batch[c]) /\ call[c].base = applied
      /\ store' = call[c].work /\ applied' = applied \cup {c}
    BY BatchAssumption DEF Commit, CommitLost, Ready, BatchInv, BTypeOK
<1>2. c \notin applied
    BY <1>1 DEF BatchInv, Committed, At
<1>3. InTransaction(call[c], c)
    BY DEF TransactionInv
<1>4. call[c].next - 1 = Len(Batch[c])
    BY <1>1, <1>3 DEF InTransaction, At, Call
<1>5. store' = RunAll(store, Batch[c])
    BY <1>1, <1>3, <1>4, PartOfBatch DEF InTransaction, At
<1>6. \A d \in Calls : call'[d].answer = call[d].answer
    <2>1. call'[c].answer = call[c].answer
        BY <1>1 DEF Commit, CommitLost, Undo, Call
    <2>2. \A d \in Calls : d # c => call'[d] = call[d]
        BY <1>1 DEF Commit, CommitLost, Undo
    <2> QED
        BY <2>1, <2>2
<1>7. Answers' = Answers /\ Answers[c] = "none"
    BY <1>1, <1>3, <1>6 DEF InTransaction, At, Answers
<1>8. Atomic!Apply(c)
    BY <1>1, <1>2, <1>5, <1>7, SameOperations DEF Atomic!Apply, Answers
<1> QED
    BY <1>8 DEF AtomicStep, Atomic!ANext

\* Death leaves the calls in flight without an answer.
LEMMA DeathSilences ==
    ASSUME BTypeOK, TransactionInv, Death
    PROVE  AtomicStep
<1> DEFINE gone == [NewCall EXCEPT !.step = "done", !.answer = "gone"]
           S == {c \in Calls : call[c].step \notin {"idle", "done"}}
<1>1. gone.answer = "gone"
    BY DEF NewCall
<1>2. /\ call' = [c \in Calls |-> IF call[c].step \in {"idle", "done"} THEN call[c] ELSE gone]
      /\ UNCHANGED <<store, applied>>
    BY DEF Death
<1> HIDE DEF gone
<1>3. Answers' = [c \in Calls |-> IF c \in S THEN "gone" ELSE Answers[c]]
    BY <1>1, <1>2 DEF Answers
<1>4. S \in SUBSET {c \in Calls : Answers[c] = "none"}
    BY DEF TransactionInv, InTransaction, Answers
<1> HIDE DEF S
<1>5. Atomic!Die
    BY <1>2, <1>3, <1>4 DEF Atomic!Die, Answers
<1> QED
    BY <1>5 DEF AtomicStep, Atomic!ANext

LEMMA StepRefines ==
    ASSUME BatchInv, TransactionInv, [BNext]_bvars
    PROVE  AtomicStep
<1> BTypeOK
    BY DEF BatchInv
<1>1. CASE UNCHANGED bvars \/ AllAnswered
    BY <1>1, QuietStep DEF AllAnswered, bvars
<1>2. CASE Death
    BY <1>2, DeathSilences
<1>3. ASSUME NEW c \in Calls, Advance(c) PROVE AtomicStep
    <2>0. call[c] \in Call /\ call \in [Calls -> Call] /\ InTransaction(call[c], c)
        BY DEF BTypeOK, TransactionInv
    <2>1. CASE Enter(c)
        <3>1. CASE Batch[c] = <<>>
            BY <2>1, <3>1, AnswersOnce DEF Enter, At
        <3>2. CASE Batch[c] # <<>>
            <4> DEFINE new == [call[c] EXCEPT !.step = "acquire"]
            <4>1. /\ call' = [call EXCEPT ![c] = new] /\ new.answer = call[c].answer
                  /\ UNCHANGED <<store, applied>>
                BY <2>0, <2>1, <3>2 DEF Enter, Call
            <4> HIDE DEF new
            <4> QED
                BY <4>1, GoesOnQuietly
        <3> QED
            BY <3>1, <3>2
    <2>2. CASE AcquireFail(c) \/ BeginFail(c)
        BY <2>2, AnswersOnce DEF AcquireFail, BeginFail, At
    <2>3. CASE Acquire(c) \/ Begin(c) \/ RunNext(c) \/ Retry(c)
        <3>1. UNCHANGED <<store, applied>>
            BY <2>3 DEF Acquire, Begin, RunNext, Retry
        <3>2. call'[c].answer = call[c].answer /\ \A d \in Calls : d # c => call'[d] = call[d]
            <4>1. CASE Acquire(c)
                BY <2>0, <4>1 DEF Acquire, Call
            <4>2. CASE Begin(c)
                BY <2>0, <4>2 DEF Begin, Call
            <4>3. CASE RunNext(c)
                BY <2>0, <4>3 DEF RunNext, Call
            <4>4. CASE Retry(c)
                BY <2>0, <4>4 DEF Retry, Call
            <4> QED
                BY <2>3, <4>1, <4>2, <4>3, <4>4
        <3> QED
            BY <3>1, <3>2, QuietStep
    <2>4. CASE Commit(c) \/ CommitLost(c)
        BY <2>4, CommitApplies
    <2>5. CASE Close(c)
        BY <2>0, <2>5, AnswersOnce DEF Close, At, InTransaction
    <2>6. CASE Rollback(c)
        <3>1. CASE Retries(c)
            <4> DEFINE new == [call[c] EXCEPT !.step = "backoff", !.holds = FALSE,
                                              !.work = EmptyStore, !.base = {}]
            <4>1. /\ call' = [call EXCEPT ![c] = new] /\ new.answer = call[c].answer
                  /\ UNCHANGED <<store, applied>>
                BY <2>0, <2>6, <3>1 DEF Rollback, Call
            <4> HIDE DEF new
            <4> QED
                BY <4>1, GoesOnQuietly
        <3>2. CASE ~Retries(c)
            BY <2>6, <3>2, AnswersOnce DEF Rollback, At
        <3> QED
            BY <3>1, <3>2
    <2>7. ASSUME NEW code \in {"40001", "other"}, StatementFail(c, code) \/ CommitFail(c, code)
          PROVE  AtomicStep
        <3> DEFINE new == [call[c] EXCEPT !.step = "undo", !.error = code]
        <3>1. /\ call' = [call EXCEPT ![c] = new] /\ new.answer = call[c].answer
              /\ UNCHANGED <<store, applied>>
            BY <2>0, <2>7 DEF StatementFail, CommitFail, Undo, Call
        <3> HIDE DEF new
        <3> QED
            BY <3>1, GoesOnQuietly
    <2> QED
        BY <1>3, <2>1, <2>2, <2>3, <2>4, <2>5, <2>6, <2>7 DEF Advance
<1> QED
    BY <1>1, <1>2, <1>3 DEF BNext

LEMMA InitRefines == BInit => Atomic!AInit
<1> SUFFICES ASSUME BInit PROVE Atomic!AInit
    OBVIOUS
<1>1. Answers = [c \in Calls |-> "none"]
    BY DEF BInit, NewCall, Answers
<1> QED
    BY <1>1, SameOperations DEF BInit, Atomic!AInit, Answers

\* Every call of write_batch applies its batch whole, at one point and at most once,
\* whatever fails, is retried or dies, and answers Ok only for a batch that is applied.
THEOREM BatchesAreAtomic == BSpec => ImplementsAtomic
<1>1. BatchInv /\ TransactionInv /\ [BNext]_bvars => BatchInv' /\ TransactionInv' /\ AtomicStep
    BY BatchStep, TransactionStep, StepRefines
<1> QED
    BY <1>1, BatchInvInit, TransactionInvInit, InitRefines, PTL
    DEF BSpec, ImplementsAtomic, Atomic!ASpec, AtomicStep
===============================================================================
