---------------------------- MODULE WriteBatch -----------------------------
(***************************************************************************)
(* RustStorageManager::write_batch of core/src/storage/manager.rs: the     *)
(* transaction around a batch, its rollback and its retries, by concurrent *)
(* calls over a pool of connections, with failing databases and a process  *)
(* that dies.  The database is external: serialisable, it answers 40001    *)
(* to a commit whose snapshot is stale and may do so at any statement.     *)
(***************************************************************************)
EXTENDS MemoryStore

CONSTANTS Calls,        \* calls of write_batch
          Batch,        \* their operations: [Calls -> Seq(Ops)]
          Connections,  \* how many connections the factory can lend
          MaxRetries,   \* MAX_RETRIES
          Faults        \* what may fail: a subset of FaultKinds

FaultKinds == {"acquire", "begin", "statement", "commit", "lostAnswer", "death"}

ASSUME BatchAssumption ==
    /\ Batch \in [Calls -> Seq(Ops)]
    /\ Connections \in Nat \ {0} /\ MaxRetries \in Nat /\ Faults \subseteq FaultKinds

VARIABLES
    store,     \* the committed tables
    applied,   \* calls whose transaction has committed
    lost,      \* of these, the ones whose commit reported an error
    call       \* per call: where it is and what it has seen

bvars == <<store, applied, lost, call>>

Errors == {"none", "40001", "other"}
Steps  == {"idle", "acquire", "begin", "run", "undo", "close", "backoff", "done"}

(* work is the store as the transaction sees it, base the commits it saw.  *)
Call == [step : Steps, attempt : 0..MaxRetries, next : Nat \ {0}, base : SUBSET Calls,
         work : Store, holds : BOOLEAN, error : Errors, answer : {"none", "ok", "err", "gone"}]

NewCall == [step |-> "idle", attempt |-> 0, next |-> 1, base |-> {},
            work |-> EmptyStore, holds |-> FALSE, error |-> "none", answer |-> "none"]

BTypeOK ==
    /\ store \in Store /\ applied \subseteq Calls /\ lost \subseteq applied
    /\ call \in [Calls -> Call]

BInit == store = EmptyStore /\ applied = {} /\ lost = {} /\ call = [c \in Calls |-> NewCall]

At(c, step) == call[c].step = step

Answer(c, result) ==
    call' = [call EXCEPT ![c] = [NewCall EXCEPT !.step = "done", !.answer = result]]

-----------------------------------------------------------------------------
(* An empty batch is answered at once; any other begins its first attempt. *)
Enter(c) ==
    /\ At(c, "idle")
    /\ IF Batch[c] = <<>> THEN Answer(c, "ok")
       ELSE call' = [call EXCEPT ![c].step = "acquire"]
    /\ UNCHANGED <<store, applied, lost>>

(* The factory lends a connection when it has one.                         *)
Acquire(c) ==
    /\ At(c, "acquire")
    /\ Cardinality({d \in Calls : call[d].holds}) < Connections
    /\ call' = [call EXCEPT ![c].step = "begin", ![c].holds = TRUE]
    /\ UNCHANGED <<store, applied, lost>>

(* A failed acquire ends the call, whichever attempt it is.                *)
AcquireFail(c) ==
    /\ At(c, "acquire") /\ "acquire" \in Faults
    /\ Answer(c, "err")
    /\ UNCHANGED <<store, applied, lost>>

Begin(c) ==
    /\ At(c, "begin")
    /\ call' = [call EXCEPT ![c].step = "run", ![c].work = store, ![c].base = applied,
                            ![c].next = 1]
    /\ UNCHANGED <<store, applied, lost>>

(* A failed BEGIN closes the connection and ends the call.                 *)
BeginFail(c) ==
    /\ At(c, "begin") /\ "begin" \in Faults
    /\ Answer(c, "err")
    /\ UNCHANGED <<store, applied, lost>>

(* One operation of the batch; an error of its own ends the transaction.   *)
RunNext(c) ==
    /\ At(c, "run") /\ call[c].next <= Len(Batch[c])
    /\ LET r == RunOp(call[c].work, Batch[c][call[c].next])
       IN  call' = [call EXCEPT
              ![c].work = r.db, ![c].next = @ + 1,
              ![c].step = IF r.status = "failed" THEN "undo" ELSE @,
              ![c].error = IF r.status = "failed" THEN "other" ELSE @]
    /\ UNCHANGED <<store, applied, lost>>

Undo(c, code) == call' = [call EXCEPT ![c].step = "undo", ![c].error = code]

(* A statement fails, somewhere in the current operation.                  *)
StatementFail(c, code) ==
    /\ At(c, "run") /\ "statement" \in Faults /\ call[c].next <= Len(Batch[c])
    /\ Undo(c, code)
    /\ UNCHANGED <<store, applied, lost>>

Ready(c) == At(c, "run") /\ call[c].next > Len(Batch[c])

(* COMMIT succeeds when nobody has committed since BEGIN.                  *)
Commit(c) ==
    /\ Ready(c) /\ call[c].base = applied
    /\ store' = call[c].work
    /\ applied' = applied \cup {c}
    /\ call' = [call EXCEPT ![c].step = "close"]
    /\ UNCHANGED lost

Close(c) == At(c, "close") /\ Answer(c, "ok") /\ UNCHANGED <<store, applied, lost>>

(* COMMIT is refused: 40001 when the snapshot is stale, or another error.  *)
CommitFail(c, code) ==
    /\ Ready(c)
    /\ \/ code = "40001" /\ (call[c].base # applied \/ "commit" \in Faults)
       \/ code = "other" /\ "commit" \in Faults
    /\ Undo(c, code)
    /\ UNCHANGED <<store, applied, lost>>

(* COMMIT takes effect and its answer is lost (a timeout, a broken link).  *)
CommitLost(c) ==
    /\ Ready(c) /\ call[c].base = applied /\ "lostAnswer" \in Faults
    /\ store' = call[c].work
    /\ applied' = applied \cup {c}
    /\ lost' = lost \cup {c}
    /\ Undo(c, "other")

\* Seeded fault: any error is retried.
RetriesAnything(c) == call[c].attempt < MaxRetries

Retries(c) == call[c].error = "40001" /\ call[c].attempt < MaxRetries

(* ROLLBACK, its result ignored, and close; a serialization failure sleeps *)
(* and is tried again while attempts are left.                             *)
Rollback(c) ==
    /\ At(c, "undo")
    /\ IF Retries(c)
       THEN call' = [call EXCEPT ![c].step = "backoff", ![c].holds = FALSE,
                                 ![c].work = EmptyStore, ![c].base = {}]
       ELSE Answer(c, "err")
    /\ UNCHANGED <<store, applied, lost>>

\* Seeded fault: the attempts are not counted.
RetryForever(c) ==
    /\ At(c, "backoff")
    /\ call' = [call EXCEPT ![c].step = "acquire", ![c].error = "none"]
    /\ UNCHANGED <<store, applied, lost>>

Retry(c) ==
    /\ At(c, "backoff")
    /\ call' = [call EXCEPT ![c].step = "acquire", ![c].attempt = @ + 1, ![c].error = "none"]
    /\ UNCHANGED <<store, applied, lost>>

(* The process dies: its connections break, open transactions roll back    *)
(* and no call in flight answers.                                          *)
Death ==
    /\ "death" \in Faults
    /\ \E c \in Calls : call[c].step \notin {"idle", "done"}
    /\ call' = [c \in Calls |->
                  IF call[c].step \in {"idle", "done"} THEN call[c]
                  ELSE [NewCall EXCEPT !.step = "done", !.answer = "gone"]]
    /\ UNCHANGED <<store, applied, lost>>

Advance(c) ==
    \/ Enter(c) \/ Acquire(c) \/ AcquireFail(c) \/ Begin(c) \/ BeginFail(c)
    \/ RunNext(c) \/ Commit(c) \/ CommitLost(c) \/ Close(c) \/ Rollback(c) \/ Retry(c)
    \/ \E code \in {"40001", "other"} : StatementFail(c, code) \/ CommitFail(c, code)

AllAnswered == (\A c \in Calls : At(c, "done")) /\ UNCHANGED bvars

BNext == Death \/ AllAnswered \/ \E c \in Calls : Advance(c)

(* A thread that runs write_batch is scheduled; the database answers, and  *)
(* the factory lends a free connection to one of those who wait for it.    *)
BFairness == \A c \in Calls : WF_bvars(Advance(c)) /\ SF_bvars(Acquire(c))

BSpec == BInit /\ [][BNext]_bvars /\ BFairness
-----------------------------------------------------------------------------
(* Every call applies its batch whole, at most once, whatever is retried,  *)
(* rolled back or lost, and answers Ok only if it did (write_batch).       *)
Atomic == INSTANCE AtomicStore WITH answer <- [c \in Calls |-> call[c].answer]
ImplementsAtomic == Atomic!ASpec

(* Whatever is retried, rolled back, lost or refused half-way, the rows of *)
(* the committed tables have the rows they refer to (execute_batch_ops     *)
(* creates them on the way).                                               *)
StoreConsistent == BTypeOK /\ References(store)

(* A session that belongs to an entity is never left without one: messages *)
(* that arrive later carry no entity (session_create keeps the old one).   *)
SessionKeepsOwner ==
    [][\A c \in Conversations : store.owner[c] # None => store'.owner[c] # None]_bvars

(* Every call of write_batch comes to an end, retries and waits included.  *)
CallsEnd == \A c \in Calls : <>At(c, "done")

(* When nothing fails, nothing is lost: a fact that is mentioned several   *)
(* times is counted several times (docs/memori-byodb/concepts,             *)
(* advanced-augmentation.mdx).                                             *)
RepeatsAreCounted == \A c \in Calls : At(c, "done") => c \in applied \/ Batch[c] = <<>>
=============================================================================
