--------------------------- MODULE StorageBridge ---------------------------
(***************************************************************************)
(* The connection bridge of the Node binding, both of its sides: Rust      *)
(* threads that borrow a connection and block in Inner::call               *)
(* (core/bindings/node/src/bridge.rs), and the event loop that serves them *)
(* (StorageManager of memori-ts/src/storage/manager.ts) over a pool of     *)
(* clients, or over one shared handle behind the serial lock.              *)
(*                                                                         *)
(* A thread uses one connection and calls each operation once, so a call   *)
(* is named <<thread, operation>> and a connection by its thread.  Retries *)
(* are WriteBatch's.  Time is left out: a call may time out whenever its   *)
(* operation is in TimesOut, a sweep may find any idle connection expired. *)
(***************************************************************************)
EXTENDS Naturals, Sequences, FiniteSets, SequencesExt

CONSTANTS Threads,     \* Rust threads inside a storage operation
          Readers,     \* those that run with_conn: no transaction
          Jobs,        \* those that are augmentation jobs, waited for by shutdown
          Handles,     \* {TRUE}, {FALSE} or both: needsSerialAccess
          Clients,     \* without it, how many clients the user's pool has
          TimesOut,    \* operations that may take longer than 30 s
          DbFails,     \* may a statement fail
          Closes,      \* may the application close the storage manager
          None

ASSUME BridgeAssumption ==
    /\ IsFiniteSet(Threads) /\ Readers \subseteq Threads /\ Jobs \subseteq Threads /\ None \notin Threads
    /\ Clients \in Nat \ {0} /\ Handles \subseteq BOOLEAN /\ DbFails \in BOOLEAN /\ Closes \in BOOLEAN

VARIABLES
    serial,    \* needsSerialAccess: one shared handle (SQLite, a MySQL connection)
    rust,      \* per thread: its operation, and how far the call of it is
    pending,   \* PendingStorageMap
    inbox,     \* calls queued in the threadsafe function
    chain,     \* serialQueue: who asked for the serial lock, in order
    released,  \* those of them who have given it back
    entry,     \* per connection: its TrackedAdapter
    db,        \* per handle: statements sent and not finished, in order
    tx,        \* per handle: whose transaction is open on it
    txConn,    \* adapters that hold a client for their transaction
    clients,   \* connections whose client is out of the pool
    stage,     \* of StorageManager.close and the shutdown of the engine
    settling,  \* the promises close waits for
    astray     \* history: connections whose transaction the manager has lost

rustVars == <<rust, pending>>
lockVars == <<chain, released>>
dbVars   == <<db, tx, txConn, clients>>
vars     == <<serial, rust, pending, inbox, chain, released, entry, db, tx, txConn, clients,
              stage, settling, astray>>

Operations == {"acquire", "begin", "execute", "commit", "rollback", "close"}
Line(t) == IF serial THEN None ELSE t
Lines   == Threads \cup {None}

TypeOK ==
    /\ serial \in Handles
    /\ rust \in [Threads -> [op : Operations \cup {"done"},
                             mode : {"ready", "inserted", "waiting"}]]
    /\ pending \subseteq Threads \X Operations
    /\ inbox \in Seq(Threads \X Operations)
    /\ chain \in Seq(Threads) /\ released \subseteq Threads
    /\ entry \in [Threads -> [live : BOOLEAN, busy : BOOLEAN, inTx : BOOLEAN, lock : BOOLEAN]]
    /\ db \in [Lines -> Seq(Threads \X (Operations \cup {"sweep"}))]
    /\ tx \in [Lines -> Threads \cup {None}]
    /\ txConn \subseteq clients /\ clients \subseteq Threads
    /\ Cardinality(clients) <= Clients
    /\ stage \in {"open", "joining", "taken", "settling", "rolling", "closed"}
    /\ settling \subseteq Threads \X (Operations \cup {"sweep"})
    /\ astray \subseteq Threads

Init ==
    /\ serial \in Handles
    /\ rust = [t \in Threads |-> [op |-> "acquire", mode |-> "ready"]]
    /\ pending = {} /\ inbox = <<>> /\ chain = <<>> /\ released = {}
    /\ entry = [t \in Threads |-> [live |-> FALSE, busy |-> FALSE, inTx |-> FALSE,
                                   lock |-> FALSE]]
    /\ db = [l \in Lines |-> <<>>] /\ tx = [l \in Lines |-> None]
    /\ txConn = {} /\ clients = {} /\ stage = "open" /\ settling = {}
    /\ astray = {}

\* Seeded fault: the function stays open during shutdown.
TsfnStays == stage # "closed"
TsfnOpen == stage \in {"open", "joining"}
LoopFree == stage \notin {"joining", "taken"}   \* shutdown runs on the event loop
Closing == stage # "open"

-----------------------------------------------------------------------------
(* What a thread does after an operation has succeeded or failed.          *)
NextOp(t, op, ok) ==
    CASE op = "acquire"  -> IF ~ok THEN "done" ELSE IF t \in Readers THEN "execute" ELSE "begin"
      [] op = "begin"    -> IF ok THEN "execute" ELSE "close"
      [] op = "execute"  -> IF t \in Readers THEN "close" ELSE IF ok THEN "commit" ELSE "rollback"
      [] op = "commit"   -> IF ok THEN "close" ELSE "rollback"
      [] op = "rollback" -> "close"
      [] op = "close"    -> "done"

Goes(t, ok) == rust' = [rust EXCEPT ![t] = [op |-> NextOp(t, @.op, ok), mode |-> "ready"]]

(* resolve: the first to find the call in the map answers it, a late       *)
(* answer is dropped.                                                      *)
Resolve(t, op, ok) ==
    IF <<t, op>> \in pending
    THEN pending' = pending \ {<<t, op>>} /\ Goes(t, ok)
    ELSE UNCHANGED rustVars

(* Inner::call: the entry is in the map before the call is queued; a       *)
(* closed function takes it out again.                                     *)
CallInsert(t) ==
    /\ rust[t].mode = "ready" /\ rust[t].op \notin {"close", "done"}
    /\ pending' = pending \cup {<<t, rust[t].op>>}
    /\ rust' = [rust EXCEPT ![t].mode = "inserted"]
    /\ UNCHANGED <<serial, astray, inbox, lockVars, entry, dbVars, stage, settling>>

CallQueue(t) ==
    /\ rust[t].mode = "inserted"
    /\ IF TsfnOpen
       THEN /\ inbox' = Append(inbox, <<t, rust[t].op>>)
            /\ rust' = [rust EXCEPT ![t].mode = "waiting"]
            /\ UNCHANGED pending
       ELSE /\ pending' = pending \ {<<t, rust[t].op>>}
            /\ Goes(t, FALSE)
            /\ UNCHANGED inbox
    /\ UNCHANGED <<serial, astray, lockVars, entry, dbVars, stage, settling>>

(* No answer within JS_CALLBACK_TIMEOUT; there is none for certain while   *)
(* the shutdown of the engine keeps the event loop.                        *)
CallTimeout(t) ==
    /\ rust[t].mode = "waiting" /\ (rust[t].op \in TimesOut \/ stage = "joining")
    /\ pending' = pending \ {<<t, rust[t].op>>}
    /\ Goes(t, FALSE)
    /\ UNCHANGED <<serial, astray, inbox, lockVars, entry, dbVars, stage, settling>>

(* send_close: queued without an entry in the map, nobody waits for it.    *)
SendClose(t) ==
    /\ rust[t].op = "close"
    /\ inbox' = IF TsfnOpen THEN Append(inbox, <<t, "close">>) ELSE inbox
    /\ Goes(t, TRUE)
    /\ UNCHANGED <<serial, astray, pending, lockVars, entry, dbVars, stage, settling>>

-----------------------------------------------------------------------------
(* The event loop takes the next call of an operation out of the queue.    *)
Take(t, op) == LoopFree /\ inbox # <<>> /\ Head(inbox) = <<t, op>> /\ inbox' = Tail(inbox)

Send(t, op) == db' = [db EXCEPT ![Line(t)] = Append(@, <<t, op>>)]

(* releaseSerialLock of the connection, if it has the lock.                *)
Unlock(t) == released' = IF entry[t].lock THEN released \cup {t} ELSE released

DropLock(e) == [e EXCEPT !.lock = FALSE]

(* acquire: the adapter is registered at once, or behind the serial lock.  *)
DispatchAcquire(t) ==
    /\ Take(t, "acquire")
    /\ IF serial
       THEN chain' = Append(chain, t) /\ UNCHANGED <<entry, rustVars>>
       ELSE /\ entry' = [entry EXCEPT ![t].live = TRUE]
            /\ Resolve(t, "acquire", TRUE)
            /\ UNCHANGED chain
    /\ UNCHANGED <<serial, astray, released, dbVars, stage, settling>>

\* Seeded fault: an acquire that waits is left alone by close.
GrantLockUnlessClosing(t) ==
    /\ LoopFree /\ ~Closing /\ ~entry[t].lock /\ t \notin released
    /\ \E i \in DOMAIN chain : chain[i] = t /\ (i > 1 => chain[i - 1] \in released)
    /\ entry' = [entry EXCEPT ![t].live = TRUE, ![t].lock = TRUE]
    /\ Resolve(t, "acquire", TRUE)
    /\ settling' = settling \ {<<t, "acquire">>}
    /\ UNCHANGED <<serial, astray, inbox, lockVars, dbVars, stage>>

(* The one before has let go: the lock is ours whether or not the thread   *)
(* still waits for the connection.                                         *)
GrantLock(t) ==
    /\ LoopFree /\ ~entry[t].lock /\ t \notin released
    /\ \E i \in DOMAIN chain : chain[i] = t /\ (i > 1 => chain[i - 1] \in released)
    /\ IF Closing
       THEN released' = released \cup {t} /\ UNCHANGED entry
       ELSE /\ entry' = [entry EXCEPT ![t].live = TRUE, ![t].lock = TRUE]
            /\ UNCHANGED released
    /\ Resolve(t, "acquire", ~Closing)
    /\ settling' = settling \ {<<t, "acquire">>}
    /\ UNCHANGED <<serial, astray, inbox, chain, dbVars, stage>>

(* A call for a connection that is not in the map is an error, except a    *)
(* rollback; so is begin on the shared handle once close has begun.        *)
DispatchRefuse(t, op) ==
    /\ op \in {"begin", "execute", "commit", "rollback"}
    /\ Take(t, op)
    /\ ~entry[t].live \/ (op = "begin" /\ serial /\ Closing)
    /\ Resolve(t, op, op = "rollback")
    /\ UNCHANGED <<serial, astray, lockVars, entry, dbVars, stage, settling>>

Busy(t) == entry' = [entry EXCEPT ![t].busy = TRUE]

DispatchStatement(t, op) ==
    /\ op \in {"begin", "execute"}
    /\ Take(t, op)
    /\ entry[t].live /\ ~(op = "begin" /\ serial /\ Closing)
    /\ Send(t, op) /\ Busy(t)
    /\ UNCHANGED <<serial, astray, rustVars, lockVars, tx, txConn, clients, stage, settling>>

(* commit and rollback detach the client from the adapter of a pool; there *)
(* is nothing to do, and nothing is said, when another call has done so.   *)
HasTx(t) == serial \/ t \in txConn

\* Seeded fault: the adapter keeps its client while it commits.
DispatchEndAttached(t, op) ==
    /\ op \in {"commit", "rollback"}
    /\ Take(t, op)
    /\ entry[t].live
    /\ Send(t, op) /\ Busy(t)
    /\ UNCHANGED <<serial, astray, rustVars, lockVars, tx, txConn, clients, stage, settling>>

DispatchEnd(t, op) ==
    /\ op \in {"commit", "rollback"}
    /\ Take(t, op)
    /\ entry[t].live
    /\ IF HasTx(t)
       THEN Send(t, op) /\ Busy(t) /\ txConn' = txConn \ {t} /\ UNCHANGED rustVars
       ELSE /\ entry' = [entry EXCEPT ![t].inTx = FALSE, ![t].busy = FALSE]
            /\ Resolve(t, op, TRUE)
            /\ UNCHANGED <<db, txConn>>
    /\ UNCHANGED <<serial, astray, lockVars, tx, clients, stage, settling>>

(* inTransaction does not tell that a BEGIN is under way, nor that a COMMIT *)
(* on the shared handle has failed and left the transaction open.          *)
Forgets(t) ==
    \/ <<t, "begin">> \in ToSet(db[Line(t)])
    \/ /\ serial /\ tx[None] = t /\ ~entry[t].inTx
       /\ <<t, "rollback">> \notin ToSet(db[None])

(* Out of the map with nothing to roll back: lock and client given back.   *)
LeaveMap(t) ==
    /\ astray' = IF Forgets(t) THEN astray \cup {t} ELSE astray
    /\ entry' = [entry EXCEPT ![t].live = FALSE, ![t].lock = FALSE]
    /\ Unlock(t)
    /\ txConn' = txConn \ {t} /\ clients' = clients \ (txConn \cap {t})

(* The end of a connection: out of the map at once; an open transaction is *)
(* rolled back before the client and the lock are given back.              *)
DispatchClose(t) ==
    /\ Take(t, "close")
    /\ IF ~entry[t].live THEN UNCHANGED <<entry, released, db, txConn, clients, astray>>
       ELSE IF entry[t].inTx /\ HasTx(t)
       THEN /\ Send(t, "close")
            /\ entry' = [entry EXCEPT ![t].live = FALSE]
            /\ txConn' = txConn \ {t}
            /\ UNCHANGED <<released, clients, astray>>
       ELSE LeaveMap(t) /\ UNCHANGED db
    /\ UNCHANGED <<serial, rustVars, chain, tx, stage, settling>>

\* Seeded fault: a sweep does not roll back.
SweepKeepsTx(t) ==
    /\ LoopFree /\ ~Closing
    /\ entry[t].live /\ ~entry[t].busy
    /\ LeaveMap(t)
    /\ UNCHANGED <<serial, rustVars, inbox, chain, db, tx, stage, settling>>

(* sweepOrphanedConnections, by the timer or before an acquire: an idle    *)
(* connection that has expired leaves the map and gives the lock back at   *)
(* once; its transaction is rolled back in the background.                 *)
Sweep(t) ==
    /\ LoopFree /\ (Closing => inbox # <<>> /\ Head(inbox)[2] = "acquire")
    /\ entry[t].live /\ ~entry[t].busy
    /\ IF entry[t].inTx /\ HasTx(t)
       THEN /\ Send(t, "sweep")
            /\ entry' = [entry EXCEPT ![t].live = FALSE, ![t].lock = FALSE]
            /\ Unlock(t)
            /\ txConn' = txConn \ {t}
            /\ UNCHANGED <<clients, astray>>
       ELSE LeaveMap(t) /\ UNCHANGED db
    /\ UNCHANGED <<serial, rustVars, inbox, chain, tx, stage, settling>>

-----------------------------------------------------------------------------
(* The database finishes the first statement of a handle, and dispatchOp   *)
(* goes on behind its await.                                               *)
Finish(l, t, op) ==
    /\ LoopFree /\ db[l] # <<>> /\ Head(db[l]) = <<t, op>>
    /\ db' = [db EXCEPT ![l] = Tail(@)]
    /\ settling' = settling \ {<<t, op>>}
    /\ UNCHANGED <<serial, astray, inbox, chain, stage>>

(* What is sent to a pool waits for a client that is free, unless its      *)
(* connection has one.                                                     *)
HasClient(t) == serial \/ t \in clients \/ Cardinality(clients) < Clients

(* A pool adapter keeps the client. A transaction that is open on the      *)
(* shared handle goes on (SQLite) or is committed (MySQL).                 *)
BeginDone(l, t) ==
    /\ Finish(l, t, "begin")
    /\ HasClient(t)
    /\ \E owner \in {t} \cup ({tx[l]} \ {None}) : tx' = [tx EXCEPT ![l] = owner]
    /\ clients' = IF serial THEN clients ELSE clients \cup {t}
    /\ txConn' = IF serial THEN txConn ELSE txConn \cup {t}
    /\ entry' = [entry EXCEPT ![t].inTx = TRUE, ![t].busy = FALSE]
    /\ Resolve(t, "begin", TRUE)
    /\ UNCHANGED released

(* A failed begin gives the lock back itself.                              *)
BeginFailed(l, t) ==
    /\ DbFails /\ Finish(l, t, "begin")
    /\ entry' = [entry EXCEPT ![t].busy = FALSE, ![t].lock = FALSE]
    /\ Unlock(t)
    /\ Resolve(t, "begin", FALSE)
    /\ UNCHANGED <<serial, astray, tx, txConn, clients>>

ExecuteDone(l, t, ok) ==
    /\ IF ok THEN HasClient(t) ELSE DbFails
    /\ Finish(l, t, "execute")
    /\ entry' = [entry EXCEPT ![t].busy = FALSE]
    /\ Resolve(t, "execute", ok)
    /\ UNCHANGED <<serial, astray, released, tx, txConn, clients>>

\* Seeded fault: a failed commit does not release its client.
EndDoneKeeps(l, t, op, ok) ==
    /\ op \in {"commit", "rollback"} /\ (ok \/ (DbFails /\ op = "commit"))
    /\ Finish(l, t, op)
    /\ tx' = IF ok \/ ~serial THEN [tx EXCEPT ![l] = None] ELSE tx
    /\ clients' = IF ok THEN clients \ {t} ELSE clients
    /\ entry' = [entry EXCEPT ![t].inTx = FALSE, ![t].busy = FALSE]
    /\ Resolve(t, op, ok)
    /\ UNCHANGED <<serial, astray, released, txConn>>

(* COMMIT or ROLLBACK: the client goes back to the pool, or is destroyed;  *)
(* on the shared handle a COMMIT that fails leaves the transaction open.   *)
EndDone(l, t, op, ok) ==
    /\ op \in {"commit", "rollback"} /\ (ok \/ (DbFails /\ op = "commit"))
    /\ Finish(l, t, op)
    /\ tx' = IF ok \/ ~serial THEN [tx EXCEPT ![l] = None] ELSE tx
    /\ clients' = clients \ {t}
    /\ entry' = [entry EXCEPT ![t].inTx = FALSE, ![t].busy = FALSE]
    /\ Resolve(t, op, ok)
    /\ UNCHANGED <<serial, astray, released, txConn>>

(* The rollback of a connection that is closed or was swept.               *)
DropDone(l, t, op) ==
    /\ op \in {"close", "sweep"}
    /\ Finish(l, t, op)
    /\ tx' = [tx EXCEPT ![l] = None]
    /\ clients' = clients \ {t}
    /\ entry' = [entry EXCEPT ![t].lock = FALSE]
    /\ Unlock(t)
    /\ UNCHANGED <<serial, astray, rustVars, txConn>>

-----------------------------------------------------------------------------
(* StorageManager.close: engine.shutdown holds the event loop and joins    *)
(* the augmentation jobs before it tells the bridge.                       *)
CloseBegin ==
    /\ Closes /\ stage = "open"
    /\ stage' = "joining"
    /\ UNCHANGED <<serial, astray, rustVars, inbox, lockVars, entry, dbVars, settling>>

CloseJoined ==
    /\ stage = "joining" /\ \A t \in Jobs : rust[t].op = "done"
    /\ stage' = "taken"
    /\ UNCHANGED <<serial, astray, rustVars, inbox, lockVars, entry, dbVars, settling>>

(* NodeConnectionFactory::shutdown answers every call in the map; close    *)
(* then releases the locks and waits for what is in flight.                *)
InFlight == (UNION {ToSet(db[l]) : l \in Lines})
                \cup {<<t, "acquire">> : t \in {u \in ToSet(chain) : ~entry[u].lock} \ released}

CloseDrain ==
    /\ stage = "taken"
    /\ stage' = "settling"
    /\ LET answered == {t \in Threads : <<t, rust[t].op>> \in pending /\ rust[t].mode = "waiting"}
       IN  rust' = [t \in Threads |->
                      IF t \in answered THEN [op |-> NextOp(t, rust[t].op, FALSE), mode |-> "ready"]
                      ELSE rust[t]]
    /\ pending' = {}
    /\ LET held == {t \in Threads : entry[t].live /\ entry[t].lock}
       IN  /\ released' = released \cup held
           /\ entry' = [t \in Threads |-> IF t \in held THEN DropLock(entry[t]) ELSE entry[t]]
    /\ settling' = InFlight
    /\ UNCHANGED <<serial, astray, inbox, chain, dbVars>>

(* The connections that are left are rolled back and closed.               *)
CloseLeft ==
    /\ stage = "settling" /\ settling = {}
    /\ stage' = "rolling"
    /\ LET left == {t \in Threads : entry[t].live}
           undo == {t \in left : entry[t].inTx /\ HasTx(t)}
       IN  /\ entry' = [t \in Threads |-> [entry[t] EXCEPT !.live = FALSE]]
           /\ db' = [l \in Lines |->
                        db[l] \o SetToSeq({t \in undo : Line(t) = l} \X {"sweep"})]
           /\ settling' = undo \X {"sweep"}
           /\ txConn' = txConn \ left
           /\ clients' = clients \ ((txConn \cap left) \ undo)
    /\ UNCHANGED <<serial, astray, rustVars, inbox, lockVars, tx>>

CloseFinish ==
    /\ stage = "rolling" /\ settling = {}
    /\ stage' = "closed"
    /\ UNCHANGED <<serial, astray, rustVars, inbox, lockVars, entry, dbVars, settling>>

-----------------------------------------------------------------------------
ThreadNext(t) == CallInsert(t) \/ CallQueue(t) \/ SendClose(t)

DispatchNext ==
    \E t \in Threads :
        \/ DispatchAcquire(t) \/ DispatchClose(t)
        \/ \E op \in Operations :
              DispatchRefuse(t, op) \/ DispatchStatement(t, op) \/ DispatchEnd(t, op)

FinishNext(l) ==
    \E t \in Threads :
        \/ BeginDone(l, t) \/ BeginFailed(l, t)
        \/ \E ok \in BOOLEAN : ExecuteDone(l, t, ok)
        \/ \E ok \in BOOLEAN, op \in {"commit", "rollback"} : EndDone(l, t, op, ok)
        \/ \E op \in {"close", "sweep"} : DropDone(l, t, op)

CloseNext == CloseJoined \/ CloseDrain \/ CloseLeft \/ CloseFinish

Next ==
    \/ DispatchNext \/ CloseBegin \/ CloseNext
    \/ \E t \in Threads : ThreadNext(t) \/ CallTimeout(t) \/ GrantLock(t) \/ Sweep(t)
    \/ \E l \in Lines : FinishNext(l)

(* The first statement of a line waits for a client.                       *)
Starved(l) == /\ db[l] # <<>> /\ Head(db[l])[2] \in {"begin", "execute"}
              /\ ~HasClient(Head(db[l])[1])

(* Threads and the event loop are scheduled, timers fire (the one of the   *)
(* sweep and the one of a call), and a statement that has a client ends;   *)
(* nothing makes one that waits for a client fail.                         *)
Fairness ==
    /\ WF_vars(DispatchNext) /\ WF_vars(CloseNext)
    /\ \A t \in Threads : WF_vars(ThreadNext(t)) /\ WF_vars(GrantLock(t)) /\ WF_vars(Sweep(t))
                        /\ WF_vars(CallTimeout(t))
    /\ \A l \in Lines : SF_vars(~Starved(l) /\ FinishNext(l))

Spec == Init /\ [][Next]_vars /\ Fairness
-----------------------------------------------------------------------------
(* A transaction of one thread never takes in a statement of another: a    *)
(* write runs in its own transaction, and a read in none (the serial lock  *)
(* of StorageManager, and the timeouts of Inner::call on the other side),  *)
(* unless a connection has left the map with a BEGIN under way, or with a  *)
(* failed COMMIT not undone, and its transaction is still open.            *)
StatementsAreIsolated ==
    \A l \in Lines : db[l] # <<>> /\ Head(db[l])[2] = "execute" =>
        LET t == Head(db[l])[1]
        IN  tx[l] \in astray \cup {IF t \in Readers THEN None ELSE t}

(* When the Rust side is done and the event loop has nothing left to do,   *)
(* no connection is kept: no client is out of the pool, no transaction     *)
(* open ("No connection is held between calls", storage/connection.rs).    *)
Quiet == /\ \A t \in Threads : rust[t].op = "done" /\ ~entry[t].live
         /\ inbox = <<>> /\ \A l \in Lines : db[l] = <<>>
NothingHeldBetweenCalls == Quiet /\ ~Closing => clients = {} /\ \A l \in Lines : tx[l] = None

(* What the code keeps of it, with any call given up after 30 s: what is   *)
(* held between calls belongs to a connection that was closed while its    *)
(* BEGIN was under way, or swept between a failed COMMIT and the ROLLBACK. *)
OnlyStraysAreHeld ==
    Quiet /\ ~Closing => clients \subseteq astray /\ \A l \in Lines : tx[l] \in astray \cup {None}

(* After the bridge is told of the shutdown nobody waits for an answer:    *)
(* every such thread would hang until its 30 seconds are over              *)
(* (NodeConnectionFactory::shutdown).                                      *)
NobodyIsForgotten ==
    stage \in {"settling", "rolling", "closed"} => \A t \in Threads : rust[t].mode # "waiting"

(* close comes to an end ("rather than hanging forever waiting for a       *)
(* commit that will never arrive", storage/manager.ts).                    *)
CloseReturns == stage # "open" ~> stage = "closed"

(* What the code keeps of it: the only thing close may wait for without    *)
(* end is a statement that waits for a client of the pool. An acquire in   *)
(* line, a rollback under way or a job in a call do not hold it up.        *)
CloseWaitsOnlyForClients ==
    stage # "open" ~> (stage = "closed" \/ [](\E l \in Lines : Starved(l)))

(* Shutdown unblocks every thread that waits for an answer of the event    *)
(* loop: no job it waits for has to run into the 30 s of Inner::call       *)
(* (comment of NodeConnectionFactory::shutdown, bridge.rs).                *)
ShutdownNeedsNoTimeout == [][~\E t \in Jobs : stage = "joining" /\ CallTimeout(t)]_vars
=============================================================================
