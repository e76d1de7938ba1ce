------------------------ MODULE StorageBridgeProofs ------------------------
(***************************************************************************)
(* The safety properties of module StorageBridge, for any finite set of    *)
(* threads, any pool, on one shared handle and on a pool, whatever times   *)
(* out or fails.  Most of the invariant speaks of one thread at a time:    *)
(* where its calls are, what its connection holds and what of it is on its *)
(* way to the database.                                                    *)
(***************************************************************************)
EXTENDS StorageBridge, ListProofs, FiniteSetTheorems, FunctionTheorems, TLAPS

\* The order in which a thread comes to its operations.
Rank(op) ==
    CASE op = "acquire" -> 1 [] op = "begin"    -> 2 [] op = "execute" -> 3
      [] op = "commit"  -> 4 [] op = "rollback" -> 5 [] op = "close"   -> 6
      [] op = "sweep"   -> 7 [] op = "done"     -> 7

Item == Threads \X (Operations \cup {"sweep"})
Ends == {"commit", "rollback", "close", "sweep"}

\* The calls of one thread in a list come in the order of its operations.
Ordered(s) ==
    \A i, j \in DOMAIN s : i < j /\ s[i][1] = s[j][1] => Rank(s[i][2]) < Rank(s[j][2])

\* What of a thread the event loop has not taken, and what the database has not done.
Asked(t) == {op \in Operations : <<t, op>> \in In(inbox)}
Sent(t)  == {op \in Operations \cup {"sweep"} : <<t, op>> \in In(db[Line(t)])}

Called(t, op) == \/ Rank(op) < Rank(rust[t].op)
                 \/ op = rust[t].op /\ rust[t].mode = "waiting"

Drained == stage \in {"settling", "rolling", "closed"}

InLine(t) == t \in In(chain) /\ ~entry[t].lock /\ t \notin released

\* The connection has not been given to the thread.
Unopened(t) == \/ rust[t].op = "acquire" /\ rust[t].mode # "waiting"
               \/ "acquire" \in Asked(t) \/ InLine(t)

\* Nothing can come of the thread but a close that finds nothing to roll back.
Spent(t) == /\ rust[t].op \in {"close", "done"} /\ Asked(t) \subseteq {"close"}
            /\ Sent(t) = {} /\ ~entry[t].inTx

-----------------------------------------------------------------------------
(* What holds of one thread, whatever times out.                           *)

CallInv(t) ==
    /\ rust[t].mode # "ready" => rust[t].op \notin {"close", "done"}
    /\ rust[t].mode = "waiting" => <<t, rust[t].op>> \in pending /\ ~Drained
    /\ rust[t].mode = "inserted" /\ TsfnOpen => <<t, rust[t].op>> \in pending
    /\ \A op \in Operations : <<t, op>> \in pending => op = rust[t].op /\ rust[t].mode # "ready"

\* A reader has no transaction.
ReaderInv(t) ==
    t \in Readers => /\ rust[t].op \notin {"begin", "commit", "rollback"}
                     /\ Asked(t) \cap {"begin", "commit", "rollback"} = {}
                     /\ Sent(t) \subseteq {"execute"} /\ ~entry[t].inTx

OrderInv(t) ==
    /\ \A op \in Asked(t) : Called(t, op)
    /\ \A op \in Sent(t) \ {"sweep"} :
          Called(t, op) /\ \A later \in Asked(t) : Rank(op) < Rank(later)
    /\ "acquire" \notin Sent(t)
    /\ "begin" \in Asked(t) \cup Sent(t) =>
          rust[t].op \in {"begin", "close", "done"} /\ Asked(t) \subseteq {"begin", "close"}

ConnectionInv(t) ==
    /\ (rust[t].op = "acquire" /\ rust[t].mode # "waiting") \/ "acquire" \in Asked(t) =>
          t \notin In(chain)
    /\ Unopened(t) => /\ rust[t].op \in {"acquire", "done"} /\ Asked(t) \subseteq {"acquire"}
                      /\ Sent(t) = {} /\ t \notin clients /\ t \notin astray
                      /\ ~entry[t].live /\ ~entry[t].lock /\ ~entry[t].inTx
    /\ (rust[t].op = "begin" /\ rust[t].mode # "waiting") \/ "begin" \in Asked(t) =>
          Sent(t) = {} /\ t \notin clients /\ ~entry[t].inTx
    /\ "begin" \in Sent(t) =>
          /\ Sent(t) = {"begin"} /\ t \notin clients /\ ~entry[t].inTx
          /\ entry[t].live => entry[t].busy
    /\ Sent(t) \cap {"close", "sweep"} # {} \/ t \in astray => ~entry[t].live
    /\ t \notin Readers /\ entry[t].live
          /\ ((rust[t].op = "execute" /\ rust[t].mode # "waiting") \/ "execute" \in Asked(t))
       => entry[t].inTx

ClientInv(t) ==
    /\ t \in txConn => t \in clients /\ Sent(t) \cap Ends = {}
    /\ t \in clients => ~serial /\ (t \in txConn \/ Sent(t) \cap Ends # {})
    /\ ~serial /\ entry[t].live /\ entry[t].inTx => t \in clients
    /\ entry[t].lock => serial

\* As long as the manager has not lost the transaction.
KeptInv(t) ==
    t \notin astray /\ stage = "open" =>
        /\ "begin" \in Sent(t) => entry[t].live
        /\ t \in txConn => entry[t].live /\ entry[t].inTx

ThreadInv(t) == /\ CallInv(t) /\ ReaderInv(t) /\ OrderInv(t)
                /\ ConnectionInv(t) /\ ClientInv(t) /\ KeptInv(t)

-----------------------------------------------------------------------------
(* What holds of the lists, of the lock and of the connections together.   *)

ListInv ==
    /\ Ordered(inbox)
    /\ \A l \in Lines : Ordered(db[l]) /\ \A x \in In(db[l]) : Line(x[1]) = l
    /\ \A l \in Lines : tx[l] # None => tx[l] \notin Readers /\ Line(tx[l]) = l
    /\ IsFiniteSet(clients)
    /\ ~serial => chain = <<>>

LockInv ==
    /\ released \subseteq In(chain)
    /\ \A t \in Threads : entry[t].lock => t \in In(chain) /\ t \notin released
    /\ \A i, j \in DOMAIN chain :
          i < j => /\ chain[i] # chain[j]
                   /\ chain[j] \in released \/ entry[chain[j]].lock => chain[i] \in released
    /\ serial => \A t \in Threads : entry[t].live /\ ~entry[t].lock => Spent(t) \/ Drained
    /\ serial => \A t, u \in Threads :
          t # u /\ entry[t].live /\ entry[u].live => Spent(t) \/ Spent(u)

CommonInv == /\ TypeOK /\ ListInv /\ LockInv
             /\ \A t \in Threads : ThreadInv(t)

-----------------------------------------------------------------------------
(* What holds of the transactions, but for those the manager has lost.     *)

Undoes    == {"rollback", "close", "sweep"}
Undone(l) == \E x \in In(db[l]) : x[2] \in Undoes

\* A begin of a connection that is not lost has nothing behind it, the execute of a
\* writer nothing before it, and before a begin or the execute of a reader an open
\* transaction is undone; A is the connections lost.
Isolated(s, x, A) ==
    \A i \in DOMAIN s :
        /\ s[i][2] = "begin" => i = Len(s) \/ s[i][1] \in A
        /\ s[i][2] = "execute" /\ s[i][1] \notin Readers => i = 1 /\ x \in A \cup {s[i][1]}
        /\ s[i][2] = "begin" \/ (s[i][2] = "execute" /\ s[i][1] \in Readers) =>
              x \in A \cup {None, s[i][1]} \/ \E j \in 1 .. (i - 1) : s[j][2] \in Undoes

\* Once close has begun, nobody but t can send anything on its line.
Alone(t) ==
    Closing /\ (serial => \A u \in Threads : u # t /\ entry[u].live => Spent(u))

\* The thread is going to ask for a rollback, or has done so.
Undoing(t) == \/ rust[t].op = "commit" /\ rust[t].mode = "waiting"
              \/ rust[t].op = "rollback" /\ rust[t].mode # "waiting"
              \/ "rollback" \in Asked(t)

\* Why the transaction of t may be open with nothing sent that undoes it.
Kept(t) == \/ entry[t].live /\ entry[t].inTx
           \/ serial /\ entry[t].live /\ Undoing(t)
           \/ ~serial /\ "commit" \in Sent(t)
           \/ t \in astray \/ Alone(t)

TransactionInv(t) ==
    /\ "begin" \in Sent(t) => entry[t].live \/ t \in astray \/ Alone(t)
    /\ entry[t].live /\ entry[t].inTx =>
          /\ tx[Line(t)] \in astray \cup {t}
          /\ \A x \in In(db[Line(t)]) : x[1] = t /\ x[2] \in {"execute", "commit", "rollback"}
    /\ tx[Line(t)] = t => Undone(Line(t)) \/ Kept(t)
    /\ serial /\ entry[t].live /\ "commit" \in Asked(t) \cup Sent(t) =>
          Undoing(t) \/ "rollback" \in Sent(t) \/ Closing

IsolationInv == /\ \A l \in Lines : Isolated(db[l], tx[l], astray)
                /\ \A t \in Threads : TransactionInv(t)

-----------------------------------------------------------------------------
(* The lists, and what of a thread is in them.                             *)

LEMMA LinesAre == \A t \in Threads : Line(t) \in Lines
BY DEF Line, Lines

\* What keeps a list in order.
LEMMA OrderIsKept ==
    ASSUME NEW s \in Seq(Item), Ordered(s)
    PROVE  /\ \A x \in Item : (\A y \in In(s) : y[1] = x[1] => Rank(y[2]) < Rank(x[2]))
                              => Ordered(Append(s, x))
           /\ s # <<>> => /\ Ordered(Tail(s))
                          /\ \A y \in In(Tail(s)) : y[1] = Head(s)[1] => Rank(Head(s)[2]) < Rank(y[2])
<1>1. ASSUME NEW x \in Item, \A y \in In(s) : y[1] = x[1] => Rank(y[2]) < Rank(x[2])
      PROVE  Ordered(Append(s, x))
    <2>1. /\ DOMAIN s = 1 .. Len(s) /\ DOMAIN Append(s, x) = 1 .. (Len(s) + 1) /\ Len(s) \in Nat
          /\ \A i \in 1 .. Len(s) : Append(s, x)[i] = s[i] /\ s[i] \in In(s)
          /\ Append(s, x)[Len(s) + 1] = x
        BY DEF In
    <2> SUFFICES ASSUME NEW i \in DOMAIN Append(s, x), NEW j \in DOMAIN Append(s, x),
                        i < j, Append(s, x)[i][1] = Append(s, x)[j][1]
                 PROVE  Rank(Append(s, x)[i][2]) < Rank(Append(s, x)[j][2])
        BY DEF Ordered
    <2>2. i \in 1 .. Len(s)
        BY <2>1
    <2>3. CASE j \in 1 .. Len(s)
        BY <2>1, <2>2, <2>3 DEF Ordered
    <2>4. CASE j = Len(s) + 1
        BY <1>1, <2>1, <2>2, <2>4
    <2> QED
        BY <2>1, <2>3, <2>4
<1>2. ASSUME s # <<>>
      PROVE  /\ Ordered(Tail(s))
             /\ \A y \in In(Tail(s)) : y[1] = Head(s)[1] => Rank(Head(s)[2]) < Rank(y[2])
    <2>1. /\ DOMAIN s = 1 .. Len(s) /\ DOMAIN Tail(s) = 1 .. (Len(s) - 1) /\ Len(s) \in Nat \ {0}
          /\ \A i \in 1 .. (Len(s) - 1) : Tail(s)[i] = s[i + 1]
          /\ Head(s) = s[1]
        BY <1>2
    <2>2. Ordered(Tail(s))
        <3> SUFFICES ASSUME NEW i \in DOMAIN Tail(s), NEW j \in DOMAIN Tail(s),
                            i < j, Tail(s)[i][1] = Tail(s)[j][1]
                     PROVE  Rank(Tail(s)[i][2]) < Rank(Tail(s)[j][2])
            BY DEF Ordered
        <3>1. i + 1 \in DOMAIN s /\ j + 1 \in DOMAIN s /\ i + 1 < j + 1
            BY <2>1
        <3> QED
            BY <2>1, <3>1 DEF Ordered
    <2>3. ASSUME NEW i \in DOMAIN Tail(s), Tail(s)[i][1] = Head(s)[1]
          PROVE  Rank(Head(s)[2]) < Rank(Tail(s)[i][2])
        <3>1. i + 1 \in DOMAIN s /\ 1 \in DOMAIN s /\ 1 < i + 1
            BY <2>1
        <3> QED
            BY <2>1, <2>3, <3>1 DEF Ordered
    <2> QED
        BY <2>2, <2>3 DEF In
<1> QED
    BY <1>1, <1>2

\* The event loop takes the first call of a thread: the later ones stay.
LEMMA TakeDoes ==
    ASSUME TypeOK, ListInv, NEW t \in Threads, NEW op \in Operations, Take(t, op)
    PROVE  /\ op \in Asked(t) /\ Asked(t)' = Asked(t) \ {op}
           /\ \A later \in Asked(t)' : Rank(op) < Rank(later)
           /\ \A u \in Threads : u # t => Asked(u)' = Asked(u)
           /\ Ordered(inbox)' /\ inbox' \in Seq(Threads \X Operations)
<1>1. /\ inbox \in Seq(Threads \X Operations) /\ inbox # <<>> /\ inbox' = Tail(inbox)
      /\ Head(inbox) = <<t, op>> /\ Ordered(inbox)
    BY DEF Take, TypeOK, ListInv
<1>2. inbox' \in Seq(Threads \X Operations) /\ In(inbox) = {<<t, op>>} \cup In(inbox')
    BY <1>1, Elements
<1>3. inbox \in Seq(Item)
    BY <1>1 DEF Item
<1>4. /\ Ordered(inbox')
      /\ \A y \in In(inbox') : y[1] = t => Rank(op) < Rank(y[2])
    BY <1>1, <1>3, OrderIsKept
<1>5. <<t, op>> \notin In(inbox')
    <2>1. Rank(op) \in Nat
        BY DEF Rank, Operations
    <2> QED
        BY <1>4, <2>1
<1>6. op \in Asked(t) /\ Asked(t)' = Asked(t) \ {op}
    BY <1>2, <1>5 DEF Asked
<1>7. \A later \in Asked(t)' : Rank(op) < Rank(later)
    BY <1>4 DEF Asked
<1>8. \A u \in Threads : u # t => Asked(u)' = Asked(u)
    BY <1>2 DEF Asked
<1> QED
    BY <1>2, <1>4, <1>6, <1>7, <1>8 DEF Ordered

\* A thread queues a call behind those it has queued.
LEMMA QueueDoes ==
    ASSUME TypeOK, ListInv, NEW t \in Threads, NEW op \in Operations,
           inbox' = Append(inbox, <<t, op>>),
           \A earlier \in Asked(t) : Rank(earlier) < Rank(op)
    PROVE  /\ Asked(t)' = Asked(t) \cup {op}
           /\ \A u \in Threads : u # t => Asked(u)' = Asked(u)
           /\ Ordered(inbox)' /\ inbox' \in Seq(Threads \X Operations)
<1>1. inbox \in Seq(Threads \X Operations) /\ Ordered(inbox) /\ <<t, op>> \in Threads \X Operations
    BY DEF TypeOK, ListInv
<1>2. /\ In(inbox') = In(inbox) \cup {<<t, op>>} /\ In(inbox) \subseteq Threads \X Operations
      /\ inbox' \in Seq(Threads \X Operations)
    BY <1>1, Elements
<1>3. inbox \in Seq(Item) /\ <<t, op>> \in Item
    BY <1>1 DEF Item
<1>4. \A y \in In(inbox) : y[1] = t => Rank(y[2]) < Rank(op)
    BY <1>2 DEF Asked
<1>5. Ordered(inbox')
    BY <1>1, <1>3, <1>4, OrderIsKept
<1>6. Asked(t)' = Asked(t) \cup {op} /\ \A u \in Threads : u # t => Asked(u)' = Asked(u)
    BY <1>2 DEF Asked
<1> QED
    BY <1>2, <1>5, <1>6 DEF Ordered

\* A statement is sent on the line of its thread, behind those of the thread.
LEMMA SendDoes ==
    ASSUME TypeOK, ListInv, NEW t \in Threads, NEW op \in Operations \cup {"sweep"},
           Send(t, op), serial' = serial, \A earlier \in Sent(t) : Rank(earlier) < Rank(op)
    PROVE  /\ Sent(t)' = Sent(t) \cup {op}
           /\ \A u \in Threads : u # t => Sent(u)' = Sent(u)
           /\ \A l \in Lines : Ordered(db'[l]) /\ \A x \in In(db'[l]) : Line(x[1])' = l
           /\ db' \in [Lines -> Seq(Item)]
           /\ In(db'[Line(t)]) = In(db[Line(t)]) \cup {<<t, op>>}
           /\ db'[Line(t)] = Append(db[Line(t)], <<t, op>>)
           /\ \A l \in Lines : l # Line(t) => db'[l] = db[l]
<1>0. PICK l \in Lines : l = Line(t)
    BY LinesAre
<1>1. /\ db \in [Lines -> Seq(Item)] /\ <<t, op>> \in Item
      /\ db' = [db EXCEPT ![l] = Append(db[l], <<t, op>>)]
      /\ \A u : Line(u)' = Line(u)
    BY <1>0 DEF Send, TypeOK, Item, Line
<1>2. /\ db'[l] = Append(db[l], <<t, op>>) /\ \A k \in Lines : k # l => db'[k] = db[k]
      /\ db[l] \in Seq(Item)
    BY <1>1
<1>3. /\ In(db'[l]) = In(db[l]) \cup {<<t, op>>} /\ In(db[l]) \subseteq Item
      /\ db'[l] \in Seq(Item)
    <2>1. ASSUME NEW s \in Seq(Item), NEW x \in Item
          PROVE  In(Append(s, x)) = In(s) \cup {x} /\ In(s) \subseteq Item
        BY Elements
    <2>2. Append(db[l], <<t, op>>) \in Seq(Item)
        BY <1>1, <1>2
    <2> QED
        BY <1>1, <1>2, <2>1, <2>2
<1>4. db' \in [Lines -> Seq(Item)]
    BY <1>1, <1>3
<1>5. Ordered(db[l]) /\ \A y \in In(db[l]) : y[1] = t => Rank(y[2]) < Rank(op)
    <2>1. Ordered(db[l])
        BY DEF ListInv
    <2>2. ASSUME NEW y \in In(db[l]), y[1] = t PROVE y[2] \in Sent(t)
        BY <1>0, <1>3, <2>2 DEF Sent, Item
    <2> QED
        BY <2>1, <2>2
<1>6. Ordered(db'[l])
    BY <1>1, <1>2, <1>5, OrderIsKept
<1>7. ASSUME NEW k \in Lines
      PROVE  Ordered(db'[k]) /\ \A x \in In(db'[k]) : Line(x[1])' = k
    <2>1. CASE k = l
        <3>1. \A x \in In(db[l]) : Line(x[1]) = l
            BY DEF ListInv
        <3>2. <<t, op>>[1] = t
            OBVIOUS
        <3> QED
            BY <1>0, <1>1, <1>3, <1>6, <2>1, <3>1, <3>2
    <2>2. CASE k # l
        BY <1>1, <1>2, <2>2 DEF ListInv
    <2> QED
        BY <2>1, <2>2
<1>8. Sent(t)' = Sent(t) \cup {op}
    BY <1>0, <1>1, <1>3 DEF Sent
<1>9. ASSUME NEW u \in Threads, u # t PROVE Sent(u)' = Sent(u)
    <2>0. PICK k \in Lines : k = Line(u)
        BY LinesAre
    <2>1. \A o : <<u, o>> \in In(db'[k]) <=> <<u, o>> \in In(db[k])
        <3>1. CASE k = l
            <4>1. \A o : <<u, o>> # <<t, op>>
                BY <1>9
            <4> QED
                BY <1>3, <3>1, <4>1
        <3>2. CASE k # l
            BY <1>2, <3>2
        <3> QED
            BY <3>1, <3>2
    <2> QED
        BY <1>1, <2>0, <2>1 DEF Sent
<1> QED
    BY <1>0, <1>2, <1>3, <1>4, <1>7, <1>8, <1>9

\* The database finishes the first statement of a line.
LEMMA FinishDoes ==
    ASSUME TypeOK, ListInv, NEW l \in Lines, NEW t \in Threads,
           NEW op \in Operations \cup {"sweep"}, Finish(l, t, op)
    PROVE  /\ l = Line(t) /\ op \in Sent(t) /\ Sent(t)' = Sent(t) \ {op}
           /\ \A u \in Threads : u # t => Sent(u)' = Sent(u)
           /\ \A k \in Lines : Ordered(db'[k]) /\ \A x \in In(db'[k]) : Line(x[1])' = k
           /\ db' \in [Lines -> Seq(Item)]
           /\ db[l] # <<>> /\ Head(db[l]) = <<t, op>> /\ db'[l] = Tail(db[l])
           /\ In(db[l]) = {<<t, op>>} \cup In(db'[l])
           /\ \A k \in Lines : k # l => db'[k] = db[k]
<1>1. /\ db \in [Lines -> Seq(Item)] /\ <<t, op>> \in Item /\ Head(db[l]) = <<t, op>>
      /\ db[l] # <<>> /\ db' = [db EXCEPT ![l] = Tail(db[l])]
      /\ \A u : Line(u)' = Line(u)
    BY LinesAre DEF Finish, TypeOK, Item, Line
<1>2. db'[l] = Tail(db[l]) /\ db[l] \in Seq(Item) /\ \A k \in Lines : k # l => db'[k] = db[k]
    BY <1>1
<1>3. In(db[l]) = {<<t, op>>} \cup In(db'[l]) /\ db'[l] \in Seq(Item)
    BY <1>1, <1>2, Elements
<1>4. l = Line(t) /\ db' \in [Lines -> Seq(Item)]
    <2>1. Line(<<t, op>>[1]) = l
        BY <1>3 DEF ListInv
    <2> QED
        BY <1>1, <1>3, <2>1
<1>5. Ordered(db[l])
    BY DEF ListInv
<1>6. Ordered(db'[l]) /\ \A y \in In(db'[l]) : y[1] = t => Rank(op) < Rank(y[2])
    BY <1>1, <1>2, <1>5, OrderIsKept
<1>7. <<t, op>> \notin In(db'[l])
    <2>1. Rank(op) \in Nat
        BY DEF Rank, Operations
    <2> QED
        BY <1>6, <2>1
<1>8. \A k \in Lines : Ordered(db'[k]) /\ \A x \in In(db'[k]) : Line(x[1])' = k
    BY <1>1, <1>2, <1>3, <1>6 DEF ListInv
<1>9. op \in Sent(t) /\ Sent(t)' = Sent(t) \ {op}
    BY <1>1, <1>3, <1>4, <1>7 DEF Sent
<1>10. ASSUME NEW u \in Threads, u # t PROVE Sent(u)' = Sent(u)
    <2>0. PICK k \in Lines : k = Line(u)
        BY LinesAre
    <2>1. \A o : <<u, o>> \in In(db'[k]) <=> <<u, o>> \in In(db[k])
        BY <1>2, <1>3, <1>10
    <2> QED
        BY <1>1, <2>0, <2>1 DEF Sent
<1> QED
    BY <1>1, <1>2, <1>3, <1>4, <1>8, <1>9, <1>10

-----------------------------------------------------------------------------
(* A step of one thread: what it leaves alone of the others.               *)

Same(u) == /\ rust'[u] = rust[u] /\ entry'[u] = entry[u]
           /\ Asked(u)' = Asked(u) /\ Sent(u)' = Sent(u)
           /\ \A op : <<u, op>> \in pending' <=> <<u, op>> \in pending
           /\ (u \in txConn' <=> u \in txConn) /\ (u \in clients' <=> u \in clients)
           /\ (u \in astray' <=> u \in astray)
           /\ u \in In(chain') <=> u \in In(chain)
           /\ InLine(u)' <=> InLine(u)

Others(t) == \A u \in Threads : u # t => Same(u)

LEMMA SameStays ==
    ASSUME NEW u \in Threads, ThreadInv(u), Same(u), UNCHANGED <<serial, stage>>
    PROVE  ThreadInv(u)'
<1>1. CallInv(u)' /\ ReaderInv(u)'
    BY DEF ThreadInv, CallInv, ReaderInv, Same, Drained, TsfnOpen
<1>2. OrderInv(u)'
    BY DEF ThreadInv, OrderInv, Called, Same
<1>3. ConnectionInv(u)'
    BY DEF ThreadInv, ConnectionInv, Unopened, Same
<1>4. ClientInv(u)'
    BY DEF ThreadInv, ClientInv, Same
<1>5. KeptInv(u)'
    BY DEF ThreadInv, KeptInv, Same
<1> QED
    BY <1>1, <1>2, <1>3, <1>4, <1>5 DEF ThreadInv

LEMMA ThreadsStay ==
    ASSUME \A u \in Threads : ThreadInv(u), NEW t \in Threads, Others(t), ThreadInv(t)',
           UNCHANGED <<serial, stage>>
    PROVE  \A u \in Threads : ThreadInv(u)'
BY SameStays DEF Others

LEMMA RankType == \A op \in Operations \cup {"sweep", "done"} : Rank(op) \in Nat
BY DEF Rank, Operations

\* A thread goes on to a later operation.
LEMMA NextOpIsLater ==
    ASSUME NEW t \in Threads, NEW op \in Operations, NEW ok \in BOOLEAN
    PROVE  /\ NextOp(t, op, ok) \in Operations \cup {"done"}
           /\ Rank(op) < Rank(NextOp(t, op, ok))
BY DEF NextOp, Operations, Rank

\* An answer: the thread that waits for it goes on, any other is left alone.
Answers(t, op, ok) ==
    \/ /\ rust'[t] = rust[t]
       /\ \A p : <<t, p>> \in pending' <=> <<t, p>> \in pending
       /\ ~(rust[t].op = op /\ rust[t].mode = "waiting")
    \/ /\ rust[t].op = op /\ rust[t].mode = "waiting"
       /\ rust'[t].op = NextOp(t, op, ok) /\ rust'[t].mode = "ready"
       /\ \A p \in Operations : <<t, p>> \notin pending'

LeavesRust(t) ==
    /\ rust' \in [Threads -> [op : Operations \cup {"done"},
                              mode : {"ready", "inserted", "waiting"}]]
    /\ pending' \subseteq Threads \X Operations
    /\ \A u \in Threads : u # t =>
          /\ rust'[u] = rust[u]
          /\ \A op : <<u, op>> \in pending' <=> <<u, op>> \in pending

LEMMA GoesDoes ==
    ASSUME TypeOK, NEW t \in Threads, NEW ok \in BOOLEAN, rust[t].op # "done",
           Goes(t, ok), pending' = pending \ {<<t, rust[t].op>>}
    PROVE  /\ LeavesRust(t)
           /\ rust'[t].op = NextOp(t, rust[t].op, ok) /\ rust'[t].mode = "ready"
<1>1. /\ rust \in [Threads -> [op : Operations \cup {"done"},
                               mode : {"ready", "inserted", "waiting"}]]
      /\ pending \subseteq Threads \X Operations
    BY DEF TypeOK
<1>2. NextOp(t, rust[t].op, ok) \in Operations \cup {"done"}
    BY <1>1, NextOpIsLater
<1> DEFINE new == [op |-> NextOp(t, rust[t].op, ok), mode |-> "ready"]
<1>3. rust' = [rust EXCEPT ![t] = new]
    BY DEF Goes
<1>4. /\ new \in [op : Operations \cup {"done"}, mode : {"ready", "inserted", "waiting"}]
      /\ new.op = NextOp(t, rust[t].op, ok) /\ new.mode = "ready"
    BY <1>2
<1> HIDE DEF new
<1> QED
    BY <1>1, <1>3, <1>4 DEF LeavesRust

LEMMA ResolveDoes ==
    ASSUME TypeOK, NEW t \in Threads, ThreadInv(t), NEW op \in Operations, NEW ok \in BOOLEAN,
           Called(t, op), Resolve(t, op, ok)
    PROVE  LeavesRust(t) /\ Answers(t, op, ok)
<1>1. CASE <<t, op>> \in pending
    <2>1. op = rust[t].op /\ rust[t].mode = "waiting"
        <3>1. op = rust[t].op /\ Rank(op) \in Nat
            BY <1>1 DEF ThreadInv, CallInv, Rank, Operations
        <3> QED
            BY <3>1 DEF Called
    <2>2. /\ Goes(t, ok) /\ pending' = pending \ {<<t, rust[t].op>>} /\ rust[t].op # "done"
        BY <1>1, <2>1 DEF Resolve, Operations
    <2>3. \A p \in Operations : <<t, p>> \notin pending'
        BY <2>2 DEF ThreadInv, CallInv
    <2> QED
        BY <2>1, <2>2, <2>3, GoesDoes DEF Answers
<1>2. CASE <<t, op>> \notin pending
    <2>1. UNCHANGED <<rust, pending>>
        BY <1>2 DEF Resolve, rustVars
    <2> QED
        BY <1>2, <2>1 DEF LeavesRust, Answers, TypeOK, ThreadInv, CallInv
<1> QED
    BY <1>1, <1>2

-----------------------------------------------------------------------------
(* The Rust side.                                                          *)

LEMMA NothingAsked ==
    ASSUME UNCHANGED inbox PROVE \A u \in Threads : Asked(u)' = Asked(u)
BY DEF Asked

LEMMA NothingSent ==
    ASSUME UNCHANGED <<db, serial>> PROVE \A u \in Threads : Sent(u)' = Sent(u)
BY DEF Sent, Line

LEMMA ListsStay ==
    ASSUME ListInv, UNCHANGED <<inbox, chain, db, tx, serial, clients>>
    PROVE  ListInv'
BY DEF ListInv, Ordered, Line

Fits(t) == TypeOK' /\ ListInv' /\ Others(t) /\ ThreadInv(t)'

\* The lock stays where it is, and nobody enters the map or has more to send.
KeepsLock(t) ==
    /\ chain' = chain /\ released' = released /\ entry'[t].lock = entry[t].lock
    /\ serial /\ entry'[t].live => entry[t].live /\ (Spent(t) => Spent(t)')

\* The lock, if the thread has it, is given back.
GivesLock(t) ==
    /\ chain' = chain /\ ~entry'[t].lock
    /\ released' = IF entry[t].lock THEN released \cup {t} ELSE released
    /\ entry'[t].live => entry[t].live /\ Spent(t)'

LEMMA InsertFits ==
    ASSUME TypeOK, ListInv, NEW t \in Threads, ThreadInv(t), CallInsert(t)
    PROVE  Fits(t) /\ KeepsLock(t)
<1> DEFINE op == rust[t].op
<1>1. /\ rust[t].mode = "ready" /\ op \in Operations \ {"close"}
      /\ pending' = pending \cup {<<t, op>>}
      /\ rust'[t].op = op /\ rust'[t].mode = "inserted"
      /\ rust' \in [Threads -> [op : Operations \cup {"done"},
                                mode : {"ready", "inserted", "waiting"}]]
      /\ \A u \in Threads : u # t => rust'[u] = rust[u]
    BY DEF CallInsert, TypeOK, Operations
<1>2. UNCHANGED <<serial, astray, inbox, chain, released, entry, db, tx, txConn, clients, stage, settling>>
    BY DEF CallInsert, lockVars, dbVars
<1>3. \A u \in Threads : Asked(u)' = Asked(u) /\ Sent(u)' = Sent(u)
    BY <1>2, NothingAsked, NothingSent
<1>4. Others(t)
    BY <1>1, <1>2, <1>3 DEF Others, Same, InLine
<1>5. TypeOK' /\ ListInv'
    BY <1>1, <1>2, ListsStay DEF TypeOK
<1> HIDE DEF op
<1>6. CallInv(t)'
    <2>1. \A p : <<t, p>> \in pending' <=> p = op
        BY <1>1 DEF ThreadInv, CallInv, TypeOK, op
    <2>2. <<t, rust'[t].op>> \in pending' /\ rust'[t].op \notin {"close", "done"}
        BY <1>1, <2>1 DEF Operations
    <2>3. \A p \in Operations : <<t, p>> \in pending' => p = rust'[t].op
        BY <1>1, <2>1
    <2> QED
        BY <1>1, <2>2, <2>3 DEF CallInv
<1>7. OrderInv(t)'
    BY <1>1, <1>2, <1>3 DEF ThreadInv, OrderInv, Called, op
<1>8. ConnectionInv(t)'
    BY <1>1, <1>2, <1>3 DEF ThreadInv, ConnectionInv, Unopened, InLine, op
<1>9. ReaderInv(t)' /\ ClientInv(t)' /\ KeptInv(t)'
    BY <1>1, <1>2, <1>3 DEF ThreadInv, ReaderInv, ClientInv, KeptInv, op
<1>10. KeepsLock(t)
    <2>1. ~Spent(t) \/ op = "done"
        BY <1>1 DEF Spent, op
    <2> QED
        BY <1>1, <1>2, <2>1 DEF KeepsLock, Operations
<1> QED
    BY <1>4, <1>5, <1>6, <1>7, <1>8, <1>9, <1>10 DEF Fits, ThreadInv

\* A call that is given up, at the queue or behind it.
LEMMA GivesUpFits ==
    ASSUME TypeOK, ListInv, NEW t \in Threads, ThreadInv(t), rust[t].mode # "ready",
           Goes(t, FALSE), pending' = pending \ {<<t, rust[t].op>>},
           UNCHANGED <<serial, astray, inbox, chain, released, entry, db, tx, txConn, clients, stage,
                       settling>>
    PROVE  Fits(t) /\ KeepsLock(t)
<1>1. rust[t].op \in Operations \ {"close"}
    BY DEF TypeOK, ThreadInv, CallInv
<1>2. /\ LeavesRust(t) /\ rust'[t].mode = "ready"
      /\ rust'[t].op = NextOp(t, rust[t].op, FALSE) /\ Rank(rust[t].op) < Rank(rust'[t].op)
    BY <1>1, GoesDoes, NextOpIsLater DEF Operations
<1>3. \A u \in Threads : Asked(u)' = Asked(u) /\ Sent(u)' = Sent(u)
    BY NothingAsked, NothingSent
<1>4. Others(t)
    BY <1>2, <1>3 DEF Others, Same, InLine, LeavesRust
<1>5. TypeOK' /\ ListInv'
    BY <1>2, ListsStay DEF TypeOK, LeavesRust
<1>6. CallInv(t)'
    <2>1. \A p \in Operations : <<t, p>> \notin pending'
        BY DEF ThreadInv, CallInv
    <2> QED
        BY <1>2, <2>1 DEF CallInv
<1>7. /\ rust'[t].op \in {"done", "close", "rollback"}
      /\ rust[t].op = "acquire" => rust'[t].op = "done"
      /\ rust[t].op = "begin" => rust'[t].op = "close"
      /\ t \in Readers => rust'[t].op \in {"done", "close"}
    BY <1>1, <1>2 DEF NextOp, Operations, ThreadInv, ReaderInv
<1>8. OrderInv(t)'
    <2>0. Rank(rust[t].op) \in Nat /\ Rank(rust'[t].op) \in Nat
        BY <1>1, <1>7, RankType DEF Operations
    <2>1. ASSUME NEW p \in Operations, Called(t, p) PROVE Called(t, p)'
        <3>1. Rank(p) \in Nat
            BY RankType
        <3>2. Rank(p) <= Rank(rust[t].op)
            BY <2>0, <2>1, <3>1 DEF Called
        <3>3. Rank(p) < Rank(rust'[t].op)
            <4>1. Rank(rust[t].op) < Rank(rust'[t].op)
                BY <1>2
            <4> QED
                BY <2>0, <3>1, <3>2, <4>1
        <3> QED
            BY <3>3 DEF Called
    <2>2. Asked(t) \subseteq Operations /\ Sent(t) \ {"sweep"} \subseteq Operations
        BY DEF Asked, Sent
    <2> QED
        BY <1>1, <1>3, <1>7, <2>1, <2>2 DEF ThreadInv, OrderInv, Operations
<1>9. ConnectionInv(t)'
    BY <1>1, <1>3, <1>7 DEF ThreadInv, ConnectionInv, Unopened, InLine, Operations
<1>10. ReaderInv(t)' /\ ClientInv(t)' /\ KeptInv(t)'
    BY <1>1, <1>3, <1>7 DEF ThreadInv, ReaderInv, ClientInv, KeptInv, Operations
<1> QED
    BY <1>1, <1>4, <1>5, <1>6, <1>8, <1>9, <1>10
    DEF Fits, ThreadInv, KeepsLock, Spent, Operations

LEMMA QueueFits ==
    ASSUME TypeOK, ListInv, NEW t \in Threads, ThreadInv(t), CallQueue(t)
    PROVE  Fits(t) /\ KeepsLock(t)
<1>1. CASE ~TsfnOpen
    BY <1>1, GivesUpFits DEF CallQueue, TsfnOpen, lockVars, dbVars
<1>2. CASE TsfnOpen
    <2>0. PICK op \in Operations \ {"close"} : op = rust[t].op
        BY <1>2 DEF CallQueue, TypeOK, ThreadInv, CallInv
    <2>1. /\ rust[t].mode = "inserted" /\ op # "done"
          /\ <<t, op>> \in pending /\ stage \in {"open", "joining"}
        BY <1>2, <2>0 DEF CallQueue, ThreadInv, CallInv, TsfnOpen, Operations
    <2>2. /\ inbox' = Append(inbox, <<t, op>>)
          /\ rust'[t].op = op /\ rust'[t].mode = "waiting"
          /\ rust' \in [Threads -> [op : Operations \cup {"done"},
                                    mode : {"ready", "inserted", "waiting"}]]
          /\ \A u \in Threads : u # t => rust'[u] = rust[u]
          /\ UNCHANGED <<serial, astray, pending, chain, released, entry, db, tx, txConn, clients,
                         stage, settling>>
        <3>1. rust \in [Threads -> [op : Operations \cup {"done"},
                                    mode : {"ready", "inserted", "waiting"}]]
            BY DEF TypeOK
        <3>2. rust' = [rust EXCEPT ![t].mode = "waiting"] /\ inbox' = Append(inbox, <<t, op>>)
            BY <1>2, <2>0 DEF CallQueue
        <3>3. UNCHANGED <<serial, astray, pending, chain, released, entry, db, tx, txConn, clients,
                          stage, settling>>
            BY <1>2 DEF CallQueue, lockVars, dbVars
        <3> QED
            BY <2>0, <3>1, <3>2, <3>3
    <2>3. /\ \A earlier \in Asked(t) : Rank(earlier) < Rank(op)
          /\ \A earlier \in Sent(t) \ {"sweep"} : Rank(earlier) < Rank(op)
        BY <2>0, <2>1 DEF ThreadInv, OrderInv, Called
    <2>4. /\ Asked(t)' = Asked(t) \cup {op} /\ \A u \in Threads : u # t => Asked(u)' = Asked(u)
          /\ Ordered(inbox)' /\ inbox' \in Seq(Threads \X Operations)
        BY <2>0, <2>1, <2>2, <2>3, QueueDoes
    <2>5. \A u \in Threads : Sent(u)' = Sent(u)
        BY <2>2, NothingSent
    <2>6. Others(t)
        BY <2>2, <2>4, <2>5 DEF Others, Same, InLine
    <2>7. TypeOK' /\ ListInv'
        BY <2>2, <2>4 DEF TypeOK, ListInv, Ordered, Line
    <2>8. CallInv(t)'
        BY <2>0, <2>1, <2>2 DEF ThreadInv, CallInv, Drained, TsfnOpen
    <2>9. /\ op # "begin" => "begin" \notin Asked(t) \cup Sent(t)
          /\ op = "begin" => Asked(t) \subseteq {"close"} /\ Sent(t) = {}
          /\ op = "acquire" => Asked(t) \subseteq {"acquire"} /\ Sent(t) = {}
        <3>1. op # "begin" => "begin" \notin Asked(t) \cup Sent(t)
            BY <2>0, <2>1 DEF ThreadInv, OrderInv
        <3>2. op = "begin" => Sent(t) = {} /\ Asked(t) \subseteq {"close"}
            <4>1. op = "begin" => Sent(t) = {} /\ "acquire" \notin Asked(t)
                BY <2>0, <2>1 DEF ThreadInv, ConnectionInv, Unopened
            <4> QED
                BY <2>3, <4>1 DEF Asked, Operations, Rank
        <3>3. op = "acquire" => Asked(t) \subseteq {"acquire"} /\ Sent(t) = {}
            BY <2>0, <2>1 DEF ThreadInv, ConnectionInv, Unopened
        <3> QED
            BY <3>1, <3>2, <3>3
    <2>10. OrderInv(t)'
        <3>1. \A p \in Operations : Called(t, p) => Called(t, p)'
            BY <2>0, <2>1, <2>2 DEF Called
        <3>2. Asked(t) \subseteq Operations /\ Sent(t) \ {"sweep"} \subseteq Operations
            BY DEF Asked, Sent
        <3>3. Called(t, op)'
            BY <2>2 DEF Called
        <3> QED
            BY <2>0, <2>1, <2>2, <2>3, <2>4, <2>5, <2>9, <3>1, <3>2, <3>3 DEF ThreadInv, OrderInv
    <2>11. ConnectionInv(t)'
        BY <2>0, <2>1, <2>2, <2>4, <2>5, <2>9 DEF ThreadInv, ConnectionInv, Unopened, InLine
    <2>12. ReaderInv(t)' /\ ClientInv(t)' /\ KeptInv(t)'
        BY <2>0, <2>1, <2>2, <2>4, <2>5, <2>9
        DEF ThreadInv, ReaderInv, ClientInv, KeptInv
    <2> QED
        BY <2>0, <2>1, <2>2, <2>6, <2>7, <2>8, <2>10, <2>11, <2>12
        DEF Fits, ThreadInv, KeepsLock, Spent
<1> QED
    BY <1>1, <1>2

LEMMA SendCloseFits ==
    ASSUME TypeOK, ListInv, NEW t \in Threads, ThreadInv(t), SendClose(t)
    PROVE  Fits(t) /\ KeepsLock(t)
<1>1. /\ rust[t].op = "close" /\ rust[t].mode = "ready"
      /\ UNCHANGED <<serial, astray, pending, chain, released, entry, db, tx, txConn, clients, stage,
                     settling>>
    BY DEF SendClose, TypeOK, ThreadInv, CallInv, lockVars, dbVars
<1>2. <<t, "close">> \notin pending /\ pending' = pending \ {<<t, rust[t].op>>}
    BY <1>1 DEF ThreadInv, CallInv, Operations
<1>3. LeavesRust(t) /\ rust'[t].mode = "ready" /\ rust'[t].op = "done"
    BY <1>1, <1>2, GoesDoes DEF SendClose, NextOp
<1>4. /\ \A p \in Asked(t) : Rank(p) < Rank("close") /\ p # "acquire"
      /\ \A p \in Sent(t) \ {"sweep"} : Rank(p) < Rank("close")
    BY <1>1 DEF ThreadInv, OrderInv, Called, ConnectionInv, Unopened
<1>5. /\ Asked(t) \subseteq Asked(t)' /\ Asked(t)' \subseteq Asked(t) \cup {"close"}
      /\ \A u \in Threads : u # t => Asked(u)' = Asked(u)
      /\ Ordered(inbox)' /\ inbox' \in Seq(Threads \X Operations)
    <2>1. CASE TsfnOpen
        <3>1. inbox' = Append(inbox, <<t, "close">>) /\ "close" \in Operations
            BY <2>1 DEF SendClose, Operations
        <3> QED
            BY <1>4, <3>1, QueueDoes
    <2>2. CASE ~TsfnOpen
        <3>1. UNCHANGED inbox
            BY <2>2 DEF SendClose
        <3> QED
            BY <3>1, NothingAsked DEF TypeOK, ListInv, Ordered
    <2> QED
        BY <2>1, <2>2
<1>6. \A u \in Threads : Sent(u)' = Sent(u)
    BY <1>1, NothingSent
<1>7. Others(t)
    BY <1>1, <1>3, <1>5, <1>6 DEF Others, Same, InLine, LeavesRust
<1>8. TypeOK' /\ ListInv'
    BY <1>1, <1>3, <1>5 DEF TypeOK, ListInv, Ordered, Line, LeavesRust
<1>9. CallInv(t)'
    BY <1>1, <1>3 DEF ThreadInv, CallInv
<1>10. OrderInv(t)'
    <2>1. \A p \in Operations : Called(t, p) => Called(t, p)'
        BY <1>1, <1>3 DEF Called, Rank, Operations
    <2>2. Asked(t) \subseteq Operations /\ Sent(t) \ {"sweep"} \subseteq Operations
        BY DEF Asked, Sent
    <2>3. Called(t, "close")'
        BY <1>3 DEF Called, Rank
    <2> QED
        BY <1>3, <1>4, <1>5, <1>6, <2>1, <2>2, <2>3 DEF ThreadInv, OrderInv
<1>11. ConnectionInv(t)'
    BY <1>1, <1>3, <1>4, <1>5, <1>6 DEF ThreadInv, ConnectionInv, Unopened, InLine
<1>12. ReaderInv(t)' /\ ClientInv(t)' /\ KeptInv(t)'
    BY <1>1, <1>3, <1>5, <1>6 DEF ThreadInv, ReaderInv, ClientInv, KeptInv
<1> QED
    BY <1>1, <1>3, <1>5, <1>6, <1>7, <1>8, <1>9, <1>10, <1>11, <1>12
    DEF Fits, ThreadInv, KeepsLock, Spent

LEMMA TimeoutFits ==
    ASSUME TypeOK, ListInv, NEW t \in Threads, ThreadInv(t), CallTimeout(t)
    PROVE  Fits(t) /\ KeepsLock(t)
BY GivesUpFits DEF CallTimeout, lockVars, dbVars

-----------------------------------------------------------------------------
(* The event loop: what it takes, answers and sends.                       *)

LEMMA AnswersKeeps ==
    ASSUME TypeOK, NEW t \in Threads, ThreadInv(t), NEW op \in Operations \ {"close"},
           NEW ok \in BOOLEAN, Answers(t, op, ok), stage' = stage
    PROVE  /\ CallInv(t)'
           /\ \A p \in Operations : Called(t, p) => Called(t, p)'
           /\ "begin" \in Asked(t) \cup Sent(t) /\ (op = "begin" => ~ok) =>
                 rust'[t].op \in {"begin", "close", "done"}
           /\ Spent(t) => rust'[t] = rust[t]
<1>1. CASE rust'[t] = rust[t] /\ \A p : <<t, p>> \in pending' <=> <<t, p>> \in pending
    BY <1>1 DEF ThreadInv, CallInv, OrderInv, Called, Drained, TsfnOpen
<1>2. CASE /\ rust[t].op = op /\ rust[t].mode = "waiting"
           /\ rust'[t].op = NextOp(t, op, ok) /\ rust'[t].mode = "ready"
           /\ \A p \in Operations : <<t, p>> \notin pending'
    <2>1. CallInv(t)'
        BY <1>2 DEF CallInv
    <2>2. ASSUME NEW p \in Operations, Called(t, p) PROVE Called(t, p)'
        <3>1. Rank(p) \in Nat /\ Rank(op) \in Nat /\ Rank(NextOp(t, op, ok)) \in Nat
            BY RankType, NextOpIsLater
        <3>2. Rank(p) <= Rank(op) /\ Rank(op) < Rank(NextOp(t, op, ok))
            BY <1>2, <2>2, <3>1, NextOpIsLater DEF Called
        <3>3. Rank(p) < Rank(NextOp(t, op, ok))
            BY <3>1, <3>2
        <3> QED
            BY <1>2, <3>3 DEF Called
    <2>3. "begin" \in Asked(t) \cup Sent(t) /\ (op = "begin" => ~ok) =>
             rust'[t].op \in {"begin", "close", "done"}
        BY <1>2 DEF ThreadInv, OrderInv, NextOp, Operations
    <2>4. ~Spent(t)
        BY <1>2 DEF Spent, Operations
    <2> QED
        BY <2>1, <2>2, <2>3, <2>4
<1> QED
    BY <1>1, <1>2 DEF Answers

\* What is taken from the queue, and perhaps sent, was called.
LEMMA OrderStays ==
    ASSUME NEW t \in Threads, ThreadInv(t), \A p \in Operations : Called(t, p) => Called(t, p)',
           Asked(t)' \subseteq Asked(t),
           \A p \in Sent(t)' : \/ p \in Sent(t) \cup {"sweep"}
                               \/ /\ p \in Asked(t) /\ p # "acquire"
                                  /\ \A later \in Asked(t)' : Rank(p) < Rank(later),
           "begin" \in Asked(t)' \cup Sent(t)' => rust'[t].op \in {"begin", "close", "done"}
    PROVE  OrderInv(t)'
<1>1. Asked(t) \subseteq Operations /\ Sent(t) \subseteq Operations \cup {"sweep"}
    BY DEF Asked, Sent
<1>2. \A p \in Asked(t)' : Called(t, p)'
    BY <1>1 DEF ThreadInv, OrderInv
<1>3. ASSUME NEW p \in Sent(t)' \ {"sweep"}
      PROVE  Called(t, p)' /\ \A later \in Asked(t)' : Rank(p) < Rank(later)
    BY <1>1 DEF ThreadInv, OrderInv
<1>4. "acquire" \notin Sent(t)'
    BY DEF ThreadInv, OrderInv
<1>5. "begin" \in Asked(t)' \cup Sent(t)' => Asked(t)' \subseteq {"begin", "close"}
    BY DEF ThreadInv, OrderInv
<1> QED
    BY <1>2, <1>3, <1>4, <1>5 DEF OrderInv

\* A call that waits for an answer has been made.
LEMMA AskedIsCalled ==
    ASSUME NEW t \in Threads, ThreadInv(t)
    PROVE  /\ \A op \in Asked(t) : Called(t, op)
           /\ \A op \in Sent(t) \ {"sweep"} : Called(t, op)
           /\ InLine(t) => Called(t, "acquire")
<1>1. InLine(t) => Called(t, "acquire")
    BY DEF ThreadInv, ConnectionInv, Unopened, InLine, Called, Rank
<1> QED
    BY <1>1 DEF ThreadInv, OrderInv

\* What becomes of a thread that is given its connection, or is not.
LEMMA AcquireIsAnswered ==
    ASSUME TypeOK, NEW t \in Threads, ThreadInv(t), Unopened(t), Called(t, "acquire"),
           NEW ok \in BOOLEAN, Answers(t, "acquire", ok)
    PROVE  /\ rust'[t].op \in {"done", "execute", "begin"}
           /\ rust'[t].op = "begin" => t \notin Readers
           /\ rust'[t].op = "execute" => t \in Readers
           /\ ~ok => rust'[t].op = "done"
<1>1. rust[t].op = "acquire" => rust[t].mode = "waiting"
    <2>1. ~(Rank("acquire") < Rank("acquire"))
        BY RankType DEF Operations
    <2> QED
        BY <2>1 DEF Called
<1> QED
    BY <1>1 DEF ThreadInv, ConnectionInv, Answers, NextOp, Operations

LEMMA DispatchAcquireFits ==
    ASSUME TypeOK, ListInv, NEW t \in Threads, ThreadInv(t), DispatchAcquire(t)
    PROVE  Fits(t)
<1>1. /\ UNCHANGED <<serial, astray, released, db, tx, txConn, clients, stage, settling>>
      /\ Take(t, "acquire") /\ "acquire" \in Operations
    BY DEF DispatchAcquire, dbVars, Operations
<1>2. /\ "acquire" \in Asked(t) /\ Asked(t)' = Asked(t) \ {"acquire"}
      /\ \A u \in Threads : u # t => Asked(u)' = Asked(u)
      /\ Ordered(inbox)' /\ inbox' \in Seq(Threads \X Operations)
    BY <1>1, TakeDoes
<1>3. \A u \in Threads : Sent(u)' = Sent(u)
    BY <1>1, NothingSent
<1>4. Unopened(t) /\ t \notin In(chain) /\ Called(t, "acquire")
    BY <1>2, AskedIsCalled DEF Unopened, ThreadInv, ConnectionInv
<1>5. Asked(t)' = {} /\ Sent(t) = {}
    BY <1>2, <1>4 DEF ThreadInv, ConnectionInv
<1>6. CASE serial
    <2>1. chain' = Append(chain, t) /\ UNCHANGED <<entry, rust, pending>>
        BY <1>6 DEF DispatchAcquire, rustVars
    <2>2. In(chain') = In(chain) \cup {t} /\ chain' \in Seq(Threads)
        <3>1. chain \in Seq(Threads)
            BY DEF TypeOK
        <3> QED
            BY <2>1, <3>1, Elements
    <2>3. Others(t)
        BY <1>1, <1>2, <1>3, <2>1, <2>2 DEF Others, Same, InLine
    <2>4. TypeOK' /\ ListInv'
        BY <1>1, <1>2, <1>6, <2>1, <2>2 DEF TypeOK, ListInv, Ordered, Line
    <2>5. CallInv(t)' /\ ReaderInv(t)' /\ ClientInv(t)' /\ KeptInv(t)'
        BY <1>1, <1>3, <1>5, <2>1
        DEF ThreadInv, CallInv, ReaderInv, ClientInv, KeptInv, Drained, TsfnOpen
    <2>6. OrderInv(t)'
        BY <1>3, <1>5, <2>1 DEF ThreadInv, OrderInv
    <2>7. ConnectionInv(t)'
        <3>1. rust[t].op = "acquire" => rust[t].mode = "waiting"
            BY <1>4, RankType DEF Called, Operations
        <3> QED
            BY <1>1, <1>3, <1>4, <1>5, <2>1, <3>1 DEF ThreadInv, ConnectionInv, Unopened, InLine
    <2> QED
        BY <2>3, <2>4, <2>5, <2>6, <2>7 DEF Fits, ThreadInv
<1>7. CASE ~serial
    <2>1. /\ entry' = [entry EXCEPT ![t].live = TRUE] /\ Resolve(t, "acquire", TRUE)
          /\ chain' = chain /\ chain = <<>>
        BY <1>7 DEF DispatchAcquire, ListInv
    <2>2. LeavesRust(t) /\ Answers(t, "acquire", TRUE)
        BY <1>1, <1>4, <2>1, ResolveDoes
    <2>3. /\ entry'[t] = [entry[t] EXCEPT !.live = TRUE]
          /\ \A u \in Threads : u # t => entry'[u] = entry[u]
          /\ entry' \in [Threads -> [live : BOOLEAN, busy : BOOLEAN, inTx : BOOLEAN,
                                     lock : BOOLEAN]]
        BY <2>1 DEF TypeOK
    <2>4. /\ entry'[t].inTx = entry[t].inTx /\ entry'[t].lock = entry[t].lock
          /\ ~entry[t].inTx /\ ~entry[t].lock
        BY <1>4, <2>3 DEF ThreadInv, ConnectionInv, TypeOK
    <2>5. Others(t)
        BY <1>1, <1>2, <1>3, <2>1, <2>2, <2>3 DEF Others, Same, InLine, LeavesRust
    <2>6. TypeOK' /\ ListInv'
        BY <1>1, <1>2, <2>1, <2>2, <2>3 DEF TypeOK, ListInv, Ordered, Line, LeavesRust
    <2>7. CallInv(t)' /\ \A p \in Operations : Called(t, p) => Called(t, p)'
        BY <1>1, <2>2, AnswersKeeps DEF Operations
    <2>8. /\ rust'[t].op \in {"done", "execute", "begin"}
          /\ rust'[t].op = "begin" => t \notin Readers
          /\ rust'[t].op = "execute" => t \in Readers
        BY <1>4, <2>2, AcquireIsAnswered
    <2>9. OrderInv(t)'
        BY <1>3, <1>5, <2>7, OrderStays
    <2>10. ConnectionInv(t)'
        <3>1. In(chain') = {}
            BY <2>1 DEF In
        <3> QED
            BY <1>1, <1>3, <1>4, <1>5, <2>4, <2>8, <3>1
            DEF ThreadInv, ConnectionInv, Unopened, InLine
    <2>11. ReaderInv(t)' /\ ClientInv(t)' /\ KeptInv(t)'
        BY <1>1, <1>3, <1>4, <1>5, <2>4, <2>8
        DEF ThreadInv, ReaderInv, ClientInv, KeptInv, ConnectionInv
    <2> QED
        BY <2>5, <2>6, <2>7, <2>9, <2>10, <2>11 DEF Fits, ThreadInv
<1> QED
    BY <1>6, <1>7

LEMMA GrantFits ==
    ASSUME TypeOK, ListInv, NEW t \in Threads, ThreadInv(t), GrantLock(t)
    PROVE  Fits(t)
<1>1. /\ UNCHANGED <<serial, astray, inbox, chain, db, tx, txConn, clients, stage>>
      /\ settling' \subseteq settling
      /\ ~entry[t].lock /\ t \notin released /\ t \in In(chain)
    BY DEF GrantLock, dbVars, In
<1>2. serial /\ InLine(t)
    BY <1>1 DEF ListInv, InLine, In
<1>3. \A u \in Threads : Asked(u)' = Asked(u) /\ Sent(u)' = Sent(u)
    BY <1>1, NothingAsked, NothingSent
<1>4. /\ Unopened(t) /\ Called(t, "acquire") /\ Asked(t) = {} /\ Sent(t) = {}
      /\ ~entry[t].live /\ ~entry[t].inTx /\ t \notin clients /\ t \notin astray
    BY <1>1, <1>2, AskedIsCalled DEF Unopened, ThreadInv, ConnectionInv
<1>5. PICK ok \in BOOLEAN : ok = ~Closing
    OBVIOUS
<1>6. LeavesRust(t) /\ Answers(t, "acquire", ok)
    BY <1>4, <1>5, ResolveDoes DEF GrantLock, Operations
<1>7. /\ rust'[t].op \in {"done", "execute", "begin"}
      /\ rust'[t].op = "begin" => t \notin Readers
      /\ rust'[t].op = "execute" => t \in Readers
      /\ ~ok => rust'[t].op = "done"
    BY <1>4, <1>6, AcquireIsAnswered
<1>8. CallInv(t)' /\ \A p \in Operations : Called(t, p) => Called(t, p)'
    BY <1>1, <1>6, AnswersKeeps DEF Operations
<1>9. OrderInv(t)'
    BY <1>3, <1>4, <1>8, OrderStays
<1>10. /\ entry'[t].inTx = entry[t].inTx
       /\ ok => entry'[t].live /\ entry'[t].lock /\ released' = released
       /\ ~ok => entry' = entry /\ released' = released \cup {t}
       /\ \A u \in Threads : u # t => entry'[u] = entry[u]
       /\ entry' \in [Threads -> [live : BOOLEAN, busy : BOOLEAN, inTx : BOOLEAN, lock : BOOLEAN]]
       /\ released' \subseteq Threads
    <2>1. CASE ok
        BY <1>5, <2>1 DEF GrantLock, TypeOK
    <2>2. CASE ~ok
        BY <1>5, <2>2 DEF GrantLock, TypeOK
    <2> QED
        BY <2>1, <2>2
<1>11. Others(t)
    BY <1>1, <1>3, <1>6, <1>10 DEF Others, Same, InLine, LeavesRust
<1>12. TypeOK' /\ ListInv'
    BY <1>1, <1>6, <1>10, ListsStay DEF TypeOK, LeavesRust
<1>13. ~Unopened(t)'
    BY <1>3, <1>4, <1>7, <1>10 DEF Unopened, InLine
<1>14. ConnectionInv(t)'
    BY <1>1, <1>3, <1>4, <1>7, <1>10, <1>13 DEF ConnectionInv
<1>15. ReaderInv(t)' /\ ClientInv(t)' /\ KeptInv(t)'
    BY <1>1, <1>2, <1>3, <1>4, <1>7, <1>10
    DEF ThreadInv, ReaderInv, ClientInv, KeptInv
<1> QED
    BY <1>8, <1>9, <1>11, <1>12, <1>14, <1>15 DEF Fits, ThreadInv

LEMMA RefuseFits ==
    ASSUME TypeOK, ListInv, NEW t \in Threads, ThreadInv(t),
           NEW op \in Operations, DispatchRefuse(t, op)
    PROVE  Fits(t) /\ KeepsLock(t)
<1>1. /\ UNCHANGED <<serial, astray, chain, released, entry, db, tx, txConn, clients, stage, settling>>
      /\ Take(t, op) /\ op \in {"begin", "execute", "commit", "rollback"}
    BY DEF DispatchRefuse, dbVars, lockVars
<1>2. /\ op \in Asked(t) /\ Asked(t)' = Asked(t) \ {op}
      /\ \A u \in Threads : u # t => Asked(u)' = Asked(u)
      /\ Ordered(inbox)' /\ inbox' \in Seq(Threads \X Operations)
    BY <1>1, TakeDoes
<1>3. \A u \in Threads : Sent(u)' = Sent(u)
    BY <1>1, NothingSent
<1>4. PICK ok \in BOOLEAN : ok = (op = "rollback")
    OBVIOUS
<1>5. Called(t, op) /\ ~Unopened(t)
    BY <1>1, <1>2, AskedIsCalled DEF ThreadInv, ConnectionInv
<1>6. LeavesRust(t) /\ Answers(t, op, ok)
    BY <1>4, <1>5, ResolveDoes DEF DispatchRefuse
<1>7. /\ CallInv(t)' /\ \A p \in Operations : Called(t, p) => Called(t, p)'
      /\ "begin" \in Asked(t) \cup Sent(t) => rust'[t].op \in {"begin", "close", "done"}
    BY <1>1, <1>4, <1>6, AnswersKeeps DEF Operations
<1>8. OrderInv(t)'
    BY <1>2, <1>3, <1>7, OrderStays
<1>9. \/ rust'[t] = rust[t]
      \/ /\ rust'[t].op \in {"close", "rollback"} /\ rust'[t].mode = "ready"
         /\ t \in Readers => rust'[t].op = "close"
    BY <1>1, <1>2, <1>4, <1>6 DEF Answers, NextOp, ThreadInv, ReaderInv
<1>10. "begin" \notin Asked(t)' \cup Sent(t)'
    <2>1. "begin" \in Asked(t) \cup Sent(t) => op = "begin"
        BY <1>1, <1>2 DEF ThreadInv, OrderInv
    <2>2. ~(op = "begin" /\ "begin" \in Sent(t))
        BY <1>2, RankType DEF ThreadInv, OrderInv, Operations
    <2> QED
        BY <1>2, <1>3, <2>1, <2>2
<1>11. Others(t)
    BY <1>1, <1>2, <1>3, <1>6 DEF Others, Same, InLine, LeavesRust
<1>12. TypeOK' /\ ListInv'
    BY <1>1, <1>2, <1>6 DEF TypeOK, ListInv, Ordered, Line, LeavesRust
<1>13. ConnectionInv(t)'
    BY <1>1, <1>2, <1>3, <1>5, <1>9, <1>10 DEF ThreadInv, ConnectionInv, Unopened, InLine
<1>14. ReaderInv(t)' /\ ClientInv(t)' /\ KeptInv(t)'
    BY <1>1, <1>2, <1>3, <1>9, <1>10
    DEF ThreadInv, ReaderInv, ClientInv, KeptInv
<1>15. KeepsLock(t)
    BY <1>1, <1>2 DEF KeepsLock, Spent
<1> QED
    BY <1>7, <1>8, <1>11, <1>12, <1>13, <1>14, <1>15 DEF Fits, ThreadInv

LEMMA StatementFits ==
    ASSUME TypeOK, ListInv, NEW t \in Threads, ThreadInv(t),
           NEW op \in Operations, DispatchStatement(t, op)
    PROVE  Fits(t) /\ KeepsLock(t)
<1>1. /\ UNCHANGED <<serial, astray, rust, pending, chain, released, tx, txConn, clients, stage, settling>>
      /\ Take(t, op) /\ op \in {"begin", "execute"} /\ entry[t].live /\ Send(t, op)
    BY DEF DispatchStatement, rustVars, lockVars
<1>2. /\ op \in Asked(t) /\ Asked(t)' = Asked(t) \ {op}
      /\ \A later \in Asked(t)' : Rank(op) < Rank(later)
      /\ \A u \in Threads : u # t => Asked(u)' = Asked(u)
      /\ Ordered(inbox)' /\ inbox' \in Seq(Threads \X Operations)
    BY <1>1, TakeDoes
<1>3. Called(t, op) /\ ~Unopened(t) /\ Sent(t) \cap {"close", "sweep"} = {}
    BY <1>1, <1>2, AskedIsCalled DEF ThreadInv, ConnectionInv
<1>4. \A earlier \in Sent(t) : Rank(earlier) < Rank(op)
    BY <1>2, <1>3 DEF ThreadInv, OrderInv
<1>5. /\ Sent(t)' = Sent(t) \cup {op}
      /\ \A u \in Threads : u # t => Sent(u)' = Sent(u)
      /\ \A l \in Lines : Ordered(db'[l]) /\ \A x \in In(db'[l]) : Line(x[1])' = l
      /\ db' \in [Lines -> Seq(Item)]
    BY <1>1, <1>4, SendDoes
<1>6. /\ entry'[t].live = entry[t].live /\ entry'[t].inTx = entry[t].inTx
      /\ entry'[t].lock = entry[t].lock /\ entry'[t].busy
      /\ \A u \in Threads : u # t => entry'[u] = entry[u]
      /\ entry' \in [Threads -> [live : BOOLEAN, busy : BOOLEAN, inTx : BOOLEAN, lock : BOOLEAN]]
    BY DEF DispatchStatement, Busy, TypeOK
<1>7. Others(t)
    BY <1>1, <1>2, <1>5, <1>6 DEF Others, Same, InLine
<1>8. TypeOK' /\ ListInv'
    BY <1>1, <1>2, <1>5, <1>6 DEF TypeOK, ListInv, Ordered, Line, Item
<1>9. CallInv(t)'
    BY <1>1 DEF ThreadInv, CallInv, Drained, TsfnOpen
<1>10. OrderInv(t)'
    <2>1. \A p \in Operations : Called(t, p) => Called(t, p)'
        BY <1>1 DEF Called
    <2>2. "begin" \in Asked(t)' \cup Sent(t)' => rust'[t].op \in {"begin", "close", "done"}
        BY <1>1, <1>2, <1>5 DEF ThreadInv, OrderInv
    <2> QED
        BY <1>1, <1>2, <1>5, <2>1, <2>2, OrderStays
<1>11. /\ op = "begin" => /\ Sent(t) = {} /\ t \notin clients /\ ~entry[t].inTx
                          /\ Asked(t) \subseteq {"begin", "close"}
                          /\ rust[t].op \in {"begin", "close", "done"}
       /\ op = "execute" => "begin" \notin Asked(t) \cup Sent(t) /\ rust[t].op # "begin"
       /\ rust[t].op = op => rust[t].mode = "waiting"
    <2>1. rust[t].op = op => rust[t].mode = "waiting"
        BY <1>3, RankType DEF Called
    <2>2. op = "execute" => rust[t].op # "begin"
        BY <1>3 DEF Called, Rank
    <2> QED
        BY <1>2, <2>1, <2>2 DEF ThreadInv, ConnectionInv, OrderInv
<1>12. ConnectionInv(t)'
    BY <1>1, <1>2, <1>3, <1>5, <1>6, <1>11 DEF ThreadInv, ConnectionInv, Unopened, InLine
<1>13. ReaderInv(t)'
    BY <1>1, <1>2, <1>5, <1>6 DEF ThreadInv, ReaderInv
<1>14. ClientInv(t)' /\ KeptInv(t)'
    BY <1>1, <1>2, <1>5, <1>6
    DEF ThreadInv, ClientInv, KeptInv, Ends
<1>15. KeepsLock(t)
    BY <1>1, <1>2, <1>6 DEF KeepsLock, Spent
<1> QED
    BY <1>7, <1>8, <1>9, <1>10, <1>12, <1>13, <1>14, <1>15 DEF Fits, ThreadInv

LEMMA EndFits ==
    ASSUME TypeOK, ListInv, NEW t \in Threads, ThreadInv(t),
           NEW op \in Operations, DispatchEnd(t, op)
    PROVE  Fits(t) /\ KeepsLock(t)
<1>1. /\ UNCHANGED <<serial, astray, chain, released, tx, clients, stage, settling>>
      /\ Take(t, op) /\ op \in {"commit", "rollback"} /\ entry[t].live
    BY DEF DispatchEnd, lockVars
<1>2. /\ op \in Asked(t) /\ Asked(t)' = Asked(t) \ {op}
      /\ \A later \in Asked(t)' : Rank(op) < Rank(later)
      /\ \A u \in Threads : u # t => Asked(u)' = Asked(u)
      /\ Ordered(inbox)' /\ inbox' \in Seq(Threads \X Operations)
    BY <1>1, TakeDoes
<1>3. /\ Called(t, op) /\ ~Unopened(t) /\ Sent(t) \cap {"close", "sweep"} = {}
      /\ t \notin Readers
    BY <1>1, <1>2, AskedIsCalled DEF ThreadInv, ConnectionInv, ReaderInv
<1>4. /\ "begin" \notin Asked(t) \cup Sent(t) /\ "execute" \notin Asked(t)'
      /\ rust[t].op \notin {"acquire", "begin", "execute"}
    <2>1. "execute" \notin Asked(t)'
        BY <1>1, <1>2 DEF Rank
    <2>2. rust[t].op \notin {"acquire", "begin", "execute"}
        BY <1>1, <1>3 DEF Called, Rank
    <2> QED
        BY <1>1, <1>2, <2>1, <2>2 DEF ThreadInv, OrderInv
<1>5. CASE HasTx(t)
    <2>1. UNCHANGED <<rust, pending>> /\ Send(t, op) /\ txConn' = txConn \ {t}
        BY <1>5 DEF DispatchEnd, rustVars
    <2>2. \A earlier \in Sent(t) : Rank(earlier) < Rank(op)
        BY <1>2, <1>3 DEF ThreadInv, OrderInv
    <2>3. /\ Sent(t)' = Sent(t) \cup {op}
          /\ \A u \in Threads : u # t => Sent(u)' = Sent(u)
          /\ \A l \in Lines : Ordered(db'[l]) /\ \A x \in In(db'[l]) : Line(x[1])' = l
          /\ db' \in [Lines -> Seq(Item)]
        BY <1>1, <2>1, <2>2, SendDoes
    <2>4. /\ entry'[t].live = entry[t].live /\ entry'[t].inTx = entry[t].inTx
          /\ entry'[t].lock = entry[t].lock
          /\ \A u \in Threads : u # t => entry'[u] = entry[u]
          /\ entry' \in [Threads -> [live : BOOLEAN, busy : BOOLEAN, inTx : BOOLEAN, lock : BOOLEAN]]
        <3>1. entry' = [entry EXCEPT ![t].busy = TRUE]
            BY <1>5 DEF DispatchEnd, Busy
        <3>2. entry \in [Threads -> [live : BOOLEAN, busy : BOOLEAN, inTx : BOOLEAN, lock : BOOLEAN]]
            BY DEF TypeOK
        <3> QED
            BY <3>1, <3>2
    <2>5. Others(t)
        BY <1>1, <1>2, <2>1, <2>3, <2>4 DEF Others, Same, InLine
    <2>6. TypeOK' /\ ListInv'
        BY <1>1, <1>2, <2>1, <2>3, <2>4 DEF TypeOK, ListInv, Ordered, Line, Item
    <2>7. CallInv(t)'
        BY <1>1, <2>1 DEF ThreadInv, CallInv, Drained, TsfnOpen
    <2>8. OrderInv(t)'
        <3>1. \A p \in Operations : Called(t, p) => Called(t, p)'
            BY <2>1 DEF Called
        <3>2. "begin" \notin Asked(t)' \cup Sent(t)'
            BY <1>1, <1>2, <1>4, <2>3
        <3> QED
            BY <1>1, <1>2, <2>3, <3>1, <3>2, OrderStays
    <2>9. ConnectionInv(t)'
        BY <1>1, <1>2, <1>3, <1>4, <2>1, <2>3, <2>4 DEF ThreadInv, ConnectionInv, Unopened, InLine
    <2>10. ReaderInv(t)' /\ ClientInv(t)' /\ KeptInv(t)'
        BY <1>1, <1>2, <1>3, <1>4, <2>1, <2>3, <2>4
        DEF ThreadInv, ReaderInv, ClientInv, KeptInv, Ends
    <2>11. KeepsLock(t)
        BY <1>1, <1>2, <2>4 DEF KeepsLock, Spent
    <2> QED
        BY <2>5, <2>6, <2>7, <2>8, <2>9, <2>10, <2>11 DEF Fits, ThreadInv
<1>6. CASE ~HasTx(t)
    <2>1. /\ UNCHANGED <<db, txConn>> /\ Resolve(t, op, TRUE) /\ t \notin txConn
          /\ entry' = [entry EXCEPT ![t].inTx = FALSE, ![t].busy = FALSE]
        BY <1>6 DEF DispatchEnd, HasTx
    <2>a. entry \in [Threads -> [live : BOOLEAN, busy : BOOLEAN, inTx : BOOLEAN, lock : BOOLEAN]]
        BY DEF TypeOK
    <2>2. \A u \in Threads : Sent(u)' = Sent(u)
        BY <1>1, <2>1, NothingSent
    <2>3. /\ entry'[t].live = entry[t].live /\ ~entry'[t].inTx
          /\ entry'[t].lock = entry[t].lock
          /\ \A u \in Threads : u # t => entry'[u] = entry[u]
          /\ entry' \in [Threads -> [live : BOOLEAN, busy : BOOLEAN, inTx : BOOLEAN, lock : BOOLEAN]]
        BY <2>1, <2>a
    <2>4. LeavesRust(t) /\ Answers(t, op, TRUE)
        BY <1>3, <2>1, ResolveDoes
    <2>5. CallInv(t)' /\ \A p \in Operations : Called(t, p) => Called(t, p)'
        BY <1>1, <2>4, AnswersKeeps DEF Operations
    <2>6. OrderInv(t)'
        BY <1>2, <1>4, <2>2, <2>5, OrderStays
    <2>7. rust'[t].op \in {"close"} \/ rust'[t] = rust[t]
        BY <1>1, <2>4 DEF Answers, NextOp
    <2>8. Others(t)
        BY <1>1, <1>2, <2>1, <2>2, <2>3, <2>4 DEF Others, Same, InLine, LeavesRust
    <2>9. TypeOK' /\ ListInv'
        BY <1>1, <1>2, <2>1, <2>3, <2>4 DEF TypeOK, ListInv, Ordered, Line, LeavesRust
    <2>10. ConnectionInv(t)'
        BY <1>1, <1>2, <1>3, <1>4, <2>2, <2>3, <2>7 DEF ThreadInv, ConnectionInv, Unopened, InLine
    <2>11. ReaderInv(t)' /\ ClientInv(t)' /\ KeptInv(t)'
        BY <1>1, <1>2, <1>3, <1>4, <2>1, <2>2, <2>3
        DEF ThreadInv, ReaderInv, ClientInv, KeptInv
    <2>12. KeepsLock(t)
        BY <1>1, <1>2, <2>3 DEF KeepsLock, Spent
    <2> QED
        BY <2>5, <2>6, <2>8, <2>9, <2>10, <2>11, <2>12 DEF Fits, ThreadInv
<1> QED
    BY <1>5, <1>6

\* Clients go back to the pool.
LEMMA ClientsReturn ==
    ASSUME TypeOK, ListInv, clients' \subseteq clients
    PROVE  /\ IsFiniteSet(clients)' /\ Cardinality(clients') <= Clients
           /\ clients' \subseteq Threads
<1>1. /\ IsFiniteSet(clients) /\ Cardinality(clients) <= Clients /\ Clients \in Nat
      /\ clients \subseteq Threads
    BY BridgeAssumption DEF TypeOK, ListInv
<1>2. IsFiniteSet(clients') /\ Cardinality(clients') <= Cardinality(clients)
    BY <1>1, FS_Subset
<1>3. Cardinality(clients') \in Nat /\ Cardinality(clients) \in Nat
    BY <1>1, <1>2, FS_CardinalityType
<1> QED
    BY <1>1, <1>2, <1>3

\* A connection leaves the map with nothing to roll back.
LEMMA LeaveFits ==
    ASSUME TypeOK, ListInv, NEW t \in Threads, ThreadInv(t), LeaveMap(t), entry[t].live,
           UNCHANGED <<serial, rust, pending, chain, db, tx, stage, settling>>,
           Asked(t)' \subseteq Asked(t),
           \A u \in Threads : u # t => Asked(u)' = Asked(u),
           Ordered(inbox)' /\ inbox' \in Seq(Threads \X Operations)
    PROVE  Fits(t) /\ GivesLock(t)
<1>1. \A u \in Threads : Sent(u)' = Sent(u)
    BY NothingSent
<1>2. /\ ~entry'[t].live /\ ~entry'[t].lock /\ entry'[t].inTx = entry[t].inTx
      /\ \A u \in Threads : u # t => entry'[u] = entry[u]
      /\ entry' \in [Threads -> [live : BOOLEAN, busy : BOOLEAN, inTx : BOOLEAN, lock : BOOLEAN]]
    BY DEF LeaveMap, TypeOK
<1>3. /\ released' = IF entry[t].lock THEN released \cup {t} ELSE released
      /\ txConn' = txConn \ {t} /\ clients' = clients \ (txConn \cap {t})
    BY DEF LeaveMap, Unlock
<1>11. /\ astray' \in {astray, astray \cup {t}} /\ astray' \subseteq Threads
       /\ "begin" \in Sent(t) => t \in astray'
    BY DEF LeaveMap, Forgets, Sent, ToSet, In, TypeOK
<1>4. Others(t)
    BY <1>1, <1>2, <1>3, <1>11 DEF Others, Same, InLine
<1>5. TypeOK'
    <2>1. Cardinality(clients') <= Clients /\ clients' \subseteq Threads /\ txConn' \subseteq clients'
        BY <1>3, ClientsReturn DEF TypeOK
    <2> QED
        BY <1>2, <1>3, <1>11, <2>1 DEF TypeOK
<1>6. ListInv'
    BY <1>3, ClientsReturn DEF ListInv, Ordered, Line
<1>7. CallInv(t)' /\ ReaderInv(t)'
    BY <1>1, <1>2 DEF ThreadInv, CallInv, ReaderInv, Drained, TsfnOpen
<1>8. OrderInv(t)'
    <2>1. \A p \in Operations : Called(t, p) => Called(t, p)'
        BY DEF Called
    <2>2. "begin" \in Asked(t)' \cup Sent(t)' => rust'[t].op \in {"begin", "close", "done"}
        BY <1>1 DEF ThreadInv, OrderInv
    <2> QED
        BY <1>1, <2>1, <2>2, OrderStays
<1>9. ConnectionInv(t)'
    BY <1>1, <1>2, <1>3 DEF ThreadInv, ConnectionInv, Unopened, InLine
<1>10. ClientInv(t)' /\ KeptInv(t)'
    BY <1>1, <1>2, <1>3, <1>11 DEF ThreadInv, ClientInv, KeptInv
<1> QED
    BY <1>2, <1>3, <1>4, <1>5, <1>6, <1>7, <1>8, <1>9, <1>10 DEF Fits, ThreadInv, GivesLock

\* A connection leaves the map and its transaction is rolled back.
LEMMA DropFits ==
    ASSUME TypeOK, ListInv, NEW t \in Threads, ThreadInv(t), entry[t].live, entry[t].inTx,
           NEW op \in {"close", "sweep"}, Send(t, op), txConn' = txConn \ {t},
           \A u \in Threads : u # t => entry'[u] = entry[u],
           entry' \in [Threads -> [live : BOOLEAN, busy : BOOLEAN, inTx : BOOLEAN, lock : BOOLEAN]],
           ~entry'[t].live, entry'[t].inTx, KeepsLock(t) \/ GivesLock(t), released' \in {released, released \cup {t}},
           UNCHANGED <<serial, astray, rust, pending, chain, tx, clients, stage, settling>>,
           Asked(t)' \subseteq Asked(t), op = "close" => "close" \in Asked(t) /\ Asked(t)' = {},
           \A u \in Threads : u # t => Asked(u)' = Asked(u),
           Ordered(inbox)' /\ inbox' \in Seq(Threads \X Operations)
    PROVE  Fits(t)
<1>1. \A p \in Sent(t) : Rank(p) < Rank(op)
    <2>1. Sent(t) \subseteq Operations \ {"close"}
        BY DEF Sent, ThreadInv, ConnectionInv
    <2> QED
        BY <2>1 DEF Rank, Operations
<1>2. /\ Sent(t)' = Sent(t) \cup {op}
      /\ \A u \in Threads : u # t => Sent(u)' = Sent(u)
      /\ \A l \in Lines : Ordered(db'[l]) /\ \A x \in In(db'[l]) : Line(x[1])' = l
      /\ db' \in [Lines -> Seq(Item)]
    BY <1>1, SendDoes DEF Operations
<1>3. Others(t)
    BY <1>2 DEF Others, Same, InLine
<1>4. TypeOK' /\ ListInv'
    BY <1>2 DEF TypeOK, ListInv, Ordered, Line, Item
<1>5. t \notin Readers /\ ~Unopened(t) /\ "begin" \notin Asked(t) \cup Sent(t)
    BY DEF ThreadInv, ReaderInv, ConnectionInv
<1>6. CallInv(t)' /\ ReaderInv(t)'
    BY <1>5 DEF ThreadInv, CallInv, ReaderInv, Drained, TsfnOpen
<1>7. OrderInv(t)'
    <2>1. \A p \in Operations : Called(t, p) => Called(t, p)'
        BY DEF Called
    <2>2. "begin" \notin Asked(t)' \cup Sent(t)'
        BY <1>2, <1>5
    <2> QED
        BY <1>2, <2>1, <2>2, OrderStays
<1>8. entry[t].lock => t \in released' \/ entry'[t].lock
    BY DEF KeepsLock, GivesLock
<1>9. ConnectionInv(t)'
    BY <1>2, <1>5, <1>8 DEF ThreadInv, ConnectionInv, Unopened, InLine, KeepsLock, GivesLock
<1>10. ClientInv(t)' /\ KeptInv(t)'
    BY <1>2, <1>5 DEF ThreadInv, ClientInv, KeptInv, Ends, KeepsLock, GivesLock
<1> QED
    BY <1>3, <1>4, <1>6, <1>7, <1>9, <1>10 DEF Fits, ThreadInv

LEMMA CloseFits ==
    ASSUME TypeOK, ListInv, NEW t \in Threads, ThreadInv(t), DispatchClose(t)
    PROVE  Fits(t) /\ (KeepsLock(t) \/ GivesLock(t))
<1>1. /\ UNCHANGED <<serial, rust, pending, chain, tx, stage, settling>>
      /\ Take(t, "close") /\ "close" \in Operations
    BY DEF DispatchClose, rustVars, Operations
<1>2. /\ "close" \in Asked(t) /\ Asked(t)' = Asked(t) \ {"close"}
      /\ \A later \in Asked(t)' : Rank("close") < Rank(later)
      /\ \A u \in Threads : u # t => Asked(u)' = Asked(u)
      /\ Ordered(inbox)' /\ inbox' \in Seq(Threads \X Operations)
    BY <1>1, TakeDoes
<1>3. Asked(t)' = {}
    <2>1. Asked(t) \subseteq Operations
        BY DEF Asked
    <2> QED
        BY <1>2, <2>1 DEF Rank, Operations
<1>4. Called(t, "close") /\ rust[t].op = "done" /\ ~Unopened(t)
    <2>1. Called(t, "close")
        BY <1>2, AskedIsCalled
    <2>2. rust[t].op # "close"
        BY <2>1, RankType DEF Called, ThreadInv, CallInv, TypeOK, Operations
    <2> QED
        BY <1>2, <2>1, <2>2 DEF Called, TypeOK, Operations, Rank, ThreadInv, ConnectionInv
<1>5. CASE ~entry[t].live
    <2>1. UNCHANGED <<entry, released, db, txConn, clients, astray>>
        BY <1>5 DEF DispatchClose
    <2>2. \A u \in Threads : Sent(u)' = Sent(u)
        BY <1>1, <2>1, NothingSent
    <2>3. Others(t)
        BY <1>1, <1>2, <2>1, <2>2 DEF Others, Same, InLine
    <2>4. TypeOK' /\ ListInv'
        BY <1>1, <1>2, <2>1 DEF TypeOK, ListInv, Ordered, Line
    <2>5. CallInv(t)' /\ ReaderInv(t)' /\ ClientInv(t)' /\ KeptInv(t)'
        BY <1>1, <1>3, <2>1, <2>2
        DEF ThreadInv, CallInv, ReaderInv, ClientInv, KeptInv, Drained, TsfnOpen
    <2>6. OrderInv(t)'
        BY <1>1, <1>3, <2>2 DEF ThreadInv, OrderInv, Called
    <2>7. ConnectionInv(t)'
        BY <1>1, <1>3, <2>1, <2>2 DEF ThreadInv, ConnectionInv, Unopened, InLine
    <2> QED
        BY <1>1, <1>5, <2>1, <2>3, <2>4, <2>5, <2>6, <2>7 DEF Fits, ThreadInv, KeepsLock
<1>6. CASE entry[t].live /\ entry[t].inTx /\ HasTx(t)
    <2>1. /\ Send(t, "close") /\ entry' = [entry EXCEPT ![t].live = FALSE]
          /\ txConn' = txConn \ {t} /\ UNCHANGED <<released, clients, astray>>
        BY <1>6 DEF DispatchClose
    <2>2. entry \in [Threads -> [live : BOOLEAN, busy : BOOLEAN, inTx : BOOLEAN, lock : BOOLEAN]]
        BY DEF TypeOK
    <2>3. /\ ~entry'[t].live /\ entry'[t].inTx = entry[t].inTx /\ entry'[t].lock = entry[t].lock
          /\ \A u \in Threads : u # t => entry'[u] = entry[u]
          /\ entry' \in [Threads -> [live : BOOLEAN, busy : BOOLEAN, inTx : BOOLEAN, lock : BOOLEAN]]
        BY <2>1, <2>2
    <2>4. KeepsLock(t)
        BY <1>1, <2>1, <2>3 DEF KeepsLock
    <2> QED
        BY <1>1, <1>2, <1>3, <1>6, <2>1, <2>3, <2>4, DropFits
<1>7. CASE entry[t].live /\ ~(entry[t].inTx /\ HasTx(t))
    <2>1. LeaveMap(t) /\ UNCHANGED db
        BY <1>7 DEF DispatchClose
    <2> QED
        BY <1>1, <1>2, <1>3, <1>7, <2>1, LeaveFits
<1> QED
    BY <1>5, <1>6, <1>7

LEMMA SweepFits ==
    ASSUME TypeOK, ListInv, NEW t \in Threads, ThreadInv(t), Sweep(t)
    PROVE  Fits(t) /\ GivesLock(t)
<1>1. /\ UNCHANGED <<serial, rust, pending, inbox, chain, tx, stage, settling>>
      /\ entry[t].live /\ ~entry[t].busy
    BY DEF Sweep, rustVars
<1>2. /\ \A u \in Threads : Asked(u)' = Asked(u)
      /\ Ordered(inbox)' /\ inbox' \in Seq(Threads \X Operations)
    BY <1>1, NothingAsked DEF TypeOK, ListInv, Ordered
<1>3. CASE entry[t].inTx /\ HasTx(t)
    <2>1. /\ Send(t, "sweep") /\ entry' = [entry EXCEPT ![t].live = FALSE, ![t].lock = FALSE]
          /\ txConn' = txConn \ {t} /\ Unlock(t) /\ UNCHANGED <<clients, astray>>
        BY <1>3 DEF Sweep
    <2>2. entry \in [Threads -> [live : BOOLEAN, busy : BOOLEAN, inTx : BOOLEAN, lock : BOOLEAN]]
        BY DEF TypeOK
    <2>3. /\ ~entry'[t].live /\ entry'[t].inTx = entry[t].inTx /\ ~entry'[t].lock
          /\ \A u \in Threads : u # t => entry'[u] = entry[u]
          /\ entry' \in [Threads -> [live : BOOLEAN, busy : BOOLEAN, inTx : BOOLEAN, lock : BOOLEAN]]
        BY <2>1, <2>2
    <2>4. GivesLock(t) /\ released' \in {released, released \cup {t}}
        BY <1>1, <2>1, <2>3 DEF GivesLock, Unlock
    <2> QED
        BY <1>1, <1>2, <1>3, <2>1, <2>3, <2>4, DropFits
<1>4. CASE ~(entry[t].inTx /\ HasTx(t))
    <2>1. LeaveMap(t) /\ UNCHANGED db
        BY <1>4 DEF Sweep
    <2> QED
        BY <1>1, <1>2, <2>1, LeaveFits
<1> QED
    BY <1>3, <1>4

-----------------------------------------------------------------------------
(* The database finishes a statement.                                      *)

\* What is left of a thread once its statement is done.
LEMMA FinishKeeps ==
    ASSUME TypeOK, ListInv, NEW l \in Lines, NEW t \in Threads, ThreadInv(t),
           NEW op \in Operations \cup {"sweep"}, Finish(l, t, op)
    PROVE  /\ UNCHANGED <<serial, astray, inbox, chain, stage>>
           /\ \A u \in Threads : Asked(u)' = Asked(u)
           /\ \A u \in Threads : u # t => Sent(u)' = Sent(u)
           /\ op \in Sent(t) /\ Sent(t)' = Sent(t) \ {op} /\ l = Line(t)
           /\ ~Unopened(t) /\ (op # "begin" => "begin" \notin Sent(t))
           /\ op \notin {"begin", "sweep"} => "begin" \notin Asked(t)
           /\ op # "sweep" => Called(t, op)
           /\ ~Spent(t)
           /\ settling' \subseteq settling
           /\ \A k \in Lines : Ordered(db'[k]) /\ \A x \in In(db'[k]) : Line(x[1])' = k
           /\ db' \in [Lines -> Seq(Item)]
<1>1. UNCHANGED <<serial, astray, inbox, chain, stage>> /\ settling' \subseteq settling
    BY DEF Finish
<1>2. \A u \in Threads : Asked(u)' = Asked(u)
    BY <1>1, NothingAsked
<1>3. /\ op \in Sent(t) /\ Sent(t)' = Sent(t) \ {op} /\ l = Line(t)
      /\ \A u \in Threads : u # t => Sent(u)' = Sent(u)
      /\ \A k \in Lines : Ordered(db'[k]) /\ \A x \in In(db'[k]) : Line(x[1])' = k
      /\ db' \in [Lines -> Seq(Item)]
    BY FinishDoes
<1>4. ~Unopened(t) /\ (op # "begin" => "begin" \notin Sent(t)) /\ ~Spent(t)
    BY <1>3 DEF ThreadInv, ConnectionInv, Spent
<1>5. op # "sweep" => Called(t, op)
    BY <1>3, AskedIsCalled
<1>6. op \notin {"begin", "sweep"} => "begin" \notin Asked(t)
    <2>1. op \notin {"begin", "sweep"} => ~(Rank(op) < Rank("begin")) \/ op = "acquire"
        BY DEF Rank, Operations
    <2> QED
        BY <1>3, <2>1 DEF ThreadInv, OrderInv
<1> QED
    BY <1>1, <1>2, <1>3, <1>4, <1>5, <1>6

LEMMA BeginDoneFits ==
    ASSUME TypeOK, ListInv, NEW l \in Lines, NEW t \in Threads, ThreadInv(t), BeginDone(l, t)
    PROVE  Fits(t) /\ KeepsLock(t)
<1>0. Finish(l, t, "begin") /\ "begin" \in Operations /\ UNCHANGED released
    BY DEF BeginDone, Operations
<1>1. /\ UNCHANGED <<serial, astray, inbox, chain, released, stage>>
      /\ \A u \in Threads : Asked(u)' = Asked(u)
      /\ \A u \in Threads : u # t => Sent(u)' = Sent(u)
      /\ "begin" \in Sent(t) /\ Sent(t)' = Sent(t) \ {"begin"} /\ l = Line(t)
      /\ ~Unopened(t) /\ Called(t, "begin") /\ ~Spent(t) /\ settling' \subseteq settling
      /\ \A k \in Lines : Ordered(db'[k]) /\ \A x \in In(db'[k]) : Line(x[1])' = k
      /\ db' \in [Lines -> Seq(Item)]
    BY <1>0, FinishKeeps
<1>2. /\ Sent(t) = {"begin"} /\ t \notin clients /\ t \notin txConn /\ ~entry[t].inTx
      /\ "begin" \notin Asked(t) /\ Asked(t) \subseteq {"close"} /\ t \notin Readers
      /\ rust[t].op \in {"begin", "close", "done"}
      /\ rust[t].op = "begin" => rust[t].mode = "waiting"
      /\ t \in astray => ~entry[t].live
    <2>1. ~(Rank("begin") < Rank("begin"))
        BY RankType DEF Operations
    <2> QED
        BY <1>1, <2>1 DEF ThreadInv, ConnectionInv, ClientInv, OrderInv, ReaderInv
<1>3. LeavesRust(t) /\ Answers(t, "begin", TRUE)
    BY <1>0, <1>1, ResolveDoes DEF BeginDone
<1>4. CallInv(t)' /\ \A p \in Operations : Called(t, p) => Called(t, p)'
    BY <1>0, <1>1, <1>3, AnswersKeeps
<1>5. /\ entry'[t].live = entry[t].live /\ entry'[t].inTx /\ entry'[t].lock = entry[t].lock
      /\ \A u \in Threads : u # t => entry'[u] = entry[u]
      /\ entry' \in [Threads -> [live : BOOLEAN, busy : BOOLEAN, inTx : BOOLEAN, lock : BOOLEAN]]
    <2>1. entry' = [entry EXCEPT ![t].inTx = TRUE, ![t].busy = FALSE]
        BY DEF BeginDone
    <2>2. entry \in [Threads -> [live : BOOLEAN, busy : BOOLEAN, inTx : BOOLEAN, lock : BOOLEAN]]
        BY DEF TypeOK
    <2> QED
        BY <2>1, <2>2
<1>6. /\ clients' = IF serial THEN clients ELSE clients \cup {t}
      /\ txConn' = IF serial THEN txConn ELSE txConn \cup {t}
      /\ tx' \in [Lines -> Threads \cup {None}]
      /\ \A k \in Lines : tx'[k] = tx[k] \/ (k = l /\ tx'[k] = t)
      /\ serial \/ Cardinality(clients) < Clients
    <2>1. PICK owner \in {t, tx[l]} : tx' = [tx EXCEPT ![l] = owner]
        BY DEF BeginDone
    <2> QED
        BY <1>2, <2>1 DEF BeginDone, HasClient, TypeOK
<1>7. IsFiniteSet(clients') /\ Cardinality(clients') <= Clients
    <2>1. IsFiniteSet(clients) /\ Cardinality(clients) <= Clients
        BY DEF ListInv, TypeOK
    <2>2. /\ IsFiniteSet(clients \cup {t})
          /\ Cardinality(clients \cup {t}) = Cardinality(clients) + 1
        BY <1>2, <2>1, FS_AddElement
    <2>3. Cardinality(clients) \in Nat /\ Clients \in Nat
        BY <2>1, FS_CardinalityType, BridgeAssumption
    <2> QED
        BY <1>6, <2>1, <2>2, <2>3
<1>8. Others(t)
    BY <1>1, <1>3, <1>5, <1>6 DEF Others, Same, InLine, LeavesRust
<1>9. TypeOK'
    BY <1>1, <1>3, <1>5, <1>6, <1>7 DEF TypeOK, LeavesRust, Line, Item
<1>10. ListInv'
    BY <1>1, <1>2, <1>6, <1>7 DEF ListInv, Ordered, Line
<1>11. rust'[t].op \in {"execute", "close", "done"}
    BY <1>2, <1>3 DEF Answers, NextOp
<1>12. OrderInv(t)'
    <2>1. "begin" \notin Asked(t)' \cup Sent(t)'
        BY <1>1, <1>2
    <2> QED
        BY <1>1, <1>4, <2>1, OrderStays
<1>13. ConnectionInv(t)' /\ ReaderInv(t)'
    BY <1>1, <1>2, <1>5, <1>11 DEF ConnectionInv, ReaderInv, Unopened, InLine
<1>14. ClientInv(t)' /\ KeptInv(t)'
    BY <1>1, <1>2, <1>5, <1>6 DEF ThreadInv, ClientInv, KeptInv, Ends
<1>15. KeepsLock(t)
    BY <1>1, <1>5 DEF KeepsLock
<1> QED
    BY <1>4, <1>8, <1>9, <1>10, <1>12, <1>13, <1>14, <1>15 DEF Fits, ThreadInv

LEMMA BeginFailedFits ==
    ASSUME TypeOK, ListInv, NEW l \in Lines, NEW t \in Threads, ThreadInv(t), BeginFailed(l, t)
    PROVE  Fits(t) /\ GivesLock(t)
<1>0. Finish(l, t, "begin") /\ "begin" \in Operations /\ UNCHANGED <<tx, txConn, clients>>
    BY DEF BeginFailed, Operations
<1>1. /\ UNCHANGED <<serial, astray, inbox, chain, stage>>
      /\ \A u \in Threads : Asked(u)' = Asked(u)
      /\ \A u \in Threads : u # t => Sent(u)' = Sent(u)
      /\ "begin" \in Sent(t) /\ Sent(t)' = Sent(t) \ {"begin"} /\ l = Line(t)
      /\ ~Unopened(t) /\ Called(t, "begin") /\ settling' \subseteq settling
      /\ \A k \in Lines : Ordered(db'[k]) /\ \A x \in In(db'[k]) : Line(x[1])' = k
      /\ db' \in [Lines -> Seq(Item)]
    BY <1>0, FinishKeeps
<1>2. /\ Sent(t) = {"begin"} /\ t \notin clients /\ t \notin txConn /\ ~entry[t].inTx
      /\ "begin" \notin Asked(t) /\ Asked(t) \subseteq {"close"} /\ t \notin Readers
      /\ rust[t].op \in {"begin", "close", "done"}
      /\ rust[t].op = "begin" => rust[t].mode = "waiting"
      /\ t \in astray => ~entry[t].live
    <2>1. ~(Rank("begin") < Rank("begin"))
        BY RankType DEF Operations
    <2> QED
        BY <1>1, <2>1 DEF ThreadInv, ConnectionInv, ClientInv, OrderInv, ReaderInv
<1>3. LeavesRust(t) /\ Answers(t, "begin", FALSE)
    BY <1>0, <1>1, ResolveDoes DEF BeginFailed
<1>4. CallInv(t)' /\ \A p \in Operations : Called(t, p) => Called(t, p)'
    BY <1>0, <1>1, <1>3, AnswersKeeps
<1>5. /\ entry'[t].live = entry[t].live /\ ~entry'[t].inTx /\ ~entry'[t].lock
      /\ \A u \in Threads : u # t => entry'[u] = entry[u]
      /\ entry' \in [Threads -> [live : BOOLEAN, busy : BOOLEAN, inTx : BOOLEAN, lock : BOOLEAN]]
      /\ released' = IF entry[t].lock THEN released \cup {t} ELSE released
    <2>1. entry' = [entry EXCEPT ![t].busy = FALSE, ![t].lock = FALSE]
        BY DEF BeginFailed
    <2>2. entry \in [Threads -> [live : BOOLEAN, busy : BOOLEAN, inTx : BOOLEAN, lock : BOOLEAN]]
        BY DEF TypeOK
    <2>3. entry'[t].inTx = entry[t].inTx /\ entry'[t].live = entry[t].live /\ ~entry'[t].lock
        BY <2>1, <2>2
    <2>4. /\ \A u \in Threads : u # t => entry'[u] = entry[u]
          /\ entry' \in [Threads -> [live : BOOLEAN, busy : BOOLEAN, inTx : BOOLEAN, lock : BOOLEAN]]
        BY <2>1, <2>2
    <2> QED
        BY <1>2, <2>3, <2>4 DEF BeginFailed, Unlock
<1>6. Others(t)
    BY <1>0, <1>1, <1>3, <1>5 DEF Others, Same, InLine, LeavesRust
<1>7. TypeOK'
    BY <1>0, <1>1, <1>3, <1>5 DEF TypeOK, LeavesRust, Line, Item
<1>8. ListInv'
    BY <1>0, <1>1 DEF ListInv, Ordered, Line
<1>9. rust'[t].op \in {"close", "done"}
    BY <1>2, <1>3 DEF Answers, NextOp
<1>10. OrderInv(t)'
    <2>1. "begin" \notin Asked(t)' \cup Sent(t)'
        BY <1>1, <1>2
    <2> QED
        BY <1>1, <1>4, <2>1, OrderStays
<1>11. ~InLine(t)'
    BY <1>1, <1>5 DEF Unopened, InLine
<1>12. ConnectionInv(t)' /\ ReaderInv(t)'
    BY <1>1, <1>2, <1>5, <1>9, <1>11 DEF ConnectionInv, ReaderInv, Unopened
<1>13. ClientInv(t)' /\ KeptInv(t)'
    BY <1>0, <1>1, <1>2, <1>5 DEF ThreadInv, ClientInv, KeptInv, Ends
<1>14. Spent(t)'
    BY <1>1, <1>2, <1>5, <1>9 DEF Spent
<1> QED
    BY <1>1, <1>4, <1>5, <1>6, <1>7, <1>8, <1>10, <1>12, <1>13, <1>14
    DEF Fits, ThreadInv, GivesLock

LEMMA ExecuteDoneFits ==
    ASSUME TypeOK, ListInv, NEW l \in Lines, NEW t \in Threads, ThreadInv(t),
           NEW ok \in BOOLEAN, ExecuteDone(l, t, ok)
    PROVE  Fits(t) /\ KeepsLock(t)
<1>0. /\ Finish(l, t, "execute") /\ "execute" \in Operations
      /\ UNCHANGED <<released, tx, txConn, clients>>
    BY DEF ExecuteDone, Operations
<1>1. /\ UNCHANGED <<serial, astray, inbox, chain, stage>>
      /\ \A u \in Threads : Asked(u)' = Asked(u)
      /\ \A u \in Threads : u # t => Sent(u)' = Sent(u)
      /\ "execute" \in Sent(t) /\ Sent(t)' = Sent(t) \ {"execute"} /\ l = Line(t)
      /\ ~Unopened(t) /\ "begin" \notin Asked(t) \cup Sent(t)
      /\ Called(t, "execute") /\ ~Spent(t) /\ settling' \subseteq settling
      /\ \A k \in Lines : Ordered(db'[k]) /\ \A x \in In(db'[k]) : Line(x[1])' = k
      /\ db' \in [Lines -> Seq(Item)]
    BY <1>0, FinishKeeps
<1>2. LeavesRust(t) /\ Answers(t, "execute", ok)
    BY <1>0, <1>1, ResolveDoes DEF ExecuteDone
<1>3. CallInv(t)' /\ \A p \in Operations : Called(t, p) => Called(t, p)'
    BY <1>0, <1>1, <1>2, AnswersKeeps
<1>4. /\ entry'[t].live = entry[t].live /\ entry'[t].inTx = entry[t].inTx
      /\ entry'[t].lock = entry[t].lock
      /\ \A u \in Threads : u # t => entry'[u] = entry[u]
      /\ entry' \in [Threads -> [live : BOOLEAN, busy : BOOLEAN, inTx : BOOLEAN, lock : BOOLEAN]]
    <2>1. entry' = [entry EXCEPT ![t].busy = FALSE]
        BY DEF ExecuteDone
    <2>2. entry \in [Threads -> [live : BOOLEAN, busy : BOOLEAN, inTx : BOOLEAN, lock : BOOLEAN]]
        BY DEF TypeOK
    <2> QED
        BY <2>1, <2>2
<1>5. Others(t)
    BY <1>0, <1>1, <1>2, <1>4 DEF Others, Same, InLine, LeavesRust
<1>6. TypeOK'
    BY <1>0, <1>1, <1>2, <1>4 DEF TypeOK, LeavesRust, Line, Item
<1>7. ListInv'
    BY <1>0, <1>1 DEF ListInv, Ordered, Line
<1>8. \/ rust'[t] = rust[t]
      \/ rust'[t].op \in {"close", "commit", "rollback"} /\ (t \in Readers => rust'[t].op = "close")
    BY <1>2 DEF Answers, NextOp
<1>9. OrderInv(t)'
    <2>1. "begin" \notin Asked(t)' \cup Sent(t)'
        BY <1>1
    <2> QED
        BY <1>1, <1>3, <2>1, OrderStays
<1>10. ConnectionInv(t)'
    BY <1>0, <1>1, <1>4, <1>8 DEF ThreadInv, ConnectionInv, Unopened, InLine
<1>11. ReaderInv(t)' /\ ClientInv(t)' /\ KeptInv(t)'
    BY <1>0, <1>1, <1>4, <1>8
    DEF ThreadInv, ReaderInv, ClientInv, KeptInv, Ends
<1>12. KeepsLock(t)
    BY <1>0, <1>1, <1>4 DEF KeepsLock
<1> QED
    BY <1>3, <1>5, <1>6, <1>7, <1>9, <1>10, <1>11, <1>12 DEF Fits, ThreadInv

LEMMA EndDoneFits ==
    ASSUME TypeOK, ListInv, NEW l \in Lines, NEW t \in Threads, ThreadInv(t),
           NEW op \in {"commit", "rollback"}, NEW ok \in BOOLEAN, EndDone(l, t, op, ok)
    PROVE  Fits(t) /\ KeepsLock(t)
<1>0. /\ Finish(l, t, op) /\ op \in Operations
      /\ UNCHANGED <<released, txConn>> /\ clients' = clients \ {t}
    BY DEF EndDone, Operations
<1>1. /\ UNCHANGED <<serial, astray, inbox, chain, stage>>
      /\ \A u \in Threads : Asked(u)' = Asked(u)
      /\ \A u \in Threads : u # t => Sent(u)' = Sent(u)
      /\ op \in Sent(t) /\ Sent(t)' = Sent(t) \ {op} /\ l = Line(t)
      /\ ~Unopened(t) /\ "begin" \notin Asked(t) \cup Sent(t)
      /\ Called(t, op) /\ ~Spent(t) /\ settling' \subseteq settling
      /\ \A k \in Lines : Ordered(db'[k]) /\ \A x \in In(db'[k]) : Line(x[1])' = k
      /\ db' \in [Lines -> Seq(Item)]
    BY <1>0, FinishKeeps
<1>2. /\ t \notin Readers /\ t \notin txConn /\ "execute" \notin Asked(t)
      /\ rust[t].op \notin {"acquire", "begin", "execute"}
    <2>1. rust[t].op \notin {"acquire", "begin", "execute"}
        BY <1>1 DEF Called, Rank
    <2>2. ~(Rank(op) < Rank("execute"))
        BY DEF Rank
    <2> QED
        BY <1>0, <1>1, <2>1, <2>2 DEF ThreadInv, ReaderInv, ClientInv, OrderInv, Ends
<1>3. LeavesRust(t) /\ Answers(t, op, ok)
    BY <1>0, <1>1, ResolveDoes DEF EndDone
<1>4. CallInv(t)' /\ \A p \in Operations : Called(t, p) => Called(t, p)'
    BY <1>0, <1>1, <1>3, AnswersKeeps
<1>5. /\ entry'[t].live = entry[t].live /\ ~entry'[t].inTx
      /\ entry'[t].lock = entry[t].lock
      /\ \A u \in Threads : u # t => entry'[u] = entry[u]
      /\ entry' \in [Threads -> [live : BOOLEAN, busy : BOOLEAN, inTx : BOOLEAN, lock : BOOLEAN]]
    <2>1. entry' = [entry EXCEPT ![t].inTx = FALSE, ![t].busy = FALSE]
        BY DEF EndDone
    <2>2. entry \in [Threads -> [live : BOOLEAN, busy : BOOLEAN, inTx : BOOLEAN, lock : BOOLEAN]]
        BY DEF TypeOK
    <2> QED
        BY <2>1, <2>2
<1>6. /\ tx' \in [Lines -> Threads \cup {None}]
      /\ \A k \in Lines : tx'[k] = tx[k] \/ tx'[k] = None
    BY DEF EndDone, TypeOK
<1>7. IsFiniteSet(clients)' /\ Cardinality(clients') <= Clients /\ clients' \subseteq Threads
    BY <1>0, ClientsReturn
<1>8. Others(t)
    BY <1>0, <1>1, <1>3, <1>5 DEF Others, Same, InLine, LeavesRust
<1>9. TypeOK'
    <2>1. txConn' \subseteq clients'
        BY <1>0, <1>2 DEF TypeOK
    <2> QED
        BY <1>0, <1>1, <1>3, <1>5, <1>6, <1>7, <2>1 DEF TypeOK, LeavesRust, Line, Item
<1>10. ListInv'
    BY <1>0, <1>1, <1>6, <1>7 DEF ListInv, Ordered, Line
<1>11. rust'[t].op \in {"close", "rollback"} \/ rust'[t] = rust[t]
    BY <1>3 DEF Answers, NextOp
<1>12. OrderInv(t)'
    <2>1. "begin" \notin Asked(t)' \cup Sent(t)'
        BY <1>1
    <2> QED
        BY <1>1, <1>4, <2>1, OrderStays
<1>13. ConnectionInv(t)'
    BY <1>0, <1>1, <1>2, <1>5, <1>11 DEF ThreadInv, ConnectionInv, Unopened, InLine
<1>14. ReaderInv(t)' /\ ClientInv(t)' /\ KeptInv(t)'
    BY <1>0, <1>1, <1>2, <1>5
    DEF ThreadInv, ReaderInv, ClientInv, KeptInv, Ends
<1>15. KeepsLock(t)
    BY <1>0, <1>1, <1>5 DEF KeepsLock
<1> QED
    BY <1>4, <1>8, <1>9, <1>10, <1>12, <1>13, <1>14, <1>15 DEF Fits, ThreadInv

LEMMA DropDoneFits ==
    ASSUME TypeOK, ListInv, NEW l \in Lines, NEW t \in Threads, ThreadInv(t),
           NEW op \in {"close", "sweep"}, DropDone(l, t, op)
    PROVE  Fits(t) /\ GivesLock(t)
<1>0. /\ Finish(l, t, op) /\ op \in Operations \cup {"sweep"}
      /\ UNCHANGED <<rust, pending, txConn>> /\ clients' = clients \ {t}
      /\ released' = IF entry[t].lock THEN released \cup {t} ELSE released
    BY DEF DropDone, Operations, rustVars, Unlock
<1>1. /\ UNCHANGED <<serial, astray, inbox, chain, stage>>
      /\ \A u \in Threads : Asked(u)' = Asked(u)
      /\ \A u \in Threads : u # t => Sent(u)' = Sent(u)
      /\ op \in Sent(t) /\ Sent(t)' = Sent(t) \ {op} /\ l = Line(t)
      /\ ~Unopened(t) /\ "begin" \notin Sent(t) /\ settling' \subseteq settling
      /\ \A k \in Lines : Ordered(db'[k]) /\ \A x \in In(db'[k]) : Line(x[1])' = k
      /\ db' \in [Lines -> Seq(Item)]
    BY <1>0, FinishKeeps
<1>2. /\ t \notin Readers /\ t \notin txConn /\ ~entry[t].live
      /\ "begin" \notin Asked(t) /\ (rust[t].op = "begin" => rust[t].mode = "waiting")
    BY <1>0, <1>1 DEF ThreadInv, ReaderInv, ClientInv, ConnectionInv, Ends
<1>3. /\ ~entry'[t].live /\ entry'[t].inTx = entry[t].inTx /\ ~entry'[t].lock
      /\ \A u \in Threads : u # t => entry'[u] = entry[u]
      /\ entry' \in [Threads -> [live : BOOLEAN, busy : BOOLEAN, inTx : BOOLEAN, lock : BOOLEAN]]
    <2>1. entry' = [entry EXCEPT ![t].lock = FALSE]
        BY DEF DropDone
    <2>2. entry \in [Threads -> [live : BOOLEAN, busy : BOOLEAN, inTx : BOOLEAN, lock : BOOLEAN]]
        BY DEF TypeOK
    <2> QED
        BY <1>2, <2>1, <2>2
<1>4. /\ tx' \in [Lines -> Threads \cup {None}]
      /\ \A k \in Lines : tx'[k] = IF k = l THEN None ELSE tx[k]
    BY DEF DropDone, TypeOK
<1>5. IsFiniteSet(clients)' /\ Cardinality(clients') <= Clients /\ clients' \subseteq Threads
    BY <1>0, ClientsReturn
<1>6. Others(t)
    BY <1>0, <1>1, <1>3 DEF Others, Same, InLine
<1>7. TypeOK'
    <2>1. txConn' \subseteq clients' /\ released' \subseteq Threads
        BY <1>0, <1>2 DEF TypeOK
    <2> QED
        BY <1>0, <1>1, <1>3, <1>4, <1>5, <2>1 DEF TypeOK, Line, Item
<1>8. ListInv'
    BY <1>0, <1>1, <1>4, <1>5 DEF ListInv, Ordered, Line
<1>9. CallInv(t)'
    BY <1>0, <1>1 DEF ThreadInv, CallInv, Drained, TsfnOpen
<1>10. OrderInv(t)'
    <2>1. \A p \in Operations : Called(t, p) => Called(t, p)'
        BY <1>0 DEF Called
    <2>2. "begin" \notin Asked(t)' \cup Sent(t)'
        BY <1>1, <1>2
    <2> QED
        BY <1>1, <2>1, <2>2, OrderStays
<1>11. ~InLine(t)'
    BY <1>0, <1>1 DEF Unopened, InLine
<1>12. ConnectionInv(t)'
    BY <1>0, <1>1, <1>2, <1>3, <1>11 DEF ThreadInv, ConnectionInv, Unopened
<1>13. ReaderInv(t)' /\ ClientInv(t)' /\ KeptInv(t)'
    BY <1>0, <1>1, <1>2, <1>3
    DEF ThreadInv, ReaderInv, ClientInv, KeptInv, Ends
<1> QED
    BY <1>0, <1>1, <1>3, <1>6, <1>7, <1>8, <1>9, <1>10, <1>12, <1>13
    DEF Fits, ThreadInv, GivesLock

-----------------------------------------------------------------------------
(* The serial lock.                                                        *)

\* Once close has begun, nobody enters the map or has more to send.
StaysSpent(t) ==
    serial /\ Closing /\ entry'[t].live => entry[t].live /\ (Spent(t) => Spent(t)')

LEMMA SpentStays ==
    ASSUME NEW u \in Threads, Same(u) PROVE Spent(u)' <=> Spent(u)
BY DEF Spent, Same

LEMMA LockStays ==
    ASSUME TypeOK, LockInv, NEW t \in Threads, Others(t), KeepsLock(t) \/ GivesLock(t),
           UNCHANGED <<serial, stage>>
    PROVE  LockInv' /\ StaysSpent(t)
<1>1. /\ chain' = chain /\ In(chain)' = In(chain)
      /\ released' = released \/ (released' = released \cup {t} /\ entry[t].lock)
      /\ entry'[t].lock => entry[t].lock /\ released' = released
      /\ serial /\ entry'[t].live => entry[t].live
      /\ serial /\ entry'[t].live /\ Spent(t) => Spent(t)'
      /\ entry'[t].live /\ ~entry'[t].lock => Spent(t)' \/ ~entry[t].lock
    BY DEF KeepsLock, GivesLock, In
<1>2. ASSUME NEW u \in Threads, u # t PROVE entry'[u] = entry[u] /\ (Spent(u)' <=> Spent(u))
    BY <1>2, SpentStays DEF Others, Same
<1>3. released' \subseteq In(chain)'
    BY <1>1 DEF LockInv
<1>4. ASSUME NEW u \in Threads, entry'[u].lock PROVE u \in In(chain)' /\ u \notin released'
    BY <1>1, <1>2, <1>4 DEF LockInv
<1>5. ASSUME NEW i \in DOMAIN chain', NEW j \in DOMAIN chain', i < j
      PROVE  /\ chain'[i] # chain'[j]
             /\ chain'[j] \in released' \/ entry'[chain'[j]].lock => chain'[i] \in released'
    <2>1. chain[i] # chain[j] /\ i \in DOMAIN chain /\ j \in DOMAIN chain
        BY <1>1, <1>5 DEF LockInv
    <2>2. chain[j] \in released \/ entry[chain[j]].lock => chain[i] \in released
        BY <1>5, <2>1 DEF LockInv
    <2>3. chain[j] \in released' \/ entry'[chain[j]].lock =>
             chain[j] \in released \/ entry[chain[j]].lock
        <3>1. CASE chain[j] = t
            BY <1>1, <3>1
        <3>2. CASE chain[j] # t
            <4>1. entry'[chain[j]].lock => (chain[j] \in Threads => entry[chain[j]].lock)
                BY <1>2, <3>2
            <4>2. chain[j] \in Threads
                BY <2>1 DEF TypeOK
            <4> QED
                BY <1>1, <3>2, <4>1, <4>2
        <3> QED
            BY <3>1, <3>2
    <2> QED
        BY <1>1, <2>1, <2>2, <2>3
<1>6. ASSUME serial', NEW u \in Threads, entry'[u].live, ~entry'[u].lock
      PROVE  Spent(u)' \/ Drained'
    <2>1. Drained' <=> Drained
        BY DEF Drained
    <2>2. CASE u = t
        BY <1>1, <1>6, <2>1, <2>2 DEF LockInv
    <2>3. CASE u # t
        BY <1>2, <1>6, <2>1, <2>3 DEF LockInv
    <2> QED
        BY <2>2, <2>3
<1>7. ASSUME serial', NEW u \in Threads, NEW v \in Threads, u # v, entry'[u].live, entry'[v].live
      PROVE  Spent(u)' \/ Spent(v)'
    <2>1. serial /\ entry[u].live /\ entry[v].live
        BY <1>1, <1>2, <1>7
    <2>2. Spent(u) \/ Spent(v)
        BY <1>7, <2>1 DEF LockInv
    <2>3. ASSUME NEW w \in {u, v}, Spent(w) PROVE Spent(w)'
        BY <1>1, <1>2, <1>7, <2>1, <2>3
    <2> QED
        BY <2>2, <2>3
<1>8. StaysSpent(t)
    BY DEF StaysSpent, KeepsLock, GivesLock
<1> QED
    BY <1>3, <1>4, <1>5, <1>6, <1>7, <1>8 DEF LockInv

LEMMA AcquireTakesPlace ==
    ASSUME TypeOK, ListInv, LockInv, NEW t \in Threads, ThreadInv(t), DispatchAcquire(t), Others(t)
    PROVE  LockInv' /\ StaysSpent(t)
<1>1. /\ UNCHANGED <<serial, astray, released, stage>> /\ Take(t, "acquire") /\ "acquire" \in Operations
    BY DEF DispatchAcquire, Operations
<1>2. "acquire" \in Asked(t)
    BY <1>1, TakeDoes
<1>3. t \notin In(chain) /\ ~entry[t].live /\ ~entry[t].lock
    BY <1>2 DEF ThreadInv, ConnectionInv, Unopened
<1>4. \A u \in Threads : u # t => entry'[u] = entry[u] /\ (Spent(u)' <=> Spent(u))
    BY SpentStays DEF Others, Same
<1>5. CASE serial
    <2>1. chain' = Append(chain, t) /\ entry' = entry /\ chain \in Seq(Threads)
        BY <1>5 DEF DispatchAcquire, TypeOK
    <2>2. /\ DOMAIN chain' = 1 .. (Len(chain) + 1) /\ DOMAIN chain = 1 .. Len(chain)
          /\ Len(chain) \in Nat /\ chain'[Len(chain) + 1] = t
          /\ \A i \in 1 .. Len(chain) : chain'[i] = chain[i]
        BY <2>1
    <2>3. In(chain)' = In(chain) \cup {t}
        BY <2>1, Elements DEF In
    <2>4. released' \subseteq In(chain)' /\ t \notin released
        BY <1>1, <1>3, <2>3 DEF LockInv
    <2>5. \A u \in Threads : entry'[u].lock => u \in In(chain)' /\ u \notin released'
        BY <1>1, <2>1, <2>3 DEF LockInv
    <2>6. ASSUME NEW i \in DOMAIN chain', NEW j \in DOMAIN chain', i < j
          PROVE  /\ chain'[i] # chain'[j]
                 /\ chain'[j] \in released' \/ entry'[chain'[j]].lock => chain'[i] \in released'
        <3>1. i \in 1 .. Len(chain) /\ chain'[i] = chain[i]
            BY <2>2, <2>6
        <3>2. CASE j = Len(chain) + 1
            BY <1>1, <1>3, <2>1, <2>2, <2>4, <3>1, <3>2 DEF In
        <3>3. CASE j \in 1 .. Len(chain)
            BY <1>1, <2>1, <2>2, <2>6, <3>1, <3>3 DEF LockInv
        <3> QED
            BY <2>2, <3>2, <3>3
    <2>7. ASSUME NEW u \in Threads, entry'[u].live, ~entry'[u].lock PROVE Spent(u)' \/ Drained'
        BY <1>1, <1>3, <1>4, <1>5, <2>1, <2>7 DEF LockInv, Drained
    <2>8. ASSUME NEW u \in Threads, NEW v \in Threads, u # v, entry'[u].live, entry'[v].live
          PROVE  Spent(u)' \/ Spent(v)'
        BY <1>3, <1>4, <1>5, <2>1, <2>8 DEF LockInv
    <2> QED
        BY <1>3, <2>1, <2>4, <2>5, <2>6, <2>7, <2>8 DEF LockInv, StaysSpent
<1>6. CASE ~serial
    <2>1. entry' = [entry EXCEPT ![t].live = TRUE] /\ chain' = chain /\ chain = <<>>
        BY <1>6 DEF DispatchAcquire, ListInv
    <2>2. \A u \in Threads : entry'[u].lock = entry[u].lock
        BY <2>1 DEF TypeOK
    <2>3. In(chain)' = In(chain) /\ DOMAIN chain' = {}
        BY <2>1 DEF In
    <2> QED
        BY <1>1, <1>6, <2>2, <2>3 DEF LockInv, StaysSpent
<1> QED
    BY <1>5, <1>6

LEMMA GrantTakesTurn ==
    ASSUME TypeOK, ListInv, LockInv, NEW t \in Threads, ThreadInv(t), GrantLock(t), Others(t)
    PROVE  LockInv' /\ StaysSpent(t)
<1>1. /\ UNCHANGED <<serial, astray, chain, stage>> /\ ~entry[t].lock /\ t \notin released
      /\ In(chain)' = In(chain)
    BY DEF GrantLock, In
<1>2. PICK n \in DOMAIN chain : chain[n] = t /\ (n > 1 => chain[n - 1] \in released)
    BY DEF GrantLock
<1>3. DOMAIN chain = 1 .. Len(chain) /\ Len(chain) \in Nat /\ \A i \in DOMAIN chain : chain[i] \in Threads
    BY DEF TypeOK
<1>4. ASSUME NEW i \in DOMAIN chain
      PROVE  /\ i < n => chain[i] \in released
             /\ i > n => chain[i] \notin released /\ ~entry[chain[i]].lock
    <2>1. CASE i = n - 1
        BY <1>2, <1>3, <2>1
    <2>2. CASE i < n - 1
        <3>1. n - 1 \in DOMAIN chain /\ chain[n - 1] \in released
            BY <1>2, <1>3, <2>2
        <3> QED
            BY <1>3, <2>2, <3>1 DEF LockInv
    <2>3. CASE i > n
        <3>1. n < i /\ ~(i < n)
            BY <1>2, <1>3, <2>3
        <3> QED
            BY <1>1, <1>2, <3>1 DEF LockInv
    <2> QED
        BY <1>2, <1>3, <2>1, <2>2, <2>3
<1>5. ~entry[t].live
    BY <1>1, <1>2 DEF ThreadInv, ConnectionInv, Unopened, InLine, In
<1>6. \A u \in Threads : u # t => entry'[u] = entry[u] /\ (Spent(u)' <=> Spent(u))
    BY SpentStays DEF Others, Same
<1>7. \/ entry' = entry /\ released' = released \cup {t}
      \/ entry'[t].lock /\ released' = released /\ stage = "open"
    BY DEF GrantLock, Closing, TypeOK
<1>8. released' \subseteq In(chain)' /\ t \in In(chain)
    BY <1>1, <1>2, <1>7 DEF LockInv, In
<1>9. \A u \in Threads : entry'[u].lock => u \in In(chain)' /\ u \notin released'
    BY <1>1, <1>6, <1>7, <1>8 DEF LockInv
<1>10. ASSUME NEW i \in DOMAIN chain', NEW j \in DOMAIN chain', i < j
       PROVE  /\ chain'[i] # chain'[j]
              /\ chain'[j] \in released' \/ entry'[chain'[j]].lock => chain'[i] \in released'
    <2>1. i \in DOMAIN chain /\ j \in DOMAIN chain /\ chain[i] # chain[j]
        BY <1>1, <1>10 DEF LockInv
    <2>2. CASE j = n
        BY <1>1, <1>2, <1>4, <1>7, <1>10, <2>1, <2>2
    <2>3. CASE j # n
        <3>1. chain[j] # t /\ chain[j] \in Threads
            BY <1>2, <1>3, <2>1, <2>3 DEF LockInv
        <3>2. chain[j] \in released' \/ entry'[chain[j]].lock =>
                 chain[j] \in released \/ entry[chain[j]].lock
            BY <1>6, <1>7, <3>1
        <3> QED
            BY <1>1, <1>7, <1>10, <2>1, <3>2 DEF LockInv
    <2> QED
        BY <2>2, <2>3
<1>11. ASSUME serial', NEW u \in Threads, entry'[u].live, ~entry'[u].lock
       PROVE  Spent(u)' \/ Drained'
    <2>1. u # t
        BY <1>5, <1>7, <1>11
    <2> QED
        BY <1>1, <1>6, <1>11, <2>1 DEF LockInv, Drained
<1>12. ASSUME serial', NEW u \in Threads, u # t, entry[u].live, stage = "open"
       PROVE  Spent(u)
    <2>1. CASE ~entry[u].lock
        BY <1>1, <1>12, <2>1 DEF LockInv, Drained
    <2>2. CASE entry[u].lock
        <3>1. PICK i \in DOMAIN chain : chain[i] = u
            BY <2>2 DEF LockInv, In
        <3>2. i # n /\ u \notin released
            BY <1>2, <1>12, <2>2, <3>1 DEF LockInv
        <3> QED
            BY <1>3, <1>4, <2>2, <3>1, <3>2
    <2> QED
        BY <2>1, <2>2
<1>13. ASSUME serial', NEW u \in Threads, NEW v \in Threads, u # v, entry'[u].live, entry'[v].live
       PROVE  Spent(u)' \/ Spent(v)'
    <2>1. CASE u # t /\ v # t
        BY <1>1, <1>6, <1>13, <2>1 DEF LockInv
    <2>2. CASE u = t
        BY <1>5, <1>6, <1>7, <1>12, <1>13, <2>2
    <2>3. CASE v = t
        BY <1>5, <1>6, <1>7, <1>12, <1>13, <2>3
    <2> QED
        BY <2>1, <2>2, <2>3
<1>14. StaysSpent(t)
    BY <1>5, <1>7 DEF StaysSpent, Closing
<1> QED
    BY <1>8, <1>9, <1>10, <1>11, <1>13, <1>14 DEF LockInv

-----------------------------------------------------------------------------
(* The steps of close.                                                     *)

LEMMA StageFits ==
    ASSUME CommonInv, stage' \in {"joining", "taken", "closed"}, Drained' <=> Drained,
           TsfnOpen' => TsfnOpen,
           UNCHANGED <<serial, astray, rust, pending, inbox, chain, released, entry, db, tx, txConn,
                       clients, settling>>
    PROVE  CommonInv'
<1>1. \A u \in Threads : Asked(u)' = Asked(u) /\ Sent(u)' = Sent(u)
    BY NothingAsked, NothingSent
<1>2. TypeOK' /\ ListInv'
    BY ListsStay DEF CommonInv, TypeOK
<1>3. LockInv'
    BY <1>1 DEF CommonInv, LockInv, Spent, In
<1>4. ASSUME NEW t \in Threads PROVE ThreadInv(t)'
    <2>1. ThreadInv(t)
        BY DEF CommonInv
    <2>2. CallInv(t)' /\ ReaderInv(t)' /\ OrderInv(t)'
        BY <1>1, <2>1 DEF ThreadInv, CallInv, ReaderInv, OrderInv, Called
    <2>3. ConnectionInv(t)'
        BY <1>1, <2>1 DEF ThreadInv, ConnectionInv, Unopened, InLine, In
    <2>4. ClientInv(t)' /\ KeptInv(t)'
        BY <1>1, <2>1 DEF ThreadInv, ClientInv, KeptInv
    <2> QED
        BY <2>2, <2>3, <2>4 DEF ThreadInv
<1> QED
    BY <1>2, <1>3, <1>4 DEF CommonInv

LEMMA DrainFits ==
    ASSUME CommonInv, CloseDrain
    PROVE  /\ CommonInv' /\ UNCHANGED <<serial, astray, db, tx>> /\ Closing /\ Closing'
           /\ \A t \in Threads : /\ entry'[t].live = entry[t].live /\ entry'[t].inTx = entry[t].inTx
                                 /\ Spent(t) => Spent(t)'
<1>1. /\ UNCHANGED <<serial, astray, inbox, chain, db, tx, txConn, clients>>
      /\ stage = "taken" /\ stage' = "settling" /\ pending' = {} /\ settling' = InFlight
    BY DEF CloseDrain, dbVars
<1>2. TypeOK /\ ListInv /\ LockInv /\ \A t \in Threads : ThreadInv(t)
    BY DEF CommonInv
<1>3. \A u \in Threads : Asked(u)' = Asked(u) /\ Sent(u)' = Sent(u)
    BY <1>1, NothingAsked, NothingSent
<1>4. PICK answered \in SUBSET Threads :
         /\ answered = {t \in Threads : <<t, rust[t].op>> \in pending /\ rust[t].mode = "waiting"}
         /\ rust' = [t \in Threads |->
                        IF t \in answered THEN [op |-> NextOp(t, rust[t].op, FALSE), mode |-> "ready"]
                        ELSE rust[t]]
    BY DEF CloseDrain
<1>5. PICK held \in SUBSET Threads :
         /\ held = {t \in Threads : entry[t].live /\ entry[t].lock}
         /\ released' = released \cup held
         /\ entry' = [t \in Threads |-> IF t \in held THEN DropLock(entry[t]) ELSE entry[t]]
    BY DEF CloseDrain
<1>6. ASSUME NEW t \in Threads
      PROVE  \/ rust'[t] = rust[t] /\ rust[t].mode # "waiting"
             \/ /\ rust[t].mode = "waiting" /\ rust'[t].mode = "ready"
                /\ rust'[t].op = NextOp(t, rust[t].op, FALSE)
                /\ rust[t].op \in Operations \ {"close"}
    BY <1>2, <1>4 DEF TypeOK, ThreadInv, CallInv, Operations
<1>7. rust' \in [Threads -> [op : Operations \cup {"done"}, mode : {"ready", "inserted", "waiting"}]]
    <2>1. rust \in [Threads -> [op : Operations \cup {"done"}, mode : {"ready", "inserted", "waiting"}]]
        BY <1>2 DEF TypeOK
    <2>2. ASSUME NEW t \in answered PROVE NextOp(t, rust[t].op, FALSE) \in Operations \cup {"done"}
        <3>1. rust[t].op \in Operations
            BY <1>2, <1>4 DEF ThreadInv, CallInv, TypeOK
        <3> QED
            BY <3>1, NextOpIsLater
    <2> QED
        BY <1>4, <2>1, <2>2
<1>8. /\ entry' \in [Threads -> [live : BOOLEAN, busy : BOOLEAN, inTx : BOOLEAN, lock : BOOLEAN]]
      /\ \A t \in Threads : entry'[t].live = entry[t].live /\ entry'[t].inTx = entry[t].inTx
                            /\ entry'[t].busy = entry[t].busy
                            /\ (entry'[t].lock <=> entry[t].lock /\ t \notin held)
    <2>1. entry \in [Threads -> [live : BOOLEAN, busy : BOOLEAN, inTx : BOOLEAN, lock : BOOLEAN]]
        BY <1>2 DEF TypeOK
    <2>2. ASSUME NEW t \in Threads
          PROVE  DropLock(entry[t]) \in [live : BOOLEAN, busy : BOOLEAN, inTx : BOOLEAN, lock : BOOLEAN]
                 /\ DropLock(entry[t]).live = entry[t].live /\ DropLock(entry[t]).inTx = entry[t].inTx
                 /\ DropLock(entry[t]).busy = entry[t].busy /\ ~DropLock(entry[t]).lock
        BY <2>1 DEF DropLock
    <2> QED
        BY <1>5, <2>1, <2>2
<1>9. TypeOK'
    <2>1. InFlight \subseteq Threads \X (Operations \cup {"sweep"})
        <3>1. UNION {ToSet(db[l]) : l \in Lines} \subseteq Threads \X (Operations \cup {"sweep"})
            <4>1. \A l \in Lines : ToSet(db[l]) \subseteq Threads \X (Operations \cup {"sweep"})
                BY <1>2 DEF TypeOK, ToSet
            <4> QED
                BY <4>1
        <3>2. ToSet(chain) \subseteq Threads
            BY <1>2 DEF TypeOK, ToSet
        <3>3. {<<t, "acquire">> : t \in {u \in ToSet(chain) : ~entry[u].lock} \ released}
                 \subseteq Threads \X (Operations \cup {"sweep"})
            BY <3>2 DEF Operations
        <3> QED
            BY <3>1, <3>3 DEF InFlight
    <2> QED
        BY <1>1, <1>2, <1>5, <1>7, <1>8, <2>1 DEF TypeOK, Line
<1>10. ListInv'
    BY <1>1, <1>2, ListsStay
<1>11. ASSUME NEW t \in Threads PROVE ThreadInv(t)'
    <2>1. CallInv(t)'
        BY <1>1, <1>2, <1>6, <1>11 DEF CallInv, ThreadInv, TsfnOpen
    <2>2. /\ rust'[t] = rust[t]
          \/ /\ rust'[t].op \in {"done", "close", "rollback"} /\ rust'[t].mode = "ready"
             /\ rust[t].op = "acquire" => rust'[t].op = "done"
             /\ rust[t].op = "begin" => rust'[t].op = "close"
             /\ t \in Readers => rust'[t].op \in {"done", "close"}
        BY <1>2, <1>6 DEF NextOp, Operations, ThreadInv, ReaderInv
    <2>3. OrderInv(t)'
        <3>1. ASSUME NEW p \in Operations, Called(t, p) PROVE Called(t, p)'
            <4>1. CASE rust'[t] = rust[t]
                BY <3>1, <4>1 DEF Called
            <4>2. CASE rust'[t].op = NextOp(t, rust[t].op, FALSE) /\ rust[t].op \in Operations
                <5>1. PICK a, b \in Nat : a = Rank(rust[t].op) /\ b = Rank(rust'[t].op)
                    BY <4>2, NextOpIsLater, RankType
                <5>2. Rank(p) \in Nat /\ a < b
                    BY <4>2, <5>1, NextOpIsLater, RankType
                <5>3. Rank(p) < a \/ Rank(p) = a
                    BY <3>1, <5>1 DEF Called
                <5>4. Rank(p) < b
                    BY <5>2, <5>3
                <5> QED
                    BY <5>1, <5>4 DEF Called
            <4> QED
                BY <1>6, <4>1, <4>2
        <3>2. "begin" \in Asked(t)' \cup Sent(t)' => rust'[t].op \in {"begin", "close", "done"}
            BY <1>2, <1>3, <2>2, <1>6 DEF ThreadInv, OrderInv, CallInv
        <3> QED
            BY <1>2, <1>3, <3>1, <3>2, OrderStays
    <2>4. InLine(t)' => InLine(t)
        BY <1>1, <1>5, <1>8 DEF InLine, In
    <2>5. ConnectionInv(t)'
        <3>1. ConnectionInv(t)
            BY <1>2 DEF ThreadInv
        <3>2. In(chain)' = In(chain) /\ clients' = clients /\ astray' = astray
            BY <1>1 DEF In
        <3>3. \A op \in {"acquire", "begin", "execute"} :
                 rust'[t].op = op /\ rust'[t].mode # "waiting" => rust[t].op = op /\ rust[t].mode # "waiting"
            BY <1>6, <2>2
        <3>4. Unopened(t)' => Unopened(t)
            BY <1>3, <2>4, <3>3 DEF Unopened
        <3>5. rust[t].op \in {"acquire", "done"} => rust'[t].op \in {"acquire", "done"}
            BY <1>6, <2>2 DEF Operations
        <3> QED
            BY <1>3, <1>8, <3>1, <3>2, <3>3, <3>4, <3>5 DEF ConnectionInv
    <2>6. ReaderInv(t)' /\ ClientInv(t)' /\ KeptInv(t)'
        BY <1>1, <1>2, <1>3, <1>8, <2>2 DEF ThreadInv, ReaderInv, ClientInv, KeptInv
    <2> QED
        BY <2>1, <2>3, <2>5, <2>6 DEF ThreadInv
<1>12. ASSUME NEW t \in Threads, Spent(t) PROVE Spent(t)'
    BY <1>2, <1>3, <1>6, <1>8, <1>12 DEF Spent, ThreadInv, CallInv
<1>13. LockInv'
    <2>1. released' \subseteq In(chain)' /\ In(chain)' = In(chain)
        BY <1>1, <1>2, <1>5 DEF LockInv, In
    <2>2. \A t \in Threads : entry'[t].lock => t \in In(chain)' /\ t \notin released'
        BY <1>2, <1>5, <1>8, <2>1 DEF LockInv
    <2>3. \A i \in DOMAIN chain : chain[i] \in Threads
        BY <1>2 DEF TypeOK
    <2>4. ASSUME NEW i \in DOMAIN chain', NEW j \in DOMAIN chain', i < j
          PROVE  /\ chain'[i] # chain'[j]
                 /\ chain'[j] \in released' \/ entry'[chain'[j]].lock => chain'[i] \in released'
        <3>1. chain[j] \in released' \/ entry'[chain[j]].lock =>
                 chain[j] \in released \/ entry[chain[j]].lock
            BY <1>1, <1>5, <1>8, <2>3, <2>4
        <3> QED
            BY <1>1, <1>2, <1>5, <2>4, <3>1 DEF LockInv
    <2>5. Drained'
        BY <1>1 DEF Drained
    <2>7. serial => \A t, u \in Threads :
             t # u /\ entry'[t].live /\ entry'[u].live => Spent(t)' \/ Spent(u)'
        BY <1>2, <1>8, <1>12 DEF LockInv
    <2> QED
        BY <1>1, <2>1, <2>2, <2>4, <2>5, <2>7 DEF LockInv
<1> QED
    BY <1>1, <1>8, <1>9, <1>10, <1>11, <1>12, <1>13 DEF CommonInv, Closing

\* A set as a list holds each of its elements once.
LEMMA SetToSeqDoes ==
    ASSUME NEW S, IsFiniteSet(S)
    PROVE  /\ SetToSeq(S) \in Seq(S) /\ In(SetToSeq(S)) = S
           /\ \A i, j \in DOMAIN SetToSeq(S) : SetToSeq(S)[i] = SetToSeq(S)[j] => i = j
<1>1. PICK n \in Nat : n = Cardinality(S)
    BY FS_CardinalityType
<1>2. ExistsBijection(1 .. n, S)
    BY <1>1, FS_CardinalityType
<1>3. PICK f : f \in Bijection(1 .. n, S)
    BY <1>2, Fun_ExistsBij
<1>4. f \in [1 .. n -> S] /\ IsInjective(f)
    BY <1>3 DEF Bijection, Injection
<1>5. SetToSeq(S) \in [1 .. n -> S] /\ IsInjective(SetToSeq(S))
    BY <1>1, <1>4 DEF SetToSeq
<1>6. SetToSeq(S) \in Injection(1 .. n, S)
    BY <1>5 DEF Injection
<1>7. SetToSeq(S) \in Surjection(1 .. n, S)
    <2>1. IsFiniteSet(1 .. n) /\ Cardinality(1 .. n) = n
        BY FS_Interval
    <2> QED
        BY <1>1, <1>6, <2>1, FS_Injection
<1>8. In(SetToSeq(S)) = S
    BY <1>5, <1>7 DEF Surjection, In
<1> QED
    BY <1>5, <1>8 DEF IsInjective

\* What keeps two lists in order when they are joined.
LEMMA JoinedOrder ==
    ASSUME NEW s \in Seq(Item), NEW r \in Seq(Item), Ordered(s), Ordered(r),
           \A x \in In(s), y \in In(r) : x[1] = y[1] => Rank(x[2]) < Rank(y[2])
    PROVE  Ordered(s \o r) /\ s \o r \in Seq(Item) /\ In(s \o r) = In(s) \cup In(r)
<1>1. /\ DOMAIN s = 1 .. Len(s) /\ DOMAIN r = 1 .. Len(r) /\ Len(s) \in Nat /\ Len(r) \in Nat
      /\ DOMAIN (s \o r) = 1 .. (Len(s) + Len(r)) /\ s \o r \in Seq(Item)
      /\ \A i \in 1 .. Len(s) : (s \o r)[i] = s[i]
      /\ \A i \in 1 .. Len(r) : (s \o r)[Len(s) + i] = r[i]
    OBVIOUS
<1>2. ASSUME NEW i \in DOMAIN (s \o r)
      PROVE  \/ i \in 1 .. Len(s) /\ (s \o r)[i] = s[i]
             \/ i - Len(s) \in 1 .. Len(r) /\ (s \o r)[i] = r[i - Len(s)] /\ i > Len(s)
    <2>1. CASE i \in 1 .. Len(s)
        BY <1>1, <2>1
    <2>2. CASE i \notin 1 .. Len(s)
        <3>1. i - Len(s) \in 1 .. Len(r) /\ i > Len(s) /\ Len(s) + (i - Len(s)) = i
            BY <1>1, <2>2
        <3> QED
            BY <1>1, <3>1
    <2> QED
        BY <2>1, <2>2
<1>3. In(s \o r) = In(s) \cup In(r)
    <2>1. In(s \o r) \subseteq In(s) \cup In(r)
        BY <1>1, <1>2 DEF In
    <2>2. In(s) \subseteq In(s \o r)
        BY <1>1 DEF In
    <2>3. In(r) \subseteq In(s \o r)
        <3>1. ASSUME NEW i \in DOMAIN r PROVE r[i] \in In(s \o r)
            <4>1. Len(s) + i \in DOMAIN (s \o r)
                BY <1>1
            <4> QED
                BY <1>1, <4>1 DEF In
        <3> QED
            BY <3>1 DEF In
    <2> QED
        BY <2>1, <2>2, <2>3
<1>4. ASSUME NEW i \in DOMAIN (s \o r), NEW j \in DOMAIN (s \o r), i < j,
             (s \o r)[i][1] = (s \o r)[j][1]
      PROVE  Rank((s \o r)[i][2]) < Rank((s \o r)[j][2])
    <2>1. CASE i \in 1 .. Len(s) /\ j \in 1 .. Len(s)
        BY <1>1, <1>4, <2>1 DEF Ordered
    <2>2. CASE i \in 1 .. Len(s) /\ j > Len(s) /\ j - Len(s) \in 1 .. Len(r)
        <3>1. s[i] \in In(s) /\ r[j - Len(s)] \in In(r)
            BY <1>1, <2>2 DEF In
        <3>2. (s \o r)[i] = s[i] /\ (s \o r)[j] = r[j - Len(s)]
            BY <1>1, <1>2, <2>2
        <3> QED
            BY <1>4, <3>1, <3>2
    <2>3. CASE i > Len(s) /\ j > Len(s) /\ i - Len(s) \in 1 .. Len(r) /\ j - Len(s) \in 1 .. Len(r)
        <3>1. (s \o r)[i] = r[i - Len(s)] /\ (s \o r)[j] = r[j - Len(s)]
            BY <1>1, <1>2, <2>3
        <3>2. i - Len(s) < j - Len(s)
            BY <1>1, <1>4
        <3> QED
            BY <1>1, <1>4, <2>3, <3>1, <3>2 DEF Ordered
    <2>4. ~(i > Len(s) /\ j \in 1 .. Len(s))
        BY <1>1, <1>4
    <2> QED
        BY <1>2, <2>1, <2>2, <2>3, <2>4
<1> QED
    BY <1>1, <1>3, <1>4 DEF Ordered

\* The threads that close finds with an open transaction.
Undo == {t \in Threads : entry[t].live /\ entry[t].inTx /\ HasTx(t)}

LEMMA LeftDoes ==
    ASSUME TypeOK, ListInv, \A t \in Threads : ThreadInv(t), CloseLeft
    PROVE  /\ UNCHANGED <<serial, astray, rust, pending, inbox, chain, released, tx>>
           /\ stage = "settling" /\ stage' = "rolling" /\ settling' = Undo \X {"sweep"}
           /\ \A t \in Threads : /\ ~entry'[t].live /\ entry'[t].busy = entry[t].busy
                                 /\ entry'[t].inTx = entry[t].inTx /\ entry'[t].lock = entry[t].lock
           /\ entry' \in [Threads -> [live : BOOLEAN, busy : BOOLEAN, inTx : BOOLEAN, lock : BOOLEAN]]
           /\ txConn' = {t \in txConn : ~entry[t].live}
           /\ clients' = {t \in clients : t \in txConn /\ entry[t].live => t \in Undo}
           /\ db' \in [Lines -> Seq(Item)]
           /\ \A l \in Lines :
                 /\ Ordered(db'[l])
                 /\ In(db'[l]) = In(db[l]) \cup ({t \in Undo : Line(t) = l} \X {"sweep"})
                 /\ {t \in Undo : Line(t) = l} = {} => db'[l] = db[l]
                 /\ \E r \in Seq(Item) : db'[l] = db[l] \o r /\ \A i \in DOMAIN r : r[i][2] = "sweep"
<1>1. /\ UNCHANGED <<serial, astray, rust, pending, inbox, chain, released, tx>>
      /\ stage = "settling" /\ stage' = "rolling"
    BY DEF CloseLeft, rustVars, lockVars
<1>2. PICK left \in SUBSET Threads : left = {t \in Threads : entry[t].live}
    OBVIOUS
<1>3. Undo = {t \in left : entry[t].inTx /\ HasTx(t)}
    BY <1>2 DEF Undo
<1>4. /\ entry' = [t \in Threads |-> [entry[t] EXCEPT !.live = FALSE]]
      /\ db' = [l \in Lines |-> db[l] \o SetToSeq({t \in Undo : Line(t) = l} \X {"sweep"})]
      /\ settling' = Undo \X {"sweep"}
      /\ txConn' = txConn \ left
      /\ clients' = clients \ ((txConn \cap left) \ Undo)
    BY <1>2, <1>3 DEF CloseLeft
<1>5. /\ \A t \in Threads : /\ ~entry'[t].live /\ entry'[t].busy = entry[t].busy
                            /\ entry'[t].inTx = entry[t].inTx /\ entry'[t].lock = entry[t].lock
      /\ entry' \in [Threads -> [live : BOOLEAN, busy : BOOLEAN, inTx : BOOLEAN, lock : BOOLEAN]]
    <2>1. entry \in [Threads -> [live : BOOLEAN, busy : BOOLEAN, inTx : BOOLEAN, lock : BOOLEAN]]
        BY DEF TypeOK
    <2> QED
        BY <1>4, <2>1
<1>6. /\ txConn' = {t \in txConn : ~entry[t].live}
      /\ clients' = {t \in clients : t \in txConn /\ entry[t].live => t \in Undo}
    <2>1. txConn \subseteq Threads /\ clients \subseteq Threads
        BY DEF TypeOK
    <2> QED
        BY <1>2, <1>4, <2>1
<1>7. ASSUME NEW l \in Lines
      PROVE  /\ Ordered(db'[l]) /\ db'[l] \in Seq(Item)
             /\ In(db'[l]) = In(db[l]) \cup ({t \in Undo : Line(t) = l} \X {"sweep"})
             /\ {t \in Undo : Line(t) = l} = {} => db'[l] = db[l]
             /\ \E r \in Seq(Item) : db'[l] = db[l] \o r /\ \A i \in DOMAIN r : r[i][2] = "sweep"
    <2>1. PICK S : S = {t \in Undo : Line(t) = l} \X {"sweep"}
        OBVIOUS
    <2>2. S \subseteq Item /\ IsFiniteSet(S)
        <3>1. S \subseteq Threads \X {"sweep"} /\ S \subseteq Item
            BY <2>1 DEF Undo, Item
        <3>2. IsFiniteSet(Threads \X {"sweep"})
            BY BridgeAssumption, FS_Product, FS_Singleton
        <3> QED
            BY <3>1, <3>2, FS_Subset
    <2>3. /\ SetToSeq(S) \in Seq(S) /\ In(SetToSeq(S)) = S
          /\ \A i, j \in DOMAIN SetToSeq(S) : SetToSeq(S)[i] = SetToSeq(S)[j] => i = j
        BY <2>2, SetToSeqDoes
    <2>4. PICK r \in Seq(Item) : r = SetToSeq(S)
        BY <2>2, <2>3
    <2>5. Ordered(r)
        <3> SUFFICES ASSUME NEW i \in DOMAIN r, NEW j \in DOMAIN r, i < j, r[i][1] = r[j][1]
                     PROVE  FALSE
            BY DEF Ordered
        <3>1. r[i] \in S /\ r[j] \in S
            BY <2>3, <2>4 DEF In
        <3>2. r[i] = r[j]
            BY <2>1, <3>1
        <3>3. i = j
            BY <2>3, <2>4, <3>2
        <3> QED
            BY <2>4, <3>3
    <2>6. db[l] \in Seq(Item) /\ Ordered(db[l]) /\ db'[l] = db[l] \o r
        BY <1>4, <2>1, <2>4 DEF TypeOK, ListInv, Item
    <2>7. ASSUME NEW x \in In(db[l]), NEW y \in In(r), x[1] = y[1]
          PROVE  Rank(x[2]) < Rank(y[2])
        <3>1. y \in {t \in Undo : Line(t) = l} \X {"sweep"}
            BY <2>1, <2>3, <2>4
        <3>2. PICK t \in Threads : y[1] = t /\ y[2] = "sweep" /\ Line(t) = l /\ entry[t].live
            BY <3>1 DEF Undo
        <3>3. x \in Item
            BY <2>6 DEF In
        <3>4. x = <<t, x[2]>> /\ x[2] \in Operations \cup {"sweep"}
            BY <2>7, <3>2, <3>3 DEF Item
        <3>5. x[2] \in Sent(t)
            BY <3>2, <3>4 DEF Sent
        <3>6. x[2] # "sweep"
            BY <3>2, <3>5 DEF ThreadInv, ConnectionInv
        <3> QED
            BY <3>2, <3>4, <3>6 DEF Rank, Operations
    <2>8. Ordered(db'[l]) /\ db'[l] \in Seq(Item) /\ In(db'[l]) = In(db[l]) \cup S
        <3>1. Ordered(db[l] \o r) /\ db[l] \o r \in Seq(Item) /\ In(db[l] \o r) = In(db[l]) \cup In(r)
            BY <2>5, <2>6, <2>7, JoinedOrder
        <3> QED
            BY <2>3, <2>4, <2>6, <3>1
    <2>9. {t \in Undo : Line(t) = l} = {} => db'[l] = db[l]
        <3>1. {t \in Undo : Line(t) = l} = {} => S = {}
            BY <2>1
        <3>2. S = {} => r = <<>>
            BY <2>3, <2>4
        <3> QED
            BY <2>6, <3>1, <3>2
    <2>10. \A i \in DOMAIN r : r[i][2] = "sweep"
        <3>1. \A i \in DOMAIN r : r[i] \in S
            BY <2>3, <2>4 DEF In
        <3> QED
            BY <2>1, <3>1
    <2> QED
        BY <2>1, <2>6, <2>8, <2>9, <2>10
<1>8. db' \in [Lines -> Seq(Item)]
    BY <1>4, <1>7
<1> QED
    BY <1>1, <1>4, <1>5, <1>6, <1>7, <1>8

LEMMA LeftFits ==
    ASSUME CommonInv, CloseLeft
    PROVE  CommonInv'
<1>1. TypeOK /\ ListInv /\ LockInv /\ \A t \in Threads : ThreadInv(t)
    BY DEF CommonInv
<1>2. /\ UNCHANGED <<serial, astray, rust, pending, inbox, chain, released, tx>>
      /\ stage = "settling" /\ stage' = "rolling" /\ settling' = Undo \X {"sweep"}
      /\ \A t \in Threads : /\ ~entry'[t].live /\ entry'[t].busy = entry[t].busy
                            /\ entry'[t].inTx = entry[t].inTx /\ entry'[t].lock = entry[t].lock
      /\ entry' \in [Threads -> [live : BOOLEAN, busy : BOOLEAN, inTx : BOOLEAN, lock : BOOLEAN]]
      /\ txConn' = {t \in txConn : ~entry[t].live}
      /\ clients' = {t \in clients : t \in txConn /\ entry[t].live => t \in Undo}
      /\ db' \in [Lines -> Seq(Item)]
    BY <1>1, LeftDoes
<1>3. \A l \in Lines :
         /\ Ordered(db'[l])
         /\ In(db'[l]) = In(db[l]) \cup ({t \in Undo : Line(t) = l} \X {"sweep"})
    BY <1>1, LeftDoes
<1>4. \A u \in Threads : Asked(u)' = Asked(u)
    BY <1>2, NothingAsked
<1>5. ASSUME NEW t \in Threads
      PROVE  Sent(t)' = Sent(t) \cup (IF t \in Undo THEN {"sweep"} ELSE {})
    <2>1. PICK l \in Lines : l = Line(t) /\ l = Line(t)'
        BY <1>2, LinesAre DEF Line
    <2>2. \A op : <<t, op>> \in In(db'[l]) <=>
                     <<t, op>> \in In(db[l]) \/ (t \in Undo /\ op = "sweep")
        <3>1. \A op : <<t, op>> \in {u \in Undo : Line(u) = l} \X {"sweep"} <=> t \in Undo /\ op = "sweep"
            BY <2>1
        <3>2. PICK S : S = {u \in Undo : Line(u) = l} \X {"sweep"}
            OBVIOUS
        <3>3. In(db'[l]) = In(db[l]) \cup S
            BY <1>3, <3>2
        <3> QED
            BY <3>1, <3>2, <3>3
    <2> QED
        BY <2>1, <2>2 DEF Sent
<1>6. TypeOK'
    <2>1. clients' \subseteq clients /\ txConn' \subseteq clients'
        BY <1>1, <1>2 DEF TypeOK
    <2>2. Cardinality(clients') <= Clients /\ clients' \subseteq Threads
        BY <1>1, <2>1, ClientsReturn
    <2>3. settling' \subseteq Threads \X (Operations \cup {"sweep"})
        BY <1>2 DEF Undo
    <2> QED
        BY <1>1, <1>2, <2>1, <2>2, <2>3 DEF TypeOK, Line, Item
<1>7. ListInv'
    <2>1. IsFiniteSet(clients)'
        BY <1>1, <1>2, ClientsReturn
    <2>2. \A l \in Lines : \A x \in In(db'[l]) : Line(x[1])' = l
        <3>1. \A u : Line(u)' = Line(u)
            BY <1>2 DEF Line
        <3> QED
            BY <1>1, <1>3, <3>1 DEF ListInv
    <2> QED
        BY <1>1, <1>2, <1>3, <2>1, <2>2 DEF ListInv, Ordered, Line
<1>8. ASSUME NEW t \in Threads PROVE ThreadInv(t)'
    <2>1. ThreadInv(t) /\ (t \in Undo => entry[t].live /\ entry[t].inTx)
        BY <1>1 DEF Undo
    <2>2. CallInv(t)'
        BY <1>2, <2>1 DEF ThreadInv, CallInv, Drained, TsfnOpen
    <2>3. ReaderInv(t)'
        BY <1>2, <1>4, <1>5, <2>1 DEF ThreadInv, ReaderInv
    <2>4. OrderInv(t)'
        <3>1. \A p \in Operations : Called(t, p) => Called(t, p)'
            BY <1>2 DEF Called
        <3>2. "begin" \in Asked(t)' \cup Sent(t)' => rust'[t].op \in {"begin", "close", "done"}
            BY <1>2, <1>4, <1>5, <2>1 DEF ThreadInv, OrderInv
        <3> QED
            BY <1>4, <1>5, <2>1, <3>1, <3>2, OrderStays
    <2>5. InLine(t)' <=> InLine(t)
        BY <1>2 DEF InLine, In
    <2>6. ConnectionInv(t)'
        BY <1>2, <1>4, <1>5, <2>1, <2>5 DEF ThreadInv, ConnectionInv, Unopened, In
    <2>7. ClientInv(t)' /\ KeptInv(t)'
        BY <1>2, <1>5, <2>1 DEF ThreadInv, ClientInv, KeptInv, Ends
    <2> QED
        BY <2>2, <2>3, <2>4, <2>6, <2>7 DEF ThreadInv
<1>9. LockInv'
    <2>1. \A i \in DOMAIN chain : chain[i] \in Threads
        BY <1>1 DEF TypeOK
    <2>2. In(chain)' = In(chain) /\ \A t \in Threads : entry'[t].lock = entry[t].lock /\ ~entry'[t].live
        BY <1>2 DEF In
    <2> QED
        BY <1>1, <1>2, <2>1, <2>2 DEF LockInv
<1> QED
    BY <1>6, <1>7, <1>8, <1>9 DEF CommonInv

-----------------------------------------------------------------------------
(* The invariant.                                                          *)

\* A step of one thread, or of the event loop or the database for it.
StepOf(t) ==
    \/ CallInsert(t) \/ CallQueue(t) \/ SendClose(t) \/ CallTimeout(t)
    \/ DispatchAcquire(t) \/ GrantLock(t) \/ DispatchClose(t) \/ Sweep(t)
    \/ \E op \in Operations : DispatchRefuse(t, op) \/ DispatchStatement(t, op) \/ DispatchEnd(t, op)
    \/ \E l \in Lines :
          \/ BeginDone(l, t) \/ BeginFailed(l, t)
          \/ \E ok \in BOOLEAN : ExecuteDone(l, t, ok)
          \/ \E ok \in BOOLEAN, op \in {"commit", "rollback"} : EndDone(l, t, op, ok)
          \/ \E op \in {"close", "sweep"} : DropDone(l, t, op)

LEMMA StepsAre ==
    ASSUME Next
    PROVE  (\E t \in Threads : StepOf(t)) \/ CloseBegin \/ CloseNext
<1>1. CASE DispatchNext
    BY <1>1 DEF DispatchNext, StepOf
<1>2. CASE \E t \in Threads : ThreadNext(t) \/ CallTimeout(t) \/ GrantLock(t) \/ Sweep(t)
    BY <1>2 DEF ThreadNext, StepOf
<1>3. CASE \E l \in Lines : FinishNext(l)
    BY <1>3 DEF FinishNext, StepOf
<1> QED
    BY <1>1, <1>2, <1>3 DEF Next

LEMMA StepFits ==
    ASSUME CommonInv, NEW t \in Threads, StepOf(t)
    PROVE  Fits(t) /\ LockInv' /\ StaysSpent(t) /\ UNCHANGED <<serial, stage>>
<1> USE DEF CommonInv
<1>1. CASE CallInsert(t)
    BY <1>1, InsertFits, LockStays DEF CallInsert, Fits
<1>2. CASE CallQueue(t)
    BY <1>2, QueueFits, LockStays DEF CallQueue, Fits
<1>3. CASE SendClose(t)
    BY <1>3, SendCloseFits, LockStays DEF SendClose, Fits
<1>4. CASE CallTimeout(t)
    BY <1>4, TimeoutFits, LockStays DEF CallTimeout, Fits
<1>5. CASE DispatchAcquire(t)
    BY <1>5, DispatchAcquireFits, AcquireTakesPlace DEF DispatchAcquire, Fits
<1>6. CASE GrantLock(t)
    BY <1>6, GrantFits, GrantTakesTurn DEF GrantLock, Fits
<1>7. CASE DispatchClose(t)
    BY <1>7, CloseFits, LockStays DEF DispatchClose, Fits
<1>8. CASE Sweep(t)
    BY <1>8, SweepFits, LockStays DEF Sweep, Fits
<1>9. ASSUME NEW op \in Operations, DispatchRefuse(t, op)
      PROVE  Fits(t) /\ LockInv' /\ StaysSpent(t) /\ UNCHANGED <<serial, stage>>
    BY <1>9, RefuseFits, LockStays DEF DispatchRefuse, Fits
<1>10. ASSUME NEW op \in Operations, DispatchStatement(t, op)
       PROVE  Fits(t) /\ LockInv' /\ StaysSpent(t) /\ UNCHANGED <<serial, stage>>
    BY <1>10, StatementFits, LockStays DEF DispatchStatement, Fits
<1>11. ASSUME NEW op \in Operations, DispatchEnd(t, op)
       PROVE  Fits(t) /\ LockInv' /\ StaysSpent(t) /\ UNCHANGED <<serial, stage>>
    BY <1>11, EndFits, LockStays DEF DispatchEnd, Fits
<1>12. ASSUME NEW l \in Lines, BeginDone(l, t)
       PROVE  Fits(t) /\ LockInv' /\ StaysSpent(t) /\ UNCHANGED <<serial, stage>>
    BY <1>12, BeginDoneFits, LockStays DEF BeginDone, Finish, Fits
<1>13. ASSUME NEW l \in Lines, BeginFailed(l, t)
       PROVE  Fits(t) /\ LockInv' /\ StaysSpent(t) /\ UNCHANGED <<serial, stage>>
    BY <1>13, BeginFailedFits, LockStays DEF BeginFailed, Finish, Fits
<1>14. ASSUME NEW l \in Lines, NEW ok \in BOOLEAN, ExecuteDone(l, t, ok)
       PROVE  Fits(t) /\ LockInv' /\ StaysSpent(t) /\ UNCHANGED <<serial, stage>>
    BY <1>14, ExecuteDoneFits, LockStays DEF ExecuteDone, Finish, Fits
<1>15. ASSUME NEW l \in Lines, NEW ok \in BOOLEAN, NEW op \in {"commit", "rollback"},
              EndDone(l, t, op, ok)
       PROVE  Fits(t) /\ LockInv' /\ StaysSpent(t) /\ UNCHANGED <<serial, stage>>
    BY <1>15, EndDoneFits, LockStays DEF EndDone, Finish, Fits
<1>16. ASSUME NEW l \in Lines, NEW op \in {"close", "sweep"}, DropDone(l, t, op)
       PROVE  Fits(t) /\ LockInv' /\ StaysSpent(t) /\ UNCHANGED <<serial, stage>>
    BY <1>16, DropDoneFits, LockStays DEF DropDone, Finish, Fits
<1> QED
    BY <1>1, <1>2, <1>3, <1>4, <1>5, <1>6, <1>7, <1>8, <1>9, <1>10, <1>11, <1>12, <1>13,
       <1>14, <1>15, <1>16 DEF StepOf

LEMMA CommonInit == Init => CommonInv
<1> SUFFICES ASSUME Init PROVE CommonInv
    OBVIOUS
<1>1. /\ \A t \in Threads : Asked(t) = {} /\ Sent(t) = {}
      /\ In(chain) = {} /\ In(inbox) = {} /\ \A l \in Lines : In(db[l]) = {}
    BY LinesAre DEF Init, Asked, Sent, In
<1>2. \A t \in Threads :
         /\ rust[t].op = "acquire" /\ rust[t].mode = "ready"
         /\ ~entry[t].live /\ ~entry[t].lock /\ ~entry[t].inTx
    BY DEF Init
<1>3. IsFiniteSet(clients) /\ Cardinality(clients) = 0
    BY FS_EmptySet DEF Init
<1>4. TypeOK
    <2>1. Cardinality(clients) <= Clients
        BY <1>3, BridgeAssumption
    <2> QED
        BY <2>1 DEF Init, TypeOK, Operations
<1>5. ListInv
    BY <1>1, <1>3 DEF Init, ListInv, Ordered
<1>6. LockInv
    BY <1>1, <1>2 DEF Init, LockInv
<1>7. ASSUME NEW t \in Threads PROVE ThreadInv(t)
    <2>1. CallInv(t) /\ ReaderInv(t) /\ OrderInv(t)
        BY <1>1, <1>2 DEF Init, CallInv, ReaderInv, OrderInv
    <2>2. ConnectionInv(t) /\ ClientInv(t) /\ KeptInv(t)
        BY <1>1, <1>2 DEF Init, ConnectionInv, ClientInv, KeptInv, Unopened, InLine
    <2> QED
        BY <2>1, <2>2 DEF ThreadInv
<1> QED
    BY <1>4, <1>5, <1>6, <1>7 DEF CommonInv

LEMMA CommonStep == CommonInv /\ [Next]_vars => CommonInv'
<1> SUFFICES ASSUME CommonInv, [Next]_vars PROVE CommonInv'
    OBVIOUS
<1>1. ASSUME NEW t \in Threads, StepOf(t) PROVE CommonInv'
    <2>1. Fits(t) /\ LockInv' /\ UNCHANGED <<serial, stage>>
        BY <1>1, StepFits
    <2>2. \A u \in Threads : ThreadInv(u)'
        BY <2>1, ThreadsStay DEF CommonInv, Fits
    <2> QED
        BY <2>1, <2>2 DEF CommonInv, Fits
<1>2. CASE CloseBegin
    BY <1>2, StageFits DEF CloseBegin, Drained, TsfnOpen, rustVars, lockVars, dbVars
<1>3. CASE CloseNext
    <2>1. CASE CloseJoined
        BY <2>1, StageFits DEF CloseJoined, Drained, TsfnOpen, rustVars, lockVars, dbVars
    <2>2. CASE CloseFinish
        BY <2>2, StageFits DEF CloseFinish, Drained, TsfnOpen, rustVars, lockVars, dbVars
    <2> QED
        BY <1>3, <2>1, <2>2, DrainFits, LeftFits DEF CloseNext
<1>4. CASE UNCHANGED vars
    <2>1. UNCHANGED <<serial, astray, rust, pending, inbox, chain, released, entry, db, tx, txConn,
                      clients, stage, settling>>
        BY <1>4 DEF vars
    <2>2. \A u \in Threads : Asked(u)' = Asked(u) /\ Sent(u)' = Sent(u)
        BY <2>1, NothingAsked, NothingSent
    <2>3. TypeOK' /\ ListInv'
        BY <2>1, ListsStay DEF CommonInv, TypeOK
    <2>4. LockInv'
        BY <2>1, <2>2 DEF CommonInv, LockInv, Spent, In, Drained
    <2>5. ASSUME NEW t \in Threads PROVE Same(t)
        BY <2>1, <2>2 DEF Same, InLine, In
    <2>6. ASSUME NEW t \in Threads PROVE ThreadInv(t)'
        BY <2>1, <2>5, SameStays DEF CommonInv
    <2> QED
        BY <2>3, <2>4, <2>6 DEF CommonInv
<1> QED
    BY <1>1, <1>2, <1>3, <1>4, StepsAre

\* The common part of the inductive invariant: what StorageManager, the adapters
\* and the bridge keep true together, whatever times out.
THEOREM Common == Spec => []CommonInv
BY CommonInit, CommonStep, PTL DEF Spec

\* The type invariant, and with it that no more clients are out than the
\* pool has (BEGIN of a pool adapter waits for a client).
THEOREM TypeCorrect == Spec => []TypeOK
<1>1. CommonInv => TypeOK
    BY DEF CommonInv
<1> QED
    BY <1>1, Common, PTL

\* Once the bridge is told of the shutdown no thread waits for an answer: none
\* was left in the map, and none can be queued (NodeConnectionFactory::shutdown).
THEOREM NobodyForgotten == Spec => []NobodyIsForgotten
<1>1. CommonInv => NobodyIsForgotten
    BY DEF CommonInv, ThreadInv, CallInv, NobodyIsForgotten, Drained
<1> QED
    BY <1>1, Common, PTL

-----------------------------------------------------------------------------
(* The transactions.                                                       *)

\* What is added to a line, and what is taken from it.
LEMMA AppendIsolated ==
    ASSUME NEW A, NEW s \in Seq(Item), NEW x, Isolated(s, x, A),
           \A y \in In(s) : y[2] = "begin" => y[1] \in A,
           NEW t \in Threads, NEW op \in Operations \cup {"sweep"},
           op = "execute" /\ t \notin Readers => s = <<>> /\ x \in A \cup {t},
           op = "begin" \/ (op = "execute" /\ t \in Readers) =>
               x \in A \cup {None, t} \/ \E y \in In(s) : y[2] \in Undoes
    PROVE  Isolated(Append(s, <<t, op>>), x, A)
<1> DEFINE e == Append(s, <<t, op>>)
<1>1. /\ DOMAIN e = 1 .. (Len(s) + 1) /\ Len(s) \in Nat /\ DOMAIN s = 1 .. Len(s)
      /\ \A i \in 1 .. Len(s) : e[i] = s[i]
      /\ e[Len(s) + 1] = <<t, op>> /\ Len(e) = Len(s) + 1
    OBVIOUS
<1> HIDE DEF e
<1>2. ASSUME NEW i \in 1 .. Len(s)
      PROVE  /\ s[i][2] = "begin" => s[i][1] \in A
             /\ s[i][2] = "execute" /\ s[i][1] \notin Readers => i = 1 /\ x \in A \cup {s[i][1]}
             /\ s[i][2] = "begin" \/ (s[i][2] = "execute" /\ s[i][1] \in Readers) =>
                   x \in A \cup {None, s[i][1]} \/ \E j \in 1 .. (i - 1) : s[j][2] \in Undoes
    BY <1>1 DEF Isolated, In
<1>3. ASSUME NEW i \in 1 .. Len(s)
      PROVE  /\ e[i][2] = "begin" => e[i][1] \in A
             /\ e[i][2] = "execute" /\ e[i][1] \notin Readers => i = 1 /\ x \in A \cup {e[i][1]}
             /\ e[i][2] = "begin" \/ (e[i][2] = "execute" /\ e[i][1] \in Readers) =>
                   x \in A \cup {None, e[i][1]} \/ \E j \in 1 .. (i - 1) : e[j][2] \in Undoes
    <2>1. \A j \in 1 .. (i - 1) : j \in 1 .. Len(s)
        BY <1>1
    <2> QED
        BY <1>1, <1>2, <2>1
<1>4. op = "begin" \/ (op = "execute" /\ t \in Readers) =>
         x \in A \cup {None, t} \/ \E j \in 1 .. Len(s) : e[j][2] \in Undoes
    BY <1>1 DEF In
<1>5. op = "execute" /\ t \notin Readers => Len(s) + 1 = 1 /\ x \in A \cup {t}
    BY <1>1
<1>6. ASSUME NEW i \in DOMAIN e, i = Len(s) + 1
      PROVE  e[i] = <<t, op>> /\ i = Len(e) /\ 1 .. (i - 1) = 1 .. Len(s)
    BY <1>1, <1>6
<1>7. Isolated(e, x, A)
    BY <1>1, <1>3, <1>4, <1>5, <1>6 DEF Isolated
<1> QED
    BY <1>7 DEF e

LEMMA TailIsolated ==
    ASSUME NEW A, NEW s \in Seq(Item), NEW x, NEW y, Isolated(s, x, A), s # <<>>,
           Head(s)[2] \in Undoes => y = None,
           y \in {x, None} \/ (Head(s)[2] = "begin" /\ y = Head(s)[1])
    PROVE  Isolated(Tail(s), y, A)
<1> DEFINE e == Tail(s)
<1>1. /\ DOMAIN e = 1 .. (Len(s) - 1) /\ Len(s) \in Nat \ {0} /\ DOMAIN s = 1 .. Len(s)
      /\ \A i \in 1 .. (Len(s) - 1) : e[i] = s[i + 1]
      /\ Head(s) = s[1] /\ Len(e) = Len(s) - 1
    OBVIOUS
<1> HIDE DEF e
<1>2. Len(s) \in Nat
    OBVIOUS
<1>3. PICK n \in Nat : n = Len(s)
    BY <1>2
<1>4. ASSUME NEW i \in 1 .. (n - 1)
      PROVE  /\ e[i][2] = "begin" => i = Len(e) \/ e[i][1] \in A
             /\ e[i][2] = "execute" /\ e[i][1] \notin Readers => i = 1 /\ y \in A \cup {e[i][1]}
             /\ e[i][2] = "begin" \/ (e[i][2] = "execute" /\ e[i][1] \in Readers) =>
                   y \in A \cup {None, e[i][1]} \/ \E j \in 1 .. (i - 1) : e[j][2] \in Undoes
    <2>1. i + 1 \in 1 .. n /\ i + 1 # 1 /\ (i + 1 = n => i = n - 1)
        OBVIOUS
    <2>2. PICK k \in 1 .. n : k = i + 1
        BY <2>1
    <2>3. e[i] = s[k]
        BY <1>3, <1>1, <2>2
    <2>4. k \in DOMAIN s /\ k = i + 1 /\ k # 1 /\ e[i] = s[k] /\ (k = Len(s) => i = Len(e))
        BY <1>3, <1>1, <2>1, <2>2, <2>3
    <2>5. 1 \in DOMAIN s /\ 1 # Len(s)
        <3>1. 1 \in 1 .. n /\ 1 # n
            OBVIOUS
        <3> QED
            BY <1>3, <1>1, <3>1
    <2>6. e[i][2] = "begin" => i = Len(e) \/ e[i][1] \in A
        BY <2>4 DEF Isolated
    <2>7. e[i][2] = "execute" => e[i][1] \in Readers
        BY <2>4 DEF Isolated
    <2>8. y \in {x, None} \cup A
        <3>1. Head(s)[2] = "begin" => Head(s)[1] \in A
            BY <1>1, <2>5 DEF Isolated
        <3> QED
            BY <3>1
    <2>9. ASSUME e[i][2] \in {"begin", "execute"}, y \notin A \cup {None, e[i][1]}
          PROVE  \E j \in 1 .. (i - 1) : e[j][2] \in Undoes
        <3>1. x \notin A \cup {None, s[k][1]} /\ Head(s)[2] \notin Undoes
            BY <2>4, <2>8, <2>9
        <3>2. PICK j \in 1 .. (k - 1) : s[j][2] \in Undoes
            BY <2>4, <2>7, <2>9, <3>1 DEF Isolated
        <3>3. j # 1
            BY <1>1, <3>1, <3>2
        <3>4. j \in 1 .. i
            BY <2>4
        <3>5. j - 1 \in 1 .. (i - 1) /\ j - 1 \in 1 .. (n - 1) /\ (j - 1) + 1 = j
            BY <3>3, <3>4
        <3>6. e[j - 1] = s[j]
            BY <1>3, <1>1, <3>5
        <3> QED
            BY <3>2, <3>6, <3>5
    <2> QED
        BY <2>6, <2>7, <2>9
<1>5. Isolated(e, y, A)
    <2> SUFFICES ASSUME NEW i \in DOMAIN e
                 PROVE  /\ e[i][2] = "begin" => i = Len(e) \/ e[i][1] \in A
                        /\ e[i][2] = "execute" /\ e[i][1] \notin Readers => i = 1 /\ y \in A \cup {e[i][1]}
                        /\ e[i][2] = "begin" \/ (e[i][2] = "execute" /\ e[i][1] \in Readers) =>
                              y \in A \cup {None, e[i][1]} \/ \E j \in 1 .. (i - 1) : e[j][2] \in Undoes
        BY DEF Isolated
    <2>1. i \in 1 .. (n - 1)
        BY <1>3, <1>1
    <2> QED
        BY <1>4, <2>1
<1> QED
    BY <1>5 DEF e

LEMMA LinesIsolated ==
    ASSUME IsolationInv, NEW A, astray \subseteq A
    PROVE  \A l \in Lines : Isolated(db[l], tx[l], A)
BY DEF IsolationInv, Isolated

\* A connection in use has its line for itself, but for what is lost.
LEMMA Owner ==
    ASSUME CommonInv, IsolationInv, NEW t \in Threads, entry[t].live, ~Spent(t),
           NEW u \in Threads, u # t, Line(u) = Line(t)
    PROVE  /\ serial /\ ("begin" \in Sent(u) => u \in astray)
           /\ ~(entry[u].live /\ entry[u].inTx)
           /\ tx[Line(t)] = u => Undone(Line(t)) \/ u \in astray
<1>1. serial
    BY DEF Line
<1>2. ~Alone(u)
    BY <1>1 DEF Alone
<1>3. entry[u].live => Spent(u)
    BY <1>1 DEF CommonInv, LockInv
<1>4. TransactionInv(u)
    BY DEF IsolationInv
<1>5. Spent(u) => ~Undoing(u) /\ ~entry[u].inTx /\ Sent(u) = {}
    BY DEF Spent, Undoing
<1> QED
    BY <1>1, <1>2, <1>3, <1>4, <1>5 DEF TransactionInv, Kept

\* Once close has begun a connection in use has the shared handle for itself.
LEMMA UserIsAlone ==
    ASSUME CommonInv, NEW t \in Threads, serial, entry[t].live, ~Spent(t)
    PROVE  \A u \in Threads : u # t /\ entry[u].live => Spent(u)
BY DEF CommonInv, LockInv

LEMMA UndoerIsNotSpent ==
    ASSUME NEW t \in Threads, Undoing(t) \/ "commit" \in Sent(t)
    PROVE  ~Spent(t)
BY DEF Undoing, Spent

LEMMA AloneStays ==
    ASSUME NEW t \in Threads, Others(t), StaysSpent(t), UNCHANGED <<serial, stage>>,
           NEW u \in Threads, Alone(u)
    PROVE  Alone(u)'
<1>1. ASSUME serial, NEW v \in Threads, v # u, entry'[v].live PROVE Spent(v)'
    <2>1. CASE v = t
        BY <1>1, <2>1 DEF Alone, StaysSpent
    <2>2. CASE v # t
        BY <1>1, <2>2, SpentStays DEF Alone, Others, Same
    <2> QED
        BY <2>1, <2>2
<1> QED
    BY <1>1 DEF Alone, Closing

\* What a step of one thread leaves alone of another.
LEMMA OtherStays ==
    ASSUME NEW t \in Threads, Others(t), StaysSpent(t), UNCHANGED <<serial, stage>>,
           astray \subseteq astray',
           NEW u \in Threads, u # t, TransactionInv(u),
           \/ db'[Line(u)] = db[Line(u)] /\ tx'[Line(u)] = tx[Line(u)]
           \/ /\ ~(entry[u].live /\ entry[u].inTx)
              /\ tx'[Line(u)] = u => tx[Line(u)] = u /\ (Undone(Line(u)) => Undone(Line(u))')
    PROVE  TransactionInv(u)'
<1>1. PICK l : l = Line(u) /\ l = Line(u)'
    BY DEF Line
<1>2. Alone(u) => Alone(u)'
    BY AloneStays
<1>3. /\ rust'[u] = rust[u] /\ entry'[u] = entry[u] /\ Sent(u)' = Sent(u) /\ Asked(u)' = Asked(u)
      /\ u \in astray => u \in astray'
    BY DEF Others, Same
<1>4. (Undoing(u)' <=> Undoing(u)) /\ (Kept(u) => Kept(u)')
    BY <1>2, <1>3 DEF Undoing, Kept
<1>5. /\ "begin" \in Sent(u)' => entry'[u].live \/ u \in astray' \/ Alone(u)'
      /\ serial' /\ entry'[u].live /\ "commit" \in Asked(u)' \cup Sent(u)' =>
            Undoing(u)' \/ "rollback" \in Sent(u)' \/ Closing'
    BY <1>2, <1>3, <1>4 DEF TransactionInv, Closing
<1>6. CASE db'[l] = db[l] /\ tx'[l] = tx[l]
    BY <1>1, <1>3, <1>4, <1>5, <1>6 DEF TransactionInv, Undone
<1>7. CASE /\ ~(entry[u].live /\ entry[u].inTx)
           /\ tx'[l] = u => tx[l] = u /\ (Undone(l) => \E x \in In(db'[l]) : x[2] \in Undoes)
    BY <1>1, <1>3, <1>4, <1>5, <1>7 DEF TransactionInv, Undone
<1> QED
    BY <1>1, <1>6, <1>7 DEF Undone

\* A step that sends nothing and finishes nothing.
LEMMA QuietIsolated ==
    ASSUME CommonInv, IsolationInv, NEW t \in Threads, Others(t), StaysSpent(t),
           UNCHANGED <<serial, stage, db, tx>>, astray \subseteq astray',
           TransactionInv(t)'
    PROVE  IsolationInv'
<1>1. \A l \in Lines : Isolated(db'[l], tx'[l], astray')
    BY LinesIsolated
<1>2. ASSUME NEW u \in Threads, u # t PROVE TransactionInv(u)'
    BY <1>2, OtherStays DEF IsolationInv
<1> QED
    BY <1>1, <1>2 DEF IsolationInv, Lines

\* A step of the thread, or a call that the event loop refuses.
LEMMA RustIsolated ==
    ASSUME CommonInv, IsolationInv, NEW t \in Threads, Others(t), StaysSpent(t),
           UNCHANGED <<serial, stage, entry, db, tx, astray>>,
           entry[t].live => (Undoing(t) => Undoing(t)' \/ Closing),
           entry[t].live /\ "commit" \in Asked(t)' => Undoing(t)' \/ "commit" \in Asked(t)
    PROVE  IsolationInv'
<1>1. Alone(t) => Alone(t)'
    BY AloneStays
<1>2. PICK l : l = Line(t) /\ l = Line(t)'
    BY DEF Line
<1>3. Sent(t)' = Sent(t) /\ Closing' = Closing /\ TransactionInv(t)
    BY NothingSent DEF Closing, IsolationInv
<1>4. serial /\ entry[t].live /\ Undoing(t) /\ Closing => Alone(t)
    BY UndoerIsNotSpent, UserIsAlone DEF Alone
<1>5. Kept(t) => Kept(t)'
    BY <1>1, <1>3, <1>4 DEF Kept
<1>6. serial /\ entry[t].live /\ "commit" \in Asked(t)' \cup Sent(t) =>
         Undoing(t)' \/ "rollback" \in Sent(t) \/ Closing
    BY <1>3 DEF TransactionInv
<1>7. TransactionInv(t)'
    BY <1>1, <1>2, <1>3, <1>5, <1>6 DEF TransactionInv, Undone
<1> QED
    BY <1>7, QuietIsolated

\* A connection is given to the thread.
LEMMA OpenIsolated ==
    ASSUME CommonInv, IsolationInv, NEW t \in Threads, Others(t), StaysSpent(t),
           UNCHANGED <<serial, stage, db, tx, astray>>, Unopened(t),
           entry'[t].inTx = entry[t].inTx, Asked(t)' \subseteq Asked(t)
    PROVE  IsolationInv'
<1>1. Alone(t) => Alone(t)'
    BY AloneStays
<1>2. PICK l : l = Line(t) /\ l = Line(t)'
    BY DEF Line
<1>3. Sent(t)' = Sent(t) /\ TransactionInv(t)
    BY NothingSent DEF IsolationInv
<1>4. /\ ~entry[t].live /\ ~entry[t].inTx /\ Sent(t) = {} /\ Asked(t) \subseteq {"acquire"}
      /\ t \notin astray
    BY DEF CommonInv, ThreadInv, ConnectionInv
<1>5. Kept(t) => Kept(t)'
    BY <1>1, <1>4 DEF Kept
<1>6. "commit" \notin Asked(t)' \cup Sent(t)'
    BY <1>3, <1>4
<1>7. TransactionInv(t)'
    BY <1>1, <1>2, <1>3, <1>4, <1>5, <1>6 DEF TransactionInv, Undone
<1> QED
    BY <1>7, QuietIsolated

\* A statement of a connection in use is sent.
LEMMA SendIsolated ==
    ASSUME CommonInv, IsolationInv, NEW t \in Threads, Others(t), StaysSpent(t),
           NEW op \in Operations \cup {"sweep"}, Send(t, op),
           UNCHANGED <<serial, stage, tx, astray>>,
           entry[t].live, ~Spent(t), "begin" \notin Sent(t),
           op = "execute" /\ t \notin Readers =>
               db[Line(t)] = <<>> /\ entry[t].inTx
    PROVE  /\ \A l \in Lines : Isolated(db'[l], tx'[l], astray')
           /\ \A u \in Threads : u # t => TransactionInv(u)'
           /\ In(db'[Line(t)]) = In(db[Line(t)]) \cup {<<t, op>>}
           /\ Sent(t)' = Sent(t) \cup {op}
<1>0. PICK l \in Lines : l = Line(t)
    BY LinesAre
<1>1. db \in [Lines -> Seq(Item)] /\ ListInv
    BY DEF CommonInv, TypeOK, Item
<1>2. db'[l] = Append(db[l], <<t, op>>) /\ \A k \in Lines : k # l => db'[k] = db[k]
    BY <1>0, <1>1 DEF Send
<1>3. In(db'[l]) = In(db[l]) \cup {<<t, op>>} /\ In(db[l]) \subseteq Item
    <2>1. ASSUME NEW s \in Seq(Item), NEW x \in Item
          PROVE  In(Append(s, x)) = In(s) \cup {x} /\ In(s) \subseteq Item
        BY Elements
    <2>2. <<t, op>> \in Item /\ db[l] \in Seq(Item)
        BY <1>1 DEF Item
    <2> QED
        BY <1>2, <2>1, <2>2
<1>4. ASSUME NEW u \in Threads, u # t, Line(u) = l
      PROVE  /\ serial /\ ("begin" \in Sent(u) => u \in astray)
             /\ ~(entry[u].live /\ entry[u].inTx)
             /\ tx[l] = u => Undone(l) \/ u \in astray
    BY <1>0, <1>4, Owner
<1>5. \A y \in In(db[l]) : y[2] = "begin" => y[1] \in astray
    <2> SUFFICES ASSUME NEW y \in In(db[l]), y[2] = "begin" PROVE y[1] \in astray
        OBVIOUS
    <2>1. y \in Item /\ Line(y[1]) = l
        BY <1>1, <1>3 DEF ListInv
    <2>2. PICK u \in Threads : u = y[1] /\ y = <<u, "begin">> /\ Line(u) = l
        BY <2>1 DEF Item
    <2>3. "begin" \in Sent(u)
        BY <2>2 DEF Sent, Operations
    <2>4. u # t
        BY <2>3
    <2>5. u \in astray
        BY <1>4, <2>2, <2>3, <2>4
    <2> QED
        BY <2>2, <2>5
<1>6. tx[l] \in astray \cup {None, t} \/ Undone(l)
    <2>1. tx[l] \in Threads \cup {None} /\ (tx[l] # None => Line(tx[l]) = l)
        BY <1>1 DEF CommonInv, TypeOK, ListInv
    <2> QED
        BY <1>4, <2>1
<1>8. Isolated(db'[l], tx[l], astray)
    <2>1. op = "execute" /\ t \notin Readers => db[l] = <<>> /\ tx[l] \in astray \cup {t}
        BY <1>0 DEF IsolationInv, TransactionInv
    <2>2. tx[l] \in astray \cup {None, t} \/ \E y \in In(db[l]) : y[2] \in Undoes
        BY <1>6 DEF Undone
    <2>3. Isolated(db[l], tx[l], astray) /\ db[l] \in Seq(Item)
        BY <1>1 DEF IsolationInv
    <2>4. Isolated(Append(db[l], <<t, op>>), tx[l], astray)
        BY <1>5, <2>1, <2>2, <2>3, AppendIsolated
    <2> QED
        BY <1>2, <2>4
<1>9. \A k \in Lines : Isolated(db'[k], tx'[k], astray')
    BY <1>2, <1>8 DEF IsolationInv
<1>10. ASSUME NEW u \in Threads, u # t PROVE TransactionInv(u)'
    <2>0. PICK k \in Lines : k = Line(u) /\ k = Line(u)'
        BY LinesAre DEF Line
    <2>1. TransactionInv(u)
        BY DEF IsolationInv
    <2>2. CASE k # l
        BY <1>2, <1>10, <2>0, <2>1, <2>2, OtherStays
    <2>3. CASE k = l
        <3>1. Undone(k) => Undone(k)'
            BY <1>3, <2>3 DEF Undone
        <3>2. Undone(Line(u)) => Undone(Line(u))'
            BY <2>0, <3>1 DEF Undone
        <3>3. tx'[Line(u)] = u => tx[Line(u)] = u
            OBVIOUS
        <3> QED
            BY <1>4, <1>10, <2>0, <2>1, <2>3, <3>2, <3>3, OtherStays
    <2> QED
        BY <2>2, <2>3
<1>11. Sent(t)' = Sent(t) \cup {op}
    BY <1>0, <1>3 DEF Sent, Line
<1> QED
    BY <1>0, <1>3, <1>9, <1>10, <1>11

\* A pool connection in a transaction that has no client to end it with: its end
\* is on the way already.
LEMMA ClientEnds ==
    ASSUME NEW t \in Threads, ThreadInv(t), ~HasTx(t), entry[t].live, entry[t].inTx
    PROVE  Undone(Line(t)) \/ (~serial /\ "commit" \in Sent(t))
<1>1. Sent(t) \cap Ends # {} /\ ~serial
    BY DEF HasTx, ThreadInv, ClientInv
<1>2. PICK op \in Ends : op \in Sent(t) /\ <<t, op>> \in In(db[Line(t)])
    BY <1>1 DEF Sent
<1>3. <<t, op>>[2] = op /\ (op = "commit" \/ op \in Undoes)
    BY DEF Ends, Undoes
<1> QED
    BY <1>1, <1>2, <1>3 DEF Undone

LEMMA StatementIsolated ==
    ASSUME CommonInv, IsolationInv, NEW t \in Threads, Others(t), StaysSpent(t),
           NEW op \in Operations, DispatchStatement(t, op)
    PROVE  IsolationInv'
<1>1. /\ UNCHANGED <<serial, stage, tx, astray, rust>> /\ Send(t, op)
      /\ op \in {"begin", "execute"}
      /\ Take(t, op) /\ entry[t].live /\ entry' = [entry EXCEPT ![t].busy = TRUE]
    BY DEF DispatchStatement, Busy, rustVars
<1>2. op \in Asked(t) /\ Asked(t)' = Asked(t) \ {op}
    BY <1>1, TakeDoes DEF CommonInv
<1>3. ThreadInv(t) /\ TransactionInv(t)
    BY DEF CommonInv, IsolationInv
<1>4. ~Spent(t)
    BY <1>1, <1>2 DEF Spent
<1>5. "begin" \notin Sent(t)
    BY <1>1, <1>2, <1>3, RankType DEF ThreadInv, OrderInv, Operations
<1>6. op = "execute" /\ t \notin Readers => db[Line(t)] = <<>> /\ entry[t].inTx
    <2> SUFFICES ASSUME op = "execute", t \notin Readers PROVE db[Line(t)] = <<>> /\ entry[t].inTx
        OBVIOUS
    <2>1. entry[t].inTx
        BY <1>1, <1>2, <1>3 DEF ThreadInv, ConnectionInv
    <2>2. PICK l \in Lines : l = Line(t)
        BY LinesAre
    <2>3. db[l] \in Seq(Item)
        BY DEF CommonInv, TypeOK, Item
    <2>4. ASSUME NEW x \in In(db[l]) PROVE FALSE
        <3>1. x \in Item /\ x[1] = t /\ x[2] \in {"execute", "commit", "rollback"}
            BY <1>1, <1>3, <2>1, <2>2, <2>3 DEF TransactionInv, In
        <3>2. x[2] \in Sent(t)
            BY <2>2, <3>1 DEF Sent, Item, Operations
        <3>3. Rank(x[2]) < Rank("execute")
            BY <1>2, <1>3, <3>1, <3>2 DEF ThreadInv, OrderInv
        <3> QED
            BY <3>1, <3>3 DEF Rank
    <2>5. db[l] = <<>>
        <3>1. ASSUME NEW s \in Seq(Item), s # <<>> PROVE s[1] \in In(s)
            BY <3>1 DEF In
        <3> QED
            BY <2>3, <2>4, <3>1
    <2> QED
        BY <2>1, <2>2, <2>5
<1>7. /\ \A l \in Lines : Isolated(db'[l], tx'[l], astray')
      /\ \A u \in Threads : u # t => TransactionInv(u)'
      /\ In(db'[Line(t)]) = In(db[Line(t)]) \cup {<<t, op>>}
      /\ Sent(t)' = Sent(t) \cup {op}
    BY <1>1, <1>4, <1>5, <1>6, SendIsolated
<1>8. entry'[t].live = entry[t].live /\ entry'[t].inTx = entry[t].inTx
    BY <1>1 DEF CommonInv, TypeOK
<1>9. op = "begin" => ~entry[t].inTx
    BY <1>2, <1>3 DEF ThreadInv, ConnectionInv
<1>10. TransactionInv(t)'
    <2>1. PICK l : l = Line(t) /\ l = Line(t)'
        BY <1>1 DEF Line
    <2>2. Alone(t) => Alone(t)'
        BY <1>1, AloneStays
    <2>3. In(db'[l]) = In(db[l]) \cup {<<t, op>>} /\ tx' = tx
        BY <1>1, <1>7, <2>1
    <2>4. (Undoing(t)' <=> Undoing(t)) /\ Closing' = Closing
        BY <1>1, <1>2 DEF Undoing, Closing
    <2>5. Kept(t) => Kept(t)'
        BY <1>1, <1>7, <1>8, <2>2, <2>4 DEF Kept
    <2>6. serial /\ entry'[t].live /\ "commit" \in Asked(t)' \cup Sent(t)' =>
             Undoing(t)' \/ "rollback" \in Sent(t)' \/ Closing'
        BY <1>1, <1>2, <1>3, <1>7, <1>8, <2>4 DEF TransactionInv
    <2>7. entry'[t].live /\ entry'[t].inTx =>
             /\ tx'[l] \in astray' \cup {t}
             /\ \A x \in In(db'[l]) : x[1] = t /\ x[2] \in {"execute", "commit", "rollback"}
        BY <1>1, <1>3, <1>8, <1>9, <2>1, <2>3 DEF TransactionInv
    <2> QED
        BY <1>1, <1>3, <1>8, <2>1, <2>3, <2>5, <2>6, <2>7 DEF TransactionInv, Undone
<1> QED
    BY <1>7, <1>10 DEF IsolationInv, Lines

LEMMA EndIsolated ==
    ASSUME CommonInv, IsolationInv, NEW t \in Threads, Others(t), StaysSpent(t),
           NEW op \in Operations, DispatchEnd(t, op)
    PROVE  IsolationInv'
<1>1. /\ UNCHANGED <<serial, stage, tx, astray>> /\ op \in {"commit", "rollback"}
      /\ Take(t, op) /\ entry[t].live
    BY DEF DispatchEnd
<1>2. op \in Asked(t) /\ Asked(t)' = Asked(t) \ {op}
    BY <1>1, TakeDoes DEF CommonInv
<1>3. ThreadInv(t) /\ TransactionInv(t)
    BY DEF CommonInv, IsolationInv
<1>4. ~Spent(t) /\ t \notin Readers
    BY <1>1, <1>2, <1>3 DEF Spent, ThreadInv, ReaderInv
<1>5. "begin" \notin Sent(t)
    BY <1>1, <1>2, <1>3 DEF ThreadInv, OrderInv
<1>10. PICK l : l = Line(t) /\ l = Line(t)'
    BY <1>1 DEF Line
<1>11. (Alone(t) => Alone(t)') /\ Closing' = Closing
    BY <1>1, AloneStays DEF Closing
<1>6. CASE HasTx(t)
    <2>1. Send(t, op) /\ entry' = [entry EXCEPT ![t].busy = TRUE] /\ rust' = rust
        BY <1>6 DEF DispatchEnd, Busy, rustVars
    <2>2. /\ \A k \in Lines : Isolated(db'[k], tx'[k], astray')
          /\ \A u \in Threads : u # t => TransactionInv(u)'
          /\ In(db'[l]) = In(db[l]) \cup {<<t, op>>}
          /\ Sent(t)' = Sent(t) \cup {op}
        <3>1. op # "execute"
            BY <1>1
        <3> QED
            BY <1>1, <1>4, <1>5, <1>10, <2>1, <3>1, SendIsolated
    <2>3. entry'[t].live = entry[t].live /\ entry'[t].inTx = entry[t].inTx
        BY <2>1 DEF CommonInv, TypeOK
    <2>4. <<t, op>>[1] = t /\ <<t, op>>[2] = op /\ <<t, op>> \in In(db'[l])
        BY <2>2
    <2>5. entry'[t].live /\ entry'[t].inTx =>
             /\ tx'[l] \in astray' \cup {t}
             /\ \A x \in In(db'[l]) : x[1] = t /\ x[2] \in {"execute", "commit", "rollback"}
        BY <1>1, <1>3, <1>10, <2>2, <2>3, <2>4 DEF TransactionInv
    <2>6. op = "commit" => (Undoing(t) => Undoing(t)')
        BY <1>2, <2>1 DEF Undoing
    <2>7. tx'[l] = t => Undone(l)' \/ Kept(t)'
        <3>1. CASE op = "rollback"
            BY <2>4, <3>1 DEF Undone, Undoes
        <3>2. CASE op = "commit"
            <4>1. Kept(t) => Kept(t)'
                BY <1>1, <1>11, <2>2, <2>3, <2>6, <3>2 DEF Kept
            <4>2. Undone(l) => Undone(l)'
                BY <2>2 DEF Undone
            <4> QED
                BY <1>1, <1>3, <1>10, <4>1, <4>2 DEF TransactionInv
        <3> QED
            BY <1>1, <3>1, <3>2
    <2>8. serial /\ entry'[t].live /\ "commit" \in Asked(t)' \cup Sent(t)' =>
             Undoing(t)' \/ "rollback" \in Sent(t)' \/ Closing'
        BY <1>1, <1>2, <1>3, <1>11, <2>2, <2>3, <2>6 DEF TransactionInv
    <2>9. TransactionInv(t)'
        BY <1>1, <1>5, <1>10, <2>2, <2>3, <2>5, <2>7, <2>8 DEF TransactionInv, Undone
    <2> QED
        BY <2>2, <2>9 DEF IsolationInv, Lines
<1>7. CASE ~HasTx(t)
    <2>1. UNCHANGED db /\ entry' = [entry EXCEPT ![t].inTx = FALSE, ![t].busy = FALSE]
        BY <1>7 DEF DispatchEnd
    <2>2. ~entry'[t].inTx /\ entry'[t].live = entry[t].live
        BY <2>1 DEF CommonInv, TypeOK
    <2>3. entry[t].inTx => Undone(l) \/ (~serial /\ "commit" \in Sent(t))
        BY <1>1, <1>3, <1>7, <1>10, ClientEnds
    <2>4. ~serial /\ Sent(t)' = Sent(t)
        BY <1>1, <1>7, <2>1, NothingSent DEF HasTx
    <2>5. Kept(t) => Undone(l) \/ Kept(t)'
        BY <1>1, <1>11, <2>2, <2>3, <2>4 DEF Kept
    <2>6. TransactionInv(t)'
        BY <1>1, <1>3, <1>5, <1>10, <2>1, <2>2, <2>4, <2>5 DEF TransactionInv, Undone
    <2> QED
        BY <1>1, <2>1, <2>6, QuietIsolated
<1> QED
    BY <1>6, <1>7

\* A connection leaves the map with nothing rolled back: what is open or under way
\* of it is lost, and noted.
LEMMA LeaveIsolated ==
    ASSUME CommonInv, IsolationInv, NEW t \in Threads, Others(t), StaysSpent(t),
           UNCHANGED <<serial, stage, tx, db>>, LeaveMap(t), entry[t].live,
           ~(entry[t].inTx /\ HasTx(t))
    PROVE  IsolationInv'
<1>1. ~entry'[t].live
    BY DEF LeaveMap, CommonInv, TypeOK
<1>2. PICK l : l = Line(t) /\ l = Line(t)'
    BY DEF Line
<1>3. astray \subseteq astray' /\ (Forgets(t) => t \in astray')
    BY DEF LeaveMap
<1>4. "begin" \in Sent(t)' => t \in astray'
    BY <1>2, <1>3 DEF Forgets, Sent, ToSet, In
<1>5. (Alone(t) => Alone(t)') /\ Sent(t)' = Sent(t) /\ TransactionInv(t) /\ ThreadInv(t)
    BY AloneStays, NothingSent DEF IsolationInv, CommonInv
<1>6. entry[t].inTx => Undone(l) \/ (~serial /\ "commit" \in Sent(t))
    BY <1>2, <1>5, ClientEnds
<1>7. serial /\ ~entry[t].inTx /\ tx[l] = t => Undone(l) \/ t \in astray'
    <2> SUFFICES ASSUME serial, ~entry[t].inTx, tx[l] = t, ~Undone(l) PROVE t \in astray'
        OBVIOUS
    <2>1. l = None
        BY <1>2 DEF Line
    <2>2. <<t, "rollback">> \notin In(db[None])
        <3>1. <<t, "rollback">>[2] \in Undoes
            BY DEF Undoes
        <3> QED
            BY <2>1, <3>1 DEF Undone
    <2>3. Forgets(t)
        BY <2>1, <2>2 DEF Forgets, ToSet, In
    <2> QED
        BY <1>3, <2>3
<1>8. serial => ~entry[t].inTx
    BY DEF HasTx
<1>9. tx[l] = t => Undone(l) \/ Kept(t)'
    BY <1>2, <1>3, <1>5, <1>6, <1>7, <1>8 DEF TransactionInv, Kept
<1>10. TransactionInv(t)'
    BY <1>1, <1>2, <1>4, <1>9 DEF TransactionInv, Undone
<1> QED
    BY <1>3, <1>10, QuietIsolated

LEMMA DropIsolated ==
    ASSUME CommonInv, IsolationInv, NEW t \in Threads, Others(t), StaysSpent(t),
           UNCHANGED <<serial, stage, tx, astray>>, NEW op \in {"close", "sweep"}, Send(t, op),
           entry[t].live, entry[t].inTx, ~entry'[t].live
    PROVE  IsolationInv'
<1>1. ThreadInv(t)
    BY DEF CommonInv
<1>2. ~Spent(t) /\ "begin" \notin Sent(t)
    BY <1>1 DEF Spent, ThreadInv, ConnectionInv
<1>3. /\ \A l \in Lines : Isolated(db'[l], tx'[l], astray')
      /\ \A u \in Threads : u # t => TransactionInv(u)'
      /\ In(db'[Line(t)]) = In(db[Line(t)]) \cup {<<t, op>>}
      /\ Sent(t)' = Sent(t) \cup {op}
    BY <1>2, SendIsolated DEF Operations
<1>4. TransactionInv(t)'
    <2>1. PICK l : l = Line(t) /\ l = Line(t)'
        BY DEF Line
    <2>2. In(db'[l]) = In(db[l]) \cup {<<t, op>>}
        BY <1>3, <2>1
    <2>3. "begin" \notin Sent(t)'
        BY <1>2, <1>3
    <2>4. <<t, op>> \in In(db'[l]) /\ <<t, op>>[2] \in Undoes
        BY <2>2 DEF Undoes
    <2> QED
        BY <2>1, <2>3, <2>4 DEF TransactionInv, Undone
<1> QED
    BY <1>3, <1>4 DEF IsolationInv, Lines

LEMMA CloseIsolated ==
    ASSUME CommonInv, IsolationInv, NEW t \in Threads, Others(t), StaysSpent(t),
           DispatchClose(t)
    PROVE  IsolationInv'
<1>1. UNCHANGED <<serial, stage, tx, rust>> /\ Take(t, "close")
    BY DEF DispatchClose, rustVars
<1>2. Asked(t)' = Asked(t) \ {"close"}
    BY <1>1, TakeDoes DEF CommonInv, Operations
<1>3. CASE ~entry[t].live
    <2>1. UNCHANGED <<entry, db, astray>>
        BY <1>3 DEF DispatchClose
    <2> QED
        BY <1>1, <1>3, <2>1, RustIsolated
<1>4. CASE entry[t].live /\ entry[t].inTx /\ HasTx(t)
    <2>1. Send(t, "close") /\ entry' = [entry EXCEPT ![t].live = FALSE] /\ astray' = astray
        BY <1>4 DEF DispatchClose
    <2>2. ~entry'[t].live
        BY <2>1 DEF CommonInv, TypeOK
    <2> QED
        BY <1>1, <1>4, <2>1, <2>2, DropIsolated
<1>5. CASE entry[t].live /\ ~(entry[t].inTx /\ HasTx(t))
    <2>1. LeaveMap(t) /\ UNCHANGED db
        BY <1>5 DEF DispatchClose
    <2> QED
        BY <1>1, <1>5, <2>1, LeaveIsolated
<1> QED
    BY <1>3, <1>4, <1>5

LEMMA SweepIsolated ==
    ASSUME CommonInv, IsolationInv, NEW t \in Threads, Others(t), StaysSpent(t), Sweep(t)
    PROVE  IsolationInv'
<1>1. UNCHANGED <<serial, stage, tx>> /\ entry[t].live /\ ~entry[t].busy
    BY DEF Sweep
<1>3. CASE entry[t].inTx /\ HasTx(t)
    <2>1. /\ Send(t, "sweep") /\ entry' = [entry EXCEPT ![t].live = FALSE, ![t].lock = FALSE]
          /\ astray' = astray
        BY <1>3 DEF Sweep
    <2>2. ~entry'[t].live
        BY <2>1 DEF CommonInv, TypeOK
    <2> QED
        BY <1>1, <1>3, <2>1, <2>2, DropIsolated
<1>4. CASE ~(entry[t].inTx /\ HasTx(t))
    <2>1. LeaveMap(t) /\ UNCHANGED db
        BY <1>4 DEF Sweep
    <2> QED
        BY <1>1, <1>4, <2>1, LeaveIsolated
<1> QED
    BY <1>3, <1>4

\* A statement is finished.
LEMMA FinishIsolated ==
    ASSUME CommonInv, IsolationInv, NEW t \in Threads, Others(t), StaysSpent(t),
           NEW l \in Lines, NEW op \in Operations \cup {"sweep"}, Finish(l, t, op),
           op \in Undoes => tx'[l] = None,
           \/ tx'[l] = tx[l]
           \/ op = "begin" /\ tx'[l] = t
           \/ op \in Ends /\ tx'[l] = None,
           \A k \in Lines : k # l => tx'[k] = tx[k]
    PROVE  /\ \A k \in Lines : Isolated(db'[k], tx'[k], astray')
           /\ \A u \in Threads : u # t => TransactionInv(u)'
           /\ In(db[l]) = {<<t, op>>} \cup In(db'[l]) /\ l = Line(t) /\ l = Line(t)'
           /\ op \in Sent(t) /\ Sent(t)' = Sent(t) \ {op}
           /\ \A later \in Sent(t)' : Rank(op) < Rank(later)
           /\ op = "begin" => /\ t \in astray \/ In(db'[l]) = {}
                              /\ tx[l] \in astray \cup {None, t}
<1>1. TypeOK /\ ListInv /\ astray' = astray
    BY DEF CommonInv, Finish
<1>2. /\ l = Line(t) /\ db' \in [Lines -> Seq(Item)]
      /\ db[l] # <<>> /\ Head(db[l]) = <<t, op>> /\ db'[l] = Tail(db[l])
      /\ In(db[l]) = {<<t, op>>} \cup In(db'[l])
      /\ \A k \in Lines : k # l => db'[k] = db[k]
      /\ op \in Sent(t) /\ Sent(t)' = Sent(t) \ {op}
    BY <1>1, FinishDoes
<1>3. db[l] \in Seq(Item) /\ Isolated(db[l], tx[l], astray) /\ Ordered(db[l])
    BY <1>1 DEF TypeOK, Item, IsolationInv, ListInv
<1>4. <<t, op>>[1] = t /\ <<t, op>>[2] = op
    OBVIOUS
<1>5. Isolated(db'[l], tx'[l], astray')
    <2>1. Isolated(Tail(db[l]), tx'[l], astray)
        BY <1>2, <1>3, <1>4, TailIsolated
    <2> QED
        BY <1>1, <1>2, <2>1
<1>6. \A k \in Lines : Isolated(db'[k], tx'[k], astray')
    BY <1>1, <1>2, <1>5 DEF IsolationInv
<1>7. op = "begin" => /\ t \in astray \/ In(db'[l]) = {}
                      /\ tx[l] \in astray \cup {None, t}
    <2> SUFFICES ASSUME op = "begin"
                 PROVE  (t \in astray \/ db'[l] = <<>>) /\ tx[l] \in astray \cup {None, t}
        BY DEF In
    <2>1. 1 \in DOMAIN db[l] /\ db[l][1][1] = t /\ db[l][1][2] = "begin"
        BY <1>2, <1>3, <1>4
    <2>2. 1 = Len(db[l]) \/ t \in astray
        BY <1>3, <2>1 DEF Isolated
    <2>3. ~\E j \in 1 .. (1 - 1) : db[l][j][2] \in Undoes
        OBVIOUS
    <2>4. tx[l] \in astray \cup {None, t}
        BY <1>3, <2>1, <2>3 DEF Isolated
    <2> QED
        BY <1>2, <1>3, <2>2, <2>4
<1>8. ASSUME NEW u \in Threads, u # t PROVE TransactionInv(u)'
    <2>0. PICK k \in Lines : k = Line(u) /\ k = Line(u)'
        BY LinesAre DEF Line, Finish
    <2>1. TransactionInv(u) /\ UNCHANGED <<serial, stage>>
        BY DEF IsolationInv, Finish
    <2>2. CASE k # l
        BY <1>1, <1>2, <1>8, <2>0, <2>1, <2>2, OtherStays
    <2>3. CASE k = l
        <3>1. ~(entry[u].live /\ entry[u].inTx)
            <4>1. <<t, op>> \in In(db[l]) /\ <<t, op>>[1] # u
                BY <1>2, <1>8
            <4> QED
                BY <2>0, <2>1, <2>3, <4>1 DEF TransactionInv
        <3>2. tx'[l] = u => tx[l] = u /\ op \notin Undoes
            <4>1. u # None
                BY BridgeAssumption
            <4> QED
                BY <1>8, <4>1
        <3>3. op \notin Undoes => (Undone(l) => \E x \in In(db'[l]) : x[2] \in Undoes)
            BY <1>2, <1>4 DEF Undone
        <3>4. tx'[Line(u)] = u => tx[Line(u)] = u /\ (Undone(Line(u)) => Undone(Line(u))')
            BY <2>0, <2>3, <3>2, <3>3 DEF Undone
        <3> QED
            BY <1>1, <1>8, <2>1, <3>1, <3>4, OtherStays
    <2> QED
        BY <2>2, <2>3
<1>9. \A later \in Sent(t)' : Rank(op) < Rank(later)
    <2>1. \A y \in In(Tail(db[l])) : y[1] = t => Rank(op) < Rank(y[2])
        BY <1>2, <1>3, <1>4, OrderIsKept
    <2>2. ASSUME NEW later \in Sent(t)' PROVE <<t, later>> \in In(Tail(db[l]))
        BY <1>2 DEF Sent, Line, Finish
    <2> QED
        BY <2>1, <2>2
<1>10. l = Line(t)'
    BY <1>2 DEF Line, Finish
<1> QED
    BY <1>2, <1>6, <1>7, <1>8, <1>9, <1>10

\* Behind a begin of a thread nothing of it is on its way but a close.
LEMMA BeginIsLast ==
    ASSUME CommonInv, NEW t \in Threads, "begin" \in Sent(t)
    PROVE  /\ "commit" \notin Asked(t) \cup Sent(t) /\ ~Undoing(t) /\ ~entry[t].inTx
           /\ entry[t].live => t \notin astray
BY DEF CommonInv, ThreadInv, ConnectionInv, OrderInv, Undoing

LEMMA BeginDoneIsolated ==
    ASSUME CommonInv, IsolationInv, NEW t \in Threads, Others(t), StaysSpent(t),
           NEW l \in Lines, BeginDone(l, t)
    PROVE  IsolationInv'
<1>1. /\ Finish(l, t, "begin") /\ "begin" \in Operations \ Undoes
      /\ UNCHANGED <<serial, stage, astray, inbox>>
    BY DEF BeginDone, Finish, Operations, Undoes
<1>2. /\ tx'[l] \in {t} \cup ({tx[l]} \ {None})
      /\ \A k \in Lines : k # l => tx'[k] = tx[k]
    BY DEF BeginDone, CommonInv, TypeOK
<1>3. /\ \A k \in Lines : Isolated(db'[k], tx'[k], astray')
      /\ \A u \in Threads : u # t => TransactionInv(u)'
      /\ l = Line(t) /\ l = Line(t)'
      /\ "begin" \in Sent(t) /\ Sent(t)' = Sent(t) \ {"begin"}
      /\ t \in astray \/ In(db'[l]) = {}
      /\ tx[l] \in astray \cup {None, t}
    BY <1>1, <1>2, FinishIsolated
<1>5. entry'[t].live = entry[t].live /\ entry'[t].inTx
    BY DEF BeginDone, CommonInv, TypeOK
<1>6. Asked(t)' = Asked(t)
    BY <1>1, NothingAsked
<1>7. "commit" \notin Asked(t)' \cup Sent(t)' /\ (entry[t].live => t \notin astray)
    BY <1>3, <1>6, BeginIsLast
<1>8. tx'[l] \in astray' \cup {t} /\ (entry[t].live => In(db'[l]) = {})
    BY <1>1, <1>2, <1>3, <1>7
<1>9. entry[t].live \/ t \in astray' \/ Alone(t)'
    <2>1. Alone(t) => Alone(t)'
        BY <1>1, AloneStays
    <2> QED
        BY <1>1, <1>3, <2>1 DEF IsolationInv, TransactionInv
<1>10. TransactionInv(t)'
    BY <1>3, <1>5, <1>7, <1>8, <1>9 DEF TransactionInv, Kept
<1> QED
    BY <1>3, <1>10, <1>1 DEF IsolationInv, Lines

LEMMA BeginFailedIsolated ==
    ASSUME CommonInv, IsolationInv, NEW t \in Threads, Others(t), StaysSpent(t),
           NEW l \in Lines, BeginFailed(l, t)
    PROVE  IsolationInv'
<1>1. /\ Finish(l, t, "begin") /\ "begin" \in Operations \ Undoes
      /\ UNCHANGED <<serial, stage, tx, astray, inbox>>
    BY DEF BeginFailed, Finish, Operations, Undoes
<1>2. /\ \A k \in Lines : Isolated(db'[k], tx'[k], astray')
      /\ \A u \in Threads : u # t => TransactionInv(u)'
      /\ In(db[l]) = {<<t, "begin">>} \cup In(db'[l]) /\ l = Line(t) /\ l = Line(t)'
      /\ "begin" \in Sent(t) /\ Sent(t)' = Sent(t) \ {"begin"}
    BY <1>1, FinishIsolated
<1>3. "commit" \notin Asked(t) \cup Sent(t) /\ ~Undoing(t) /\ ~entry[t].inTx
    BY <1>2, BeginIsLast
<1>4. Asked(t)' = Asked(t) /\ (Alone(t) => Alone(t)')
    BY <1>1, NothingAsked, AloneStays
<1>5. ~entry'[t].inTx
    BY <1>3 DEF BeginFailed, CommonInv, TypeOK
<1>6. tx'[l] = t => Undone(l)' \/ Kept(t)'
    <2>1. tx[l] = t => Undone(l) \/ t \in astray \/ Alone(t)
        BY <1>2, <1>3 DEF IsolationInv, TransactionInv, Kept
    <2>2. Undone(l) => Undone(l)'
        BY <1>1, <1>2 DEF Undone
    <2> QED
        BY <1>1, <1>4, <2>1, <2>2 DEF Kept
<1>7. TransactionInv(t)'
    BY <1>2, <1>3, <1>4, <1>5, <1>6 DEF TransactionInv, Undone
<1> QED
    BY <1>2, <1>7, <1>1 DEF IsolationInv, Lines

LEMMA ExecuteDoneIsolated ==
    ASSUME CommonInv, IsolationInv, NEW t \in Threads, Others(t), StaysSpent(t),
           NEW l \in Lines, NEW ok \in BOOLEAN, ExecuteDone(l, t, ok)
    PROVE  IsolationInv'
<1>1. /\ Finish(l, t, "execute") /\ "execute" \in Operations \ Undoes
      /\ UNCHANGED <<serial, stage, tx, astray, inbox>>
    BY DEF ExecuteDone, Finish, Operations, Undoes
<1>2. /\ \A k \in Lines : Isolated(db'[k], tx'[k], astray')
      /\ \A u \in Threads : u # t => TransactionInv(u)'
      /\ In(db[l]) = {<<t, "execute">>} \cup In(db'[l]) /\ l = Line(t) /\ l = Line(t)'
      /\ "execute" \in Sent(t) /\ Sent(t)' = Sent(t) \ {"execute"}
    BY <1>1, FinishIsolated
<1>3. entry'[t].live = entry[t].live /\ entry'[t].inTx = entry[t].inTx
    BY DEF ExecuteDone, CommonInv, TypeOK
<1>4. /\ Asked(t)' = Asked(t) /\ (Alone(t) => Alone(t)')
      /\ TransactionInv(t) /\ Closing' = Closing
    BY <1>1, NothingAsked, AloneStays DEF IsolationInv, Closing
<1>5. Undoing(t) => Undoing(t)'
    <2>1. /\ TypeOK /\ ThreadInv(t) /\ Resolve(t, "execute", ok)
          /\ "execute" \in Operations /\ "execute" # "sweep"
        BY <1>1 DEF ExecuteDone, CommonInv
    <2>2. Called(t, "execute")
        BY <1>2, <2>1 DEF ThreadInv, OrderInv
    <2>3. Answers(t, "execute", ok)
        BY <2>1, <2>2, ResolveDoes
    <2> QED
        BY <1>4, <2>3 DEF Undoing, Answers
<1>6. Kept(t) => Kept(t)'
    BY <1>1, <1>2, <1>3, <1>4, <1>5 DEF Kept
<1>7. Undone(l) => Undone(l)'
    BY <1>1, <1>2 DEF Undone
<1>8. serial' /\ entry'[t].live /\ "commit" \in Asked(t)' \cup Sent(t)' =>
         Undoing(t)' \/ "rollback" \in Sent(t)' \/ Closing'
    BY <1>1, <1>2, <1>3, <1>4, <1>5 DEF TransactionInv
<1>9. TransactionInv(t)'
    BY <1>1, <1>2, <1>3, <1>4, <1>6, <1>7, <1>8 DEF TransactionInv
<1> QED
    BY <1>2, <1>9, <1>1 DEF IsolationInv, Lines

\* A transaction is ended, by its thread or by the event loop; on the shared handle a
\* commit may fail and leave it open.
LEMMA TxEndsIsolated ==
    ASSUME CommonInv, IsolationInv, NEW t \in Threads, Others(t), StaysSpent(t),
           NEW l \in Lines, NEW op \in Ends, Finish(l, t, op),
           \A k \in Lines : k # l => tx'[k] = tx[k],
           tx'[l] = None \/ (op = "commit" /\ serial /\ tx'[l] = tx[l] /\ Answers(t, op, FALSE)),
           ~(entry'[t].live /\ entry'[t].inTx), entry'[t].live = entry[t].live
    PROVE  IsolationInv'
<1>1. /\ op \in Operations \cup {"sweep"} /\ op # "begin"
      /\ UNCHANGED <<serial, stage, astray, inbox>>
    BY DEF Finish, Operations, Ends
<1>2. /\ \A k \in Lines : Isolated(db'[k], tx'[k], astray')
      /\ \A u \in Threads : u # t => TransactionInv(u)'
      /\ In(db[l]) = {<<t, op>>} \cup In(db'[l]) /\ l = Line(t) /\ l = Line(t)'
      /\ op \in Sent(t) /\ Sent(t)' = Sent(t) \ {op}
      /\ \A later \in Sent(t)' : Rank(op) < Rank(later)
    <2>1. op \in Undoes => tx'[l] = None
        BY DEF Undoes
    <2>2. \/ tx'[l] = tx[l]
          \/ op = "begin" /\ tx'[l] = t
          \/ op \in Ends /\ tx'[l] = None
        OBVIOUS
    <2> QED
        BY <1>1, <2>1, <2>2, FinishIsolated
<1>3. "begin" \notin Sent(t)
    BY <1>1, <1>2 DEF CommonInv, ThreadInv, ConnectionInv
<1>4. Asked(t)' = Asked(t) /\ (Alone(t) => Alone(t)') /\ TransactionInv(t) /\ ThreadInv(t)
    BY <1>1, NothingAsked, AloneStays DEF IsolationInv, CommonInv
<1>5. entry'[t].live => "commit" \notin Asked(t)' \cup Sent(t)'
    <2>1. op \in {"close", "sweep"} => ~entry[t].live
        BY <1>2, <1>4 DEF ThreadInv, ConnectionInv
    <2>2. op \in {"commit", "rollback"} => "commit" \notin Asked(t)
        BY <1>2, <1>4 DEF ThreadInv, OrderInv, Rank
    <2>3. op \in {"commit", "rollback"} => "commit" \notin Sent(t)'
        BY <1>2 DEF Rank
    <2> QED
        BY <1>4, <2>1, <2>2, <2>3 DEF Ends
<1>6. tx'[l] = t => Undone(l)' \/ Kept(t)'
    <2> SUFFICES ASSUME tx'[l] = t PROVE Undone(l)' \/ Kept(t)'
        OBVIOUS
    <2>1. op = "commit" /\ serial /\ tx[l] = t /\ Answers(t, op, FALSE)
        BY BridgeAssumption
    <2>2. Undone(l) => Undone(l)'
        BY <1>2, <2>1 DEF Undone, Undoes
    <2>3. CASE Undone(l) \/ t \in astray \/ Alone(t)
        BY <1>1, <1>4, <2>2, <2>3 DEF Kept
    <2>4. CASE entry[t].live /\ Undoing(t)
        <3>1. Undoing(t)'
            BY <1>4, <2>1, <2>4 DEF Undoing, Answers, NextOp
        <3> QED
            BY <1>1, <2>1, <2>4, <3>1 DEF Kept
    <2>5. CASE entry[t].live /\ "rollback" \in Sent(t)
        <3>1. <<t, "rollback">> \in In(db[l]) /\ <<t, "rollback">>[2] \in Undoes
            BY <1>2, <2>5 DEF Sent, Undoes
        <3> QED
            BY <2>2, <3>1 DEF Undone
    <2>6. CASE entry[t].live /\ Closing
        <3>1. Alone(t)
            BY <1>2, <2>1, <2>6, UndoerIsNotSpent, UserIsAlone DEF Alone
        <3> QED
            BY <2>3, <3>1
    <2> QED
        BY <1>2, <1>4, <2>1, <2>3, <2>4, <2>5, <2>6 DEF TransactionInv, Kept
<1>7. TransactionInv(t)'
    BY <1>2, <1>3, <1>5, <1>6 DEF TransactionInv
<1> QED
    BY <1>2, <1>7, <1>1 DEF IsolationInv, Lines

\* The thread calls, or gives up a call.
LEMMA CallsIsolated ==
    ASSUME CommonInv, IsolationInv, NEW t \in Threads, Others(t), StaysSpent(t),
           CallInsert(t) \/ CallQueue(t) \/ SendClose(t) \/ CallTimeout(t)
    PROVE  IsolationInv'
<1>0. /\ UNCHANGED <<serial, stage, entry, db, tx, astray>>
      /\ TypeOK /\ ListInv /\ ThreadInv(t)
    BY DEF CallInsert, CallQueue, SendClose, CallTimeout, dbVars, CommonInv
<1>1. CASE CallInsert(t)
    <2>1. Asked(t)' = Asked(t)
        BY <1>1, NothingAsked DEF CallInsert
    <2>2. rust'[t].op = rust[t].op /\ rust'[t].mode = "inserted" /\ rust[t].mode = "ready"
        BY <1>0, <1>1 DEF CallInsert, TypeOK
    <2>3. Undoing(t) => Undoing(t)'
        BY <2>1, <2>2 DEF Undoing
    <2> QED
        BY <1>0, <2>1, <2>3, RustIsolated
<1>2. CASE CallQueue(t) /\ TsfnOpen
    <2>1. /\ inbox' = Append(inbox, <<t, rust[t].op>>) /\ rust[t].mode = "inserted"
          /\ rust' = [rust EXCEPT ![t].mode = "waiting"]
        BY <1>2 DEF CallQueue
    <2>2. rust'[t].op = rust[t].op /\ rust'[t].mode = "waiting" /\ rust[t].op \in Operations
        BY <1>0, <2>1 DEF TypeOK, ThreadInv, CallInv
    <2>3. \A op \in Asked(t) : Rank(op) < Rank(rust[t].op)
        BY <1>0, <2>1 DEF ThreadInv, OrderInv, Called
    <2>4. Asked(t)' = Asked(t) \cup {rust[t].op}
        BY <1>0, <2>1, <2>2, <2>3, QueueDoes
    <2>5. Undoing(t) => Undoing(t)'
        BY <2>1, <2>2, <2>4 DEF Undoing
    <2>6. "commit" \in Asked(t)' => Undoing(t)' \/ "commit" \in Asked(t)
        BY <2>2, <2>4 DEF Undoing
    <2> QED
        BY <1>0, <2>5, <2>6, RustIsolated
<1>3. CASE CallQueue(t) /\ ~TsfnOpen
    <2>1. Asked(t)' = Asked(t)
        BY <1>3, NothingAsked DEF CallQueue
    <2>2. Closing
        BY <1>3 DEF TsfnOpen, Closing
    <2> QED
        BY <1>0, <2>1, <2>2, RustIsolated
<1>4. CASE SendClose(t)
    <2>1. rust[t].op = "close" /\ inbox' \in {Append(inbox, <<t, "close">>), inbox}
        BY <1>4 DEF SendClose
    <2>2. \A op \in Asked(t) : Rank(op) < Rank("close")
        BY <1>0, <2>1 DEF ThreadInv, OrderInv, CallInv, Called
    <2>3. Asked(t)' \in {Asked(t) \cup {"close"}, Asked(t)}
        <3>1. CASE inbox' = inbox
            BY <3>1, NothingAsked
        <3>2. CASE inbox' = Append(inbox, <<t, "close">>)
            <4>1. "close" \in Operations
                BY DEF Operations
            <4> QED
                BY <1>0, <2>2, <3>2, <4>1, QueueDoes
        <3> QED
            BY <2>1, <3>1, <3>2
    <2>4. Undoing(t) => Undoing(t)'
        BY <2>1, <2>3 DEF Undoing
    <2> QED
        BY <1>0, <2>3, <2>4, RustIsolated
<1>5. CASE CallTimeout(t)
    <2>1. Asked(t)' = Asked(t)
        BY <1>5, NothingAsked DEF CallTimeout
    <2>2. rust[t].mode = "waiting" /\ Goes(t, FALSE)
        BY <1>5 DEF CallTimeout
    <2>3. rust[t].op # "done" /\ pending' = pending \ {<<t, rust[t].op>>}
        BY <1>0, <1>5, <2>2 DEF ThreadInv, CallInv, CallTimeout
    <2>4. rust'[t].op = NextOp(t, rust[t].op, FALSE) /\ rust'[t].mode = "ready"
        BY <1>0, <2>2, <2>3, GoesDoes
    <2>5. Undoing(t) => Undoing(t)'
        BY <2>1, <2>2, <2>4 DEF Undoing, NextOp
    <2> QED
        BY <1>0, <2>1, <2>5, RustIsolated
<1> QED
    BY <1>1, <1>2, <1>3, <1>4, <1>5

LEMMA RefuseIsolated ==
    ASSUME CommonInv, IsolationInv, NEW t \in Threads, Others(t), StaysSpent(t),
           NEW op \in Operations, DispatchRefuse(t, op)
    PROVE  IsolationInv'
<1>1. /\ UNCHANGED <<serial, stage, entry, db, tx, astray>> /\ Take(t, op)
      /\ ~entry[t].live \/ Closing
    BY DEF DispatchRefuse, dbVars
<1>2. Asked(t)' = Asked(t) \ {op}
    BY <1>1, TakeDoes DEF CommonInv
<1> QED
    BY <1>1, <1>2, RustIsolated

\* The ends of transactions.
LEMMA EndDoneIsolated ==
    ASSUME CommonInv, IsolationInv, NEW t \in Threads, Others(t), StaysSpent(t),
           NEW l \in Lines, NEW ok \in BOOLEAN, NEW op \in {"commit", "rollback"},
           EndDone(l, t, op, ok)
    PROVE  IsolationInv'
<1>1. /\ op \in Ends /\ op \in Operations /\ op # "sweep" /\ Finish(l, t, op)
      /\ TypeOK /\ ListInv /\ ThreadInv(t)
      /\ tx' = IF ok \/ ~serial THEN [tx EXCEPT ![l] = None] ELSE tx
      /\ entry' = [entry EXCEPT ![t].inTx = FALSE, ![t].busy = FALSE]
      /\ Resolve(t, op, ok) /\ (ok \/ op = "commit")
    BY DEF EndDone, Ends, Operations, CommonInv
<1>2. ~entry'[t].inTx /\ entry'[t].live = entry[t].live
    BY <1>1 DEF TypeOK
<1>3. op \in Sent(t)
    BY <1>1, FinishDoes
<1>4. Called(t, op)
    BY <1>1, <1>3 DEF ThreadInv, OrderInv
<1>5. Answers(t, op, ok)
    BY <1>1, <1>4, ResolveDoes
<1>6. \/ tx' = [tx EXCEPT ![l] = None]
      \/ op = "commit" /\ serial /\ tx' = tx /\ Answers(t, op, FALSE)
    BY <1>1, <1>5
<1>7. /\ \A k \in Lines : k # l => tx'[k] = tx[k]
      /\ tx'[l] = None \/ (op = "commit" /\ serial /\ tx'[l] = tx[l] /\ Answers(t, op, FALSE))
    BY <1>1, <1>6 DEF TypeOK
<1> QED
    BY <1>1, <1>2, <1>7, TxEndsIsolated

LEMMA DropDoneIsolated ==
    ASSUME CommonInv, IsolationInv, NEW t \in Threads, Others(t), StaysSpent(t),
           NEW l \in Lines, NEW op \in {"close", "sweep"}, DropDone(l, t, op)
    PROVE  IsolationInv'
<1>1. /\ op \in Ends /\ op \in Operations \cup {"sweep"} /\ Finish(l, t, op)
      /\ tx' = [tx EXCEPT ![l] = None] /\ entry' = [entry EXCEPT ![t].lock = FALSE]
      /\ TypeOK /\ ListInv /\ ThreadInv(t)
    BY DEF DropDone, Ends, Operations, CommonInv
<1>2. op \in Sent(t)
    BY <1>1, FinishDoes
<1>3. ~entry[t].live
    BY <1>1, <1>2 DEF ThreadInv, ConnectionInv
<1>4. entry'[t].live = entry[t].live
    BY <1>1 DEF TypeOK
<1>5. tx'[l] = None /\ \A k \in Lines : k # l => tx'[k] = tx[k]
    BY <1>1 DEF TypeOK
<1> QED
    BY <1>1, <1>3, <1>4, <1>5, TxEndsIsolated

LEMMA GivenIsolated ==
    ASSUME CommonInv, IsolationInv, NEW t \in Threads, Others(t), StaysSpent(t),
           DispatchAcquire(t) \/ GrantLock(t)
    PROVE  IsolationInv'
<1>1. UNCHANGED <<serial, stage, db, tx, astray>>
    BY DEF DispatchAcquire, GrantLock, dbVars
<1>2. entry \in [Threads -> [live : BOOLEAN, busy : BOOLEAN, inTx : BOOLEAN, lock : BOOLEAN]]
    BY DEF CommonInv, TypeOK
<1>3. CASE DispatchAcquire(t)
    <2>0. entry'[t].inTx = entry[t].inTx
        BY <1>2, <1>3 DEF DispatchAcquire
    <2>1. "acquire" \in Asked(t) /\ Asked(t)' \subseteq Asked(t)
        BY <1>3, TakeDoes DEF DispatchAcquire, CommonInv, Operations
    <2> QED
        BY <1>1, <2>0, <2>1, OpenIsolated DEF Unopened
<1>4. CASE GrantLock(t)
    <2>0. entry'[t].inTx = entry[t].inTx
        BY <1>2, <1>4 DEF GrantLock
    <2>1. InLine(t) /\ Asked(t)' = Asked(t)
        BY <1>4, NothingAsked DEF GrantLock, InLine, In
    <2> QED
        BY <1>1, <2>0, <2>1, OpenIsolated DEF Unopened
<1> QED
    BY <1>3, <1>4

LEMMA StepIsolated ==
    ASSUME CommonInv, IsolationInv, NEW t \in Threads, StepOf(t)
    PROVE  IsolationInv'
<1>0. Others(t) /\ StaysSpent(t)
    BY StepFits DEF Fits
<1>1. CASE CallInsert(t) \/ CallQueue(t) \/ SendClose(t) \/ CallTimeout(t)
    BY <1>0, <1>1, CallsIsolated
<1>2. CASE DispatchAcquire(t) \/ GrantLock(t)
    BY <1>0, <1>2, GivenIsolated
<1>3. CASE DispatchClose(t) \/ Sweep(t)
    BY <1>0, <1>3, CloseIsolated, SweepIsolated
<1>4. ASSUME NEW op \in Operations,
             DispatchRefuse(t, op) \/ DispatchStatement(t, op) \/ DispatchEnd(t, op)
      PROVE  IsolationInv'
    BY <1>0, <1>4, RefuseIsolated, StatementIsolated, EndIsolated
<1>5. ASSUME NEW l \in Lines, BeginDone(l, t) \/ BeginFailed(l, t) PROVE IsolationInv'
    BY <1>0, <1>5, BeginDoneIsolated, BeginFailedIsolated
<1>6. ASSUME NEW l \in Lines, NEW ok \in BOOLEAN, ExecuteDone(l, t, ok) PROVE IsolationInv'
    BY <1>0, <1>6, ExecuteDoneIsolated
<1>7. ASSUME NEW l \in Lines, NEW ok \in BOOLEAN, NEW op \in {"commit", "rollback"},
             EndDone(l, t, op, ok)
      PROVE  IsolationInv'
    BY <1>0, <1>7, EndDoneIsolated
<1>8. ASSUME NEW l \in Lines, NEW op \in {"close", "sweep"}, DropDone(l, t, op)
      PROVE  IsolationInv'
    BY <1>0, <1>8, DropDoneIsolated
<1> QED
    BY <1>1, <1>2, <1>3, <1>4, <1>5, <1>6, <1>7, <1>8 DEF StepOf

\* Close has begun, and goes on.
LEMMA StageIsolated ==
    ASSUME CommonInv, IsolationInv, stage' # "open", UNCHANGED <<serial, astray, db, tx>>,
           \A u \in Threads : /\ entry'[u].live = entry[u].live /\ entry'[u].inTx = entry[u].inTx
                              /\ Spent(u) => Spent(u)'
    PROVE  IsolationInv'
<1>1. \A l \in Lines : Isolated(db'[l], tx'[l], astray')
    BY DEF IsolationInv
<1>2. ASSUME NEW u \in Threads PROVE TransactionInv(u)'
    <2>1. Alone(u) => Alone(u)'
        BY DEF Alone, Closing
    <2>2. Sent(u)' = Sent(u) /\ TransactionInv(u)
        BY NothingSent DEF IsolationInv
    <2>3. serial /\ entry[u].live /\ Undoing(u) => Alone(u)'
        <3>1. serial /\ entry[u].live /\ Undoing(u) =>
                 \A v \in Threads : v # u /\ entry[v].live => Spent(v)
            BY UndoerIsNotSpent, UserIsAlone
        <3> QED
            BY <3>1 DEF Alone, Closing
    <2>4. Kept(u) => Kept(u)'
        BY <2>1, <2>2, <2>3 DEF Kept
    <2>5. PICK l : l = Line(u) /\ l = Line(u)'
        BY DEF Line
    <2>6. Undone(l)' <=> Undone(l)
        BY DEF Undone
    <2>7. Closing'
        BY DEF Closing
    <2> QED
        BY <2>1, <2>2, <2>4, <2>5, <2>6, <2>7 DEF TransactionInv
<1> QED
    BY <1>1, <1>2 DEF IsolationInv, Lines

\* What close finds with an open transaction is rolled back behind its statements.
LEMMA LeftIsolated ==
    ASSUME CommonInv, IsolationInv, CloseLeft
    PROVE  IsolationInv'
<1>1. /\ UNCHANGED <<serial, tx, astray>> /\ stage' = "rolling"
      /\ \A t \in Threads : ~entry'[t].live
      /\ db' \in [Lines -> Seq(Item)]
    BY LeftDoes DEF CommonInv
<1>2. \A l \in Lines :
         /\ In(db'[l]) = In(db[l]) \cup ({t \in Undo : Line(t) = l} \X {"sweep"})
         /\ {t \in Undo : Line(t) = l} = {} => db'[l] = db[l]
    BY LeftDoes DEF CommonInv
<1>3. ASSUME NEW l \in Lines PROVE Isolated(db'[l], tx'[l], astray')
    <2>0. Isolated(db[l], tx[l], astray) /\ db[l] \in Seq(Item)
        BY DEF IsolationInv, CommonInv, TypeOK, Item
    <2>1. CASE {t \in Undo : Line(t) = l} = {}
        BY <1>1, <1>2, <2>0, <2>1
    <2>2. CASE {t \in Undo : Line(t) = l} # {}
        <3>1. PICK t \in Threads : entry[t].live /\ entry[t].inTx /\ Line(t) = l
            BY <2>2 DEF Undo
        <3>2. \A x \in In(db[l]) : x[1] = t /\ x[2] \in {"execute", "commit", "rollback"}
            BY <3>1 DEF IsolationInv, TransactionInv
        <3>3. PICK r \in Seq(Item) : db'[l] = db[l] \o r /\ \A i \in DOMAIN r : r[i][2] = "sweep"
            BY <1>3, LeftDoes DEF CommonInv
        <3>4. /\ DOMAIN db[l] = 1 .. Len(db[l]) /\ DOMAIN r = 1 .. Len(r)
              /\ DOMAIN db'[l] = 1 .. (Len(db[l]) + Len(r))
              /\ \A i \in 1 .. Len(db[l]) : db'[l][i] = db[l][i]
              /\ \A i \in 1 .. Len(r) : db'[l][Len(db[l]) + i] = r[i]
              /\ Len(db[l]) \in Nat /\ Len(r) \in Nat
            <4>1. /\ db[l] \in Seq(Item) /\ r \in Seq(Item) /\ db'[l] = db[l] \o r
                  /\ db'[l] \in Seq(Item)
                BY <1>1, <2>0, <3>3
            <4> QED
                BY <4>1
        <3>5. ASSUME NEW i \in DOMAIN db'[l]
              PROVE  \/ i \in 1 .. Len(db[l]) /\ db'[l][i] = db[l][i]
                     \/ db'[l][i][2] = "sweep"
            <4>1. CASE i \in 1 .. Len(db[l])
                BY <3>4, <4>1
            <4>2. CASE i \notin 1 .. Len(db[l])
                <5>1. i - Len(db[l]) \in 1 .. Len(r) /\ Len(db[l]) + (i - Len(db[l])) = i
                    BY <3>4, <4>2
                <5>2. db'[l][i] = r[i - Len(db[l])]
                    BY <3>4, <5>1
                <5> QED
                    BY <3>3, <3>4, <5>1, <5>2
            <4> QED
                BY <4>1, <4>2
        <3>6. ASSUME NEW i \in 1 .. Len(db[l])
              PROVE  /\ db[l][i][2] # "begin"
                     /\ db[l][i][2] = "execute" /\ db[l][i][1] \notin Readers =>
                           i = 1 /\ tx[l] \in astray \cup {db[l][i][1]}
                     /\ db[l][i][2] = "execute" /\ db[l][i][1] \in Readers =>
                           tx[l] \in astray \cup {None, db[l][i][1]}
                             \/ \E j \in 1 .. (i - 1) : db'[l][j][2] \in Undoes
            <4>1. db[l][i][2] # "begin"
                BY <3>2, <3>4 DEF In
            <4>2. \A j \in 1 .. (i - 1) : db'[l][j] = db[l][j]
                BY <3>4
            <4> QED
                BY <2>0, <3>4, <4>1, <4>2 DEF Isolated
        <3>7. Isolated(db'[l], tx[l], astray)
            BY <3>5, <3>6 DEF Isolated
        <3> QED
            BY <1>1, <3>7
    <2> QED
        BY <2>1, <2>2
<1>4. ASSUME NEW u \in Threads PROVE TransactionInv(u)'
    <2>1. PICK l \in Lines : l = Line(u) /\ l = Line(u)'
        BY <1>1, LinesAre DEF Line
    <2>2. Alone(u)'
        BY <1>1 DEF Alone, Closing
    <2> QED
        BY <1>1, <2>2 DEF TransactionInv, Kept
<1> QED
    BY <1>1, <1>3, <1>4 DEF IsolationInv, Lines

LEMMA IsolationInit == Init => IsolationInv
<1> SUFFICES ASSUME Init PROVE IsolationInv
    OBVIOUS
<1>1. \A l \in Lines : Isolated(db[l], tx[l], astray)
    BY DEF Init, Isolated
<1>2. ASSUME NEW t \in Threads PROVE TransactionInv(t)
    <2>1. Sent(t) = {} /\ tx[Line(t)] # t /\ ~entry[t].live
        BY LinesAre, BridgeAssumption DEF Init, Sent, In
    <2> QED
        BY <2>1 DEF TransactionInv
<1> QED
    BY <1>1, <1>2 DEF IsolationInv

LEMMA IsolationStep == CommonInv /\ IsolationInv /\ [Next]_vars => IsolationInv'
<1> SUFFICES ASSUME CommonInv, IsolationInv, [Next]_vars PROVE IsolationInv'
    OBVIOUS
<1>1. ASSUME NEW t \in Threads, StepOf(t) PROVE IsolationInv'
    BY <1>1, StepIsolated
<1>2. CASE CloseBegin \/ CloseJoined \/ CloseFinish
    <2>1. UNCHANGED <<serial, astray, rust, inbox, entry, db, tx>> /\ stage' # "open"
        BY <1>2 DEF CloseBegin, CloseJoined, CloseFinish, rustVars, dbVars
    <2>2. \A u \in Threads : Spent(u)' <=> Spent(u)
        BY <2>1, NothingAsked, NothingSent DEF Spent
    <2> QED
        BY <2>1, <2>2, StageIsolated
<1>3. CASE CloseDrain
    BY <1>3, DrainFits, StageIsolated DEF Closing
<1>4. CASE CloseLeft
    BY <1>4, LeftIsolated
<1>5. CASE UNCHANGED vars
    <2>1. UNCHANGED <<serial, astray, rust, inbox, entry, db, tx, stage>>
        BY <1>5 DEF vars
    <2>2. \A u \in Threads : /\ Spent(u)' = Spent(u) /\ Sent(u)' = Sent(u) /\ Asked(u)' = Asked(u)
                             /\ Line(u)' = Line(u)
        BY <2>1, NothingAsked, NothingSent DEF Spent, Line
    <2>3. \A u \in Threads : (Alone(u)' <=> Alone(u)) /\ (Undoing(u)' <=> Undoing(u))
        BY <2>1, <2>2 DEF Alone, Closing, Undoing
    <2>4. \A u \in Threads : Kept(u) => Kept(u)'
        BY <2>1, <2>2, <2>3 DEF Kept
    <2>5. \A u \in Threads : TransactionInv(u)'
        BY <2>1, <2>2, <2>3, <2>4 DEF TransactionInv, IsolationInv, Undone, Closing
    <2> QED
        BY <2>1, <2>5 DEF IsolationInv, Lines
<1> QED
    BY <1>1, <1>2, <1>3, <1>4, <1>5, StepsAre DEF CloseNext

LEMMA Isolation == Spec => [](CommonInv /\ IsolationInv)
BY CommonInit, CommonStep, IsolationInit, IsolationStep, PTL DEF Spec

\* Whatever times out, fails, is swept, closed or shut down, a write runs in its own
\* transaction and a read in none, unless the one open on its handle is the transaction
\* of a connection the manager has lost (the serial lock of StorageManager, and the
\* timeouts of Inner::call on the other side).
THEOREM Isolates == Spec => []StatementsAreIsolated
<1>1. CommonInv /\ IsolationInv => StatementsAreIsolated
    <2> SUFFICES ASSUME CommonInv, IsolationInv, NEW l \in Lines, db[l] # <<>>,
                        Head(db[l])[2] = "execute"
                 PROVE  tx[l] \in astray \cup {IF Head(db[l])[1] \in Readers THEN None ELSE Head(db[l])[1]}
        BY DEF StatementsAreIsolated
    <2>1. db[l] \in Seq(Item) /\ Isolated(db[l], tx[l], astray)
        BY DEF CommonInv, TypeOK, Item, IsolationInv
    <2>2. 1 \in DOMAIN db[l] /\ db[l][1] = Head(db[l])
        BY <2>1
    <2>3. ~\E j \in 1 .. (1 - 1) : db[l][j][2] \in Undoes
        OBVIOUS
    <2>4. tx[l] # None => tx[l] \notin Readers
        BY DEF CommonInv, ListInv
    <2>5. CASE Head(db[l])[1] \notin Readers
        BY <2>1, <2>2, <2>5 DEF Isolated
    <2>6. CASE Head(db[l])[1] \in Readers
        <3>1. tx[l] \in astray \cup {None, Head(db[l])[1]}
            BY <2>1, <2>2, <2>3, <2>6 DEF Isolated
        <3> QED
            BY <2>4, <2>6, <3>1
    <2> QED
        BY <2>5, <2>6
<1> QED
    BY <1>1, Isolation, PTL

\* Whatever times out, what is held when the calls are over, a client or an open
\* transaction, belongs to a connection the manager has lost with a BEGIN under way, or
\* with a failed COMMIT not undone ("No connection is held between calls",
\* storage/connection.rs, is true of all others).
THEOREM HoldsOnlyStrays == Spec => []OnlyStraysAreHeld
<1>1. CommonInv /\ IsolationInv => OnlyStraysAreHeld
    <2> SUFFICES ASSUME CommonInv, IsolationInv, Quiet, ~Closing
                 PROVE  clients \subseteq astray /\ \A l \in Lines : tx[l] \in astray \cup {None}
        BY DEF OnlyStraysAreHeld
    <2>1. stage = "open" /\ \A t \in Threads : ~entry[t].live
        BY DEF Closing, Quiet
    <2>2. \A l \in Lines : In(db[l]) = {}
        BY DEF Quiet, In
    <2>3. \A t \in Threads : Sent(t) = {}
        BY <2>2, LinesAre DEF Sent
    <2>4. ASSUME NEW t \in Threads, t \in clients PROVE t \in astray
        <3>1. t \in txConn
            BY <2>3, <2>4 DEF CommonInv, ThreadInv, ClientInv
        <3> QED
            BY <2>1, <3>1 DEF CommonInv, ThreadInv, KeptInv
    <2>5. ASSUME NEW l \in Lines, tx[l] # None PROVE tx[l] \in astray
        <3>1. PICK t \in Threads : t = tx[l] /\ Line(t) = l
            BY <2>5 DEF CommonInv, TypeOK, ListInv
        <3>2. TransactionInv(t) /\ ~Undone(l)
            BY <2>2 DEF IsolationInv, Undone
        <3> QED
            BY <2>1, <2>3, <3>1, <3>2 DEF TransactionInv, Kept, Alone, Closing
    <2> QED
        BY <2>4, <2>5 DEF CommonInv, TypeOK
<1> QED
    BY <1>1, Isolation, PTL

=============================================================================
