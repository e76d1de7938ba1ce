------------------------------- MODULE Turns -------------------------------
(***************************************************************************)
(* Memori clients on one database: memory/_writer.py, memory/recall.py,    *)
(* llm/pipelines/conversation_injection.py, the writes of one augmentation *)
(* and the session methods of Memori, each over the drivers of the         *)
(* dialect, statement by statement.                                        *)
(*                                                                         *)
(* A client runs its jobs one after another.  All but "learn" share the    *)
(* client's main connection, which nobody rolls back when a job raises;    *)
(* "learn" is a batch of the db writer on a connection of its own.         *)
(*                                                                         *)
(* The databases: reads see what is committed and what the connection has  *)
(* written; a write waits for another connection's uncommitted write of    *)
(* the same row or of a row with an equal unique key, and for references   *)
(* to a row it deletes; SQLite admits one writer at a time and enforces no *)
(* foreign key; MongoDB makes each call durable.                           *)
(***************************************************************************)
EXTENDS Drivers, FiniteSets, FiniteSetsExt

CONSTANTS Clients,
          Cases        \* pairs of a dialect and a play: the jobs of each client, the
                       \* session and entity it names, and the bound on its faults

JobKinds == {"turn", "inject", "learn", "learn1", "learn2", "forget", "recall",
             "new_session", "restore"}

Play == [jobs : Seq(JobKinds), entity : STRING, session : STRING, later : STRING,
         aware : BOOLEAN, faults : Nat]

\* A case is about one of the dialects and says of each client what it does.
ASSUME TurnsAssumption == Cases \subseteq AllDialects \X [Clients -> Play]

VARIABLES dialect, play,
          rows,      \* committed rows
          last,      \* the last id given out in each table
          pend,      \* what each connection has not committed
          aborted,   \* it refuses every statement until somebody rolls it back
          schema,    \* unique keys and enforced references of each table
          job,       \* number of the job the client began last
          todo,      \* statements of that job still to run
          uuid,      \* config.session_id
          cache,     \* config.cache; 0: None
          ids,       \* the cache when the job began, and what it has looked up since
          got,       \* the id the current method has looked up
          noted,     \* rows seen by a statement, or a call, that a later one uses
          out,       \* what the job has read
          before,    \* the rows there were when the client's job began
          tries,     \* attempts of the Writer
          outcome,   \* of each job that ended
          cancelled, \* turns with a statement that raised
          faults     \* failing statements and lost connections of each client

vars == <<dialect, play, schema, rows, last, pend, aborted, job, todo, uuid, cache, ids,
          got, noted, out, before, tries, outcome, cancelled, faults>>

-----------------------------------------------------------------------------
(***************************************************************************)
(* Rows                                                                    *)
(***************************************************************************)
\* The columns every lookup of a table goes by.
NaturalKey ==
    [entity |-> {"external_id"}, process |-> {"external_id"}, session |-> {"uuid"},
     conversation |-> {"session_id"}, conversation_message |-> {"content"},
     entity_fact |-> {"entity_id", "uniq"},
     entity_fact_mention |-> {"entity_id", "fact_id", "conversation_id"},
     process_attribute |-> {"process_id", "uniq"},
     subject |-> {"uniq"}, predicate |-> {"uniq"}, object |-> {"uniq"},
     knowledge_graph |-> {"entity_id", "subject_id", "predicate_id", "object_id"}]

Tables == DOMAIN NaturalKey

\* The tables whose id a column holds.
Names ==
    [entity_id |-> "entity", process_id |-> "process", session_id |-> "session",
     conversation_id |-> "conversation", fact_id |-> "entity_fact",
     subject_id |-> "subject", predicate_id |-> "predicate", object_id |-> "object"]

Columns ==
    [NaturalKey EXCEPT !.session = @ \cup {"entity_id", "process_id"},
                       !.conversation_message = @ \cup {"conversation_id"}]

\* Of what the migrations of a dialect declare, what is about these columns.
BuiltSchema(d) ==
    [t \in Tables |->
        [keys |-> {k \in UniqueKeys(d, t) : k \subseteq Columns[t]},
         refs |-> IF d \in {"sqlite", "mongodb"} THEN {}
                  ELSE {c \in Columns[t] \cap DOMAIN Names : Names[c] \in Refers(d, t)}]]

SameRow(r, q) == r.table = q.table /\ r.id = q.id

SameKey(r, q) ==
    /\ r.table = q.table
    /\ \E k \in schema[r.table].keys : \A c \in k : r.cols[c] = q.cols[c]

\* q holds a reference to r that the database enforces.
RefersTo(q, r) ==
    \E c \in schema[q.table].refs : Names[c] = r.table /\ q.cols[c] = r.id

Has(S, t, i) == \E r \in S : r.table = t /\ r.id = i

\* A new id is never one that was used before: AUTOINCREMENT and its like.
NewId(t) == last[t] + 1

-----------------------------------------------------------------------------
(***************************************************************************)
(* Jobs: the statements a client's call sends, for each dialect            *)
(***************************************************************************)
With(datum, p) == [i \in DOMAIN p |-> [p[i] EXCEPT !.datum = datum]]

\* Writer._ensure_cached_id
Cached(t, p) == <<Unless(t, Len(p))>> \o p

\* What is done only for an id that is known.
Known(t, p) == <<When(t, Len(p))>> \o p

\* Writer._execute_transaction
Turn(D) ==
    Cached("entity", D.entity) \o Cached("process", D.process)
    \o Cached("session", D.session.create) \o Cached("conversation", D.conversation.create)
    \o With("question", D.message) \o With("answer", D.message) \o <<Commit>>

\* inject_conversation_messages and Invoke._ensure_cached_conversation_id
Inject(D) ==
    LET create == Cached("session", D.entity \o D.process \o D.session.create)
                  \o D.conversation.create
        ensure == Cached("session", D.session.read) \o Known("session", D.conversation.read)
                  \o Cached("conversation", create)
    IN  Cached("conversation", ensure) \o D.messages

\* The writes for one fact of an answer.
Fact(D, datum) == With(datum, D.fact_create.each)

\* AdvancedAugmentation's ids and writes, run by the db writer as one batch
Learn(D, facts) ==
    LET writes == D.entity \o D.process
                  \o facts \o D.fact_create.end
                  \o D.graph_create.each \o D.graph_create.end
                  \o D.attribute.each \o D.attribute.end
                  \o D.conversation.update \o <<Commit>>
    IN  Known("conversation", writes)

\* Recall.delete_entity_memories
Forget(D) == D.entity \o D.graph_delete \o D.fact_delete

\* Recall.search_facts: get_embeddings, then get_facts_by_ids of the best
Recall(D) == D.entity \o D.fact_read

\* Memori.new_session and Memori.set_session
NewSession == <<Statement("new_session", "none")>>
Restore == <<Statement("set_session", "none")>>

Programs(D) ==
    [turn |-> Turn(D), inject |-> Inject(D),
     learn |-> Learn(D, Fact(D, "f") \o Fact(D, "g")),
     learn2 |-> Learn(D, Fact(D, "g") \o Fact(D, "f")),
     learn1 |-> Learn(D, Fact(D, "f")),
     forget |-> Forget(D), recall |-> Recall(D),
     new_session |-> NewSession, restore |-> Restore]

Program(j) == Programs(Driver[dialect])[j]

Job(c) == play[c].jobs[job[c]]
Running(c) == todo[c] # <<>>
Here(c) == Head(todo[c])

Learns == {"learn", "learn1", "learn2"}
IsLearning(c) == Running(c) /\ Job(c) \in Learns
Connections == Clients \X {"main", "writer"}
Conn(c) == <<c, IF IsLearning(c) THEN "writer" ELSE "main">>

NoIds == [t \in Tables |-> 0]
NoWork == [new |-> {}, gone |-> {}]

Init ==
    /\ \E x \in Cases : dialect = x[1] /\ play = x[2]
    /\ schema = BuiltSchema(dialect)
    /\ rows = {}
    /\ last = NoIds
    /\ pend = [n \in Connections |-> NoWork]
    /\ aborted = [n \in Connections |-> FALSE]
    /\ job = [c \in Clients |-> 0]
    /\ todo = [c \in Clients |-> <<>>]
    /\ uuid = [c \in Clients |-> play[c].session]
    /\ cache = [c \in Clients |-> NoIds]
    /\ ids = [c \in Clients |-> NoIds]
    /\ got = [c \in Clients |-> 0]
    /\ noted = [c \in Clients |-> {}]
    /\ out = [c \in Clients |-> <<>>]
    /\ before = [c \in Clients |-> {}]
    /\ tries = [c \in Clients |-> 1]
    /\ outcome = [c \in Clients |-> <<>>]
    /\ cancelled = {}
    /\ faults = [c \in Clients |-> 0]

\* The row the current statement names, without its id.
Value(c, t, column) ==
    CASE column = "external_id" -> IF t = "entity" THEN play[c].entity ELSE "agent"
      [] column = "uuid" -> uuid[c]
      [] column = "uniq" -> IF t \in {"subject", "predicate", "object"} THEN t ELSE Here(c).datum
      [] column = "content" -> <<c, job[c], Here(c).datum>>
      [] OTHER -> ids[c][Names[column]]

Named(c, t) == [column \in Columns[t] |-> Value(c, t, column)]

View(c) == (rows \ pend[Conn(c)].gone) \cup pend[Conn(c)].new

\* SELECT ... WHERE the natural key
Matches(c, t) ==
    {r \in View(c) :
        r.table = t /\ \A k \in NaturalKey[t] : r.cols[k] = Value(c, t, k)}

-----------------------------------------------------------------------------
(***************************************************************************)
(* Beginnings and ends of jobs and statements                              *)
(***************************************************************************)
Begin(c) ==
    /\ ~Running(c)
    /\ job[c] < Len(play[c].jobs)
    /\ job' = [job EXCEPT ![c] = @ + 1]
    /\ todo' = [todo EXCEPT ![c] = Program(play[c].jobs[job'[c]])]
    /\ ids' = [ids EXCEPT ![c] = cache[c]]
    /\ out' = [out EXCEPT ![c] = <<>>]
    /\ before' = [before EXCEPT ![c] =
                    {<<r.table, r.id>> : r \in {q \in rows : "entity_id" \in DOMAIN q.cols}}]
    /\ UNCHANGED <<dialect, play, schema, rows, last, pend, aborted, uuid, cache, got, noted,
                   tries, outcome, cancelled, faults>>

EndJob(c, how) ==
    /\ outcome' = [outcome EXCEPT ![c] = Append(@, how)]
    /\ todo' = [todo EXCEPT ![c] = <<>>]
    /\ tries' = [tries EXCEPT ![c] = 1]
    /\ noted' = [noted EXCEPT ![c] = {}]
    /\ got' = [got EXCEPT ![c] = 0]
    /\ UNCHANGED <<job, before>>

\* The statement is done, having found g and noted N; n - 1 more are passed over.
Step(c, n, g, N) ==
    IF n = Len(todo[c]) THEN EndJob(c, "ok")
    ELSE /\ todo' = [todo EXCEPT ![c] = SubSeq(@, n + 1, Len(@))]
         /\ got' = [got EXCEPT ![c] = g]
         /\ noted' = [noted EXCEPT ![c] = N]
         /\ UNCHANGED <<job, outcome, before, tries>>

Go(c, n) == Step(c, n, got[c], noted[c])

\* The method returns id i of t; turns and injections keep it in Config.cache.
Return(c, t, i) ==
    /\ ids' = [ids EXCEPT ![c][t] = i]
    /\ cache' = IF Job(c) \in {"turn", "inject"}
                   /\ t \in {"entity", "process", "session", "conversation"}
                THEN [cache EXCEPT ![c][t] = i] ELSE cache

KeepIds == UNCHANGED <<ids, cache>>

\* An exception leaves the job.  Only the db writer's context rolls back.  A
\* PostgreSQL transaction drops what it had written; it, and a connection that
\* is lost, refuse every later statement, and nobody rolls the main one back.
Raise(c, drops, lost) ==
    /\ EndJob(c, "raised")
    /\ pend' = IF drops \/ lost \/ IsLearning(c) \/ dialect = "postgresql"
               THEN [pend EXCEPT ![Conn(c)] = NoWork] ELSE pend
    /\ aborted' = [aborted EXCEPT ![Conn(c)] =
                     ~IsLearning(c) /\ dialect # "mongodb" /\ (lost \/ @ \/ dialect = "postgresql")]
    /\ cancelled' = IF Job(c) = "turn" THEN cancelled \cup {<<c, job[c]>>} ELSE cancelled
    /\ UNCHANGED <<dialect, play, schema, rows, last, uuid, cache, ids, out>>

\* The statement writes: add and remove are sets of rows.
Write(c, add, remove) ==
    IF dialect = "mongodb" THEN
        /\ rows' = (rows \ remove) \cup add
        /\ UNCHANGED pend
    ELSE
        /\ pend' = [pend EXCEPT ![Conn(c)] =
                      [new |-> (@.new \ remove) \cup add,
                       gone |-> @.gone \cup (remove \cap rows)]]
        /\ UNCHANGED rows

Untouched == UNCHANGED <<dialect, play, schema, aborted, uuid, cancelled, faults>>

NoWrite == UNCHANGED <<rows, last, pend>>

-----------------------------------------------------------------------------
(***************************************************************************)
(* What the next statement writes, and who holds it back                   *)
(***************************************************************************)
Adds == {"add", "add_ignoring", "add_absent", "upsert", "count_or_add"}
Erases == {"erase", "erase_orphans", "erase_noted", "erase_unused"}
Local == {"unless", "when", "return_recent", "new_session", "set_session"}

Draft(c) == [table |-> Here(c).table, id |-> NewId(Here(c).table),
             cols |-> Named(c, Here(c).table), num |-> 1]

Duplicates(c) == {q \in View(c) : SameKey(Draft(c), q)}

Dangling(c) ==
    \E k \in schema[Here(c).table].refs :
        LET i == Value(c, Here(c).table, k)
        IN  i # 0 /\ ~Has(View(c), Names[k], i)

\* The driver leaves a statement out when an id it needs is None.
LeftOut(c) ==
    /\ Here(c).table \in {"entity_fact_mention", "knowledge_graph"}
    /\ Here(c).do \in Adds
    /\ \E k \in Columns[Here(c).table] : Value(c, Here(c).table, k) = 0

\* The rows of t that a row of the knowledge graph refers to.
Used(c, t) ==
    {r \in View(c) :
        /\ r.table = t
        /\ \E q \in View(c), k \in NaturalKey["knowledge_graph"] :
              q.table = "knowledge_graph" /\ Names[k] = t /\ q.cols[k] = r.id}

InTable(c, t) == {r \in View(c) : r.table = t}

Erased(c) ==
    LET t == Here(c).table
    IN  CASE Here(c).do = "erase" -> {r \in InTable(c, t) : r.cols["entity_id"] = ids[c].entity}
          [] Here(c).do = "erase_orphans" -> InTable(c, t) \ Used(c, t)
          [] Here(c).do = "erase_noted" -> noted[c] \cap View(c)
          [] Here(c).do = "erase_unused" -> {r \in InTable(c, t) : ~Has(noted[c], t, r.id)}

\* ON DELETE CASCADE: the rows that refer to them go too, whoever wrote them.
Cascade(c) == Erased(c) \cup {q \in View(c) : \E r \in Erased(c) : RefersTo(q, r)}

\* The rows whose count the statement raises.
Counted(c) ==
    CASE Here(c).do = "upsert" -> Duplicates(c)
      [] Here(c).do \in {"count_found", "count_or_add"} ->
            {r \in InTable(c, Here(c).table) : r.id = got[c]}
      [] Here(c).do = "update" -> {r \in InTable(c, Here(c).table) : r.id = ids[c][Here(c).table]}
      [] OTHER -> {}

Inserts(c) ==
    CASE Here(c).do = "add" -> TRUE
      [] Here(c).do = "add_absent" -> got[c] = 0
      [] Here(c).do = "add_ignoring" -> Duplicates(c) = {}
      [] Here(c).do \in {"upsert", "count_or_add"} -> Counted(c) = {}
      [] OTHER -> FALSE

Touched(n) == pend[n].new \cup pend[n].gone

\* The connections whose uncommitted work a write of the rows S waits for.
Holders(c, S, erases) ==
    {n \in Connections \ {Conn(c)} :
        /\ Touched(n) # {}
        /\ S # {}
        /\ \/ dialect = "sqlite"
           \/ \E q \in Touched(n), r \in S : SameRow(q, r) \/ SameKey(q, r)
           \/ \E q \in pend[n].gone, r \in S : RefersTo(r, q)
           \/ erases /\ \E q \in pend[n].new, r \in S : RefersTo(q, r)}

WaitsFor(c) ==
    CASE Here(c).do \in Local -> {}
      [] Here(c).do \in Erases -> Holders(c, Cascade(c), TRUE)
      [] LeftOut(c) -> {}
      [] Here(c).do \in Adds ->
            Holders(c, Counted(c) \cup (IF Inserts(c) THEN {Draft(c)} ELSE {}), FALSE)
      [] OTHER -> Holders(c, Counted(c), FALSE)

Ready(c, kinds) ==
    /\ Running(c)
    /\ Here(c).do \in kinds
    /\ Here(c).do \in Local \/ ~aborted[Conn(c)]
    /\ WaitsFor(c) = {}

-----------------------------------------------------------------------------
(***************************************************************************)
(* Statements that read                                                    *)
(***************************************************************************)
FoundIds(c) ==
    LET m == {r.id : r \in Matches(c, Here(c).table)}
    IN  IF m = {} THEN {0} ELSE m

FindRow(c) ==
    /\ Ready(c, {"find"})
    /\ \E i \in FoundIds(c) : Step(c, 1, i, noted[c])
    /\ UNCHANGED <<ids, cache, out>>
    /\ NoWrite /\ Untouched

LookUp(c) ==
    /\ Ready(c, {"look", "take"})
    /\ Here(c).do = "take" => FoundIds(c) # {0}
    /\ \E i \in FoundIds(c) : Return(c, Here(c).table, i)
    /\ Go(c, 1)
    /\ UNCHANGED out
    /\ NoWrite /\ Untouched

\* fetchone() is None and has no get: AttributeError.
TakeNothing(c) ==
    /\ Ready(c, {"take"})
    /\ FoundIds(c) = {0}
    /\ Raise(c, FALSE, FALSE)
    /\ UNCHANGED faults

\* A MongoDB client gives dates their time zone when it is told to.
Comparable(c) == dialect = "mongodb" => play[c].aware

\* conversation.create: the conversation found is within the timeout, or not.
JudgeConversation(c) ==
    /\ Ready(c, {"return_recent"})
    /\ got[c] = 0 \/ Comparable(c)
    /\ \/ got[c] # 0 /\ Return(c, "conversation", got[c]) /\ Go(c, Here(c).skip + 1)
       \/ KeepIds /\ Go(c, 1)
    /\ UNCHANGED out
    /\ NoWrite /\ Untouched

\* MongoDB: a date with a time zone minus one without raises TypeError.
JudgeRaises(c) ==
    /\ Ready(c, {"return_recent"})
    /\ got[c] # 0 /\ ~Comparable(c)
    /\ Raise(c, FALSE, FALSE)
    /\ UNCHANGED faults

\* An unordered read gives any order; two stand for all.
ReadMessages(c) ==
    LET messages == {r \in InTable(c, "conversation_message") :
                       r.cols["conversation_id"] = ids[c].conversation}
        ordered == SetToSortSeq({r : r \in messages}, LAMBDA r, q : r.id < q.id)
    IN  /\ Ready(c, {"read_ordered", "read_unordered"})
        /\ \E s \in {ordered} \cup (IF Here(c).do = "read_ordered" THEN {} ELSE {Reverse(ordered)}) :
              out' = [out EXCEPT ![c] = s]
        /\ Go(c, 1)
        /\ KeepIds
        /\ NoWrite /\ Untouched

NoteIds(c) ==
    /\ Ready(c, {"read_ids", "note_orphans", "note_used"})
    /\ LET t == Here(c).table
           seen == CASE Here(c).do = "read_ids" ->
                           {r \in InTable(c, t) : r.cols["entity_id"] = ids[c].entity}
                     [] Here(c).do = "note_orphans" -> InTable(c, t) \ Used(c, t)
                     [] Here(c).do = "note_used" -> Used(c, t)
       IN  Step(c, 1, got[c], {r \in noted[c] : r.table # t} \cup seen)
    /\ UNCHANGED <<ids, cache, out>>
    /\ NoWrite /\ Untouched

\* get_facts_by_ids asks for ids only, and leaves out those that are gone.
ReadNoted(c) ==
    /\ Ready(c, {"read_rows"})
    /\ out' = [out EXCEPT ![c] =
                 SetToSeq({r \in InTable(c, Here(c).table) : Has(noted[c], r.table, r.id)})]
    /\ Go(c, 1)
    /\ KeepIds
    /\ NoWrite /\ Untouched

-----------------------------------------------------------------------------
(***************************************************************************)
(* Statements that write                                                   *)
(***************************************************************************)
Ignores == dialect \in {"mysql", "tidb", "oceanbase"} \* INSERT IGNORE: foreign keys too

InsertRow(c) ==
    /\ Ready(c, Adds)
    /\ ~LeftOut(c)
    /\ Inserts(c) /\ Duplicates(c) = {} /\ ~Dangling(c)
    /\ Write(c, {Draft(c)}, {})
    /\ last' = [last EXCEPT ![Here(c).table] = NewId(Here(c).table)]
    /\ IF dialect = "mongodb" THEN Return(c, Here(c).table, NewId(Here(c).table))
                              ELSE KeepIds
    /\ Go(c, 1)
    /\ UNCHANGED out
    /\ Untouched

InsertRaises(c) ==
    /\ Ready(c, Adds)
    /\ ~LeftOut(c)
    /\ Inserts(c)
    /\ Duplicates(c) # {} \/ (Dangling(c) /\ ~(Ignores /\ Here(c).do = "add_ignoring"))
    /\ Raise(c, FALSE, FALSE)
    /\ UNCHANGED faults

CountRow(c) ==
    /\ Ready(c, Adds \cup {"count_found", "update"})
    /\ ~LeftOut(c)
    /\ Counted(c) # {}
    /\ Write(c, {[r EXCEPT !.num = IF Here(c).do = "update" THEN 2 ELSE @ + 1] : r \in Counted(c)},
             Counted(c))
    /\ Go(c, 1)
    /\ UNCHANGED <<last, ids, cache, out>>
    /\ Untouched

\* A duplicate that is ignored, a row that is gone, a statement left out.
WriteNothing(c) ==
    /\ Ready(c, Adds \cup {"count_found", "update"})
    /\ \/ LeftOut(c)
       \/ ~Inserts(c) /\ Counted(c) = {}
       \/ Inserts(c) /\ Duplicates(c) = {} /\ Dangling(c)
             /\ Ignores /\ Here(c).do = "add_ignoring"
    /\ IF dialect = "mongodb" /\ Here(c).do = "add_absent"
          THEN Return(c, Here(c).table, got[c]) ELSE KeepIds
    /\ Go(c, 1)
    /\ UNCHANGED out
    /\ NoWrite /\ Untouched

EraseRows(c) ==
    /\ Ready(c, Erases)
    /\ Write(c, {}, Cascade(c))
    /\ Go(c, 1)
    /\ UNCHANGED <<last, ids, cache, out>>
    /\ Untouched

CommitWork(c) ==
    /\ Ready(c, {"commit"})
    /\ rows' = View(c)
    /\ pend' = [pend EXCEPT ![Conn(c)] = NoWork]
    /\ Go(c, 1)
    /\ UNCHANGED <<last, ids, cache, out>>
    /\ Untouched

-----------------------------------------------------------------------------
(***************************************************************************)
(* What the client decides by itself                                       *)
(***************************************************************************)
Decide(c) ==
    /\ Ready(c, {"unless", "when"})
    /\ LET known == ids[c][Here(c).table] # 0
       IN  Go(c, IF (Here(c).do = "unless") = known THEN Here(c).skip + 1 ELSE 1)
    /\ UNCHANGED <<ids, cache, out>>
    /\ NoWrite /\ Untouched

\* Seeded fault: a new session keeps the ids of the last one.
SessionKeepsIds(c) ==
    /\ Ready(c, {"new_session", "set_session"})
    /\ uuid' = [uuid EXCEPT ![c] =
                  IF Here(c).do = "new_session" THEN play[c].later ELSE play[c].session]
    /\ Go(c, 1)
    /\ UNCHANGED <<dialect, play, schema, aborted, ids, cache, out, cancelled, faults>>
    /\ NoWrite

ChangeSession(c) ==
    /\ Ready(c, {"new_session", "set_session"})
    /\ IF Here(c).do = "new_session"
          THEN /\ uuid' = [uuid EXCEPT ![c] = play[c].later]
               /\ cache' = [cache EXCEPT ![c] = NoIds]
          ELSE /\ uuid' = [uuid EXCEPT ![c] = play[c].session]
               /\ UNCHANGED cache
    /\ Go(c, 1)
    /\ UNCHANGED <<dialect, play, schema, aborted, ids, out, cancelled, faults>>
    /\ NoWrite

-----------------------------------------------------------------------------
(***************************************************************************)
(* Failures                                                                *)
(***************************************************************************)
CanFail(c) ==
    /\ Running(c) /\ Here(c).do \notin Local /\ ~aborted[Conn(c)]
    /\ faults[c] < play[c].faults

\* A statement raises and the connection stays, or it is lost with its work.
StatementFails(c) ==
    /\ CanFail(c)
    /\ \E lost \in BOOLEAN : Raise(c, FALSE, lost)
    /\ faults' = [faults EXCEPT ![c] = @ + 1]

\* CockroachDB answers "restart transaction": the Writer rolls back and
\* starts over with the ids it has cached.
RestartTransaction(c) ==
    /\ CanFail(c)
    /\ dialect = "postgresql"
    /\ Job(c) = "turn"
    /\ tries[c] < 3
    /\ tries' = [tries EXCEPT ![c] = @ + 1]
    /\ todo' = [todo EXCEPT ![c] = Program("turn")]
    /\ pend' = [pend EXCEPT ![Conn(c)] = NoWork]
    /\ faults' = [faults EXCEPT ![c] = @ + 1]
    /\ UNCHANGED <<dialect, play, schema, rows, last, aborted, job, uuid, cache, ids, got,
                   noted, out, before, outcome, cancelled>>

\* Every statement on an aborted connection raises.
AbortedRaises(c) ==
    /\ Running(c) /\ Here(c).do \notin Local
    /\ aborted[Conn(c)]
    /\ Raise(c, FALSE, FALSE)
    /\ UNCHANGED faults

\* Two wait for each other, and the database picks one of them.
DeadlockVictim(c) ==
    /\ Running(c)
    /\ \E d \in Clients \ {c} :
          /\ Running(d)
          /\ pend[Conn(c)] # NoWork /\ pend[Conn(d)] # NoWork
          /\ Conn(d) \in WaitsFor(c)
          /\ Conn(c) \in WaitsFor(d)
    /\ Raise(c, dialect # "oracle", FALSE)
    /\ UNCHANGED faults

\* Those it waits for are not running: what they left is held until the
\* timeout, which PostgreSQL and Oracle do not have.
LockTimeout(c) ==
    /\ Running(c)
    /\ dialect \notin {"postgresql", "oracle"}
    /\ LET holders == WaitsFor(c)
       IN  holders # {} /\ \A n \in holders : ~Running(n[1]) \/ Conn(n[1]) # n
    /\ Raise(c, FALSE, FALSE)
    /\ UNCHANGED faults

Act(c) ==
    \/ Begin(c)
    \/ FindRow(c) \/ LookUp(c) \/ TakeNothing(c) \/ JudgeConversation(c) \/ JudgeRaises(c)
    \/ ReadMessages(c) \/ NoteIds(c) \/ ReadNoted(c)
    \/ InsertRow(c) \/ InsertRaises(c) \/ CountRow(c) \/ WriteNothing(c)
    \/ EraseRows(c) \/ CommitWork(c)
    \/ Decide(c) \/ ChangeSession(c)
    \/ AbortedRaises(c) \/ DeadlockVictim(c) \/ LockTimeout(c)

Fail(c) == StatementFails(c) \/ RestartTransaction(c)

Next == \E c \in Clients : Act(c) \/ Fail(c)

\* While some client can go on, one of them does.
Fairness == WF_vars(\E c \in Clients : Act(c))

Spec == Init /\ [][Next]_vars /\ Fairness
-----------------------------------------------------------------------------
(***************************************************************************)
(* Properties                                                              *)
(***************************************************************************)
Done == \A c \in Clients : ~Running(c) /\ job[c] = Len(play[c].jobs)

Played(c, kinds) == \E i \in DOMAIN play[c].jobs : play[c].jobs[i] \in kinds

Forgets(c) == Played(c, {"forget"})

EnforcesKeys == dialect \notin {"sqlite", "mongodb"}

\* The shape of the state.
TypeOK ==
    /\ <<dialect, play>> \in Cases
    /\ \A r \in rows : r.table \in Tables /\ r.id \in 1 .. last[r.table] /\ r.num \in Nat \ {0}
    /\ \A n \in Connections : pend[n].gone \subseteq rows
    /\ \A n \in Connections : aborted[n] => pend[n] = NoWork
    /\ \A c \in Clients :
          /\ job[c] = Len(outcome[c]) + (IF Running(c) THEN 1 ELSE 0)
          /\ \A t \in Tables : ids[c][t] \in 0 .. last[t] /\ cache[c][t] \in 0 .. last[t]
    /\ \A c \in Clients : faults[c] \in 0 .. play[c].faults

OneRowPerName ==
    \A r, q \in rows :
        r.table = q.table /\ (\A k \in NaturalKey[r.table] : r.cols[k] = q.cols[k]) => r = q

ReferencesResolve ==
    EnforcesKeys \/ (\A c \in Clients : ~Forgets(c) /\ ~aborted[<<c, "main">>]) =>
        \A r \in rows : \A k \in Columns[r.table] \cap DOMAIN Names :
            r.cols[k] # 0 => Has(rows, Names[k], r.cols[k])

\* Two clients that create the same entity, process, session, conversation,
\* fact or triple at the same time end up with one row: the inserts of every
\* driver rest on a unique key of its migrations.  And no row refers to one
\* that is gone: where foreign keys are enforced, whoever forgets an entity
\* meanwhile; in SQLite, which has the declarations but does not check them,
\* and in MongoDB, while nobody does and no main connection was lost: it may
\* take along a conversation that is cached, for which its client goes on to
\* learn.
RowsAreSound == TypeOK /\ OneRowPerName /\ ReferencesResolve

\* An id in Config.cache is that of a row its connection sees: the Writer keeps
\* it when it rolls back and when a statement raises, and every later turn
\* writes under it.  MySQL and its heirs are left out once a statement of the
\* client has failed: what a failed commit left is seen, and cached, by the next
\* job, and a deadlock that this one loses takes it away.
CachedIdsHold ==
    \A c \in Clients :
        LET own == pend[<<c, "main">>]
        IN  ~aborted[<<c, "main">>] /\ (Ignores => faults[c] = 0) =>
                \A t \in {"entity", "process", "session", "conversation"} :
                    cache[c][t] # 0 => Has((rows \ own.gone) \cup own.new, t, cache[c][t])

TurnMessages(c, i) == {r \in rows : r.table = "conversation_message"
                                      /\ SubSeq(r.cols["content"], 1, 2) = <<c, i>>}

\* A turn that returned is in the database, once, whatever connection was lost
\* and however often it was retried; one that is under way and of which no
\* statement raised is there whole or not at all, except in MongoDB.
TurnsAreStored ==
    \A c \in Clients : \A i \in DOMAIN play[c].jobs :
        play[c].jobs[i] = "turn" /\ <<c, i>> \notin cancelled =>
            LET stored == Cardinality(TurnMessages(c, i))
            IN  IF i \in DOMAIN outcome[c] THEN stored = 2
                ELSE stored \in {0, 2} \/ (dialect = "mongodb" /\ stored = 1)

\* The session a client is in when it runs its i-th job.
SessionAt(c, i) ==
    LET changes == {j \in 1 .. i : play[c].jobs[j] \in {"new_session", "restore"}}
    IN  IF changes # {} /\ play[c].jobs[Max(changes)] = "new_session"
        THEN play[c].later ELSE play[c].session

InTheirSession ==
    \A r \in rows : r.table = "conversation_message" =>
        \E v, s \in rows :
            /\ v.table = "conversation" /\ v.id = r.cols["conversation_id"]
            /\ s.table = "session" /\ s.id = v.cols["session_id"]
            /\ s.cols["uuid"] = SessionAt(r.cols["content"][1], r.cols["content"][2])

\* The messages of a turn are in the conversation of the session the client
\* is in, unless it went back to an earlier session by set_session.
TurnsInTheirSession == (\A c \in Clients : ~Played(c, {"restore"})) => InTheirSession

\* The same of a client that uses set_session, which the documentation offers
\* to resume a session: the cached conversation stays that of the session it
\* left, and takes the turn.
RestoredTurnsInTheirSession == InTheirSession

\* Every learned fact is counted: when all is done, a fact and a triple have
\* been counted once for each batch of their entity that returned.
CountsAreExact ==
    Done /\ (\A c \in Clients : faults[c] = 0) /\ (\A c \in Clients : ~Forgets(c)) =>
        \A r \in rows : r.table \in {"entity_fact", "knowledge_graph"} =>
            LET batches == {x \in Clients \X (1 .. 4) :
                              /\ x[2] \in DOMAIN outcome[x[1]]
                              /\ play[x[1]].jobs[x[2]] \in Learns
                              /\ cache[x[1]].conversation # 0
                              /\ \E e \in rows :
                                    /\ e.table = "entity" /\ e.id = r.cols["entity_id"]
                                    /\ e.cols["external_id"] = play[x[1]].entity}
                returned == {x \in batches : outcome[x[1]][x[2]] = "ok"}
            IN  Cardinality(returned) <= r.num /\ r.num <= Cardinality(batches)

\* r is about the entity the client names, of those there are in S.
OfClient(c, S, r) ==
    \E e \in S : /\ e.table = "entity" /\ e.id = r.cols["entity_id"]
                 /\ e.cols["external_id"] = play[c].entity

Forgotten(c) ==
    Job(c) = "forget" /\ outcome'[c] = Append(outcome[c], "ok") =>
        \A r \in rows' : ~ /\ r.table \in {"entity_fact", "knowledge_graph"}
                           /\ OfClient(c, rows', r)
                           /\ <<r.table, r.id>> \in before[c]

KeepsOthers(c) ==
    Job(c) = "forget" /\ todo'[c] # todo[c] =>
        \A r \in rows :
            /\ r.table \in {"entity_fact", "entity_fact_mention", "knowledge_graph"}
            /\ ~OfClient(c, rows', r)
            => \E q \in rows' : SameRow(r, q)

\* When delete_entity_memories returns, the facts and triples its entity had
\* when it was called are gone; what others learn meanwhile may stay.  It
\* deletes nothing that is another entity's.  PostgreSQL and Oracle are left out
\* of that: their DELETE of a subject that was free when it began cascades to
\* the triple another client has committed since.
ForgetIsExact ==
    [][\A c \in Clients : Running(c) =>
          /\ Forgotten(c)
          /\ dialect \notin {"postgresql", "oracle"} => KeepsOthers(c)]_vars

\* "Delete memory records for an entity", in PostgreSQL too.
PostgresqlForgetKeepsOthers ==
    [][\A c \in Clients : Running(c) => KeepsOthers(c)]_vars

\* The history that is put before a prompt has each turn's question before
\* its answer, in the drivers that ask for an order.
HistoryInOrder ==
    dialect \in {"sqlite", "oracle"} =>
        \A c \in Clients : \A i, j \in DOMAIN out[c] :
            /\ out[c][i].table = "conversation_message"
            /\ SubSeq(out[c][i].cols["content"], 1, 2) = SubSeq(out[c][j].cols["content"], 1, 2)
            /\ out[c][i].cols["content"][3] = "question" /\ i # j
            => i < j

\* Every job ends: nobody waits for ever for a lock.
JobsEnd == <>(Done \/ (dialect = "oracle" /\ \E c \in Clients : faults[c] > 0))
=============================================================================
