------------------------------ MODULE Drivers ------------------------------
(***************************************************************************)
(* memori/storage/drivers: what each method of a driver sends to the       *)
(* database, in order.  A method is a sequence of statements; a method     *)
(* that takes a list runs "each" once per element and then "end".          *)
(*                                                                         *)
(* Every lookup of these drivers is by the columns that name a row, so a   *)
(* statement says only its kind, its table and the datum it is about.      *)
(* CockroachDB is served by the PostgreSQL driver, MariaDB by the MySQL    *)
(* one.                                                                    *)
(***************************************************************************)
EXTENDS Schema

Statement(kind, t) == [do |-> kind, table |-> t, skip |-> 0, datum |-> "none"]

Commit             == Statement("commit", "none")
Find(t)            == Statement("find", t)          \* SELECT id, for the method itself
Look(t)            == Statement("look", t)          \* SELECT id: absent is None
Take(t)            == Statement("take", t)          \* .fetchone().get(): absent raises
Add(t)             == Statement("add", t)           \* a duplicate raises
AddIgnoring(t)     == Statement("add_ignoring", t)  \* a duplicate does nothing
AddAbsent(t)       == Statement("add_absent", t)    \* insert if the find found nothing
Upsert(t)          == Statement("upsert", t)        \* insert, or count once more
CountFound(t)      == Statement("count_found", t)   \* $inc what the find found
CountOrAdd(t)      == Statement("count_or_add", t)  \* the two branches of a MERGE
Update(t)          == Statement("update", t)
Erase(t)           == Statement("erase", t)         \* every row of the entity
EraseOrphans(t)    == Statement("erase_orphans", t)
NoteOrphans(t)     == Statement("note_orphans", t)  \* what the DELETE sees when it starts
EraseNoted(t)      == Statement("erase_noted", t)
NoteUsed(t)        == Statement("note_used", t)     \* distinct
EraseUnused(t)     == Statement("erase_unused", t)  \* delete_many $nin
ReadOrdered(t)     == Statement("read_ordered", t)
ReadUnordered(t)   == Statement("read_unordered", t)
ReadIds(t)         == Statement("read_ids", t)
ReadRows(t)        == Statement("read_rows", t)

\* The conversation found is recent: return it, past n statements.
ReturnRecent(n) == [Statement("return_recent", "conversation") EXCEPT !.skip = n]

\* The recent conversation of the session, or p.
RecentOr(p) == <<Find("conversation"), ReturnRecent(Len(p))>> \o p

\* The id of t is known already: go on past n statements.
Unless(t, n) == [Statement("unless", t) EXCEPT !.skip = n]

\* Nothing is known of t: go on past n statements.
When(t, n) == [Statement("when", t) EXCEPT !.skip = n]

(***************************************************************************)
(* Shapes the drivers share                                                *)
(***************************************************************************)
IgnoreAndTake(t) == <<AddIgnoring(t), Commit, Take(t)>>

\* MERGE ... WHEN NOT MATCHED: the match is made before the insert.
Merge(t) == <<Find(t), AddAbsent(t)>>

MergeAndTake(t) == Merge(t) \o <<Commit, Take(t)>>

MergeCounting(t) == <<Find(t), CountOrAdd(t)>>

FindOrInsert(t) == <<Find(t), AddAbsent(t)>>

FindThenCount(t) == <<Find(t), CountFound(t), AddAbsent(t)>>

\* One row after the other, then the triple that refers to them.
Triple(subject, predicate, object, last) == subject \o predicate \o object \o last

(***************************************************************************)
(* SQLite                                                                  *)
(***************************************************************************)
SqliteConversation ==
    [create |-> RecentOr(IgnoreAndTake("conversation")),
     update |-> <<Update("conversation"), Commit>>,
     read   |-> <<Look("conversation")>>]

SqliteMessage == <<Add("conversation_message")>>

\* Seeded fault: the history is read without ORDER BY.
MessagesInAnyOrder == <<ReadUnordered("conversation_message")>>

SqliteMessages == <<ReadOrdered("conversation_message")>>

SqliteEntity == IgnoreAndTake("entity")

SqliteFactCreate ==
    [each |-> <<Upsert("entity_fact"), Look("entity_fact"),
                AddIgnoring("entity_fact_mention")>>,
     end  |-> <<Commit>>]

SqliteFactRead == <<ReadIds("entity_fact"), ReadRows("entity_fact")>>

SqliteFactDelete == <<Erase("entity_fact"), Commit>>

SqliteGraphCreate ==
    [each |-> Triple(IgnoreAndTake("subject"), IgnoreAndTake("predicate"), IgnoreAndTake("object"),
                    <<Upsert("knowledge_graph"), Commit>>),
     end  |-> <<>>]

SqliteGraphDelete ==
    <<Erase("knowledge_graph"), EraseOrphans("subject"), EraseOrphans("predicate"),
      EraseOrphans("object"), Commit>>

SqliteProcess == IgnoreAndTake("process")

SqliteAttribute == [each |-> <<Upsert("process_attribute")>>, end |-> <<Commit>>]

SqliteSession == [create |-> IgnoreAndTake("session"), read |-> <<Look("session")>>]

(***************************************************************************)
(* PostgreSQL: a DELETE whose row is locked by a new reference to it waits, *)
(* and then deletes what it saw when it started.  Facts, attributes and    *)
(* the rows of the graph are left to the caller's commit.                  *)
(***************************************************************************)
\* Seeded fault: a new conversation is left to a commit that need not come.
ConversationUncommitted ==
    [create |-> RecentOr(<<AddIgnoring("conversation"), Take("conversation")>>),
     update |-> <<Update("conversation"), Commit>>,
     read   |-> <<Look("conversation")>>]

PostgresqlConversation ==
    [create |-> RecentOr(IgnoreAndTake("conversation")),
     update |-> <<Update("conversation"), Commit>>,
     read   |-> <<Look("conversation")>>]

\* Seeded fault: every message is committed.
MessageCommitted == <<Add("conversation_message"), Commit>>

PostgresqlMessage == <<Add("conversation_message")>>

PostgresqlMessages == <<ReadUnordered("conversation_message")>>

PostgresqlEntity == IgnoreAndTake("entity")

PostgresqlFactCreate ==
    [each |-> <<Upsert("entity_fact"), Look("entity_fact"),
                AddIgnoring("entity_fact_mention")>>,
     end  |-> <<>>]

PostgresqlFactRead == <<ReadIds("entity_fact"), ReadRows("entity_fact")>>

PostgresqlFactDelete == <<Erase("entity_fact"), Commit>>

PostgresqlGraphCreate ==
    [each |-> Triple(IgnoreAndTake("subject"), IgnoreAndTake("predicate"), IgnoreAndTake("object"),
                    <<Upsert("knowledge_graph")>>), end |-> <<>>]

PostgresqlGraphDelete ==
    <<Erase("knowledge_graph"), NoteOrphans("subject"), EraseNoted("subject"),
      NoteOrphans("predicate"), EraseNoted("predicate"),
      NoteOrphans("object"), EraseNoted("object"), Commit>>

PostgresqlProcess == IgnoreAndTake("process")

PostgresqlAttribute == [each |-> <<Upsert("process_attribute")>>, end |-> <<>>]

\* Seeded fault: a session is returned before it is committed.
SessionUncommitted ==
    [create |-> <<AddIgnoring("session"), Take("session")>>, read |-> <<Look("session")>>]

PostgresqlSession == [create |-> IgnoreAndTake("session"), read |-> <<Look("session")>>]

(***************************************************************************)
(* MySQL; TiDB inherits all of it, OceanBase all but the facts.            *)
(***************************************************************************)
MysqlConversation ==
    [create |-> RecentOr(IgnoreAndTake("conversation")),
     update |-> <<Update("conversation"), Commit>>,
     read   |-> <<Look("conversation")>>]

MysqlMessage == <<Add("conversation_message")>>

MysqlMessages == <<ReadUnordered("conversation_message")>>

MysqlGraphCreate ==
    [each |-> Triple(IgnoreAndTake("subject"), IgnoreAndTake("predicate"), IgnoreAndTake("object"),
                    <<Upsert("knowledge_graph"), Commit>>),
     end  |-> <<>>]

MysqlGraphDelete ==
    <<Erase("knowledge_graph"), EraseOrphans("subject"), EraseOrphans("predicate"),
      EraseOrphans("object"), Commit>>

MysqlEntity == IgnoreAndTake("entity")

\* Seeded fault: a fact that is there already is not counted.
FactIgnored ==
    [each |-> <<AddIgnoring("entity_fact"), Look("entity_fact"),
                AddIgnoring("entity_fact_mention")>>,
     end  |-> <<Commit>>]

MysqlFactCreate ==
    [each |-> <<Upsert("entity_fact"), Look("entity_fact"),
                AddIgnoring("entity_fact_mention")>>,
     end  |-> <<Commit>>]

MysqlFactRead == <<ReadIds("entity_fact"), ReadRows("entity_fact")>>

\* Seeded fault: the connection is closed without a commit.
FactsStay == <<Erase("entity_fact")>>

MysqlFactDelete == <<Erase("entity_fact"), Commit>>

MysqlProcess == IgnoreAndTake("process")

MysqlAttribute == [each |-> <<Upsert("process_attribute")>>, end |-> <<Commit>>]

MysqlSession == [create |-> IgnoreAndTake("session"), read |-> <<Look("session")>>]

OceanbaseFactCreate ==
    [each |-> <<Upsert("entity_fact"), Look("entity_fact"),
                AddIgnoring("entity_fact_mention")>>,
     end  |-> <<Commit>>]

(***************************************************************************)
(* Oracle: MERGE decides by what it sees when it starts and raises when    *)
(* another transaction has inserted the row in the meantime.               *)
(***************************************************************************)
OracleConversation ==
    [create |-> RecentOr(MergeAndTake("conversation")),
     update |-> <<Update("conversation"), Commit>>,
     read   |-> <<Look("conversation")>>]

OracleMessage == <<Add("conversation_message")>>

OracleMessages == <<ReadOrdered("conversation_message")>>

OracleEntity == MergeAndTake("entity")

OracleFactCreate ==
    [each |-> MergeCounting("entity_fact") \o <<Look("entity_fact")>>
                \o Merge("entity_fact_mention"),
     end  |-> <<Commit>>]

OracleFactRead == <<ReadIds("entity_fact"), ReadRows("entity_fact")>>

OracleFactDelete == <<Erase("entity_fact"), Commit>>

OracleGraphCreate ==
    [each |-> Triple(MergeAndTake("subject"), MergeAndTake("predicate"), MergeAndTake("object"),
                    MergeCounting("knowledge_graph") \o <<Commit>>),
     end  |-> <<>>]

OracleGraphDelete ==
    <<Erase("knowledge_graph"), NoteOrphans("subject"), EraseNoted("subject"),
      NoteOrphans("predicate"), EraseNoted("predicate"),
      NoteOrphans("object"), EraseNoted("object"), Commit>>

OracleProcess == MergeAndTake("process")

OracleAttribute == [each |-> MergeCounting("process_attribute"), end |-> <<Commit>>]

OracleSession == [create |-> MergeAndTake("session"), read |-> <<Look("session")>>]

(***************************************************************************)
(* MongoDB: each call is durable by itself.                                *)
(***************************************************************************)
MongodbConversation ==
    [create |-> RecentOr(<<Add("conversation")>>),
     update |-> <<Update("conversation")>>,
     read   |-> <<Look("conversation")>>]

MongodbMessage == <<Add("conversation_message")>>

MongodbMessages == <<ReadUnordered("conversation_message")>>

MongodbEntity == FindOrInsert("entity")

MongodbFactCreate ==
    [each |-> FindThenCount("entity_fact") \o <<AddIgnoring("entity_fact_mention")>>,
     end  |-> <<>>]

MongodbFactRead == <<ReadIds("entity_fact"), ReadRows("entity_fact")>>

MongodbFactDelete == <<Erase("entity_fact_mention"), Erase("entity_fact")>>

MongodbGraphCreate ==
    [each |-> Triple(FindOrInsert("subject"), FindOrInsert("predicate"), FindOrInsert("object"),
                    FindThenCount("knowledge_graph")), end |-> <<>>]

MongodbGraphDelete ==
    <<Erase("knowledge_graph"),
      NoteUsed("subject"), NoteUsed("predicate"), NoteUsed("object"),
      EraseUnused("subject"), EraseUnused("predicate"), EraseUnused("object")>>

MongodbProcess == FindOrInsert("process")

MongodbAttribute == [each |-> FindThenCount("process_attribute"), end |-> <<>>]

MongodbSession == [create |-> FindOrInsert("session"), read |-> <<Look("session")>>]

(***************************************************************************)
(* Driver.__init__ of each dialect                                         *)
(***************************************************************************)
SqliteDriver ==
    [conversation |-> SqliteConversation, message |-> SqliteMessage,
     messages |-> SqliteMessages, entity |-> SqliteEntity,
     fact_create |-> SqliteFactCreate, fact_read |-> SqliteFactRead,
     fact_delete |-> SqliteFactDelete, graph_create |-> SqliteGraphCreate,
     graph_delete |-> SqliteGraphDelete, process |-> SqliteProcess,
     attribute |-> SqliteAttribute, session |-> SqliteSession]

PostgresqlDriver ==
    [conversation |-> PostgresqlConversation, message |-> PostgresqlMessage,
     messages |-> PostgresqlMessages, entity |-> PostgresqlEntity,
     fact_create |-> PostgresqlFactCreate, fact_read |-> PostgresqlFactRead,
     fact_delete |-> PostgresqlFactDelete, graph_create |-> PostgresqlGraphCreate,
     graph_delete |-> PostgresqlGraphDelete, process |-> PostgresqlProcess,
     attribute |-> PostgresqlAttribute, session |-> PostgresqlSession]

MysqlDriver ==
    [conversation |-> MysqlConversation, message |-> MysqlMessage,
     messages |-> MysqlMessages, entity |-> MysqlEntity,
     fact_create |-> MysqlFactCreate, fact_read |-> MysqlFactRead,
     fact_delete |-> MysqlFactDelete, graph_create |-> MysqlGraphCreate,
     graph_delete |-> MysqlGraphDelete, process |-> MysqlProcess,
     attribute |-> MysqlAttribute, session |-> MysqlSession]

OceanbaseDriver == [MysqlDriver EXCEPT !.fact_create = OceanbaseFactCreate]

OracleDriver ==
    [conversation |-> OracleConversation, message |-> OracleMessage,
     messages |-> OracleMessages, entity |-> OracleEntity,
     fact_create |-> OracleFactCreate, fact_read |-> OracleFactRead,
     fact_delete |-> OracleFactDelete, graph_create |-> OracleGraphCreate,
     graph_delete |-> OracleGraphDelete, process |-> OracleProcess,
     attribute |-> OracleAttribute, session |-> OracleSession]

MongodbDriver ==
    [conversation |-> MongodbConversation, message |-> MongodbMessage,
     messages |-> MongodbMessages, entity |-> MongodbEntity,
     fact_create |-> MongodbFactCreate, fact_read |-> MongodbFactRead,
     fact_delete |-> MongodbFactDelete, graph_create |-> MongodbGraphCreate,
     graph_delete |-> MongodbGraphDelete, process |-> MongodbProcess,
     attribute |-> MongodbAttribute, session |-> MongodbSession]

Driver ==
    [sqlite |-> SqliteDriver, postgresql |-> PostgresqlDriver, mysql |-> MysqlDriver,
     tidb |-> MysqlDriver, oceanbase |-> OceanbaseDriver, oracle |-> OracleDriver,
     mongodb |-> MongodbDriver]
=============================================================================
