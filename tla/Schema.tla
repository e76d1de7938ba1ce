------------------------------- MODULE Schema -------------------------------
(***************************************************************************)
(* The schema migrations of memori/storage/migrations: for each dialect    *)
(* the revisions 1 and 2, each a sequence of migrations, each the sequence *)
(* of statements that one adapter.execute() runs.                          *)
(*                                                                         *)
(* A statement creates one named structure.  Of a table the model keeps    *)
(* its unique keys (the targets of every upsert) and the tables its        *)
(* foreign keys refer to; columns, types and plain indexes declared inside *)
(* a CREATE TABLE are left out.  Every foreign key deletes in cascade.     *)
(***************************************************************************)
EXTENDS Naturals, Sequences, SequencesExt

AllDialects == {"sqlite", "postgresql", "mysql", "tidb", "oceanbase",
                "oracle", "mongodb"}

LatestRevision == 2

Table(t, keys, refs) ==
    [name |-> <<t, "table">>, table |-> t, keys |-> keys, refs |-> refs]

Index(i, t, columns) ==
    [name |-> <<t, i>>, table |-> t, keys |-> {}, refs |-> {t}, on |-> columns]

\* A migration of one statement, for each statement of a sequence.
Singly(statements) == [i \in DOMAIN statements |-> <<statements[i]>>]

(***************************************************************************)
(* Tables, the same in every SQL dialect                                   *)
(***************************************************************************)
SchemaVersion == Table("schema_version", {{"num"}}, {})

\* Seeded fault: external ids are not unique.
EntityWithoutKey == Table("entity", {{"uuid"}}, {})

Entity == Table("entity", {{"external_id"}, {"uuid"}}, {})

Process == Table("process", {{"external_id"}, {"uuid"}}, {})

Session == Table("session",
                 {{"entity_id", "id"}, {"process_id", "id"}, {"uuid"}},
                 {"entity", "process"})

Conversation == Table("conversation", {{"session_id"}, {"uuid"}}, {"session"})

ConversationMessage ==
    Table("conversation_message", {{"conversation_id", "id"}, {"uuid"}},
          {"conversation"})

EntityFact ==
    Table("entity_fact",
          {{"entity_id", "id"}, {"entity_id", "uniq"}, {"uuid"}}, {"entity"})

FrequencyIndex ==
    Index("idx_freq", "entity_fact", {"entity_id", "num_times", "date_last_time"})

EmbeddingIndex == Index("idx_embedding_search", "entity_fact", {"entity_id", "id"})

ProcessAttribute ==
    Table("process_attribute",
          {{"process_id", "id"}, {"process_id", "uniq"}, {"uuid"}}, {"process"})

Subject == Table("subject", {{"uniq"}, {"uuid"}}, {})

Predicate == Table("predicate", {{"uniq"}, {"uuid"}}, {})

Object == Table("object", {{"uniq"}, {"uuid"}}, {})

KnowledgeGraph ==
    Table("knowledge_graph",
          {{"entity_id", "subject_id", "predicate_id", "object_id"}, {"uuid"}}
          \cup {{c, "id"} : c \in {"entity_id", "subject_id", "predicate_id", "object_id"}},
          {"entity", "subject", "predicate", "object"})

EntityFactMention ==
    Table("entity_fact_mention",
          {{"entity_id", "fact_id", "conversation_id"}, {"uuid"}},
          {"entity_fact", "conversation"})

MentionIndex ==
    Index("idx_entity_conversation", "entity_fact_mention",
          {"entity_id", "conversation_id"})

(***************************************************************************)
(* SQLite: every statement is a migration of its own.                      *)
(***************************************************************************)
SqliteSessions ==
    Singly(<<SchemaVersion, Entity, Process, Session, Conversation,
             ConversationMessage>>)

SqliteFacts ==
    Singly(<<EntityFact, FrequencyIndex, EmbeddingIndex, ProcessAttribute>>)

SqliteGraph == Singly(<<Subject, Predicate, Object, KnowledgeGraph>>)

SqliteMentions == Singly(<<EntityFactMention, MentionIndex>>)

(***************************************************************************)
(* PostgreSQL, and CockroachDB by the same driver: the indexes of the      *)
(* facts are created by the operation that creates their table.            *)
(***************************************************************************)
PostgresqlSessions ==
    Singly(<<SchemaVersion, Entity, Process, Session, Conversation,
             ConversationMessage>>)

PostgresqlFacts ==
    << <<EntityFact, FrequencyIndex, EmbeddingIndex>>, <<ProcessAttribute>> >>

PostgresqlGraph == Singly(<<Subject, Predicate, Object, KnowledgeGraph>>)

PostgresqlMentions == Singly(<<EntityFactMention, MentionIndex>>)

(***************************************************************************)
(* MySQL and MariaDB: the indexes are declared inside the tables.  The     *)
(* files of TiDB and OceanBase hold the same statements.                   *)
(***************************************************************************)
MysqlSessions ==
    Singly(<<SchemaVersion, Entity, Process, Session, Conversation,
             ConversationMessage>>)

MysqlFacts == Singly(<<EntityFact, ProcessAttribute>>)

MysqlGraph == Singly(<<Subject, Predicate, Object, KnowledgeGraph>>)

MysqlMentions == Singly(<<EntityFactMention>>)

TidbSessions == MysqlSessions

TidbLater == << MysqlFacts \o MysqlGraph, MysqlMentions >>

OceanbaseSessions == MysqlSessions

OceanbaseLater == << MysqlFacts \o MysqlGraph, MysqlMentions >>

(***************************************************************************)
(* Oracle: each migration is a PL/SQL block that leaves at its first       *)
(* "already exists" error, and the tables with indexes share a block with  *)
(* them.                                                                   *)
(***************************************************************************)
OracleSessions ==
    Singly(<<SchemaVersion, Entity, Process, Session, Conversation,
             ConversationMessage>>)

OracleFacts ==
    << <<EntityFact, FrequencyIndex, EmbeddingIndex>>, <<ProcessAttribute>> >>

OracleGraph == Singly(<<Subject, Predicate, Object, KnowledgeGraph>>)

OracleMentions == << <<EntityFactMention, MentionIndex>> >>

(***************************************************************************)
(* MongoDB: a migration is a list of create_index calls, the first of      *)
(* which creates the collection.  There are no foreign keys.               *)
(***************************************************************************)
UniqueIndexes(c, keys) ==
    [i \in DOMAIN keys |-> [name |-> <<c, keys[i]>>, table |-> c,
                            keys |-> {keys[i]}, refs |-> {}]]

PlainIndex(i, c) == <<[name |-> <<c, {i}>>, table |-> c, keys |-> {}, refs |-> {}]>>

MongodbSessions ==
    << UniqueIndexes("schema_version", <<{"num"}>>),
       UniqueIndexes("entity", <<{"external_id"}, {"uuid"}>>),
       UniqueIndexes("process", <<{"external_id"}, {"uuid"}>>),
       UniqueIndexes("session",
                     <<{"uuid"}, {"entity_id", "id"}, {"process_id", "id"}>>),
       UniqueIndexes("conversation", <<{"session_id"}, {"uuid"}>>),
       UniqueIndexes("conversation_message",
                     <<{"uuid"}, {"conversation_id", "id"}>>) >>

MongodbFacts ==
    << UniqueIndexes("entity_fact",
                     <<{"uuid"}, {"entity_id", "id"}, {"entity_id", "uniq"}>>)
         \o PlainIndex("idx_freq", "entity_fact"),
       UniqueIndexes("process_attribute",
                     <<{"uuid"}, {"process_id", "id"}, {"process_id", "uniq"}>>) >>

MongodbGraph ==
    << UniqueIndexes("subject", <<{"uuid"}, {"uniq"}>>),
       UniqueIndexes("predicate", <<{"uuid"}, {"uniq"}>>),
       UniqueIndexes("object", <<{"uuid"}, {"uniq"}>>),
       UniqueIndexes("knowledge_graph",
                     <<{"uuid"}, {"entity_id", "id"},
                       {"entity_id", "subject_id", "predicate_id", "object_id"},
                       {"subject_id", "id"}, {"predicate_id", "id"},
                       {"object_id", "id"}>>) >>

MongodbMentions ==
    << UniqueIndexes("entity_fact_mention",
                     <<{"uuid"}, {"entity_id", "fact_id", "conversation_id"}>>)
         \o PlainIndex("idx_entity_conversation", "entity_fact_mention") >>

(***************************************************************************)
(* The revisions of a dialect: driver.migrations                           *)
(***************************************************************************)
Migrations ==
    [sqlite     |-> <<SqliteSessions \o SqliteFacts \o SqliteGraph, SqliteMentions>>,
     postgresql |-> <<PostgresqlSessions \o PostgresqlFacts \o PostgresqlGraph,
                      PostgresqlMentions>>,
     mysql      |-> <<MysqlSessions \o MysqlFacts \o MysqlGraph, MysqlMentions>>,
     tidb       |-> <<TidbSessions \o TidbLater[1], TidbLater[2]>>,
     oceanbase  |-> <<OceanbaseSessions \o OceanbaseLater[1], OceanbaseLater[2]>>,
     oracle     |-> <<OracleSessions \o OracleFacts \o OracleGraph, OracleMentions>>,
     mongodb    |-> <<MongodbSessions \o MongodbFacts \o MongodbGraph, MongodbMentions>>]

\* Everything the first r revisions of a dialect create.
Statements(d, r) ==
    UNION {UNION {Range(m) : m \in Range(Migrations[d][i])} : i \in 1 .. r}

UniqueKeys(d, t) == UNION {s.keys : s \in {u \in Statements(d, LatestRevision) : u.table = t}}

Refers(d, t) == (UNION {s.refs : s \in {u \in Statements(d, LatestRevision) : u.table = t}}) \ {t}
=============================================================================
