------------------------------ MODULE RowsProofs ------------------------------
(***************************************************************************)
(* Of module Turns, for any clients, plays and dialects: what a row refers *)
(* to.  Cached ids are of the session the client is in (SessionInv), so    *)
(* TurnsInTheirSession; what the connections hold is apart, unique and     *)
(* refers to what is there (RowInv), so RowsAreSound; what a client that   *)
(* has found its entity has not deleted it is going to delete (ForgetInv), *)
(* so ForgetIsExact.                                                       *)
(***************************************************************************)
EXTENDS TurnsProofs

-----------------------------------------------------------------------------
(* What the migrations of a dialect create.                                *)
Listed(p) == p \in Seq(Range(p))

Built(p) == UNION {Range(m) : m \in Range(p)}

LEMMA ListedIs ==
    ASSUME NEW S, NEW p \in Seq(S)
    PROVE  /\ Listed(p) /\ Len(p) \in Nat /\ DOMAIN p = 1 .. Len(p)
           /\ \A x : x \in Range(p) <=> \E i \in 1 .. Len(p) : x = p[i]
<1>1. Len(p) \in Nat /\ DOMAIN p = 1 .. Len(p) /\ p = [i \in 1 .. Len(p) |-> p[i]]
    OBVIOUS
<1>2. \A i \in 1 .. Len(p) : p[i] \in Range(p)
    BY <1>1 DEF Range
<1>3. p \in Seq(Range(p))
    BY <1>1, <1>2, IsASeq
<1> QED
    BY <1>1, <1>3 DEF Listed, Range

LEMMA BeginningIs ==
    ASSUME NEW S, NEW p \in Seq(S), NEW q \in Seq(S), NEW i \in 1 .. Len(p)
    PROVE  p \o q \in Seq(S) /\ i \in 1 .. Len(p \o q) /\ (p \o q)[i] = p[i]
<1>1. /\ p \o q \in Seq(S) /\ Len(p \o q) = Len(p) + Len(q)
      /\ \A k \in 1 .. Len(p) + Len(q) : (p \o q)[k] = IF k <= Len(p) THEN p[k] ELSE q[k - Len(p)]
    BY ConcatProperties
<1>2. Len(p) \in Nat /\ Len(q) \in Nat
    OBVIOUS
<1>3. i \in 1 .. Len(p) + Len(q) /\ i <= Len(p)
    BY <1>2
<1> QED
    BY <1>1, <1>3

LEMMA BuiltJoins ==
    ASSUME NEW p, Listed(p), NEW q, Listed(q)
    PROVE  Listed(p \o q) /\ Built(p) \cup Built(q) \subseteq Built(p \o q)
<1>1. PICK S : S = Range(p) \cup Range(q)
    OBVIOUS
<1>2. p \in Seq(S) /\ q \in Seq(S)
    BY <1>1 DEF Listed
<1>3. /\ p \o q \in Seq(S) /\ Len(p) \in Nat /\ Len(q) \in Nat
      /\ Len(p \o q) = Len(p) + Len(q)
      /\ \A i \in 1 .. Len(p) : (p \o q)[i] = p[i]
      /\ \A i \in 1 .. Len(q) : (p \o q)[Len(p) + i] = q[i]
    BY <1>2, JoinedAt
<1>4. Listed(p \o q) /\ \A i \in 1 .. Len(p \o q) : (p \o q)[i] \in Range(p \o q)
    BY <1>3, ListedIs
<1>5. ASSUME NEW m \in Range(p) PROVE m \in Range(p \o q)
    <2>1. PICK i \in 1 .. Len(p) : m = p[i]
        BY <1>2, ListedIs
    <2> QED
        BY <1>3, <1>4, <2>1
<1>6. ASSUME NEW m \in Range(q) PROVE m \in Range(p \o q)
    <2>1. PICK i \in 1 .. Len(q) : m = q[i]
        BY <1>2, ListedIs
    <2>2. Len(p) + i \in 1 .. Len(p \o q)
        BY <1>3
    <2> QED
        BY <1>3, <1>4, <2>1, <2>2
<1> QED
    BY <1>4, <1>5, <1>6 DEF Built

LEMMA SinglyBuilds ==
    ASSUME NEW S, NEW s \in Seq(S)
    PROVE  Listed(Singly(s)) /\ \A i \in 1 .. Len(s) : s[i] \in Built(Singly(s))
<1>1. Singly(s) = [i \in 1 .. Len(s) |-> <<s[i]>>] /\ Len(s) \in Nat
    BY DEF Singly
<1>2. \A i \in 1 .. Len(s) : <<s[i]>> \in Seq(S)
    OBVIOUS
<1>3. Singly(s) \in Seq(Seq(S)) /\ Len(Singly(s)) = Len(s)
    BY <1>1, <1>2, IsASeq
<1>4. ASSUME NEW i \in 1 .. Len(s) PROVE s[i] \in Built(Singly(s))
    <2>1. <<s[i]>> \in Range(Singly(s))
        BY <1>1 DEF Range
    <2>2. s[i] \in Range(<<s[i]>>)
        BY DEF Range
    <2> QED
        BY <2>1, <2>2 DEF Built
<1> QED
    BY <1>3, <1>4, ListedIs

LEMMA RevisionsRun ==
    ASSUME NEW d, NEW a, NEW b, Migrations[d] = <<a, b>>
    PROVE  Built(a) \cup Built(b) \subseteq Statements(d, LatestRevision)
<1>1. Migrations[d][1] = a /\ Migrations[d][2] = b /\ 1 \in 1 .. LatestRevision /\ 2 \in 1 .. LatestRevision
    BY DEF LatestRevision
<1> QED
    BY <1>1 DEF Statements, Built

SqlSessions == Singly(<<SchemaVersion, Entity, Process, Session, Conversation, ConversationMessage>>)

SqlGraph == Singly(<<Subject, Predicate, Object, KnowledgeGraph>>)

LEMMA SessionsAndGraph ==
    /\ Listed(SqlSessions) /\ {Entity, Process, Session, Conversation, ConversationMessage} \subseteq Built(SqlSessions)
    /\ Listed(SqlGraph) /\ {Subject, Predicate, Object, KnowledgeGraph} \subseteq Built(SqlGraph)
<1> DEFINE s == <<SchemaVersion, Entity, Process, Session, Conversation, ConversationMessage>>
           g == <<Subject, Predicate, Object, KnowledgeGraph>>
           S == {SchemaVersion, Entity, Process, Session, Conversation, ConversationMessage}
           G == {Subject, Predicate, Object, KnowledgeGraph}
<1>1. s \in Seq(S) /\ Len(s) = 6 /\ s[2] = Entity /\ s[3] = Process /\ s[4] = Session
      /\ s[5] = Conversation /\ s[6] = ConversationMessage
    OBVIOUS
<1>2. g \in Seq(G) /\ Len(g) = 4 /\ g[1] = Subject /\ g[2] = Predicate /\ g[3] = Object /\ g[4] = KnowledgeGraph
    OBVIOUS
<1>3. SqlSessions = Singly(s) /\ SqlGraph = Singly(g)
    BY DEF SqlSessions, SqlGraph
<1> HIDE DEF s, g, S, G
<1>4. Listed(SqlSessions) /\ \A i \in 1 .. 6 : s[i] \in Built(SqlSessions)
    BY <1>1, <1>3, SinglyBuilds
<1>5. Listed(SqlGraph) /\ \A i \in 1 .. 4 : g[i] \in Built(SqlGraph)
    BY <1>2, <1>3, SinglyBuilds
<1>6. /\ s[2] \in Built(SqlSessions) /\ s[3] \in Built(SqlSessions) /\ s[4] \in Built(SqlSessions)
      /\ s[5] \in Built(SqlSessions) /\ s[6] \in Built(SqlSessions)
    BY <1>4
<1>7. g[1] \in Built(SqlGraph) /\ g[2] \in Built(SqlGraph) /\ g[3] \in Built(SqlGraph) /\ g[4] \in Built(SqlGraph)
    BY <1>5
<1> QED
    BY <1>1, <1>2, <1>4, <1>5, <1>6, <1>7

LEMMA FactsAre ==
    ASSUME NEW p \in {SqliteFacts, PostgresqlFacts, MysqlFacts, OracleFacts}
    PROVE  Listed(p) /\ EntityFact \in Built(p) /\ ProcessAttribute \in Built(p)
<1>1. CASE p = SqliteFacts
    <2>1. PICK S, s : /\ S = {EntityFact, FrequencyIndex, EmbeddingIndex, ProcessAttribute}
                      /\ s = <<EntityFact, FrequencyIndex, EmbeddingIndex, ProcessAttribute>> /\ p = Singly(s)
        BY <1>1 DEF SqliteFacts
    <2>2. s \in Seq(S) /\ Len(s) = 4 /\ s[1] = EntityFact /\ s[4] = ProcessAttribute
        BY <2>1
    <2>3. Listed(p) /\ \A i \in 1 .. 4 : s[i] \in Built(p)
        BY <2>1, <2>2, SinglyBuilds
    <2>4. s[1] \in Built(p) /\ s[4] \in Built(p)
        BY <2>3
    <2> QED
        BY <2>2, <2>3, <2>4
<1>2. CASE p = MysqlFacts
    <2>1. PICK S, s : S = {EntityFact, ProcessAttribute} /\ s = <<EntityFact, ProcessAttribute>> /\ p = Singly(s)
        BY <1>2 DEF MysqlFacts
    <2>2. s \in Seq(S) /\ Len(s) = 2 /\ s[1] = EntityFact /\ s[2] = ProcessAttribute
        BY <2>1
    <2>3. Listed(p) /\ \A i \in 1 .. 2 : s[i] \in Built(p)
        BY <2>1, <2>2, SinglyBuilds
    <2>4. s[1] \in Built(p) /\ s[2] \in Built(p)
        BY <2>3
    <2> QED
        BY <2>2, <2>3, <2>4
<1>3. CASE p \in {PostgresqlFacts, OracleFacts}
    <2>1. PICK x, y : x = <<EntityFact, FrequencyIndex, EmbeddingIndex>> /\ y = <<ProcessAttribute>> /\ p = <<x, y>>
        BY <1>3 DEF PostgresqlFacts, OracleFacts
    <2>2. EntityFact \in Range(x) /\ ProcessAttribute \in Range(y)
        BY <2>1 DEF Range
    <2>3. x \in Range(p) /\ y \in Range(p)
        BY <2>1 DEF Range
    <2>4. p \in Seq({x, y})
        BY <2>1
    <2>5. Listed(p)
        BY <2>4, ListedIs
    <2> QED
        BY <2>2, <2>3, <2>5 DEF Built
<1> QED
    BY <1>1, <1>2, <1>3

LEMMA MentionsBuilt ==
    ASSUME NEW p \in {SqliteMentions, PostgresqlMentions, MysqlMentions, OracleMentions}
    PROVE  EntityFactMention \in Built(p)
<1>1. CASE p = OracleMentions
    <2>1. PICK x : x = <<EntityFactMention, MentionIndex>> /\ p = <<x>>
        BY <1>1 DEF OracleMentions
    <2>2. EntityFactMention \in Range(x) /\ x \in Range(p)
        BY <2>1 DEF Range
    <2> QED
        BY <2>2 DEF Built
<1>2. CASE p # OracleMentions
    <2>1. PICK s, S : S = {EntityFactMention, MentionIndex} /\ s \in Seq(S) /\ Len(s) >= 1 /\ s[1] = EntityFactMention /\ p = Singly(s)
        <3>1. CASE p = MysqlMentions
            <4>1. PICK s, S : S = {EntityFactMention, MentionIndex} /\ s = <<EntityFactMention>> /\ p = Singly(s)
                BY <3>1 DEF MysqlMentions
            <4>2. s \in Seq(S) /\ Len(s) >= 1 /\ s[1] = EntityFactMention
                BY <4>1
            <4> QED
                BY <4>1, <4>2
        <3>2. CASE p \in {SqliteMentions, PostgresqlMentions}
            <4>1. PICK s, S : S = {EntityFactMention, MentionIndex} /\ s = <<EntityFactMention, MentionIndex>> /\ p = Singly(s)
                BY <3>2 DEF SqliteMentions, PostgresqlMentions
            <4>2. s \in Seq(S) /\ Len(s) >= 1 /\ s[1] = EntityFactMention
                BY <4>1
            <4> QED
                BY <4>1, <4>2
        <3> QED
            BY <1>2, <3>1, <3>2
    <2>2. 1 \in 1 .. Len(s)
        BY <2>1
    <2> QED
        BY <2>1, <2>2, SinglyBuilds
<1> QED
    BY <1>1, <1>2

SqlTables ==
    {Entity, Process, Session, Conversation, ConversationMessage, EntityFact, ProcessAttribute,
     Subject, Predicate, Object, KnowledgeGraph, EntityFactMention}

\* Every SQL dialect creates all the tables.
LEMMA SqlBuilds ==
    ASSUME NEW d \in AllDialects \ {"mongodb"}
    PROVE  SqlTables \subseteq Statements(d, LatestRevision)
<1> DEFINE F == {SqliteFacts, PostgresqlFacts, MysqlFacts, OracleFacts}
           M == {SqliteMentions, PostgresqlMentions, MysqlMentions, OracleMentions}
<1>1. \E f \in F, m \in M : \/ Migrations[d] = <<(SqlSessions \o f) \o SqlGraph, m>>
                            \/ Migrations[d] = <<SqlSessions \o (f \o SqlGraph), m>>
    <2>1. Migrations["sqlite"] = <<(SqlSessions \o SqliteFacts) \o SqlGraph, SqliteMentions>>
        BY DEF Migrations, SqliteSessions, SqliteGraph, SqlSessions, SqlGraph
    <2>2. Migrations["postgresql"] = <<(SqlSessions \o PostgresqlFacts) \o SqlGraph, PostgresqlMentions>>
        BY DEF Migrations, PostgresqlSessions, PostgresqlGraph, SqlSessions, SqlGraph
    <2>3. Migrations["mysql"] = <<(SqlSessions \o MysqlFacts) \o SqlGraph, MysqlMentions>>
        BY DEF Migrations, MysqlSessions, MysqlGraph, SqlSessions, SqlGraph
    <2>4. Migrations["oracle"] = <<(SqlSessions \o OracleFacts) \o SqlGraph, OracleMentions>>
        BY DEF Migrations, OracleSessions, OracleGraph, SqlSessions, SqlGraph
    <2>5. Migrations["tidb"] = <<SqlSessions \o (MysqlFacts \o SqlGraph), MysqlMentions>>
        BY DEF Migrations, TidbSessions, TidbLater, MysqlSessions, MysqlGraph, SqlSessions, SqlGraph
    <2>6. Migrations["oceanbase"] = <<SqlSessions \o (MysqlFacts \o SqlGraph), MysqlMentions>>
        BY DEF Migrations, OceanbaseSessions, OceanbaseLater, MysqlSessions, MysqlGraph, SqlSessions, SqlGraph
    <2>7. d \in {"sqlite", "postgresql", "mysql", "oracle", "tidb", "oceanbase"}
        BY DEF AllDialects
    <2> QED
        BY <2>1, <2>2, <2>3, <2>4, <2>5, <2>6, <2>7
<1>2. PICK f \in F, m \in M : \/ Migrations[d] = <<(SqlSessions \o f) \o SqlGraph, m>>
                              \/ Migrations[d] = <<SqlSessions \o (f \o SqlGraph), m>>
    BY <1>1
<1>3. Listed(f) /\ {EntityFact, ProcessAttribute} \subseteq Built(f) /\ EntityFactMention \in Built(m)
    BY FactsAre, MentionsBuilt
<1>4. /\ Listed(SqlSessions \o f) /\ Listed(f \o SqlGraph)
      /\ Built(SqlSessions) \cup Built(f) \subseteq Built(SqlSessions \o f)
      /\ Built(f) \cup Built(SqlGraph) \subseteq Built(f \o SqlGraph)
    BY <1>3, SessionsAndGraph, BuiltJoins
<1>5. /\ Built(SqlSessions \o f) \cup Built(SqlGraph) \subseteq Built((SqlSessions \o f) \o SqlGraph)
      /\ Built(SqlSessions) \cup Built(f \o SqlGraph) \subseteq Built(SqlSessions \o (f \o SqlGraph))
    BY <1>4, SessionsAndGraph, BuiltJoins
<1>6. PICK a : Migrations[d] = <<a, m>> /\ Built(SqlSessions) \cup Built(f) \cup Built(SqlGraph) \subseteq Built(a)
    BY <1>2, <1>4, <1>5
<1>7. Built(a) \cup Built(m) \subseteq Statements(d, LatestRevision)
    BY <1>6, RevisionsRun
<1> HIDE DEF F, M
<1> QED
    BY <1>3, <1>6, <1>7, SessionsAndGraph DEF SqlTables

-----------------------------------------------------------------------------
\* One of the statements has the key.
KeyedIn(S, t) == \E s \in S : s.table = t /\ NaturalKey[t] \in s.keys

LEMMA NaturalKeysAre ==
    /\ NaturalKey["entity"] = {"external_id"} /\ NaturalKey["process"] = {"external_id"}
    /\ NaturalKey["session"] = {"uuid"} /\ NaturalKey["conversation"] = {"session_id"}
    /\ NaturalKey["conversation_message"] = {"content"}
    /\ NaturalKey["entity_fact"] = {"entity_id", "uniq"}
    /\ NaturalKey["entity_fact_mention"] = {"entity_id", "fact_id", "conversation_id"}
    /\ NaturalKey["process_attribute"] = {"process_id", "uniq"}
    /\ NaturalKey["subject"] = {"uniq"} /\ NaturalKey["predicate"] = {"uniq"} /\ NaturalKey["object"] = {"uniq"}
    /\ NaturalKey["knowledge_graph"] = {"entity_id", "subject_id", "predicate_id", "object_id"}
BY DEF NaturalKey

LEMMA KeyedBy ==
    ASSUME NEW S, NEW s \in S, NEW t, s.table = t, NaturalKey[t] \in s.keys
    PROVE  KeyedIn(S, t)
BY DEF KeyedIn

LEMMA SqlKeys ==
    ASSUME NEW S, SqlTables \subseteq S, NEW t \in Tables \ {"conversation_message"}
    PROVE  KeyedIn(S, t)
<1>1. SqlTables \subseteq S
    OBVIOUS
<1>2. KeyedIn(S, "entity")
    <2>1. Entity \in S /\ Entity.table = "entity"
        BY <1>1 DEF SqlTables, Entity, Table
    <2>2. NaturalKey["entity"] \in Entity.keys
        BY NaturalKeysAre DEF Entity, Table
    <2> QED
        BY <2>1, <2>2, KeyedBy
<1>3. KeyedIn(S, "process")
    <2>1. Process \in S /\ Process.table = "process"
        BY <1>1 DEF SqlTables, Process, Table
    <2>2. NaturalKey["process"] \in Process.keys
        BY NaturalKeysAre DEF Process, Table
    <2> QED
        BY <2>1, <2>2, KeyedBy
<1>4. KeyedIn(S, "session")
    <2>1. Session \in S /\ Session.table = "session"
        BY <1>1 DEF SqlTables, Session, Table
    <2>2. NaturalKey["session"] \in Session.keys
        BY NaturalKeysAre DEF Session, Table
    <2> QED
        BY <2>1, <2>2, KeyedBy
<1>5. KeyedIn(S, "conversation")
    <2>1. Conversation \in S /\ Conversation.table = "conversation"
        BY <1>1 DEF SqlTables, Conversation, Table
    <2>2. NaturalKey["conversation"] \in Conversation.keys
        BY NaturalKeysAre DEF Conversation, Table
    <2> QED
        BY <2>1, <2>2, KeyedBy
<1>6. KeyedIn(S, "subject")
    <2>1. Subject \in S /\ Subject.table = "subject"
        BY <1>1 DEF SqlTables, Subject, Table
    <2>2. NaturalKey["subject"] \in Subject.keys
        BY NaturalKeysAre DEF Subject, Table
    <2> QED
        BY <2>1, <2>2, KeyedBy
<1>7. KeyedIn(S, "predicate")
    <2>1. Predicate \in S /\ Predicate.table = "predicate"
        BY <1>1 DEF SqlTables, Predicate, Table
    <2>2. NaturalKey["predicate"] \in Predicate.keys
        BY NaturalKeysAre DEF Predicate, Table
    <2> QED
        BY <2>1, <2>2, KeyedBy
<1>8. KeyedIn(S, "object")
    <2>1. Object \in S /\ Object.table = "object"
        BY <1>1 DEF SqlTables, Object, Table
    <2>2. NaturalKey["object"] \in Object.keys
        BY NaturalKeysAre DEF Object, Table
    <2> QED
        BY <2>1, <2>2, KeyedBy
<1>9. KeyedIn(S, "entity_fact")
    <2>1. EntityFact \in S /\ EntityFact.table = "entity_fact"
        BY <1>1 DEF SqlTables, EntityFact, Table
    <2>2. NaturalKey["entity_fact"] \in EntityFact.keys
        BY NaturalKeysAre DEF EntityFact, Table
    <2> QED
        BY <2>1, <2>2, KeyedBy
<1>10. KeyedIn(S, "entity_fact_mention")
    <2>1. EntityFactMention \in S /\ EntityFactMention.table = "entity_fact_mention"
        BY <1>1 DEF SqlTables, EntityFactMention, Table
    <2>2. NaturalKey["entity_fact_mention"] \in EntityFactMention.keys
        BY NaturalKeysAre DEF EntityFactMention, Table
    <2> QED
        BY <2>1, <2>2, KeyedBy
<1>11. KeyedIn(S, "process_attribute")
    <2>1. ProcessAttribute \in S /\ ProcessAttribute.table = "process_attribute"
        BY <1>1 DEF SqlTables, ProcessAttribute, Table
    <2>2. NaturalKey["process_attribute"] \in ProcessAttribute.keys
        BY NaturalKeysAre DEF ProcessAttribute, Table
    <2> QED
        BY <2>1, <2>2, KeyedBy
<1>12. KeyedIn(S, "knowledge_graph")
    <2>1. KnowledgeGraph \in S /\ KnowledgeGraph.table = "knowledge_graph"
        BY <1>1 DEF SqlTables, KnowledgeGraph, Table
    <2>2. NaturalKey["knowledge_graph"] \in KnowledgeGraph.keys
        BY NaturalKeysAre DEF KnowledgeGraph, Table
    <2> QED
        BY <2>1, <2>2, KeyedBy
<1> QED
    BY <1>2, <1>3, <1>4, <1>5, <1>6, <1>7, <1>8, <1>9, <1>10, <1>11, <1>12, TablesAre DEF Four, Graph, Learned, Erasable

\* A migration of MongoDB that begins with the unique indexes of t.
Makes(m, t) == \E s \in Range(m) : s.table = t /\ NaturalKey[t] \in s.keys

LEMMA IndexesAre ==
    ASSUME NEW t, NEW K, NEW ks \in Seq(K), NEW i \in 1 .. Len(ks), ks[i] = NaturalKey[t]
    PROVE  /\ Makes(UniqueIndexes(t, ks), t)
           /\ \A x : Makes(UniqueIndexes(t, ks) \o PlainIndex(x, t), t)
<1> DEFINE u == UniqueIndexes(t, ks)
           index(j) == [name |-> <<t, ks[j]>>, table |-> t, keys |-> {ks[j]}, refs |-> {}]
<1>1. u = [j \in 1 .. Len(ks) |-> index(j)] /\ Len(ks) \in Nat
    BY DEF UniqueIndexes
<1>2. index(i).table = t /\ NaturalKey[t] \in index(i).keys
    OBVIOUS
<1>3. PICK S : S = {index(j) : j \in 1 .. Len(ks)}
    OBVIOUS
<1> HIDE DEF index
<1>4. u \in Seq(S) /\ Len(u) = Len(ks)
    BY <1>1, <1>3, IsASeq
<1> HIDE DEF u
<1>5. u[i] = index(i) /\ i \in 1 .. Len(u)
    BY <1>1, <1>4
<1>6. u[i] \in Range(u)
    BY <1>4, <1>5, ListedIs
<1>7. ASSUME NEW x PROVE Makes(u \o PlainIndex(x, t), t)
    <2>1. PICK y : PlainIndex(x, t) = <<y>>
        BY DEF PlainIndex
    <2>2. PICK T : T = S \cup {y}
        OBVIOUS
    <2>3. u \in Seq(T) /\ <<y>> \in Seq(T)
        BY <1>4, <2>2
    <2>4. u \o <<y>> \in Seq(T) /\ i \in 1 .. Len(u \o <<y>>) /\ (u \o <<y>>)[i] = u[i]
        BY <1>5, <2>3, BeginningIs
    <2>5. u[i] \in Range(u \o <<y>>)
        BY <2>4, ListedIs
    <2> QED
        BY <1>2, <1>5, <2>1, <2>5 DEF Makes
<1> QED
    BY <1>2, <1>5, <1>6, <1>7 DEF Makes, u

LEMMA MongodbMakes ==
    /\ \A t \in Four : \E i \in 1 .. Len(MongodbSessions) : Makes(MongodbSessions[i], t)
    /\ \A t \in {"entity_fact", "process_attribute"} : \E i \in 1 .. Len(MongodbFacts) : Makes(MongodbFacts[i], t)
    /\ \A t \in Graph \cup {"knowledge_graph"} : \E i \in 1 .. Len(MongodbGraph) : Makes(MongodbGraph[i], t)
    /\ \E i \in 1 .. Len(MongodbMentions) : Makes(MongodbMentions[i], "entity_fact_mention")
    /\ Listed(MongodbSessions) /\ Listed(MongodbFacts) /\ Listed(MongodbGraph) /\ Listed(MongodbMentions)
<1>1. \A t, k : NaturalKey[t] = k => /\ Makes(UniqueIndexes(t, <<k, {"uuid"}>>), t)
    <2> SUFFICES ASSUME NEW t, NEW k, NaturalKey[t] = k PROVE Makes(UniqueIndexes(t, <<k, {"uuid"}>>), t)
        OBVIOUS
    <2>1. PICK s, K : s = <<k, {"uuid"}>> /\ K = {k, {"uuid"}}
        OBVIOUS
    <2>2. s \in Seq(K) /\ 1 \in 1 .. Len(s) /\ s[1] = k
        BY <2>1
    <2>3. Makes(UniqueIndexes(t, s), t)
        BY <2>2, IndexesAre
    <2> QED
        BY <2>1, <2>3
<1>2. \A t, k : NaturalKey[t] = k => Makes(UniqueIndexes(t, <<{"uuid"}, k>>), t)
                                     /\ \A x : Makes(UniqueIndexes(t, <<{"uuid"}, k>>) \o PlainIndex(x, t), t)
    <2> SUFFICES ASSUME NEW t, NEW k, NaturalKey[t] = k
                 PROVE  /\ Makes(UniqueIndexes(t, <<{"uuid"}, k>>), t)
                        /\ \A x : Makes(UniqueIndexes(t, <<{"uuid"}, k>>) \o PlainIndex(x, t), t)
        OBVIOUS
    <2>1. PICK s, K : s = <<{"uuid"}, k>> /\ K = {k, {"uuid"}}
        OBVIOUS
    <2>2. s \in Seq(K) /\ 2 \in 1 .. Len(s) /\ s[2] = k
        BY <2>1
    <2>3. Makes(UniqueIndexes(t, s), t) /\ \A x : Makes(UniqueIndexes(t, s) \o PlainIndex(x, t), t)
        BY <2>2, IndexesAre
    <2> QED
        BY <2>1, <2>3
<1>3. \A t, k, a, b : NaturalKey[t] = k => Makes(UniqueIndexes(t, <<k, a, b>>), t) /\ Makes(UniqueIndexes(t, <<a, b, k>>), t)
                         /\ \A x : Makes(UniqueIndexes(t, <<a, b, k>>) \o PlainIndex(x, t), t)
    <2> SUFFICES ASSUME NEW t, NEW k, NEW a, NEW b, NaturalKey[t] = k
                 PROVE  /\ Makes(UniqueIndexes(t, <<k, a, b>>), t) /\ Makes(UniqueIndexes(t, <<a, b, k>>), t)
                        /\ \A x : Makes(UniqueIndexes(t, <<a, b, k>>) \o PlainIndex(x, t), t)
        OBVIOUS
    <2>1. PICK s, r, K : s = <<k, a, b>> /\ r = <<a, b, k>> /\ K = {k, a, b}
        OBVIOUS
    <2>2. s \in Seq(K) /\ 1 \in 1 .. Len(s) /\ s[1] = k
        BY <2>1
    <2>3. r \in Seq(K) /\ 3 \in 1 .. Len(r) /\ r[3] = k
        BY <2>1
    <2>4. Makes(UniqueIndexes(t, s), t)
        BY <2>2, IndexesAre
    <2>5. Makes(UniqueIndexes(t, r), t) /\ \A x : Makes(UniqueIndexes(t, r) \o PlainIndex(x, t), t)
        BY <2>3, IndexesAre
    <2> QED
        BY <2>1, <2>4, <2>5
<1>4. PICK a, b, s, v, m : 
          /\ a = UniqueIndexes("entity", <<{"external_id"}, {"uuid"}>>)
          /\ b = UniqueIndexes("process", <<{"external_id"}, {"uuid"}>>)
          /\ s = UniqueIndexes("session", <<{"uuid"}, {"entity_id", "id"}, {"process_id", "id"}>>)
          /\ v = UniqueIndexes("conversation", <<{"session_id"}, {"uuid"}>>)
          /\ m = UniqueIndexes("conversation_message", <<{"uuid"}, {"conversation_id", "id"}>>)
    OBVIOUS
<1>5. PICK z : MongodbSessions = <<z, a, b, s, v, m>>
    BY <1>4 DEF MongodbSessions
<1>6. Makes(a, "entity") /\ Makes(b, "process") /\ Makes(s, "session") /\ Makes(v, "conversation")
    BY <1>1, <1>3, <1>4, NaturalKeysAre
<1>7. \A t \in Four : \E i \in 1 .. Len(MongodbSessions) : Makes(MongodbSessions[i], t)
    <2>1. /\ Len(MongodbSessions) = 6 /\ MongodbSessions[2] = a /\ MongodbSessions[3] = b
          /\ MongodbSessions[4] = s /\ MongodbSessions[5] = v
        BY <1>5
    <2> QED
        BY <1>6, <2>1 DEF Four
<1>8. PICK f, g : /\ f = UniqueIndexes("entity_fact", <<{"uuid"}, {"entity_id", "id"}, {"entity_id", "uniq"}>>)
                              \o PlainIndex("idx_freq", "entity_fact")
                  /\ g = UniqueIndexes("process_attribute", <<{"uuid"}, {"process_id", "id"}, {"process_id", "uniq"}>>)
    OBVIOUS
<1>9. MongodbFacts = <<f, g>>
    BY <1>8 DEF MongodbFacts
<1>10. Makes(f, "entity_fact") /\ Makes(g, "process_attribute")
    BY <1>3, <1>8, NaturalKeysAre
<1>11. PICK x, y, w : /\ x = UniqueIndexes("subject", <<{"uuid"}, {"uniq"}>>)
                      /\ y = UniqueIndexes("predicate", <<{"uuid"}, {"uniq"}>>)
                      /\ w = UniqueIndexes("object", <<{"uuid"}, {"uniq"}>>)
    OBVIOUS
<1>12. PICK h, ks, K : /\ h = UniqueIndexes("knowledge_graph", ks) /\ MongodbGraph = <<x, y, w, h>>
                    /\ ks = <<{"uuid"}, {"entity_id", "id"},
                              {"entity_id", "subject_id", "predicate_id", "object_id"},
                              {"subject_id", "id"}, {"predicate_id", "id"}, {"object_id", "id"}>>
                    /\ K = {{"uuid"}, {"entity_id", "id"}, {"entity_id", "subject_id", "predicate_id", "object_id"},
                            {"subject_id", "id"}, {"predicate_id", "id"}, {"object_id", "id"}}
    BY <1>11 DEF MongodbGraph
<1>13. Makes(x, "subject") /\ Makes(y, "predicate") /\ Makes(w, "object")
    BY <1>2, <1>11, NaturalKeysAre
<1>14. Makes(h, "knowledge_graph")
    <2>1. ks \in Seq(K) /\ 3 \in 1 .. Len(ks) /\ ks[3] = {"entity_id", "subject_id", "predicate_id", "object_id"}
        BY <1>12
    <2>2. ks[3] = NaturalKey["knowledge_graph"]
        BY <2>1, NaturalKeysAre
    <2> QED
        BY <1>12, <2>1, <2>2, IndexesAre
<1>15. PICK n : /\ n = UniqueIndexes("entity_fact_mention", <<{"uuid"}, {"entity_id", "fact_id", "conversation_id"}>>)
                             \o PlainIndex("idx_entity_conversation", "entity_fact_mention")
                /\ MongodbMentions = <<n>>
    BY DEF MongodbMentions
<1>16. Makes(n, "entity_fact_mention")
    BY <1>2, <1>15, NaturalKeysAre
<1>17. MongodbSessions \in Seq({z, a, b, s, v, m}) /\ MongodbFacts \in Seq({f, g}) /\ MongodbGraph \in Seq({x, y, w, h})
       /\ MongodbMentions \in Seq({n})
    BY <1>5, <1>9, <1>12, <1>15
<1>18. Len(MongodbFacts) = 2 /\ MongodbFacts[1] = f /\ MongodbFacts[2] = g
    BY <1>9
<1>19. Len(MongodbGraph) = 4 /\ MongodbGraph[1] = x /\ MongodbGraph[2] = y /\ MongodbGraph[3] = w /\ MongodbGraph[4] = h
    BY <1>12
<1>20. Len(MongodbMentions) = 1 /\ MongodbMentions[1] = n
    BY <1>15
<1>21. Listed(MongodbSessions) /\ Listed(MongodbFacts) /\ Listed(MongodbGraph) /\ Listed(MongodbMentions)
    BY <1>17, ListedIs
<1> QED
    BY <1>7, <1>10, <1>13, <1>14, <1>16, <1>18, <1>19, <1>20, <1>21 DEF Graph

-----------------------------------------------------------------------------
LEMMA MadeIsKeyed ==
    ASSUME NEW p, Listed(p), NEW t, \E i \in 1 .. Len(p) : Makes(p[i], t), NEW S, Built(p) \subseteq S
    PROVE  KeyedIn(S, t)
<1>1. PICK i \in 1 .. Len(p) : Makes(p[i], t)
    OBVIOUS
<1>2. p[i] \in Range(p)
    BY ListedIs DEF Listed
<1>3. PICK s \in Range(p[i]) : s.table = t /\ NaturalKey[t] \in s.keys
    BY <1>1 DEF Makes
<1>4. s \in S
    BY <1>2, <1>3 DEF Built
<1> QED
    BY <1>3, <1>4, KeyedBy

LEMMA MongodbKeys ==
    ASSUME NEW t \in Tables \ {"conversation_message"}
    PROVE  KeyedIn(Statements("mongodb", LatestRevision), t)
<1> DEFINE a == (MongodbSessions \o MongodbFacts) \o MongodbGraph
           S == Statements("mongodb", LatestRevision)
<1>1. Migrations["mongodb"] = <<a, MongodbMentions>>
    BY DEF Migrations
<1>2. Built(a) \cup Built(MongodbMentions) \subseteq S
    BY <1>1, RevisionsRun
<1>3. /\ Listed(MongodbSessions \o MongodbFacts)
      /\ Built(MongodbSessions) \cup Built(MongodbFacts) \subseteq Built(MongodbSessions \o MongodbFacts)
    BY MongodbMakes, BuiltJoins
<1>4. Built(MongodbSessions \o MongodbFacts) \cup Built(MongodbGraph) \subseteq Built(a)
    BY <1>3, MongodbMakes, BuiltJoins
<1>5. /\ Built(MongodbSessions) \subseteq S /\ Built(MongodbFacts) \subseteq S /\ Built(MongodbGraph) \subseteq S
      /\ Built(MongodbMentions) \subseteq S
    BY <1>2, <1>3, <1>4
<1> SUFFICES KeyedIn(S, t)
    OBVIOUS
<1> HIDE DEF a, S
<1>6. CASE t \in Four
    BY <1>5, <1>6, MongodbMakes, MadeIsKeyed
<1>7. CASE t \in {"entity_fact", "process_attribute"}
    BY <1>5, <1>7, MongodbMakes, MadeIsKeyed
<1>8. CASE t \in Graph \cup {"knowledge_graph"}
    BY <1>5, <1>8, MongodbMakes, MadeIsKeyed
<1>9. CASE t = "entity_fact_mention"
    BY <1>5, <1>9, MongodbMakes, MadeIsKeyed
<1> QED
    BY <1>6, <1>7, <1>8, <1>9, TablesAre DEF Learned, Erasable

\* The columns that name a row are a unique key in every dialect, but for messages.
LEMMA KeysAre ==
    ASSUME TypeInv, NEW t \in Tables \ {"conversation_message"}
    PROVE  NaturalKey[t] \in schema[t].keys
<1>1. dialect \in AllDialects /\ schema = BuiltSchema(dialect)
    BY Assumed DEF TypeInv
<1>2. KeyedIn(Statements(dialect, LatestRevision), t)
    BY <1>1, MongodbKeys, SqlKeys, SqlBuilds
<1>3. PICK s \in Statements(dialect, LatestRevision) : s.table = t /\ NaturalKey[t] \in s.keys
    BY <1>2 DEF KeyedIn
<1>4. NaturalKey[t] \in UniqueKeys(dialect, t)
    <2>1. s.keys \in {v.keys : v \in {u \in Statements(dialect, LatestRevision) : u.table = t}}
        BY <1>3
    <2> QED
        BY <1>3, <2>1 DEF UniqueKeys
<1>5. NaturalKey[t] \subseteq Columns[t]
    BY TablesAre, NaturalKeysAre, ColumnsAre DEF Four, Graph, Learned, Erasable
<1> QED
    BY <1>1, <1>4, <1>5 DEF BuiltSchema

\* The references a database checks: all, but for the entity of a mention.
Checked(t) == (Columns[t] \cap DOMAIN Names) \ (IF t = "entity_fact_mention" THEN {"entity_id"} ELSE {})

LEMMA RefersBy ==
    ASSUME NEW d, NEW s \in Statements(d, LatestRevision), NEW x \in s.refs, x # s.table
    PROVE  x \in Refers(d, s.table)
<1>1. s.refs \in {v.refs : v \in {u \in Statements(d, LatestRevision) : u.table = s.table}}
    OBVIOUS
<1>2. x \in UNION {v.refs : v \in {u \in Statements(d, LatestRevision) : u.table = s.table}}
    BY <1>1
<1> QED
    BY <1>2 DEF Refers

LEMMA SqlRefers ==
    ASSUME NEW d \in AllDialects \ {"mongodb"}
    PROVE  /\ \A x \in {"entity", "process"} : x \in Refers(d, "session")
           /\ "session" \in Refers(d, "conversation")
           /\ "conversation" \in Refers(d, "conversation_message")
           /\ "entity" \in Refers(d, "entity_fact")
           /\ "process" \in Refers(d, "process_attribute")
           /\ \A x \in {"entity_fact", "conversation"} : x \in Refers(d, "entity_fact_mention")
           /\ \A x \in {"entity", "subject", "predicate", "object"} : x \in Refers(d, "knowledge_graph")
<1>1. {Session, Conversation, ConversationMessage, EntityFact, ProcessAttribute, EntityFactMention, KnowledgeGraph}
          \subseteq Statements(d, LatestRevision)
    BY SqlBuilds DEF SqlTables
<1>2. Session.table = "session" /\ Session.refs = {"entity", "process"}
    BY DEF Session, Table
<1>3. Conversation.table = "conversation" /\ Conversation.refs = {"session"}
    BY DEF Conversation, Table
<1>4. ConversationMessage.table = "conversation_message" /\ ConversationMessage.refs = {"conversation"}
    BY DEF ConversationMessage, Table
<1>5. EntityFact.table = "entity_fact" /\ EntityFact.refs = {"entity"}
    BY DEF EntityFact, Table
<1>6. ProcessAttribute.table = "process_attribute" /\ ProcessAttribute.refs = {"process"}
    BY DEF ProcessAttribute, Table
<1>7. EntityFactMention.table = "entity_fact_mention" /\ EntityFactMention.refs = {"entity_fact", "conversation"}
    BY DEF EntityFactMention, Table
<1>8. KnowledgeGraph.table = "knowledge_graph" /\ KnowledgeGraph.refs = {"entity", "subject", "predicate", "object"}
    BY DEF KnowledgeGraph, Table
<1>9. \A s \in Statements(d, LatestRevision) : \A x \in s.refs : x # s.table => x \in Refers(d, s.table)
    BY RefersBy
<1>10. (\A x \in {"entity", "process"} : x \in Refers(d, "session")) /\ "session" \in Refers(d, "conversation")
    BY <1>1, <1>2, <1>3, <1>9
<1>11. "conversation" \in Refers(d, "conversation_message") /\ "entity" \in Refers(d, "entity_fact")
       /\ "process" \in Refers(d, "process_attribute")
    BY <1>1, <1>4, <1>5, <1>6, <1>9
<1>12. \A x \in {"entity_fact", "conversation"} : x \in Refers(d, "entity_fact_mention")
    BY <1>1, <1>7, <1>9
<1>13. \A x \in {"entity", "subject", "predicate", "object"} : x \in Refers(d, "knowledge_graph")
    BY <1>1, <1>8, <1>9
<1> QED
    BY <1>10, <1>11, <1>12, <1>13

LEMMA RefsAre ==
    ASSUME TypeInv, EnforcesKeys, NEW t \in Tables
    PROVE  Checked(t) \subseteq schema[t].refs
<1>1. dialect \in AllDialects \ {"mongodb"} /\ dialect \notin {"sqlite", "mongodb"} /\ schema = BuiltSchema(dialect)
    BY Assumed DEF TypeInv, EnforcesKeys
<1> SUFFICES ASSUME NEW k \in Checked(t) PROVE Names[k] \in Refers(dialect, t)
    BY <1>1 DEF BuiltSchema, Checked
<1>2. CASE t \in Four
    BY <1>1, <1>2, SqlRefers, ColumnsAre, NamesAre DEF Checked, Four
<1>3. CASE t \in Graph
    BY <1>3, ColumnsAre, NamesAre DEF Checked, Graph
<1>4. CASE t \in {"conversation_message", "entity_fact", "process_attribute"}
    BY <1>1, <1>4, SqlRefers, ColumnsAre, NamesAre DEF Checked
<1>5. CASE t = "entity_fact_mention"
    BY <1>1, <1>5, SqlRefers, ColumnsAre, NamesAre DEF Checked
<1>6. CASE t = "knowledge_graph"
    BY <1>1, <1>6, SqlRefers, ColumnsAre, NamesAre DEF Checked
<1> QED
    BY <1>2, <1>3, <1>4, <1>5, <1>6, TablesAre DEF Learned, Erasable

LEMMA EnforcedAre ==
    ASSUME TypeInv, Ignores
    PROVE  "conversation_id" \in schema["conversation_message"].refs /\ "session_id" \in schema["conversation"].refs
<1>1. "conversation" \in Tables /\ "conversation_message" \in Tables /\ EnforcesKeys
    BY TablesAre DEF Four, Ignores, EnforcesKeys
<1>2. "conversation_id" \in Checked("conversation_message") /\ "session_id" \in Checked("conversation")
    BY ColumnsAre, NamesAre DEF Checked
<1> QED
    BY <1>1, <1>2, RefsAre

-----------------------------------------------------------------------------
(* Rows keep their columns, and the rows they refer to.                    *)
Placed(S, T) ==
    \A r \in S :
        /\ r.table = "conversation_message" => Has(T, "conversation", r.cols["conversation_id"])
        /\ r.table = "conversation" => Has(T, "session", r.cols["session_id"])

PlacedInv == Placed(rows, rows) /\ \A n \in Connections : Placed(New(n), rows \cup New(n))

\* Rows with the same id have the same columns, in whichever database they are.
AlikeInv == \A r, q \in Stored : SameRow(r, q) => r.cols = q.cols

LEMMA StoredHas ==
    /\ \A r : r \in Stored <=> r \in rows \/ \E n \in Connections : r \in pend[n].new
    /\ \A r : r \in Stored' <=> r \in rows' \/ \E n \in Connections : r \in pend'[n].new
BY DEF Stored, New

\* What c sees of its own and of the others' after its step, it saw before, but
\* for the row it has just inserted.
Same(r, q) == q.table = r.table /\ q.id = r.id /\ q.cols = r.cols

OwnGrows(c) ==
    \A r \in rows' \cup pend'[Conn(c)].new :
        \/ InsertRow(c) /\ r = Draft(c)
        \/ \E q \in rows \cup pend[Conn(c)].new : Same(r, q)

LEMMA OwnStays ==
    ASSUME NEW c \in Clients, \A r \in rows' \cup pend'[Conn(c)].new : r \in rows \cup pend[Conn(c)].new
    PROVE  OwnGrows(c)
BY DEF OwnGrows, Same

LEMMA WriteGrows ==
    ASSUME NEW c \in Clients, TypeInv, NEW add, NEW remove, Write(c, add, remove),
           \A r \in add : \/ InsertRow(c) /\ r = Draft(c)
                          \/ \E q \in rows \cup pend[Conn(c)].new : Same(r, q)
    PROVE  OwnGrows(c)
<1>1. \A r \in rows' \cup pend'[Conn(c)].new : r \in rows \cup pend[Conn(c)].new \/ r \in add
    <2>1. CASE Mongo
        BY <2>1, WriteIs
    <2>2. CASE ~Mongo
        BY <2>2, WriteIs
    <2> QED
        BY <2>1, <2>2
<1> QED
    BY <1>1 DEF OwnGrows, Same

LEMMA StepGrows ==
    ASSUME NEW c \in Clients, BaseInv, Act(c) \/ Fail(c)
    PROVE  OwnGrows(c)
<1>1. TypeInv /\ TodoInv /\ StoreInv
    BY DEF BaseInv
<1>2. Conn(c) \in Connections /\ NoWork.new = {}
    BY ConnectionIs DEF NoWork
<1>3. ASSUME rows' = rows, pend' = pend \/ pend' = [pend EXCEPT ![Conn(c)] = NoWork] PROVE OwnGrows(c)
    <2>1. pend'[Conn(c)] = pend[Conn(c)] \/ pend'[Conn(c)] = NoWork
        BY <1>1, <1>2, <1>3, ClearedAre
    <2> QED
        BY <1>2, <1>3, <2>1, OwnStays
<1>4. CASE Begin(c)
    BY <1>3, <1>4 DEF Begin
<1>5. CASE RestartTransaction(c)
    BY <1>3, <1>5 DEF RestartTransaction
<1>6. CASE Raises(c)
    BY <1>1, <1>3, <1>6, RaiseLeaves
<1>7. CASE Reading(c)
    BY <1>3, <1>7, ReadingIs
<1>8. CASE CommitWork(c)
    <2>1. rows' = View(c) /\ pend' = [pend EXCEPT ![Conn(c)] = NoWork]
        BY <1>8, CommitIs
    <2>2. pend'[Conn(c)].new = {} \/ pend'[Conn(c)] = pend[Conn(c)]
        BY <1>1, <1>2, <2>1, ClearedAre
    <2> QED
        BY <2>1, <2>2, OwnStays DEF View
<1>9. CASE EraseRows(c)
    <2>1. Write(c, {}, Cascade(c))
        BY <1>1, <1>9, EraseRowsIs
    <2> QED
        BY <1>1, <2>1, WriteGrows
<1>10. CASE CountRow(c)
    <2>1. PICK add : /\ Write(c, add, Counted(c))
                     /\ \A r \in add : \E q \in Counted(c) : r.table = q.table /\ r.id = q.id /\ r.cols = q.cols
        BY <1>1, <1>10, CountRowIs
    <2>2. Counted(c) \subseteq rows \cup pend[Conn(c)].new
        BY <1>1, <1>10, CountRowIs DEF View
    <2>3. \A r \in add : \E q \in rows \cup pend[Conn(c)].new : Same(r, q)
        BY <2>1, <2>2 DEF Same
    <2> QED
        BY <1>1, <2>1, <2>3, WriteGrows
<1>11. CASE InsertRow(c)
    <2>1. PICK add, e : add = {Draft(c)} /\ e = {} /\ Write(c, add, e)
        BY <1>1, <1>11, DraftIs
    <2> QED
        BY <1>1, <1>11, <2>1, WriteGrows
<1> QED
    BY <1>4, <1>5, <1>6, <1>7, <1>8, <1>9, <1>10, <1>11, StepsAre, DoingsAre

LEMMA StoredGrows ==
    ASSUME NEW c \in Clients, BaseInv, GoneInv, Act(c) \/ Fail(c), NEW r \in Stored'
    PROVE  (InsertRow(c) /\ r = Draft(c)) \/ \E q \in Stored : Same(r, q)
<1>1. OwnGrows(c) /\ Conn(c) \in Connections /\ \A n \in Connections \ {Conn(c)} : pend'[n] = pend[n]
    BY StepGrows, StepStays, ConnectionIs DEF Leaves
<1>2. rows \cup pend[Conn(c)].new \subseteq Stored
    BY <1>1, StoredHas
<1>3. CASE r \in rows' \cup pend'[Conn(c)].new
    BY <1>1, <1>2, <1>3 DEF OwnGrows
<1>4. CASE r \notin rows' \cup pend'[Conn(c)].new
    <2>1. PICK n \in Connections : r \in pend'[n].new
        BY <1>4, StoredHas
    <2>2. r \in pend[n].new
        BY <1>1, <1>4, <2>1
    <2>3. r \in Stored
        BY <2>2, StoredHas
    <2> QED
        BY <2>3 DEF Same
<1> QED
    BY <1>3, <1>4

LEMMA StoredAreRows ==
    ASSUME BaseInv, NEW r \in Stored
    PROVE  /\ IsRow(r) /\ r.table \in Tables /\ r.id \in Nat /\ r.id >= 1 /\ r.id <= last[r.table]
           /\ last[r.table] \in Nat
           /\ r.table = "conversation" =>
                 r.cols["session_id"] \in Nat /\ r.cols["session_id"] <= last["session"]
           /\ r.table = "conversation_message" =>
                 r.cols["conversation_id"] \in Nat /\ r.cols["conversation_id"] <= last["conversation"]
<1>1. IsRow(r)
    BY StoredHas DEF BaseInv, StoreInv, New
<1>2. /\ r.table \in Tables /\ r.id \in 1 .. last[r.table]
      /\ \A k \in Columns[r.table] \cap DOMAIN Names : r.cols[k] \in 0 .. last[Names[k]]
    BY <1>1 DEF IsRow
<1>3. last \in [Tables -> Nat] /\ "session" \in Tables /\ "conversation" \in Tables
    BY HasIs DEF BaseInv, TypeInv, Four
<1>4. last[r.table] \in Nat /\ last["session"] \in Nat /\ last["conversation"] \in Nat
    BY <1>2, <1>3
<1>5. r.table = "conversation" => r.cols["session_id"] \in 0 .. last["session"]
    BY <1>2, NamesAre, ColumnsAre
<1>6. r.table = "conversation_message" => r.cols["conversation_id"] \in 0 .. last["conversation"]
    BY <1>2, NamesAre, ColumnsAre
<1> QED
    BY <1>1, <1>2, <1>4, <1>5, <1>6

\* A new row has a new id.
LEMMA DraftIsNew ==
    ASSUME NEW c \in Clients, BaseInv, InsertRow(c), NEW q \in Stored
    PROVE  ~(q.table = Draft(c).table /\ q.id = Draft(c).id)
<1>1. q.id \in Nat /\ q.id <= last[q.table] /\ last[q.table] \in Nat
    BY StoredAreRows
<1>2. Draft(c).table = Here(c).table /\ Draft(c).id = last[Here(c).table] + 1
    BY DraftIs DEF BaseInv
<1> QED
    BY <1>1, <1>2

LEMMA AlikeStep ==
    ASSUME NEW c \in Clients, BaseInv, GoneInv, AlikeInv, Act(c) \/ Fail(c)
    PROVE  AlikeInv'
<1> SUFFICES ASSUME NEW r \in Stored', NEW q \in Stored', r.table = q.table, r.id = q.id PROVE r.cols = q.cols
    BY DEF AlikeInv, SameRow
<1>1. CASE InsertRow(c) /\ r = Draft(c)
    <2>1. CASE q = Draft(c)
        BY <1>1, <2>1
    <2>2. CASE q # Draft(c)
        <3>1. PICK p \in Stored : Same(q, p)
            BY <2>2, StoredGrows
        <3> QED
            BY <1>1, <3>1, DraftIsNew DEF Same
    <2> QED
        BY <2>1, <2>2
<1>2. CASE InsertRow(c) /\ q = Draft(c)
    <2>1. CASE r = Draft(c)
        BY <1>2, <2>1
    <2>2. CASE r # Draft(c)
        <3>1. PICK p \in Stored : Same(r, p)
            BY <2>2, StoredGrows
        <3> QED
            BY <1>2, <3>1, DraftIsNew DEF Same
    <2> QED
        BY <2>1, <2>2
<1>3. CASE ~(InsertRow(c) /\ r = Draft(c)) /\ ~(InsertRow(c) /\ q = Draft(c))
    <2>1. PICK p \in Stored : Same(r, p)
        BY <1>3, StoredGrows
    <2>2. PICK o \in Stored : Same(q, o)
        BY <1>3, StoredGrows
    <2>3. p.cols = o.cols
        BY <2>1, <2>2 DEF AlikeInv, SameRow, Same
    <2> QED
        BY <2>1, <2>2, <2>3 DEF Same
<1> QED
    BY <1>1, <1>2, <1>3

-----------------------------------------------------------------------------
(* A new message has its conversation, a new conversation its session.     *)
\* A turn or an injection goes by the ids that are cached.
MirrorInv == \A c \in Clients : Keeping(c) => \A t \in {"session", "conversation"} : ids[c][t] = cache[c][t]

LEMMA UsedIsKnown ==
    ASSUME NEW c \in Clients, TypeInv, TodoInv, Running(c), NEW t \in {"session", "conversation"}, Uses(t, Here(c))
    PROVE  ids[c][t] # 0
<1>1. PICK G \in SUBSET (1 .. Len(todo[c]) + 1) : Closed(Mongo, t, todo[c], G) /\ (ids[c][t] # 0 \/ 1 \in G)
    BY DEF TodoInv, Rest
<1>2. Len(todo[c]) \in Nat /\ Len(todo[c]) >= 1 /\ Here(c) = todo[c][1]
    BY HereIs
<1>3. 1 \in 1 .. Len(todo[c])
    BY <1>2
<1>4. 1 \notin G
    BY <1>1, <1>2, <1>3 DEF Closed
<1> QED
    BY <1>1, <1>4

LEMMA DraftIsPlaced ==
    ASSUME NEW c \in Clients, BaseInv, CacheInv, MirrorInv, InsertRow(c),
           NEW t \in {"session", "conversation"}, NEW k, Uses(t, Here(c)),
           k = IF t = "session" THEN "session_id" ELSE "conversation_id"
    PROVE  Draft(c).cols[k] = ids[c][t] /\ Keeping(c) /\ Has(rows \cup pend[Conn(c)].new, t, ids[c][t])
<1>1. TypeInv /\ TodoInv /\ StoreInv
    BY DEF BaseInv
<1>2. /\ Here(c).table \in Tables /\ Running(c) /\ Here(c).do \in Adds /\ ~aborted[Conn(c)]
      /\ \A j \in Columns[Here(c).table] : Draft(c).cols[j] = Value(c, Here(c).table, j)
    BY <1>1, DraftIs
<1>3. Here(c).table = IF t = "session" THEN "conversation" ELSE "conversation_message"
    BY DEF Uses
<1>4. k \in Columns[Here(c).table] /\ k \in DOMAIN Names /\ Names[k] = t
    BY <1>3, ColumnsAre, NamesAre
<1>5. Value(c, Here(c).table, k) = ids[c][t]
    BY <1>4, ValueIs
<1>6. ids[c][t] # 0
    BY <1>1, <1>2, UsedIsKnown
<1>7. Keeping(c)
    <2>1. Here(c) \in OfJob(Job(c))
        BY <1>1, <1>2, HereIs
    <2>2. Here(c).do \notin {"when", "update"} \cup Ends
        BY <1>2 DEF Adds, Ends
    <2>3. Job(c) \in {"turn", "inject"}
        BY <1>2, <1>3, <2>1, <2>2 DEF OfJob, MessageAdd
    <2> QED
        BY <1>2, <2>3 DEF Keeping
<1>8. Has(rows \cup pend[Conn(c)].new, t, ids[c][t])
    <2>1. CASE Ignores
        <3>1. k \in schema[Here(c).table].refs
            BY <1>1, <1>3, <2>1, EnforcedAre
        <3>2. ~Dangling(c)
            BY DEF InsertRow
        <3>3. Has(View(c), t, ids[c][t])
            BY <1>4, <1>5, <1>6, <3>1, <3>2 DEF Dangling
        <3>4. View(c) \subseteq rows \cup pend[Conn(c)].new
            BY DEF View
        <3> QED
            BY <3>3, <3>4, HasIs
    <2>2. CASE ~Ignores
        <3>1. Conn(c) = Main(c)
            BY <1>7, MainIs
        <3>2. Firm(c)
            BY <1>2, <2>2, <3>1 DEF Firm
        <3>3. t \in Four /\ ids[c][t] = cache[c][t]
            BY <1>7 DEF MirrorInv, Four
        <3>4. Has(Base(c), t, ids[c][t])
            BY <1>6, <3>2, <3>3 DEF CacheInv, HeldInv
        <3>5. Base(c) \subseteq rows \cup pend[Conn(c)].new
            BY <3>1 DEF Base, New
        <3> QED
            BY <3>4, <3>5, HasIs
    <2> QED
        BY <2>1, <2>2
<1> QED
    BY <1>2, <1>4, <1>5, <1>7, <1>8

LEMMA PlacedStep ==
    ASSUME NEW c \in Clients, BaseInv, CacheInv, MirrorInv, PlacedInv, Act(c) \/ Fail(c)
    PROVE  PlacedInv'
<1>1. TypeInv /\ TodoInv /\ StoreInv /\ GoneInv /\ Conn(c) \in Connections
    BY ConnectionIs DEF BaseInv, CacheInv
<1>2. Leaves(c) /\ (Begin(c) \/ Doing(c) => Stays(c)) /\ OwnGrows(c)
    BY <1>1, StepStays, StepGrows
<1>3. "session" \notin Erasable /\ "conversation" \notin Erasable
    BY HasIs DEF Four
<1> DEFINE T == rows \cup pend[Conn(c)].new
           U == rows' \cup pend'[Conn(c)].new
<1>4. Placed(T, T)
    BY <1>1, HasIs DEF PlacedInv, Placed, New
<1>5. ASSUME Stays(c) PROVE Placed(U, U)
    <2>1. \A i : (Has(T, "session", i) => Has(U, "session", i)) /\ (Has(T, "conversation", i) => Has(U, "conversation", i))
        BY <1>3, <1>5 DEF Stays
    <2>2. ASSUME NEW r \in U
          PROVE  /\ r.table = "conversation_message" => Has(T, "conversation", r.cols["conversation_id"])
                 /\ r.table = "conversation" => Has(T, "session", r.cols["session_id"])
        <3>1. CASE InsertRow(c) /\ r = Draft(c)
            <4>1. Draft(c).table = Here(c).table /\ Here(c).do \in Adds
                BY <1>1, <3>1, DraftIs
            <4>2. r.table = "conversation_message" => Has(T, "conversation", r.cols["conversation_id"])
                BY <3>1, <4>1, DraftIsPlaced DEF Uses
            <4>3. r.table = "conversation" => Has(T, "session", r.cols["session_id"])
                BY <3>1, <4>1, DraftIsPlaced DEF Uses
            <4> QED
                BY <4>2, <4>3
        <3>2. CASE ~(InsertRow(c) /\ r = Draft(c))
            <4>1. PICK q \in T : Same(r, q)
                BY <1>2, <3>2 DEF OwnGrows
            <4> QED
                BY <1>4, <4>1 DEF Placed, Same
        <3> QED
            BY <3>1, <3>2
    <2> HIDE DEF T, U
    <2> QED
        BY <2>1, <2>2 DEF Placed
<1>6. ASSUME NEW n \in Connections, pend'[n] = pend[n] PROVE Placed(pend'[n].new, rows' \cup pend'[n].new)
    <2>1. \A i : /\ Has(rows, "session", i) => Has(rows', "session", i)
                 /\ Has(rows, "conversation", i) => Has(rows', "conversation", i)
        BY <1>2, <1>3 DEF Leaves
    <2>2. \A i : /\ Has(rows \cup pend[n].new, "session", i) => Has(rows' \cup pend'[n].new, "session", i)
                 /\ Has(rows \cup pend[n].new, "conversation", i) => Has(rows' \cup pend'[n].new, "conversation", i)
        BY <1>6, <2>1 DEF Has
    <2>3. Placed(pend[n].new, rows \cup pend[n].new)
        BY DEF PlacedInv, New
    <2> QED
        BY <1>6, <2>2, <2>3 DEF Placed
<1>7. Placed({}, rows') /\ NoWork.new = {}
    BY DEF Placed, NoWork
<1>8. ASSUME rows' = rows, pend' = pend \/ pend' = [pend EXCEPT ![Conn(c)] = NoWork]
      PROVE  Placed(rows', rows') /\ Placed(pend'[Conn(c)].new, U)
    <2>1. Placed(rows', rows')
        BY <1>8 DEF PlacedInv
    <2>2. pend'[Conn(c)] = pend[Conn(c)] \/ pend'[Conn(c)] = NoWork
        BY <1>1, <1>8, ClearedAre
    <2>3. CASE pend'[Conn(c)] = pend[Conn(c)]
        BY <1>1, <1>6, <2>1, <2>3
    <2>4. CASE pend'[Conn(c)] = NoWork
        BY <1>7, <2>1, <2>4 DEF Placed
    <2> QED
        BY <2>1, <2>2, <2>3, <2>4
<1>9. ASSUME Stays(c), rows' = rows \/ pend'[Conn(c)].new = {}
      PROVE  Placed(rows', rows') /\ Placed(pend'[Conn(c)].new, U)
    <2>1. Placed(U, U)
        BY <1>5, <1>9
    <2>2. Placed(pend'[Conn(c)].new, U)
        BY <2>1 DEF Placed
    <2>3. CASE rows' = rows
        BY <2>2, <2>3 DEF PlacedInv
    <2>4. CASE pend'[Conn(c)].new = {}
        <3>1. U = rows'
            BY <2>4
        <3> QED
            BY <2>1, <2>2, <3>1
    <2> QED
        BY <1>9, <2>3, <2>4
<1>10. ASSUME NEW add, NEW remove, Write(c, add, remove) PROVE rows' = rows \/ pend'[Conn(c)].new = {}
    <2>1. CASE Mongo
        BY <1>1, <1>7, <1>10, <2>1, WriteIs DEF StoreInv
    <2>2. CASE ~Mongo
        BY <1>1, <1>10, <2>2, WriteIs
    <2> QED
        BY <2>1, <2>2
<1>11. ASSUME Doing(c), ~Reading(c) PROVE rows' = rows \/ pend'[Conn(c)].new = {}
    <2>1. CASE InsertRow(c)
        BY <1>1, <1>10, <2>1, DraftIs
    <2>2. CASE CountRow(c)
        BY <1>1, <1>10, <2>2, CountRowIs
    <2>3. CASE EraseRows(c)
        BY <1>1, <1>10, <2>3, EraseRowsIs
    <2>4. CASE CommitWork(c)
        <3>1. pend' = [pend EXCEPT ![Conn(c)] = NoWork] /\ pend = [n \in Connections |-> pend[n]]
            BY <1>1, <2>4, CommitIs DEF TypeInv
        <3>2. pend'[Conn(c)] = NoWork
            BY <1>1, <3>1
        <3> QED
            BY <1>7, <3>2
    <2> QED
        BY <1>11, <2>1, <2>2, <2>3, <2>4, DoingsAre
<1>12. Placed(rows', rows') /\ Placed(pend'[Conn(c)].new, U)
    <2>1. CASE Begin(c) \/ RestartTransaction(c)
        BY <1>8, <2>1 DEF Begin, RestartTransaction
    <2>2. CASE Raises(c)
        BY <1>1, <1>8, <2>2, RaiseLeaves
    <2>3. CASE Doing(c)
        <3>1. CASE Reading(c)
            BY <1>8, <3>1, ReadingIs
        <3>2. CASE ~Reading(c)
            BY <1>2, <1>9, <1>11, <2>3, <3>2
        <3> QED
            BY <3>1, <3>2
    <2> QED
        BY <2>1, <2>2, <2>3, StepsAre
<1>13. ASSUME NEW n \in Connections PROVE Placed(pend'[n].new, rows' \cup pend'[n].new)
    <2>1. CASE n = Conn(c)
        BY <1>12, <2>1
    <2>2. CASE n # Conn(c)
        <3>1. pend'[n] = pend[n]
            BY <1>2, <2>2 DEF Leaves
        <3> QED
            BY <1>6, <3>1
    <2> QED
        BY <2>1, <2>2
<1> HIDE DEF T, U
<1> QED
    BY <1>12, <1>13 DEF PlacedInv, New

-----------------------------------------------------------------------------
(* The ids a statement returns.                                            *)
Given(c, t, i) ==
    \/ LookUp(c) /\ t = Here(c).table /\ i \in FoundIds(c)
    \/ Here(c).do \in {"return_recent", "add_absent"} /\ t = Here(c).table /\ i = got[c]
    \/ InsertRow(c) /\ t = Here(c).table /\ i = Draft(c).id

LEMMA GivesAre ==
    ASSUME NEW c \in Clients, TypeInv, TodoInv, StoreInv, Doing(c), ~ChangeSession(c)
    PROVE  UNCHANGED <<ids, cache>> \/ \E t \in Tables, i \in Nat : Return(c, t, i) /\ Given(c, t, i)
<1> SUFFICES ASSUME ~UNCHANGED <<ids, cache>>
             PROVE  \E t \in Tables, i \in Nat : Return(c, t, i) /\ Given(c, t, i)
    OBVIOUS
<1>1. CASE LookUp(c)
    <2>1. PICK i \in FoundIds(c) : Return(c, Here(c).table, i)
        BY <1>1 DEF LookUp
    <2>2. Running(c) /\ Here(c).do \in {"look", "take"}
        BY <1>1 DEF LookUp, Ready
    <2>3. Here(c).table \in Tables
        BY <2>2, HereIs DEF Proper, Ends
    <2>4. i \in Nat
        BY <2>3, FoundAre
    <2> QED
        BY <1>1, <2>1, <2>3, <2>4 DEF Given
<1>2. CASE JudgeConversation(c)
    <2>1. Return(c, "conversation", got[c])
        BY <1>2 DEF JudgeConversation, KeepIds
    <2>2. Running(c) /\ Here(c).do = "return_recent"
        BY <1>2 DEF JudgeConversation, Ready
    <2>3. Here(c).table = "conversation" /\ got[c] \in Nat
        BY <2>2, HereIs DEF Proper, TypeInv
    <2>4. Here(c).table \in Tables
        BY <2>2, HereIs DEF Proper, Ends
    <2> QED
        BY <2>1, <2>2, <2>3, <2>4 DEF Given
<1>3. CASE InsertRow(c)
    <2>1. /\ Here(c).table \in Tables
          /\ Draft(c).table = Here(c).table /\ Draft(c).id = last[Here(c).table] + 1
        BY <1>3, DraftIs
    <2>2. Return(c, Here(c).table, NewId(Here(c).table))
        BY <1>3 DEF InsertRow, KeepIds
    <2>3. NewId(Here(c).table) = Draft(c).id /\ Draft(c).id \in Nat
        BY <2>1 DEF NewId, TypeInv
    <2> QED
        BY <1>3, <2>1, <2>2, <2>3 DEF Given
<1>4. CASE WriteNothing(c)
    <2>1. Here(c).do = "add_absent" /\ Return(c, Here(c).table, got[c]) /\ Running(c)
        BY <1>4 DEF WriteNothing, KeepIds, Ready
    <2>2. Here(c).table \in Tables /\ got[c] \in Nat
        BY <2>1, HereIs DEF Proper, Ends, TypeInv
    <2> QED
        BY <2>1, <2>2 DEF Given
<1>5. ~FindRow(c) /\ ~NoteIds(c) /\ ~ReadMessages(c) /\ ~ReadNoted(c)
    BY DEF FindRow, NoteIds, ReadMessages, ReadNoted, KeepIds
<1>6. ~CountRow(c) /\ ~EraseRows(c) /\ ~CommitWork(c) /\ ~Decide(c)
    BY DEF CountRow, EraseRows, CommitWork, Decide
<1> QED
    BY <1>1, <1>2, <1>3, <1>4, <1>5, <1>6 DEF Doing

\* A change of session is a job of its own.
LEMMA ChangesAre ==
    ASSUME NEW c \in Clients, TypeInv, TodoInv, StoreInv, Doing(c)
    PROVE  /\ Job(c) \in {"new_session", "restore"} <=> ChangeSession(c)
           /\ ChangeSession(c) => /\ Here(c).do = (IF Job(c) = "new_session" THEN "new_session" ELSE "set_session")
                                  /\ ~Running(c)' /\ job' = job /\ UNCHANGED <<rows, last, pend>>
           /\ ~ChangeSession(c) => uuid' = uuid
<1>1. Running(c)
    BY DoingIs DEF By, Goes
<1>2. Here(c) \in OfJob(Job(c)) /\ Len(todo[c]) \in Nat
    BY <1>1, HereIs
<1>3. (Here(c).do = "new_session" <=> Job(c) = "new_session") /\ (Here(c).do = "set_session" <=> Job(c) = "restore")
    BY <1>2 DEF OfJob
<1>4. ChangeSession(c) => Here(c).do \in {"new_session", "set_session"}
    BY DEF ChangeSession, Ready
<1>5. ASSUME ~ChangeSession(c) PROVE Here(c).do \notin {"new_session", "set_session"} /\ uuid' = uuid
    <2>1. CASE FindRow(c) \/ LookUp(c) \/ JudgeConversation(c)
        BY <2>1 DEF FindRow, LookUp, JudgeConversation, Ready, Untouched
    <2>2. CASE ReadMessages(c) \/ NoteIds(c) \/ ReadNoted(c)
        BY <2>2 DEF ReadMessages, NoteIds, ReadNoted, Ready, Untouched
    <2>3. CASE InsertRow(c) \/ CountRow(c) \/ WriteNothing(c)
        BY <2>3 DEF InsertRow, CountRow, WriteNothing, Ready, Untouched, Adds
    <2>4. CASE EraseRows(c) \/ CommitWork(c) \/ Decide(c)
        BY <2>4 DEF EraseRows, CommitWork, Decide, Ready, Untouched, Erases
    <2> QED
        BY <1>5, <2>1, <2>2, <2>3, <2>4 DEF Doing
<1>6. ASSUME ChangeSession(c) PROVE ~Running(c)' /\ job' = job /\ UNCHANGED <<rows, last, pend>>
    <2>1. UNCHANGED <<rows, last, pend>> /\ Go(c, 1)
        BY <1>6 DEF ChangeSession, NoWrite
    <2>2. Len(todo[c]) = 1
        BY <1>1, <1>3, <1>4, <1>6 DEF TodoInv, Rest
    <2>3. todo' = [todo EXCEPT ![c] = <<>>] /\ job' = job
        BY <2>1, <2>2 DEF Go, Step, EndJob
    <2>4. todo'[c] = <<>>
        BY <2>3 DEF TypeInv
    <2> QED
        BY <2>1, <2>3, <2>4 DEF Running
<1> QED
    BY <1>3, <1>4, <1>5, <1>6

LEMMA MirrorStep ==
    ASSUME NEW c \in Clients, BaseInv, MirrorInv, Act(c) \/ Fail(c)
    PROVE  MirrorInv'
<1>1. /\ TypeInv /\ TodoInv /\ StoreInv /\ Frame(c) /\ play' = play
      /\ ids \in [Clients -> [Tables -> Nat]] /\ cache \in [Clients -> [Tables -> Nat]]
    BY StepCounts DEF BaseInv, Frame, TypeInv
<1>2. "session" \in Tables /\ "conversation" \in Tables
    BY TablesAre DEF Four
<1>3. ASSUME NEW d \in Clients \ {c}, Keeping(d)', NEW t \in {"session", "conversation"} PROVE ids'[d][t] = cache'[d][t]
    <2>1. /\ ids'[d] = ids[d] /\ cache'[d] = cache[d]
          /\ Running(d)' = Running(d) /\ Job(d)' = Job(d)
        BY <1>1, OthersStay
    <2>2. Keeping(d)
        BY <1>3, <2>1 DEF Keeping
    <2> QED
        BY <2>1, <2>2 DEF MirrorInv
<1>4. ASSUME Keeping(c)', NEW t \in {"session", "conversation"} PROVE ids'[c][t] = cache'[c][t]
    <2>1. ~Raises(c)
        BY <1>1, <1>4, RaiseLeaves DEF Keeping
    <2>2. CASE Begin(c)
        <3>1. ids' = [ids EXCEPT ![c] = cache[c]] /\ cache' = cache
            BY <2>2 DEF Begin
        <3> QED
            BY <1>1, <3>1
    <2>3. CASE RestartTransaction(c)
        <3>1. ids' = ids /\ cache' = cache /\ Keeping(c)
            BY <1>1, <2>3, RestartTypes DEF RestartTransaction, Keeping
        <3> QED
            BY <3>1 DEF MirrorInv
    <2>4. CASE Doing(c)
        <3>1. Running(c) /\ job' = job /\ Job(c)' = Job(c)
            BY <1>1, <2>4, DoingIs, GoesOn DEF By, Goes, Job
        <3>2. Keeping(c)
            BY <1>4, <3>1 DEF Keeping
        <3>3. ids[c][t] = cache[c][t]
            BY <3>2 DEF MirrorInv
        <3>4. ~ChangeSession(c)
            BY <1>1, <2>4, <3>2, ChangesAre DEF Keeping
        <3>5. CASE UNCHANGED <<ids, cache>>
            BY <3>3, <3>5
        <3>6. CASE \E u \in Tables, i \in Nat : Return(c, u, i)
            <4>1. PICK u \in Tables, i \in Nat : Return(c, u, i)
                BY <3>6
            <4>2. ids' = [ids EXCEPT ![c][u] = i]
                BY <4>1 DEF Return
            <4>3. CASE u = t
                <5>1. cache' = [cache EXCEPT ![c][u] = i]
                    BY <3>2, <4>1, <4>3 DEF Return, Keeping
                <5> QED
                    BY <1>1, <1>2, <4>2, <4>3, <5>1
            <4>4. CASE u # t
                <5>1. t \in Tables \ {u}
                    BY <1>2, <4>4
                <5> QED
                    BY <1>1, <3>3, <4>1, <5>1, ReturnIs
            <4> QED
                BY <4>3, <4>4
        <3> QED
            BY <1>1, <2>4, <3>4, <3>5, <3>6, GivesAre
    <2> QED
        BY <2>1, <2>2, <2>3, <2>4, StepsAre
<1>5. \A d \in Clients : Keeping(d)' => \A t \in {"session", "conversation"} : ids'[d][t] = cache'[d][t]
    BY <1>3, <1>4
<1> QED
    BY <1>5 DEF MirrorInv

-----------------------------------------------------------------------------
(* The session a client is in, and the one its ids belong to.              *)
\* The row with this id is the session u, or a conversation of it.
SessionIs(i, u) == \A s \in Stored : s.table = "session" /\ s.id = i => s.cols["uuid"] = u

DialogueIs(i, u) ==
    \A v \in Stored : v.table = "conversation" /\ v.id = i => SessionIs(v.cols["session_id"], u)

IdIs(t, i, u) == IF t = "session" THEN SessionIs(i, u) ELSE DialogueIs(i, u)

LEMMA NothingIsZero ==
    ASSUME BaseInv, NEW t, NEW u
    PROVE  IdIs(t, 0, u)
<1>1. \A r \in Stored : r.id # 0
    BY StoredAreRows
<1> QED
    BY <1>1 DEF IdIs, SessionIs, DialogueIs

LEMMA SessionStays ==
    ASSUME NEW c \in Clients, BaseInv, GoneInv, Act(c) \/ Fail(c), NEW u,
           NEW i \in Nat, i <= last["session"], SessionIs(i, u)
    PROVE  SessionIs(i, u)'
<1> SUFFICES ASSUME NEW s \in Stored', s.table = "session", s.id = i PROVE s.cols["uuid"] = u
    BY DEF SessionIs
<1>1. CASE InsertRow(c) /\ s = Draft(c)
    <2>1. Draft(c).table = Here(c).table /\ Draft(c).id = last[Here(c).table] + 1
        BY <1>1, DraftIs DEF BaseInv
    <2>2. last["session"] \in Nat
        BY TablesAre DEF BaseInv, TypeInv, Four
    <2> QED
        BY <1>1, <2>1, <2>2
<1>2. CASE ~(InsertRow(c) /\ s = Draft(c))
    <2>1. PICK q \in Stored : Same(s, q)
        BY <1>2, StoredGrows
    <2> QED
        BY <2>1 DEF SessionIs, Same
<1> QED
    BY <1>1, <1>2

LEMMA DialogueStays ==
    ASSUME NEW c \in Clients, BaseInv, GoneInv, Act(c) \/ Fail(c), NEW u,
           NEW i \in Nat, i <= last["conversation"], DialogueIs(i, u)
    PROVE  DialogueIs(i, u)'
<1> SUFFICES ASSUME NEW v \in Stored', v.table = "conversation", v.id = i PROVE SessionIs(v.cols["session_id"], u)'
    BY DEF DialogueIs
<1>1. CASE InsertRow(c) /\ v = Draft(c)
    <2>1. Draft(c).table = Here(c).table /\ Draft(c).id = last[Here(c).table] + 1
        BY <1>1, DraftIs DEF BaseInv
    <2>2. last["conversation"] \in Nat
        BY TablesAre DEF BaseInv, TypeInv, Four
    <2> QED
        BY <1>1, <2>1, <2>2
<1>2. CASE ~(InsertRow(c) /\ v = Draft(c))
    <2>1. PICK q \in Stored : Same(v, q)
        BY <1>2, StoredGrows
    <2>2. SessionIs(q.cols["session_id"], u) /\ q.table = "conversation"
        BY <2>1 DEF DialogueIs, Same
    <2>3. PICK k : k = q.cols["session_id"]
        OBVIOUS
    <2>4. k \in Nat /\ k <= last["session"]
        BY <2>2, <2>3, StoredAreRows
    <2>5. SessionIs(k, u)'
        BY <2>2, <2>3, <2>4, SessionStays
    <2>6. v.cols["session_id"] = k
        BY <2>1, <2>3 DEF Same
    <2> QED
        BY <2>5, <2>6
<1> QED
    BY <1>1, <1>2

LEMMA IdStays ==
    ASSUME NEW c \in Clients, BaseInv, GoneInv, Act(c) \/ Fail(c), NEW u, NEW t \in {"session", "conversation"},
           NEW i \in Nat, i <= last[t], IdIs(t, i, u)
    PROVE  IdIs(t, i, u)'
BY SessionStays, DialogueStays DEF IdIs

\* What a look-up finds is of the session the client is in.
LEMMA FoundIs ==
    ASSUME NEW c \in Clients, BaseInv, AlikeInv, MirrorInv, Keeping(c), SessionIs(cache[c]["session"], uuid[c]),
           NEW t \in {"session", "conversation"}, Here(c).table = t, NEW i \in FoundIds(c)
    PROVE  IdIs(t, i, uuid[c])
<1>1. CASE i = 0
    BY <1>1, NothingIsZero
<1>2. CASE i # 0
    <2>1. t \in Tables /\ TypeInv /\ StoreInv
        BY TablesAre DEF Four, BaseInv
    <2>2. PICK r \in Matches(c, t) : r.id = i
        BY <1>2, <2>1, FoundAre
    <2>3. r \in View(c) /\ r.table = t /\ \A k \in NaturalKey[t] : r.cols[k] = Value(c, t, k)
        BY DEF Matches
    <2>4. r \in Stored
        BY <2>3, StoredHas, ConnectionIs DEF View
    <2>5. \A q \in Stored : q.table = t /\ q.id = i => q.cols = r.cols
        BY <2>2, <2>3, <2>4 DEF AlikeInv, SameRow
    <2>6. CASE t = "session"
        <3>1. "uuid" \in NaturalKey["session"]
            BY DEF NaturalKey
        <3>2. r.cols["uuid"] = uuid[c]
            BY <2>3, <2>6, <3>1 DEF Value
        <3> QED
            BY <2>5, <2>6, <3>2 DEF IdIs, SessionIs
    <2>7. CASE t = "conversation"
        <3>1. "session_id" \in NaturalKey["conversation"]
            BY DEF NaturalKey
        <3>2. Value(c, t, "session_id") = ids[c]["session"]
            BY ValueIs, NamesAre
        <3>3. r.cols["session_id"] = cache[c]["session"]
            BY <2>3, <2>7, <3>1, <3>2 DEF MirrorInv
        <3> QED
            BY <2>5, <2>7, <3>3 DEF IdIs, DialogueIs
    <2> QED
        BY <2>6, <2>7
<1> QED
    BY <1>1, <1>2

\* So is what it inserts.
LEMMA InsertedIs ==
    ASSUME NEW c \in Clients, BaseInv, CacheInv, MirrorInv, InsertRow(c), Act(c),
           SessionIs(cache[c]["session"], uuid[c]),
           NEW t \in {"session", "conversation"}, Here(c).table = t, NEW u, u = uuid[c], NEW i, i = Draft(c).id
    PROVE  IdIs(t, i, u)'
<1>1. TypeInv /\ TodoInv /\ StoreInv /\ GoneInv
    BY DEF BaseInv, CacheInv
<1>2. /\ Here(c).do \in Adds /\ Draft(c).table = t
      /\ \A k \in Columns[t] : Draft(c).cols[k] = Value(c, t, k)
    BY <1>1, DraftIs
<1>3. ASSUME NEW r \in Stored', r.table = t, r.id = i PROVE r = Draft(c)
    <2>1. CASE r # Draft(c)
        <3>1. PICK q \in Stored : Same(r, q)
            BY <1>1, <2>1, StoredGrows
        <3> QED
            BY <1>2, <1>3, <3>1, DraftIsNew DEF Same
    <2> QED
        BY <2>1
<1>4. CASE t = "session"
    <2>1. Draft(c).cols["uuid"] = u
        BY <1>2, <1>4, ColumnsAre DEF Value
    <2>2. ASSUME NEW r \in Stored', r.table = "session", r.id = i PROVE r.cols["uuid"] = u
        BY <1>3, <1>4, <2>1, <2>2
    <2>3. SessionIs(i, u)'
        BY <2>2 DEF SessionIs
    <2> QED
        BY <1>4, <2>3 DEF IdIs
<1>5. CASE t = "conversation"
    <2>1. Uses("session", Here(c))
        BY <1>2, <1>5 DEF Uses
    <2>2. Draft(c).cols["session_id"] = ids[c]["session"] /\ Keeping(c)
        BY <2>1, DraftIsPlaced
    <2>3. PICK k : k = cache[c]["session"]
        OBVIOUS
    <2>4. Draft(c).cols["session_id"] = k
        BY <2>2, <2>3 DEF MirrorInv
    <2>5. k \in Nat /\ k <= last["session"]
        BY <1>1, <2>3, TablesAre DEF TypeInv, Four
    <2>6. SessionIs(k, u)'
        BY <1>1, <2>3, <2>5, SessionStays
    <2>7. ASSUME NEW r \in Stored', r.table = "conversation", r.id = i PROVE r.cols["session_id"] = k
        BY <1>3, <1>5, <2>4, <2>7
    <2>8. DialogueIs(i, u)'
        BY <2>6, <2>7 DEF DialogueIs
    <2> QED
        BY <1>5, <2>8 DEF IdIs
<1> QED
    BY <1>4, <1>5

-----------------------------------------------------------------------------
(* The session a client is in is the one of the job it is at, in a play in  *)
(* which nobody goes back to an earlier session.                           *)
NoRestores == \A c \in Clients : ~Played(c, {"restore"})

UuidInv(c) == uuid[c] = SessionAt(c, IF Running(c) /\ Job(c) = "new_session" THEN job[c] - 1 ELSE job[c])

LEMMA SessionGoesOn ==
    ASSUME NEW c, NEW i \in Nat, i >= 1, play[c].jobs[i] \notin {"new_session", "restore"}
    PROVE  SessionAt(c, i) = SessionAt(c, i - 1)
<1>1. {j \in 1 .. i : play[c].jobs[j] \in {"new_session", "restore"}}
        = {j \in 1 .. (i - 1) : play[c].jobs[j] \in {"new_session", "restore"}}
    <2>1. ASSUME NEW j \in 1 .. i, play[c].jobs[j] \in {"new_session", "restore"} PROVE j \in 1 .. (i - 1)
        <3>1. j # i
            BY <2>1
        <3> QED
            BY <3>1
    <2>2. \A j \in 1 .. (i - 1) : j \in 1 .. i
        OBVIOUS
    <2> QED
        BY <2>1, <2>2
<1> QED
    BY <1>1 DEF SessionAt

LEMMA SessionChanges ==
    ASSUME NEW c, NEW i \in Nat, i >= 1, play[c].jobs[i] = "new_session"
    PROVE  SessionAt(c, i) = play[c].later
<1> DEFINE changes == {j \in 1 .. i : play[c].jobs[j] \in {"new_session", "restore"}}
<1>1. i \in changes /\ \A j \in changes : j \in Nat /\ j <= i
    OBVIOUS
<1> HIDE DEF changes
<1>2. \E x \in changes : \A y \in changes : x >= y
    BY <1>1
<1>3. Max(changes) \in changes /\ \A y \in changes : Max(changes) >= y
    BY <1>2 DEF Max
<1>4. Max(changes) = i
    <2>1. PICK m : m = Max(changes)
        OBVIOUS
    <2>2. m \in Nat /\ m <= i /\ m >= i
        BY <1>1, <1>3, <2>1
    <2> QED
        BY <2>1, <2>2
<1> QED
    BY <1>1, <1>4 DEF SessionAt, changes

LEMMA SessionBegins ==
    ASSUME NEW c
    PROVE  SessionAt(c, 0) = play[c].session
<1>1. {j \in 1 .. 0 : play[c].jobs[j] \in {"new_session", "restore"}} = {}
    OBVIOUS
<1> QED
    BY <1>1 DEF SessionAt

\* A statement that raises changes no session.
LEMMA RaisesNoChange ==
    ASSUME NEW c \in Clients, TypeInv, TodoInv, RaisesAt(c)
    PROVE  Running(c) /\ Job(c) # "new_session"
<1>1. Running(c)
    BY RaisesAtIs DEF Raises
<1>2. Here(c).do # "new_session"
    <2>1. CASE TakeNothing(c) \/ JudgeRaises(c) \/ InsertRaises(c)
        BY <2>1 DEF TakeNothing, JudgeRaises, InsertRaises, Ready, Adds
    <2>2. CASE AbortedRaises(c) \/ StatementFails(c)
        BY <2>2 DEF AbortedRaises, StatementFails, CanFail, Local
    <2>3. CASE DeadlockVictim(c) \/ LockTimeout(c)
        <3>1. WaitsFor(c) # {}
            BY <2>3 DEF DeadlockVictim, LockTimeout
        <3> QED
            BY <3>1 DEF WaitsFor, Local, Erases, Adds, LeftOut
    <2> QED
        BY <2>1, <2>2, <2>3 DEF RaisesAt
<1>3. Here(c) \in OfJob(Job(c))
    BY <1>1, HereIs
<1> QED
    BY <1>1, <1>2, <1>3 DEF OfJob

LEMMA UuidStep ==
    ASSUME NEW c \in Clients, BaseInv, NoRestores, Act(c) \/ Fail(c), UuidInv(c)
    PROVE  UuidInv(c)'
<1>1. TypeInv /\ TodoInv /\ StoreInv /\ Frame(c) /\ play' = play /\ job[c] \in Nat /\ job'[c] \in Nat
    BY StepCounts DEF BaseInv
<1>2. \A i : SessionAt(c, i)' = SessionAt(c, i)
    BY <1>1 DEF SessionAt
<1>3. CASE Begin(c)
    <2>1. /\ ~Running(c) /\ job' = [job EXCEPT ![c] = job[c] + 1] /\ uuid' = uuid
        BY <1>3 DEF Begin
    <2>2. job'[c] = job[c] + 1
        BY <1>1, <2>1 DEF TypeInv
    <2>3. Running(c)' /\ Job(c)' = play[c].jobs[job[c] + 1] /\ job[c] + 1 \in 1 .. Len(play[c].jobs)
        BY <1>1, <1>3, <2>2, BeginTypes
    <2>4. uuid'[c] = SessionAt(c, job[c])
        BY <2>1 DEF UuidInv
    <2>5. CASE Job(c)' = "new_session"
        <3>1. job'[c] - 1 = job[c]
            BY <1>1, <2>2
        <3>2. uuid'[c] = SessionAt(c, job'[c] - 1)
            BY <2>4, <3>1
        <3> QED
            BY <1>1, <2>3, <2>5, <3>2 DEF UuidInv, SessionAt
    <2>6. CASE Job(c)' # "new_session"
        <3>1. play[c].jobs[job[c] + 1] # "restore"
            <4>1. DOMAIN play[c].jobs = 1 .. Len(play[c].jobs)
                BY <1>1, Assumed DEF TypeInv, Play
            <4> QED
                BY <2>3, <4>1 DEF NoRestores, Played
        <3>2. play[c].jobs[job[c] + 1] \notin {"new_session", "restore"}
            BY <2>3, <2>6, <3>1
        <3>3. job[c] + 1 \in Nat /\ job[c] + 1 >= 1 /\ (job[c] + 1) - 1 = job[c]
            BY <1>1
        <3>4. SessionAt(c, job[c] + 1) = SessionAt(c, job[c])
            BY <3>2, <3>3, SessionGoesOn
        <3>5. uuid'[c] = SessionAt(c, job'[c])
            BY <2>2, <2>4, <3>4
        <3> QED
            BY <1>1, <2>3, <2>6, <3>5 DEF UuidInv, SessionAt
    <2> QED
        BY <2>5, <2>6
<1>4. CASE RestartTransaction(c)
    <2>1. Running(c) /\ Running(c)' /\ Job(c) = "turn" /\ Job(c)' = "turn" /\ job' = job /\ uuid' = uuid
        BY <1>1, <1>4, RestartTypes DEF RestartTransaction
    <2>2. uuid'[c] = SessionAt(c, job'[c])
        BY <2>1 DEF UuidInv
    <2> QED
        BY <1>1, <2>1, <2>2 DEF UuidInv, SessionAt
<1>5. CASE RaisesAt(c)
    <2>1. ~Running(c)' /\ job' = job /\ uuid' = uuid
        BY <1>1, <1>5, RaiseLeaves, RaisesAtIs
    <2>2. Job(c) # "new_session"
        BY <1>1, <1>5, RaisesNoChange
    <2>3. uuid'[c] = SessionAt(c, job'[c])
        BY <2>1, <2>2 DEF UuidInv
    <2> QED
        BY <1>1, <2>1, <2>3 DEF UuidInv, SessionAt
<1>6. CASE Doing(c)
    <2>1. Running(c) /\ job' = job /\ Job(c)' = Job(c)
        BY <1>1, <1>6, DoingIs, GoesOn DEF By, Goes, Job
    <2>2. job[c] \in 1 .. Len(play[c].jobs)
        BY <1>1, <2>1 DEF TodoInv, Rest
    <2>3. CASE ChangeSession(c)
        <3>1. Job(c) \in {"new_session", "restore"} /\ ~Running(c)'
            BY <1>1, <1>6, <2>3, ChangesAre
        <3>2. Job(c) # "restore"
            <4>1. DOMAIN play[c].jobs = 1 .. Len(play[c].jobs)
                BY <1>1, Assumed DEF TypeInv, Play
            <4> QED
                BY <2>2, <4>1 DEF NoRestores, Played, Job
        <3>3. Here(c).do = "new_session"
            BY <1>1, <1>6, <2>3, <3>1, <3>2, ChangesAre
        <3>4. uuid' = [uuid EXCEPT ![c] = play[c].later]
            BY <2>3, <3>3 DEF ChangeSession
        <3>5. uuid'[c] = play[c].later
            BY <1>1, <3>4 DEF TypeInv
        <3>6. SessionAt(c, job[c]) = play[c].later
            BY <1>1, <2>2, <3>1, <3>2, SessionChanges DEF Job
        <3>7. uuid'[c] = SessionAt(c, job'[c])
            BY <2>1, <3>5, <3>6
        <3> QED
            BY <1>1, <3>1, <3>7 DEF UuidInv, SessionAt
    <2>4. CASE ~ChangeSession(c)
        <3>1. uuid' = uuid /\ Job(c) # "new_session"
            BY <1>1, <1>6, <2>4, ChangesAre
        <3>2. uuid'[c] = SessionAt(c, job'[c])
            BY <2>1, <3>1 DEF UuidInv
        <3> QED
            BY <1>1, <2>1, <3>1, <3>2 DEF UuidInv, SessionAt
    <2> QED
        BY <2>3, <2>4
<1> QED
    BY <1>3, <1>4, <1>5, <1>6, RaisesAre

-----------------------------------------------------------------------------
(* What a client has cached is of the session it is in.                    *)
CachedAre(c) == \A t \in {"session", "conversation"} : IdIs(t, cache[c][t], uuid[c])

GotAre(c) ==
    Keeping(c) /\ Here(c).do \in {"return_recent", "add_absent"} /\ Here(c).table \in {"session", "conversation"}
        => IdIs(Here(c).table, got[c], uuid[c])

KeptInv(c) == CachedAre(c) /\ GotAre(c)

LEMMA KeptAreGiven ==
    ASSUME BaseInv, NEW d \in Clients
    PROVE  /\ \A t \in {"session", "conversation"} : t \in Tables /\ t \in Four /\ cache[d][t] \in Nat /\ cache[d][t] <= last[t]
           /\ got[d] \in Nat
           /\ Running(d) /\ Here(d).do \in {"return_recent", "add_absent"} => got[d] <= last[Here(d).table]
<1>1. \A t \in {"session", "conversation"} : t \in Tables /\ t \in Four
    BY TablesAre DEF Four
<1>2. cache \in [Clients -> [Tables -> Nat]] /\ \A t \in Tables : cache[d][t] <= last[t]
    BY DEF BaseInv, TypeInv
<1>3. got[d] \in Nat
    BY DEF BaseInv, TypeInv
<1>4. Running(d) /\ Here(d).do \in {"return_recent", "add_absent"} => got[d] <= last[Here(d).table]
    BY DEF BaseInv, StoreInv, Follows
<1> QED
    BY <1>1, <1>2, <1>3, <1>4

LEMMA CachedStays ==
    ASSUME NEW c \in Clients, BaseInv, GoneInv, Act(c) \/ Fail(c), NEW d \in Clients, CachedAre(d),
           NEW t \in {"session", "conversation"}, cache'[d][t] = cache[d][t], uuid'[d] = uuid[d]
    PROVE  IdIs(t, cache[d][t], uuid[d])'
<1>1. PICK i : i = cache[d][t]
    OBVIOUS
<1>2. PICK u : u = uuid[d]
    OBVIOUS
<1>3. i \in Nat /\ i <= last[t] /\ IdIs(t, i, u)
    BY <1>1, <1>2, KeptAreGiven DEF CachedAre
<1>4. IdIs(t, i, u)'
    BY <1>3, IdStays
<1> QED
    BY <1>1, <1>2, <1>4 DEF IdIs, SessionIs, DialogueIs

LEMMA OtherKept ==
    ASSUME NEW c \in Clients, BaseInv, GoneInv, Act(c) \/ Fail(c), NEW d \in Clients \ {c}, KeptInv(d)
    PROVE  KeptInv(d)'
<1>1. /\ TypeInv /\ Frame(c)
    BY StepCounts DEF BaseInv
<1>2. /\ cache'[d] = cache[d] /\ uuid'[d] = uuid[d] /\ got'[d] = got[d]
      /\ Running(d)' = Running(d) /\ Here(d)' = Here(d) /\ Job(d)' = Job(d)
    BY <1>1, OthersStay
<1>3. CachedAre(d)'
    <2>1. \A t \in {"session", "conversation"} : IdIs(t, cache[d][t], uuid[d])'
        BY <1>2, CachedStays DEF KeptInv
    <2> QED
        BY <2>1 DEF CachedAre
<1>4. GotAre(d)'
    <2> SUFFICES ASSUME Keeping(d)', Here(d)'.do \in {"return_recent", "add_absent"},
                        Here(d)'.table \in {"session", "conversation"}
                 PROVE  IdIs(Here(d).table, got[d], uuid[d])'
        BY DEF GotAre
    <2>1. Keeping(d) /\ Here(d).do \in {"return_recent", "add_absent"} /\ Here(d).table \in {"session", "conversation"}
        BY <1>2 DEF Keeping
    <2>2. PICK i : i = got[d]
        OBVIOUS
    <2>3. PICK u : u = uuid[d]
        OBVIOUS
    <2>4. PICK t \in {"session", "conversation"} : t = Here(d).table
        BY <2>1
    <2>5. IdIs(t, i, u) /\ i \in Nat /\ i <= last[t]
        BY <2>1, <2>2, <2>3, <2>4, KeptAreGiven DEF KeptInv, GotAre, Keeping
    <2>6. IdIs(t, i, u)'
        BY <2>5, IdStays
    <2> QED
        BY <1>2, <2>2, <2>3, <2>4, <2>6 DEF IdIs, SessionIs, DialogueIs
<1> QED
    BY <1>3, <1>4 DEF KeptInv

LEMMA GivenIs ==
    ASSUME NEW c \in Clients, BaseInv, CacheInv, AlikeInv, MirrorInv, KeptInv(c), Act(c), Keeping(c),
           NEW t \in {"session", "conversation"}, NEW i \in Nat, Given(c, t, i), NEW u, u = uuid[c]
    PROVE  IdIs(t, i, u)'
<1>1. /\ TypeInv /\ StoreInv /\ GoneInv /\ t \in Tables /\ Here(c).table = t
      /\ SessionIs(cache[c]["session"], uuid[c])
    BY KeptAreGiven DEF BaseInv, CacheInv, Given, KeptInv, CachedAre, IdIs
<1>2. CASE i \in FoundIds(c)
    <2>1. IdIs(t, i, u)
        BY <1>1, <1>2, FoundIs
    <2>2. i \in 0 .. last[t] /\ last[t] \in Nat
        BY <1>1, <1>2, FoundAre DEF TypeInv
    <2> QED
        BY <1>1, <2>1, <2>2, IdStays
<1>3. CASE Here(c).do \in {"return_recent", "add_absent"} /\ i = got[c]
    <2>1. IdIs(t, i, u) /\ i <= last[t]
        BY <1>1, <1>3, KeptAreGiven DEF KeptInv, GotAre, Keeping
    <2> QED
        BY <1>1, <2>1, IdStays
<1>4. CASE InsertRow(c) /\ i = Draft(c).id
    BY <1>1, <1>4, InsertedIs
<1> QED
    BY <1>2, <1>3, <1>4 DEF Given

-----------------------------------------------------------------------------
LEMMA CachedStep ==
    ASSUME NEW c \in Clients, BaseInv, CacheInv, AlikeInv, MirrorInv, NoRestores, KeptInv(c), Act(c) \/ Fail(c)
    PROVE  CachedAre(c)'
<1> SUFFICES ASSUME NEW t \in {"session", "conversation"} PROVE IdIs(t, cache[c][t], uuid[c])'
    BY DEF CachedAre
<1>1. /\ TypeInv /\ TodoInv /\ StoreInv /\ GoneInv /\ Frame(c) /\ CachedAre(c)
      /\ t \in Tables /\ t \in Four /\ last[t] \in Nat
    BY StepCounts, KeptAreGiven DEF BaseInv, CacheInv, KeptInv, TypeInv
<1>2. ASSUME cache'[c][t] = cache[c][t], uuid'[c] = uuid[c] PROVE IdIs(t, cache[c][t], uuid[c])'
    BY <1>1, <1>2, CachedStays
<1>3. CASE Begin(c) \/ RestartTransaction(c)
    BY <1>2, <1>3 DEF Begin, RestartTransaction
<1>4. CASE Raises(c)
    BY <1>1, <1>2, <1>4, RaiseLeaves
<1>5. CASE Doing(c)
    <2>1. Running(c) /\ Act(c)
        BY <1>1, <1>5, DoingIs DEF By, Goes, Doing, Act
    <2>2. CASE ChangeSession(c)
        <3>1. Job(c) # "restore"
            <4>1. DOMAIN play[c].jobs = 1 .. Len(play[c].jobs)
                BY <1>1, Assumed DEF TypeInv, Play
            <4> QED
                BY <1>1, <2>1, <4>1 DEF NoRestores, Played, Job, TodoInv, Rest
        <3>2. Here(c).do = "new_session"
            BY <1>1, <1>5, <2>2, <3>1, ChangesAre
        <3>3. cache' = [cache EXCEPT ![c] = NoIds]
            BY <2>2, <3>2 DEF ChangeSession
        <3>4. cache'[c][t] = 0
            BY <1>1, <3>3 DEF TypeInv, NoIds
        <3>5. PICK u : u = uuid'[c]
            OBVIOUS
        <3>6. IdIs(t, 0, u)
            BY NothingIsZero
        <3>7. IdIs(t, 0, u)'
            BY <1>1, <3>6, IdStays
        <3> QED
            BY <3>4, <3>5, <3>7 DEF IdIs, SessionIs, DialogueIs
    <2>3. CASE ~ChangeSession(c)
        <3>1. uuid' = uuid
            BY <1>1, <1>5, <2>3, ChangesAre
        <3>2. CASE cache'[c][t] = cache[c][t]
            BY <1>2, <3>1, <3>2
        <3>3. CASE cache'[c][t] # cache[c][t]
            <4>1. PICK v \in Tables, i \in Nat : Return(c, v, i) /\ Given(c, v, i)
                BY <1>1, <1>5, <2>3, <3>3, GivesAre
            <4>2. v = t /\ cache'[c][t] = i /\ Keeping(c)
                BY <1>1, <2>1, <3>3, <4>1, ReturnKeeps
            <4>3. PICK u : u = uuid[c]
                OBVIOUS
            <4>4. IdIs(t, i, u)'
                BY <2>1, <4>1, <4>2, <4>3, GivenIs
            <4> QED
                BY <3>1, <4>2, <4>3, <4>4 DEF IdIs, SessionIs, DialogueIs
        <3> QED
            BY <3>2, <3>3
    <2> QED
        BY <2>2, <2>3
<1> QED
    BY <1>3, <1>4, <1>5, StepsAre

LEMMA GotAgrees ==
    ASSUME NEW c \in Clients, BaseInv, GoneInv, AlikeInv, MirrorInv, CachedAre(c), Act(c) \/ Fail(c)
    PROVE  GotAre(c)'
<1> SUFFICES ASSUME Keeping(c)', Here(c)'.do \in {"return_recent", "add_absent"},
                    Here(c)'.table \in {"session", "conversation"}
             PROVE  IdIs(Here(c).table, got[c], uuid[c])'
    BY DEF GotAre
<1>1. PICK t \in {"session", "conversation"} : t = Here(c)'.table
    OBVIOUS
<1>2. t \in Four /\ t \in Tables /\ TypeInv /\ StoreInv /\ last[t] \in Nat
    BY KeptAreGiven DEF BaseInv, TypeInv
<1>3. /\ Running(c) /\ Job(c)' = Job(c) /\ Here(c).do = "find" /\ Here(c).table = t
      /\ got'[c] \in FoundIds(c) /\ uuid' = uuid
    BY <1>1, <1>2, GotIsFound DEF Keeping
<1>4. PICK i \in FoundIds(c) : i = got'[c]
    BY <1>3
<1>5. PICK u : u = uuid[c]
    OBVIOUS
<1>6. Keeping(c) /\ SessionIs(cache[c]["session"], uuid[c])
    BY <1>3 DEF Keeping, CachedAre, IdIs
<1>7. IdIs(t, i, u)
    BY <1>3, <1>5, <1>6, FoundIs
<1>8. i \in Nat /\ i <= last[t]
    BY <1>2, <1>3, FoundAre
<1>9. IdIs(t, i, u)'
    BY <1>7, <1>8, IdStays
<1> QED
    BY <1>1, <1>3, <1>4, <1>5, <1>9 DEF IdIs, SessionIs, DialogueIs

-----------------------------------------------------------------------------
(* Every message is in a conversation of the session of its turn.          *)
SaidThere ==
    \A r \in Said(Stored) : DialogueIs(r.cols["conversation_id"], SessionAt(Text(r)[1], Text(r)[2]))

SessionInv ==
    /\ AlikeInv /\ PlacedInv /\ MirrorInv
    /\ NoRestores => SaidThere /\ \A c \in Clients : UuidInv(c) /\ KeptInv(c)

LEMMA SaidInSession ==
    ASSUME NEW c \in Clients, BaseInv, CacheInv, MirrorInv, SaidThere, UuidInv(c), CachedAre(c), Act(c) \/ Fail(c)
    PROVE  SaidThere'
<1>1. TypeInv /\ TodoInv /\ StoreInv /\ GoneInv /\ play' = play
    BY StepCounts DEF BaseInv, CacheInv
<1>2. \A d, i : SessionAt(d, i)' = SessionAt(d, i)
    BY <1>1 DEF SessionAt
<1> SUFFICES ASSUME NEW r \in Stored', r.table = "conversation_message"
             PROVE  DialogueIs(r.cols["conversation_id"], SessionAt(Text(r)[1], Text(r)[2]))'
    BY DEF SaidThere, Said
<1>3. PICK i : i = r.cols["conversation_id"]
    OBVIOUS
<1>4. PICK u : u = SessionAt(Text(r)[1], Text(r)[2])
    OBVIOUS
<1>5. DialogueIs(i, u) /\ i \in Nat /\ i <= last["conversation"]
    <2>1. CASE InsertRow(c) /\ r = Draft(c)
        <3>1. /\ Here(c).table = "conversation_message" /\ Running(c) /\ Here(c).do \in Adds
              /\ \A k \in Columns["conversation_message"] : r.cols[k] = Value(c, "conversation_message", k)
            <4>1. /\ Draft(c).table = Here(c).table /\ Running(c) /\ Here(c).do \in Adds
                  /\ \A k \in Columns[Here(c).table] : Draft(c).cols[k] = Value(c, Here(c).table, k)
                BY <1>1, <2>1, DraftIs
            <4>2. Here(c).table = "conversation_message"
                BY <2>1, <4>1
            <4> QED
                BY <2>1, <4>1, <4>2
        <3>2. Job(c) = "turn"
            BY <1>1, <3>1, HereIs DEF OfJob, MessageAdd
        <3>3. r.cols["conversation_id"] = ids[c]["conversation"] /\ Keeping(c)
            BY <2>1, <3>1, DraftIsPlaced DEF Uses
        <3>4. i = cache[c]["conversation"]
            BY <1>3, <3>3 DEF MirrorInv
        <3>5. Text(r) = <<c, job[c], Here(c).datum>>
            BY <3>1, ColumnsAre DEF Text, Value
        <3>6. u = uuid[c]
            BY <1>4, <3>2, <3>5 DEF UuidInv
        <3>7. DialogueIs(i, u)
            BY <3>4, <3>6 DEF CachedAre, IdIs
        <3> QED
            BY <3>4, <3>7, KeptAreGiven
    <2>2. CASE ~(InsertRow(c) /\ r = Draft(c))
        <3>1. PICK q \in Stored : Same(r, q)
            BY <1>1, <2>2, StoredGrows
        <3>2. q \in Said(Stored) /\ q.table = "conversation_message" /\ q.cols = r.cols
            BY <3>1 DEF Same, Said
        <3>3. DialogueIs(i, u)
            BY <1>3, <1>4, <3>2 DEF SaidThere, Text
        <3> QED
            BY <1>3, <3>2, <3>3, StoredAreRows
    <2> QED
        BY <2>1, <2>2
<1>6. DialogueIs(i, u)'
    BY <1>1, <1>5, DialogueStays
<1>7. SessionAt(Text(r)[1], Text(r)[2])' = u
    BY <1>2, <1>4 DEF Text
<1> QED
    BY <1>3, <1>6, <1>7 DEF DialogueIs, SessionIs

-----------------------------------------------------------------------------
LEMMA SessionInit ==
    ASSUME Init
    PROVE  SessionInv
<1>1. /\ rows = {} /\ pend = [n \in Connections |-> NoWork] /\ job = [c \in Clients |-> 0]
      /\ uuid = [c \in Clients |-> play[c].session] /\ \A c \in Clients : ~Running(c)
    BY DEF Init, Running
<1>2. Stored = {} /\ \A n \in Connections : New(n) = {}
    BY <1>1 DEF Stored, New, NoWork
<1>3. AlikeInv /\ PlacedInv /\ MirrorInv
    BY <1>1, <1>2 DEF AlikeInv, PlacedInv, Placed, MirrorInv, Keeping
<1>4. SaidThere
    BY <1>2 DEF SaidThere, Said
<1>5. ASSUME NEW c \in Clients PROVE UuidInv(c) /\ KeptInv(c)
    <2>1. UuidInv(c)
        BY <1>1, SessionBegins DEF UuidInv
    <2>2. KeptInv(c)
        BY <1>1, <1>2 DEF KeptInv, CachedAre, GotAre, Keeping, IdIs, SessionIs, DialogueIs
    <2> QED
        BY <2>1, <2>2
<1> QED
    BY <1>3, <1>4, <1>5 DEF SessionInv

LEMMA OtherUuid ==
    ASSUME NEW c \in Clients, BaseInv, Act(c) \/ Fail(c), NEW d \in Clients \ {c}, UuidInv(d)
    PROVE  UuidInv(d)'
<1>1. TypeInv /\ Frame(c) /\ play' = play
    BY StepCounts DEF BaseInv
<1>2. uuid'[d] = uuid[d] /\ job'[d] = job[d] /\ Running(d)' = Running(d) /\ Job(d)' = Job(d)
    BY <1>1, OthersStay
<1> QED
    BY <1>1, <1>2 DEF UuidInv, SessionAt

LEMMA SessionNext ==
    ASSUME BaseInv, CacheInv, SessionInv, NEW c \in Clients, Act(c) \/ Fail(c)
    PROVE  SessionInv'
<1>1. AlikeInv /\ PlacedInv /\ MirrorInv /\ GoneInv /\ play' = play
    BY StepCounts DEF SessionInv, CacheInv
<1>2. AlikeInv' /\ PlacedInv' /\ MirrorInv'
    BY <1>1, AlikeStep, PlacedStep, MirrorStep
<1>3. NoRestores' = NoRestores
    BY <1>1 DEF NoRestores, Played
<1>4. ASSUME NoRestores PROVE SaidThere' /\ \A d \in Clients : UuidInv(d)' /\ KeptInv(d)'
    <2>1. SaidThere /\ \A d \in Clients : UuidInv(d) /\ KeptInv(d)
        BY <1>4 DEF SessionInv
    <2>2. SaidThere'
        BY <1>1, <2>1, SaidInSession DEF KeptInv
    <2>3. UuidInv(c)'
        BY <1>4, <2>1, UuidStep
    <2>4. KeptInv(c)'
        BY <1>1, <1>4, <2>1, CachedStep, GotAgrees DEF KeptInv
    <2>5. ASSUME NEW d \in Clients \ {c} PROVE UuidInv(d)' /\ KeptInv(d)'
        BY <1>1, <2>1, OtherUuid, OtherKept
    <2> QED
        BY <2>2, <2>3, <2>4, <2>5
<1> QED
    BY <1>2, <1>3, <1>4 DEF SessionInv

LEMMA SessionStands ==
    ASSUME SessionInv, UNCHANGED vars
    PROVE  SessionInv'
<1>1. Stored' = Stored /\ NoRestores' = NoRestores /\ \A c, i : SessionAt(c, i)' = SessionAt(c, i)
    BY DEF vars, Stored, New, Connections, NoRestores, Played, SessionAt
<1>2. AlikeInv' /\ PlacedInv' /\ MirrorInv'
    BY <1>1 DEF vars, SessionInv, AlikeInv, PlacedInv, Placed, MirrorInv, Keeping, Running, Job, New, Connections
<1>3. SaidThere => SaidThere'
    BY <1>1 DEF SaidThere, Said, DialogueIs, SessionIs, Text
<1>4. \A c \in Clients : UuidInv(c) => UuidInv(c)'
    BY <1>1 DEF vars, UuidInv, Running, Job
<1>5. \A c \in Clients : KeptInv(c) => KeptInv(c)'
    BY <1>1 DEF vars, KeptInv, CachedAre, GotAre, Keeping, Running, Job, Here, IdIs, SessionIs, DialogueIs
<1> QED
    BY <1>1, <1>2, <1>3, <1>4, <1>5 DEF SessionInv

LEMMA TheirSession ==
    ASSUME SessionInv, NoRestores
    PROVE  InTheirSession
<1> SUFFICES ASSUME NEW r \in rows, r.table = "conversation_message"
             PROVE  \E v, s \in rows :
                        /\ v.table = "conversation" /\ v.id = r.cols["conversation_id"]
                        /\ s.table = "session" /\ s.id = v.cols["session_id"]
                        /\ s.cols["uuid"] = SessionAt(r.cols["content"][1], r.cols["content"][2])
    BY DEF InTheirSession
<1>1. Placed(rows, rows) /\ SaidThere
    BY DEF SessionInv, PlacedInv
<1>2. PICK v \in rows : v.table = "conversation" /\ v.id = r.cols["conversation_id"]
    BY <1>1 DEF Placed, Has
<1>3. PICK s \in rows : s.table = "session" /\ s.id = v.cols["session_id"]
    BY <1>1, <1>2 DEF Placed, Has
<1>4. DialogueIs(r.cols["conversation_id"], SessionAt(r.cols["content"][1], r.cols["content"][2]))
    BY <1>1, StoredHas DEF SaidThere, Said, Text
<1>5. s.cols["uuid"] = SessionAt(r.cols["content"][1], r.cols["content"][2])
    BY <1>2, <1>3, <1>4, StoredHas DEF DialogueIs, SessionIs
<1> QED
    BY <1>2, <1>3, <1>5

LEMMA SessionHolds == Spec => []SessionInv
<1>1. Init => SessionInv
    BY SessionInit
<1>2. BaseInv /\ CacheInv /\ SessionInv /\ [Next]_vars => SessionInv'
    BY SessionNext, SessionStands DEF Next
<1> QED
    BY <1>1, <1>2, BaseHolds, CacheHolds, PTL DEF Spec

\* The messages of a turn are in the conversation of the session the client is
\* in, and both rows are there, whoever forgets, loses a connection or is
\* retried meanwhile; unless some client goes back to an earlier session.
THEOREM TurnsStayInTheirSession == Spec => []TurnsInTheirSession
<1>1. SessionInv => TurnsInTheirSession
    BY TheirSession DEF TurnsInTheirSession, NoRestores
<1> QED
    BY <1>1, SessionHolds, PTL

-----------------------------------------------------------------------------
(* What a write waits for: nobody touches a row, or a key, of another.     *)
LockInv ==
    \A n, m \in Connections : n # m =>
        \A q \in Touched(n), r \in Touched(m) : ~SameRow(q, r) /\ ~SameKey(q, r)

\* The step writes no row: the connection keeps its work, or gives it up.
Quiet(c) == rows' = rows /\ (pend' = pend \/ pend' = [pend EXCEPT ![Conn(c)] = NoWork])

LEMMA StepIsOne ==
    ASSUME NEW c \in Clients, BaseInv, Act(c) \/ Fail(c)
    PROVE  /\ Quiet(c) \/ CommitWork(c) \/ InsertRow(c) \/ CountRow(c) \/ EraseRows(c)
           /\ Frame(c) /\ UNCHANGED <<dialect, play, schema>>
           /\ \A n \in Connections \ {Conn(c)} : pend'[n] = pend[n]
<1>1. Frame(c) /\ TypeInv
    BY StepCounts DEF BaseInv
<1>2. Begin(c) \/ RestartTransaction(c) \/ Raises(c) \/ Reading(c) => Quiet(c)
    BY <1>1, RaiseLeaves, ReadingIs DEF Begin, RestartTransaction, Quiet
<1>3. \A n \in Connections \ {Conn(c)} : pend'[n] = pend[n]
    BY <1>1, ShapesStay
<1> QED
    BY <1>1, <1>2, <1>3, StepsAre, DoingsAre DEF Frame

LEMMA WritesWait ==
    ASSUME NEW c \in Clients
    PROVE  /\ InsertRow(c) => Holders(c, Counted(c) \cup {Draft(c)}, FALSE) = {}
           /\ CountRow(c) => \E S : Counted(c) \subseteq S /\ Holders(c, S, FALSE) = {}
           /\ EraseRows(c) => Holders(c, Cascade(c), TRUE) = {}
<1>1. WaitsFor(c) = (CASE Here(c).do \in Local -> {} [] Here(c).do \in Erases -> Holders(c, Cascade(c), TRUE)
                       [] LeftOut(c) -> {}
                       [] Here(c).do \in Adds ->
                             Holders(c, Counted(c) \cup (IF Inserts(c) THEN {Draft(c)} ELSE {}), FALSE)
                       [] OTHER -> Holders(c, Counted(c), FALSE))
    BY DEF WaitsFor
<1>2. CASE InsertRow(c)
    <2>1. Here(c).do \in Adds /\ Here(c).do \notin Local /\ Here(c).do \notin Erases /\ ~LeftOut(c) /\ Inserts(c)
          /\ WaitsFor(c) = {}
        BY <1>2 DEF InsertRow, Ready, Adds, Local, Erases
    <2>2. WaitsFor(c) = Holders(c, Counted(c) \cup {Draft(c)}, FALSE)
        BY <2>1 DEF WaitsFor
    <2>3. ~CountRow(c) \/ \E S : Counted(c) \subseteq S /\ Holders(c, S, FALSE) = {}
        BY <2>1, <2>2
    <2>4. ~EraseRows(c)
        BY <2>1 DEF EraseRows, Ready
    <2> QED
        BY <2>1, <2>2, <2>3, <2>4
<1>3. CASE CountRow(c) /\ ~InsertRow(c)
    <2>1. /\ Here(c).do \in Adds \cup {"count_found", "update"} /\ ~LeftOut(c) /\ WaitsFor(c) = {}
          /\ Here(c).do \notin Local /\ Here(c).do \notin Erases
        BY <1>3 DEF CountRow, Ready, Adds, Local, Erases
    <2>2. \E S : Counted(c) \subseteq S /\ WaitsFor(c) = Holders(c, S, FALSE)
        BY <2>1 DEF WaitsFor
    <2>3. ~EraseRows(c)
        BY <2>1 DEF EraseRows, Ready
    <2> QED
        BY <1>3, <2>1, <2>2, <2>3
<1>4. CASE EraseRows(c) /\ ~InsertRow(c) /\ ~CountRow(c)
    <2>1. Here(c).do \in Erases /\ Here(c).do \notin Local /\ WaitsFor(c) = {}
        BY <1>4 DEF EraseRows, Ready, Local, Erases
    <2>2. Here(c).do \notin Adds
        BY <2>1 DEF Adds, Erases
    <2>3. ~LeftOut(c)
        BY <2>2 DEF LeftOut
    <2> QED
        BY <1>1, <1>4, <2>1, <2>2, <2>3
<1> QED
    BY <1>2, <1>3, <1>4

LEMMA NobodyHolds ==
    ASSUME NEW c \in Clients, NEW S, NEW e, Holders(c, S, e) = {},
           NEW n \in Connections \ {Conn(c)}, NEW q \in Touched(n), NEW r \in S
    PROVE  /\ ~SameRow(q, r) /\ ~SameKey(q, r)
           /\ q \in Gone(n) => ~RefersTo(r, q)
           /\ e /\ q \in New(n) => ~RefersTo(q, r)
<1>1. Touched(n) # {} /\ S # {} /\ n \notin Holders(c, S, e)
    OBVIOUS
<1>2. ~(\E x \in Touched(n), y \in S : SameRow(x, y) \/ SameKey(x, y))
      /\ ~(\E x \in pend[n].gone, y \in S : RefersTo(y, x))
      /\ ~(e /\ \E x \in pend[n].new, y \in S : RefersTo(x, y))
    BY <1>1 DEF Holders
<1> QED
    BY <1>2 DEF New, Gone

LEMMA LikeRows ==
    ASSUME NEW r, NEW s, Same(r, s), NEW q
    PROVE  /\ SameRow(r, q) <=> SameRow(s, q)
           /\ SameRow(q, r) <=> SameRow(q, s)
           /\ SameKey(r, q) <=> SameKey(s, q)
           /\ SameKey(q, r) <=> SameKey(q, s)
           /\ RefersTo(r, q) <=> RefersTo(s, q)
           /\ RefersTo(q, r) <=> RefersTo(q, s)
BY DEF Same, SameRow, SameKey, RefersTo

LEMMA EitherWay ==
    ASSUME NEW r, NEW q
    PROVE  (SameRow(r, q) <=> SameRow(q, r)) /\ (SameKey(r, q) <=> SameKey(q, r))
BY DEF SameRow, SameKey

\* What a connection has touched after a write, it had touched before or is like
\* what the write waited for.
LEMMA WriteTouches ==
    ASSUME NEW c \in Clients, TypeInv, NEW add, NEW remove, NEW S, Write(c, add, remove), ~Mongo,
           remove \subseteq S, \A r \in add : \E q \in S : Same(r, q),
           NEW x \in pend'[Conn(c)].new \cup pend'[Conn(c)].gone
    PROVE  x \in Touched(Conn(c)) \/ \E q \in S : Same(x, q)
<1>1. /\ pend'[Conn(c)].new = (pend[Conn(c)].new \ remove) \cup add
      /\ pend'[Conn(c)].gone = pend[Conn(c)].gone \cup (remove \cap rows)
    BY WriteIs
<1>2. x \in Touched(Conn(c)) \/ x \in add \/ x \in remove
    BY <1>1 DEF Touched
<1>3. x \in remove => \E q \in S : Same(x, q)
    BY DEF Same
<1> QED
    BY <1>2, <1>3

LEMMA WriteLocks ==
    ASSUME NEW c \in Clients, TypeInv, StoreInv, LockInv, UNCHANGED <<dialect, schema>>,
           NEW add, NEW remove, NEW S, NEW e, Write(c, add, remove), Holders(c, S, e) = {},
           remove \subseteq S, \A r \in add : \E q \in S : Same(r, q)
    PROVE  LockInv'
<1>1. CASE Mongo
    <2>1. pend' = pend
        BY <1>1, WriteIs
    <2> QED
        BY <2>1 DEF LockInv, Touched, SameRow, SameKey
<1>2. CASE ~Mongo
    <2> SUFFICES ASSUME NEW n \in Connections, NEW m \in Connections, n # m,
                        NEW q \in Touched(n)', NEW r \in Touched(m)'
                 PROVE  ~SameRow(q, r) /\ ~SameKey(q, r)
        BY DEF LockInv, SameRow, SameKey
    <2>1. \A k \in Connections \ {Conn(c)} : pend'[k] = pend[k]
        BY <1>2, WriteIs
    <2>2. \A k \in Connections \ {Conn(c)} : Touched(k)' = Touched(k)
        BY <2>1 DEF Touched
    <2>3. ASSUME NEW k \in Connections \ {Conn(c)}, NEW x \in Touched(k),
                 NEW y \in pend'[Conn(c)].new \cup pend'[Conn(c)].gone
          PROVE  ~SameRow(x, y) /\ ~SameKey(x, y)
        <3>1. Conn(c) \in Connections
            BY ConnectionIs
        <3>3. CASE y \in Touched(Conn(c))
            BY <3>1, <3>3 DEF LockInv
        <3>4. CASE \E z \in S : Same(y, z)
            <4>1. PICK z \in S : Same(y, z)
                BY <3>4
            <4>2. ~SameRow(x, z) /\ ~SameKey(x, z)
                BY NobodyHolds
            <4> QED
                BY <4>1, <4>2, LikeRows
        <3> QED
            BY <1>2, <3>3, <3>4, WriteTouches
    <2>a. Touched(n)' = pend'[n].new \cup pend'[n].gone /\ Touched(m)' = pend'[m].new \cup pend'[m].gone
        BY DEF Touched
    <2>4. CASE n = Conn(c)
        <3>1. ~SameRow(r, q) /\ ~SameKey(r, q)
            BY <2>2, <2>3, <2>4, <2>a
        <3> QED
            BY <3>1, EitherWay
    <2>5. CASE m = Conn(c)
        BY <2>2, <2>3, <2>5, <2>a
    <2>6. CASE n # Conn(c) /\ m # Conn(c)
        BY <2>2, <2>6 DEF LockInv
    <2> QED
        BY <2>4, <2>5, <2>6
<1> QED
    BY <1>1, <1>2

-----------------------------------------------------------------------------
(* One row per key: of what is committed, and of what a connection sees.   *)
Single(S) == \A r, q \in S : SameRow(r, q) \/ SameKey(r, q) => r = q

UniqueInv ==
    /\ Single(rows)
    /\ \A n \in Connections : Single(ViewOf(n)) /\ Gone(n) \subseteq rows

\* What the connection n sees after the step.
Seen(n) == (rows' \ pend'[n].gone) \cup pend'[n].new

LEMMA WriteSees ==
    ASSUME NEW c \in Clients, TypeInv, StoreInv, NEW add, NEW remove, Write(c, add, remove)
    PROVE  /\ Seen(Conn(c)) = (View(c) \ remove) \cup add
           /\ \A n \in Connections : Seen(n) = ViewOf(n) \/ Seen(n) = (View(c) \ remove) \cup add
           /\ rows' = rows \/ rows' = (View(c) \ remove) \cup add
           /\ \A n \in Connections : pend'[n].gone \subseteq rows' \/ ~(Gone(n) \subseteq rows)
<1>1. Conn(c) \in Connections /\ NoWork.new = {} /\ NoWork.gone = {}
    BY ConnectionIs DEF NoWork
<1>2. CASE Mongo
    <2>1. rows' = (rows \ remove) \cup add /\ pend' = pend /\ \A n \in Connections : pend[n] = NoWork
        BY <1>2, WriteIs DEF StoreInv
    <2>2. View(c) = rows /\ \A n \in Connections : Seen(n) = rows'
        BY <1>1, <2>1 DEF Seen, View
    <2> QED
        BY <1>1, <2>1, <2>2
<1>3. CASE ~Mongo
    <2>1. /\ rows' = rows
          /\ pend'[Conn(c)].new = (pend[Conn(c)].new \ remove) \cup add
          /\ pend'[Conn(c)].gone = pend[Conn(c)].gone \cup (remove \cap rows)
          /\ \A n \in Connections \ {Conn(c)} : pend'[n] = pend[n]
        BY <1>3, WriteIs
    <2>2. Seen(Conn(c)) = (View(c) \ remove) \cup add
        BY <2>1 DEF Seen, View
    <2>3. \A n \in Connections \ {Conn(c)} : Seen(n) = ViewOf(n)
        BY <2>1 DEF Seen, ViewOf, New, Gone
    <2> QED
        BY <2>1, <2>2, <2>3 DEF Gone
<1> QED
    BY <1>2, <1>3

LEMMA SeenUnique ==
    ASSUME UNCHANGED schema, Single(rows'),
           \A n \in Connections : Single(Seen(n)) /\ pend'[n].gone \subseteq rows'
    PROVE  UniqueInv'
<1>1. \A n \in Connections : ViewOf(n)' = Seen(n) /\ Gone(n)' = pend'[n].gone
    BY DEF ViewOf, New, Gone, Seen
<1>2. ASSUME NEW S, Single(S), NEW r \in S, NEW q \in S, (SameRow(r, q) \/ SameKey(r, q))' PROVE r = q
    BY <1>2 DEF Single, SameRow, SameKey
<1>3. \A r, q \in rows' : (SameRow(r, q) \/ SameKey(r, q))' => r = q
    BY <1>2
<1>4. \A n \in Connections : \A r, q \in Seen(n) : (SameRow(r, q) \/ SameKey(r, q))' => r = q
    BY <1>2
<1> QED
    BY <1>1, <1>3, <1>4 DEF UniqueInv, Single

\* A row of which nobody has a copy.
LEMMA InsertUnique ==
    ASSUME NEW c \in Clients, BaseInv, UniqueInv, InsertRow(c)
    PROVE  Single((View(c) \ {}) \cup {Draft(c)})
<1>1. View(c) = ViewOf(Conn(c)) /\ Conn(c) \in Connections
    BY ConnectionIs, ViewIs DEF BaseInv
<1>2. View(c) \subseteq Stored
    BY <1>1, StoredHas DEF View
<1>3. \A q \in View(c) : ~SameRow(Draft(c), q)
    BY <1>2, DraftIsNew DEF SameRow
<1>4. \A q \in View(c) : ~SameKey(Draft(c), q)
    BY DEF InsertRow, Duplicates
<1>5. Single(View(c))
    BY <1>1 DEF UniqueInv
<1>6. \A q \in View(c) : ~SameRow(q, Draft(c)) /\ ~SameKey(q, Draft(c))
    BY <1>3, <1>4, EitherWay
<1>7. PICK d : d = Draft(c)
    OBVIOUS
<1> QED
    BY <1>3, <1>4, <1>5, <1>6, <1>7 DEF Single

\* Copies of the rows removed, one of each.
LEMMA CopiesUnique ==
    ASSUME NEW S, Single(S), NEW remove, remove \subseteq S, NEW f, NEW add, add = {f[r] : r \in remove},
           \A r \in remove : Same(f[r], r)
    PROVE  Single((S \ remove) \cup add)
<1>1. \A x \in add : \E r \in remove : x = f[r] /\ Same(x, r)
    OBVIOUS
<1>2. ASSUME NEW x \in (S \ remove) \cup add, NEW y \in (S \ remove) \cup add, SameRow(x, y) \/ SameKey(x, y)
      PROVE  x = y
    <2>1. PICK r \in S : Same(x, r) /\ ((r \in remove /\ x = f[r]) \/ (x = r /\ r \notin remove))
        BY <1>1 DEF Same
    <2>2. PICK q \in S : Same(y, q) /\ ((q \in remove /\ y = f[q]) \/ (y = q /\ q \notin remove))
        BY <1>1 DEF Same
    <2>3. SameRow(r, q) \/ SameKey(r, q)
        <3>1. SameRow(r, y) \/ SameKey(r, y)
            BY <1>2, <2>1, LikeRows
        <3> QED
            BY <3>1, <2>2, LikeRows
    <2>4. r = q
        BY <2>3 DEF Single
    <2> QED
        BY <2>1, <2>2, <2>4
<1> QED
    BY <1>2 DEF Single

LEMMA FewerAreUnique ==
    ASSUME NEW S, NEW T, T \subseteq S, Single(S)
    PROVE  Single(T)
BY DEF Single

-----------------------------------------------------------------------------
LEMMA CopiesAre ==
    ASSUME NEW c \in Clients, TypeInv, TodoInv, StoreInv, CountRow(c)
    PROVE  \E f, add : /\ Write(c, add, Counted(c)) /\ add = {f[r] : r \in Counted(c)}
                       /\ \A r \in Counted(c) : Same(f[r], r)
<1> DEFINE copy(q) == [q EXCEPT !.num = IF Here(c).do = "update" THEN 2 ELSE @ + 1]
           add == {copy(q) : q \in Counted(c)}
           f == [q \in Counted(c) |-> copy(q)]
<1>1. Write(c, add, Counted(c))
    BY DEF CountRow
<1>2. \A q \in Counted(c) : IsRow(q)
    BY CountRowIs, ViewIs
<1>3. ASSUME NEW q \in Counted(c) PROVE Same(copy(q), q)
    <2>1. q = [table |-> q.table, id |-> q.id, cols |-> q.cols, num |-> q.num]
        BY <1>2 DEF IsRow
    <2>2. PICK k : copy(q) = [table |-> q.table, id |-> q.id, cols |-> q.cols, num |-> k]
        BY <2>1
    <2> QED
        BY <2>2 DEF Same
<1>4. \A q \in Counted(c) : f[q] = copy(q)
    OBVIOUS
<1> HIDE DEF copy
<1>5. add = {f[r] : r \in Counted(c)}
    BY <1>4
<1>6. \A r \in Counted(c) : Same(f[r], r)
    BY <1>3, <1>4
<1> QED
    BY <1>1, <1>5, <1>6

\* Every write waits for those who hold what it touches.
LEMMA WritingIs ==
    ASSUME NEW c \in Clients, BaseInv, InsertRow(c) \/ CountRow(c) \/ EraseRows(c)
    PROVE  \E add, remove, S, e :
              /\ Write(c, add, remove) /\ Holders(c, S, e) = {}
              /\ remove \subseteq S /\ \A r \in add : \E q \in S : Same(r, q)
<1>1. CASE InsertRow(c)
    <2>1. PICK add, e : add = {Draft(c)} /\ e = {} /\ Write(c, add, e)
        BY <1>1, DraftIs DEF BaseInv
    <2>2. PICK S, b : S = Counted(c) \cup {Draft(c)} /\ b = FALSE /\ Holders(c, S, b) = {}
        BY <1>1, WritesWait
    <2>3. e \subseteq S /\ \A r \in add : \E q \in S : Same(r, q)
        BY <2>1, <2>2 DEF Same
    <2> QED
        BY <2>1, <2>2, <2>3
<1>2. CASE CountRow(c)
    <2>1. PICK f, add : /\ Write(c, add, Counted(c)) /\ add = {f[r] : r \in Counted(c)}
                        /\ \A r \in Counted(c) : Same(f[r], r)
        BY <1>2, CopiesAre DEF BaseInv
    <2>2. PICK S : Counted(c) \subseteq S /\ Holders(c, S, FALSE) = {}
        BY <1>2, WritesWait
    <2>3. \A r \in add : \E q \in S : Same(r, q)
        BY <2>1, <2>2
    <2> QED
        BY <2>1, <2>2, <2>3
<1>3. CASE EraseRows(c)
    <2>1. PICK e : e = {} /\ Write(c, e, Cascade(c))
        BY <1>3, EraseRowsIs DEF BaseInv
    <2> QED
        BY <1>3, <2>1, WritesWait
<1> QED
    BY <1>1, <1>2, <1>3

LEMMA ClearedTouches ==
    ASSUME NEW c \in Clients, TypeInv, pend' = pend \/ pend' = [pend EXCEPT ![Conn(c)] = NoWork], NEW n \in Connections
    PROVE  /\ pend'[n] = pend[n] \/ (pend'[n].new = {} /\ pend'[n].gone = {})
           /\ Touched(n)' \subseteq Touched(n)
<1>1. pend'[n] = pend[n] \/ pend'[n] = NoWork
    BY ClearedAre
<1> QED
    BY <1>1 DEF NoWork, Touched

LEMMA LockStep ==
    ASSUME NEW c \in Clients, BaseInv, LockInv, Act(c) \/ Fail(c)
    PROVE  LockInv'
<1>1. TypeInv /\ StoreInv /\ UNCHANGED <<dialect, schema>>
    BY StepIsOne DEF BaseInv
<1>2. CASE Quiet(c) \/ CommitWork(c)
    <2>1. pend' = pend \/ pend' = [pend EXCEPT ![Conn(c)] = NoWork]
        BY <1>2, CommitIs DEF Quiet
    <2>2. \A n \in Connections : Touched(n)' \subseteq Touched(n)
        BY <1>1, <2>1, ClearedTouches
    <2> SUFFICES ASSUME NEW n \in Connections, NEW m \in Connections, n # m,
                        NEW q \in Touched(n)', NEW r \in Touched(m)'
                 PROVE  ~SameRow(q, r)' /\ ~SameKey(q, r)'
        BY DEF LockInv
    <2>3. ~SameRow(q, r) /\ ~SameKey(q, r)
        BY <2>2 DEF LockInv
    <2> QED
        BY <1>1, <2>3 DEF SameRow, SameKey
<1>3. CASE InsertRow(c) \/ CountRow(c) \/ EraseRows(c)
    <2>1. PICK add, remove, S, e :
              /\ Write(c, add, remove) /\ Holders(c, S, e) = {}
              /\ remove \subseteq S /\ \A r \in add : \E q \in S : Same(r, q)
        BY <1>3, WritingIs
    <2> QED
        BY <1>1, <2>1, WriteLocks
<1> QED
    BY <1>2, <1>3, StepIsOne

LEMMA CommitUnique ==
    ASSUME NEW c \in Clients, BaseInv, LockInv, UniqueInv, CommitWork(c), UNCHANGED schema
    PROVE  UniqueInv'
<1>1. /\ TypeInv /\ Conn(c) \in Connections /\ View(c) = ViewOf(Conn(c)) /\ NoWork.new = {} /\ NoWork.gone = {}
      /\ rows' = View(c) /\ pend' = [pend EXCEPT ![Conn(c)] = NoWork] /\ DOMAIN pend = Connections
    BY ConnectionIs, ViewIs, CommitIs, FunctionalIs DEF BaseInv, NoWork
<1>2. Single(View(c)) /\ Single(rows) /\ Gone(Conn(c)) \subseteq rows
    BY <1>1 DEF UniqueInv
<1>3. Seen(Conn(c)) = View(c) /\ pend'[Conn(c)].gone = {}
    BY <1>1 DEF Seen
<1>4. ASSUME NEW n \in Connections \ {Conn(c)} PROVE Single(Seen(n)) /\ pend'[n].gone \subseteq rows'
    <2>1. pend'[n] = pend[n] /\ Gone(n) \subseteq rows /\ Single(ViewOf(n))
        BY <1>1 DEF UniqueInv
    <2>2. \A q \in Touched(Conn(c)), r \in Touched(n) : ~SameRow(q, r) /\ ~SameKey(q, r)
        BY <1>1 DEF LockInv
    <2>3. \A r \in Gone(n) : r \in View(c)
        <3> SUFFICES ASSUME NEW r \in Gone(n) PROVE r \in View(c)
            OBVIOUS
        <3>1. r \in Touched(n) /\ SameRow(r, r)
            BY DEF Touched, Gone, SameRow
        <3>2. r \notin Gone(Conn(c))
            BY <2>2, <3>1 DEF Touched, Gone
        <3> QED
            BY <2>1, <3>2 DEF View, Gone
    <2>4. Seen(n) = (View(c) \ Gone(n)) \cup New(n)
        BY <1>1, <2>1 DEF Seen, New, Gone
    <2>5. ASSUME NEW r \in View(c) \ Gone(n), NEW q \in New(n), SameRow(r, q) \/ SameKey(r, q) PROVE r = q
        <3>1. q \in Touched(n)
            BY DEF New, Touched
        <3>2. r \notin New(Conn(c))
            BY <2>2, <2>5, <3>1 DEF New, Touched
        <3>3. r \in ViewOf(n) /\ q \in ViewOf(n)
            BY <3>2 DEF View, ViewOf, New, Gone
        <3> QED
            BY <2>1, <2>5, <3>3 DEF Single
    <2>6. ASSUME NEW r \in New(n), NEW q \in New(n), SameRow(r, q) \/ SameKey(r, q) PROVE r = q
        BY <2>1, <2>6 DEF Single, ViewOf
    <2>7. Single(Seen(n))
        <3> SUFFICES ASSUME NEW r \in Seen(n), NEW q \in Seen(n), SameRow(r, q) \/ SameKey(r, q) PROVE r = q
            BY DEF Single
        <3>1. CASE r \in View(c) \ Gone(n) /\ q \in View(c) \ Gone(n)
            BY <1>2, <3>1 DEF Single
        <3>2. CASE r \in View(c) \ Gone(n) /\ q \in New(n)
            BY <2>5, <3>2
        <3>3. CASE r \in New(n) /\ q \in View(c) \ Gone(n)
            <4>1. SameRow(q, r) \/ SameKey(q, r)
                BY EitherWay
            <4> QED
                BY <2>5, <3>3, <4>1
        <3>4. CASE r \in New(n) /\ q \in New(n)
            BY <2>6, <3>4
        <3> QED
            BY <2>4, <3>1, <3>2, <3>3, <3>4
    <2> QED
        BY <1>1, <2>1, <2>3, <2>7 DEF Gone
<1> QED
    BY <1>1, <1>2, <1>3, <1>4, SeenUnique

LEMMA UniqueStep ==
    ASSUME NEW c \in Clients, BaseInv, LockInv, UniqueInv, Act(c) \/ Fail(c)
    PROVE  UniqueInv'
<1>1. /\ TypeInv /\ TodoInv /\ StoreInv /\ UNCHANGED schema /\ View(c) = ViewOf(Conn(c)) /\ Conn(c) \in Connections
    BY StepIsOne, ViewIs, ConnectionIs DEF BaseInv
<1>2. /\ Single(View(c)) /\ Single(rows)
      /\ \A n \in Connections : Single(ViewOf(n)) /\ Gone(n) \subseteq rows
    BY <1>1 DEF UniqueInv
<1>3. CASE Quiet(c)
    <2>1. \A n \in Connections : pend'[n] = pend[n] \/ (pend'[n].new = {} /\ pend'[n].gone = {})
        BY <1>1, <1>3, ClearedTouches DEF Quiet
    <2>2. \A n \in Connections : Seen(n) = ViewOf(n) \/ Seen(n) = rows
        BY <1>3, <2>1 DEF Quiet, Seen, ViewOf, New, Gone
    <2>3. \A n \in Connections : pend'[n].gone \subseteq rows'
        BY <1>2, <1>3, <2>1 DEF Quiet, Gone
    <2> QED
        BY <1>1, <1>2, <1>3, <2>2, <2>3, SeenUnique DEF Quiet
<1>4. ASSUME NEW add, NEW remove, Write(c, add, remove), Single((View(c) \ remove) \cup add) PROVE UniqueInv'
    <2>1. \A n \in Connections : Single(Seen(n)) /\ pend'[n].gone \subseteq rows'
        BY <1>1, <1>2, <1>4, WriteSees
    <2>2. Single(rows')
        BY <1>1, <1>2, <1>4, WriteSees
    <2> QED
        BY <1>1, <2>1, <2>2, SeenUnique
<1>5. CASE InsertRow(c)
    <2>1. PICK add, e : add = {Draft(c)} /\ e = {} /\ Write(c, add, e)
        BY <1>1, <1>5, DraftIs
    <2>2. Single((View(c) \ e) \cup add)
        BY <1>5, <2>1, InsertUnique
    <2> QED
        BY <1>4, <2>1, <2>2
<1>6. CASE CountRow(c)
    <2>1. PICK f, add : /\ Write(c, add, Counted(c)) /\ add = {f[r] : r \in Counted(c)}
                        /\ \A r \in Counted(c) : Same(f[r], r)
        BY <1>1, <1>6, CopiesAre
    <2>2. Counted(c) \subseteq View(c)
        BY <1>1, <1>6, CountRowIs
    <2>3. Single((View(c) \ Counted(c)) \cup add)
        BY <1>2, <2>1, <2>2, CopiesUnique
    <2> QED
        BY <1>4, <2>1, <2>3
<1>7. CASE EraseRows(c)
    <2>1. PICK e : e = {} /\ Write(c, e, Cascade(c))
        BY <1>1, <1>7, EraseRowsIs
    <2>2. (View(c) \ Cascade(c)) \cup e \subseteq View(c)
        BY <2>1
    <2>3. Single((View(c) \ Cascade(c)) \cup e)
        BY <1>2, <2>2, FewerAreUnique
    <2> QED
        BY <1>4, <2>1, <2>3
<1>8. CASE CommitWork(c)
    BY <1>1, <1>8, CommitUnique
<1> QED
    BY <1>3, <1>5, <1>6, <1>7, <1>8, StepIsOne

-----------------------------------------------------------------------------
LEMMA StateIsTyped ==
    ASSUME BaseInv, UniqueInv
    PROVE  TypeOK
<1>1. TypeInv /\ StoreInv
    BY DEF BaseInv
<1>2. <<dialect, play>> \in Cases
    BY <1>1 DEF TypeInv
<1>3. \A r \in rows : r.table \in Tables /\ r.id \in 1 .. last[r.table] /\ r.num \in Nat \ {0}
    BY <1>1 DEF StoreInv, IsRow
<1>4. \A n \in Connections : pend[n].gone \subseteq rows
    BY DEF UniqueInv, Gone
<1>5. \A n \in Connections : aborted[n] => pend[n] = NoWork
    BY <1>1 DEF StoreInv
<1>6. \A c \in Clients : job[c] = Len(outcome[c]) + (IF Running(c) THEN 1 ELSE 0)
    BY <1>1 DEF TypeInv
<1>7. \A c \in Clients, t \in Tables : ids[c][t] \in 0 .. last[t] /\ cache[c][t] \in 0 .. last[t]
    BY <1>1 DEF TypeInv
<1>8. \A c \in Clients : faults[c] \in 0 .. play[c].faults
    <2> SUFFICES ASSUME NEW c \in Clients PROVE faults[c] \in 0 .. play[c].faults
        OBVIOUS
    <2>1. faults[c] \in Nat /\ faults[c] <= play[c].faults
        BY <1>1 DEF TypeInv
    <2>2. play[c].faults \in Nat
        BY <1>1, Assumed DEF TypeInv, Play
    <2> QED
        BY <2>1, <2>2
<1> QED
    BY <1>2, <1>3, <1>4, <1>5, <1>6, <1>7, <1>8 DEF TypeOK

LEMMA RowsAreSingle ==
    ASSUME BaseInv, MessageInv, UniqueInv
    PROVE  OneRowPerName
<1> SUFFICES ASSUME NEW r \in rows, NEW q \in rows, r.table = q.table,
                    \A k \in NaturalKey[r.table] : r.cols[k] = q.cols[k]
             PROVE  r = q
    BY DEF OneRowPerName
<1>1. TypeInv /\ IsRow(r) /\ IsRow(q) /\ r \in Stored /\ q \in Stored
    BY StoredHas DEF BaseInv, StoreInv
<1>2. r.table \in Tables
    BY <1>1 DEF IsRow
<1>3. CASE r.table # "conversation_message"
    <2>1. NaturalKey[r.table] \in schema[r.table].keys
        BY <1>1, <1>2, <1>3, KeysAre
    <2>2. SameKey(r, q)
        BY <2>1 DEF SameKey
    <2> QED
        BY <2>2 DEF UniqueInv, Single
<1>4. CASE r.table = "conversation_message"
    <2>1. r.cols["content"] = q.cols["content"]
        BY <1>4, NaturalKeysAre
    <2>2. r \in Said(Stored) /\ q \in Said(Stored) /\ Text(r) = Text(q)
        BY <1>1, <1>4, <2>1 DEF Said, Text
    <2> QED
        BY <2>2 DEF MessageInv, SpokenInv
<1> QED
    BY <1>3, <1>4

-----------------------------------------------------------------------------
(* References the database checks.                                         *)
\* The rows of S find in T what they refer to.
Met(S, T) == \A r \in S : \A k \in schema[r.table].refs : r.cols[k] # 0 => Has(T, Names[k], r.cols[k])

ResolveInv == Met(rows, rows) /\ \A n \in Connections : Met(ViewOf(n), ViewOf(n))

\* Who takes away a row that another is about to refer to has put it back.
KeepRefInv ==
    \A n, m \in Connections : n # m =>
        \A q \in Gone(n), r \in New(m) : RefersTo(r, q) => Has(New(n), q.table, q.id)

\* Every row of S is in T, with the same columns.
Kept(S, T) == \A q \in S : \E r \in T : Same(r, q)

LEMMA KeptHas ==
    ASSUME NEW S, NEW T, Kept(S, T), NEW t, NEW i, Has(S, t, i)
    PROVE  Has(T, t, i)
BY DEF Kept, Has, Same

LEMMA MetBy ==
    ASSUME NEW S, NEW T, Met(S, S), Kept(T, S), Kept(S, T)
    PROVE  Met(T, T)
<1> SUFFICES ASSUME NEW r \in T, NEW k \in schema[r.table].refs, r.cols[k] # 0 PROVE Has(T, Names[k], r.cols[k])
    BY DEF Met
<1>1. PICK q \in S : Same(q, r)
    BY DEF Kept
<1>2. Has(S, Names[k], q.cols[k]) /\ q.cols[k] = r.cols[k]
    BY <1>1 DEF Met, Same
<1> QED
    BY <1>2, KeptHas

LEMMA SeenMet ==
    ASSUME UNCHANGED schema, Met(rows', rows'), \A n \in Connections : Met(Seen(n), Seen(n))
    PROVE  ResolveInv'
<1>1. \A n \in Connections : ViewOf(n)' = Seen(n)
    BY DEF ViewOf, New, Gone, Seen
<1>2. \A S, T : Met(S, T) => \A r \in S : \A k \in schema'[r.table].refs : r.cols[k] # 0 => Has(T, Names[k], r.cols[k])
    BY DEF Met
<1>3. \A r \in rows' : \A k \in schema'[r.table].refs : r.cols[k] # 0 => Has(rows', Names[k], r.cols[k])
    BY <1>2
<1>4. \A n \in Connections : \A r \in Seen(n) : \A k \in schema'[r.table].refs :
         r.cols[k] # 0 => Has(Seen(n), Names[k], r.cols[k])
    BY <1>2
<1> QED
    BY <1>1, <1>3, <1>4 DEF ResolveInv, Met

LEMMA InsertMet ==
    ASSUME NEW c \in Clients, BaseInv, ResolveInv, InsertRow(c)
    PROVE  Met((View(c) \ {}) \cup {Draft(c)}, (View(c) \ {}) \cup {Draft(c)})
<1>1. View(c) = ViewOf(Conn(c)) /\ Conn(c) \in Connections /\ Met(View(c), View(c)) /\ TypeInv /\ TodoInv
    BY ConnectionIs, ViewIs DEF BaseInv, ResolveInv
<1>2. PICK d : d = Draft(c)
    OBVIOUS
<1>3. /\ d.table = Here(c).table /\ Here(c).table \in Tables
      /\ \A k \in Columns[Here(c).table] : d.cols[k] = Value(c, Here(c).table, k)
    BY <1>1, <1>2, DraftIs
<1>4. ~Dangling(c)
    BY DEF InsertRow
<1>5. \A k \in schema[d.table].refs : d.cols[k] # 0 => Has(View(c), Names[k], d.cols[k])
    <2>1. schema[d.table].refs \subseteq Columns[d.table]
        BY <1>1, <1>3, SchemaIs
    <2> QED
        BY <1>3, <1>4, <2>1 DEF Dangling
<1>6. \A t, i : Has(View(c), t, i) => Has((View(c) \ {}) \cup {d}, t, i)
    BY DEF Has
<1> QED
    BY <1>1, <1>2, <1>5, <1>6 DEF Met

LEMMA CopiesMet ==
    ASSUME NEW S, Met(S, S), NEW remove, remove \subseteq S, NEW f, NEW add, add = {f[r] : r \in remove},
           \A r \in remove : Same(f[r], r)
    PROVE  Met((S \ remove) \cup add, (S \ remove) \cup add)
<1>1. Kept((S \ remove) \cup add, S)
    <2>1. \A x \in add : \E r \in S : Same(r, x)
        BY DEF Same
    <2> QED
        BY <2>1 DEF Kept, Same
<1>2. Kept(S, (S \ remove) \cup add)
    <2>1. \A r \in remove : f[r] \in add
        OBVIOUS
    <2> QED
        BY <2>1 DEF Kept, Same
<1> QED
    BY <1>1, <1>2, MetBy

-----------------------------------------------------------------------------
\* Nobody refers to a row that refers to one which can be erased.
LEMMA CascadeEnds ==
    ASSUME TypeInv, NEW x, x.table \in Tables, NEW e, e.table \in Erasable, RefersTo(x, e),
           NEW r, r.table \in Tables
    PROVE  ~RefersTo(r, x)
<1>1. PICK k \in schema[x.table].refs : Names[k] = e.table
    BY DEF RefersTo
<1>2. k \in Columns[x.table] \cap DOMAIN Names
    BY <1>1, SchemaIs
<1>3. x.table \in {"entity_fact_mention", "knowledge_graph"}
    BY <1>1, <1>2, TablesAre, ColumnsAre, NamesAre DEF Four, Graph, Learned, Erasable
<1>4. schema[r.table].refs \subseteq DOMAIN Names
    BY SchemaIs
<1>5. \A j \in DOMAIN Names : Names[j] # x.table
    BY <1>3, NamesAre
<1> QED
    BY <1>4, <1>5 DEF RefersTo

LEMMA EraseMet ==
    ASSUME NEW c \in Clients, BaseInv, ResolveInv, EraseRows(c)
    PROVE  Met(View(c) \ Cascade(c), View(c) \ Cascade(c))
<1>1. /\ View(c) = ViewOf(Conn(c)) /\ Conn(c) \in Connections /\ Met(View(c), View(c)) /\ TypeInv
      /\ \A r \in View(c) : r.table \in Tables
    BY ConnectionIs, ViewIs DEF BaseInv, ResolveInv, IsRow
<1>2. \A r \in Cascade(c) : r.table \in Erasable
    BY EraseRowsIs DEF BaseInv
<1> SUFFICES ASSUME NEW r \in View(c) \ Cascade(c), NEW k \in schema[r.table].refs, r.cols[k] # 0
             PROVE  Has(View(c) \ Cascade(c), Names[k], r.cols[k])
    BY DEF Met
<1>3. PICK q \in View(c) : q.table = Names[k] /\ q.id = r.cols[k]
    BY <1>1 DEF Met, Has
<1>4. RefersTo(r, q)
    BY <1>3 DEF RefersTo
<1>5. q \notin Erased(c)
    BY <1>4 DEF Cascade
<1>6. q \notin Cascade(c)
    <2> SUFFICES ASSUME q \in Cascade(c) PROVE FALSE
        OBVIOUS
    <2>1. PICK e \in Erased(c) : RefersTo(q, e)
        BY <1>5 DEF Cascade
    <2>2. e.table \in Erasable
        BY <1>2, <2>1 DEF Cascade
    <2> QED
        BY <1>1, <1>4, <2>1, <2>2, CascadeEnds
<1> QED
    BY <1>3, <1>6 DEF Has

LEMMA WriteKeepsRefs ==
    ASSUME NEW c \in Clients, TypeInv, StoreInv, KeepRefInv, UNCHANGED <<dialect, schema>>,
           NEW add, NEW remove, NEW S, NEW e, Write(c, add, remove), Holders(c, S, e) = {},
           remove \subseteq S, \A r \in add : \E q \in S : Same(r, q),
           e \/ \A q \in remove : \E r \in add : Same(r, q)
    PROVE  KeepRefInv'
<1>1. CASE Mongo
    <2>1. pend' = pend
        BY <1>1, WriteIs
    <2> QED
        BY <2>1 DEF KeepRefInv, RefersTo, New, Gone, Has
<1>2. CASE ~Mongo
    <2> SUFFICES ASSUME NEW n \in Connections, NEW m \in Connections, n # m,
                        NEW q \in pend'[n].gone, NEW r \in pend'[m].new, RefersTo(r, q)
                 PROVE  Has(pend'[n].new, q.table, q.id)
        BY DEF KeepRefInv, RefersTo, New, Gone, Has
    <2>1. /\ pend'[Conn(c)].new = (pend[Conn(c)].new \ remove) \cup add
          /\ pend'[Conn(c)].gone = pend[Conn(c)].gone \cup (remove \cap rows)
          /\ \A k \in Connections \ {Conn(c)} : pend'[k] = pend[k]
        BY <1>2, WriteIs
    <2>2. CASE n # Conn(c) /\ m # Conn(c)
        <3>1. pend'[n] = pend[n] /\ pend'[m] = pend[m]
            BY <2>1, <2>2
        <3> QED
            BY <3>1 DEF KeepRefInv, New, Gone
    <2>3. CASE m = Conn(c)
        <3>1. pend'[n] = pend[n] /\ q \in Gone(n) /\ n \in Connections \ {Conn(c)}
            BY <2>1, <2>3 DEF Gone
        <3>2. r \notin add
            <4> SUFFICES ASSUME r \in add PROVE FALSE
                OBVIOUS
            <4>1. PICK s \in S : Same(r, s)
                OBVIOUS
            <4>2. q \in Touched(n)
                BY <3>1 DEF Touched, Gone
            <4>3. ~RefersTo(s, q)
                BY <3>1, <4>2, NobodyHolds
            <4> QED
                BY <4>1, <4>3, LikeRows
        <3>3. r \in New(m)
            BY <2>1, <2>3, <3>2 DEF New
        <3>4. Has(New(n), q.table, q.id)
            BY <3>1, <3>3 DEF KeepRefInv
        <3> QED
            BY <3>1, <3>4 DEF New
    <2>4. CASE n = Conn(c)
        <3>1. pend'[m] = pend[m] /\ r \in New(m) /\ m \in Connections \ {Conn(c)} /\ r \in Touched(m)
            BY <2>1, <2>4 DEF New, Touched
        <3>2. e => \A y \in remove : ~RefersTo(r, y)
            BY <3>1, NobodyHolds
        <3>3. ASSUME NEW y \in remove, RefersTo(r, y) PROVE Has(pend'[n].new, y.table, y.id)
            <4>1. PICK z \in add : Same(z, y)
                BY <3>2, <3>3
            <4> QED
                BY <2>1, <2>4, <4>1 DEF Has, Same
        <3>4. CASE q \in remove
            BY <3>3, <3>4
        <3>5. CASE q \in Gone(n)
            <4>1. PICK y \in New(n) : y.table = q.table /\ y.id = q.id
                BY <3>1, <3>5 DEF KeepRefInv, Has
            <4>2. RefersTo(r, y)
                BY <4>1 DEF RefersTo
            <4>3. CASE y \in remove
                BY <3>3, <4>1, <4>2, <4>3
            <4>4. CASE y \notin remove
                BY <2>1, <2>4, <4>1, <4>4 DEF Has, New
            <4> QED
                BY <4>3, <4>4
        <3> QED
            BY <2>1, <2>4, <3>4, <3>5 DEF Gone
    <2> QED
        BY <2>2, <2>3, <2>4
<1> QED
    BY <1>1, <1>2

LEMMA KeepRefStep ==
    ASSUME NEW c \in Clients, BaseInv, KeepRefInv, Act(c) \/ Fail(c)
    PROVE  KeepRefInv'
<1>1. TypeInv /\ TodoInv /\ StoreInv /\ UNCHANGED <<dialect, schema>>
    BY StepIsOne DEF BaseInv
<1>2. CASE Quiet(c) \/ CommitWork(c)
    <2>1. \A n \in Connections : pend'[n] = pend[n] \/ (pend'[n].new = {} /\ pend'[n].gone = {})
        BY <1>1, <1>2, CommitIs, ClearedTouches DEF Quiet
    <2> SUFFICES ASSUME NEW n \in Connections, NEW m \in Connections, n # m,
                        NEW q \in pend'[n].gone, NEW r \in pend'[m].new, RefersTo(r, q)
                 PROVE  Has(pend'[n].new, q.table, q.id)
        BY <1>1 DEF KeepRefInv, RefersTo, New, Gone, Has
    <2>2. pend'[n] = pend[n] /\ pend'[m] = pend[m]
        BY <2>1
    <2> QED
        BY <2>2 DEF KeepRefInv, New, Gone
<1>3. CASE InsertRow(c)
    <2>1. PICK add, e : add = {Draft(c)} /\ e = {} /\ Write(c, add, e)
        BY <1>1, <1>3, DraftIs
    <2>2. PICK S, b : S = Counted(c) \cup {Draft(c)} /\ b = FALSE /\ Holders(c, S, b) = {}
        BY <1>3, WritesWait
    <2>3. e \subseteq S /\ (\A r \in add : \E q \in S : Same(r, q)) /\ \A q \in e : \E r \in add : Same(r, q)
        BY <2>1, <2>2 DEF Same
    <2> QED
        BY <1>1, <2>1, <2>2, <2>3, WriteKeepsRefs
<1>4. CASE CountRow(c)
    <2>1. PICK f, add : /\ Write(c, add, Counted(c)) /\ add = {f[r] : r \in Counted(c)}
                        /\ \A r \in Counted(c) : Same(f[r], r)
        BY <1>1, <1>4, CopiesAre
    <2>2. PICK S : Counted(c) \subseteq S /\ Holders(c, S, FALSE) = {}
        BY <1>4, WritesWait
    <2>3. (\A r \in add : \E q \in S : Same(r, q)) /\ \A q \in Counted(c) : \E r \in add : Same(r, q)
        BY <2>1, <2>2
    <2> QED
        BY <1>1, <2>1, <2>2, <2>3, WriteKeepsRefs
<1>5. CASE EraseRows(c)
    <2>1. PICK e : e = {} /\ Write(c, e, Cascade(c))
        BY <1>1, <1>5, EraseRowsIs
    <2>2. PICK b : b = TRUE /\ Holders(c, Cascade(c), b) = {}
        BY <1>5, WritesWait
    <2>3. \A r \in e : \E q \in Cascade(c) : Same(r, q)
        BY <2>1
    <2> QED
        BY <1>1, <2>1, <2>2, <2>3, WriteKeepsRefs
<1> QED
    BY <1>2, <1>3, <1>4, <1>5, StepIsOne

-----------------------------------------------------------------------------
\* What one connection commits takes nothing away that another refers to.
LEMMA CommitMet ==
    ASSUME NEW c \in Clients, BaseInv, LockInv, UniqueInv, KeepRefInv, ResolveInv, CommitWork(c),
           NEW n \in Connections \ {Conn(c)}
    PROVE  Met((View(c) \ Gone(n)) \cup New(n), (View(c) \ Gone(n)) \cup New(n))
<1> DEFINE T == (View(c) \ Gone(n)) \cup New(n)
           m == Conn(c)
<1>1. View(c) = ViewOf(m) /\ m \in Connections /\ TypeInv
    BY ConnectionIs, ViewIs DEF BaseInv
<1>2. Met(View(c), View(c)) /\ Met(ViewOf(n), ViewOf(n)) /\ Single(rows) /\ Gone(n) \subseteq rows
    BY <1>1 DEF ResolveInv, UniqueInv
<1>3. \A q \in Touched(m), r \in Touched(n) : ~SameRow(q, r)
    BY <1>1 DEF LockInv
<1>4. /\ \A q \in Gone(m), r \in New(n) : RefersTo(r, q) => Has(New(m), q.table, q.id)
      /\ \A q \in Gone(n), r \in New(m) : RefersTo(r, q) => Has(New(n), q.table, q.id)
    BY <1>1 DEF KeepRefInv
<1>5. View(c) = (rows \ Gone(m)) \cup New(m) /\ ViewOf(n) = (rows \ Gone(n)) \cup New(n)
    BY <1>1 DEF ViewOf
<1> HIDE DEF m
<1> SUFFICES ASSUME NEW r \in T, NEW k \in schema[r.table].refs, r.cols[k] # 0 PROVE Has(T, Names[k], r.cols[k])
    BY DEF Met
<1> HIDE DEF T
<1>6. \A q : q.table = Names[k] /\ q.id = r.cols[k] => RefersTo(r, q)
    BY DEF RefersTo
<1>7. \A q \in T : q.table = Names[k] /\ q.id = r.cols[k] => Has(T, Names[k], r.cols[k])
    BY DEF Has
<1>8. New(n) \subseteq T /\ View(c) \ Gone(n) \subseteq T
    BY DEF T
<1>9. CASE r \in New(n)
    <2>1. PICK q \in ViewOf(n) : q.table = Names[k] /\ q.id = r.cols[k]
        BY <1>2, <1>5, <1>9 DEF Met, Has
    <2>2. CASE q \in New(n) \/ q \notin Gone(m)
        BY <1>5, <1>7, <1>8, <2>1, <2>2
    <2>3. CASE q \in Gone(m)
        <3>1. PICK y \in New(m) : y.table = q.table /\ y.id = q.id
            BY <1>4, <1>6, <1>9, <2>1, <2>3 DEF Has
        <3>2. y \notin Gone(n)
            BY <1>3 DEF Touched, New, Gone, SameRow
        <3> QED
            BY <1>5, <1>7, <1>8, <2>1, <3>1, <3>2
    <2> QED
        BY <2>2, <2>3
<1>10. CASE r \in View(c) \ Gone(n)
    <2>1. PICK q \in View(c) : q.table = Names[k] /\ q.id = r.cols[k]
        BY <1>2, <1>10 DEF Met, Has
    <2>2. CASE q \notin Gone(n)
        BY <1>7, <1>8, <2>1, <2>2
    <2>3. CASE q \in Gone(n) /\ r \in New(m)
        <3>1. PICK y \in New(n) : y.table = q.table /\ y.id = q.id
            BY <1>4, <1>6, <2>1, <2>3 DEF Has
        <3> QED
            BY <1>7, <1>8, <2>1, <3>1
    <2>4. CASE q \in Gone(n) /\ r \notin New(m)
        <3>1. r \in ViewOf(n)
            BY <1>5, <1>10, <2>4
        <3>2. PICK y \in ViewOf(n) : y.table = Names[k] /\ y.id = r.cols[k]
            BY <1>2, <3>1 DEF Met, Has
        <3>3. y \in New(n)
            <4> SUFFICES ASSUME y \in rows \ Gone(n) PROVE FALSE
                BY <1>5, <3>2
            <4>1. q \in rows /\ SameRow(y, q)
                BY <1>2, <2>1, <2>4, <3>2 DEF SameRow
            <4>2. y = q
                BY <1>2, <4>1 DEF Single
            <4> QED
                BY <2>4, <4>2
        <3> QED
            BY <1>7, <1>8, <3>2, <3>3
    <2> QED
        BY <2>2, <2>3, <2>4
<1> QED
    BY <1>9, <1>10 DEF T

LEMMA ResolveStep ==
    ASSUME NEW c \in Clients, BaseInv, LockInv, UniqueInv, KeepRefInv, ResolveInv, Act(c) \/ Fail(c)
    PROVE  ResolveInv'
<1>1. /\ TypeInv /\ TodoInv /\ StoreInv /\ UNCHANGED schema /\ View(c) = ViewOf(Conn(c)) /\ Conn(c) \in Connections
    BY StepIsOne, ViewIs, ConnectionIs DEF BaseInv
<1>2. Met(rows, rows) /\ Met(View(c), View(c)) /\ \A n \in Connections : Met(ViewOf(n), ViewOf(n))
    BY <1>1 DEF ResolveInv
<1>3. CASE Quiet(c)
    <2>1. \A n \in Connections : pend'[n] = pend[n] \/ (pend'[n].new = {} /\ pend'[n].gone = {})
        BY <1>1, <1>3, ClearedTouches DEF Quiet
    <2>2. \A n \in Connections : Seen(n) = ViewOf(n) \/ Seen(n) = rows
        BY <1>3, <2>1 DEF Quiet, Seen, ViewOf, New, Gone
    <2>3. \A n \in Connections : Met(Seen(n), Seen(n))
        BY <1>2, <2>2
    <2> QED
        BY <1>1, <1>2, <1>3, <2>3, SeenMet DEF Quiet
<1>4. ASSUME NEW add, NEW remove, Write(c, add, remove),
             Met((View(c) \ remove) \cup add, (View(c) \ remove) \cup add)
      PROVE  ResolveInv'
    <2>1. \A n \in Connections : Met(Seen(n), Seen(n))
        BY <1>1, <1>2, <1>4, WriteSees
    <2>2. Met(rows', rows')
        BY <1>1, <1>2, <1>4, WriteSees
    <2> QED
        BY <1>1, <2>1, <2>2, SeenMet
<1>5. CASE InsertRow(c)
    <2>1. PICK add, e : add = {Draft(c)} /\ e = {} /\ Write(c, add, e)
        BY <1>1, <1>5, DraftIs
    <2>2. Met((View(c) \ e) \cup add, (View(c) \ e) \cup add)
        BY <1>5, <2>1, InsertMet
    <2> QED
        BY <1>4, <2>1, <2>2
<1>6. CASE CountRow(c)
    <2>1. PICK f, add : /\ Write(c, add, Counted(c)) /\ add = {f[r] : r \in Counted(c)}
                        /\ \A r \in Counted(c) : Same(f[r], r)
        BY <1>1, <1>6, CopiesAre
    <2>2. Counted(c) \subseteq View(c)
        BY <1>1, <1>6, CountRowIs
    <2>3. Met((View(c) \ Counted(c)) \cup add, (View(c) \ Counted(c)) \cup add)
        BY <1>2, <2>1, <2>2, CopiesMet
    <2> QED
        BY <1>4, <2>1, <2>3
<1>7. CASE EraseRows(c)
    <2>1. PICK e : e = {} /\ Write(c, e, Cascade(c))
        BY <1>1, <1>7, EraseRowsIs
    <2>2. (View(c) \ Cascade(c)) \cup e = View(c) \ Cascade(c)
        BY <2>1
    <2>3. Met((View(c) \ Cascade(c)) \cup e, (View(c) \ Cascade(c)) \cup e)
        BY <1>7, <2>2, EraseMet
    <2> QED
        BY <1>4, <2>1, <2>3
<1>8. CASE CommitWork(c)
    <2>1. /\ rows' = View(c) /\ pend' = [pend EXCEPT ![Conn(c)] = NoWork] /\ DOMAIN pend = Connections
          /\ NoWork.new = {} /\ NoWork.gone = {}
        BY <1>1, <1>8, CommitIs, FunctionalIs DEF NoWork
    <2>2. Seen(Conn(c)) = View(c)
        BY <1>1, <2>1 DEF Seen
    <2>3. ASSUME NEW n \in Connections \ {Conn(c)} PROVE Met(Seen(n), Seen(n))
        <3>1. Seen(n) = (View(c) \ Gone(n)) \cup New(n)
            BY <1>1, <2>1 DEF Seen, New, Gone
        <3> QED
            BY <1>8, <3>1, CommitMet
    <2>4. \A n \in Connections : Met(Seen(n), Seen(n))
        BY <1>2, <2>2, <2>3
    <2> QED
        BY <1>1, <1>2, <2>1, <2>4, SeenMet
<1> QED
    BY <1>3, <1>5, <1>6, <1>7, <1>8, StepIsOne

-----------------------------------------------------------------------------
(* In a program the entity comes before the facts.                         *)
Obtains(t, x) == x.table = t /\ x.do \in {"look", "take"}

Sparing(t) == {x \in Stmt : ~Obtains(t, x)}

\* No entity is looked up once a fact has been.
EntityFirst(p) ==
    \A i, j \in 1 .. Len(p) : i <= j /\ Obtains("entity_fact", p[i]) => ~Obtains("entity", p[j])

LEMMA SparingIs ==
    /\ \A t : Sparing(t) \subseteq Stmt
    /\ \A t \in Four : Makings(t) \subseteq Sparing("entity_fact") /\ (t # "entity" => Makings(t) \subseteq Sparing("entity"))
    /\ Learnings \subseteq Sparing("entity") /\ Updatings \subseteq Sparing("entity")
    /\ Forgettings \subseteq Sparing("entity") /\ Recallings \subseteq Sparing("entity")
    /\ Readings \subseteq Sparing("entity_fact") /\ Commit \in Sparing("entity")
    /\ \A x \in Stmt : \A t : x.do \notin {"look", "take"} \/ x.table # t => x \in Sparing(t)
<1>1. \A x \in Stmt : \A t : x.do \notin {"look", "take"} \/ x.table # t => x \in Sparing(t)
    BY DEF Sparing, Obtains
<1>2. \A t : Sparing(t) \subseteq Stmt
    BY DEF Sparing
<1>3. \A t \in Four : Makings(t) \subseteq Sparing("entity_fact") /\ (t # "entity" => Makings(t) \subseteq Sparing("entity"))
    BY <1>1 DEF Makings, Four
<1>4. Learnings \subseteq Sparing("entity") /\ Updatings \subseteq Sparing("entity")
    BY <1>1 DEF Learnings, Updatings, Learned, Erasable, Graph
<1>5. Forgettings \subseteq Sparing("entity") /\ Recallings \subseteq Sparing("entity") /\ Readings \subseteq Sparing("entity_fact")
    BY <1>1 DEF Forgettings, Recallings, Readings, Reads, Erases, Notes
<1>6. Commit \in Sparing("entity")
    <2>1. Commit \in Stmt
        BY LearningKinds
    <2> QED
        BY <1>1, <2>1 DEF Commit, Statement
<1> QED
    BY <1>1, <1>2, <1>3, <1>4, <1>5, <1>6

LEMMA SparesOne ==
    ASSUME NEW t, NEW p \in Seq(Sparing(t)), t \in {"entity", "entity_fact"}
    PROVE  p \in Seq(Stmt) /\ EntityFirst(p)
<1>1. \A i \in 1 .. Len(p) : ~Obtains(t, p[i])
    BY DEF Sparing
<1> QED
    BY <1>1, SparingIs DEF EntityFirst

LEMMA FirstThen ==
    ASSUME NEW p \in Seq(Stmt), NEW q \in Seq(Stmt),
           \/ p \in Seq(Sparing("entity_fact")) /\ EntityFirst(q)
           \/ EntityFirst(p) /\ q \in Seq(Sparing("entity"))
    PROVE  p \o q \in Seq(Stmt) /\ EntityFirst(p \o q)
<1> DEFINE s == p \o q
<1>1. /\ s \in Seq(Stmt) /\ Len(p) \in Nat /\ Len(q) \in Nat /\ Len(s) = Len(p) + Len(q)
      /\ \A i \in 1 .. Len(p) : s[i] = p[i]
      /\ \A i \in 1 .. Len(q) : s[Len(p) + i] = q[i]
      /\ \A i \in 1 .. Len(s) : i \in 1 .. Len(p) \/ \E k \in 1 .. Len(q) : i = Len(p) + k
    BY JoinedAt
<1> HIDE DEF s
<1>2. ASSUME NEW i \in 1 .. Len(s), NEW j \in 1 .. Len(s), i <= j, Obtains("entity_fact", s[i]), Obtains("entity", s[j])
      PROVE  FALSE
    <2>1. CASE p \in Seq(Sparing("entity_fact")) /\ EntityFirst(q)
        <3>1. i \notin 1 .. Len(p)
            <4> SUFFICES ASSUME i \in 1 .. Len(p) PROVE FALSE
                OBVIOUS
            <4>1. p[i] \in Sparing("entity_fact")
                BY <2>1
            <4> QED
                BY <1>1, <1>2, <4>1 DEF Sparing
        <3>2. PICK k \in 1 .. Len(q) : i = Len(p) + k
            BY <1>1, <3>1
        <3>4. j \notin 1 .. Len(p)
            BY <1>1, <1>2, <3>2
        <3>5. PICK l \in 1 .. Len(q) : j = Len(p) + l
            BY <1>1, <3>4
        <3>3. k <= l /\ s[i] = q[k] /\ s[j] = q[l]
            BY <1>1, <1>2, <3>2, <3>5
        <3> QED
            BY <1>2, <2>1, <3>3 DEF EntityFirst
    <2>2. CASE EntityFirst(p) /\ q \in Seq(Sparing("entity"))
        <3>1. j \in 1 .. Len(p)
            <4> SUFFICES ASSUME NEW k \in 1 .. Len(q), j = Len(p) + k PROVE FALSE
                BY <1>1
            <4>1. q[k] \in Sparing("entity") /\ s[j] = q[k]
                BY <1>1, <2>2
            <4> QED
                BY <1>2, <4>1 DEF Sparing
        <3>2. i \in 1 .. Len(p)
            BY <1>1, <1>2, <3>1
        <3> QED
            BY <1>1, <1>2, <2>2, <3>1, <3>2 DEF EntityFirst
    <2> QED
        BY <2>1, <2>2
<1> QED
    BY <1>1, <1>2 DEF EntityFirst, s

LEMMA GuardSpares ==
    ASSUME NEW t \in Four, NEW p \in Seq(Stmt), NEW u
    PROVE  /\ p \in Seq(Sparing(u)) => Cached(t, p) \in Seq(Sparing(u)) /\ Known(t, p) \in Seq(Sparing(u))
           /\ EntityFirst(p) => Known(t, p) \in Seq(Stmt) /\ EntityFirst(Known(t, p))
<1>1. Len(p) \in Nat
    OBVIOUS
<1> DEFINE a == Unless(t, Len(p))
           b == When(t, Len(p))
<1>2. a.do = "unless" /\ b.do = "when" /\ a \in Stmt /\ b \in Stmt
    BY <1>1, GuardsServe DEF OfJob
<1>3. Cached(t, p) = <<a>> \o p /\ Known(t, p) = <<b>> \o p
    BY DEF Cached, Known
<1> HIDE DEF a, b
<1>4. \A v : a \in Sparing(v) /\ b \in Sparing(v)
    BY <1>2, SparingIs
<1>5. \A v : <<a>> \in Seq(Sparing(v)) /\ <<b>> \in Seq(Sparing(v))
    BY <1>4
<1>6. p \in Seq(Sparing(u)) => <<a>> \o p \in Seq(Sparing(u)) /\ <<b>> \o p \in Seq(Sparing(u))
    BY <1>5, JoinedAt
<1>7. EntityFirst(p) => <<b>> \o p \in Seq(Stmt) /\ EntityFirst(<<b>> \o p)
    <2>1. <<b>> \in Seq(Stmt)
        BY <1>2
    <2> QED
        BY <1>5, <2>1, FirstThen
<1> QED
    BY <1>3, <1>6, <1>7

LEMMA UnitSpares ==
    ASSUME NEW m, NEW S, NEW p, Unit(m, S, p), NEW t, S \subseteq Sparing(t)
    PROVE  p \in Seq(Sparing(t)) /\ p \in Seq(Stmt)
BY SparingIs DEF Unit

-----------------------------------------------------------------------------
LEMMA TurnSpares ==
    ASSUME NEW m \in BOOLEAN, NEW D, Good(m, D)
    PROVE  Turn(D) \in Seq(Sparing("entity_fact"))
<1> DEFINE A == Sparing("entity_fact")
           E == Cached("entity", D.entity)
           P == Cached("process", D.process)
           V == Cached("session", D.session.create)
           C == Cached("conversation", D.conversation.create)
<1>1. /\ D.entity \in Seq(A) /\ D.process \in Seq(A) /\ D.session.create \in Seq(A) /\ D.conversation.create \in Seq(A)
      /\ D.entity \in Seq(Stmt) /\ D.process \in Seq(Stmt) /\ D.session.create \in Seq(Stmt)
      /\ D.conversation.create \in Seq(Stmt)
    BY SparingIs, UnitSpares DEF Good, Four
<1>2. E \in Seq(A) /\ P \in Seq(A) /\ V \in Seq(A) /\ C \in Seq(A)
    BY <1>1, GuardSpares DEF Four
<1>3. ASSUME NEW d \in Data PROVE With(d, D.message) \in Seq(A)
    <2>1. PICK x \in OfJob("turn") : With(d, D.message) = <<x>> /\ MessageAdd(x)
        BY <1>3, MessageIs DEF Good
    <2>2. x \in A
        BY <2>1, SparingIs DEF OfJob, MessageAdd, Adds
    <2> QED
        BY <2>1, <2>2
<1>4. With("question", D.message) \in Seq(A) /\ With("answer", D.message) \in Seq(A) /\ <<Commit>> \in Seq(A)
    <2>1. Commit \in A
        BY LearningKinds, SparingIs DEF Commit, Statement
    <2> QED
        BY <1>3, <2>1 DEF Data
<1> DEFINE Q == With("question", D.message)
           R == With("answer", D.message)
<1> HIDE DEF A, E, P, V, C, Q, R
<1>5. E \o P \o V \o C \o Q \o R \o <<Commit>> \in Seq(A)
    BY <1>2, <1>4, JoinedAt DEF Q, R
<1> QED
    BY <1>5 DEF Turn, A, E, P, V, C, Q, R

LEMMA InjectSpares ==
    ASSUME NEW m \in BOOLEAN, NEW D, Good(m, D)
    PROVE  Inject(D) \in Seq(Sparing("entity_fact"))
<1> DEFINE A == Sparing("entity_fact")
           E == D.entity
           P == D.process
           V == D.session.create
           C == D.conversation.create
           R == D.session.read
           Q == D.conversation.read
           M == D.messages
<1>1. /\ E \in Seq(A) /\ P \in Seq(A) /\ V \in Seq(A) /\ C \in Seq(A) /\ M \in Seq(A)
    BY SparingIs, UnitSpares DEF Good, Four
<1>2. R \in Seq(A) /\ Q \in Seq(A)
    <2>1. \A t \in {"session", "conversation"} : Look(t) \in Stmt /\ Look(t).table = t
        BY LooksServe DEF Look, Statement, OfJob
    <2>2. Look("session") \in A /\ Look("conversation") \in A
        BY <2>1, SparingIs
    <2> QED
        BY <2>2 DEF Good
<1>3. Inject(D) = LET create == Cached("session", E \o P \o V) \o C
                      ensure == Cached("session", R) \o Known("session", Q) \o Cached("conversation", create)
                  IN  Cached("conversation", ensure) \o M
    BY DEF Inject
<1>4. A \subseteq Stmt
    BY SparingIs
<1>5. \A p \in Seq(A), t \in Four : Cached(t, p) \in Seq(A) /\ Known(t, p) \in Seq(A)
    BY <1>4, GuardSpares
<1>6. \A p \in Seq(A), q \in Seq(A) : p \o q \in Seq(A)
    BY JoinedAt
<1> HIDE DEF A, E, P, V, C, R, Q, M
<1> DEFINE create == Cached("session", E \o P \o V) \o C
           ensure == Cached("session", R) \o Known("session", Q) \o Cached("conversation", create)
<1>7. create \in Seq(A)
    BY <1>1, <1>5, <1>6 DEF Four
<1> HIDE DEF create
<1>8. ensure \in Seq(A)
    BY <1>2, <1>5, <1>6, <1>7 DEF Four
<1> HIDE DEF ensure
<1>9. Cached("conversation", ensure) \o M \in Seq(A)
    BY <1>1, <1>5, <1>6, <1>8 DEF Four
<1> QED
    BY <1>3, <1>9 DEF ensure, create, A

LEMMA LearnIsFirst ==
    ASSUME NEW m \in BOOLEAN, NEW D, Good(m, D), NEW facts, Unit(m, Learnings, facts)
    PROVE  EntityFirst(Learn(D, facts))
<1> DEFINE A == Sparing("entity_fact")
           B == Sparing("entity")
           w2 == D.entity \o D.process \o facts
           w4 == w2 \o D.fact_create.end \o D.graph_create.each
           w6 == w4 \o D.graph_create.end \o D.attribute.each
           w7 == w6 \o D.attribute.end
           w9 == w7 \o D.conversation.update \o <<Commit>>
<1>1. /\ D.entity \in Seq(A) /\ D.process \in Seq(A) /\ D.entity \in Seq(Stmt) /\ D.process \in Seq(Stmt)
    BY SparingIs, UnitSpares DEF Good, Four
<1>2. /\ facts \in Seq(B) /\ D.fact_create.end \in Seq(B) /\ D.graph_create.each \in Seq(B)
      /\ D.graph_create.end \in Seq(B) /\ D.attribute.each \in Seq(B) /\ D.attribute.end \in Seq(B)
      /\ D.conversation.update \in Seq(B) /\ <<Commit>> \in Seq(B)
    BY SparingIs, UnitSpares DEF Good
<1>3. A \subseteq Stmt /\ B \subseteq Stmt
    BY SparingIs
<1>4. \A p \in Seq(B) : p \in Seq(Stmt)
    BY <1>3
<1>5. ASSUME NEW p \in Seq(Stmt), EntityFirst(p), NEW q \in Seq(B)
      PROVE  p \o q \in Seq(Stmt) /\ EntityFirst(p \o q)
    BY <1>4, <1>5, FirstThen
<1>6. D.entity \o D.process \in Seq(Stmt) /\ EntityFirst(D.entity \o D.process)
    <2>1. D.entity \o D.process \in Seq(A)
        BY <1>1, JoinedAt
    <2> QED
        BY <2>1, SparesOne
<1> HIDE DEF A, B
<1>7. w2 \in Seq(Stmt) /\ EntityFirst(w2)
    BY <1>2, <1>5, <1>6
<1> HIDE DEF w2
<1>8. w4 \in Seq(Stmt) /\ EntityFirst(w4)
    BY <1>2, <1>5, <1>7
<1> HIDE DEF w4
<1>9. w6 \in Seq(Stmt) /\ EntityFirst(w6)
    BY <1>2, <1>5, <1>8
<1> HIDE DEF w6
<1>10. w7 \in Seq(Stmt) /\ EntityFirst(w7)
    BY <1>2, <1>5, <1>9
<1> HIDE DEF w7
<1>11. w9 \in Seq(Stmt) /\ EntityFirst(w9)
    BY <1>2, <1>5, <1>10
<1> HIDE DEF w9
<1>12. EntityFirst(Known("conversation", w9))
    BY <1>11, GuardSpares DEF Four
<1> QED
    BY <1>12 DEF Learn, w9, w7, w6, w4, w2

\* m: in MongoDB.
LEMMA ProgramsAreFirst ==
    ASSUME NEW d \in AllDialects, NEW j \in JobKinds
    PROVE  /\ EntityFirst(Programs(Driver[d])[j])
           /\ j = "turn" => Programs(Driver[d])[j] \in Seq(Sparing("entity_fact"))
<1> DEFINE m == d = "mongodb"
           D == Driver[d]
           p == Programs(D)[j]
<1>1. m \in BOOLEAN /\ Good(m, D)
    BY DriversAreGood
<1> SUFFICES EntityFirst(p) /\ (j = "turn" => p \in Seq(Sparing("entity_fact")))
    OBVIOUS
<1> HIDE DEF m, D
<1>2. /\ Programs(D)["turn"] = Turn(D) /\ Programs(D)["inject"] = Inject(D)
      /\ Programs(D)["learn"] = Learn(D, Fact(D, "f") \o Fact(D, "g"))
      /\ Programs(D)["learn2"] = Learn(D, Fact(D, "g") \o Fact(D, "f"))
      /\ Programs(D)["learn1"] = Learn(D, Fact(D, "f"))
      /\ Programs(D)["forget"] = Forget(D) /\ Programs(D)["recall"] = Recall(D)
      /\ Programs(D)["new_session"] = NewSession /\ Programs(D)["restore"] = Restore
    BY DEF Programs
<1>3. CASE j = "turn"
    BY <1>1, <1>2, <1>3, TurnSpares, SparesOne
<1>4. CASE j = "inject"
    BY <1>1, <1>2, <1>4, InjectSpares, SparesOne
<1>5. CASE j \in Learns
    <2>1. Unit(m, Learnings, Fact(D, "f")) /\ Unit(m, Learnings, Fact(D, "g"))
        BY <1>1, FactIs DEF Data
    <2>2. /\ Unit(m, Learnings, Fact(D, "f") \o Fact(D, "g"))
          /\ Unit(m, Learnings, Fact(D, "g") \o Fact(D, "f"))
        BY <1>1, <2>1, LearningKinds, UnitJoins
    <2> QED
        BY <1>1, <1>2, <1>5, <2>1, <2>2, LearnIsFirst DEF Learns
<1>6. /\ D.entity \in Seq(Stmt) /\ EntityFirst(D.entity)
      /\ D.graph_delete \in Seq(Sparing("entity")) /\ D.fact_delete \in Seq(Sparing("entity"))
      /\ D.fact_read \in Seq(Sparing("entity"))
      /\ D.graph_delete \in Seq(Stmt) /\ D.fact_delete \in Seq(Stmt) /\ D.fact_read \in Seq(Stmt)
    <2>1. D.entity \in Seq(Sparing("entity_fact"))
        BY <1>1, SparingIs, UnitSpares DEF Good, Four
    <2> QED
        BY <1>1, <2>1, SparingIs, UnitSpares, SparesOne DEF Good
<1>7. CASE j = "forget"
    <2>1. D.entity \o D.graph_delete \in Seq(Stmt) /\ EntityFirst(D.entity \o D.graph_delete)
        BY <1>6, FirstThen
    <2>2. EntityFirst(D.entity \o D.graph_delete \o D.fact_delete)
        BY <1>6, <2>1, FirstThen
    <2> QED
        BY <1>2, <1>7, <2>2 DEF Forget
<1>8. CASE j = "recall"
    BY <1>2, <1>6, <1>8, FirstThen DEF Recall
<1>9. CASE j \in {"new_session", "restore"}
    <2>1. ASSUME NEW kind \in {"new_session", "set_session"} PROVE EntityFirst(<<Statement(kind, "none")>>)
        <3>1. Len(<<Statement(kind, "none")>>) = 1 /\ <<Statement(kind, "none")>>[1].do = kind
            BY DEF Statement
        <3> HIDE DEF Statement
        <3> QED
            BY <3>1 DEF EntityFirst, Obtains
    <2> QED
        BY <1>2, <1>9, <2>1 DEF NewSession, Restore
<1> QED
    BY <1>3, <1>4, <1>5, <1>7, <1>8, <1>9 DEF JobKinds, Learns

-----------------------------------------------------------------------------
(* A mention is of the entity whose fact it mentions.                      *)
FactOf(i, e) == \A f \in Stored : f.table = "entity_fact" /\ f.id = i => f.cols["entity_id"] = e

\* Nothing but the Four is kept in Config.cache.
CacheIsFour == \A c \in Clients, t \in Tables \ Four : cache[c][t] = 0

LearningInv(c) ==
    Running(c) =>
        /\ FactOf(ids[c]["entity_fact"], ids[c]["entity"])
        /\ ids[c]["entity_fact"] # 0 => todo[c] \in Seq(Sparing("entity"))
        /\ EntityFirst(todo[c])
        /\ Job(c) = "turn" => ids[c]["entity_fact"] = 0 /\ todo[c] \in Seq(Sparing("entity_fact"))

MentionsAre ==
    \A r \in Stored : r.table = "entity_fact_mention" =>
        r.cols["fact_id"] # 0 /\ FactOf(r.cols["fact_id"], r.cols["entity_id"])

MentionInv == CacheIsFour /\ (~Mongo => MentionsAre /\ \A c \in Clients : LearningInv(c))

LEMMA NoFactIsZero ==
    ASSUME BaseInv
    PROVE  \A e : FactOf(0, e)
BY StoredAreRows DEF FactOf

LEMMA FactStays ==
    ASSUME NEW c \in Clients, BaseInv, GoneInv, Act(c) \/ Fail(c), NEW e,
           NEW i \in Nat, i <= last["entity_fact"], FactOf(i, e)
    PROVE  FactOf(i, e)'
<1> SUFFICES ASSUME NEW f \in Stored', f.table = "entity_fact", f.id = i PROVE f.cols["entity_id"] = e
    BY DEF FactOf
<1>1. CASE InsertRow(c) /\ f = Draft(c)
    <2>1. f.id = last[f.table] + 1 /\ last[f.table] \in Nat /\ f.table \in Tables
        BY <1>1, DraftIs DEF BaseInv, TypeInv
    <2> QED
        BY <2>1
<1>2. ASSUME NEW q \in Stored, Same(f, q) PROVE f.cols["entity_id"] = e
    BY <1>2 DEF Same, FactOf
<1> QED
    BY <1>1, <1>2, StoredGrows

LEMMA CacheIsFourStep ==
    ASSUME NEW c \in Clients, BaseInv, CacheIsFour, Act(c) \/ Fail(c)
    PROVE  CacheIsFour'
<1>1. /\ TypeInv /\ TodoInv /\ StoreInv /\ Frame(c)
      /\ cache \in [Clients -> [Tables -> Nat]]
    BY StepCounts DEF BaseInv, TypeInv
<1> SUFFICES ASSUME NEW d \in Clients, NEW t \in Tables \ Four PROVE cache'[d][t] = 0
    BY DEF CacheIsFour
<1>2. cache[d][t] = 0
    BY DEF CacheIsFour
<1>3. CASE d # c
    BY <1>1, <1>2, <1>3, OthersStay
<1>4. CASE d = c
    <2>1. CASE Begin(c) \/ RestartTransaction(c)
        BY <1>2, <2>1 DEF Begin, RestartTransaction
    <2>2. CASE Raises(c)
        BY <1>1, <1>2, <2>2, RaiseLeaves
    <2>3. CASE ChangeSession(c)
        <3>1. cache' = cache \/ cache' = [cache EXCEPT ![c] = NoIds]
            BY <2>3 DEF ChangeSession
        <3> QED
            BY <1>1, <1>2, <1>4, <3>1 DEF NoIds
    <2>4. CASE Doing(c) /\ ~ChangeSession(c)
        <3>1. CASE cache' = cache
            BY <1>2, <3>1
        <3>2. ASSUME NEW u \in Tables, NEW i \in Nat, Return(c, u, i) PROVE cache'[c][t] = 0
            <4>1. CASE u = t
                <5>1. cache' = cache
                    BY <3>2, <4>1 DEF Return, Four
                <5> QED
                    BY <1>2, <1>4, <5>1
            <4>2. CASE u # t
                BY <1>1, <1>2, <1>4, <3>2, <4>2, ReturnIs
            <4> QED
                BY <4>1, <4>2
        <3> QED
            BY <1>1, <1>4, <2>4, <3>1, <3>2, GivesAre
    <2> QED
        BY <2>1, <2>2, <2>3, <2>4, StepsAre
<1> QED
    BY <1>3, <1>4

\* Outside MongoDB only a lookup gives an id of another table than the conversation.
LEMMA LooksGive ==
    ASSUME NEW c \in Clients, BaseInv, ~Mongo, Doing(c)
    PROVE  \/ ids' = ids
           \/ \E t \in Tables, i \in Nat :
                 /\ Return(c, t, i)
                 /\ t = "conversation" \/ (LookUp(c) /\ t = Here(c).table /\ i \in FoundIds(c))
<1>1. TypeInv /\ TodoInv /\ StoreInv
    BY DEF BaseInv
<1>2. CASE LookUp(c)
    <2>1. PICK i \in FoundIds(c) : Return(c, Here(c).table, i)
        BY <1>2 DEF LookUp
    <2>2. Running(c) /\ Here(c).do \in {"look", "take"}
        BY <1>2 DEF LookUp, Ready
    <2>3. Here(c).table \in Tables
        BY <1>1, <2>2, HereIs DEF Proper, Ends
    <2>4. i \in Nat
        BY <1>1, <2>3, FoundAre
    <2> QED
        BY <1>2, <2>1, <2>3, <2>4
<1>3. CASE JudgeConversation(c)
    <2>1. ids' = ids \/ Return(c, "conversation", got[c])
        BY <1>3 DEF JudgeConversation, KeepIds
    <2>2. got[c] \in Nat /\ "conversation" \in Tables
        BY <1>1, TablesAre DEF TypeInv, Four
    <2> QED
        BY <2>1, <2>2
<1>4. CASE InsertRow(c) \/ WriteNothing(c)
    BY <1>4 DEF InsertRow, WriteNothing, KeepIds, Mongo
<1>5. CASE FindRow(c) \/ NoteIds(c) \/ ReadMessages(c) \/ ReadNoted(c) \/ ChangeSession(c)
    BY <1>5 DEF FindRow, NoteIds, ReadMessages, ReadNoted, KeepIds, ChangeSession
<1>6. CASE CountRow(c) \/ EraseRows(c) \/ CommitWork(c) \/ Decide(c)
    BY <1>6 DEF CountRow, EraseRows, CommitWork, Decide
<1> QED
    BY <1>2, <1>3, <1>4, <1>5, <1>6 DEF Doing

LEMMA FactIsOf ==
    ASSUME NEW c \in Clients, BaseInv, AlikeInv, Here(c).table = "entity_fact", NEW i \in FoundIds(c)
    PROVE  FactOf(i, ids[c]["entity"])
<1>1. TypeInv /\ StoreInv /\ "entity_fact" \in Tables
    BY TablesAre DEF BaseInv, Learned, Erasable
<1>2. CASE i = 0
    BY <1>2, NoFactIsZero
<1>3. CASE i # 0
    <2>1. PICK r \in Matches(c, "entity_fact") : r.id = i
        BY <1>1, <1>3, FoundAre
    <2>2. r \in View(c) /\ r.table = "entity_fact" /\ r.cols["entity_id"] = Value(c, "entity_fact", "entity_id")
        BY <2>1, NaturalKeysAre DEF Matches
    <2>3. r.cols["entity_id"] = ids[c]["entity"]
        BY <2>2, ValueIs, NamesAre
    <2>4. r \in Stored
        BY <1>1, <2>2, ViewIs, StoredHas, ConnectionIs DEF ViewOf, New
    <2> QED
        BY <2>1, <2>2, <2>3, <2>4 DEF FactOf, AlikeInv, SameRow
<1> QED
    BY <1>2, <1>3

-----------------------------------------------------------------------------
LEMMA LearningStays ==
    ASSUME NEW c \in Clients, BaseInv, GoneInv, Act(c) \/ Fail(c), NEW d \in Clients \ {c}, LearningInv(d)
    PROVE  LearningInv(d)'
<1>1. /\ TypeInv /\ Frame(c) /\ ids \in [Clients -> [Tables -> Nat]] /\ ids[d]["entity_fact"] <= last["entity_fact"]
      /\ "entity_fact" \in Tables /\ ids[d]["entity_fact"] \in Nat
    BY StepCounts, TablesAre DEF BaseInv, TypeInv, Learned, Erasable
<1>2. /\ ids'[d] = ids[d] /\ todo'[d] = todo[d] /\ Running(d)' = Running(d) /\ Job(d)' = Job(d)
    BY <1>1, OthersStay
<1>3. PICK i, e : i = ids[d]["entity_fact"] /\ e = ids[d]["entity"]
    OBVIOUS
<1>4. FactOf(i, e) => FactOf(i, e)'
    BY <1>1, <1>3, FactStays
<1>5. FactOf(i, e)' = FactOf(ids[d]["entity_fact"], ids[d]["entity"])'
    BY <1>2, <1>3
<1> QED
    BY <1>2, <1>3, <1>4, <1>5 DEF LearningInv

LEMMA LearningBegins ==
    ASSUME NEW c \in Clients, BaseInv, MentionInv, ~Mongo, Begin(c) \/ RestartTransaction(c)
    PROVE  LearningInv(c)'
<1>1. /\ TypeInv /\ TodoInv /\ Frame(c) /\ BaseInv' /\ ids \in [Clients -> [Tables -> Nat]]
      /\ "entity_fact" \in Tables \ Four
    <2>1. [Next]_vars
        BY DEF Next, Act, Fail
    <2> QED
        BY <2>1, StepCounts, NextBase, TablesAre DEF BaseInv, TypeInv, Learned, Erasable, Four, Act, Fail
<1>2. \A e : FactOf(0, e)'
    <2>1. \A r \in Stored' : r.table = "entity_fact" => r.id # 0
        <3> SUFFICES ASSUME NEW r \in Stored', r.table = "entity_fact" PROVE r.id # 0
            OBVIOUS
        <3>1. StoreInv'
            BY <1>1 DEF BaseInv
        <3>2. IsRow(r)'
            BY <3>1, StoredHas DEF StoreInv, New
        <3>3. r.id \in 1 .. last'[r.table]
            BY <3>2 DEF IsRow
        <3> QED
            BY <3>3
    <2> QED
        BY <2>1 DEF FactOf
<1>3. PICK j \in JobKinds : todo'[c] = Program(j) /\ Job(c)' = j
    <2>1. CASE Begin(c)
        BY <1>1, <2>1, BeginTypes
    <2>2. CASE RestartTransaction(c)
        BY <1>1, <2>2, RestartTypes DEF JobKinds
    <2> QED
        BY <2>1, <2>2
<1>4. EntityFirst(Program(j)) /\ (j = "turn" => Program(j) \in Seq(Sparing("entity_fact")))
    <2>1. dialect \in AllDialects
        BY <1>1, Assumed DEF TypeInv
    <2> QED
        BY <2>1, ProgramsAreFirst DEF Program
<1>5. ids'[c]["entity_fact"] = 0
    <2>1. CASE Begin(c)
        <3>1. ids'[c] = cache[c]
            BY <1>1, <2>1 DEF Begin
        <3> QED
            BY <1>1, <3>1 DEF MentionInv, CacheIsFour
    <2>2. CASE RestartTransaction(c)
        <3>1. ids' = ids /\ Running(c) /\ Job(c) = "turn"
            BY <1>1, <2>2, RestartTypes DEF RestartTransaction
        <3> QED
            BY <3>1 DEF MentionInv, LearningInv
    <2> QED
        BY <2>1, <2>2
<1>6. PICK e : e = ids'[c]["entity"]
    OBVIOUS
<1>7. FactOf(ids[c]["entity_fact"], ids[c]["entity"])'
    <2>1. FactOf(0, e)' = FactOf(ids[c]["entity_fact"], ids[c]["entity"])'
        BY <1>5, <1>6
    <2> QED
        BY <1>2, <2>1
<1> QED
    BY <1>3, <1>4, <1>5, <1>7 DEF LearningInv

LEMMA LearningGoes ==
    ASSUME NEW c \in Clients, BaseInv, GoneInv, AlikeInv, LearningInv(c), ~Mongo, Act(c), Doing(c), Running(c)'
    PROVE  LearningInv(c)'
<1> DEFINE T == "entity_fact"
<1>1. /\ TypeInv /\ TodoInv /\ StoreInv /\ ids \in [Clients -> [Tables -> Nat]]
      /\ T \in Tables /\ "entity" \in Tables /\ T # "entity" /\ T # "conversation"
      /\ \A t \in Tables : ids[c][t] \in Nat /\ ids[c][t] <= last[t]
    BY TablesAre DEF BaseInv, TypeInv, Learned, Erasable, Four
<1>2. PICK n : By(c, n)
    BY <1>1, DoingIs
<1>3. /\ n \in 1 .. Len(todo[c]) /\ todo'[c] = After(todo[c], n) /\ job' = job /\ play' = play /\ Running(c)
    BY <1>1, <1>2, GoesOn DEF By, Goes
<1>4. Job(c)' = Job(c) /\ todo[c] \in Seq(Stmt) /\ Here(c) = todo[c][1] /\ Len(todo[c]) >= 1 /\ Len(todo[c]) \in Nat
    BY <1>1, <1>3, HereIs DEF Job
<1>5. \A S : todo[c] \in Seq(S) => todo'[c] \in Seq(S)
    BY <1>3, AfterIs
<1>6. EntityFirst(todo[c]) => EntityFirst(todo'[c])
    <2>1. /\ Len(todo'[c]) = Len(todo[c]) - n
          /\ \A i \in 1 .. Len(todo[c]) - n : todo'[c][i] = todo[c][i + n]
        <3>1. /\ Len(After(todo[c], n)) = Len(todo[c]) - n
              /\ \A i \in 1 .. Len(todo[c]) - n : After(todo[c], n)[i] = todo[c][i + n]
            BY <1>3, <1>4, AfterIs
        <3> QED
            BY <1>3, <3>1
    <2>2. \A i \in 1 .. Len(todo'[c]) : i + n \in 1 .. Len(todo[c]) /\ todo'[c][i] = todo[c][i + n]
        BY <1>3, <1>4, <2>1
    <2>3. ASSUME EntityFirst(todo[c]), NEW i \in 1 .. Len(todo'[c]), NEW j \in 1 .. Len(todo'[c]), i <= j,
                 Obtains(T, todo'[c][i])
          PROVE  ~Obtains("entity", todo'[c][j])
        <3>1. i + n <= j + n /\ i + n \in 1 .. Len(todo[c]) /\ j + n \in 1 .. Len(todo[c])
            BY <1>3, <1>4, <2>1, <2>2, <2>3
        <3> QED
            BY <2>2, <2>3, <3>1 DEF EntityFirst
    <2> QED
        BY <2>3 DEF EntityFirst
<1>7. EntityFirst(todo[c]) /\ Obtains(T, Here(c)) => todo[c] \in Seq(Sparing("entity"))
    <2>1. ASSUME EntityFirst(todo[c]), Obtains(T, Here(c)), NEW i \in 1 .. Len(todo[c]) PROVE todo[c][i] \in Sparing("entity")
        <3>1. 1 \in 1 .. Len(todo[c]) /\ 1 <= i
            BY <1>4
        <3>2. ~Obtains("entity", todo[c][i])
            BY <1>4, <2>1, <3>1 DEF EntityFirst
        <3> QED
            BY <1>4, <3>2 DEF Sparing
    <2> QED
        BY <1>4, <2>1
<1>8. /\ FactOf(ids[c][T], ids[c]["entity"]) /\ EntityFirst(todo[c])
      /\ ids[c][T] # 0 => todo[c] \in Seq(Sparing("entity"))
      /\ Job(c) = "turn" => ids[c][T] = 0 /\ todo[c] \in Seq(Sparing(T))
    BY <1>3 DEF LearningInv
<1> SUFFICES /\ FactOf(ids[c][T], ids[c]["entity"])'
             /\ ids'[c][T] # 0 => todo[c] \in Seq(Sparing("entity"))
             /\ Job(c) = "turn" => ids'[c][T] = 0
    BY <1>4, <1>5, <1>6, <1>8 DEF LearningInv
<1>9. ASSUME NEW i \in Nat, NEW e, i <= last[T], FactOf(i, e), ids'[c][T] = i, ids'[c]["entity"] = e
      PROVE  FactOf(ids[c][T], ids[c]["entity"])'
    <2>1. FactOf(i, e)'
        BY <1>9, FactStays
    <2> QED
        BY <1>9, <2>1
<1>10. CASE ids'[c][T] = ids[c][T] /\ ids'[c]["entity"] = ids[c]["entity"]
    BY <1>1, <1>8, <1>9, <1>10
<1>11. ASSUME NEW t \in Tables, NEW i \in Nat, Return(c, t, i), t # T, t # "entity"
       PROVE  ids'[c][T] = ids[c][T] /\ ids'[c]["entity"] = ids[c]["entity"]
    BY <1>1, <1>11, ReturnIs
<1>12. ASSUME NEW t \in Tables, NEW i \in Nat, Return(c, t, i), LookUp(c), t = Here(c).table, i \in FoundIds(c), t = T
       PROVE  /\ FactOf(ids[c][T], ids[c]["entity"])'
              /\ ids'[c][T] # 0 => todo[c] \in Seq(Sparing("entity"))
              /\ Job(c) = "turn" => ids'[c][T] = 0
    <2>1. Obtains(T, Here(c))
        BY <1>12 DEF LookUp, Ready, Obtains
    <2>2. ids'[c][T] = i /\ ids'[c]["entity"] = ids[c]["entity"]
        BY <1>1, <1>12, ReturnIs
    <2>3. FactOf(i, ids[c]["entity"]) /\ i <= last[T]
        <3>1. FactOf(i, ids[c]["entity"])
            BY <1>12, FactIsOf
        <3>2. i \in 0 .. last[T] /\ last[T] \in Nat
            BY <1>1, <1>12, FoundAre DEF TypeInv
        <3> QED
            BY <3>1, <3>2
    <2>4. Job(c) # "turn"
        BY <1>4, <1>8, <2>1 DEF Sparing
    <2> QED
        BY <1>7, <1>8, <1>9, <2>1, <2>2, <2>3, <2>4
<1>13. ASSUME NEW t \in Tables, NEW i \in Nat, Return(c, t, i), LookUp(c), t = Here(c).table, t = "entity"
       PROVE  /\ FactOf(ids[c][T], ids[c]["entity"])'
              /\ ids'[c][T] # 0 => todo[c] \in Seq(Sparing("entity"))
              /\ Job(c) = "turn" => ids'[c][T] = 0
    <2>1. Obtains("entity", Here(c))
        BY <1>13 DEF LookUp, Ready, Obtains
    <2>2. ids[c][T] = 0
        BY <1>4, <1>8, <2>1 DEF Sparing
    <2>3. ids'[c][T] = 0
        BY <1>1, <1>13, <2>2, ReturnIs
    <2>4. PICK e : e = ids'[c]["entity"]
        OBVIOUS
    <2>5. FactOf(0, e) /\ 0 <= last[T]
        BY <1>1, NoFactIsZero DEF TypeInv
    <2> QED
        BY <1>9, <2>3, <2>4, <2>5
<1> QED
    BY <1>10, <1>11, <1>12, <1>13, LooksGive

LEMMA MentionsStep ==
    ASSUME NEW c \in Clients, BaseInv, GoneInv, MentionsAre, LearningInv(c), Act(c) \/ Fail(c)
    PROVE  MentionsAre'
<1>1. TypeInv /\ TodoInv /\ "entity_fact_mention" \in Tables /\ Columns["entity_fact_mention"] = {"entity_id", "fact_id", "conversation_id"}
      /\ "entity_fact" \in Tables
    BY TablesAre, ColumnsAre DEF BaseInv, Learned, Erasable
<1> SUFFICES ASSUME NEW r \in Stored', r.table = "entity_fact_mention"
             PROVE  r.cols["fact_id"] # 0 /\ FactOf(r.cols["fact_id"], r.cols["entity_id"])'
    BY DEF MentionsAre
<1>2. ASSUME NEW i \in Nat, NEW e, i <= last["entity_fact"], FactOf(i, e), r.cols["fact_id"] = i, r.cols["entity_id"] = e
      PROVE  FactOf(r.cols["fact_id"], r.cols["entity_id"])'
    BY <1>2, FactStays
<1>3. CASE InsertRow(c) /\ r = Draft(c)
    <2>1. /\ Running(c) /\ Here(c).do \in Adds /\ Here(c).table = "entity_fact_mention"
          /\ r.cols["fact_id"] = Value(c, "entity_fact_mention", "fact_id")
          /\ r.cols["entity_id"] = Value(c, "entity_fact_mention", "entity_id")
        <3>1. /\ Running(c) /\ Here(c).do \in Adds /\ r.table = Here(c).table
              /\ \A k \in Columns[Here(c).table] : r.cols[k] = Value(c, Here(c).table, k)
            BY <1>1, <1>3, DraftIs
        <3>2. Here(c).table = "entity_fact_mention"
            BY <3>1
        <3> QED
            BY <1>1, <3>1, <3>2
    <2>2. r.cols["fact_id"] = ids[c]["entity_fact"] /\ r.cols["entity_id"] = ids[c]["entity"]
        BY <2>1, ValueIs, NamesAre
    <2>3. Value(c, "entity_fact_mention", "fact_id") # 0
        BY <1>1, <1>3, <2>1 DEF InsertRow, LeftOut
    <2>4. FactOf(ids[c]["entity_fact"], ids[c]["entity"])
        BY <2>1 DEF LearningInv
    <2>5. ids[c]["entity_fact"] \in Nat /\ ids[c]["entity_fact"] <= last["entity_fact"]
        BY <1>1 DEF TypeInv
    <2> QED
        BY <1>2, <2>1, <2>2, <2>3, <2>4, <2>5
<1>4. ASSUME NEW q \in Stored, Same(r, q) PROVE r.cols["fact_id"] # 0 /\ FactOf(r.cols["fact_id"], r.cols["entity_id"])'
    <2>1. r.cols = q.cols /\ q.table = "entity_fact_mention"
        BY <1>4 DEF Same
    <2>2. q.cols["fact_id"] # 0 /\ FactOf(q.cols["fact_id"], q.cols["entity_id"])
        BY <2>1 DEF MentionsAre
    <2>3. q.cols["fact_id"] \in Nat /\ q.cols["fact_id"] <= last["entity_fact"]
        <3>1. IsRow(q) /\ "fact_id" \in Columns[q.table] \cap DOMAIN Names
            BY <1>1, <2>1, NamesAre, StoredAreRows
        <3>2. q.cols["fact_id"] \in 0 .. last["entity_fact"] /\ last["entity_fact"] \in Nat
            BY <1>1, <3>1, NamesAre DEF IsRow, TypeInv
        <3> QED
            BY <3>2
    <2> QED
        BY <1>2, <2>1, <2>2, <2>3
<1> QED
    BY <1>3, <1>4, StoredGrows

LEMMA MentionStep ==
    ASSUME NEW c \in Clients, BaseInv, GoneInv, AlikeInv, MentionInv, Act(c) \/ Fail(c)
    PROVE  MentionInv'
<1>1. TypeInv /\ TodoInv /\ StoreInv /\ Mongo' = Mongo
    BY StepCounts DEF BaseInv
<1>2. CacheIsFour'
    BY CacheIsFourStep DEF MentionInv
<1>3. ASSUME ~Mongo PROVE MentionsAre'
    BY <1>3, MentionsStep DEF MentionInv
<1>4. ASSUME ~Mongo, NEW d \in Clients PROVE LearningInv(d)'
    <2>1. LearningInv(d)
        BY <1>4 DEF MentionInv
    <2>2. CASE d # c
        BY <2>1, <2>2, LearningStays
    <2>3. CASE d = c /\ ~Running(c)'
        BY <2>3 DEF LearningInv
    <2>4. CASE d = c /\ Running(c)'
        <3>1. ~Raises(c)
            BY <1>1, <2>4, RaiseLeaves
        <3>2. CASE Begin(c) \/ RestartTransaction(c)
            BY <1>4, <2>4, <3>2, LearningBegins
        <3>3. CASE Doing(c)
            <4>1. Act(c)
                BY <3>3 DEF Doing, Act
            <4> QED
                BY <1>4, <2>1, <2>4, <3>3, <4>1, LearningGoes
        <3> QED
            BY <3>1, <3>2, <3>3, StepsAre
    <2> QED
        BY <2>2, <2>3, <2>4
<1> QED
    BY <1>1, <1>2, <1>3, <1>4 DEF MentionInv

-----------------------------------------------------------------------------
LEMMA EnforcedResolve ==
    ASSUME BaseInv, ResolveInv, MentionInv, EnforcesKeys,
           NEW r \in rows, NEW k \in Columns[r.table] \cap DOMAIN Names, r.cols[k] # 0
    PROVE  Has(rows, Names[k], r.cols[k])
<1>1. TypeInv /\ ~Mongo /\ r \in Stored /\ r.table \in Tables /\ Met(rows, rows)
    BY StoredHas, StoredAreRows DEF BaseInv, EnforcesKeys, Mongo, ResolveInv
<1>2. ASSUME NEW q \in rows, NEW j \in Checked(q.table), q.cols[j] # 0 PROVE Has(rows, Names[j], q.cols[j])
    <2>1. q.table \in Tables
        BY StoredHas, StoredAreRows
    <2>2. j \in schema[q.table].refs
        BY <1>1, <1>2, <2>1, RefsAre
    <2> QED
        BY <1>1, <1>2, <2>2 DEF Met
<1>3. CASE k \in Checked(r.table)
    BY <1>2, <1>3
<1>4. CASE r.table = "entity_fact_mention" /\ k = "entity_id"
    <2>1. r.cols["fact_id"] # 0 /\ FactOf(r.cols["fact_id"], r.cols["entity_id"])
        BY <1>1, <1>4 DEF MentionInv, MentionsAre
    <2>2. /\ "fact_id" \in Checked("entity_fact_mention") /\ "entity_id" \in Checked("entity_fact")
          /\ Names["fact_id"] = "entity_fact" /\ Names["entity_id"] = "entity"
        BY ColumnsAre, NamesAre DEF Checked
    <2>3. PICK f \in rows : f.table = "entity_fact" /\ f.id = r.cols["fact_id"]
        BY <1>2, <1>4, <2>1, <2>2 DEF Has
    <2>4. f.cols["entity_id"] = r.cols["entity_id"]
        BY <2>1, <2>3, StoredHas DEF FactOf
    <2> QED
        BY <1>2, <1>4, <2>2, <2>3, <2>4
<1> QED
    BY <1>3, <1>4 DEF Checked

-----------------------------------------------------------------------------
(* SQLite and MongoDB, while nobody forgets: a client knows what it writes. *)
Loose == dialect \in {"sqlite", "mongodb"} /\ \A c \in Clients : ~Forgets(c)

\* What n takes away it has put back, and a row never loses its name.
PutBack(n) == \A q \in Gone(n) : Has(New(n), q.table, q.id)

Reaches(S, T) == \A t, i : Has(S, t, i) => Has(T, t, i)

\* What the client has written, committed or not.
All(c) == rows \cup New(Main(c)) \cup New(<<c, "writer">>)

Found(c) == Running(c) /\ Here(c).do \in {"count_found", "add_absent", "return_recent"}

KnownInv(c) ==
    /\ Running(c) => \A t \in Tables : ids[c][t] # 0 => Has(All(c), t, ids[c][t])
    /\ Found(c) /\ got[c] # 0 => Has(All(c), Here(c).table, got[c])

\* The rows of S find in T what they refer to, enforced or not.
Refs(S, T) ==
    \A r \in S : \A k \in Columns[r.table] \cap DOMAIN Names : r.cols[k] # 0 => Has(T, Names[k], r.cols[k])

RefsInv == Refs(rows, rows) /\ \A n \in Connections : Refs(New(n), rows \cup New(n))

LooseInv ==
    Loose =>
        /\ \A n \in Connections : PutBack(n)
        /\ \A c \in Clients : ~aborted[Main(c)] => KnownInv(c)
        /\ (\A c \in Clients : ~aborted[Main(c)]) => RefsInv

LEMMA NobodyErases ==
    ASSUME NEW c \in Clients, BaseInv, Loose
    PROVE  ~EraseRows(c)
<1> SUFFICES ASSUME EraseRows(c) PROVE FALSE
    OBVIOUS
<1>1. Running(c) /\ Job(c) = "forget" /\ TypeInv
    BY EraseRowsIs DEF BaseInv
<1>2. job[c] \in 1 .. Len(play[c].jobs)
    BY <1>1 DEF BaseInv, TodoInv, Rest
<1>3. job[c] \in DOMAIN play[c].jobs
    <2>1. play[c].jobs \in Seq(JobKinds)
        BY <1>1, Assumed DEF TypeInv, Play
    <2> QED
        BY <1>2, <2>1
<1>4. Forgets(c)
    BY <1>1, <1>3 DEF Forgets, Played, Job
<1> QED
    BY <1>4 DEF Loose

\* Every row stays where it is seen, but those whose connection gives up its work.
Lasts(c) ==
    /\ Reaches(rows, rows')
    /\ Reaches(rows \cup New(Conn(c)), rows' \cup pend'[Conn(c)].new)

LEMMA ReachesIs ==
    /\ \A S, T : S \subseteq T => Reaches(S, T)
    /\ \A S, T, U : Reaches(S, T) /\ Reaches(T, U) => Reaches(S, U)
    /\ \A S, T, U : Reaches(S, U) /\ Reaches(T, U) => Reaches(S \cup T, U)
    /\ \A S, T, U, V : Reaches(S, T) /\ Reaches(U, V) => Reaches(S \cup U, T \cup V)
BY DEF Reaches, Has

LEMMA WriteLasts ==
    ASSUME NEW c \in Clients, TypeInv, StoreInv, \A n \in Connections : PutBack(n), NEW add, NEW remove, Write(c, add, remove),
           \A q \in remove : Has(add, q.table, q.id)
    PROVE  Lasts(c) /\ \A n \in Connections : \A q \in pend'[n].gone : Has(pend'[n].new, q.table, q.id)
<1>1. Conn(c) \in Connections
    BY ConnectionIs
<1>2. CASE Mongo
    <2>1. rows' = (rows \ remove) \cup add /\ pend' = pend
        BY <1>2, WriteIs
    <2>2. Reaches(rows, rows')
        BY <2>1 DEF Reaches, Has
    <2>3. Reaches(New(Conn(c)), pend'[Conn(c)].new)
        BY <2>1 DEF Reaches, New
    <2> QED
        BY <2>1, <2>2, <2>3, ReachesIs DEF Lasts, PutBack, New, Gone
<1>3. CASE ~Mongo
    <2>1. /\ rows' = rows
          /\ pend'[Conn(c)].new = (pend[Conn(c)].new \ remove) \cup add
          /\ pend'[Conn(c)].gone = pend[Conn(c)].gone \cup (remove \cap rows)
          /\ \A k \in Connections \ {Conn(c)} : pend'[k] = pend[k]
        BY <1>3, WriteIs
    <2>2. Reaches(New(Conn(c)), pend'[Conn(c)].new)
        BY <2>1 DEF Reaches, Has, New
    <2>3. Reaches(rows, rows')
        BY <2>1 DEF Reaches
    <2>4. \A q \in pend'[Conn(c)].gone : Has(pend'[Conn(c)].new, q.table, q.id)
        <3>1. \A q \in pend[Conn(c)].gone : Has(New(Conn(c)), q.table, q.id)
            BY <1>1 DEF PutBack, Gone
        <3>2. \A q \in pend[Conn(c)].gone : Has(pend'[Conn(c)].new, q.table, q.id)
            BY <2>2, <3>1 DEF Reaches
        <3>3. \A q \in remove : Has(pend'[Conn(c)].new, q.table, q.id)
            BY <2>1 DEF Has
        <3> QED
            BY <2>1, <3>2, <3>3
    <2>5. \A k \in Connections \ {Conn(c)} : \A q \in pend'[k].gone : Has(pend'[k].new, q.table, q.id)
        BY <2>1 DEF PutBack, New, Gone
    <2> QED
        BY <2>2, <2>3, <2>4, <2>5, ReachesIs DEF Lasts
<1> QED
    BY <1>2, <1>3

-----------------------------------------------------------------------------
Puts == \A n \in Connections : PutBack(n)

LEMMA CommitLasts ==
    ASSUME NEW c \in Clients, BaseInv, Puts, CommitWork(c)
    PROVE  Lasts(c) /\ Puts'
<1>1. TypeInv /\ Conn(c) \in Connections /\ View(c) = ViewOf(Conn(c)) /\ DOMAIN pend = Connections
    BY ConnectionIs, ViewIs, FunctionalIs DEF BaseInv
<1>2. rows' = (rows \ Gone(Conn(c))) \cup New(Conn(c)) /\ pend' = [pend EXCEPT ![Conn(c)] = NoWork]
    BY <1>1, CommitIs DEF ViewOf
<1>3. Reaches(rows, rows')
    <2>1. \A q \in Gone(Conn(c)) : Has(New(Conn(c)), q.table, q.id)
        BY <1>1 DEF Puts, PutBack
    <2>2. ASSUME NEW q \in rows PROVE Has(rows', q.table, q.id)
        BY <1>2, <2>1 DEF Has
    <2> QED
        BY <2>2 DEF Reaches, Has
<1>4. Reaches(New(Conn(c)), rows')
    BY <1>2 DEF Reaches, Has
<1>5. Lasts(c)
    <2>1. Reaches(rows \cup New(Conn(c)), rows')
        BY <1>3, <1>4, ReachesIs
    <2>2. rows' \subseteq rows' \cup pend'[Conn(c)].new
        OBVIOUS
    <2>3. Reaches(rows', rows' \cup pend'[Conn(c)].new)
        BY <2>2, ReachesIs
    <2> QED
        BY <1>3, <2>1, <2>3, ReachesIs DEF Lasts
<1>6. \A n \in Connections : pend'[n] = pend[n] \/ pend'[n].gone = {}
    BY <1>1, <1>2 DEF NoWork
<1>7. Puts'
    BY <1>6 DEF Puts, PutBack, New, Gone
<1> QED
    BY <1>5, <1>7

LEMMA StepLasts ==
    ASSUME NEW c \in Clients, BaseInv, Loose, Puts, Act(c) \/ Fail(c)
    PROVE  Reaches(rows, rows') /\ Puts' /\ (~Quiet(c) \/ pend' = pend => Lasts(c))
<1>1. TypeInv /\ TodoInv /\ StoreInv
    BY DEF BaseInv
<1>2. ASSUME Quiet(c) PROVE Reaches(rows, rows') /\ Puts' /\ (pend' = pend => Lasts(c))
    <2>1. rows' = rows /\ \A n \in Connections : pend'[n] = pend[n] \/ (pend'[n].new = {} /\ pend'[n].gone = {})
        BY <1>1, <1>2, ClearedTouches DEF Quiet
    <2>2. Puts'
        BY <2>1 DEF Puts, PutBack, New, Gone
    <2>3. Reaches(rows, rows')
        BY <2>1 DEF Reaches
    <2>4. pend' = pend => Reaches(rows \cup New(Conn(c)), rows' \cup pend'[Conn(c)].new)
        BY <2>1 DEF Reaches, New
    <2> QED
        BY <2>2, <2>3, <2>4 DEF Lasts
<1>3. ASSUME NEW add, NEW remove, Write(c, add, remove), \A q \in remove : Has(add, q.table, q.id)
      PROVE  Lasts(c) /\ Puts'
    <2>1. Lasts(c) /\ \A n \in Connections : \A q \in pend'[n].gone : Has(pend'[n].new, q.table, q.id)
        BY <1>1, <1>3, WriteLasts DEF Puts
    <2> QED
        BY <2>1 DEF Puts, PutBack, New, Gone
<1>4. CASE InsertRow(c)
    <2>1. PICK add, e : add = {Draft(c)} /\ e = {} /\ Write(c, add, e)
        BY <1>1, <1>4, DraftIs
    <2> QED
        BY <1>3, <2>1 DEF Lasts
<1>5. CASE CountRow(c)
    <2>1. PICK f, add : /\ Write(c, add, Counted(c)) /\ add = {f[r] : r \in Counted(c)}
                        /\ \A r \in Counted(c) : Same(f[r], r)
        BY <1>1, <1>5, CopiesAre
    <2>2. \A q \in Counted(c) : Has(add, q.table, q.id)
        BY <2>1 DEF Has, Same
    <2> QED
        BY <1>3, <2>1, <2>2 DEF Lasts
<1>6. CASE CommitWork(c)
    BY <1>6, CommitLasts DEF Lasts
<1> QED
    BY <1>2, <1>4, <1>5, <1>6, StepIsOne, NobodyErases

\* A statement that is done keeps what its connection sees.
LEMMA DoingLasts ==
    ASSUME NEW c \in Clients, BaseInv, Loose, Puts, Act(c), Doing(c)
    PROVE  Lasts(c)
<1>1. CASE Reading(c)
    <2>1. pend' = pend
        BY <1>1, ReadingIs
    <2> QED
        BY <2>1, StepLasts
<1>2. CASE ~Reading(c)
    <2>1. CASE Quiet(c) /\ pend' # pend
        <3>1. CASE InsertRow(c)
            <4>1. PICK add, e : add = {Draft(c)} /\ e = {} /\ Write(c, add, e)
                BY <3>1, DraftIs DEF BaseInv
            <4> QED
                BY <4>1, WriteLasts DEF BaseInv, Puts
        <3>2. CASE CountRow(c)
            <4>1. PICK f, add : /\ Write(c, add, Counted(c)) /\ add = {f[r] : r \in Counted(c)}
                                /\ \A r \in Counted(c) : Same(f[r], r)
                BY <3>2, CopiesAre DEF BaseInv
            <4>2. \A q \in Counted(c) : Has(add, q.table, q.id)
                BY <4>1 DEF Has, Same
            <4> QED
                BY <4>1, <4>2, WriteLasts DEF BaseInv, Puts
        <3> QED
            BY <1>2, <3>1, <3>2, DoingsAre, NobodyErases, CommitLasts
    <2>2. CASE ~Quiet(c) \/ pend' = pend
        BY <2>2, StepLasts
    <2> QED
        BY <2>1, <2>2
<1> QED
    BY <1>1, <1>2

\* All that a client knows of stays, whoever steps, if its main connection is not lost.
LEMMA AllStays ==
    ASSUME NEW c \in Clients, BaseInv, Loose, Puts, Act(c) \/ Fail(c), NEW d \in Clients,
           d # c \/ Begin(c) \/ Doing(c)
    PROVE  Reaches(All(d), rows' \cup pend'[Main(d)].new \cup pend'[<<d, "writer">>].new)
<1>1. Reaches(rows, rows') /\ Main(d) \in Connections /\ <<d, "writer">> \in Connections
    BY StepLasts, MainIs DEF Connections
<1> DEFINE m == Main(d)
           w == <<d, "writer">>
<1>2. CASE d # c
    <2>1. pend'[m] = pend[m] /\ pend'[w] = pend[w]
        <3>1. m # Conn(c) /\ w # Conn(c)
            BY <1>2, ConnectionIs DEF Main
        <3> QED
            BY <1>1, <3>1, StepIsOne
    <2>2. Reaches(New(m), pend'[m].new) /\ Reaches(New(w), pend'[w].new)
        BY <2>1 DEF Reaches, New
    <2>3. Reaches(rows \cup New(m), rows' \cup pend'[m].new)
        BY <1>1, <2>2, ReachesIs
    <2>4. Reaches(rows \cup New(m) \cup New(w), rows' \cup pend'[m].new \cup pend'[w].new)
        BY <2>2, <2>3, ReachesIs
    <2> QED
        BY <2>4 DEF All
<1>3. CASE d = c
    <2>1. Lasts(c)
        <3>1. Begin(c) => pend' = pend
            BY DEF Begin
        <3>2. Doing(c) => Act(c)
            BY DEF Doing, Act
        <3> QED
            BY <1>3, <3>1, <3>2, StepLasts, DoingLasts
    <2>2. \A n \in {m, w} : n = Conn(c) \/ pend'[n] = pend[n]
        BY <1>1, StepIsOne
    <2>3. \A n \in {m, w} : Reaches(New(n), rows' \cup pend'[n].new)
        <3>1. Reaches(New(Conn(c)), rows \cup New(Conn(c)))
            BY DEF Reaches, Has
        <3>2. Reaches(New(Conn(c)), rows' \cup pend'[Conn(c)].new)
            BY <2>1, <3>1, ReachesIs DEF Lasts
        <3>3. \A n : pend'[n] = pend[n] => Reaches(New(n), rows' \cup pend'[n].new)
            BY DEF Reaches, Has, New
        <3> QED
            BY <2>2, <3>2, <3>3
    <2> HIDE DEF m, w
    <2> DEFINE T == rows' \cup pend'[m].new \cup pend'[w].new
    <2>4. rows' \subseteq T /\ rows' \cup pend'[m].new \subseteq T /\ rows' \cup pend'[w].new \subseteq T
        OBVIOUS
    <2> HIDE DEF T
    <2>5. Reaches(rows, T) /\ Reaches(New(m), T) /\ Reaches(New(w), T)
        <3>1. Reaches(rows', T) /\ Reaches(rows' \cup pend'[m].new, T) /\ Reaches(rows' \cup pend'[w].new, T)
            BY <2>4, ReachesIs
        <3>2. Reaches(New(m), rows' \cup pend'[m].new) /\ Reaches(New(w), rows' \cup pend'[w].new)
            BY <2>3
        <3> QED
            BY <1>1, <3>1, <3>2 DEF Reaches
    <2>6. Reaches(rows \cup New(m) \cup New(w), T)
        BY <2>5, ReachesIs
    <2> QED
        BY <2>6 DEF T, m, w, All
<1> QED
    BY <1>2, <1>3

-----------------------------------------------------------------------------
LEMMA AbortedStays ==
    ASSUME NEW c \in Clients, BaseInv, NeverAborted, Act(c) \/ Fail(c), NEW d \in Clients, ~aborted'[Main(d)]
    PROVE  ~aborted[Main(d)]
<1>1. /\ TypeInv /\ TodoInv /\ StoreInv /\ Frame(c)
      /\ Main(d) \in Connections /\ aborted \in [Connections -> BOOLEAN]
    BY StepCounts, MainIs DEF BaseInv, TypeInv
<1>2. CASE RaisesAt(c)
    <2>1. PICK drops, lost : Raise(c, drops, lost)
        BY <1>2, RaisesAtIs DEF Raises
    <2>2. aborted' = [aborted EXCEPT ![Conn(c)] =
                         ~IsLearning(c) /\ dialect # "mongodb" /\ (lost \/ @ \/ dialect = "postgresql")]
        BY <2>1 DEF Raise
    <2>3. CASE Main(d) # Conn(c)
        <3>1. aborted'[Main(d)] = aborted[Main(d)]
            BY <1>1, <2>3, ShapesStay
        <3> QED
            BY <3>1, Zenon
    <2>4. CASE Main(d) = Conn(c)
        <3>1. ~IsLearning(c)
            BY <2>4, ConnectionIs DEF Main
        <3>2. aborted'[Main(d)] = (~IsLearning(c) /\ dialect # "mongodb" /\ (lost \/ aborted[Main(d)] \/ dialect = "postgresql"))
            BY <1>1, <2>2, <2>4, Zenon
        <3>3. dialect = "mongodb" => ~aborted[Main(d)]
            BY <1>1 DEF NeverAborted, Mongo
        <3> QED
            BY <3>1, <3>2, <3>3, Zenon
    <2> QED
        BY <2>3, <2>4
<1>3. CASE ~RaisesAt(c)
    <2>1. aborted' = aborted
        BY <1>1, <1>3, StepAborts
    <2> QED
        BY <2>1, Zenon
<1> QED
    BY <1>2, <1>3

LEMMA SeenIsKnown ==
    ASSUME NEW c \in Clients
    PROVE  /\ View(c) \subseteq All(c) /\ Base(c) \subseteq All(c)
           /\ All(c)' = rows' \cup pend'[Main(c)].new \cup pend'[<<c, "writer">>].new
BY ConnectionIs DEF View, Base, All, New, Main

LEMMA FoundIsKnown ==
    ASSUME NEW c \in Clients, BaseInv, Running(c), Here(c).table \in Tables, NEW i \in FoundIds(c), i # 0
    PROVE  Has(All(c), Here(c).table, i)
<1>1. PICK r \in Matches(c, Here(c).table) : r.id = i
    BY FoundAre DEF BaseInv
<1>2. r \in View(c) /\ r.table = Here(c).table
    BY DEF Matches
<1> QED
    BY <1>1, <1>2, SeenIsKnown DEF Has

\* What is counted, returned or not added is what was found right before.
LEMMA GotIsKnown ==
    ASSUME NEW c \in Clients, BaseInv, KnownInv(c), Act(c) \/ Fail(c), Found(c)', got'[c] # 0
    PROVE  Doing(c) /\ Has(All(c), Here(c)'.table, got'[c])
<1>1. /\ TypeInv /\ TodoInv /\ StoreInv /\ Frame(c) /\ Running(c)'
    BY StepCounts DEF BaseInv, Found
<1>2. Here(c)'.do \in Bound
    BY DEF Found, Bound, Follows
<1>3. ~RaisesAt(c)
    BY <1>1, RaisesAtIs, RaiseLeaves
<1>4. ~Begin(c)
    BY <1>1, <1>2, BeginTypes, ProgramStarts DEF Here
<1>5. ~RestartTransaction(c)
    BY <1>1, <1>2, RestartTypes, ProgramStarts DEF Here, JobKinds
<1>6. Doing(c)
    BY <1>3, <1>4, <1>5, RaisesAre
<1>7. PICK n : By(c, n)
    BY <1>1, <1>6, DoingIs
<1>8. /\ n = 1 /\ Here(c)' = todo[c][2] /\ Len(todo[c]) >= 2
      /\ TidyAt(Mongo, todo[c], 2) /\ Here(c) = todo[c][1] /\ Running(c)
    BY <1>1, <1>2, <1>7, NextFollows DEF By, Goes
<1>9. /\ Here(c).table = Here(c)'.table
      /\ Here(c).do = "find" \/ Here(c).do = "count_found"
    BY <1>2, <1>8 DEF TidyAt, Bound, Follows, Found
<1>10. Here(c).table \in Tables
    BY <1>1, <1>8, <1>9, HereIs DEF Proper, Ends
<1>11. CASE Here(c).do = "find"
    <2>1. PICK i \in FoundIds(c) : Step(c, 1, i, noted[c])
        BY <1>6, <1>11, FindRuns DEF FindRow
    <2>2. got' = [got EXCEPT ![c] = i]
        BY <1>8, <2>1 DEF Step
    <2>3. got'[c] = i
        BY <1>1, <2>2 DEF TypeInv
    <2> QED
        BY <1>6, <1>8, <1>9, <1>10, <2>3, FoundIsKnown
<1>12. CASE Here(c).do = "count_found"
    <2>1. got'[c] = got[c]
        BY <1>7, <1>8, <1>12 DEF By, GotBy
    <2>2. Has(All(c), Here(c).table, got[c])
        BY <1>8, <1>12, <2>1 DEF KnownInv, Found
    <2> QED
        BY <1>6, <1>9, <2>1, <2>2
<1> QED
    BY <1>9, <1>11, <1>12

LEMMA GivenIsKnown ==
    ASSUME NEW c \in Clients, BaseInv, Loose, Puts, KnownInv(c), Act(c), Doing(c),
           NEW t \in Tables, NEW i \in Nat, i # 0, Given(c, t, i)
    PROVE  Has(All(c)', t, i)
<1>1. TypeInv /\ TodoInv /\ StoreInv /\ Running(c)
    <2>1. PICK n : By(c, n)
        BY DoingIs DEF BaseInv
    <2> QED
        BY <2>1 DEF BaseInv, By, Goes
<1>2. Reaches(All(c), All(c)')
    BY AllStays, SeenIsKnown
<1>3. CASE LookUp(c) /\ t = Here(c).table /\ i \in FoundIds(c)
    BY <1>1, <1>2, <1>3, FoundIsKnown DEF Reaches
<1>4. CASE Here(c).do \in {"return_recent", "add_absent"} /\ t = Here(c).table /\ i = got[c]
    BY <1>1, <1>2, <1>4 DEF KnownInv, Found, Reaches
<1>5. CASE InsertRow(c) /\ t = Here(c).table /\ i = Draft(c).id
    <2>1. PICK e, s : e = {} /\ s = {Draft(c)} /\ Write(c, s, e)
        BY <1>5 DEF InsertRow
    <2>2. Draft(c) \in rows' \cup pend'[Conn(c)].new
        BY <1>1, <2>1, WriteIs
    <2>3. Draft(c) \in All(c)'
        BY <2>2, SeenIsKnown, ConnectionIs DEF Main
    <2>4. Draft(c).table = t
        BY <1>1, <1>5, DraftIs
    <2> QED
        BY <1>5, <2>3, <2>4 DEF Has
<1> QED
    BY <1>3, <1>4, <1>5 DEF Given

-----------------------------------------------------------------------------
LEMMA IdsAreKnown ==
    ASSUME NEW c \in Clients, BaseInv, CacheInv, CacheIsFour, Loose, Puts, ~aborted[Main(c)], KnownInv(c),
           Act(c) \/ Fail(c), Running(c)', NEW t \in Tables, ids'[c][t] # 0
    PROVE  Has(All(c)', t, ids'[c][t])
<1>1. TypeInv /\ TodoInv /\ StoreInv /\ Frame(c)
    BY StepCounts DEF BaseInv
<1>2. ~RaisesAt(c)
    BY <1>1, RaisesAtIs, RaiseLeaves
<1>3. ~RestartTransaction(c)
    BY DEF RestartTransaction, Loose
<1>4. CASE Begin(c)
    <2>1. Reaches(All(c), All(c)')
        BY <1>4, AllStays, SeenIsKnown
    <2>2. ids'[c] = cache[c]
        BY <1>1, <1>4 DEF Begin, TypeInv
    <2>3. t \in Four
        BY <2>2 DEF CacheIsFour
    <2>4. Firm(c)
        BY DEF Firm, Loose, Ignores
    <2>5. Has(Base(c), t, cache[c][t])
        BY <2>2, <2>3, <2>4 DEF CacheInv, HeldInv
    <2>6. Has(All(c), t, cache[c][t])
        BY <2>5, SeenIsKnown DEF Has
    <2> QED
        BY <2>1, <2>2, <2>6 DEF Reaches
<1>5. CASE Doing(c)
    <2>1. Act(c) /\ Running(c) /\ Reaches(All(c), All(c)')
        <3>1. PICK n : By(c, n)
            BY <1>1, <1>5, DoingIs
        <3>2. Act(c)
            BY <1>5 DEF Doing, Act
        <3> QED
            BY <1>5, <3>1, <3>2, AllStays, SeenIsKnown DEF By, Goes
    <2>2. ~ChangeSession(c)
        BY <1>1, <1>5, ChangesAre
    <2>3. CASE ids'[c][t] = ids[c][t]
        BY <2>1, <2>3 DEF KnownInv, Reaches
    <2>4. CASE ids'[c][t] # ids[c][t]
        <3>1. PICK u \in Tables, i \in Nat : Return(c, u, i) /\ Given(c, u, i)
            BY <1>1, <1>5, <2>2, <2>4, GivesAre
        <3>2. u = t /\ ids'[c][t] = i
            BY <1>1, <2>4, <3>1, ReturnIs
        <3> QED
            BY <1>5, <2>1, <3>1, <3>2, GivenIsKnown
    <2> QED
        BY <2>3, <2>4
<1> QED
    BY <1>2, <1>3, <1>4, <1>5, RaisesAre

LEMMA KnownStep ==
    ASSUME NEW c \in Clients, BaseInv, CacheInv, CacheIsFour, Loose, Puts, Act(c) \/ Fail(c),
           NEW d \in Clients, ~aborted[Main(d)], KnownInv(d)
    PROVE  KnownInv(d)'
<1>1. TypeInv /\ Frame(c)
    BY StepCounts DEF BaseInv
<1>2. CASE d # c
    <2>1. /\ ids'[d] = ids[d] /\ got'[d] = got[d] /\ Running(d)' = Running(d) /\ Here(d)' = Here(d)
        BY <1>1, <1>2, OthersStay
    <2>2. Found(d)' = Found(d)
        BY <2>1 DEF Found
    <2>3. Reaches(All(d), All(d)')
        BY <1>2, AllStays, SeenIsKnown
    <2>4. Running(d)' => \A t \in Tables : ids'[d][t] # 0 => Has(All(d)', t, ids'[d][t])
        BY <2>1, <2>3 DEF KnownInv, Reaches
    <2>5. Found(d)' /\ got'[d] # 0 => Has(All(d)', Here(d)'.table, got'[d])
        BY <2>1, <2>2, <2>3 DEF KnownInv, Reaches
    <2> QED
        BY <2>4, <2>5 DEF KnownInv
<1>3. CASE d = c
    <2>1. ASSUME Found(c)', got'[c] # 0 PROVE Has(All(c)', Here(c)'.table, got'[c])
        <3>1. Doing(c) /\ Has(All(c), Here(c)'.table, got'[c])
            BY <1>3, <2>1, GotIsKnown
        <3>2. Reaches(All(c), All(c)')
            BY <3>1, AllStays, SeenIsKnown
        <3> QED
            BY <3>1, <3>2 DEF Reaches
    <2>2. Running(c)' => \A t \in Tables : ids'[c][t] # 0 => Has(All(c)', t, ids'[c][t])
        BY <1>3, IdsAreKnown
    <2> QED
        BY <1>3, <2>1, <2>2 DEF KnownInv
<1> QED
    BY <1>2, <1>3

-----------------------------------------------------------------------------
LEMMA RefsAgain ==
    /\ \A S, T, U : Refs(S, T) /\ Reaches(T, U) => Refs(S, U)
    /\ \A S, T, U : Refs(S, U) /\ Refs(T, U) => Refs(S \cup T, U)
    /\ \A S, T, U : Refs(S, U) /\ T \subseteq S => Refs(T, U)
    /\ \A U : Refs({}, U)
BY DEF Refs, Reaches

\* A row that is inserted refers to what its connection sees.
LEMMA DraftRefers ==
    ASSUME NEW c \in Clients, BaseInv, SingleInv, Loose, KnownInv(c), InsertRow(c),
           NEW k \in Columns[Draft(c).table] \cap DOMAIN Names, Draft(c).cols[k] # 0
    PROVE  Has(rows \cup New(Conn(c)), Names[k], Draft(c).cols[k])
<1>1. /\ Running(c) /\ Draft(c).table = Here(c).table /\ Here(c).table \in Tables
      /\ Draft(c).cols[k] = Value(c, Here(c).table, k)
    BY DraftIs DEF BaseInv
<1>2. Draft(c).cols[k] = ids[c][Names[k]] /\ Names[k] \in Tables
    BY <1>1, ValueIs
<1>3. Has(All(c), Names[k], Draft(c).cols[k])
    BY <1>1, <1>2 DEF KnownInv
<1>4. \A n \in Connections \ {Conn(c)} : New(n) = {}
    <2>1. CASE dialect = "sqlite"
        BY <2>1, WritesAlone DEF Touched, New
    <2>2. CASE Mongo
        BY <2>2 DEF BaseInv, StoreInv, NoWork, New
    <2> QED
        BY <2>1, <2>2 DEF Loose, Mongo
<1>5. All(c) \subseteq rows \cup New(Conn(c))
    <2>1. Main(c) \in Connections /\ <<c, "writer">> \in Connections
        BY MainIs DEF Connections
    <2>2. \A n \in Connections : New(n) \subseteq New(Conn(c))
        BY <1>4
    <2> QED
        BY <2>1, <2>2 DEF All
<1> QED
    BY <1>3, <1>5 DEF Has

-----------------------------------------------------------------------------
LEMMA OwnRefs ==
    ASSUME NEW c \in Clients, BaseInv, SingleInv, Loose, KnownInv(c), RefsInv, Lasts(c), Act(c) \/ Fail(c)
    PROVE  Refs(rows' \cup pend'[Conn(c)].new, rows' \cup pend'[Conn(c)].new)
<1> DEFINE V == rows \cup New(Conn(c))
           W == rows' \cup pend'[Conn(c)].new
<1>1. Conn(c) \in Connections /\ Reaches(V, W)
    BY ConnectionIs DEF Lasts
<1>2. Refs(V, V)
    <2>1. Refs(rows, rows) /\ Refs(New(Conn(c)), V)
        BY <1>1 DEF RefsInv
    <2>2. rows \subseteq V
        OBVIOUS
    <2>3. Reaches(rows, V)
        BY <2>2, ReachesIs
    <2> HIDE DEF V
    <2>4. Refs(rows, V)
        BY <2>1, <2>3, RefsAgain
    <2>5. Refs(rows \cup New(Conn(c)), V)
        BY <2>1, <2>4, RefsAgain
    <2> QED
        BY <2>5 DEF V
<1>3. ASSUME NEW r \in W, NEW k \in Columns[r.table] \cap DOMAIN Names, r.cols[k] # 0
      PROVE  Has(W, Names[k], r.cols[k])
    <2>1. CASE InsertRow(c) /\ r = Draft(c)
        <3>1. Has(V, Names[k], r.cols[k])
            BY <1>3, <2>1, DraftRefers
        <3> QED
            BY <1>1, <3>1 DEF Reaches
    <2>2. CASE \E q \in V : Same(r, q)
        <3>1. PICK q \in V : q.table = r.table /\ q.cols = r.cols
            BY <2>2 DEF Same
        <3>2. Has(V, Names[k], r.cols[k])
            BY <1>2, <1>3, <3>1 DEF Refs
        <3> QED
            BY <1>1, <3>2 DEF Reaches
    <2>3. OwnGrows(c)
        BY StepGrows
    <2> QED
        BY <2>1, <2>2, <2>3 DEF OwnGrows, New
<1> QED
    BY <1>3 DEF Refs

LEMMA RefsStep ==
    ASSUME NEW c \in Clients, BaseInv, SingleInv, Loose, Puts, KnownInv(c), RefsInv, Act(c) \/ Fail(c)
    PROVE  RefsInv'
<1>1. TypeInv /\ Conn(c) \in Connections /\ Reaches(rows, rows')
    BY ConnectionIs, StepLasts DEF BaseInv
<1>2. SUFFICES Refs(rows', rows') /\ \A n \in Connections : Refs(pend'[n].new, rows' \cup pend'[n].new)
    BY DEF RefsInv, New
<1>3. ASSUME NEW n \in Connections, pend'[n] = pend[n] PROVE Refs(pend'[n].new, rows' \cup pend'[n].new)
    <2>1. Reaches(New(n), New(n))
        BY DEF Reaches
    <2>2. Reaches(rows \cup New(n), rows' \cup New(n))
        BY <1>1, <2>1, ReachesIs
    <2>3. Refs(New(n), rows \cup New(n))
        BY DEF RefsInv
    <2>4. Refs(New(n), rows' \cup New(n))
        BY <2>2, <2>3, RefsAgain
    <2> QED
        BY <1>3, <2>4 DEF New
<1>4. CASE Quiet(c)
    <2>1. rows' = rows /\ \A n \in Connections : pend'[n] = pend[n] \/ pend'[n].new = {}
        BY <1>1, <1>4, ClearedTouches DEF Quiet
    <2> QED
        BY <1>3, <2>1, RefsAgain DEF RefsInv
<1>5. CASE ~Quiet(c)
    <2> DEFINE W == rows' \cup pend'[Conn(c)].new
    <2>1. Refs(W, W) /\ Lasts(c)
        BY <1>5, OwnRefs, StepLasts
    <2>2. pend'[Conn(c)].new \subseteq W /\ \A n \in Connections \ {Conn(c)} : pend'[n] = pend[n]
        BY StepIsOne
    <2>3. Refs(pend'[Conn(c)].new, W)
        BY <2>1, <2>2, RefsAgain
    <2>4. \A n \in Connections : Refs(pend'[n].new, rows' \cup pend'[n].new)
        BY <1>3, <2>2, <2>3
    <2>5. rows' = rows \/ W = rows'
        <3>1. CASE CommitWork(c)
            <4>1. pend' = [pend EXCEPT ![Conn(c)] = NoWork]
                BY <3>1 DEF CommitWork
            <4>2. pend'[Conn(c)].new = {}
                BY <1>1, <4>1 DEF TypeInv, NoWork
            <4> QED
                BY <4>2
        <3>2. CASE InsertRow(c) \/ CountRow(c)
            <4>1. PICK add, remove : Write(c, add, remove)
                BY <3>2, WritingIs
            <4>2. Mongo => pend'[Conn(c)].new = {}
                BY <1>1, <4>1, WriteIs DEF BaseInv, StoreInv, NoWork
            <4>3. ~Mongo => rows' = rows
                BY <1>1, <4>1, WriteIs
            <4> QED
                BY <4>2, <4>3
        <3> QED
            BY <1>5, <3>1, <3>2, StepIsOne, NobodyErases
    <2>6. Refs(rows', rows')
        BY <2>1, <2>5 DEF RefsInv
    <2> QED
        BY <2>4, <2>6
<1> QED
    BY <1>4, <1>5

-----------------------------------------------------------------------------
RowInv == LockInv /\ UniqueInv /\ KeepRefInv /\ ResolveInv /\ MentionInv /\ LooseInv

LEMMA LooseStep ==
    ASSUME NEW c \in Clients, BaseInv, CacheInv, CacheIsFour, LooseInv, Act(c) \/ Fail(c)
    PROVE  LooseInv'
<1>1. dialect' = dialect /\ play' = play
    BY StepCounts DEF Frame
<1> SUFFICES ASSUME Loose
             PROVE  /\ Puts'
                    /\ \A d \in Clients : ~aborted'[Main(d)] => KnownInv(d)'
                    /\ (\A d \in Clients : ~aborted'[Main(d)]) => RefsInv'
    BY <1>1 DEF LooseInv, Loose, Forgets, Played, Puts, Main
<1>2. /\ Puts /\ SingleInv /\ NeverAborted
      /\ \A d \in Clients : ~aborted[Main(d)] => KnownInv(d)
      /\ (\A d \in Clients : ~aborted[Main(d)]) => RefsInv
    BY DEF LooseInv, Puts, CacheInv
<1>3. \A d \in Clients : ~aborted'[Main(d)] => ~aborted[Main(d)]
    BY <1>2, AbortedStays
<1>4. ASSUME NEW d \in Clients, ~aborted'[Main(d)] PROVE KnownInv(d)'
    BY <1>2, <1>3, <1>4, KnownStep
<1>5. ASSUME \A d \in Clients : ~aborted'[Main(d)] PROVE RefsInv'
    <2>1. \A d \in Clients : ~aborted[Main(d)]
        BY <1>3, <1>5
    <2> QED
        BY <1>2, <2>1, RefsStep
<1> QED
    BY <1>2, <1>4, <1>5, StepLasts

LEMMA RowNext ==
    ASSUME BaseInv, CacheInv, SessionInv, RowInv, NEW c \in Clients, Act(c) \/ Fail(c)
    PROVE  RowInv'
<1>1. GoneInv /\ AlikeInv /\ CacheIsFour
    BY DEF CacheInv, SessionInv, RowInv, MentionInv
<1>2. LockInv' /\ UniqueInv'
    BY LockStep, UniqueStep DEF RowInv
<1>3. KeepRefInv' /\ ResolveInv'
    BY KeepRefStep, ResolveStep DEF RowInv
<1>4. MentionInv' /\ LooseInv'
    BY <1>1, MentionStep, LooseStep DEF RowInv
<1> QED
    BY <1>2, <1>3, <1>4 DEF RowInv

LEMMA RowInit ==
    ASSUME Init
    PROVE  RowInv
<1>1. /\ rows = {} /\ pend = [n \in Connections |-> NoWork] /\ cache = [c \in Clients |-> NoIds]
      /\ \A c \in Clients : todo[c] = <<>>
    BY DEF Init
<1>2. \A n \in Connections : New(n) = {} /\ Gone(n) = {} /\ Touched(n) = {} /\ ViewOf(n) = {}
    BY <1>1 DEF New, Gone, Touched, ViewOf, NoWork
<1>3. LockInv /\ UniqueInv /\ KeepRefInv
    BY <1>1, <1>2 DEF LockInv, UniqueInv, KeepRefInv, Single
<1>4. ResolveInv
    BY <1>1, <1>2 DEF ResolveInv, Met
<1>5. Stored = {}
    BY <1>1, <1>2 DEF Stored
<1>6. MentionInv
    <2>1. CacheIsFour
        BY <1>1 DEF CacheIsFour, NoIds
    <2>2. MentionsAre /\ \A c \in Clients : LearningInv(c)
        BY <1>1, <1>5 DEF MentionsAre, LearningInv, Running
    <2> QED
        BY <2>1, <2>2 DEF MentionInv
<1>7. LooseInv
    <2>1. \A n \in Connections : PutBack(n)
        BY <1>2 DEF PutBack
    <2>2. \A c \in Clients : KnownInv(c)
        BY <1>1 DEF KnownInv, Running, Found
    <2>3. RefsInv
        BY <1>1, <1>2 DEF RefsInv, Refs
    <2> QED
        BY <2>1, <2>2, <2>3 DEF LooseInv
<1> QED
    BY <1>3, <1>4, <1>6, <1>7 DEF RowInv

LEMMA RowStands ==
    ASSUME RowInv, UNCHANGED vars
    PROVE  RowInv'
<1>1. LockInv' /\ UniqueInv'
    BY DEF RowInv, LockInv, UniqueInv, Touched, SameKey, Single, ViewOf, New, Gone, Connections, vars
<1>2. KeepRefInv'
    BY DEF RowInv, KeepRefInv, RefersTo, New, Gone, Connections, vars
<1>3. ResolveInv'
    BY DEF RowInv, ResolveInv, Met, ViewOf, New, Gone, Connections, vars
<1>4. MentionInv'
    BY DEF RowInv, MentionInv, CacheIsFour, MentionsAre, LearningInv, FactOf, Stored, New, Mongo, Running, Job,
           Connections, vars
<1>5. LooseInv'
    BY DEF RowInv, LooseInv, Loose, Forgets, Played, PutBack, KnownInv, RefsInv, All, Found, Running, Here, New, Gone,
           Main, Connections, vars
<1> QED
    BY <1>1, <1>2, <1>3, <1>4, <1>5 DEF RowInv

LEMMA SoundRows ==
    ASSUME BaseInv, MessageInv, RowInv
    PROVE  RowsAreSound
<1>1. TypeOK /\ OneRowPerName
    BY StateIsTyped, RowsAreSingle DEF RowInv
<1>2. ReferencesResolve
    <2>1. CASE EnforcesKeys
        BY <2>1, EnforcedResolve DEF RowInv, ReferencesResolve
    <2>2. CASE ~EnforcesKeys /\ \A c \in Clients : ~Forgets(c) /\ ~aborted[<<c, "main">>]
        <3>1. RefsInv
            BY <2>2 DEF RowInv, LooseInv, Loose, EnforcesKeys, Main
        <3> QED
            BY <3>1 DEF RefsInv, Refs, ReferencesResolve
    <2> QED
        BY <2>1, <2>2 DEF ReferencesResolve
<1> QED
    BY <1>1, <1>2 DEF RowsAreSound

LEMMA RowHolds == Spec => []RowInv
<1>1. Init => RowInv
    BY RowInit
<1>2. BaseInv /\ CacheInv /\ SessionInv /\ RowInv /\ [Next]_vars => RowInv'
    BY RowNext, RowStands DEF Next
<1> QED
    BY <1>1, <1>2, BaseHolds, CacheHolds, SessionHolds, PTL DEF Spec

\* The state is well formed, no two rows have the same natural key, and no row
\* refers to one that is gone: for the dialects that enforce foreign keys
\* whoever forgets, and for SQLite and MongoDB while nobody does and no main
\* connection was lost, for any number of clients, jobs and faults.
THEOREM RowsStaySound == Spec => []RowsAreSound
<1>1. BaseInv /\ MessageInv /\ RowInv => RowsAreSound
    BY SoundRows
<1> QED
    BY <1>1, RowHolds, BaseHolds, MessagesHold, PTL

-----------------------------------------------------------------------------
(* Forgetting: what the deletions of a driver are made of. *)
Wiped == {"entity_fact", "knowledge_graph"}
OfEntity == Wiped \cup {"entity_fact_mention"}

Wipes(t, x) == x.do = "erase" /\ x.table = t

Deletions(d) ==
    {x \in Forgettings :
        /\ x.do = "erase" => x.table \in OfEntity
        /\ x.do \in Erases \ {"erase"} => x.table \in Graph
        /\ x.do = "erase_noted" => d \in {"postgresql", "oracle"}
        /\ x.do = "erase_unused" => d = "mongodb"}

\* Of s, which looks up the entity in the first k statements, what deletes stands behind.
Forgetting(d, s, k) ==
    /\ k \in 0 .. Len(s)
    /\ \A i \in 1 .. Len(s) : i > k => s[i] \in Deletions(d)
    /\ \A i \in 1 .. k : s[i] \in Makings("entity")
    /\ k > 0 => /\ Gives(d = "mongodb", "entity", s[k])
                /\ \A t \in Wiped : \E i \in 1 .. Len(s) : i > k /\ Wipes(t, s[i])
    /\ d # "mongodb" => s[Len(s)].do = "commit"

LEMMA DeletionsAre ==
    ASSUME NEW d \in AllDialects
    PROVE  /\ \A t \in OfEntity : Erase(t) \in Deletions(d) /\ Wipes(t, Erase(t))
           /\ \A t \in Graph : /\ EraseOrphans(t) \in Deletions(d)
                               /\ d = "mongodb" => EraseUnused(t) \in Deletions(d)
                               /\ NoteOrphans(t) \in Deletions(d) /\ NoteUsed(t) \in Deletions(d)
                               /\ d \in {"postgresql", "oracle"} => EraseNoted(t) \in Deletions(d)
           /\ Commit \in Deletions(d) /\ Commit.do = "commit"
<1>1. ASSUME NEW t \in Erasable, NEW kind \in Erases \cup Notes PROVE Statement(kind, t) \in Forgettings
    <2>1. Proper(Statement(kind, t)) /\ kind \in Kinds /\ t \in Tables
        BY TablesAre DEF Proper, Statement, Ends, Reads, Notes, Erases, Kinds, Learned, Erasable, Graph
    <2> QED
        BY <2>1, StatementFits DEF Forgettings, Statement
<1>2. Commit \in Forgettings
    <2>1. Proper(Statement("commit", "none")) /\ "commit" \in Kinds
        BY DEF Proper, Statement, Ends, Reads, Notes, Erases, Kinds
    <2> QED
        BY <2>1, StatementFits DEF Forgettings, Commit, Statement
<1>3. \A kind, t : Statement(kind, t).do = kind /\ Statement(kind, t).table = t
    BY DEF Statement
<1>4. OfEntity \subseteq Erasable /\ Graph \subseteq Erasable
    BY DEF OfEntity, Wiped, Erasable
<1>5. /\ "erase" \in Erases /\ "erase_orphans" \in Erases /\ "erase_unused" \in Erases /\ "erase_noted" \in Erases
      /\ "note_orphans" \in Notes /\ "note_used" \in Notes /\ Notes \cap Erases = {} /\ "commit" \notin Erases
    BY DEF Erases, Notes
<1>6. \A t \in OfEntity : Erase(t) \in Deletions(d) /\ Wipes(t, Erase(t))
    BY <1>1, <1>3, <1>4, <1>5 DEF Deletions, Erase, Wipes
<1>7. ASSUME NEW t \in Graph
      PROVE  /\ EraseOrphans(t) \in Deletions(d) /\ (d = "mongodb" => EraseUnused(t) \in Deletions(d))
             /\ NoteOrphans(t) \in Deletions(d) /\ NoteUsed(t) \in Deletions(d)
             /\ d \in {"postgresql", "oracle"} => EraseNoted(t) \in Deletions(d)
    <2>1. EraseOrphans(t) \in Deletions(d) /\ (d = "mongodb" => EraseUnused(t) \in Deletions(d))
        BY <1>1, <1>3, <1>4, <1>5 DEF Deletions, EraseOrphans, EraseUnused
    <2>2. NoteOrphans(t) \in Deletions(d) /\ NoteUsed(t) \in Deletions(d)
        BY <1>1, <1>3, <1>4, <1>5 DEF Deletions, NoteOrphans, NoteUsed
    <2>3. d \in {"postgresql", "oracle"} => EraseNoted(t) \in Deletions(d)
        BY <1>1, <1>3, <1>4, <1>5 DEF Deletions, EraseNoted
    <2> QED
        BY <2>1, <2>2, <2>3
<1>8. Commit.do = "commit"
    BY <1>3 DEF Commit
<1>9. Commit \in Deletions(d)
    BY <1>2, <1>5, <1>8 DEF Deletions
<1> QED
    BY <1>6, <1>7, <1>8, <1>9

Deleting(d, t, s) == s \in Seq(Deletions(d)) /\ \E i \in 1 .. Len(s) : Wipes(t, s[i])

LEMMA DriversDelete ==
    ASSUME NEW d \in AllDialects
    PROVE  /\ Deleting(d, "knowledge_graph", Driver[d].graph_delete)
           /\ Deleting(d, "entity_fact", Driver[d].fact_delete)
           /\ d # "mongodb" => Driver[d].fact_delete[Len(Driver[d].fact_delete)].do = "commit"
<1>1. /\ Driver["sqlite"] = SqliteDriver /\ Driver["postgresql"] = PostgresqlDriver
      /\ Driver["mysql"] = MysqlDriver /\ Driver["tidb"] = MysqlDriver
      /\ Driver["oceanbase"] = OceanbaseDriver /\ Driver["oracle"] = OracleDriver
      /\ Driver["mongodb"] = MongodbDriver
    BY DEF Driver
<1>2. /\ SqliteDriver.fact_delete = SqliteFactDelete /\ PostgresqlDriver.fact_delete = PostgresqlFactDelete
      /\ MysqlDriver.fact_delete = MysqlFactDelete /\ OceanbaseDriver.fact_delete = MysqlFactDelete
      /\ OracleDriver.fact_delete = OracleFactDelete /\ MongodbDriver.fact_delete = MongodbFactDelete
    BY DEF SqliteDriver, PostgresqlDriver, MysqlDriver, OceanbaseDriver, OracleDriver, MongodbDriver
<1>3. /\ SqliteDriver.graph_delete = SqliteGraphDelete /\ PostgresqlDriver.graph_delete = PostgresqlGraphDelete
      /\ MysqlDriver.graph_delete = MysqlGraphDelete /\ OceanbaseDriver.graph_delete = MysqlGraphDelete
      /\ OracleDriver.graph_delete = OracleGraphDelete /\ MongodbDriver.graph_delete = MongodbGraphDelete
    BY DEF SqliteDriver, PostgresqlDriver, MysqlDriver, OceanbaseDriver, OracleDriver, MongodbDriver
<1> DEFINE P == Deletions(d)
<1>4. /\ Erase("knowledge_graph") \in P /\ Erase("entity_fact") \in P /\ Erase("entity_fact_mention") \in P
      /\ Wipes("knowledge_graph", Erase("knowledge_graph")) /\ Wipes("entity_fact", Erase("entity_fact"))
      /\ EraseOrphans("subject") \in P /\ EraseOrphans("predicate") \in P /\ EraseOrphans("object") \in P
      /\ NoteOrphans("subject") \in P /\ NoteOrphans("predicate") \in P /\ NoteOrphans("object") \in P
      /\ NoteUsed("subject") \in P /\ NoteUsed("predicate") \in P /\ NoteUsed("object") \in P
      /\ Commit \in P /\ Commit.do = "commit"
    <2>1. "knowledge_graph" \in OfEntity /\ "entity_fact" \in OfEntity /\ "entity_fact_mention" \in OfEntity
        BY DEF OfEntity, Wiped
    <2>2. "subject" \in Graph /\ "predicate" \in Graph /\ "object" \in Graph
        BY DEF Graph
    <2> QED
        BY <2>1, <2>2, DeletionsAre
<1>5. d \in {"postgresql", "oracle"} =>
          EraseNoted("subject") \in P /\ EraseNoted("predicate") \in P /\ EraseNoted("object") \in P
    BY DeletionsAre DEF Graph
<1>16. d = "mongodb" =>
          EraseUnused("subject") \in P /\ EraseUnused("predicate") \in P /\ EraseUnused("object") \in P
    BY DeletionsAre DEF Graph
<1> HIDE DEF P
<1>6. /\ \A t, s : Deleting(d, t, s) <=> s \in Seq(P) /\ \E i \in 1 .. Len(s) : Wipes(t, s[i])
    BY DEF Deleting, P
<1>7. <<Erase("entity_fact"), Commit>> \in Seq(P) /\ Deleting(d, "entity_fact", <<Erase("entity_fact"), Commit>>)
    <2> DEFINE s == <<Erase("entity_fact"), Commit>>
    <2>1. s \in Seq(P) /\ 1 \in 1 .. Len(s) /\ s[1] = Erase("entity_fact")
        BY <1>4
    <2> QED
        BY <1>4, <1>6, <2>1
<1>8. Deleting(d, "entity_fact", MongodbFactDelete)
    <2> DEFINE s == <<Erase("entity_fact_mention"), Erase("entity_fact")>>
    <2>1. s \in Seq(P) /\ 2 \in 1 .. Len(s) /\ s[2] = Erase("entity_fact") /\ s = MongodbFactDelete
        BY <1>4 DEF MongodbFactDelete
    <2> HIDE DEF s
    <2> QED
        BY <1>4, <1>6, <2>1
<1>9. /\ SqliteFactDelete = <<Erase("entity_fact"), Commit>> /\ PostgresqlFactDelete = <<Erase("entity_fact"), Commit>>
      /\ MysqlFactDelete = <<Erase("entity_fact"), Commit>> /\ OracleFactDelete = <<Erase("entity_fact"), Commit>>
    BY DEF SqliteFactDelete, PostgresqlFactDelete, MysqlFactDelete, OracleFactDelete
<1>10. Deleting(d, "entity_fact", Driver[d].fact_delete)
    BY <1>1, <1>2, <1>7, <1>8, <1>9 DEF AllDialects
<1>11. d # "mongodb" => Driver[d].fact_delete[Len(Driver[d].fact_delete)].do = "commit"
    <2> DEFINE s == <<Erase("entity_fact"), Commit>>
    <2>1. Len(s) = 2 /\ s[2] = Commit
        OBVIOUS
    <2>2. d # "mongodb" => Driver[d].fact_delete = s
        BY <1>1, <1>2, <1>9 DEF AllDialects
    <2> HIDE DEF s
    <2> QED
        BY <1>4, <2>1, <2>2
<1>12. ASSUME NEW s, s \in Seq(P), 1 \in 1 .. Len(s), s[1] = Erase("knowledge_graph")
       PROVE  Deleting(d, "knowledge_graph", s)
    BY <1>4, <1>6, <1>12
<1>13. Deleting(d, "knowledge_graph", SqliteGraphDelete)
    <2> DEFINE s == SqliteGraphDelete
    <2>1. s \in Seq(P) /\ 1 \in 1 .. Len(s) /\ s[1] = Erase("knowledge_graph")
        BY <1>4 DEF SqliteGraphDelete
    <2> HIDE DEF s
    <2>2. Deleting(d, "knowledge_graph", s)
        BY <1>12, <2>1
    <2> QED
        BY <2>2 DEF s
<1>14. Deleting(d, "knowledge_graph", MysqlGraphDelete)
    BY <1>13 DEF SqliteGraphDelete, MysqlGraphDelete
<1>17. d = "mongodb" => Deleting(d, "knowledge_graph", MongodbGraphDelete)
    <2> SUFFICES ASSUME d = "mongodb" PROVE Deleting(d, "knowledge_graph", MongodbGraphDelete)
        OBVIOUS
    <2> DEFINE s == MongodbGraphDelete
    <2>1. s \in Seq(P) /\ 1 \in 1 .. Len(s) /\ s[1] = Erase("knowledge_graph")
        BY <1>4, <1>16 DEF MongodbGraphDelete
    <2> HIDE DEF s
    <2>2. Deleting(d, "knowledge_graph", s)
        BY <1>12, <2>1
    <2> QED
        BY <2>2 DEF s
<1>18. d \in {"postgresql", "oracle"} => Deleting(d, "knowledge_graph", PostgresqlGraphDelete)
    <2> SUFFICES ASSUME d \in {"postgresql", "oracle"} PROVE Deleting(d, "knowledge_graph", PostgresqlGraphDelete)
        OBVIOUS
    <2> DEFINE s == PostgresqlGraphDelete
    <2>1. s \in Seq(P) /\ 1 \in 1 .. Len(s) /\ s[1] = Erase("knowledge_graph")
        BY <1>4, <1>5 DEF PostgresqlGraphDelete
    <2> HIDE DEF s
    <2>2. Deleting(d, "knowledge_graph", s)
        BY <1>12, <2>1
    <2> QED
        BY <2>2 DEF s
<1>19. d \in {"postgresql", "oracle"} => Deleting(d, "knowledge_graph", OracleGraphDelete)
    BY <1>18 DEF PostgresqlGraphDelete, OracleGraphDelete
<1>15. Deleting(d, "knowledge_graph", Driver[d].graph_delete)
    BY <1>1, <1>3, <1>13, <1>14, <1>17, <1>18, <1>19 DEF AllDialects
<1> QED
    BY <1>10, <1>11, <1>15

LEMMA DriversGive ==
    ASSUME NEW d \in AllDialects
    PROVE  /\ Len(Driver[d].entity) > 0 /\ Driver[d].entity \in Seq(Makings("entity"))
           /\ Gives(d = "mongodb", "entity", Driver[d].entity[Len(Driver[d].entity)])
<1>1. Driver[d].entity \in Seq(Makings("entity"))
    BY DriversAreGood DEF Good, Unit
<1>2. /\ Driver["sqlite"] = SqliteDriver /\ Driver["postgresql"] = PostgresqlDriver
      /\ Driver["mysql"] = MysqlDriver /\ Driver["tidb"] = MysqlDriver
      /\ Driver["oceanbase"] = OceanbaseDriver /\ Driver["oracle"] = OracleDriver
      /\ Driver["mongodb"] = MongodbDriver
    BY DEF Driver
<1>3. /\ SqliteDriver.entity = IgnoreAndTake("entity") /\ PostgresqlDriver.entity = IgnoreAndTake("entity")
      /\ MysqlDriver.entity = IgnoreAndTake("entity") /\ OceanbaseDriver.entity = IgnoreAndTake("entity")
      /\ OracleDriver.entity = MergeAndTake("entity") /\ MongodbDriver.entity = FindOrInsert("entity")
    BY DEF SqliteDriver, PostgresqlDriver, MysqlDriver, OceanbaseDriver, OracleDriver, MongodbDriver,
           SqliteEntity, PostgresqlEntity, MysqlEntity, OracleEntity, MongodbEntity
<1> DEFINE EndsIn(s, do) == Len(s) > 0 /\ s[Len(s)].do = do /\ s[Len(s)].table = "entity"
<1>4. EndsIn(IgnoreAndTake("entity"), "take")
    BY DEF IgnoreAndTake, Take, Statement
<1>5. EndsIn(MergeAndTake("entity"), "take")
    <2>1. MergeAndTake("entity") = <<Find("entity"), AddAbsent("entity"), Commit, Take("entity")>>
        BY PairsJoin DEF MergeAndTake, Merge
    <2> DEFINE s == <<Find("entity"), AddAbsent("entity"), Commit, Take("entity")>>
    <2>2. Len(s) = 4 /\ s[4] = Take("entity")
        OBVIOUS
    <2> HIDE DEF s
    <2>3. EndsIn(s, "take")
        BY <2>2 DEF Take, Statement
    <2> QED
        BY <2>1, <2>3 DEF s
<1>6. EndsIn(FindOrInsert("entity"), "add_absent")
    BY DEF FindOrInsert, AddAbsent, Statement
<1>7. EndsIn(Driver[d].entity, IF d = "mongodb" THEN "add_absent" ELSE "take")
    BY <1>2, <1>3, <1>4, <1>5, <1>6 DEF AllDialects
<1> QED
    BY <1>1, <1>7 DEF Gives

LEMMA ForgetIs ==
    ASSUME NEW d \in AllDialects
    PROVE  \E k : k > 0 /\ Forgetting(d, Programs(Driver[d])["forget"], k)
<1> DEFINE e == Driver[d].entity
           g == Driver[d].graph_delete
           f == Driver[d].fact_delete
           P == Deletions(d)
           s == e \o g \o f
<1>1. Programs(Driver[d])["forget"] = s
    BY DEF Programs, Forget
<1>2. /\ e \in Seq(Makings("entity")) /\ g \in Seq(P) /\ f \in Seq(P) /\ Len(e) > 0 /\ Len(e) \in Nat
      /\ Gives(d = "mongodb", "entity", e[Len(e)])
      /\ \E i \in 1 .. Len(g) : Wipes("knowledge_graph", g[i])
      /\ \E i \in 1 .. Len(f) : Wipes("entity_fact", f[i])
      /\ d # "mongodb" => f[Len(f)].do = "commit"
    BY DriversGive, DriversDelete DEF Deleting
<1> DEFINE M == Makings("entity") \cup P
<1>3. e \in Seq(M) /\ g \in Seq(M) /\ f \in Seq(M)
    BY <1>2
<1> HIDE DEF e, g, f, P, M
<1>4. /\ Len(e \o g) = Len(e) + Len(g) /\ Len(g) \in Nat /\ e \o g \in Seq(M)
      /\ \A i \in 1 .. Len(e) : (e \o g)[i] = e[i]
      /\ \A i \in 1 .. Len(g) : (e \o g)[Len(e) + i] = g[i]
    BY <1>3, JoinedAt
<1> DEFINE h == e \o g
<1> HIDE DEF h
<1>5. /\ Len(s) = Len(h) + Len(f) /\ Len(f) \in Nat
      /\ \A i \in 1 .. Len(h) : s[i] = h[i]
      /\ \A i \in 1 .. Len(f) : s[Len(h) + i] = f[i]
    BY <1>3, <1>4, JoinedAt DEF h
<1>6. /\ \A i \in 1 .. Len(e) : s[i] = e[i]
      /\ \A i \in 1 .. Len(g) : s[Len(e) + i] = g[i]
      /\ \A i \in 1 .. Len(f) : s[Len(e) + Len(g) + i] = f[i]
      /\ Len(s) = Len(e) + Len(g) + Len(f)
    BY <1>2, <1>4, <1>5 DEF h
<1> HIDE DEF s
<1> DEFINE k == Len(e)
<1>7. k \in 0 .. Len(s) /\ k > 0
    BY <1>2, <1>4, <1>5, <1>6
<1>8. ASSUME NEW i \in 1 .. Len(s), i > k
      PROVE  s[i] \in P
    <2>1. CASE i <= Len(e) + Len(g)
        <3> DEFINE j == i - Len(e)
        <3>1. j \in 1 .. Len(g) /\ Len(e) + j = i
            BY <1>2, <1>4, <1>6, <1>8, <2>1
        <3> HIDE DEF j
        <3>2. s[Len(e) + j] = g[j] /\ g[j] \in P
            BY <1>2, <1>6, <3>1
        <3> QED
            BY <3>1, <3>2
    <2>2. CASE i > Len(e) + Len(g)
        <3> DEFINE j == i - (Len(e) + Len(g))
        <3>1. j \in 1 .. Len(f) /\ Len(e) + Len(g) + j = i
            BY <1>2, <1>4, <1>5, <1>6, <1>8, <2>2
        <3> HIDE DEF j
        <3>2. s[Len(e) + Len(g) + j] = f[j] /\ f[j] \in P
            BY <1>2, <1>6, <3>1
        <3> QED
            BY <3>1, <3>2
    <2> QED
        BY <1>2, <1>4, <2>1, <2>2
<1>9. ASSUME NEW i \in 1 .. k
      PROVE  s[i] \in Makings("entity")
    <2>1. i \in 1 .. Len(e) /\ s[i] = e[i]
        BY <1>6
    <2>2. ASSUME NEW S, e \in Seq(S) PROVE e[i] \in S
        BY <2>1, <2>2
    <2> QED
        BY <1>2, <2>1, <2>2
<1>10. Gives(d = "mongodb", "entity", s[k])
    BY <1>2, <1>6
<1>11. \E i \in 1 .. Len(s) : i > k /\ Wipes("knowledge_graph", s[i])
    <2>1. PICK j \in 1 .. Len(g) : Wipes("knowledge_graph", g[j])
        BY <1>2
    <2>2. k + j \in 1 .. Len(s) /\ k + j > k
        BY <1>2, <1>4, <1>5, <1>6, <2>1
    <2>3. s[k + j] = g[j]
        BY <1>6, <2>1
    <2> QED
        BY <2>1, <2>2, <2>3
<1>12. \E i \in 1 .. Len(s) : i > k /\ Wipes("entity_fact", s[i])
    <2>1. PICK j \in 1 .. Len(f) : Wipes("entity_fact", f[j])
        BY <1>2
    <2> DEFINE i == Len(e) + Len(g) + j
    <2>2. i \in 1 .. Len(s) /\ i > k /\ s[i] = f[j]
        BY <1>2, <1>4, <1>5, <1>6, <2>1
    <2> QED
        BY <2>1, <2>2
<1>13. d # "mongodb" => s[Len(s)].do = "commit"
    <2>1. Len(f) >= 1
        BY <1>2, <1>5
    <2>2. s[Len(s)] = f[Len(f)]
        BY <1>5, <1>6, <2>1
    <2> QED
        BY <1>2, <2>2
<1>14. Forgetting(d, s, k)
    BY <1>7, <1>8, <1>9, <1>10, <1>11, <1>12, <1>13 DEF Forgetting, P, Wiped
<1> QED
    BY <1>1, <1>7, <1>14

\* What is left of it after a statement.
LEMMA ForgettingGoesOn ==
    ASSUME NEW d \in AllDialects, NEW s \in Seq(Stmt), NEW k, Forgetting(d, s, k), Len(s) > 1,
           NEW h, h = After(s, 1), NEW l, l = IF k = 0 THEN 0 ELSE k - 1, NEW t \in Wiped
    PROVE  /\ k > 1 => Forgetting(d, h, l)
           /\ k <= 1 => Forgetting(d, h, 0)
           /\ k = 1 \/ (k = 0 /\ ~Wipes(t, s[1]) /\ \E i \in 1 .. Len(s) : Wipes(t, s[i]))
                 => \E i \in 1 .. Len(h) : Wipes(t, h[i])
<1>1. /\ Len(h) = Len(s) - 1 /\ Len(s) \in Nat /\ \A i \in 1 .. Len(h) : h[i] = s[i + 1]
    <2>1. 1 \in 1 .. Len(s) /\ Len(s) \in Nat
        OBVIOUS
    <2>2. Len(h) = Len(s) - 1 /\ \A i \in 1 .. Len(s) - 1 : h[i] = s[i + 1]
        BY <2>1, AfterIs
    <2> QED
        BY <2>1, <2>2
<1>2. /\ k \in Nat /\ k <= Len(s) /\ l \in Nat /\ (k > 1 => l = k - 1 /\ l > 0) /\ l <= Len(h)
      /\ \A i \in 1 .. Len(s) : i > k => s[i] \in Deletions(d)
      /\ \A i \in 1 .. k : s[i] \in Makings("entity")
      /\ k > 0 => /\ Gives(d = "mongodb", "entity", s[k])
                  /\ \A u \in Wiped : \E i \in 1 .. Len(s) : i > k /\ Wipes(u, s[i])
      /\ d # "mongodb" => s[Len(s)].do = "commit"
    BY <1>1 DEF Forgetting
<1>3. d # "mongodb" => h[Len(h)].do = "commit"
    <2>1. Len(h) \in 1 .. Len(h) /\ Len(h) + 1 = Len(s)
        BY <1>1
    <2> QED
        BY <1>1, <1>2, <2>1
<1>4. \A i \in 1 .. Len(h) : i > l \/ k <= 1 => h[i] \in Deletions(d)
    BY <1>1, <1>2
<1>5. ASSUME NEW u \in Wiped, NEW i \in 1 .. Len(s), i > 1, Wipes(u, s[i])
      PROVE  i - 1 \in 1 .. Len(h) /\ Wipes(u, h[i - 1])
    <2>1. i - 1 \in 1 .. Len(h) /\ (i - 1) + 1 = i
        BY <1>1, <1>5
    <2> QED
        BY <1>1, <1>5, <2>1
<1>6. ASSUME k > 1
      PROVE  Forgetting(d, h, l)
    <2>1. l \in 0 .. Len(h) /\ \A i \in 1 .. l : h[i] \in Makings("entity")
        BY <1>1, <1>2, <1>6
    <2>2. Gives(d = "mongodb", "entity", h[l])
        <3>1. l \in 1 .. Len(h) /\ l + 1 = k
            BY <1>2, <1>6
        <3> QED
            BY <1>1, <1>2, <1>6, <3>1
    <2>3. ASSUME NEW u \in Wiped
          PROVE  \E i \in 1 .. Len(h) : i > l /\ Wipes(u, h[i])
        <3>1. PICK i \in 1 .. Len(s) : i > k /\ Wipes(u, s[i])
            BY <1>2, <1>6
        <3>2. i > 1 /\ i - 1 > l
            BY <1>2, <1>6, <3>1
        <3> QED
            BY <1>5, <3>1, <3>2
    <2> QED
        BY <1>3, <1>4, <2>1, <2>2, <2>3 DEF Forgetting
<1>7. ASSUME k <= 1
      PROVE  Forgetting(d, h, 0)
    BY <1>1, <1>3, <1>4, <1>7 DEF Forgetting
<1>8. ASSUME k = 1 \/ (k = 0 /\ ~Wipes(t, s[1]) /\ \E i \in 1 .. Len(s) : Wipes(t, s[i]))
      PROVE  \E i \in 1 .. Len(h) : Wipes(t, h[i])
    <2>1. PICK i \in 1 .. Len(s) : i > 1 /\ Wipes(t, s[i])
        BY <1>1, <1>2, <1>8
    <2> QED
        BY <1>5, <2>1
<1> QED
    BY <1>6, <1>7, <1>8

-----------------------------------------------------------------------------
(* The rows that were there when a client's job began. *)
\* i is an id of the entity the client names.
OwnEntity(c, i) ==
    /\ Has(rows \cup New(Main(c)), "entity", i)
    /\ \A e \in Stored : e.table = "entity" /\ e.id = i => e.cols["external_id"] = play[c].entity

\* It stays that until what the client wrote is dropped.
LEMMA OwnGoesOn ==
    ASSUME NEW c \in Clients, BaseInv, GoneInv, Act(c) \/ Fail(c), NEW d \in Clients,
           d # c \/ Begin(c) \/ Doing(c) \/ (rows' = rows /\ pend'[Main(d)] = pend[Main(d)]),
           NEW i, OwnEntity(d, i)
    PROVE  OwnEntity(d, i)'
<1>1. /\ Leaves(c) /\ (Begin(c) \/ Doing(c) => Stays(c)) /\ "entity" \notin Erasable /\ play' = play
      /\ Conn(c) \in Connections /\ Main(d) \in Connections /\ (d # c => Main(d) # Conn(c))
    BY StepStays, StepCounts, MainIs, ConnectionIs DEF Erasable, Graph, Main
<1>2. Has(rows' \cup pend'[Main(d)].new, "entity", i)
    <2>1. Has(rows, "entity", i) \/ Has(New(Main(d)), "entity", i)
        BY HasJoins DEF OwnEntity
    <2>2. CASE Main(d) # Conn(c)
        <3>1. pend'[Main(d)] = pend[Main(d)] /\ (Has(rows, "entity", i) => Has(rows', "entity", i))
            BY <1>1, <2>2 DEF Leaves
        <3> QED
            BY <2>1, <3>1, HasJoins DEF New
    <2>4. CASE rows' = rows /\ pend'[Main(d)] = pend[Main(d)]
        BY <2>4 DEF OwnEntity, New
    <2>3. CASE Main(d) = Conn(c) /\ (Begin(c) \/ Doing(c))
        <3>1. Stays(c)
            BY <1>1, <2>3
        <3>2. Has(rows \cup pend[Conn(c)].new, "entity", i)
            BY <2>1, <2>3, HasJoins DEF New
        <3> QED
            BY <1>1, <2>3, <3>1, <3>2 DEF Stays
    <2> QED
        BY <1>1, <2>2, <2>3, <2>4
<1>3. PICK o \in Stored : o.table = "entity" /\ o.id = i
    <2>1. PICK o \in rows \cup New(Main(d)) : o.table = "entity" /\ o.id = i
        BY DEF OwnEntity, Has
    <2>2. o \in Stored
        BY <1>1, <2>1, StoredHas DEF New
    <2> QED
        BY <2>1, <2>2
<1>4. ASSUME NEW e \in Stored', e.table = "entity", e.id = i PROVE e.cols["external_id"] = play[d].entity
    <2>1. ~(InsertRow(c) /\ e = Draft(c))
        BY <1>3, <1>4, DraftIsNew
    <2>2. PICK q \in Stored : Same(e, q)
        BY <2>1, StoredGrows
    <2> QED
        BY <1>4, <2>2 DEF OwnEntity, Same
<1> QED
    BY <1>1, <1>2, <1>4 DEF OwnEntity, New, Main

\* What a statement writes: a new row, copies of what it takes away, or nothing.
LEMMA WritingDoes ==
    ASSUME NEW c \in Clients, BaseInv, InsertRow(c) \/ CountRow(c) \/ EraseRows(c)
    PROVE  \E add, remove, S, e :
              /\ Write(c, add, remove) /\ Holders(c, S, e) = {}
              /\ remove \subseteq S /\ remove \subseteq View(c)
              /\ \A r \in add : (InsertRow(c) /\ r = Draft(c)) \/ \E q \in remove : Same(r, q)
<1>1. CASE InsertRow(c)
    <2>1. PICK add, e : add = {Draft(c)} /\ e = {} /\ Write(c, add, e)
        BY <1>1, DraftIs DEF BaseInv
    <2>2. PICK S, b : S = Counted(c) \cup {Draft(c)} /\ b = FALSE /\ Holders(c, S, b) = {}
        BY <1>1, WritesWait
    <2> QED
        BY <1>1, <2>1, <2>2
<1>2. CASE CountRow(c)
    <2>1. PICK f, add : /\ Write(c, add, Counted(c)) /\ add = {f[r] : r \in Counted(c)}
                        /\ \A r \in Counted(c) : Same(f[r], r)
        BY <1>2, CopiesAre DEF BaseInv
    <2>2. PICK S : Counted(c) \subseteq S /\ Holders(c, S, FALSE) = {}
        BY <1>2, WritesWait
    <2>3. Counted(c) \subseteq View(c) /\ \A r \in add : \E q \in Counted(c) : Same(r, q)
        BY <1>2, <2>1, CountRowIs DEF BaseInv
    <2> QED
        BY <2>1, <2>2, <2>3
<1>3. CASE EraseRows(c)
    <2>1. PICK e : e = {} /\ Write(c, e, Cascade(c)) /\ Cascade(c) \subseteq View(c)
        BY <1>3, EraseRowsIs DEF BaseInv
    <2> QED
        BY <1>3, <2>1, WritesWait
<1> QED
    BY <1>1, <1>2, <1>3

\* What there is after the client's own deletions, committed or not.
Standing(c) == (rows \ Gone(Main(c))) \cup UNION {New(n) : n \in Connections}

LEMMA StandingHas ==
    ASSUME NEW c \in Clients
    PROVE  /\ \A r : r \in Standing(c) <=> (r \in rows /\ r \notin Gone(Main(c))) \/ \E n \in Connections : r \in New(n)
           /\ \A r : r \in Standing(c)' <=> \/ r \in rows' /\ r \notin pend'[Main(c)].gone
                                            \/ \E n \in Connections : r \in pend'[n].new
           /\ Conn(c) = Main(c) => View(c) \subseteq Standing(c)
<1>1. /\ \A r : r \in Standing(c) <=> (r \in rows /\ r \notin Gone(Main(c))) \/ \E n \in Connections : r \in New(n)
      /\ \A r : r \in Standing(c)' <=> \/ r \in rows' /\ r \notin pend'[Main(c)].gone
                                       \/ \E n \in Connections : r \in pend'[n].new
    BY DEF Standing, New, Gone, Main
<1>2. Main(c) \in Connections
    BY MainIs
<1> QED
    BY <1>1, <1>2 DEF View, New, Gone

\* Nothing the client has deleted comes back.
LEMMA StandingGrows ==
    ASSUME NEW c \in Clients, NEW d \in Clients, BaseInv, Act(d) \/ Fail(d),
           d = c => Conn(c) = Main(c) /\ Doing(c), NEW r \in Standing(c)'
    PROVE  (InsertRow(d) /\ r = Draft(d)) \/ \E q \in Standing(c) : Same(r, q)
<1>1. /\ TypeInv /\ StoreInv /\ Conn(d) \in Connections /\ Main(c) \in Connections /\ (d # c => Main(c) # Conn(d))
      /\ \A n \in Connections \ {Conn(d)} : pend'[n] = pend[n]
      /\ View(d) = (rows \ Gone(Conn(d))) \cup New(Conn(d)) /\ NoWork.new = {} /\ NoWork.gone = {}
    BY StepIsOne, MainIs, ConnectionIs DEF BaseInv, Main, View, New, Gone, NoWork
<1>2. \A q \in Standing(c) : Same(q, q)
    BY DEF Same
<1>3. CASE Quiet(d) /\ (d # c \/ pend' = pend)
    <2>1. rows' = rows /\ \A n \in Connections : pend'[n] = pend[n] \/ (pend'[n].new = {} /\ pend'[n].gone = {})
        BY <1>1, <1>3, ClearedTouches DEF Quiet
    <2>2. pend'[Main(c)] = pend[Main(c)]
        BY <1>1, <1>3
    <2>3. r \in Standing(c)
        BY <2>1, <2>2, StandingHas DEF New, Gone
    <2> QED
        BY <1>2, <2>3
<1>4. CASE CommitWork(d)
    <2>1. rows' = View(d) /\ \A n \in Connections : pend'[n] = pend[n] \/ (pend'[n].new = {} /\ pend'[n].gone = {})
        BY <1>1, <1>4, CommitIs, ClearedTouches
    <2>2. CASE r \in rows' /\ r \notin pend'[Main(c)].gone
        <3>1. CASE r \in New(Conn(d))
            BY <1>1, <1>2, <3>1, StandingHas
        <3>2. CASE r \in rows /\ r \notin Gone(Conn(d))
            <4>1. r \notin Gone(Main(c))
                BY <1>1, <2>2, <3>2 DEF Gone
            <4> QED
                BY <1>2, <3>2, <4>1, StandingHas
        <3> QED
            BY <1>1, <2>1, <2>2, <3>1, <3>2
    <2>3. CASE \E n \in Connections : r \in pend'[n].new
        <3>1. \E n \in Connections : r \in New(n)
            BY <2>1, <2>3 DEF New
        <3> QED
            BY <1>2, <3>1, StandingHas
    <2> QED
        BY <2>2, <2>3, StandingHas
<1>5. CASE InsertRow(d) \/ CountRow(d) \/ EraseRows(d)
    <2>1. PICK add, remove, S, e :
              /\ Write(d, add, remove) /\ Holders(d, S, e) = {}
              /\ remove \subseteq S /\ remove \subseteq View(d)
              /\ \A a \in add : (InsertRow(d) /\ a = Draft(d)) \/ \E q \in remove : Same(a, q)
        BY <1>5, WritingDoes
    <2>2. ASSUME NEW q \in remove PROVE q \in Standing(c)
        <3>1. CASE q \in New(Conn(d))
            BY <1>1, <3>1, StandingHas
        <3>2. CASE q \in rows /\ q \notin Gone(Conn(d))
            <4>1. ASSUME q \in Gone(Main(c)) PROVE FALSE
                <5>1. Main(c) \in Connections \ {Conn(d)} /\ q \in Touched(Main(c)) /\ q \in S
                    BY <1>1, <2>1, <3>2, <4>1 DEF Touched, Gone
                <5>2. ~SameRow(q, q)
                    BY <2>1, <5>1, NobodyHolds
                <5> QED
                    BY <5>2 DEF SameRow
            <4> QED
                BY <3>2, <4>1, StandingHas
        <3> QED
            BY <1>1, <2>1, <3>1, <3>2
    <2>3. CASE r \in add
        BY <2>1, <2>2, <2>3
    <2>4. CASE r \notin add
        <3>1. r \in Standing(c)
            <4>1. CASE Mongo
                <5>1. rows' \subseteq rows \cup add /\ pend' = pend
                    BY <1>1, <2>1, <4>1, WriteIs
                <5> QED
                    BY <2>4, <5>1, StandingHas DEF New, Gone
            <4>2. CASE ~Mongo
                <5>1. /\ rows' = rows /\ pend'[Conn(d)].new \subseteq New(Conn(d)) \cup add
                      /\ Gone(Conn(d)) \subseteq pend'[Conn(d)].gone
                    BY <1>1, <2>1, <4>2, WriteIs DEF New, Gone
                <5>2. Gone(Main(c)) \subseteq pend'[Main(c)].gone
                    BY <1>1, <5>1 DEF Gone
                <5>3. \A n \in Connections : pend'[n].new \subseteq New(n) \cup add
                    BY <1>1, <5>1 DEF New
                <5> QED
                    BY <2>4, <5>1, <5>2, <5>3, StandingHas
            <4> QED
                BY <4>1, <4>2
        <3> QED
            BY <1>2, <3>1
    <2> QED
        BY <2>3, <2>4
<1>6. CASE d = c
    BY <1>3, <1>4, <1>5, <1>6, DoingsAre, ReadingIs DEF Quiet
<1> QED
    BY <1>3, <1>4, <1>5, <1>6, StepIsOne

-----------------------------------------------------------------------------
\* The rows noted when the client's job began: no id is given out twice, and
\* what others have changed of them without a commit is committed still.
OldInv(c) ==
    /\ \A x \in before[c] : x[1] \in Tables /\ x[2] \in Nat /\ x[2] <= last[x[1]]
    /\ \A n \in Connections : \A q \in New(n) :
          <<q.table, q.id>> \in before[c] => Has(rows, q.table, q.id)

LEMMA StepKeeps ==
    ASSUME NEW c \in Clients, NEW d \in Clients, BaseInv, Act(d) \/ Fail(d)
    PROVE  /\ Grows
           /\ d # c \/ ~Begin(d) => before'[c] = before[c]
<1>1. TypeInv /\ TodoInv /\ StoreInv /\ Frame(d)
    BY StepCounts DEF BaseInv
<1>2. CASE Begin(d)
    <2>1. UNCHANGED last
        BY <1>2 DEF Begin
    <2> QED
        BY <1>1, <1>2, <2>1, LastStays, OthersStay
<1>3. CASE RestartTransaction(d)
    <2>1. UNCHANGED <<last, before>>
        BY <1>3 DEF RestartTransaction
    <2> QED
        BY <1>1, <2>1, LastStays
<1>4. CASE RaisesAt(d)
    <2>1. UNCHANGED <<last, before>>
        BY <1>1, <1>4, RaisesAtIs, RaiseLeaves
    <2> QED
        BY <1>1, <2>1, LastStays
<1>5. CASE Doing(d)
    <2>1. PICK n : By(d, n)
        BY <1>1, <1>5, DoingIs
    <2>2. Goes(d, n) /\ Grows
        BY <2>1 DEF By
    <2> QED
        BY <1>1, <2>2, GoesOn
<1> QED
    BY <1>2, <1>3, <1>4, <1>5, RaisesAre

LEMMA OldIsOld ==
    ASSUME NEW c \in Clients, BaseInv, OldInv(c), NEW d \in Clients, InsertRow(d), NEW r, r = Draft(d)
    PROVE  <<r.table, r.id>> \notin before[c]
<1>1. r.table \in Tables /\ r.id = last[r.table] + 1 /\ last[r.table] \in Nat
    BY DraftIs DEF BaseInv, TypeInv
<1>2. ASSUME <<r.table, r.id>> \in before[c] PROVE FALSE
    <2>1. <<r.table, r.id>>[2] <= last[<<r.table, r.id>>[1]]
        BY <1>2 DEF OldInv
    <2>2. r.id <= last[r.table]
        BY <2>1
    <2> QED
        BY <1>1, <2>2
<1> QED
    BY <1>2

LEMMA OldBegins ==
    ASSUME NEW c \in Clients, BaseInv, Begin(c)
    PROVE  OldInv(c)'
<1>1. /\ TypeInv /\ before' = [before EXCEPT ![c] = {<<r.table, r.id>> : r \in {q \in rows : "entity_id" \in DOMAIN q.cols}}]
      /\ UNCHANGED <<rows, last, pend>> /\ DOMAIN before = Clients
    BY FunctionalIs DEF Begin, BaseInv
<1>2. before'[c] = {<<r.table, r.id>> : r \in {q \in rows : "entity_id" \in DOMAIN q.cols}}
    BY <1>1
<1>3. ASSUME NEW x \in before'[c] PROVE \E r \in rows : x = <<r.table, r.id>>
    BY <1>2
<1>4. ASSUME NEW x \in before'[c] PROVE x[1] \in Tables /\ x[2] \in Nat /\ x[2] <= last'[x[1]]
    <2>1. PICK r \in rows : x = <<r.table, r.id>>
        BY <1>3
    <2>2. r.table \in Tables /\ r.id \in Nat /\ r.id <= last[r.table]
        BY <2>1, StoredAreRows, StoredHas
    <2> QED
        BY <1>1, <2>1, <2>2
<1>5. ASSUME NEW q, <<q.table, q.id>> \in before'[c] PROVE Has(rows', q.table, q.id)
    <2>1. PICK r \in rows : <<q.table, q.id>> = <<r.table, r.id>>
        BY <1>3, <1>5
    <2>2. q.table = r.table /\ q.id = r.id
        BY <2>1
    <2> QED
        BY <1>1, <2>2 DEF Has
<1> QED
    BY <1>4, <1>5 DEF OldInv, New

LEMMA OldStep ==
    ASSUME NEW c \in Clients, NEW d \in Clients, BaseInv, LockInv, OldInv(c), Act(d) \/ Fail(d)
    PROVE  OldInv(c)'
<1>1. CASE d = c /\ Begin(d)
    BY <1>1, OldBegins
<1>2. CASE ~(d = c /\ Begin(d))
    <2>1. /\ TypeInv /\ StoreInv /\ Conn(d) \in Connections /\ before'[c] = before[c] /\ Grows
          /\ \A n \in Connections \ {Conn(d)} : pend'[n] = pend[n]
          /\ View(d) = (rows \ Gone(Conn(d))) \cup New(Conn(d)) /\ NoWork.new = {} /\ NoWork.gone = {}
        BY <1>2, StepIsOne, StepKeeps, ConnectionIs DEF BaseInv, View, New, Gone, NoWork
    <2>2. \A x \in before'[c] : x[1] \in Tables /\ x[2] \in Nat /\ x[2] <= last'[x[1]]
        <3>1. ASSUME NEW x \in before[c] PROVE x[2] <= last'[x[1]]
            <4>1. x[1] \in Tables /\ x[2] \in Nat /\ x[2] <= last[x[1]] /\ last[x[1]] <= last'[x[1]]
                BY <2>1 DEF OldInv, Grows
            <4>2. last[x[1]] \in Nat /\ last'[x[1]] \in Nat
                BY <2>1, <4>1 DEF TypeInv, Grows
            <4> QED
                BY <4>1, <4>2
        <3> QED
            BY <2>1, <3>1 DEF OldInv
    <2>3. ASSUME NEW n \in Connections, NEW r \in pend'[n].new, <<r.table, r.id>> \in before[c]
          PROVE  Has(rows', r.table, r.id)
        <3>1. r \in New(n) => Has(rows, r.table, r.id)
            BY <2>3 DEF OldInv
        <3>2. CASE Quiet(d)
            <4>1. rows' = rows /\ r \in New(n)
                BY <2>1, <3>2, ClearedTouches DEF Quiet, New
            <4> QED
                BY <3>1, <4>1
        <3>3. CASE CommitWork(d)
            <4>1. rows' = View(d) /\ n # Conn(d) /\ r \in New(n)
                BY <2>1, <3>3, CommitIs, ClearedTouches, FunctionalIs DEF New
            <4>2. PICK q \in rows : q.table = r.table /\ q.id = r.id
                BY <3>1, <4>1 DEF Has
            <4>3. q \notin Gone(Conn(d))
                BY <2>1, <4>1, <4>2 DEF LockInv, Touched, Gone, New, SameRow
            <4> QED
                BY <2>1, <4>1, <4>2, <4>3 DEF Has
        <3>4. CASE InsertRow(d) \/ CountRow(d) \/ EraseRows(d)
            <4>1. PICK add, remove, S, e :
                      /\ Write(d, add, remove) /\ Holders(d, S, e) = {}
                      /\ remove \subseteq S /\ remove \subseteq View(d)
                      /\ \A a \in add : (InsertRow(d) /\ a = Draft(d)) \/ \E q \in remove : Same(a, q)
                BY <3>4, WritingDoes
            <4>2. ~Mongo
                <5>1. Mongo => pend' = pend /\ pend[n].new = {}
                    BY <2>1, <4>1, WriteIs DEF StoreInv
                <5> QED
                    BY <2>3, <5>1
            <4>3. rows' = rows /\ pend'[Conn(d)].new = (pend[Conn(d)].new \ remove) \cup add
                BY <2>1, <4>1, <4>2, WriteIs
            <4>4. CASE r \in New(n)
                BY <3>1, <4>3, <4>4
            <4>5. CASE r \notin New(n)
                <5>1. n = Conn(d) /\ r \in add
                    BY <2>1, <2>3, <4>3, <4>5 DEF New
                <5>2. ~(InsertRow(d) /\ r = Draft(d))
                    BY <2>3, OldIsOld
                <5>3. PICK q \in remove : Same(r, q)
                    BY <4>1, <5>1, <5>2
                <5>4. q \in rows \/ q \in New(Conn(d))
                    BY <2>1, <4>1, <5>3
                <5>5. Has(rows, q.table, q.id)
                    BY <2>1, <2>3, <5>3, <5>4 DEF OldInv, Has, Same
                <5> QED
                    BY <4>3, <5>3, <5>5 DEF Same
            <4> QED
                BY <4>4, <4>5
        <3> QED
            BY <3>2, <3>3, <3>4, StepIsOne
    <2> QED
        BY <2>1, <2>2, <2>3 DEF OldInv, New
<1> QED
    BY <1>1, <1>2

-----------------------------------------------------------------------------
(* What a client that forgets has found, and what it has deleted. *)
\* Of the rows of t there were when the job began, none is left of its entity.
Clear(c, t) ==
    \A q \in Standing(c) : q.table = t /\ <<t, q.id>> \in before[c] => q.cols["entity_id"] # ids[c]["entity"]

\* It knows its entity, and what is not deleted yet it is going to delete.
Reached(c) ==
    /\ OwnEntity(c, ids[c]["entity"])
    /\ \A t \in Wiped : Clear(c, t) \/ \E i \in 1 .. Len(todo[c]) : Wipes(t, todo[c][i])

ForgettingInv(c) ==
    Running(c) /\ Job(c) = "forget" =>
        /\ \E k : Forgetting(dialect, todo[c], k) /\ (k = 0 => Reached(c))
        /\ Here(c).do = "add_absent" /\ got[c] # 0 => OwnEntity(c, got[c])

\* What it has deleted without a commit was its entity's.
GoneOwn(c) ==
    dialect \notin {"postgresql", "oracle"} =>
        \A q \in Gone(Main(c)) : q.table \in OfEntity =>
            Has(New(Main(c)), q.table, q.id) \/ OwnEntity(c, q.cols["entity_id"])

LEMMA ForgetIsMain ==
    ASSUME NEW c \in Clients, Running(c), Job(c) = "forget"
    PROVE  Conn(c) = Main(c) /\ ~IsLearning(c) /\ Main(c) \in Connections
BY MainIs DEF IsLearning, Learns

LEMMA FoundIsOwn ==
    ASSUME NEW c \in Clients, BaseInv, AlikeInv, Conn(c) = Main(c), Here(c).table = "entity",
           NEW i \in FoundIds(c), i # 0
    PROVE  OwnEntity(c, i)
<1>1. TypeInv /\ StoreInv /\ "entity" \in Tables /\ Main(c) \in Connections
    BY HasIs, MainIs DEF BaseInv, Four
<1>2. PICK r \in Matches(c, "entity") : r.id = i
    BY <1>1, FoundAre
<1>3. r \in View(c) /\ r.table = "entity" /\ r.cols["external_id"] = Value(c, "entity", "external_id")
    BY <1>2, NaturalKeysAre DEF Matches
<1>4. r.cols["external_id"] = play[c].entity
    BY <1>3 DEF Value
<1>5. r \in rows \cup New(Main(c)) /\ r \in Stored
    BY <1>1, <1>3, StoredHas DEF View, New
<1>6. Has(rows \cup New(Main(c)), "entity", i)
    BY <1>2, <1>3, <1>5 DEF Has
<1> QED
    BY <1>2, <1>3, <1>4, <1>5, <1>6 DEF OwnEntity, AlikeInv, SameRow

\* A statement that deletes comes after the lookups.
LEMMA ErasesReach ==
    ASSUME NEW c \in Clients, BaseInv, ForgettingInv(c), Running(c), Job(c) = "forget", Here(c).do \in Erases
    PROVE  Reached(c) /\ Here(c) \in Deletions(dialect) /\ \E k : k = 0 /\ Forgetting(dialect, todo[c], k)
<1>1. PICK k : Forgetting(dialect, todo[c], k) /\ (k = 0 => Reached(c))
    BY DEF ForgettingInv
<1>2. Len(todo[c]) \in Nat /\ Len(todo[c]) >= 1 /\ Here(c) = todo[c][1] /\ 1 \in 1 .. Len(todo[c])
    BY HereIs DEF BaseInv
<1>3. Here(c) \notin Makings("entity")
    BY DEF Makings, Erases
<1>4. k \in Nat /\ \A i \in 1 .. k : todo[c][i] \in Makings("entity")
    BY <1>1, <1>2 DEF Forgetting
<1>5. k = 0
    BY <1>2, <1>3, <1>4
<1>6. todo[c][1] \in Deletions(dialect)
    BY <1>1, <1>2, <1>5 DEF Forgetting
<1> QED
    BY <1>1, <1>2, <1>5, <1>6

LEMMA ReferrersOfEntity ==
    ASSUME TypeInv, NEW x, x.table \in Tables, NEW r, RefersTo(x, r)
    PROVE  /\ r.table \in OfEntity => x.table = "entity_fact_mention" /\ ~Mongo /\ r.table = "entity_fact" /\ x.cols["fact_id"] = r.id
           /\ r.table \in Graph => x.table = "knowledge_graph" /\ \E k \in NaturalKey["knowledge_graph"] :
                                      Names[k] = r.table /\ x.cols[k] = r.id
<1>1. PICK k \in schema[x.table].refs : Names[k] = r.table /\ x.cols[k] = r.id
    BY DEF RefersTo
<1>2. k \in Columns[x.table] \cap DOMAIN Names /\ x.table \in Tables
    BY <1>1, SchemaIs
<1>3. r.table \in OfEntity \cup Graph => r.table \in {"entity_fact", "subject", "predicate", "object"}
    BY <1>1, <1>2, NamesAre DEF OfEntity, Wiped, Graph
<1>4. r.table = "entity_fact" => k = "fact_id"
    BY <1>1, <1>2, NamesAre
<1>5. r.table \in Graph => k \in {"subject_id", "predicate_id", "object_id"}
    BY <1>1, <1>2, NamesAre DEF Graph
<1>6. x.table \in Four \cup Learned \cup {"conversation_message"}
    BY <1>2, TablesAre
<1>7. k = "fact_id" => x.table = "entity_fact_mention"
    BY <1>2, <1>6, ColumnsAre DEF Four, Learned, Erasable, Graph
<1>8. k \in {"subject_id", "predicate_id", "object_id"} => x.table = "knowledge_graph"
    BY <1>2, <1>6, ColumnsAre DEF Four, Learned, Erasable, Graph
<1>9. ~Mongo
    <2>1. Mongo => schema[x.table].refs = {}
        BY <1>2 DEF Mongo, TypeInv, BuiltSchema
    <2> QED
        BY <1>1, <2>1
<1>10. k \in {"subject_id", "predicate_id", "object_id"} => k \in NaturalKey["knowledge_graph"]
    BY NaturalKeysAre
<1>11. Graph \cap OfEntity = {}
    BY DEF Graph, OfEntity, Wiped
<1> QED
    BY <1>1, <1>3, <1>4, <1>5, <1>7, <1>8, <1>9, <1>10, <1>11 DEF Graph

\* What goes of an entity is the client's own entity's.
LEMMA CascadeIsOwn ==
    ASSUME NEW c \in Clients, BaseInv, MentionInv, ForgettingInv(c), EraseRows(c),
           dialect \notin {"postgresql", "oracle"}, NEW x \in Cascade(c), x.table \in OfEntity
    PROVE  OwnEntity(c, x.cols["entity_id"])
<1>1. /\ TypeInv /\ StoreInv /\ Running(c) /\ Job(c) = "forget" /\ Here(c).do \in Erases /\ Cascade(c) \subseteq View(c)
      /\ View(c) = ViewOf(Conn(c)) /\ Conn(c) \in Connections /\ \A r \in View(c) : IsRow(r)
    BY EraseRowsIs, ViewIs, ConnectionIs DEF BaseInv, EraseRows, Ready
<1>2. OwnEntity(c, ids[c]["entity"]) /\ Here(c) \in Deletions(dialect)
    BY <1>1, ErasesReach DEF Reached
<1>3. View(c) \subseteq Stored
    BY <1>1, StoredHas DEF ViewOf, New
<1>4. x \in View(c) /\ x.table \in Tables
    BY <1>1 DEF IsRow
<1>5. CASE Here(c).do = "erase"
    <2>1. Here(c).table \in OfEntity /\ Erased(c) = {r \in InTable(c, Here(c).table) : r.cols["entity_id"] = ids[c]["entity"]}
        BY <1>2, <1>5 DEF Deletions, Erased
    <2>2. \A r \in Erased(c) : r.table \in OfEntity /\ r.cols["entity_id"] = ids[c]["entity"] /\ r \in View(c)
        BY <2>1 DEF InTable
    <2>3. CASE x \in Erased(c)
        BY <1>2, <2>2, <2>3
    <2>4. CASE x \notin Erased(c)
        <3>1. PICK r \in Erased(c) : RefersTo(x, r)
            BY <2>4 DEF Cascade
        <3>2. x.table = "entity_fact_mention" /\ ~Mongo /\ r.table = "entity_fact" /\ x.cols["fact_id"] = r.id
            BY <1>1, <1>4, <2>2, <3>1, ReferrersOfEntity
        <3>3. FactOf(x.cols["fact_id"], x.cols["entity_id"])
            BY <1>3, <1>4, <3>2 DEF MentionInv, MentionsAre
        <3>4. r.cols["entity_id"] = x.cols["entity_id"]
            BY <1>3, <2>2, <3>1, <3>2, <3>3 DEF FactOf
        <3> QED
            BY <1>2, <2>2, <3>1, <3>4
    <2> QED
        BY <2>3, <2>4
<1>6. CASE Here(c).do # "erase"
    <2>1. Here(c).table \in Graph /\ (Here(c).do = "erase_orphans" \/ Here(c).do = "erase_unused") /\ (Here(c).do = "erase_unused" => Mongo)
        BY <1>1, <1>2, <1>6 DEF Deletions, Erases, Mongo
    <2>2. \A r \in Erased(c) : r.table \in Graph
        BY <2>1 DEF Erased, InTable
    <2>3. Graph \cap OfEntity = {}
        BY DEF Graph, OfEntity, Wiped
    <2>4. PICK r \in Erased(c) : RefersTo(x, r)
        BY <2>2, <2>3 DEF Cascade
    <2>5. x.table = "knowledge_graph" /\ \E k \in NaturalKey["knowledge_graph"] : Names[k] = r.table /\ x.cols[k] = r.id
        BY <1>1, <1>4, <2>2, <2>4, ReferrersOfEntity
    <2>6. ~Mongo
        <3>1. Mongo => schema[x.table].refs = {}
            BY <1>1, <1>4 DEF Mongo, TypeInv, BuiltSchema
        <3> QED
            BY <2>4, <3>1 DEF RefersTo
    <2>7. r \in InTable(c, Here(c).table) \ Used(c, Here(c).table)
        BY <2>1, <2>4, <2>6 DEF Erased
    <2>8. r \in View(c) /\ r.table = Here(c).table
        BY <2>7 DEF InTable
    <2>9. r \in Used(c, Here(c).table)
        BY <1>4, <2>5, <2>8 DEF Used
    <2> QED
        BY <2>7, <2>9
<1> QED
    BY <1>5, <1>6

-----------------------------------------------------------------------------
LEMMA ClearStays ==
    ASSUME NEW c \in Clients, NEW d \in Clients, BaseInv, OldInv(c), Act(d) \/ Fail(d),
           d = c => Conn(c) = Main(c) /\ Doing(c),
           ids'[c]["entity"] = ids[c]["entity"], NEW t, Clear(c, t)
    PROVE  Clear(c, t)'
<1>1. before'[c] = before[c]
    <2>1. ASSUME Doing(c), Begin(c) PROVE FALSE
        BY <2>1, DoingIs DEF By, Goes, Begin, BaseInv
    <2> QED
        BY <2>1, StepKeeps
<1>2. ASSUME NEW r \in Standing(c)', r.table = t, <<t, r.id>> \in before[c] PROVE r.cols["entity_id"] # ids[c]["entity"]
    <2>1. ~(InsertRow(d) /\ r = Draft(d))
        BY <1>2, OldIsOld
    <2>2. PICK q \in Standing(c) : Same(r, q)
        BY <2>1, StandingGrows
    <2> QED
        BY <1>2, <2>2 DEF Clear, Same
<1> QED
    BY <1>1, <1>2 DEF Clear

\* The deletion of a table leaves none of the old rows, whoever holds a copy.
LEMMA ClearsNow ==
    ASSUME NEW c \in Clients, BaseInv, AlikeInv, LockInv, OldInv(c), Act(c), EraseRows(c),
           NEW t \in Wiped, Wipes(t, Here(c))
    PROVE  Clear(c, t)'
<1>1. /\ TypeInv /\ StoreInv /\ TodoInv /\ Running(c) /\ Job(c) = "forget" /\ Cascade(c) \subseteq View(c)
      /\ Write(c, {}, Cascade(c)) /\ UNCHANGED ids
    BY EraseRowsIs DEF BaseInv
<1>2. Conn(c) = Main(c) /\ Main(c) \in Connections
    BY <1>1, ForgetIsMain
<1>3. before'[c] = before[c] /\ \A n \in Connections \ {Conn(c)} : pend'[n] = pend[n]
    <2>1. ~Begin(c)
        BY <1>1 DEF Begin
    <2> QED
        BY <2>1, StepKeeps, StepIsOne
<1>4. Erased(c) = {r \in View(c) : r.table = t /\ r.cols["entity_id"] = ids[c]["entity"]}
    BY DEF Wipes, Erased, InTable
<1>5. Seen(Conn(c)) = View(c) \ Cascade(c)
    <2>1. PICK add : add = {} /\ Write(c, add, Cascade(c))
        BY <1>1
    <2> QED
        BY <1>1, <2>1, WriteSees
<1>6. Erased(c) \subseteq Cascade(c)
    BY DEF Cascade
<1>7. ASSUME NEW r \in Standing(c)', r.table = t, <<t, r.id>> \in before[c], r.cols["entity_id"] = ids[c]["entity"]
      PROVE  FALSE
    <2>1. CASE r \in Seen(Conn(c))
        BY <1>4, <1>5, <1>6, <1>7, <2>1
    <2>2. CASE r \notin Seen(Conn(c))
        <3>1. PICK n \in Connections : r \in pend'[n].new
            BY <1>2, <2>2, StandingHas DEF Seen
        <3>2. n # Conn(c) /\ r \in New(n)
            BY <1>3, <2>2, <3>1 DEF Seen, New
        <3>3. PICK q \in rows : q.table = r.table /\ q.id = r.id
            BY <1>7, <3>2 DEF OldInv, Has
        <3>4. r \in Stored /\ q \in Stored
            BY <3>2, <3>3, StoredHas DEF New
        <3>5. q.cols = r.cols
            BY <3>3, <3>4 DEF AlikeInv, SameRow
        <3>6. r \in Touched(n) /\ SameRow(r, q)
            BY <3>2, <3>3 DEF Touched, SameRow, New
        <3>7. CASE q \in Gone(Conn(c))
            <4>1. q \in Touched(Conn(c)) /\ Conn(c) \in Connections
                BY <1>2, <3>7 DEF Touched, Gone
            <4> QED
                BY <3>2, <3>6, <4>1 DEF LockInv
        <3>8. CASE q \notin Gone(Conn(c))
            <4>1. q \in View(c)
                BY <3>3, <3>8 DEF View, Gone
            <4>2. q \in Cascade(c)
                BY <1>4, <1>6, <1>7, <3>3, <3>5, <4>1
            <4>3. Holders(c, Cascade(c), TRUE) = {}
                BY WritesWait
            <4> QED
                BY <3>2, <3>6, <4>2, <4>3, NobodyHolds
        <3> QED
            BY <3>7, <3>8
    <2> QED
        BY <2>1, <2>2
<1> QED
    BY <1>1, <1>3, <1>7 DEF Clear

\* What an ended statement leaves of the client's deletions.
LEMMA GoneOwnStays ==
    ASSUME NEW c \in Clients, BaseInv, GoneInv, Act(c) \/ Fail(c), NEW d \in Clients, GoneOwn(d),
           pend'[Main(d)] = pend[Main(d)], d # c \/ Begin(c) \/ Doing(c) \/ rows' = rows
    PROVE  GoneOwn(d)'
<1>1. dialect' = dialect
    BY StepIsOne
<1>2. \A i : OwnEntity(d, i) => OwnEntity(d, i)'
    BY OwnGoesOn
<1>3. ASSUME NEW q \in pend'[Main(d)].gone, q.table \in OfEntity, dialect \notin {"postgresql", "oracle"},
             ~Has(pend'[Main(d)].new, q.table, q.id)
      PROVE  OwnEntity(d, q.cols["entity_id"])'
    <2>1. PICK i : i = q.cols["entity_id"]
        OBVIOUS
    <2>2. OwnEntity(d, i)
        BY <1>3, <2>1 DEF GoneOwn, New, Gone
    <2>3. OwnEntity(d, i)'
        BY <1>2, <2>2
    <2> QED
        BY <2>1, <2>3
<1> QED
    BY <1>1, <1>3 DEF GoneOwn, New, Gone, Main

LEMMA GoneOwnWrites ==
    ASSUME NEW c \in Clients, BaseInv, AlikeInv, UniqueInv, MentionInv, GoneOwn(c), ForgettingInv(c),
           InsertRow(c) \/ CountRow(c) \/ EraseRows(c), Conn(c) = Main(c), dialect \notin {"postgresql", "oracle"},
           NEW q \in pend'[Main(c)].gone, q.table \in OfEntity, ~Has(pend'[Main(c)].new, q.table, q.id)
    PROVE  OwnEntity(c, q.cols["entity_id"])
<1>1. TypeInv /\ StoreInv /\ TodoInv /\ Main(c) \in Connections /\ Gone(Main(c)) \subseteq rows
    BY MainIs DEF BaseInv, UniqueInv
<1>2. PICK add, remove, S, e :
          /\ Write(c, add, remove) /\ Holders(c, S, e) = {}
          /\ remove \subseteq S /\ remove \subseteq View(c)
          /\ \A a \in add : (InsertRow(c) /\ a = Draft(c)) \/ \E x \in remove : Same(a, x)
    BY WritingDoes
<1>3. ~Mongo
    <2>1. Mongo => pend' = pend /\ pend[Main(c)].gone = {}
        BY <1>1, <1>2, WriteIs DEF StoreInv, NoWork
    <2> QED
        BY <2>1
<1>4. CASE InsertRow(c) \/ CountRow(c)
    <2>1. PICK a, r : /\ Write(c, a, r) /\ \A x \in r : Has(a, x.table, x.id)
        <3>1. CASE InsertRow(c)
            <4>1. PICK a, r : a = {Draft(c)} /\ r = {} /\ Write(c, a, r)
                BY <1>1, <3>1, DraftIs
            <4> QED
                BY <4>1
        <3>2. CASE CountRow(c)
            <4>1. PICK f, a : /\ Write(c, a, Counted(c)) /\ a = {f[x] : x \in Counted(c)}
                              /\ \A x \in Counted(c) : Same(f[x], x)
                BY <1>1, <3>2, CopiesAre
            <4>2. \A x \in Counted(c) : Has(a, x.table, x.id)
                BY <4>1 DEF Has, Same
            <4> QED
                BY <4>1, <4>2
        <3> QED
            BY <1>4, <3>1, <3>2
    <2>2. /\ pend'[Main(c)].new = (New(Main(c)) \ r) \cup a
          /\ pend'[Main(c)].gone = Gone(Main(c)) \cup (r \cap rows)
        BY <1>1, <1>3, <2>1, WriteIs DEF New, Gone
    <2>3. \A t, i : Has(New(Main(c)), t, i) => Has(pend'[Main(c)].new, t, i)
        BY <2>1, <2>2 DEF Has
    <2>4. q \notin r
        BY <2>1, <2>2 DEF Has
    <2> QED
        BY <2>2, <2>3, <2>4 DEF GoneOwn
<1>5. CASE EraseRows(c)
    <2>1. PICK a : a = {} /\ Write(c, a, Cascade(c))
        BY <1>1, <1>5, EraseRowsIs
    <2>2. /\ pend'[Main(c)].new = New(Main(c)) \ Cascade(c)
          /\ pend'[Main(c)].gone = Gone(Main(c)) \cup (Cascade(c) \cap rows)
        BY <1>1, <1>3, <2>1, WriteIs DEF New, Gone
    <2>3. CASE q \in Cascade(c)
        BY <1>5, <2>3, CascadeIsOwn
    <2>4. CASE q \in Gone(Main(c)) /\ ~Has(New(Main(c)), q.table, q.id)
        BY <2>4 DEF GoneOwn
    <2>5. CASE q \in Gone(Main(c)) /\ Has(New(Main(c)), q.table, q.id)
        <3>1. PICK x \in New(Main(c)) : x.table = q.table /\ x.id = q.id
            BY <2>5 DEF Has
        <3>2. x \in Cascade(c)
            BY <2>2, <3>1 DEF Has
        <3>3. OwnEntity(c, x.cols["entity_id"])
            BY <1>5, <3>1, <3>2, CascadeIsOwn
        <3>4. x \in Stored /\ q \in Stored
            BY <1>1, <2>5, <3>1, StoredHas DEF New
        <3>5. x.cols = q.cols
            BY <3>1, <3>4 DEF AlikeInv, SameRow
        <3> QED
            BY <3>3, <3>5
    <2> QED
        BY <2>2, <2>3, <2>4, <2>5
<1> QED
    BY <1>4, <1>5

LEMMA GoneOwnStep ==
    ASSUME NEW c \in Clients, NEW d \in Clients, BaseInv, GoneInv, AlikeInv, UniqueInv, MentionInv,
           GoneOwn(c), ForgettingInv(c), Act(d) \/ Fail(d)
    PROVE  GoneOwn(c)'
<1>1. /\ TypeInv /\ Main(c) \in Connections /\ dialect' = dialect
      /\ \A n \in Connections \ {Conn(d)} : pend'[n] = pend[n]
    BY StepIsOne, MainIs DEF BaseInv
<1>2. CASE pend'[Main(c)].gone = {}
    BY <1>2 DEF GoneOwn, Gone, Main
<1>3. CASE pend'[Main(c)] = pend[Main(c)]
    <2>1. RestartTransaction(d) \/ RaisesAt(d) => rows' = rows
        BY <1>1, RaisesAtIs, RaiseLeaves DEF RestartTransaction
    <2> QED
        BY <1>3, <2>1, RaisesAre, GoneOwnStays
<1>4. CASE Main(c) = Conn(d)
    <2>1. d = c
        BY <1>4, ConnectionIs DEF Main
    <2>2. CASE Quiet(d)
        BY <1>1, <1>2, <1>3, <2>2, ClearedAre DEF Quiet, NoWork
    <2>3. CASE CommitWork(d)
        <3>1. pend'[Main(c)].gone = {}
            BY <1>1, <1>4, <2>3, CommitIs, FunctionalIs DEF NoWork
        <3> QED
            BY <1>2, <3>1
    <2>4. CASE InsertRow(d) \/ CountRow(d) \/ EraseRows(d)
        <3>1. ASSUME NEW q \in pend'[Main(c)].gone, q.table \in OfEntity, dialect \notin {"postgresql", "oracle"},
                     ~Has(pend'[Main(c)].new, q.table, q.id)
              PROVE  OwnEntity(c, q.cols["entity_id"])'
            <4>1. PICK i : i = q.cols["entity_id"]
                OBVIOUS
            <4>2. OwnEntity(c, i)
                BY <1>4, <2>1, <2>4, <3>1, <4>1, GoneOwnWrites
            <4>3. Doing(c)
                BY <2>1, <2>4 DEF Doing
            <4>4. OwnEntity(c, i)'
                BY <2>1, <4>2, <4>3, OwnGoesOn
            <4> QED
                BY <4>1, <4>4
        <3> QED
            BY <1>1, <3>1 DEF GoneOwn, New, Gone, Main
    <2> QED
        BY <2>2, <2>3, <2>4, StepIsOne
<1>5. CASE Main(c) # Conn(d)
    BY <1>1, <1>3, <1>5
<1> QED
    BY <1>4, <1>5

-----------------------------------------------------------------------------
(* The invariant of a client that forgets, step by step. *)
LEMMA StatementsRun ==
    ASSUME NEW c \in Clients, Doing(c)
    PROVE  /\ Here(c).do = "take" => LookUp(c)
           /\ Here(c).do = "add_absent" => InsertRow(c) \/ CountRow(c) \/ WriteNothing(c)
           /\ Here(c).do \in Erases => EraseRows(c)
           /\ Here(c).do \in Notes => NoteIds(c)
<1>1. FindRow(c) \/ JudgeConversation(c) \/ ReadMessages(c) \/ ReadNoted(c) \/ CommitWork(c) \/ Decide(c) \/ ChangeSession(c)
          => Here(c).do \notin {"take", "add_absent"} \cup Erases \cup Notes
    BY DEF FindRow, JudgeConversation, ReadMessages, ReadNoted, CommitWork, Decide, ChangeSession, Ready, Erases, Notes
<1>2. InsertRow(c) \/ CountRow(c) \/ WriteNothing(c) => Here(c).do \notin {"take"} \cup Erases \cup Notes
    BY DEF InsertRow, CountRow, WriteNothing, Ready, Adds, Erases, Notes
<1>3. LookUp(c) => Here(c).do \in {"look", "take"}
    BY DEF LookUp, Ready
<1>4. NoteIds(c) => Here(c).do \in Notes
    BY DEF NoteIds, Ready, Notes
<1>5. EraseRows(c) => Here(c).do \in Erases
    BY DEF EraseRows, Ready
<1>6. /\ "take" \notin Erases \cup Notes /\ "look" \notin Erases \cup Notes /\ "add_absent" \notin Erases \cup Notes
      /\ Erases \cap Notes = {}
    BY DEF Erases, Notes
<1> QED
    BY <1>1, <1>2, <1>3, <1>4, <1>5, <1>6 DEF Doing

\* Where a client that forgets is in its job.
LEMMA ForgetsAt ==
    ASSUME NEW c \in Clients, BaseInv, Running(c), Job(c) = "forget", NEW k, Forgetting(dialect, todo[c], k)
    PROVE  /\ k \in Nat
           /\ k > 0 => Here(c) \in Makings("entity") /\ Here(c).do \in {"find", "take", "add_ignoring", "add_absent", "commit"}
           /\ k = 0 => Here(c) \in Deletions(dialect) /\ Here(c).do \in Erases \cup Notes \cup {"commit"}
           /\ k = 1 => Here(c).table = "entity" /\ (Here(c).do = "take" \/ (Mongo /\ Here(c).do = "add_absent"))
           /\ Here(c).do \notin Branches
<1>1. /\ Len(todo[c]) \in Nat /\ Len(todo[c]) >= 1 /\ Here(c) = todo[c][1] /\ 1 \in 1 .. Len(todo[c])
      /\ Proper(Here(c)) /\ TypeInv
    BY HereIs DEF BaseInv
<1>2. k \in Nat /\ \A i \in 1 .. k : todo[c][i] \in Makings("entity")
    BY <1>1 DEF Forgetting
<1>3. k > 0 => Here(c) \in Makings("entity")
    BY <1>1, <1>2
<1>4. Here(c).do = "return_recent" \/ Here(c).do = "add" => Here(c).table # "entity"
    BY <1>1 DEF Proper
<1>5. k > 0 => Here(c).do \in {"find", "take", "add_ignoring", "add_absent", "commit"}
    BY <1>3, <1>4 DEF Makings
<1>6. k = 0 => Here(c) \in Deletions(dialect)
    BY <1>1 DEF Forgetting
<1>7. k = 0 => Here(c).do \in Erases \cup Notes \cup {"commit"}
    BY <1>6 DEF Deletions, Forgettings
<1>8. k = 1 => Gives(Mongo, "entity", Here(c))
    BY <1>1 DEF Forgetting, Mongo
<1>9. Here(c).do \notin Branches
    BY <1>2, <1>5, <1>7 DEF Branches, Erases, Notes
<1> QED
    BY <1>2, <1>3, <1>4, <1>5, <1>6, <1>7, <1>8, <1>9 DEF Gives

LEMMA ForgettingStays ==
    ASSUME NEW c \in Clients, NEW d \in Clients \ {c}, BaseInv, GoneInv, OldInv(c), ForgettingInv(c), Act(d) \/ Fail(d),
           Running(c)', Job(c)' = "forget"
    PROVE  ForgettingInv(c)'
<1>1. /\ dialect' = dialect /\ todo'[c] = todo[c] /\ got'[c] = got[c] /\ ids'[c] = ids[c]
      /\ Running(c)' = Running(c) /\ Here(c)' = Here(c) /\ Job(c)' = Job(c)
    BY StepIsOne, OthersStay DEF BaseInv
<1>2. \A i : OwnEntity(c, i) => OwnEntity(c, i)'
    BY OwnGoesOn
<1>3. \A t : Clear(c, t) => Clear(c, t)'
    BY <1>1, ClearStays
<1>4. PICK k : Forgetting(dialect, todo[c], k) /\ (k = 0 => Reached(c))
    BY <1>1 DEF ForgettingInv
<1>5. ASSUME Reached(c) PROVE Reached(c)'
    <2>1. PICK i : i = ids[c]["entity"]
        OBVIOUS
    <2>2. OwnEntity(c, i)'
        BY <1>2, <1>5, <2>1 DEF Reached
    <2>3. OwnEntity(c, ids[c]["entity"])'
        BY <1>1, <2>1, <2>2
    <2> QED
        BY <1>1, <1>3, <1>5, <2>3 DEF Reached
<1>6. ASSUME Here(c)'.do = "add_absent", got'[c] # 0 PROVE OwnEntity(c, got[c])'
    <2>1. PICK i : i = got[c]
        OBVIOUS
    <2>2. OwnEntity(c, i)'
        BY <1>1, <1>2, <1>6, <2>1 DEF ForgettingInv
    <2> QED
        BY <1>1, <2>1, <2>2
<1>7. \E l : Forgetting(dialect, todo[c], l)' /\ (l = 0 => Reached(c)')
    <2>1. Forgetting(dialect, todo[c], k)'
        BY <1>1, <1>4
    <2> QED
        BY <1>4, <1>5, <2>1
<1> QED
    BY <1>6, <1>7 DEF ForgettingInv

LEMMA ForgettingBegins ==
    ASSUME NEW c \in Clients, BaseInv, Begin(c), Act(c), Job(c)' = "forget"
    PROVE  ForgettingInv(c)'
<1>1. /\ TypeInv /\ dialect' = dialect /\ todo'[c] = Program("forget")
      /\ Head(Program("forget")).do \notin Bound
    <2>1. TypeInv /\ TodoInv /\ Frame(c) /\ dialect' = dialect
        BY StepIsOne DEF BaseInv
    <2>2. todo'[c] = Program(play[c].jobs[job'[c]]) /\ Job(c)' = play[c].jobs[job'[c]]
        BY <2>1, BeginTypes
    <2>3. "forget" \in JobKinds
        BY DEF JobKinds
    <2> QED
        BY <2>1, <2>2, <2>3, ProgramStarts
<1>2. dialect \in AllDialects
    BY <1>1, Assumed DEF TypeInv
<1>3. PICK k : k > 0 /\ Forgetting(dialect, Program("forget"), k)
    BY <1>2, ForgetIs DEF Program
<1>4. Here(c)'.do # "add_absent"
    BY <1>1 DEF Here, Bound, Follows
<1>5. Forgetting(dialect, todo[c], k)' /\ k # 0
    BY <1>1, <1>3 DEF Forgetting
<1> QED
    BY <1>4, <1>5 DEF ForgettingInv

-----------------------------------------------------------------------------
\* The statement that makes the entity's id known returns that of its own row.
LEMMA EntityGiven ==
    ASSUME NEW c \in Clients, BaseInv, GoneInv, AlikeInv, ForgettingInv(c), Act(c), Doing(c),
           Running(c), Job(c) = "forget", Here(c).table = "entity",
           Here(c).do = "take" \/ (Mongo /\ Here(c).do = "add_absent")
    PROVE  OwnEntity(c, ids[c]["entity"])'
<1>1. TypeInv /\ TodoInv /\ StoreInv /\ Conn(c) = Main(c) /\ "entity" \in Tables /\ Main(c) \in Connections
    BY ForgetIsMain, HasIs DEF BaseInv, Four
<1>2. ASSUME NEW i \in Nat, Return(c, "entity", i), OwnEntity(c, i)'
      PROVE  OwnEntity(c, ids[c]["entity"])'
    <2>1. ids'[c]["entity"] = i
        BY <1>1, <1>2, ReturnIs
    <2> QED
        BY <1>2, <2>1
<1>3. \A i : OwnEntity(c, i) => OwnEntity(c, i)'
    BY OwnGoesOn
<1>4. CASE Here(c).do = "take"
    <2>1. LookUp(c)
        BY <1>4, StatementsRun
    <2>2. PICK i \in FoundIds(c) : Return(c, "entity", i)
        BY <2>1 DEF LookUp
    <2>3. i \in Nat /\ i # 0
        BY <1>1, <1>4, <2>1, FoundAre DEF LookUp
    <2>4. OwnEntity(c, i)
        BY <1>1, <2>3, FoundIsOwn
    <2> QED
        BY <1>2, <1>3, <2>2, <2>3, <2>4
<1>5. CASE InsertRow(c) /\ Mongo
    <2>1. PICK i : i = Draft(c).id
        OBVIOUS
    <2>2. PICK a, e : a = {Draft(c)} /\ e = {} /\ Write(c, a, e)
        BY <1>1, <1>5, DraftIs
    <2>3. rows' = rows \cup a
        BY <1>1, <1>5, <2>2, WriteIs
    <2>4. i \in Nat /\ Return(c, "entity", i)
        <3>1. Draft(c).id = NewId("entity") /\ NewId("entity") \in Nat
            BY <1>1 DEF Draft, NewId, TypeInv
        <3> QED
            BY <1>5, <2>1, <3>1 DEF InsertRow, Mongo
    <2>5. Draft(c).table = "entity" /\ Draft(c).cols["external_id"] = play[c].entity
        <3>1. \A k \in Columns["entity"] : Draft(c).cols[k] = Value(c, "entity", k)
            BY <1>1, <1>5, DraftIs
        <3>2. Draft(c).cols["external_id"] = Value(c, "entity", "external_id") /\ Draft(c).table = "entity"
            BY <1>1, <1>5, <3>1, DraftIs, ColumnsAre
        <3> QED
            BY <3>2 DEF Value
    <2>6. ASSUME NEW e1 \in Stored', e1.table = "entity", e1.id = i
          PROVE  e1.cols["external_id"] = play[c].entity
        <3>1. e1 = Draft(c)
            <4>1. ASSUME NEW q \in Stored, Same(e1, q) PROVE FALSE
                <5>1. q.table = Draft(c).table /\ q.id = Draft(c).id
                    BY <2>1, <2>5, <2>6, <4>1 DEF Same
                <5> QED
                    BY <1>5, <5>1, DraftIsNew
            <4> QED
                BY <4>1, StoredGrows
        <3> QED
            BY <2>5, <3>1
    <2>7. Has(rows' \cup pend'[Main(c)].new, "entity", i)
        BY <2>1, <2>2, <2>3, <2>5 DEF Has
    <2>8. play' = play
        BY StepCounts
    <2> QED
        BY <1>2, <2>4, <2>6, <2>7, <2>8 DEF OwnEntity, New, Main
<1>6. CASE WriteNothing(c) /\ Mongo /\ Here(c).do = "add_absent"
    <2>1. got[c] \in Nat /\ Return(c, "entity", got[c])
        BY <1>1, <1>6 DEF WriteNothing, TypeInv, Mongo
    <2>2. got[c] # 0
        <3>1. ~LeftOut(c)
            BY DEF LeftOut
        <3>2. ~Inserts(c)
            BY <1>6, <3>1 DEF WriteNothing
        <3> QED
            BY <1>6, <3>2 DEF Inserts
    <2>3. OwnEntity(c, got[c])
        BY <1>6, <2>2 DEF ForgettingInv
    <2>4. PICK i : i = got[c]
        OBVIOUS
    <2> QED
        BY <1>2, <1>3, <2>1, <2>3, <2>4
<1>7. CASE CountRow(c) /\ Here(c).do = "add_absent"
    BY <1>7, CountingIs DEF CountRow
<1> QED
    BY <1>4, <1>5, <1>6, <1>7, StatementsRun

LEMMA ForgettingGoes ==
    ASSUME NEW c \in Clients, BaseInv, GoneInv, AlikeInv, LockInv, OldInv(c), ForgettingInv(c), Act(c), Doing(c),
           Running(c)', Job(c)' = "forget"
    PROVE  ForgettingInv(c)'
<1>1. PICK n : By(c, n)
    BY DoingIs DEF BaseInv
<1>2. /\ TypeInv /\ Running(c) /\ Goes(c, n) /\ job' = job /\ todo'[c] = After(todo[c], n) /\ n \in 1 .. Len(todo[c])
      /\ n = Len(todo[c]) => todo'[c] = <<>>
    BY <1>1, GoesOn DEF By, Goes, BaseInv
<1>3. /\ dialect' = dialect /\ play' = play /\ Job(c) = "forget" /\ dialect \in AllDialects
    BY <1>2, StepIsOne, Assumed DEF Job, TypeInv
<1>4. PICK k : Forgetting(dialect, todo[c], k) /\ (k = 0 => Reached(c))
    BY <1>2, <1>3 DEF ForgettingInv
<1>5. /\ n = 1 /\ todo[c] \in Seq(Stmt) /\ Len(todo[c]) > 1 /\ k \in Nat /\ Here(c) = todo[c][1]
    <2>1. todo[c] \in Seq(Stmt) /\ Here(c) = todo[c][1] /\ Len(todo[c]) \in Nat
        BY <1>2, HereIs DEF BaseInv
    <2>2. n = 1 /\ k \in Nat
        BY <1>2, <1>3, <1>4, ForgetsAt DEF Goes
    <2>3. n # Len(todo[c])
        BY <1>2 DEF Running
    <2>4. ASSUME NEW m, m \in Nat, 1 \in 1 .. m, 1 # m PROVE m > 1
        BY <2>4
    <2>5. Len(todo[c]) > 1
        BY <1>2, <2>1, <2>2, <2>3, <2>4
    <2> QED
        BY <2>1, <2>2, <2>5
<1> DEFINE l == IF k = 0 THEN 0 ELSE k - 1
<1>6. \A t \in Wiped :
          /\ k > 1 => Forgetting(dialect, todo'[c], l)
          /\ k <= 1 => Forgetting(dialect, todo'[c], 0)
          /\ k = 1 \/ (k = 0 /\ ~Wipes(t, Here(c)) /\ \E i \in 1 .. Len(todo[c]) : Wipes(t, todo[c][i]))
                => \E i \in 1 .. Len(todo'[c]) : Wipes(t, todo'[c][i])
    <2>1. PICK h : h = After(todo[c], 1)
        OBVIOUS
    <2> QED
        BY <1>2, <1>3, <1>4, <1>5, <2>1, ForgettingGoesOn
<1>7. "entity_fact" \in Wiped
    BY DEF Wiped
<1>8. \A i : OwnEntity(c, i) => OwnEntity(c, i)'
    BY OwnGoesOn
<1>9. k = 1 => Reached(c)'
    <2>1. ASSUME k = 1 PROVE OwnEntity(c, ids[c]["entity"])'
        <3>1. Here(c).table = "entity" /\ (Here(c).do = "take" \/ (Mongo /\ Here(c).do = "add_absent"))
            BY <1>2, <1>3, <1>4, <2>1, ForgetsAt
        <3> QED
            BY <1>2, <1>3, <3>1, EntityGiven
    <2> QED
        BY <1>6, <2>1 DEF Reached
<1>10. k = 0 => Reached(c)'
    <2> SUFFICES ASSUME k = 0 PROVE Reached(c)'
        OBVIOUS
    <2>1. Here(c).do \in Erases \cup Notes \cup {"commit"} /\ Reached(c) /\ Conn(c) = Main(c)
        BY <1>2, <1>3, <1>4, ForgetsAt, ForgetIsMain
    <2>2. ids' = ids
        <3>1. EraseRows(c) \/ NoteIds(c) \/ CommitWork(c)
            BY <2>1, StatementsRun, CommitRuns
        <3> QED
            BY <3>1 DEF EraseRows, NoteIds, CommitWork
    <2>3. OwnEntity(c, ids[c]["entity"])'
        <3>1. PICK i : i = ids[c]["entity"]
            OBVIOUS
        <3>2. OwnEntity(c, i)'
            BY <1>8, <2>1, <3>1 DEF Reached
        <3> QED
            BY <2>2, <3>1, <3>2
    <2>4. ASSUME NEW t \in Wiped PROVE Clear(c, t)' \/ \E i \in 1 .. Len(todo'[c]) : Wipes(t, todo'[c][i])
        <3>1. CASE Clear(c, t)
            BY <2>1, <2>2, <3>1, ClearStays
        <3>2. CASE Wipes(t, Here(c))
            <4>1. EraseRows(c)
                BY <3>2, StatementsRun DEF Wipes, Erases
            <4> QED
                BY <3>2, <4>1, ClearsNow
        <3>3. CASE ~Clear(c, t) /\ ~Wipes(t, Here(c))
            BY <1>6, <2>1, <3>3 DEF Reached
        <3> QED
            BY <3>1, <3>2, <3>3
    <2> QED
        BY <2>3, <2>4 DEF Reached
<1>11. \E m : Forgetting(dialect, todo[c], m)' /\ (m = 0 => Reached(c)')
    <2>1. CASE k > 1
        <3>1. PICK m : m = k - 1
            OBVIOUS
        <3>2. l = m /\ m # 0
            BY <1>5, <2>1, <3>1
        <3>3. Forgetting(dialect, todo[c], m)'
            BY <1>3, <1>6, <1>7, <2>1, <3>2
        <3> QED
            BY <3>2, <3>3
    <2>2. CASE k <= 1
        <3>1. Forgetting(dialect, todo[c], 0)'
            BY <1>3, <1>6, <1>7, <2>2
        <3> QED
            BY <1>5, <1>9, <1>10, <2>2, <3>1
    <2> QED
        BY <1>5, <2>1, <2>2
<1>12. ASSUME Here(c)'.do = "add_absent", got'[c] # 0 PROVE OwnEntity(c, got[c])'
    <2>1. PICK m : Forgetting(dialect, todo'[c], m)
        BY <1>3, <1>11
    <2>2. Here(c)' = todo'[c][1] /\ Len(todo'[c]) \in Nat /\ Len(todo'[c]) >= 1
        <3>1. Len(todo'[c]) = Len(todo[c]) - 1 /\ Len(todo[c]) \in Nat
            BY <1>2, <1>5, AfterIs
        <3> QED
            BY <1>5, <3>1 DEF Here
    <2>3. m \in Nat /\ (m > 0 => Here(c)' \in Makings("entity")) /\ (m = 0 => Here(c)' \in Deletions(dialect))
        BY <2>1, <2>2 DEF Forgetting
    <2>4. Here(c)'.table = "entity"
        <3>1. Here(c)' \notin Deletions(dialect)
            BY <1>12 DEF Deletions, Forgettings, Erases, Notes
        <3> QED
            BY <1>12, <2>3, <3>1 DEF Makings
    <2>5. Here(c).do = "find" /\ Here(c).table = "entity" /\ got'[c] \in FoundIds(c)
        BY <1>12, <2>4, GotIsFound DEF Four
    <2>6. PICK i : i = got'[c]
        OBVIOUS
    <2>7. OwnEntity(c, i)
        BY <1>2, <1>3, <1>12, <2>5, <2>6, FoundIsOwn, ForgetIsMain
    <2>8. OwnEntity(c, i)'
        BY <1>8, <2>7
    <2> QED
        BY <2>6, <2>8
<1> QED
    BY <1>11, <1>12 DEF ForgettingInv

LEMMA ForgettingStep ==
    ASSUME NEW c \in Clients, NEW d \in Clients, BaseInv, GoneInv, AlikeInv, LockInv, OldInv(c), ForgettingInv(c),
           Act(d) \/ Fail(d)
    PROVE  ForgettingInv(c)'
<1> SUFFICES ASSUME Running(c)', Job(c)' = "forget" PROVE ForgettingInv(c)'
    BY DEF ForgettingInv
<1>1. TypeInv /\ TodoInv /\ StoreInv /\ Frame(d)
    BY StepIsOne DEF BaseInv
<1>2. CASE d # c
    BY <1>2, ForgettingStays
<1>3. CASE d = c
    <2>1. CASE Begin(c)
        BY <2>1, ForgettingBegins DEF Act
    <2>2. CASE RestartTransaction(c)
        BY <1>1, <1>3, <2>2, RestartTypes
    <2>3. CASE RaisesAt(c)
        BY <1>1, <2>3, RaisesAtIs, RaiseLeaves
    <2>4. CASE Doing(c)
        <3>1. Act(c)
            BY <2>4 DEF Doing, Act
        <3> QED
            BY <2>4, <3>1, ForgettingGoes
    <2> QED
        BY <1>3, <2>1, <2>2, <2>3, <2>4, RaisesAre
<1> QED
    BY <1>2, <1>3

-----------------------------------------------------------------------------
ForgetInv == \A c \in Clients : OldInv(c) /\ GoneOwn(c) /\ ForgettingInv(c)

LEMMA ForgetInit ==
    ASSUME Init
    PROVE  ForgetInv
<1>1. /\ rows = {} /\ \A n \in Connections : pend[n] = NoWork
      /\ \A c \in Clients : before[c] = {} /\ ~Running(c)
    BY DEF Init, Running
<1>2. NoWork.new = {} /\ NoWork.gone = {}
    BY DEF NoWork
<1> QED
    BY <1>1, <1>2, MainIs DEF ForgetInv, OldInv, GoneOwn, ForgettingInv, New, Gone

LEMMA ForgetNext ==
    ASSUME BaseInv, CacheInv, SessionInv, RowInv, ForgetInv, NEW d \in Clients, Act(d) \/ Fail(d)
    PROVE  ForgetInv'
<1>1. GoneInv /\ AlikeInv /\ LockInv /\ UniqueInv /\ MentionInv
    BY DEF CacheInv, SessionInv, RowInv
<1>2. ASSUME NEW c \in Clients PROVE OldInv(c)' /\ GoneOwn(c)' /\ ForgettingInv(c)'
    <2>1. OldInv(c) /\ GoneOwn(c) /\ ForgettingInv(c)
        BY DEF ForgetInv
    <2>2. OldInv(c)'
        BY <1>1, <2>1, OldStep
    <2>3. GoneOwn(c)'
        BY <1>1, <2>1, GoneOwnStep
    <2>4. ForgettingInv(c)'
        BY <1>1, <2>1, ForgettingStep
    <2> QED
        BY <2>2, <2>3, <2>4
<1> QED
    BY <1>2 DEF ForgetInv

LEMMA ForgetStands ==
    ASSUME ForgetInv, UNCHANGED vars
    PROVE  ForgetInv'
<1> SUFFICES ASSUME NEW c \in Clients PROVE OldInv(c)' /\ GoneOwn(c)' /\ ForgettingInv(c)'
    BY DEF ForgetInv
<1>1. OldInv(c) /\ GoneOwn(c) /\ ForgettingInv(c)
    BY DEF ForgetInv
<1>2. UNCHANGED <<dialect, play, rows, last, pend, job, todo, ids, got, before>>
    BY DEF vars
<1>3. OldInv(c)'
    BY <1>1, <1>2 DEF OldInv, New
<1>4. \A i : OwnEntity(c, i)' <=> OwnEntity(c, i)
    <2>1. Stored' = Stored
        BY <1>2 DEF Stored, New
    <2> QED
        BY <1>2, <2>1 DEF OwnEntity, New
<1>5. GoneOwn(c)'
    BY <1>1, <1>2, <1>4 DEF GoneOwn, New, Gone
<1>6. Reached(c)' <=> Reached(c)
    <2>1. Standing(c)' = Standing(c)
        BY <1>2 DEF Standing, New, Gone
    <2>2. PICK i : i = ids[c]["entity"]
        OBVIOUS
    <2>3. OwnEntity(c, ids[c]["entity"])' <=> OwnEntity(c, ids[c]["entity"])
        BY <1>2, <1>4, <2>2
    <2> QED
        BY <1>2, <2>1, <2>3 DEF Reached, Clear
<1>7. ForgettingInv(c)'
    <2>1. OwnEntity(c, got[c])' <=> OwnEntity(c, got[c])
        <3>1. PICK i : i = got[c]
            OBVIOUS
        <3> QED
            BY <1>2, <1>4, <3>1
    <2>2. (Running(c)' <=> Running(c)) /\ Job(c)' = Job(c) /\ Here(c)' = Here(c)
        BY <1>2 DEF Running, Job, Here
    <2>3. ASSUME NEW k PROVE Forgetting(dialect, todo[c], k)' <=> Forgetting(dialect, todo[c], k)
        BY <1>2
    <2> QED
        BY <1>1, <1>2, <1>6, <2>1, <2>2, <2>3 DEF ForgettingInv
<1> QED
    BY <1>3, <1>5, <1>7

\* An entity that is the client's own is found under its name.
LEMMA OwnIsOfClient ==
    ASSUME NEW c \in Clients, play' = play, NEW i, OwnEntity(c, i)', pend'[Main(c)].new = {},
           NEW r, r.cols["entity_id"] = i
    PROVE  OfClient(c, rows', r)
<1>1. Has(rows' \cup pend'[Main(c)].new, "entity", i)
    BY DEF OwnEntity, New, Main
<1>2. PICK e \in rows' : e.table = "entity" /\ e.id = i
    BY <1>1 DEF Has
<1>3. e \in Stored'
    BY <1>2, StoredHas
<1>4. e.cols["external_id"] = play[c].entity
    BY <1>2, <1>3 DEF OwnEntity
<1> QED
    BY <1>2, <1>4 DEF OfClient

LEMMA OthersAreKept ==
    ASSUME BaseInv, CacheInv, SessionInv, RowInv, ForgetInv, NEW d \in Clients, Act(d) \/ Fail(d),
           NEW c \in Clients, Running(c), dialect \notin {"postgresql", "oracle"}
    PROVE  KeepsOthers(c)
<1>1. /\ TypeInv /\ TodoInv /\ StoreInv /\ GoneInv /\ AlikeInv /\ UniqueInv /\ MentionInv
      /\ GoneOwn(c) /\ ForgettingInv(c) /\ play' = play
    BY StepCounts DEF BaseInv, CacheInv, SessionInv, RowInv, ForgetInv
<1>2. SUFFICES ASSUME Job(c) = "forget", todo'[c] # todo[c], NEW r \in rows, r.table \in OfEntity,
                      ~OfClient(c, rows', r)
               PROVE  \E q \in rows' : SameRow(r, q)
    BY DEF KeepsOthers, OfEntity, Wiped
<1>3. d = c /\ Conn(c) = Main(c) /\ Main(c) \in Connections
    <2>1. Frame(d)
        BY StepIsOne
    <2> QED
        BY <1>1, <1>2, <2>1, OthersStay, ForgetIsMain
<1>4. SameRow(r, r)
    BY DEF SameRow
<1>5. CASE r \in rows'
    BY <1>4, <1>5
<1>6. ASSUME Doing(c), OwnEntity(c, r.cols["entity_id"]), pend'[Main(c)].new = {} PROVE FALSE
    <2>1. PICK i : i = r.cols["entity_id"]
        OBVIOUS
    <2>2. OwnEntity(c, i)'
        BY <1>1, <1>3, <1>6, <2>1, OwnGoesOn
    <2> QED
        BY <1>1, <1>2, <1>6, <2>1, <2>2, OwnIsOfClient
<1>7. CASE Quiet(c)
    BY <1>5, <1>7 DEF Quiet
<1>8. CASE CommitWork(c)
    <2>1. rows' = View(c) /\ pend'[Main(c)].new = {} /\ View(c) = (rows \ Gone(Main(c))) \cup New(Main(c))
        BY <1>1, <1>3, <1>8, CommitIs, FunctionalIs DEF NoWork, View, New, Gone
    <2>2. CASE r \in Gone(Main(c))
        <3>1. CASE Has(New(Main(c)), r.table, r.id)
            BY <2>1, <3>1 DEF Has, SameRow
        <3>2. CASE OwnEntity(c, r.cols["entity_id"])
            BY <1>6, <1>8, <2>1, <3>2 DEF Doing
        <3> QED
            BY <1>1, <1>2, <2>2, <3>1, <3>2 DEF GoneOwn
    <2> QED
        BY <1>2, <1>5, <2>1, <2>2
<1>9. CASE InsertRow(c)
    <2>1. PICK a, e : a = {Draft(c)} /\ e = {} /\ Write(c, a, e)
        BY <1>1, <1>9, DraftIs
    <2>2. rows \subseteq rows'
        BY <1>1, <2>1, WriteIs
    <2> QED
        BY <1>2, <1>5, <2>2
<1>10. CASE CountRow(c)
    <2>1. PICK f, a : /\ Write(c, a, Counted(c)) /\ a = {f[x] : x \in Counted(c)}
                      /\ \A x \in Counted(c) : Same(f[x], x)
        BY <1>1, <1>10, CopiesAre
    <2>2. rows' = rows \/ rows' = (rows \ Counted(c)) \cup a
        BY <1>1, <2>1, WriteIs
    <2>3. r \in Counted(c) => \E q \in a : SameRow(r, q)
        BY <2>1 DEF Same, SameRow
    <2> QED
        BY <1>2, <1>5, <2>2, <2>3
<1>11. CASE EraseRows(c)
    <2>1. PICK a : a = {} /\ Write(c, a, Cascade(c))
        BY <1>1, <1>11, EraseRowsIs
    <2>2. CASE Mongo
        <3>1. rows' = (rows \ Cascade(c)) \cup a /\ pend'[Main(c)].new = {}
            BY <1>1, <1>3, <2>1, <2>2, WriteIs DEF StoreInv, NoWork
        <3>2. CASE r \in Cascade(c)
            <4>1. OwnEntity(c, r.cols["entity_id"])
                BY <1>1, <1>2, <1>11, <3>2, CascadeIsOwn
            <4> QED
                BY <1>6, <1>11, <3>1, <4>1 DEF Doing
        <3> QED
            BY <1>2, <1>5, <2>1, <3>1, <3>2
    <2>3. CASE ~Mongo
        <3>1. rows' = rows
            BY <1>1, <2>1, <2>3, WriteIs
        <3> QED
            BY <1>2, <1>5, <3>1
    <2> QED
        BY <2>2, <2>3
<1> QED
    BY <1>3, <1>7, <1>8, <1>9, <1>10, <1>11, StepIsOne

-----------------------------------------------------------------------------
\* The statement a deletion returns from is the last of its program.
LEMMA ForgetsLast ==
    ASSUME BaseInv, CacheInv, SessionInv, RowInv, ForgetInv, NEW d \in Clients, Act(d) \/ Fail(d),
           NEW c \in Clients, Running(c), Job(c) = "forget", outcome'[c] = Append(outcome[c], "ok")
    PROVE  /\ d = c /\ Doing(c) /\ Act(c) /\ Reached(c) /\ ids' = ids /\ before'[c] = before[c]
           /\ \A t \in Wiped : Clear(c, t) \/ (EraseRows(c) /\ Wipes(t, Here(c)))
           /\ pend'[Main(c)].new = {} /\ pend'[Main(c)].gone = {}
<1>1. /\ TypeInv /\ TodoInv /\ StoreInv /\ Frame(d) /\ ForgettingInv(c) /\ outcome[c] \in Seq({"ok", "raised"})
      /\ Conn(c) = Main(c) /\ Main(c) \in Connections
    BY StepIsOne, ForgetIsMain DEF BaseInv, ForgetInv, TypeInv
<1>2. outcome[c] # Append(outcome[c], "ok") /\ Append(outcome[c], "raised") # Append(outcome[c], "ok")
    <2>1. Len(outcome[c]) \in Nat /\ \A x \in {"ok", "raised"} : /\ Len(Append(outcome[c], x)) = Len(outcome[c]) + 1
                                                                 /\ Append(outcome[c], x)[Len(outcome[c]) + 1] = x
        BY <1>1
    <2> QED
        BY <2>1
<1>3. d = c
    BY <1>1, <1>2, OthersStay
<1>4. Doing(c) /\ Act(c)
    <2>1. ~Begin(c)
        BY DEF Begin
    <2>2. ~RestartTransaction(c)
        BY <1>2 DEF RestartTransaction
    <2>3. ~RaisesAt(c)
        <3>1. RaisesAt(c) => outcome'[c] = Append(outcome[c], "raised")
            BY <1>1, RaisesAtIs, RaiseLeaves, FunctionalIs
        <3> QED
            BY <1>2, <3>1
    <2>4. Doing(c)
        BY <1>3, <2>1, <2>2, <2>3, RaisesAre
    <2> QED
        BY <2>4 DEF Doing, Act
<1>5. PICK n : By(c, n)
    BY <1>1, <1>4, DoingIs
<1>6. PICK k : Forgetting(dialect, todo[c], k) /\ (k = 0 => Reached(c))
    BY <1>1 DEF ForgettingInv
<1>7. /\ n = 1 /\ n = Len(todo[c]) /\ k \in Nat /\ Here(c) = todo[c][1]
    <2>1. n = 1 /\ k \in Nat
        BY <1>5, <1>6, ForgetsAt DEF By, Goes
    <2>2. n = Len(todo[c])
        <3>1. n # Len(todo[c]) => outcome' = outcome
            BY <1>1, <1>5, GoesOn DEF By
        <3> QED
            BY <1>2, <3>1
    <2>3. Here(c) = todo[c][1]
        BY <1>1, HereIs
    <2> QED
        BY <2>1, <2>2, <2>3
<1>8. k = 0
    <2>1. k > 0 => \E i \in 1 .. 1 : i > k
        BY <1>6, <1>7 DEF Forgetting, Wiped
    <2> QED
        BY <1>7, <2>1
<1>9. /\ Here(c).do \in Erases \cup Notes \cup {"commit"} /\ Reached(c)
      /\ ~Mongo => Here(c).do = "commit"
    <2>1. ~Mongo => Here(c).do = "commit"
        BY <1>6, <1>7 DEF Forgetting, Mongo
    <2> QED
        BY <1>6, <1>8, <2>1, ForgetsAt
<1>10. (EraseRows(c) \/ NoteIds(c) \/ CommitWork(c)) /\ (~Mongo => CommitWork(c)) /\ (Here(c).do \in Erases => EraseRows(c))
    BY <1>4, <1>9, StatementsRun, CommitRuns
<1>11. ids' = ids
    BY <1>10 DEF EraseRows, NoteIds, CommitWork
<1>12. before'[c] = before[c]
    <2>1. ~Begin(c)
        BY DEF Begin
    <2> QED
        BY <1>3, <2>1, StepKeeps
<1>13. ASSUME NEW t \in Wiped PROVE Clear(c, t) \/ (EraseRows(c) /\ Wipes(t, Here(c)))
    <2>1. Wipes(t, Here(c)) => EraseRows(c)
        BY <1>10 DEF Wipes, Erases
    <2>2. ASSUME NEW i \in 1 .. Len(todo[c]), Wipes(t, todo[c][i]) PROVE Wipes(t, Here(c))
        <3>1. i = 1
            BY <1>7
        <3> QED
            BY <1>7, <2>2, <3>1
    <2> QED
        BY <1>9, <2>1, <2>2 DEF Reached
<1>14. pend'[Main(c)].new = {} /\ pend'[Main(c)].gone = {}
    <2>1. CASE Mongo
        <3>1. PendingAre' /\ Mongo'
            BY <2>1, StepPending, StepCounts
        <3>2. pend'[Main(c)] = NoWork
            BY <1>1, <3>1 DEF PendingAre
        <3> QED
            BY <3>2 DEF NoWork
    <2>2. CASE ~Mongo
        BY <1>1, <1>10, <2>2, CommitIs, FunctionalIs DEF NoWork
    <2> QED
        BY <2>1, <2>2
<1> QED
    BY <1>3, <1>4, <1>9, <1>11, <1>12, <1>13, <1>14

LEMMA ForgottenAre ==
    ASSUME BaseInv, CacheInv, SessionInv, RowInv, ForgetInv, NEW d \in Clients, Act(d) \/ Fail(d),
           NEW c \in Clients, Running(c)
    PROVE  Forgotten(c)
<1>1. SUFFICES ASSUME Job(c) = "forget", outcome'[c] = Append(outcome[c], "ok"),
                      NEW r \in rows', r.table \in Wiped, OfClient(c, rows', r), <<r.table, r.id>> \in before[c]
               PROVE  FALSE
    BY DEF Forgotten, Wiped
<1>2. /\ TypeInv /\ GoneInv /\ AlikeInv /\ LockInv /\ UniqueInv /\ OldInv(c) /\ play' = play /\ schema' = schema
      /\ Conn(c) = Main(c) /\ Main(c) \in Connections
    BY <1>1, StepIsOne, ForgetIsMain DEF BaseInv, CacheInv, SessionInv, RowInv, ForgetInv
<1>3. /\ d = c /\ Doing(c) /\ Act(c) /\ Reached(c) /\ ids' = ids /\ before'[c] = before[c]
      /\ \A t \in Wiped : Clear(c, t) \/ (EraseRows(c) /\ Wipes(t, Here(c)))
      /\ pend'[Main(c)].new = {} /\ pend'[Main(c)].gone = {}
    BY <1>1, ForgetsLast
<1>4. Clear(c, r.table)'
    <2>1. PICK t : t = r.table
        OBVIOUS
    <2>2. t \in Wiped
        BY <1>1, <2>1
    <2>3. Clear(c, t) => Clear(c, t)'
        BY <1>2, <1>3, ClearStays
    <2>4. EraseRows(c) /\ Wipes(t, Here(c)) => Clear(c, t)'
        BY <1>2, <1>3, <2>2, ClearsNow
    <2> QED
        BY <1>3, <2>1, <2>2, <2>3, <2>4
<1>5. r \in Standing(c)'
    BY <1>3, StandingHas
<1>6. r.cols["entity_id"] # ids'[c]["entity"]
    BY <1>1, <1>3, <1>4, <1>5 DEF Clear
<1>7. PICK e \in rows' : e.table = "entity" /\ e.id = r.cols["entity_id"] /\ e.cols["external_id"] = play[c].entity
    BY <1>1 DEF OfClient
<1>8. PICK i : i = ids[c]["entity"]
    OBVIOUS
<1>9. OwnEntity(c, i)'
    BY <1>2, <1>3, <1>8, OwnGoesOn DEF Reached
<1>10. PICK o \in rows' : o.table = "entity" /\ o.id = i /\ o.cols["external_id"] = play[c].entity
    <2>1. Has(rows' \cup pend'[Main(c)].new, "entity", i)
        BY <1>9 DEF OwnEntity, New, Main
    <2>2. PICK o \in rows' : o.table = "entity" /\ o.id = i
        BY <1>3, <2>1 DEF Has
    <2>3. o \in Stored'
        BY <2>2, StoredHas
    <2> QED
        BY <1>2, <1>9, <2>2, <2>3 DEF OwnEntity
<1>11. {"external_id"} \in schema["entity"].keys
    <2>1. "entity" \in Tables \ {"conversation_message"}
        BY HasIs DEF Four
    <2>2. NaturalKey["entity"] \in schema["entity"].keys
        BY <1>2, <2>1, KeysAre
    <2> QED
        BY <2>2, NaturalKeysAre
<1>12. e = o
    <2>1. UniqueInv'
        BY <1>2, <1>3, UniqueStep
    <2>2. \A k \in {"external_id"} : e.cols[k] = o.cols[k]
        BY <1>7, <1>10
    <2>3. e.table = o.table /\ \E K \in schema[e.table].keys : \A k \in K : e.cols[k] = o.cols[k]
        BY <1>7, <1>10, <1>11, <2>2
    <2>4. \A x, q \in rows' : x.table = q.table /\ (\E K \in schema[x.table].keys : \A k \in K : x.cols[k] = q.cols[k]) => x = q
        BY <1>2, <2>1 DEF UniqueInv, Single, SameKey
    <2> QED
        BY <2>3, <2>4
<1> QED
    BY <1>3, <1>6, <1>7, <1>8, <1>10, <1>12

LEMMA ForgetHolds == Spec => []ForgetInv
<1>1. Init => ForgetInv
    BY ForgetInit
<1>2. BaseInv /\ CacheInv /\ SessionInv /\ RowInv /\ ForgetInv /\ [Next]_vars => ForgetInv'
    BY ForgetNext, ForgetStands DEF Next
<1> QED
    BY <1>1, <1>2, BaseHolds, CacheHolds, SessionHolds, RowHolds, PTL DEF Spec

\* When delete_entity_memories returns, the facts and triples its entity had when
\* it was called are gone, and outside PostgreSQL and Oracle it deletes nothing
\* of another entity, for any number of clients, jobs and faults.
THEOREM ForgettingIsExact == Spec => ForgetIsExact
<1>1. ASSUME BaseInv, CacheInv, SessionInv, RowInv, ForgetInv, [Next]_vars
      PROVE  [\A c \in Clients : Running(c) =>
                 /\ Forgotten(c)
                 /\ dialect \notin {"postgresql", "oracle"} => KeepsOthers(c)]_vars
    BY <1>1, ForgottenAre, OthersAreKept DEF Next
<1> QED
    BY <1>1, BaseHolds, CacheHolds, SessionHolds, RowHolds, ForgetHolds, PTL DEF Spec, ForgetIsExact
===============================================================================
